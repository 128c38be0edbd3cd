--------------------------- MODULE MCDirectDebit ---------------------------
EXTENDS DirectDebit

CONSTANTS
    a2, i1, i2,            \* the account and the IBANs that the sample requests name
    plain, spaced, distinct  \* IBANs of club accounts: the second is the first with spaces

DebitSymmetry == Permutations(Members)

\* A first account, a second one without a complete mandate, the revocation of a
\* mandate, and a change of the IBAN of the first account.
SomeBankRequests ==
    {[at |-> 0, iban |-> i1, mandate |-> TRUE, complete |-> TRUE],
     [at |-> 0, iban |-> i2, mandate |-> TRUE, complete |-> FALSE],
     [at |-> 0, iban |-> i1, mandate |-> FALSE, complete |-> FALSE],
     [at |-> 1, iban |-> i2, mandate |-> TRUE, complete |-> TRUE]}

\* A new fee, a free one without a creditor of its own, a change of the amount with a
\* move to another creditor, and a request that names nothing but another label.
SomeFeeRequests ==
    {[starts |-> 1, amount |-> 2, maturity |-> 1, method |-> "sepa", creditor |-> SAME,
      other |-> FALSE],
     [starts |-> 2, amount |-> 0, maturity |-> 2, method |-> SAME, creditor |-> NULL,
      other |-> FALSE],
     [starts |-> 2, amount |-> 3, maturity |-> 1, method |-> SAME, creditor |-> a2,
      other |-> TRUE],
     [starts |-> 2, amount |-> SAME, maturity |-> SAME, method |-> SAME, creditor |-> SAME,
      other |-> TRUE]}

WithoutSpaces == [i \in ClubIbans |-> IF i = spaced THEN plain ELSE i]

\* Two default accounts, one that differs from the first only by spaces, and one
\* that has no BIC.
SomeAccountRows ==
    {[iban |-> plain, isDefault |-> TRUE, bic |-> TRUE],
     [iban |-> spaced, isDefault |-> FALSE, bic |-> TRUE],
     [iban |-> distinct, isDefault |-> TRUE, bic |-> TRUE],
     [iban |-> distinct, isDefault |-> FALSE, bic |-> FALSE]}

SomeImportRows ==
    {[iban |-> i1, mandate |-> TRUE, next |-> "followup"],
     [iban |-> i2, mandate |-> FALSE, next |-> "first"]}
============================================================================
