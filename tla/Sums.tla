-------------------------------- MODULE Sums --------------------------------
(***************************************************************************)
(* Facts about SumFunctionOnSet, the sum of a function over a finite set.  *)
(*                                                                         *)
(* The sum folds over a set in an order that CHOOSE fixes.  That there is  *)
(* such a fold, and that the order does not matter, is shown by looking at *)
(* a least counterexample, since the induction theorems of the library     *)
(* take an operator that no prover here can instantiate.                   *)
(***************************************************************************)
EXTENDS Integers, FiniteSets, Functions, FiniteSetTheorems, TLAPS

\* A family of subsets of a finite set has a minimal member.
LEMMA MinimalSubset ==
    ASSUME NEW S, IsFiniteSet(S), NEW Bad \in SUBSET SUBSET S, Bad # {}
    PROVE  \E T \in Bad : \A U \in Bad : U \subseteq T => U = T
<1>1. IsWellFoundedOn(StrictSubsetOrdering(S), SUBSET S)
  BY FS_StrictSubsetOrderingWellFounded, FS_FiniteSubsetsOfFinite
<1>2. PICK T \in Bad : \A U \in Bad : ~ (<<U, T>> \in StrictSubsetOrdering(S))
  BY <1>1, WFMin
<1>3. ASSUME NEW U \in Bad, U \subseteq T PROVE U = T
  <2>1. U \in SUBSET S /\ T \in SUBSET S
    OBVIOUS
  <2>2. U # T => <<U, T>> \in StrictSubsetOrdering(S)
    BY <1>3, <2>1 DEF StrictSubsetOrdering
  <2>. QED BY <1>2, <2>2
<1>. QED BY <1>3

First(s) == CHOOSE x \in s : TRUE

LEMMA FirstIsMember == \A s : s # {} => First(s) \in s
  BY DEF First

\* The partial sums of f over the subsets of S, as the fold computes them.
Folds(g, f, S) ==
    g = [s \in SUBSET S |-> IF s = {} THEN 0 ELSE f[First(s)] + g[s \ {First(s)}]]

\* Two folds agree wherever both are defined.
LEMMA FoldsAgree ==
    ASSUME NEW S, IsFiniteSet(S), NEW f, NEW g, NEW h, NEW T,
           Folds(g, f, S), Folds(h, f, T)
    PROVE  \A U \in SUBSET (S \cap T) : g[U] = h[U]
<1>. DEFINE Bad == {U \in SUBSET (S \cap T) : g[U] # h[U]}
<1>. SUFFICES ASSUME Bad # {} PROVE FALSE
  OBVIOUS
<1>1. Bad \in SUBSET SUBSET S
  OBVIOUS
<1>2. PICK U \in Bad : \A V \in Bad : V \subseteq U => V = U
  <2>. HIDE DEF Bad
  <2>. QED BY <1>1, MinimalSubset
<1>3. U \in SUBSET S /\ U \in SUBSET T /\ g[U] # h[U]
  OBVIOUS
<1>4. U # {}
  BY <1>3 DEF Folds
<1>5. First(U) \in U
  BY <1>4, FirstIsMember
<1>6. g[U \ {First(U)}] = h[U \ {First(U)}]
  BY <1>2, <1>3, <1>5
<1>7. /\ g[U] = f[First(U)] + g[U \ {First(U)}]
      /\ h[U] = f[First(U)] + h[U \ {First(U)}]
  BY <1>3, <1>4 DEF Folds
<1>. QED BY <1>3, <1>6, <1>7

\* There is a fold over every finite set.
LEMMA FoldExists ==
    ASSUME NEW S, IsFiniteSet(S), NEW f
    PROVE  \E g : Folds(g, f, S)
<1>. DEFINE Bad == {T \in SUBSET S : \A g : ~Folds(g, f, T)}
<1>. SUFFICES ASSUME Bad # {} PROVE FALSE
  OBVIOUS
<1>1. PICK T \in Bad : \A V \in Bad : V \subseteq T => V = T
  <2>1. Bad \in SUBSET SUBSET S
    OBVIOUS
  <2>. HIDE DEF Bad
  <2>. QED BY <2>1, MinimalSubset
<1>. DEFINE G(s) == CHOOSE g : Folds(g, f, s)
            Value(s) == G(s)[s]
            g0 == [s \in SUBSET T |-> IF s = {} THEN 0 ELSE f[First(s)] + Value(s \ {First(s)})]
<1>2. ASSUME NEW V \in SUBSET T, V # T PROVE Folds(G(V), f, V)
  <2>1. \E g : Folds(g, f, V)
    BY <1>1, <1>2
  <2>. QED BY <2>1
<1>3. ASSUME NEW V \in SUBSET T, V # T, V # {}
      PROVE  Value(V) = f[First(V)] + Value(V \ {First(V)})
  <2>. DEFINE W == V \ {First(V)}
  <2>1. First(V) \in V /\ W \in SUBSET V /\ W \in SUBSET T /\ W # T
    BY <1>3, FirstIsMember
  <2>2. Folds(G(V), f, V) /\ Folds(G(W), f, W)
    BY <1>2, <1>3, <2>1
  <2>3. IsFiniteSet(V)
    BY FS_Subset
  <2>. HIDE DEF G, W
  <2>4. G(V)[W] = G(W)[W]
    BY <2>1, <2>2, <2>3, FoldsAgree
  <2>5. G(V)[V] = f[First(V)] + G(V)[V \ {First(V)}]
    BY <1>3, <2>2 DEF Folds
  <2>. QED BY <2>4, <2>5 DEF W
<1>4. ASSUME NEW V \in SUBSET T, V # T PROVE Value(V) = g0[V]
  <2>1. CASE V = {}
    <3>1. Folds(G(V), f, V)
      BY <1>2, <1>4
    <3>. QED BY <2>1, <3>1 DEF Folds
  <2>2. CASE V # {}
    <3>. HIDE DEF Value
    <3>. QED BY <1>3, <1>4, <2>2
  <2>. QED BY <2>1, <2>2
<1>. HIDE DEF Value
<1>5. ASSUME NEW s \in SUBSET T, s # {} PROVE g0[s] = f[First(s)] + g0[s \ {First(s)}]
  <2>1. First(s) \in s /\ s \ {First(s)} \in SUBSET T /\ s \ {First(s)} # T
    BY <1>5, FirstIsMember
  <2>2. g0[s] = f[First(s)] + Value(s \ {First(s)})
    BY <1>5
  <2>. HIDE DEF g0
  <2>. QED BY <1>4, <2>1, <2>2
<1>6. Folds(g0, f, T)
  <2>1. g0[{}] = 0 /\ DOMAIN g0 = SUBSET T /\ g0 = [s \in SUBSET T |-> g0[s]]
    OBVIOUS
  <2>. HIDE DEF g0
  <2>. QED BY <1>5, <2>1 DEF Folds
<1>. QED BY <1>6

(* What follows is all that the other modules use.                         *)

\* The sum is the last value of the fold.
LEMMA SumIsFold ==
    ASSUME NEW S, IsFiniteSet(S), NEW f
    PROVE  \E g : Folds(g, f, S) /\ SumFunctionOnSet(f, S) = g[S]
<1>. DEFINE total == CHOOSE g : Folds(g, f, S)
<1>1. SumFunctionOnSet(f, S) = total[S]
  BY DEF SumFunctionOnSet, FoldFunctionOnSet, MapThenFoldSet, First, Folds
<1>2. \E g : Folds(g, f, S)
  BY FoldExists
<1>3. Folds(total, f, S)
  BY <1>2
<1>. QED BY <1>1, <1>3

LEMMA SumOfNone == \A f : SumFunctionOnSet(f, {}) = 0
<1>. SUFFICES ASSUME NEW f PROVE SumFunctionOnSet(f, {}) = 0
  OBVIOUS
<1>1. PICK g : Folds(g, f, {}) /\ SumFunctionOnSet(f, {}) = g[{}]
  BY SumIsFold, FS_EmptySet
<1>. QED BY <1>1 DEF Folds

LEMMA SumFromFirst ==
    ASSUME NEW S, IsFiniteSet(S), S # {}, NEW f
    PROVE  SumFunctionOnSet(f, S)
             = f[First(S)] + SumFunctionOnSet(f, S \ {First(S)})
<1>. DEFINE R == S \ {First(S)}
<1>1. PICK g : Folds(g, f, S) /\ SumFunctionOnSet(f, S) = g[S]
  BY SumIsFold
<1>2. IsFiniteSet(R)
  BY FS_Subset
<1>3. PICK h : Folds(h, f, R) /\ SumFunctionOnSet(f, R) = h[R]
  BY <1>2, SumIsFold
<1>4. g[R] = h[R]
  <2>1. R \in SUBSET (S \cap R)
    OBVIOUS
  <2>. HIDE DEF R
  <2>. QED BY <1>1, <1>3, <2>1, FoldsAgree
<1>5. g[S] = f[First(S)] + g[R]
  BY <1>1 DEF Folds
<1>. QED BY <1>1, <1>3, <1>4, <1>5

\* A sum of integers is an integer.
LEMMA SumIsInt ==
    ASSUME NEW S, IsFiniteSet(S), NEW f, \A x \in S : f[x] \in Int
    PROVE  SumFunctionOnSet(f, S) \in Int
<1>. DEFINE Bad == {U \in SUBSET S : SumFunctionOnSet(f, U) \notin Int}
<1>. SUFFICES ASSUME Bad # {} PROVE FALSE
  OBVIOUS
<1>1. PICK U \in Bad : \A V \in Bad : V \subseteq U => V = U
  <2>1. Bad \in SUBSET SUBSET S
    OBVIOUS
  <2>. HIDE DEF Bad
  <2>. QED BY <2>1, MinimalSubset
<1>2. U # {} /\ First(U) \in U
  BY SumOfNone, FirstIsMember
<1>3. SumFunctionOnSet(f, U \ {First(U)}) \in Int
  BY <1>1, <1>2
<1>4. IsFiniteSet(U) /\ f[First(U)] \in Int
  BY <1>2, FS_Subset
<1>5. SumFunctionOnSet(f, U) = f[First(U)] + SumFunctionOnSet(f, U \ {First(U)})
  BY <1>2, <1>4, SumFromFirst
<1>. QED BY <1>3, <1>4, <1>5

\* The order does not matter: any element may be taken out first.
LEMMA SumFromAny ==
    ASSUME NEW S, IsFiniteSet(S), NEW f, \A y \in S : f[y] \in Int, NEW x \in S
    PROVE  SumFunctionOnSet(f, S) = f[x] + SumFunctionOnSet(f, S \ {x})
<1>. DEFINE Wrong(U) == \E z \in U :
              SumFunctionOnSet(f, U) # f[z] + SumFunctionOnSet(f, U \ {z})
            Bad == {U \in SUBSET S : Wrong(U)}
<1>. SUFFICES ASSUME Bad # {} PROVE FALSE
  OBVIOUS
<1>1. PICK U \in Bad : \A V \in Bad : V \subseteq U => V = U
  <2>1. Bad \in SUBSET SUBSET S
    OBVIOUS
  <2>. HIDE DEF Bad
  <2>. QED BY <2>1, MinimalSubset
<1>2. PICK z \in U : SumFunctionOnSet(f, U) # f[z] + SumFunctionOnSet(f, U \ {z})
  OBVIOUS
<1>. DEFINE c == First(U)
<1>3. c \in U /\ U \subseteq S /\ IsFiniteSet(U)
  BY FirstIsMember, FS_Subset
<1>4. SumFunctionOnSet(f, U) = f[c] + SumFunctionOnSet(f, U \ {c})
  BY <1>3, SumFromFirst
<1>5. z # c
  BY <1>2, <1>4
<1>6. ~Wrong(U \ {c}) /\ ~Wrong(U \ {z})
  <2>1. U \ {c} \notin Bad /\ U \ {z} \notin Bad
    BY <1>1, <1>3
  <2>. QED BY <1>3, <2>1
<1>. HIDE DEF c
<1>7. SumFunctionOnSet(f, U \ {c}) = f[z] + SumFunctionOnSet(f, (U \ {c}) \ {z})
  BY <1>5, <1>6
<1>8. SumFunctionOnSet(f, U \ {z}) = f[c] + SumFunctionOnSet(f, (U \ {z}) \ {c})
  BY <1>3, <1>5, <1>6
<1>9. (U \ {c}) \ {z} = (U \ {z}) \ {c}
  OBVIOUS
<1>10. f[z] \in Int /\ f[c] \in Int /\ SumFunctionOnSet(f, (U \ {z}) \ {c}) \in Int
  <2>1. IsFiniteSet((U \ {z}) \ {c})
    BY <1>3, FS_Subset
  <2>. QED BY <1>3, <2>1, SumIsInt
<1>11. ASSUME NEW a \in Int, NEW b \in Int, NEW d \in Int PROVE a + (b + d) = b + (a + d)
  OBVIOUS
<1>12. f[c] + (f[z] + SumFunctionOnSet(f, (U \ {z}) \ {c}))
         = f[z] + (f[c] + SumFunctionOnSet(f, (U \ {z}) \ {c}))
  BY <1>10, <1>11
<1>. HIDE DEF Bad
<1>. QED BY <1>2, <1>4, <1>7, <1>8, <1>9, <1>12

\* Only the values on the set count.
LEMMA SumOfSame ==
    ASSUME NEW S, IsFiniteSet(S), NEW f, NEW h, \A x \in S : f[x] = h[x]
    PROVE  SumFunctionOnSet(f, S) = SumFunctionOnSet(h, S)
<1>1. PICK g : Folds(g, f, S) /\ SumFunctionOnSet(f, S) = g[S]
  BY SumIsFold
<1>2. [s \in SUBSET S |-> IF s = {} THEN 0 ELSE f[First(s)] + g[s \ {First(s)}]]
        = [s \in SUBSET S |-> IF s = {} THEN 0 ELSE h[First(s)] + g[s \ {First(s)}]]
  <2>1. ASSUME NEW s \in SUBSET S, s # {} PROVE f[First(s)] = h[First(s)]
    BY <2>1, FirstIsMember
  <2>. QED BY <2>1
<1>3. Folds(g, h, S)
  BY <1>1, <1>2 DEF Folds
<1>4. PICK k : Folds(k, h, S) /\ SumFunctionOnSet(h, S) = k[S]
  BY SumIsFold
<1>5. g[S] = k[S]
  BY <1>3, <1>4, FoldsAgree
<1>. QED BY <1>1, <1>4, <1>5

LEMMA SumOfOne ==
    ASSUME NEW x, NEW f, f[x] \in Int
    PROVE  SumFunctionOnSet(f, {x}) = f[x]
<1>1. SumFunctionOnSet(f, {x}) = f[x] + SumFunctionOnSet(f, {x} \ {x})
  BY SumFromAny, FS_Singleton
<1>2. {x} \ {x} = {}
  OBVIOUS
<1>. QED BY <1>1, <1>2, SumOfNone

LEMMA SumOfZeros ==
    ASSUME NEW S, IsFiniteSet(S), NEW f, \A x \in S : f[x] = 0
    PROVE  SumFunctionOnSet(f, S) = 0
<1>. DEFINE Bad == {U \in SUBSET S : SumFunctionOnSet(f, U) # 0}
<1>. SUFFICES ASSUME Bad # {} PROVE FALSE
  OBVIOUS
<1>1. PICK U \in Bad : \A V \in Bad : V \subseteq U => V = U
  <2>1. Bad \in SUBSET SUBSET S
    OBVIOUS
  <2>. HIDE DEF Bad
  <2>. QED BY <2>1, MinimalSubset
<1>2. U # {} /\ First(U) \in U /\ U \subseteq S /\ IsFiniteSet(U)
  BY SumOfNone, FirstIsMember, FS_Subset
<1>3. SumFunctionOnSet(f, U \ {First(U)}) = 0
  BY <1>1, <1>2
<1>4. SumFunctionOnSet(f, U) = f[First(U)] + SumFunctionOnSet(f, U \ {First(U)})
  BY <1>2, SumFromFirst
<1>5. SumFunctionOnSet(f, U) = 0
  BY <1>2, <1>3, <1>4
<1>. QED BY <1>5

LEMMA SumOfNegated ==
    ASSUME NEW S, IsFiniteSet(S), NEW f, NEW h, \A x \in S : f[x] \in Int /\ h[x] = -f[x]
    PROVE  SumFunctionOnSet(h, S) = -SumFunctionOnSet(f, S)
<1>. DEFINE Bad == {U \in SUBSET S : SumFunctionOnSet(h, U) # -SumFunctionOnSet(f, U)}
<1>. SUFFICES ASSUME Bad # {} PROVE FALSE
  OBVIOUS
<1>1. PICK U \in Bad : \A V \in Bad : V \subseteq U => V = U
  <2>1. Bad \in SUBSET SUBSET S
    OBVIOUS
  <2>. HIDE DEF Bad
  <2>. QED BY <2>1, MinimalSubset
<1>2. U # {} /\ First(U) \in U /\ U \subseteq S /\ IsFiniteSet(U)
  <2>1. SumFunctionOnSet(h, {}) = -SumFunctionOnSet(f, {})
    <3>1. SumFunctionOnSet(h, {}) = 0 /\ SumFunctionOnSet(f, {}) = 0
      BY SumOfNone
    <3>2. \A m, n \in Int : m + n = 0 => m = -n
      OBVIOUS
    <3>3. /\ SumFunctionOnSet(h, {}) \in Int /\ SumFunctionOnSet(f, {}) \in Int
          /\ SumFunctionOnSet(h, {}) + SumFunctionOnSet(f, {}) = 0
      BY <3>1
    <3>. QED BY <3>2, <3>3
  <2>. QED BY <2>1, FirstIsMember, FS_Subset
<1>. DEFINE c == First(U)  a == SumFunctionOnSet(f, U \ {c})  b == SumFunctionOnSet(h, U \ {c})
<1>3. b = -a
  BY <1>1, <1>2
<1>4. a \in Int
  BY <1>2, FS_Subset, SumIsInt
<1>5. SumFunctionOnSet(f, U) = f[c] + a
  BY <1>2, SumFromFirst
<1>6. SumFunctionOnSet(h, U) = h[c] + b
  BY <1>2, SumFromFirst
<1>7. f[c] \in Int /\ h[c] = -f[c]
  BY <1>2
<1>. HIDE DEF a, b, c
<1>8. h[c] + b = -(f[c] + a)
  BY <1>3, <1>4, <1>7
<1>. QED BY <1>5, <1>6, <1>8

\* The fibre of k under the function key.
Fibre(S, key, k) == {x \in S : key[x] = k}

\* A sum may be taken group by group.
LEMMA SumByGroups ==
    ASSUME NEW S, IsFiniteSet(S), NEW f, \A x \in S : f[x] \in Int,
           NEW K, IsFiniteSet(K), NEW key, \A x \in S : key[x] \in K
    PROVE  SumFunctionOnSet([k \in K |-> SumFunctionOnSet(f, Fibre(S, key, k))], K)
             = SumFunctionOnSet(f, S)
<1>. DEFINE Group(U) == [k \in K |-> SumFunctionOnSet(f, Fibre(U, key, k))]
            Bad == {U \in SUBSET S : SumFunctionOnSet(Group(U), K) # SumFunctionOnSet(f, U)}
<1>. SUFFICES ASSUME Bad # {} PROVE FALSE
  OBVIOUS
<1>1. PICK U \in Bad : \A V \in Bad : V \subseteq U => V = U
  <2>1. Bad \in SUBSET SUBSET S
    OBVIOUS
  <2>. HIDE DEF Bad
  <2>. QED BY <2>1, MinimalSubset
<1>2. U \in SUBSET S /\ SumFunctionOnSet(Group(U), K) # SumFunctionOnSet(f, U)
  OBVIOUS
<1>3. ASSUME NEW V \in SUBSET S, NEW k \in K
      PROVE  /\ Group(V)[k] = SumFunctionOnSet(f, Fibre(V, key, k))
             /\ Group(V)[k] \in Int
             /\ IsFiniteSet(V) /\ IsFiniteSet(Fibre(V, key, k))
  <2>1. Fibre(V, key, k) \in SUBSET S
    BY DEF Fibre
  <2>2. IsFiniteSet(Fibre(V, key, k)) /\ IsFiniteSet(V)
    BY <2>1, FS_Subset
  <2>. QED BY <2>1, <2>2, SumIsInt
<1>4. U # {}
  <2>. SUFFICES ASSUME U = {} PROVE FALSE
    OBVIOUS
  <2>1. \A k \in K : Group({})[k] = 0
    <3>1. \A k \in K : Fibre({}, key, k) = {}
      BY DEF Fibre
    <3>. QED BY <3>1, SumOfNone
  <2>. HIDE DEF Group
  <2>2. SumFunctionOnSet(Group({}), K) = 0
    BY <2>1, SumOfZeros
  <2>. QED BY <1>2, <2>2, SumOfNone
<1>. DEFINE c == First(U)  R == U \ {c}  k0 == key[c]
<1>5. c \in U /\ c \in S /\ k0 \in K /\ R \in SUBSET S /\ R \in SUBSET U /\ R # U
  BY <1>2, <1>4, FirstIsMember
<1>6. SumFunctionOnSet(Group(R), K) = SumFunctionOnSet(f, R)
  BY <1>1, <1>5
<1>7. IsFiniteSet(U) /\ IsFiniteSet(R) /\ f[c] \in Int
  BY <1>2, <1>3, <1>5
<1>. HIDE DEF c
<1>8. SumFunctionOnSet(f, U) = f[c] + SumFunctionOnSet(f, R)
  BY <1>2, <1>5, <1>7, SumFromAny
<1>9. Group(U)[k0] = f[c] + Group(R)[k0]
  <2>1. Fibre(U, key, k0) \ {c} = Fibre(R, key, k0) /\ c \in Fibre(U, key, k0)
    BY <1>5 DEF Fibre
  <2>2. \A x \in Fibre(U, key, k0) : f[x] \in Int
    BY <1>2 DEF Fibre
  <2>3. IsFiniteSet(Fibre(U, key, k0))
    BY <1>2, <1>3, <1>5
  <2>4. SumFunctionOnSet(f, Fibre(U, key, k0))
          = f[c] + SumFunctionOnSet(f, Fibre(U, key, k0) \ {c})
    BY <2>1, <2>2, <2>3, SumFromAny
  <2>5. /\ Group(U)[k0] = SumFunctionOnSet(f, Fibre(U, key, k0))
        /\ Group(R)[k0] = SumFunctionOnSet(f, Fibre(R, key, k0))
    BY <1>2, <1>3, <1>5
  <2>. HIDE DEF Group, k0, R
  <2>. QED BY <2>1, <2>4, <2>5
<1>10. \A k \in K \ {k0} : Group(U)[k] = Group(R)[k]
  <2>1. \A k \in K \ {k0} : Fibre(U, key, k) = Fibre(R, key, k)
    BY DEF Fibre
  <2>. QED BY <2>1
<1>11. /\ \A k \in K : Group(U)[k] \in Int /\ Group(R)[k] \in Int
       /\ IsFiniteSet(K \ {k0})
  BY <1>2, <1>3, <1>5, FS_Subset
<1>. HIDE DEF Group, k0, R, Bad
<1>12. SumFunctionOnSet(Group(U), K \ {k0}) = SumFunctionOnSet(Group(R), K \ {k0})
  BY <1>10, <1>11, SumOfSame
<1>13. /\ SumFunctionOnSet(Group(U), K) = Group(U)[k0] + SumFunctionOnSet(Group(U), K \ {k0})
       /\ SumFunctionOnSet(Group(R), K) = Group(R)[k0] + SumFunctionOnSet(Group(R), K \ {k0})
  BY <1>5, <1>11, SumFromAny
<1>14. SumFunctionOnSet(Group(R), K \ {k0}) \in Int
  BY <1>11, SumIsInt
<1>15. ASSUME NEW x \in Int, NEW y \in Int, NEW z \in Int PROVE (x + y) + z = x + (y + z)
  OBVIOUS
<1>16. (f[c] + Group(R)[k0]) + SumFunctionOnSet(Group(R), K \ {k0})
         = f[c] + (Group(R)[k0] + SumFunctionOnSet(Group(R), K \ {k0}))
  BY <1>5, <1>7, <1>11, <1>14, <1>15
<1>. QED BY <1>2, <1>6, <1>8, <1>9, <1>12, <1>13, <1>16

LEMMA ImageIsFinite ==
    ASSUME NEW S, IsFiniteSet(S), NEW f
    PROVE  IsFiniteSet({f[x] : x \in S})
<1>. DEFINE T == {f[x] : x \in S}
<1>1. [x \in S |-> f[x]] \in Surjection(S, T)
  BY DEF Surjection
<1>. QED BY <1>1, FS_Surjection

LEMMA HasMaximum ==
    ASSUME NEW S, IsFiniteSet(S), S \subseteq Int, S # {}
    PROVE  \E m \in S : \A x \in S : x <= m
<1>. DEFINE Bad == {U \in SUBSET S : U # {} /\ ~ \E m \in U : \A x \in U : x <= m}
<1>. SUFFICES ASSUME Bad # {} PROVE FALSE
  OBVIOUS
<1>1. PICK U \in Bad : \A V \in Bad : V \subseteq U => V = U
  <2>1. Bad \in SUBSET SUBSET S
    OBVIOUS
  <2>. HIDE DEF Bad
  <2>. QED BY ONLY Bad # {}, IsFiniteSet(S), <2>1, MinimalSubset
<1>2. PICK c \in U : TRUE
  OBVIOUS
<1>3. CASE U = {c}
  BY <1>3
<1>4. CASE U \ {c} # {}
  <2>1. U \ {c} \notin Bad
    BY <1>1, <1>2
  <2>2. PICK m \in U \ {c} : \A x \in U \ {c} : x <= m
    BY <1>4, <2>1
  <2>3. U \subseteq Int
    OBVIOUS
  <2>3a. m \in Int /\ c \in Int
    BY <1>2, <2>3
  <2>4. CASE c <= m
    <3>1. \A x \in U : x <= m
      BY <2>2, <2>4
    <3>. QED BY <3>1
  <2>5. CASE m <= c
    <3>1. \A x \in U : x <= c
      <4>1. \A x \in U : x = c \/ x <= m
        BY <2>2
      <4>. HIDE DEF Bad
      <4>. QED BY <2>3, <2>3a, <2>5, <4>1
    <3>. QED BY <1>2, <3>1
  <2>. QED BY <2>3a, <2>4, <2>5
<1>. QED BY <1>2, <1>3, <1>4

\* Induction up to a bound, for sets of numbers.
LEMMA AllUpTo ==
    ASSUME NEW L \in Nat, NEW G \in SUBSET (0 .. L), 0 \in G, \A n \in G : n < L => n + 1 \in G
    PROVE  G = 0 .. L
<1>. DEFINE H == {n \in 0 .. L : 0 .. n \subseteq G}
<1>1. H # {} /\ IsFiniteSet(H) /\ H \subseteq Int
  <2>1. 0 .. 0 = {0} /\ 0 \in 0 .. L
    OBVIOUS
  <2>2. 0 \in H
    BY <2>1
  <2>3. IsFiniteSet(0 .. L)
    BY FS_Interval
  <2>4. H \subseteq 0 .. L
    OBVIOUS
  <2>. HIDE DEF H
  <2>5. IsFiniteSet(H)
    BY <2>3, <2>4, FS_Subset
  <2>. QED BY <2>2, <2>4, <2>5
<1>2. PICK m \in H : \A n \in H : n <= m
  <2>. HIDE DEF H
  <2>. QED BY ONLY <1>1, HasMaximum
<1>3. m \in 0 .. L /\ 0 .. m \subseteq G /\ m \in G
  BY <1>2
<1>4. CASE m < L
  <2>1. m + 1 \in G
    BY <1>3, <1>4
  <2>2. 0 .. m + 1 = 0 .. m \cup {m + 1} /\ m + 1 \in 0 .. L
    BY <1>3, <1>4
  <2>3. m + 1 \in H
    BY <1>3, <2>1, <2>2
  <2>4. m + 1 <= m
    BY <1>2, <2>3
  <2>. QED BY <1>3, <2>4
<1>5. CASE m = L
  BY <1>3, <1>5
<1>. QED BY <1>3, <1>4, <1>5

\* Counting is adding ones.
LEMMA CardinalityIsSum ==
    ASSUME NEW S, IsFiniteSet(S), NEW f, \A x \in S : f[x] = 1
    PROVE  SumFunctionOnSet(f, S) = Cardinality(S)
<1>. DEFINE Bad == {U \in SUBSET S : SumFunctionOnSet(f, U) # Cardinality(U)}
<1>. SUFFICES ASSUME Bad # {} PROVE FALSE
  OBVIOUS
<1>1. PICK U \in Bad : \A V \in Bad : V \subseteq U => V = U
  <2>1. Bad \in SUBSET SUBSET S
    OBVIOUS
  <2>. HIDE DEF Bad
  <2>. QED BY <2>1, MinimalSubset
<1>2. U # {} /\ First(U) \in U /\ U \subseteq S /\ IsFiniteSet(U)
  BY SumOfNone, FS_EmptySet, FirstIsMember, FS_Subset
<1>. DEFINE R == U \ {First(U)}
<1>3. SumFunctionOnSet(f, R) = Cardinality(R)
  BY <1>1, <1>2
<1>4. /\ Cardinality(R) = Cardinality(U) - 1
      /\ Cardinality(R) \in Nat /\ Cardinality(U) \in Nat
  BY <1>2, FS_RemoveElement, FS_CardinalityType
<1>5. SumFunctionOnSet(f, U) = f[First(U)] + SumFunctionOnSet(f, R)
  BY <1>2, SumFromFirst
<1>6. SumFunctionOnSet(f, U) = 1 + Cardinality(R)
  BY <1>2, <1>3, <1>5
<1>7. SumFunctionOnSet(f, U) = Cardinality(U)
  BY <1>4, <1>6
<1>. QED BY <1>7

\* A sum over T may be taken over any set whose elements stand for those of T.
LEMMA SumReindexed ==
    ASSUME NEW D, IsFiniteSet(D), NEW h, \A j, k \in D : h[j] = h[k] => j = k,
           NEW T, T = {h[k] : k \in D}, NEW f, \A t \in T : f[t] \in Int
    PROVE  SumFunctionOnSet([k \in D |-> f[h[k]]], D) = SumFunctionOnSet(f, T)
<1>. DEFINE e == [k \in D |-> f[h[k]]]
            groups == [t \in T |-> SumFunctionOnSet(e, Fibre(D, h, t))]
<1>1. IsFiniteSet(T) /\ \A k \in D : h[k] \in T
  BY ImageIsFinite
<1>2. \A k \in D : e[k] = f[h[k]] /\ e[k] \in Int
  OBVIOUS
<1>. HIDE DEF e
<1>3. SumFunctionOnSet(groups, T) = SumFunctionOnSet(e, D)
  BY <1>1, <1>2, SumByGroups
<1>4. ASSUME NEW t \in T PROVE groups[t] = f[t]
  <2>1. PICK k \in D : h[k] = t
    OBVIOUS
  <2>2. Fibre(D, h, t) = {k}
    BY <2>1 DEF Fibre
  <2>3. SumFunctionOnSet(e, {k}) = e[k]
    BY <1>2, SumOfOne
  <2>. QED BY <1>2, <2>1, <2>2, <2>3
<1>. HIDE DEF groups
<1>5. SumFunctionOnSet(groups, T) = SumFunctionOnSet(f, T)
  BY <1>1, <1>4, SumOfSame
<1>. QED BY <1>3, <1>5 DEF e

\* A sum of ones and zeros with a single one at most.
LEMMA SumOfAtMostOne ==
    ASSUME NEW S, IsFiniteSet(S), NEW f, \A x \in S : f[x] \in {0, 1},
           \A x, y \in S : f[x] = 1 /\ f[y] = 1 => x = y
    PROVE  SumFunctionOnSet(f, S) \in {0, 1}
<1>1. CASE \A x \in S : f[x] = 0
  BY <1>1, SumOfZeros
<1>2. CASE \E x \in S : f[x] = 1
  <2>1. PICK c \in S : f[c] = 1
    BY <1>2
  <2>2. \A x \in S \ {c} : f[x] = 0
    BY <2>1
  <2>3. SumFunctionOnSet(f, S \ {c}) = 0
    BY <2>2, FS_Subset, SumOfZeros
  <2>4. SumFunctionOnSet(f, S) = f[c] + SumFunctionOnSet(f, S \ {c})
    BY SumFromAny
  <2>. QED BY <2>1, <2>3, <2>4
<1>. QED BY <1>1, <1>2
=============================================================================
