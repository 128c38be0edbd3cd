--------------------------- MODULE RateLimiterState ---------------------------
(***************************************************************************)
(* The state of RateLimiter, what Allow reads off from it, and what the    *)
(* limiter promises.                                                       *)
(***************************************************************************)
EXTENDS Deployment, Integers, Sequences

Record == [count : Nat \ {0}, start : Nat]
NoRecord == [count |-> 0, start |-> 0]

VARIABLES
    records,    \* the map of each process
    admitted    \* history: when a process let an address in, and in which window

Known(p, a) == records[p][a] # NoRecord

\* now.Sub(windowStart) > window
Over(record) == now - record.start > Window

Open(p, a) == Known(p, a) /\ ~Over(records[p][a])

\* Slip: every request prolongs the window.
Prolonged(p, a) == [records[p][a] EXCEPT !.count = @ + 1, !.start = now]

\* record.count++
Counted(p, a) == [records[p][a] EXCEPT !.count = @ + 1]

\* Slip: the request is compared with the limit before it is counted.
ComparedFirst(p, a) == records[p][a].count <= Limit

Allowed(p, a) == Counted(p, a).count <= Limit

-------------------------------------------------------------------------------
\* A window begins with a request, not at a fixed time, and does not slide: an
\* address may be let in Limit times at the end of one window and Limit times at
\* the beginning of the next, but never more often than that within the length of
\* a window, by a process (ratelimit.go:54-66).
AtMostTwoWindows ==
    \A p \in Instances, a \in Addresses :
        LET times == admitted[p][a] IN
        \A k \in 1 .. Len(times) - 2 * Limit :
            times[k + 2 * Limit].at - times[k].at > Window

\* The other half: an address whose next request is refused was let in Limit
\* times within the last Window; neither requests that were refused nor windows
\* that are over are held against it, however often it has tried.
RefusalsDeserved ==
    \A p \in Instances, a \in Addresses :
        LET times == admitted[p][a] IN
        Open(p, a) /\ ~Allowed(p, a) =>
            /\ Len(times) >= Limit
            /\ now - times[Len(times) - Limit + 1].at <= Window
===============================================================================
