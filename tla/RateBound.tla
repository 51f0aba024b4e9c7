------------------------------ MODULE RateBound ------------------------------
(***************************************************************************)
(* What a limiter promises: of any n + 1 consecutive grants the last comes *)
(* at least w units of time after the first.                               *)
(***************************************************************************)
EXTENDS Integers, Sequences

CONSTANT Times  \* the moments at which a grant may happen

VARIABLES
    n,      \* how many grants may come close together
    w,      \* the time they are spread over; neither ever changes
    grants  \* the moments of the grants so far

Init == grants = <<>>

Grant(t) ==
    /\ \A i \in DOMAIN grants : grants[i] <= t
    /\ Len(grants) >= n => t - grants[Len(grants) + 1 - n] >= w
    /\ grants' = Append(grants, t)
    /\ UNCHANGED <<n, w>>

Next == \E t \in Times : Grant(t)

Spec == Init /\ [][Next]_<<n, w, grants>>
=============================================================================
