------------------------------ MODULE Limiters ------------------------------
(***************************************************************************)
(* limiter.New (limiter/limiter.go): one configuration, three algorithms.  *)
(* The endpoint's algorithm decides which limiter its dispatcher waits for; *)
(* the state of the two that were not built never changes.                 *)
(***************************************************************************)
EXTENDS Limiter

VARIABLES
    algorithm,             \* the algorithm New was called with
    due, ticked, stopped,  \* the state of StrictLimiter,
    times, polled,         \* of SlidingWindow
    credit                 \* and of TokenBucket

Strict == INSTANCE StrictLimiter
Sliding == INSTANCE SlidingWindow
Bucket == INSTANCE TokenBucket

strictState == <<due, ticked, stopped>>
slidingState == <<times, polled>>
vars == <<algorithm, limiterVars, strictState, slidingState, credit>>

Init ==
    /\ algorithm \in {"strict", "sliding_window", "token_bucket"}
    /\ Strict!Init
    /\ Sliding!Init
    /\ Bucket!Init

Next ==
    \/ /\ algorithm = "strict"
       /\ Strict!Next
       /\ UNCHANGED <<algorithm, slidingState, credit>>
    \/ /\ algorithm = "sliding_window"
       /\ Sliding!Next
       /\ UNCHANGED <<algorithm, strictState, credit>>
    \/ /\ algorithm = "token_bucket"
       /\ Bucket!Next
       /\ UNCHANGED <<algorithm, strictState, slidingState>>

Spec == Init /\ [][Next]_vars

-----------------------------------------------------------------------------
(* How many grants each algorithm lets come close together, however late the
   dispatcher is: the ticker stores one tick besides the one that is due, the
   window holds Allowed grants, the bucket holds a burst besides the token that
   matures. *)
CloseGrants ==
    CASE algorithm = "strict" -> 2
      [] algorithm = "sliding_window" -> Sliding!Allowed
      [] algorithm = "token_bucket" -> Bucket!BurstSize + 1

(* The time they are spread over; a closed window is one unit longer. *)
Spread == IF algorithm = "sliding_window" THEN Sliding!WindowSize + 1 ELSE Interval

(* "Limiter controls when rate-limited slots are made available" (limiter.go):
   however the calls of Wait fall, each algorithm implements the rate bound. *)
Rate == INSTANCE RateBound WITH n <- CloseGrants, w <- Spread, Times <- 0 .. MaxTime
RateSpec == Rate!Spec

(* A caller of Wait is never kept longer than its algorithm explains: an interval
   until the next tick, a window until a grant is forgotten, an interval until
   the reserved token is earned. *)
WaitBounded ==
    CASE algorithm = "strict" -> Strict!WaitsAtMostAnInterval
      [] algorithm = "sliding_window" -> Sliding!WaitsAtMostAWindow
      [] algorithm = "token_bucket" -> Bucket!WaitsAtMostAToken

(* sliding_window: `times` is the recent part of the grants, never more than the
   budget, and every grant it has lost is older than the window. *)
RingHoldsRecent == algorithm = "sliding_window" => Sliding!RingHoldsRecent

(* token_bucket: over no stretch of time do bursts add up to a higher rate than the
   configured one. *)
KeepsConfiguredRate == algorithm = "token_bucket" => Bucket!KeepsConfiguredRate

(* token_bucket: the figure estimateWait subtracts from the queue length stays
   between a debt of one token and a full bucket. *)
AvailableBounded == algorithm = "token_bucket" => Bucket!AvailableBounded
=============================================================================
