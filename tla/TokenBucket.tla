----------------------------- MODULE TokenBucket -----------------------------
(***************************************************************************)
(* limiter/token_bucket.go: a golang.org/x/time/rate limiter used through  *)
(* Wait and Tokens.  The bucket of that library is external to this        *)
(* repository and modelled from its use: Wait reserves one token, in       *)
(* advance if it must, and returns when the reservation has matured.       *)
(***************************************************************************)
EXTENDS Limiter

VARIABLE credit  \* time earned towards tokens; a token is worth an Interval

vars == <<limiterVars, credit>>

(* limiter.New replaces a burst that is not positive. *)
BurstSize == IF Burst <= 0 THEN 1 ELSE Burst

Full == BurstSize * Interval

(* The bucket starts full. *)
Init ==
    /\ LimiterInit
    /\ credit = Full

Elapse ==
    /\ Advance
    /\ credit' = Min({Full, credit + 1})

(* Mutant: Wait reserves two tokens. *)
CallWaitTwice ==
    /\ Call
    /\ credit' = credit - 2 * Interval

(* Wait reserves a token ... *)
CallWait ==
    /\ Call
    /\ credit' = credit - Interval

(* ... and returns when there is no debt left ... *)
Grant ==
    /\ credit >= 0
    /\ Return
    /\ UNCHANGED credit

(* ... or gives the token back when the context is done. *)
FailWait ==
    /\ Fail
    /\ credit' = Min({Full, credit + Interval})

CancelCtx == CancelContext /\ UNCHANGED credit

Next == CallWait \/ Grant \/ FailWait \/ CancelCtx \/ Elapse
Spec == Init /\ [][Next]_vars

(* TokensAvailable: int(l.rl.Tokens()), which truncates towards zero. *)
TokensAvailable ==
    IF credit >= 0 THEN credit \div Interval ELSE -((-credit) \div Interval)

-----------------------------------------------------------------------------
(* The grants since the start do not outrun one burst plus one per interval, nor
   do those that follow any of the grants. *)
WithinRate(interval) ==
    /\ (Len(grants) - BurstSize) * interval <= now
    /\ \A j \in DOMAIN grants : \A i \in 1 .. j :
        (j - i - BurstSize) * interval <= grants[j] - grants[i]

(* Bursts do not add up to a higher rate over any stretch of time, and no
   compensation lifts it above one per MinInterval. *)
KeepsConfiguredRate ==
    /\ WithinRate(Interval)
    /\ MinInterval <= BaseInterval => WithinRate(MinInterval)

(* Nobody waits longer than it takes to earn the reserved token. *)
WaitsAtMostAToken == Waited >= Interval => credit >= 0

(* What estimateWait subtracts from the queue length: a debt is at most the one
   token reserved for the ticket being dispatched, and a burst of tokens never
   exceeds the bucket. *)
AvailableBounded == TokensAvailable \in -1 .. BurstSize
=============================================================================
