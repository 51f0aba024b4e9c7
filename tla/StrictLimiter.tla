---------------------------- MODULE StrictLimiter ----------------------------
(***************************************************************************)
(* limiter/strict.go: Wait receives from a time.Ticker, whose channel      *)
(* holds one tick; a tick that finds the channel full is dropped.          *)
(***************************************************************************)
EXTENDS Limiter

VARIABLES
    due,     \* when the ticker fires next
    ticked,  \* the ticker's channel holds a tick
    stopped  \* ticker.Stop was called

tickerVars == <<due, ticked, stopped>>
vars == <<limiterVars, tickerVars>>

Init ==
    /\ LimiterInit
    /\ due = Interval
    /\ ticked = FALSE
    /\ stopped = FALSE

(* The runtime fires the ticker. *)
Tick ==
    /\ due = now
    /\ ~stopped
    /\ ticked' = TRUE
    /\ due' = due + Interval
    /\ UNCHANGED <<limiterVars, stopped>>

(* Time does not pass a tick that is due. *)
Elapse ==
    /\ stopped \/ now < due
    /\ Advance
    /\ UNCHANGED tickerVars

(* Mutant: a grant leaves the tick in the channel. *)
GrantKeepingTick ==
    /\ ticked
    /\ Return
    /\ UNCHANGED tickerVars

(* case <-l.ticker.C *)
Grant ==
    /\ ticked
    /\ Return
    /\ ticked' = FALSE
    /\ UNCHANGED <<due, stopped>>

(* Endpoint.Stop cancels the context before it stops the limiter. *)
Stop ==
    /\ ctxDone
    /\ stopped' = TRUE
    /\ UNCHANGED <<limiterVars, due, ticked>>

CallWait == Call /\ UNCHANGED tickerVars
FailWait == Fail /\ UNCHANGED tickerVars
CancelCtx == CancelContext /\ UNCHANGED tickerVars

Next == Tick \/ CallWait \/ Grant \/ FailWait \/ CancelCtx \/ Stop \/ Elapse
Spec == Init /\ [][Next]_vars

-----------------------------------------------------------------------------
(* Nobody waits for the limiter longer than an interval: a caller that has
   waited longer finds a tick, unless the endpoint is being stopped. *)
WaitsAtMostAnInterval == (Waited > Interval /\ ~ctxDone) => ticked
=============================================================================
