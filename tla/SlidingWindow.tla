---------------------------- MODULE SlidingWindow ----------------------------
(***************************************************************************)
(* limiter/sliding_window.go: Wait polls tryGrant, which forgets the grants *)
(* older than the window and grants while fewer than `allowed` are left.   *)
(***************************************************************************)
EXTENDS Limiter

VARIABLES
    times,   \* l.times
    polled   \* tryGrant has run at the current time, and the timer is running

vars == <<limiterVars, times, polled>>

(* limiter.New replaces a window that is not positive. *)
WindowSize == IF Window <= 0 THEN 1 ELSE Window

(* int(l.rps * l.window.Seconds()), but at least 1. *)
Allowed == Max({1, WindowSize \div Interval})

Init ==
    /\ LimiterInit
    /\ times = <<>>
    /\ polled = FALSE

(* Mutant: an entry is forgotten when it is exactly one window old. *)
StaleEarly(k) ==
    /\ \A j \in 1 .. k : times[j] <= now - WindowSize
    /\ k < Len(times) => times[k + 1] > now - WindowSize

(* Mutant: an entry is kept one unit too long. *)
StaleLate(k) ==
    /\ \A j \in 1 .. k : times[j] < now - WindowSize - 1
    /\ k < Len(times) => times[k + 1] >= now - WindowSize - 1

(* The first k entries of l.times, and no more, are before the cutoff. *)
Stale(k) ==
    /\ \A j \in 1 .. k : times[j] < now - WindowSize
    /\ k < Len(times) => times[k + 1] >= now - WindowSize

(* tryGrant(time.Now()), called by Wait; on failure the timer is started. *)
TryGrant ==
    /\ caller = "waiting"
    /\ ~polled
    /\ \E k \in 0 .. Len(times) :
        LET kept == SubSeq(times, k + 1, Len(times))
        IN  /\ Stale(k)
            /\ IF Len(kept) < Allowed
               THEN Return /\ times' = Append(kept, now) /\ UNCHANGED polled
               ELSE times' = kept /\ polled' = TRUE /\ UNCHANGED limiterVars

(* The clock moves on; the poll timer may fire. *)
Elapse ==
    /\ Advance
    /\ polled' = FALSE
    /\ UNCHANGED times

CallWait == Call /\ UNCHANGED <<times, polled>>

(* Wait returns only from its select, after a failed tryGrant. *)
FailWait == polled /\ Fail /\ polled' = FALSE /\ UNCHANGED times
CancelCtx == CancelContext /\ UNCHANGED <<times, polled>>

Next == CallWait \/ TryGrant \/ FailWait \/ CancelCtx \/ Elapse
Spec == Init /\ [][Next]_vars

-----------------------------------------------------------------------------
(* `times` is the recent part of the grants, never more than the budget, and
   every grant it has lost is older than the window. *)
RingHoldsRecent ==
    LET lost == Len(grants) - Len(times)
    IN  /\ lost \in Nat /\ Len(times) <= Allowed
        /\ times = SubSeq(grants, lost + 1, Len(grants))
        /\ \A i \in 1 .. lost : grants[i] < now - WindowSize
        /\ \A i \in DOMAIN grants : grants[i] <= now

(* Nobody waits longer than it takes the oldest grant to leave the window: a
   tryGrant that fails does so at most a window after Wait was called. *)
WaitsAtMostAWindow == (caller = "waiting" /\ polled) => Waited <= WindowSize
=============================================================================
