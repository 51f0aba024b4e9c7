------------------------------- MODULE Limiter -------------------------------
(***************************************************************************)
(* What the limiters of limiter/ share: the Limiter interface as           *)
(* dispatchStandard uses it (one goroutine calls Wait, again and again,    *)
(* under one context) and the choice of the rate by limiter.New.           *)
(*                                                                         *)
(* Time is an integer count of some unit.  A rate is given by its          *)
(* interval, the time per request: 1 / toRPS(rate, unit).                  *)
(***************************************************************************)
EXTENDS Integers, Sequences, FiniteSetsExt

CONSTANTS
    BaseInterval,  \* 1 / toRPS(cfg.Rate, cfg.Unit)
    Compensation,  \* cfg.LatencyCompensation
    MinInterval,   \* the millisecond below which compensation cannot push the interval
    Window,        \* opts.WindowSeconds, the observation window of sliding_window
    Burst,         \* opts.BurstSize, for token_bucket
    MaxTime        \* bound on the clock

ASSUME IntervalAssumption == BaseInterval \in Nat \ {0} /\ MinInterval \in Nat \ {0}
ASSUME CompensationAssumption == Compensation \in Int
ASSUME WindowAssumption == Window \in Int /\ Burst \in Int
ASSUME MaxTimeAssumption == MaxTime \in Nat

VARIABLES
    now,      \* time.Now()
    caller,   \* where the dispatcher stands: "idle", "waiting" in Wait, "error" after it
    since,    \* when the running Wait was called
    grants,   \* history: the moments at which Wait returned nil
    ctxDone   \* the context given to Wait is cancelled

limiterVars == <<now, caller, since, grants, ctxDone>>

(* Mutant: the compensated interval may shrink below the floor. *)
IntervalNoFloor ==
    IF Compensation > 0 THEN Max({1, BaseInterval - Compensation})
    ELSE BaseInterval

(* The interval limiter.New gives to the algorithms. *)
Interval ==
    IF Compensation > 0 THEN Max({MinInterval, BaseInterval - Compensation})
    ELSE BaseInterval

LimiterInit ==
    /\ now = 0
    /\ caller = "idle"
    /\ since = 0
    /\ grants = <<>>
    /\ ctxDone = FALSE

(* The dispatcher calls Wait. *)
Call ==
    /\ caller = "idle"
    /\ caller' = "waiting"
    /\ since' = now
    /\ UNCHANGED <<now, grants, ctxDone>>

(* Wait returns nil. *)
Return ==
    /\ caller = "waiting"
    /\ caller' = "idle"
    /\ grants' = Append(grants, now)
    /\ UNCHANGED <<now, since, ctxDone>>

(* Wait returns ctx.Err(); the dispatcher ends. *)
Fail ==
    /\ caller = "waiting"
    /\ ctxDone
    /\ caller' = "error"
    /\ UNCHANGED <<now, since, grants, ctxDone>>

CancelContext ==
    /\ ctxDone' = TRUE
    /\ UNCHANGED <<now, caller, since, grants>>

Advance ==
    /\ now < MaxTime
    /\ now' = now + 1
    /\ UNCHANGED <<caller, since, grants, ctxDone>>

(* How long the running Wait has lasted. *)
Waited == IF caller = "waiting" THEN now - since ELSE 0
=============================================================================
