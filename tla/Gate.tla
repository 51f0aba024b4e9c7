-------------------------------- MODULE Gate --------------------------------
(***************************************************************************)
(* What an endpoint promises its clients, whatever its scheduler and its   *)
(* rate-limiting algorithm: a bounded waiting room, a gate that lets each  *)
(* waiting request through at most once, and one answer per request that   *)
(* says what happened to it.                                               *)
(***************************************************************************)
EXTENDS Naturals, FiniteSets

CONSTANTS Requests, MaxQueueSize

VARIABLES
    queued,   \* requests in the waiting room
    granted,  \* requests let through the gate
    reply,    \* the answer to each request
    stopped   \* the endpoint was told to stop

gateVars == <<queued, granted, reply, stopped>>

Init ==
    /\ queued = {}
    /\ granted = {}
    /\ reply = [r \in Requests |-> "none"]
    /\ stopped = FALSE

Open(r) == reply[r] = "none"
Entered(r) == r \in queued \cup granted
Answer(r, a) ==
    /\ Open(r)
    /\ reply' = [reply EXCEPT ![r] = a]
    /\ UNCHANGED <<queued, granted, stopped>>

(* A request enters the waiting room if there is room, once. *)
Enter(r) ==
    /\ Open(r) /\ ~Entered(r)
    /\ Cardinality(queued) < MaxQueueSize
    /\ queued' = queued \cup {r}
    /\ UNCHANGED <<granted, reply, stopped>>

(* The gate opens for one waiting request, whether or not its client is still
   there. *)
Grant(r) ==
    /\ r \in queued
    /\ queued' = queued \ {r}
    /\ granted' = granted \cup {r}
    /\ UNCHANGED <<reply, stopped>>

(* 200: only to a request that was let through. *)
Serve(r) == r \in granted /\ Answer(r, "ok")

(* 429: only to a request that never took a place. *)
Refuse(r) == ~Entered(r) /\ Answer(r, "refused")

(* 503: only when the endpoint was stopped. *)
TellStopped(r) == stopped /\ Answer(r, "unavailable")

(* The client of a request that took a place goes away. *)
Leave(r) == Entered(r) /\ Answer(r, "gone")

Stop == stopped' = TRUE /\ UNCHANGED <<queued, granted, reply>>

Next ==
    \/ \E r \in Requests :
        Enter(r) \/ Grant(r) \/ Serve(r) \/ Refuse(r) \/ TellStopped(r) \/ Leave(r)
    \/ Stop

Spec == Init /\ [][Next]_gateVars
=============================================================================
