------------------------------ MODULE Endpoint ------------------------------
(***************************************************************************)
(* One endpoint: the handler goroutines (Endpoint.Handle), the queue, the  *)
(* `work` channel between handlers and dispatcher, and the event sink.     *)
(* endpoint/endpoint.go, endpoint/events.go.                               *)
(*                                                                         *)
(* This module holds the state and the handler steps both kinds of         *)
(* endpoint share.  EndpointStandard adds dispatchStandard and a Limiter,  *)
(* EndpointTokenWindow adds dispatchTokenWindow and a TokenWindow.         *)
(*                                                                         *)
(* A request stands for its handler goroutine and for its ticket: every    *)
(* request creates exactly one.  Each access to state another goroutine    *)
(* can see is a step of its own.                                           *)
(***************************************************************************)
EXTENDS Queue, FiniteSets

CONSTANTS
    Requests,    \* the requests clients may send
    Overflow,    \* cfg.Overflow; anything but "block" means reject
    Priorities,  \* the values the X-Priority header may parse to
    Timeouts,    \* effective admission timeouts, in units of the estimate; 0: none
    EventBuf     \* capacity of the event sink; 0: no sink configured

ASSUME RequestsAssumption == IsFiniteSet(Requests)
ASSUME EventBufAssumption == EventBuf \in Nat
ASSUME InputsAssumption == Priorities \subseteq Int /\ Timeouts \subseteq Nat

VARIABLES
    pc,          \* pc[r]: where the handler of r stands
    priority,    \* ticket.Priority
    enqueuedAt,  \* ticket.EnqueuedAt: the order in which tickets were stamped
    queue,       \* e.queue
    work,        \* number of signals buffered in e.work
    released,    \* tickets whose Release channel (capacity 1) holds a value
    ctxDone,     \* e.ctx is cancelled
    events,      \* the buffered event sink
    dpc,         \* where the dispatcher goroutine stands
    batch        \* tickets popped by the dispatcher, not yet sent to

ticketVars == <<priority, enqueuedAt>>
endpointVars == <<pc, priority, enqueuedAt, queue, work, released, ctxDone,
                  events, dpc, batch>>

EventKinds == {"queued", "served", "rejected"}

(* Between a successful Push and the select: the handler has not signalled. *)
Unsignalled == {"pushed", "account", "signal"}
(* The handler has pushed its ticket and has not answered. *)
InFlight == Unsignalled \cup {"waiting", "respond", "uncount"}
(* "turnedAway" is the 503 of the blocking push loop, "unavailable" the 503 of
   the select; only the latter has pushed a ticket. *)
Terminal == {"served", "rejected", "turnedAway", "unavailable", "gone"}
HandlerStates == {"idle", "admit", "push", "retry"} \cup InFlight \cup Terminal
DispatcherStates == {"select", "wait", "pop", "scan", "send", "settle", "exit"}

EndpointInit ==
    /\ pc = [r \in Requests |-> "idle"]
    /\ priority = [r \in Requests |-> 0]
    /\ enqueuedAt = [r \in Requests |-> 0]
    /\ queue = <<>>
    /\ work = 0
    /\ released = {}
    /\ ctxDone = FALSE
    /\ events = <<>>
    /\ dpc = "select"
    /\ batch = <<>>

Goto(r, label) == pc' = [pc EXCEPT ![r] = label]

(* PopWhere holds the queue's mutex while it scans. *)
QueueUnlocked == dpc # "scan"

(* Mutant: a sink that blocks when it is full. *)
EmitBlocking(kind) ==
    /\ EventBuf = 0 \/ Len(events) < EventBuf
    /\ events' = IF EventBuf = 0 THEN events ELSE Append(events, kind)

(* emit: a non-blocking send; the event is dropped when the sink is full. *)
Emit(kind) ==
    events' = IF Len(events) < EventBuf THEN Append(events, kind) ELSE events

(* Answer r with 429. *)
Reject(r) ==
    /\ Goto(r, "rejected")
    /\ Emit("rejected")

(* time.Now() as the order of arrivals, kept only where a ticket's age decides
   something: the priority queue is the one reader that compares ages. *)
Now ==
    IF Scheduler = "priority"
    THEN 1 + Cardinality({s \in Requests : pc[s] # "idle"})
    ELSE 0

(* A handler starts: it makes its ticket, stamped with the current time. *)
NewTicket(r) ==
    /\ pc[r] = "idle"
    /\ \E p \in Priorities : priority' = [priority EXCEPT ![r] = p]
    /\ enqueuedAt' = [enqueuedAt EXCEPT ![r] = Now]
    /\ UNCHANGED <<queue, work, released, ctxDone, dpc, batch>>

(* Admission control with the estimate est: reject when it exceeds the
   request's timeout, otherwise go on to push.  The estimate was read without
   any lock that lasts until the push. *)
Admission(r, est) ==
    /\ pc[r] = "admit"
    /\ \E timeout \in Timeouts :
        IF timeout > 0 /\ est > timeout
        THEN Reject(r)
        ELSE Goto(r, "push") /\ UNCHANGED events
    /\ UNCHANGED <<priority, enqueuedAt, queue, work, released, ctxDone, dpc, batch>>

(* Mutant: the bound of the queue is off by one. *)
PushOffByOne(r) ==
    /\ pc[r] = "push"
    /\ QueueUnlocked
    /\ Len(queue) <= MaxQueueSize
    /\ queue' = Append(queue, r)
    /\ Goto(r, "pushed")
    /\ UNCHANGED <<priority, enqueuedAt, work, released, ctxDone, events, dpc, batch>>

(* queue.Push returns true. *)
PushOK(r) ==
    /\ pc[r] = "push"
    /\ QueueUnlocked
    /\ ~Full(queue)
    /\ queue' = Append(queue, r)
    /\ Goto(r, "pushed")
    /\ UNCHANGED <<priority, enqueuedAt, work, released, ctxDone, events, dpc, batch>>

(* queue.Push returns false: 429, or under "block" wait a millisecond. *)
PushFull(r) ==
    /\ pc[r] = "push"
    /\ QueueUnlocked
    /\ Full(queue)
    /\ IF Overflow = "block"
       THEN Goto(r, "retry") /\ UNCHANGED events
       ELSE Reject(r)
    /\ UNCHANGED <<priority, enqueuedAt, queue, work, released, ctxDone, dpc, batch>>

(* The blocking loop's timer fires.  The loop does not watch r.Context(). *)
Retry(r) ==
    /\ pc[r] = "retry"
    /\ Goto(r, "push")
    /\ UNCHANGED <<priority, enqueuedAt, queue, work, released, ctxDone, events, dpc, batch>>

(* The blocking loop sees e.ctx.Done(): 503. *)
TurnAway(r) ==
    /\ pc[r] = "retry"
    /\ ctxDone
    /\ Goto(r, "turnedAway")
    /\ UNCHANGED <<priority, enqueuedAt, queue, work, released, ctxDone, events, dpc, batch>>

(* The ticket is queued; tell the sink.  `label` is where the handler goes on. *)
Announce(r, label) ==
    /\ pc[r] = "pushed"
    /\ Emit("queued")
    /\ Goto(r, label)
    /\ UNCHANGED <<priority, enqueuedAt, queue, work, released, ctxDone, dpc, batch>>

(* e.work <- struct{}{}: blocks while the channel is full. *)
Signal(r) ==
    /\ pc[r] = "signal"
    /\ work < MaxQueueSize
    /\ work' = work + 1
    /\ Goto(r, "waiting")
    /\ UNCHANGED <<priority, enqueuedAt, queue, released, ctxDone, events, dpc, batch>>

(* The select of Handle: the ticket was released ... *)
Receive(r) ==
    /\ pc[r] = "waiting"
    /\ r \in released
    /\ released' = released \ {r}
    /\ Goto(r, "respond")
    /\ UNCHANGED <<priority, enqueuedAt, queue, work, ctxDone, events, dpc, batch>>

(* ... or the endpoint was stopped (503) ... *)
Unavailable(r) ==
    /\ pc[r] = "waiting"
    /\ ctxDone
    /\ Goto(r, "unavailable")
    /\ UNCHANGED <<priority, enqueuedAt, queue, work, released, ctxDone, events, dpc, batch>>

(* ... or the client went away; the ticket is marked cancelled.  Any of the
   three may be taken when several are ready. *)
Disconnect(r, label) ==
    /\ pc[r] = "waiting"
    /\ Goto(r, label)
    /\ UNCHANGED <<priority, enqueuedAt, queue, work, released, ctxDone, events, dpc, batch>>

(* ticket.IsCancelled() *)
IsCancelled(r) == pc[r] \in {"uncount", "gone"}

(* Build the response (it reads the queue's length), emit, answer 200. *)
Respond(r) ==
    /\ pc[r] = "respond"
    /\ QueueUnlocked
    /\ Emit("served")
    /\ Goto(r, "served")
    /\ UNCHANGED <<priority, enqueuedAt, queue, work, released, ctxDone, dpc, batch>>

(* Stop cancels e.ctx. *)
Cancel ==
    /\ ctxDone' = TRUE
    /\ UNCHANGED <<pc, priority, enqueuedAt, queue, work, released, events, dpc, batch>>

(* The reader of the event sink takes one event. *)
SinkReceive ==
    /\ events # <<>>
    /\ events' = Tail(events)
    /\ UNCHANGED <<pc, priority, enqueuedAt, queue, work, released, ctxDone, dpc, batch>>

(* Every request has been answered and the dispatcher has returned. *)
Finished ==
    /\ \A r \in Requests : pc[r] \in Terminal
    /\ dpc = "exit"

EndpointTypeOK ==
    /\ pc \in [Requests -> HandlerStates]
    /\ priority \in [Requests -> Int]
    /\ enqueuedAt \in [Requests -> Nat]
    /\ queue \in Seq(Requests)
    /\ Len(queue) <= MaxQueueSize
    /\ work \in 0 .. MaxQueueSize
    /\ released \subseteq Requests
    /\ ctxDone \in BOOLEAN
    /\ events \in Seq(EventKinds)
    /\ Len(events) <= EventBuf
    /\ dpc \in DispatcherStates
    /\ batch \in Seq(Requests)

-----------------------------------------------------------------------------
(* The refinement mapping to Gate, shared by both kinds of endpoint. *)

Queued == Range(queue)
Granted == {r \in Requests : pc[r] \in InFlight \cup {"served", "unavailable", "gone"}} \ Queued
Reply == [r \in Requests |->
            CASE pc[r] = "served"                           -> "ok"
              [] pc[r] = "rejected"                         -> "refused"
              [] pc[r] \in {"turnedAway", "unavailable"}    -> "unavailable"
              [] IsCancelled(r)                             -> "gone"
              [] OTHER                                      -> "none"]

Abstract == INSTANCE Gate WITH queued <- Queued, granted <- Granted,
                               reply <- Reply, stopped <- ctxDone
=============================================================================
