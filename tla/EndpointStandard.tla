-------------------------- MODULE EndpointStandard --------------------------
(***************************************************************************)
(* An endpoint whose algorithm is strict, token_bucket or sliding_window:  *)
(* the handlers of module Endpoint with dispatchStandard.  The limiter is  *)
(* seen through its interface: Wait returns nil at some moment, or an      *)
(* error once the context is done.  How often it may return nil is what    *)
(* StrictLimiter, SlidingWindow and TokenBucket are about.                 *)
(***************************************************************************)
EXTENDS Endpoint

CONSTANT Available  \* what TokensAvailable may report; {0} when there is no BurstQuerier

ASSUME AvailableAssumption == Available \subseteq Int

vars == endpointVars

Init == EndpointInit

Arrive(r) ==
    /\ NewTicket(r)
    /\ Goto(r, "admit")
    /\ UNCHANGED events

(* estimateWait, in units of 1/rps: the tickets ahead that burst tokens do not
   cover; no prediction for lifo and random. *)
EstimatedWait(available) ==
    IF Scheduler \in {"lifo", "random"} THEN 0
    ELSE Max({0, Len(queue) - available})

Admit(r) == \E available \in Available : Admission(r, EstimatedWait(available))

-----------------------------------------------------------------------------
(* dispatchStandard *)

(* Mutant: the signal stays in the channel. *)
TakeWorkWithoutConsuming ==
    /\ dpc = "select"
    /\ work > 0
    /\ dpc' = "wait"
    /\ UNCHANGED <<pc, ticketVars, queue, work, released, ctxDone, events, batch>>

(* case <-e.work *)
TakeWork ==
    /\ dpc = "select"
    /\ work > 0
    /\ work' = work - 1
    /\ dpc' = "wait"
    /\ UNCHANGED <<pc, ticketVars, queue, released, ctxDone, events, batch>>

(* e.lim.Wait returns nil. *)
Permit ==
    /\ dpc = "wait"
    /\ dpc' = "pop"
    /\ UNCHANGED <<pc, ticketVars, queue, work, released, ctxDone, events, batch>>

(* Mutant: throw away the tickets of clients that went away, and use the
   permit for the next ticket. *)
PopSkippingCancelled ==
    /\ dpc = "pop"
    /\ IF queue = <<>>
       THEN dpc' = "select" /\ UNCHANGED <<queue, batch>>
       ELSE \E i \in ServeNext(queue, priority, enqueuedAt) :
                /\ queue' = PopAt(queue, i)
                /\ batch' = IF IsCancelled(queue[i]) THEN <<>> ELSE <<queue[i]>>
                /\ dpc' = IF IsCancelled(queue[i]) THEN "pop" ELSE "send"
    /\ UNCHANGED <<pc, ticketVars, work, released, ctxDone, events>>

(* Mutant: the ticket is read but stays in the queue. *)
PopPeeking ==
    /\ dpc = "pop"
    /\ IF queue = <<>>
       THEN dpc' = "select" /\ UNCHANGED batch
       ELSE \E i \in ServeNext(queue, priority, enqueuedAt) :
                batch' = <<queue[i]>> /\ dpc' = "send"
    /\ UNCHANGED <<pc, ticketVars, queue, work, released, ctxDone, events>>

(* e.queue.Pop(): a ticket, whether or not its client is still there, or nil,
   and then the permit is spent on nobody. *)
Pop ==
    /\ dpc = "pop"
    /\ IF queue = <<>>
       THEN dpc' = "select" /\ UNCHANGED <<queue, batch>>
       ELSE \E i \in ServeNext(queue, priority, enqueuedAt) :
                /\ queue' = PopAt(queue, i)
                /\ batch' = <<queue[i]>>
                /\ dpc' = "send"
    /\ UNCHANGED <<pc, ticketVars, work, released, ctxDone, events>>

(* t.Release <- struct{}{}: blocks while the buffer is full. *)
Release ==
    /\ dpc = "send"
    /\ Head(batch) \notin released
    /\ released' = released \cup {Head(batch)}
    /\ batch' = Tail(batch)
    /\ dpc' = "select"
    /\ UNCHANGED <<pc, ticketVars, queue, work, ctxDone, events>>

(* Mutant: only the limiter watches the context. *)
ExitFromWaitOnly ==
    /\ dpc = "wait"
    /\ ctxDone
    /\ dpc' = "exit"
    /\ UNCHANGED <<pc, ticketVars, queue, work, released, ctxDone, events, batch>>

(* e.ctx.Done() in the select, or an error from e.lim.Wait. *)
Exit ==
    /\ dpc \in {"select", "wait"}
    /\ ctxDone
    /\ dpc' = "exit"
    /\ UNCHANGED <<pc, ticketVars, queue, work, released, ctxDone, events, batch>>

Dispatch == TakeWork \/ Permit \/ Pop \/ Release \/ Exit

(* The steps a handler takes by itself. *)
HandlerStep(r) ==
    \/ Admit(r) \/ PushOK(r) \/ PushFull(r) \/ Retry(r) \/ TurnAway(r)
    \/ Announce(r, "signal") \/ Signal(r)
    \/ Receive(r) \/ Unavailable(r) \/ Respond(r)

Stop == Cancel

Next ==
    \/ \E r \in Requests : Arrive(r) \/ HandlerStep(r) \/ Disconnect(r, "gone")
    \/ Dispatch
    \/ Stop
    \/ SinkReceive
    \/ Finished /\ UNCHANGED vars

Spec == Init /\ [][Next]_vars

(* Goroutines that can run do run, and a limiter's Wait returns.  A select with
   two ready cases picks one at random, so the blocking loop cannot miss a
   cancelled context forever.  Nothing is assumed of clients, of the reader of
   the event sink, nor of whether the endpoint is ever stopped. *)
Fairness ==
    /\ WF_vars(Dispatch)
    /\ \A r \in Requests : WF_vars(HandlerStep(r)) /\ SF_vars(TurnAway(r))

FairSpec == Spec /\ Fairness

-----------------------------------------------------------------------------
(* The variables hold what the code can put there; in particular neither the
   queue nor the work channel exceeds MaxQueueSize. *)
TypeOK == EndpointTypeOK

Waiters == {r \in Requests : pc[r] \in Unsignalled}
Claimed == IF dpc \in {"wait", "pop"} THEN 1 ELSE 0

(* Signals and tickets balance: while the dispatcher runs, each ticket in the
   queue is owed exactly one dispatcher round, either buffered in `work`, still
   to be sent by its handler, or already taken by the dispatcher. *)
Conservation ==
    IF dpc = "exit"
    THEN Len(queue) >= work + Cardinality(Waiters)
    ELSE Len(queue) = work + Cardinality(Waiters) + Claimed

(* "work is sized to MaxQueueSize so it can never be full when a push just
   succeeded" (endpoint.go): the send of Handle never blocks. *)
SignalNeverBlocks == \A r \in Requests : pc[r] = "signal" => work < MaxQueueSize

(* Every permit of the limiter releases a ticket: Pop never comes back empty in
   dispatchStandard, so no slot of the configured rate is lost to a stale
   signal. *)
PermitNeverWasted == dpc = "pop" => queue # <<>>

(* A ticket is in one place at a time and is released at most once, so the send
   on its one-slot Release channel cannot block the dispatcher. *)
ReleasedOnce ==
    /\ IsInjective(queue)
    /\ Len(batch) = (IF dpc = "send" THEN 1 ELSE 0)
    /\ Range(queue) \cap Range(batch) = {}
    /\ \A r \in Range(queue) \cup Range(batch) :
        r \notin released /\ pc[r] \in (InFlight \ {"respond"}) \cup {"unavailable", "gone"}

(* The endpoint implements the abstract gate: bounded waiting room, one grant
   per request, 200 only after a grant, 429 only to requests that never held a
   place, 503 only after Stop. *)
GateSpec == Abstract!Spec

(* Every request is answered, even if nobody ever reads the event sink. *)
Answered == \A r \in Requests : (pc[r] # "idle") ~> (pc[r] \in Terminal)

(* "The ticket remains in the queue and the dispatcher will eventually pop and
   release it" (endpoint.go): tickets of vanished clients do not accumulate. *)
DeadTicketsDrain ==
    \A r \in Requests : (pc[r] = "gone") ~> (r \in released \/ ctxDone)

(* Stop ends the dispatcher goroutine. *)
DispatcherStops == ctxDone ~> (dpc = "exit")
=============================================================================
