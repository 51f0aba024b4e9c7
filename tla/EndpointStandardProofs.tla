----------------------- MODULE EndpointStandardProofs -----------------------
(***************************************************************************)
(* Proofs about EndpointStandard, for every set of requests, scheduler,    *)
(* queue size, overflow policy and event buffer.                           *)
(***************************************************************************)
EXTENDS EndpointStandard, EndpointProofs

-----------------------------------------------------------------------------
(* The steps of a handler are the ones module EndpointProofs is about. *)
LEMMA HandlersAreCommon ==
    ASSUME NEW r \in Requests, Arrive(r) \/ HandlerStep(r) \/ Disconnect(r, "gone")
    PROVE  CommonStep(r)
  <1>1. Arrive(r) => Begin(r)
    BY DEF Arrive, Begin
  <1>2. Admit(r) => \E est : Admission(r, est)
    BY DEF Admit
  <1> QED
    BY <1>1, <1>2 DEF HandlerStep, CommonStep

-----------------------------------------------------------------------------
(* Type correctness. *)

(* The dispatcher holds one ticket when it is about to send, and none otherwise. *)
Holding == Len(batch) = (IF dpc = "send" THEN 1 ELSE 0)

TypeInv == EndpointTypeOK /\ Holding

(* A fresh endpoint is well typed. *)
LEMMA InitType == Init => TypeInv
  <1> SUFFICES ASSUME Init PROVE TypeInv
    OBVIOUS
  <1>1. EndpointTypeOK
    BY EndpointInitType DEF Init
  <1>2. Holding
    BY DEF Init, EndpointInit, Holding
  <1> QED
    BY <1>1, <1>2 DEF TypeInv

(* Every step of a handler, of the dispatcher, of Stop and of the sink keeps the
   types; one step of the proof per action. *)
LEMMA NextType == TypeInv /\ [Next]_vars => TypeInv'
  <1> SUFFICES ASSUME EndpointTypeOK, Holding, [Next]_vars
               PROVE  EndpointTypeOK' /\ Holding'
    BY DEF TypeInv
  <1> USE DEF ticketVars
  <1>c. {"select", "wait", "pop", "send", "exit"} \subseteq DispatcherStates
    BY DEF DispatcherStates
  <1>h. ASSUME UNCHANGED <<batch, dpc>> PROVE Holding'
    BY <1>h DEF Holding
  <1>1. ASSUME NEW r \in Requests, Arrive(r) \/ HandlerStep(r) \/ Disconnect(r, "gone")
        PROVE  EndpointTypeOK' /\ Holding'
    <2>1. CommonStep(r)
      BY <1>1, HandlersAreCommon
    <2>2. UNCHANGED <<batch, dpc>>
      BY <2>1 DEF CommonStep, Begin, NewTicket, Admission, PushOK, PushFull, Retry, TurnAway,
                  Announce, Signal, Receive, Unavailable, Respond, Disconnect
    <2> QED
      BY <1>h, <2>1, <2>2, CommonType
  <1>2. CASE TakeWork
    BY <1>2, <1>c, MaxQueueSizeAssumption DEF TakeWork, EndpointTypeOK, Holding
  <1>3. CASE Permit
    BY <1>3, <1>c DEF Permit, EndpointTypeOK, Holding
  <1>4. CASE Pop
    <2>1. CASE queue = <<>>
      BY <1>4, <2>1, <1>c DEF Pop, EndpointTypeOK, Holding
    <2>2. CASE queue # <<>>
      <3>1. PICK i \in ServeNext(queue, priority, enqueuedAt) :
                queue' = PopAt(queue, i) /\ batch' = <<queue[i]>> /\ dpc' = "send"
        BY <1>4, <2>2 DEF Pop
      <3>2. i \in DOMAIN queue
        BY ServeNextInDomain
      <3>3. queue \in Seq(Requests) /\ Len(queue) <= MaxQueueSize
        BY DEF EndpointTypeOK
      <3>4. queue' \in Seq(Requests) /\ Len(queue') <= MaxQueueSize
        BY <3>1, <3>2, <3>3, PopAtRange, MaxQueueSizeAssumption
      <3>5. batch' \in Seq(Requests) /\ Len(batch') = 1
        BY <3>1, <3>2, <3>3
      <3> QED
        BY <1>4, <3>1, <3>4, <3>5, <1>c DEF Pop, EndpointTypeOK, Holding
    <2> QED
      BY <2>1, <2>2
  <1>5. CASE Release
    <2>0. batch \in Seq(Requests) /\ Len(batch) = 1
      BY <1>5 DEF Release, EndpointTypeOK, Holding
    <2>1. batch \in Seq(Requests) /\ batch # <<>> /\ Len(batch) = 1
      BY <2>0
    <2>2. Head(batch) \in Requests /\ Tail(batch) \in Seq(Requests) /\ Len(Tail(batch)) = 0
      BY <2>1
    <2> QED
      BY <1>5, <1>c, <2>2 DEF Release, EndpointTypeOK, Holding
  <1>6. CASE Exit
    BY <1>6, <1>c DEF Exit, EndpointTypeOK, Holding
  <1>7. CASE Stop \/ SinkReceive
    <2>1. EndpointTypeOK'
      BY <1>7, OutsideType DEF Stop
    <2>2. UNCHANGED <<batch, dpc>>
      BY <1>7 DEF Stop, Cancel, SinkReceive
    <2> QED
      BY <1>h, <2>1, <2>2
  <1>8. CASE UNCHANGED vars
    BY <1>8 DEF vars, endpointVars, EndpointTypeOK, Holding
  <1> QED
    BY <1>1, <1>2, <1>3, <1>4, <1>5, <1>6, <1>7, <1>8 DEF Next, Dispatch

(* The state of the endpoint is well typed: the queue and the work channel never
   hold more than MaxQueueSize entries and the event sink never overflows. *)
THEOREM TypeCorrect == Spec => []TypeOK
  <1>1. TypeInv => TypeOK
    BY DEF TypeInv, TypeOK
  <1> QED
    BY InitType, NextType, <1>1, PTL DEF Spec

-----------------------------------------------------------------------------
(* Signals and tickets balance. *)

(* The handlers that have pushed and not signalled can be counted. *)
LEMMA WaitersCount == IsFiniteSet(Waiters) /\ Cardinality(Waiters) \in Nat
  <1>1. IsFiniteSet(Waiters)
    BY RequestsAssumption, FS_Subset DEF Waiters
  <1> QED
    BY <1>1, FS_CardinalityType

(* A handler that stays on the same side of its signal does not change the set of
   handlers that still owe one. *)
LEMMA WaitersSame ==
    ASSUME EndpointTypeOK, NEW r \in Requests, NEW label, Goto(r, label),
           pc[r] \in Unsignalled <=> label \in Unsignalled
    PROVE  Waiters' = Waiters
  BY DEF EndpointTypeOK, Goto, Waiters

(* A successful push makes its handler one of those that owe a signal. *)
LEMMA WaitersGrow ==
    ASSUME EndpointTypeOK, NEW r \in Requests, Goto(r, "pushed"), pc[r] \notin Unsignalled
    PROVE  Cardinality(Waiters') = Cardinality(Waiters) + 1
  <1>1. Waiters' = Waiters \cup {r} /\ r \notin Waiters
    BY DEF EndpointTypeOK, Goto, Waiters, Unsignalled
  <1> QED
    BY <1>1, WaitersCount, FS_AddElement

(* A signal pays the debt of its handler. *)
LEMMA WaitersShrink ==
    ASSUME EndpointTypeOK, NEW r \in Requests, Goto(r, "waiting"), pc[r] \in Unsignalled
    PROVE  Cardinality(Waiters') = Cardinality(Waiters) - 1
  <1>1. Waiters' = Waiters \ {r} /\ r \in Waiters
    BY DEF EndpointTypeOK, Goto, Waiters, Unsignalled
  <1> QED
    BY <1>1, WaitersCount, FS_RemoveElement

(* A handler step other than the push and the signal keeps the balance. *)
LEMMA HandlerKeepsBalance ==
    ASSUME EndpointTypeOK, Conservation, NEW r \in Requests, NEW label, Goto(r, label),
           pc[r] \in Unsignalled <=> label \in Unsignalled,
           UNCHANGED <<queue, work, dpc>>
    PROVE  Conservation'
  <1>1. Waiters' = Waiters
    BY WaitersSame
  <1>2. Claimed' = Claimed
    BY DEF Claimed
  <1> QED
    BY <1>1, <1>2 DEF Conservation

(* Every step keeps the balance: the push and the signal move one unit from the
   queue's side to the channel's, the dispatcher's round removes one from each. *)
LEMMA NextBalance ==
    ASSUME TypeInv, Conservation, [Next]_vars
    PROVE  Conservation'
  <1> USE DEF ticketVars
  <1>t. EndpointTypeOK /\ Len(queue) \in Nat /\ work \in Nat /\ MaxQueueSize \in Nat
    BY MaxQueueSizeAssumption DEF TypeInv, EndpointTypeOK
  <1>n. Cardinality(Waiters) \in Nat
    BY WaitersCount
  <1>1. ASSUME NEW r \in Requests, Arrive(r) PROVE Conservation'
    BY <1>1, <1>t, HandlerKeepsBalance DEF Arrive, NewTicket, Unsignalled
  <1>2. ASSUME NEW r \in Requests, HandlerStep(r) PROVE Conservation'
    <2>1. ASSUME NEW est, Admission(r, est) PROVE Conservation'
      <3>1. PICK label \in {"rejected", "push"} : Goto(r, label)
        BY <2>1 DEF Admission, Reject
      <3> QED
        BY <2>1, <3>1, <1>t, HandlerKeepsBalance DEF Admission, Unsignalled
    <2>2. CASE PushOK(r)
      <3>1. Cardinality(Waiters') = Cardinality(Waiters) + 1
        BY <2>2, <1>t, WaitersGrow DEF PushOK, Unsignalled
      <3>2. Len(queue') = Len(queue) + 1
        BY <2>2, <1>t DEF PushOK, EndpointTypeOK
      <3>3. work' = work /\ dpc' = dpc /\ Claimed' = Claimed
        BY <2>2 DEF PushOK, Claimed
      <3>4. Claimed \in Nat
        BY DEF Claimed
      <3> QED
        BY <3>1, <3>2, <3>3, <3>4, <1>t, <1>n DEF Conservation
    <2>3. CASE PushFull(r)
      <3>1. PICK label \in {"rejected", "retry"} : Goto(r, label)
        BY <2>3 DEF PushFull, Reject
      <3> QED
        BY <2>3, <3>1, <1>t, HandlerKeepsBalance DEF PushFull, Unsignalled
    <2>4. CASE Retry(r)
      BY <2>4, <1>t, HandlerKeepsBalance DEF Retry, Unsignalled
    <2>5. CASE TurnAway(r)
      BY <2>5, <1>t, HandlerKeepsBalance DEF TurnAway, Unsignalled
    <2>6. CASE Announce(r, "signal")
      BY <2>6, <1>t, HandlerKeepsBalance DEF Announce, Unsignalled
    <2>7. CASE Signal(r)
      <3>1. Cardinality(Waiters') = Cardinality(Waiters) - 1
        BY <2>7, <1>t, WaitersShrink DEF Signal, Unsignalled
      <3>2. work' = work + 1 /\ queue' = queue /\ dpc' = dpc /\ Claimed' = Claimed
        BY <2>7 DEF Signal, Claimed
      <3>3. Claimed \in Nat
        BY DEF Claimed
      <3> QED
        BY <3>1, <3>2, <3>3, <1>t, <1>n DEF Conservation
    <2>8. CASE Receive(r)
      BY <2>8, <1>t, HandlerKeepsBalance DEF Receive, Unsignalled
    <2>9. CASE Unavailable(r)
      BY <2>9, <1>t, HandlerKeepsBalance DEF Unavailable, Unsignalled
    <2>10. CASE Respond(r)
      BY <2>10, <1>t, HandlerKeepsBalance DEF Respond, Unsignalled
    <2> QED
      BY <1>2, <2>1, <2>2, <2>3, <2>4, <2>5, <2>6, <2>7, <2>8, <2>9, <2>10
      DEF HandlerStep, Admit
  <1>3. ASSUME NEW r \in Requests, Disconnect(r, "gone") PROVE Conservation'
    BY <1>3, <1>t, HandlerKeepsBalance DEF Disconnect, Unsignalled
  <1>4. CASE TakeWork
    <2>1. Waiters' = Waiters /\ queue' = queue /\ work' = work - 1 /\ dpc' = "wait"
      BY <1>4 DEF TakeWork, Waiters
    <2>2. Claimed = 0 /\ Claimed' = 1 /\ dpc # "exit"
      BY <1>4, <2>1 DEF TakeWork, Claimed
    <2> QED
      BY <2>1, <2>2, <1>t, <1>n DEF Conservation
  <1>5. CASE Permit
    <2>1. Waiters' = Waiters /\ queue' = queue /\ work' = work /\ dpc' = "pop"
      BY <1>5 DEF Permit, Waiters
    <2>2. Claimed = 1 /\ Claimed' = 1 /\ dpc # "exit"
      BY <1>5, <2>1 DEF Permit, Claimed
    <2> QED
      BY <2>1, <2>2, <1>t, <1>n DEF Conservation
  <1>6. CASE Pop
    <2>1. dpc = "pop" /\ Claimed = 1 /\ Waiters' = Waiters /\ work' = work
      BY <1>6 DEF Pop, Claimed, Waiters
    <2>2. Len(queue) >= 1 /\ queue # <<>>
      BY <2>1, <1>t, <1>n DEF Conservation
    <2>3. PICK i \in ServeNext(queue, priority, enqueuedAt) :
            queue' = PopAt(queue, i) /\ dpc' = "send"
      BY <1>6, <2>2 DEF Pop
    <2>4. i \in DOMAIN queue /\ queue \in Seq(Requests)
      BY ServeNextInDomain, <1>t DEF EndpointTypeOK
    <2>5. Len(queue') = Len(queue) - 1
      BY <2>3, <2>4, PopAtRange
    <2>6. Claimed' = 0
      BY <2>3 DEF Claimed
    <2> QED
      BY <2>1, <2>3, <2>5, <2>6, <1>t, <1>n DEF Conservation
  <1>7. CASE Release
    <2>1. Waiters' = Waiters /\ queue' = queue /\ work' = work /\ dpc' = "select"
      BY <1>7 DEF Release, Waiters
    <2>2. Claimed = 0 /\ Claimed' = 0 /\ dpc # "exit"
      BY <1>7, <2>1 DEF Release, Claimed
    <2> QED
      BY <2>1, <2>2, <1>t, <1>n DEF Conservation
  <1>8. CASE Exit
    <2>1. Waiters' = Waiters /\ queue' = queue /\ work' = work /\ dpc' = "exit" /\ dpc # "exit"
      BY <1>8 DEF Exit, Waiters
    <2>2. Claimed \in Nat
      BY DEF Claimed
    <2> QED
      BY <2>1, <2>2, <1>t, <1>n DEF Conservation
  <1>9. CASE Stop \/ SinkReceive \/ UNCHANGED vars
    <2>1. Waiters' = Waiters /\ queue' = queue /\ work' = work /\ dpc' = dpc
      BY <1>9 DEF Stop, Cancel, SinkReceive, vars, endpointVars, Waiters
    <2>2. Claimed' = Claimed
      BY <2>1 DEF Claimed
    <2> QED
      BY <2>1, <2>2 DEF Conservation
  <1> QED
    BY <1>1, <1>2, <1>3, <1>4, <1>5, <1>6, <1>7, <1>8, <1>9 DEF Next, Dispatch

(* A fresh endpoint is in balance. *)
LEMMA InitBalance == Init => Conservation
  <1> SUFFICES ASSUME Init PROVE Conservation
    OBVIOUS
  <1>1. Waiters = {}
    BY DEF Init, EndpointInit, Waiters, Unsignalled
  <1>2. Cardinality(Waiters) = 0
    BY <1>1, FS_EmptySet
  <1>3. Len(queue) = 0 /\ work = 0 /\ dpc = "select" /\ Claimed = 0
    BY DEF Init, EndpointInit, Claimed
  <1> QED
    BY <1>2, <1>3 DEF Conservation

(* Each queued ticket is owed exactly one dispatcher round as long as the
   dispatcher of endpoint.go runs, for any number of concurrent requests. *)
THEOREM SignalsBalance == Spec => []Conservation
  <1>1. Init => TypeInv /\ Conservation
    BY InitType, InitBalance
  <1>2. TypeInv /\ Conservation /\ [Next]_vars => (TypeInv /\ Conservation)'
    BY NextType, NextBalance
  <1> QED
    BY <1>1, <1>2, PTL DEF Spec

(* The comment in Handle is right for standard endpoints: the send on the work
   channel never finds it full, so a handler is never stuck before its select. *)
THEOREM HandlerNeverBlocksOnSignal == Spec => []SignalNeverBlocks
  <1>1. TypeInv /\ Conservation => SignalNeverBlocks
    <2> SUFFICES ASSUME TypeInv, Conservation, NEW r \in Requests, pc[r] = "signal"
                 PROVE  work < MaxQueueSize
      BY DEF SignalNeverBlocks
    <2>1. Len(queue) \in Nat /\ work \in Nat /\ MaxQueueSize \in Nat /\ Len(queue) <= MaxQueueSize
      BY MaxQueueSizeAssumption DEF TypeInv, EndpointTypeOK
    <2>2. Cardinality(Waiters) >= 1
      <3>1. r \in Waiters
        BY DEF Waiters, Unsignalled
      <3> QED
        BY <3>1, WaitersCount, FS_EmptySet
    <2>3. Claimed \in Nat /\ Cardinality(Waiters) \in Nat
      BY WaitersCount DEF Claimed
    <2> QED
      BY <2>1, <2>2, <2>3 DEF Conservation
  <1>2. Init => TypeInv /\ Conservation
    BY InitType, InitBalance
  <1>3. TypeInv /\ Conservation /\ [Next]_vars => (TypeInv /\ Conservation)'
    BY NextType, NextBalance
  <1> QED
    BY <1>1, <1>2, <1>3, PTL DEF Spec

(* No permit of a limiter is lost: whenever dispatchStandard has been granted
   one, Pop finds a ticket. *)
THEOREM NoPermitLost == Spec => []PermitNeverWasted
  <1>1. TypeInv /\ Conservation => PermitNeverWasted
    <2> SUFFICES ASSUME TypeInv, Conservation, dpc = "pop" PROVE queue # <<>>
      BY DEF PermitNeverWasted
    <2>1. Len(queue) \in Nat /\ work \in Nat
      BY MaxQueueSizeAssumption DEF TypeInv, EndpointTypeOK
    <2>2. Claimed = 1 /\ Cardinality(Waiters) \in Nat
      BY WaitersCount DEF Claimed
    <2> QED
      BY <2>1, <2>2 DEF Conservation
  <1>2. Init => TypeInv /\ Conservation
    BY InitType, InitBalance
  <1>3. TypeInv /\ Conservation /\ [Next]_vars => (TypeInv /\ Conservation)'
    BY NextType, NextBalance
  <1> QED
    BY <1>1, <1>2, <1>3, PTL DEF Spec

-----------------------------------------------------------------------------
(* A ticket is in one place at a time, and the endpoint is a gate. *)

(* The states of the dispatcher that dispatchTokenWindow alone has. *)
StandardDispatcher == dpc \notin {"scan", "settle"}

PlacesInv == TypeInv /\ StandardDispatcher /\ Places

(* dispatchStandard never scans. *)
LEMMA NextStandard ==
    ASSUME StandardDispatcher, [Next]_vars
    PROVE  StandardDispatcher'
  BY DEF StandardDispatcher, Next, Dispatch, Arrive, NewTicket, HandlerStep, Admit, Admission,
         PushOK, PushFull, Retry, TurnAway, Announce, Signal, Receive, Unavailable, Respond,
         Disconnect, TakeWork, Permit, Pop, Release, Exit, Stop, Cancel, SinkReceive, vars,
         endpointVars

(* What Pop does to the queue and the batch. *)
LEMMA PopMoves ==
    ASSUME PlacesInv, Pop, queue # <<>>
    PROVE  \E r \in Queued : /\ Queued' = Queued \ {r} /\ IsInjective(queue')
                             /\ batch' = <<r>> /\ dpc' = "send"
                             /\ UNCHANGED <<pc, released, ctxDone>>
  <1>1. PICK i \in ServeNext(queue, priority, enqueuedAt) :
            queue' = PopAt(queue, i) /\ batch' = <<queue[i]>> /\ dpc' = "send"
    BY DEF Pop
  <1>2. i \in DOMAIN queue /\ queue \in Seq(Requests) /\ IsInjective(queue)
    BY ServeNextInDomain DEF PlacesInv, TypeInv, EndpointTypeOK, Places
  <1>3. Queued' = Queued \ {queue[i]} /\ IsInjective(queue')
    BY <1>1, <1>2, PopAtRange DEF Queued
  <1>4. queue[i] \in Queued
    BY <1>2 DEF Queued, Range
  <1> QED
    BY <1>1, <1>3, <1>4 DEF Pop

(* Every step keeps each ticket in one place: Pop moves a ticket from the queue to
   the batch, Release from the batch into its channel. *)
LEMMA NextPlaces == PlacesInv /\ [Next]_vars => PlacesInv'
  <1> SUFFICES ASSUME PlacesInv, [Next]_vars PROVE Places'
    BY NextType, NextStandard DEF PlacesInv
  <1> USE DEF ticketVars
  <1>a. EndpointTypeOK /\ Holding /\ StandardDispatcher /\ Places
    BY DEF PlacesInv, TypeInv
  <1>b. StandardDispatcher'
    BY <1>a, NextStandard
  <1>s. Settling = {} /\ Settling' = {}
    BY <1>a, <1>b DEF Settling, StandardDispatcher
  <1>1. ASSUME NEW r \in Requests, Arrive(r) \/ HandlerStep(r) \/ Disconnect(r, "gone")
        PROVE  Places'
    BY <1>1, <1>a, HandlersAreCommon, CommonPlaces
  <1>2. CASE (TakeWork \/ Permit \/ Exit \/ Stop \/ SinkReceive \/ UNCHANGED vars)
             \/ (Pop /\ queue = <<>>)
    <2>1. UNCHANGED <<pc, queue, batch, released>>
      BY <1>2 DEF TakeWork, Permit, Exit, Stop, Cancel, SinkReceive, Pop, vars, endpointVars
    <2> QED
      BY <2>1, <1>a, <1>s DEF Places, Queued
  <1>3. CASE Pop /\ queue # <<>>
    <2>1. PICK r \in Queued : /\ Queued' = Queued \ {r} /\ IsInjective(queue')
                              /\ batch' = <<r>> /\ dpc' = "send"
                              /\ UNCHANGED <<pc, released, ctxDone>>
      BY <1>3, PopMoves
    <2>2. Range(batch') = {r} /\ IsInjective(batch')
      BY <2>1 DEF Range, IsInjective
    <2> QED
      BY <1>a, <1>s, <2>1, <2>2 DEF Places
  <1>4. CASE Release
    <2>1. dpc = "send" /\ released' = released \cup {Head(batch)} /\ batch' = Tail(batch)
          /\ UNCHANGED <<pc, queue>>
      BY <1>4 DEF Release
    <2>0. batch \in Seq(Requests) /\ Len(batch) = 1
      BY <1>a, <2>1 DEF EndpointTypeOK, Holding
    <2>2. batch \in Seq(Requests) /\ batch # <<>>
      BY <2>0
    <2>3. IsInjective(batch') /\ Range(batch') = Range(batch) \ {Head(batch)}
          /\ Head(batch) \in Range(batch)
      BY <1>a, <2>1, <2>2, TailRange DEF Places
    <2>4. Queued' = Queued
      BY <2>1 DEF Queued
    <2> QED
      BY <1>a, <1>s, <2>1, <2>3, <2>4 DEF Places
  <1> QED
    BY <1>1, <1>2, <1>3, <1>4 DEF Next, Dispatch

(* In a fresh endpoint no ticket is anywhere. *)
LEMMA InitPlacesInv == Init => PlacesInv
  <1> SUFFICES ASSUME Init PROVE PlacesInv
    OBVIOUS
  <1>1. StandardDispatcher
    BY DEF Init, EndpointInit, StandardDispatcher
  <1> QED
    BY <1>1, InitType, InitPlaces DEF Init, PlacesInv

(* No ticket is released twice, and the send on a ticket's one-slot Release
   channel never finds it full, so no client can block the dispatcher. *)
THEOREM TicketsReleasedOnce == Spec => []ReleasedOnce
  <1>1. PlacesInv => ReleasedOnce
    <2> SUFFICES ASSUME PlacesInv PROVE ReleasedOnce
      OBVIOUS
    <2>1. Settling = {}
      BY DEF PlacesInv, StandardDispatcher, Settling
    <2> QED
      BY <2>1 DEF PlacesInv, TypeInv, Holding, Places, ReleasedOnce, Held, Queued
  <1> QED
    BY <1>1, InitPlacesInv, NextPlaces, PTL DEF Spec

(* Every step is a step of the gate or invisible there. *)
LEMMA NextGate ==
    ASSUME PlacesInv, [Next]_vars
    PROVE  [Abstract!Next]_(Abstract!gateVars)
  <1> SUFFICES GateStep
    BY DEF GateStep, Abstract!gateVars
  <1> USE DEF ticketVars
  <1>a. EndpointTypeOK /\ Places
    BY DEF PlacesInv, TypeInv
  <1>1. ASSUME NEW r \in Requests, Arrive(r) \/ HandlerStep(r) \/ Disconnect(r, "gone")
        PROVE  GateStep
    BY <1>1, <1>a, HandlersAreCommon, CommonGate
  <1>2. CASE Pop /\ queue # <<>>
    BY <1>2, <1>a, PopMoves, PopIsGrant
  <1>3. CASE (TakeWork \/ Permit \/ Release \/ Exit \/ Stop \/ SinkReceive \/ UNCHANGED vars)
             \/ (Pop /\ queue = <<>>)
    <2>1. UNCHANGED <<pc, queue>> /\ (UNCHANGED ctxDone \/ ctxDone' = TRUE)
      BY <1>3 DEF TakeWork, Permit, Release, Exit, Stop, Cancel, SinkReceive, Pop, vars,
                  endpointVars
    <2> QED
      BY <2>1, BackgroundGate
  <1> QED
    BY <1>1, <1>2, <1>3 DEF Next, Dispatch

(* A standard endpoint implements the abstract gate for any number of requests,
   any scheduler and either overflow policy. *)
THEOREM StandardImplementsGate == Spec => GateSpec
  <1>1. Init => Abstract!Init
    BY InitGate DEF Init
  <1>2. PlacesInv /\ [Next]_vars => [Abstract!Next]_(Abstract!gateVars)
    BY NextGate
  <1> QED
    BY <1>1, <1>2, InitPlacesInv, NextPlaces, PTL DEF Spec, GateSpec, Abstract!Spec
=============================================================================
