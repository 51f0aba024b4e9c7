--------------------------- MODULE EndpointProofs ---------------------------
(***************************************************************************)
(* What both kinds of endpoint share: facts about the queues, and what the *)
(* steps of a handler keep whatever the dispatcher does.                   *)
(***************************************************************************)
EXTENDS Endpoint, SharedLemmas

-----------------------------------------------------------------------------
(* Facts about sequences of distinct tickets. *)

(* Two sequences agree on the order of the tickets they share. *)
SameOrder(s, u) ==
    \A a, b \in DOMAIN s : \A k, l \in DOMAIN u :
        (s[a] = u[k] /\ s[b] = u[l] /\ a < b) => k < l

(* Removing a ticket from either keeps the order of the others. *)
LEMMA RemoveKeepsOrder ==
    ASSUME NEW S, NEW s \in Seq(S), NEW u \in Seq(S), SameOrder(s, u)
    PROVE  /\ \A i \in DOMAIN s : SameOrder(RemoveAt(s, i), u)
           /\ \A i \in DOMAIN u : SameOrder(s, RemoveAt(u, i))
  <1>1. ASSUME NEW i \in DOMAIN s PROVE SameOrder(RemoveAt(s, i), u)
    <2> DEFINE t == RemoveAt(s, i)
               at(k) == IF k < i THEN k ELSE k + 1
    <2>0. Len(s) \in Nat /\ i \in 1 .. Len(s) /\ DOMAIN s = 1 .. Len(s)
      OBVIOUS
    <2>1. DOMAIN t = 1 .. Len(s) - 1
          /\ \A k \in DOMAIN t : t[k] = IF k < i THEN s[k] ELSE s[k + 1]
      BY RemoveAtIndex
    <2> HIDE DEF t
    <2>2. \A k \in DOMAIN t : at(k) \in DOMAIN s /\ t[k] = s[at(k)]
      BY <2>0, <2>1
    <2>3. \A j, k \in DOMAIN t : j < k => at(j) < at(k)
      BY <2>0, <2>1
    <2> HIDE DEF at
    <2> QED
      BY <2>1, <2>2, <2>3 DEF SameOrder, t
  <1>2. ASSUME NEW i \in DOMAIN u PROVE SameOrder(s, RemoveAt(u, i))
    <2> DEFINE t == RemoveAt(u, i)
               at(k) == IF k < i THEN k ELSE k + 1
    <2>0. Len(u) \in Nat /\ i \in 1 .. Len(u) /\ DOMAIN u = 1 .. Len(u)
      OBVIOUS
    <2>1. DOMAIN t = 1 .. Len(u) - 1
          /\ \A k \in DOMAIN t : t[k] = IF k < i THEN u[k] ELSE u[k + 1]
      BY RemoveAtIndex
    <2> HIDE DEF t
    <2>2. \A k \in DOMAIN t : at(k) \in DOMAIN u /\ t[k] = u[at(k)]
      BY <2>0, <2>1
    <2>3. \A j, k \in DOMAIN t : at(j) < at(k) => j < k
      BY <2>0, <2>1
    <2> HIDE DEF at
    <2> QED
      BY <2>1, <2>2, <2>3 DEF SameOrder, t
  <1> QED
    BY <1>1, <1>2

(* A sequence of distinct tickets agrees with itself. *)
LEMMA SameOrderAsItself ==
    ASSUME NEW S, NEW s \in Seq(S), IsInjective(s)
    PROVE  SameOrder(s, s)
  BY DEF IsInjective, SameOrder

-----------------------------------------------------------------------------
(* Facts about the queues. *)

(* Pop chooses one of the queued tickets. *)
LEMMA ServeNextInDomain ==
    ASSUME NEW items, NEW prio, NEW at
    PROVE  ServeNext(items, prio, at) \subseteq DOMAIN items
  BY DEF ServeNext, First

(* Whatever the scheduler, popping an index takes exactly that ticket out. *)
LEMMA PopAtRange ==
    ASSUME NEW items \in Seq(Requests), NEW i \in DOMAIN items
    PROVE  /\ PopAt(items, i) \in Seq(Requests)
           /\ Len(PopAt(items, i)) = Len(items) - 1
           /\ IsInjective(items) => /\ Range(PopAt(items, i)) = Range(items) \ {items[i]}
                                    /\ IsInjective(PopAt(items, i))
  <1>1. CASE Scheduler = "random"
    BY <1>1, SwapOutRange DEF PopAt
  <1>2. CASE Scheduler # "random"
    BY <1>2, RemoveAtRange DEF PopAt
  <1> QED
    BY <1>1, <1>2

(* A queue has at most as many tickets as it has places. *)
LEMMA RangeCardinality ==
    ASSUME NEW S, NEW s \in Seq(S)
    PROVE  Cardinality(Range(s)) <= Len(s)
  <1>1. s \in [1 .. Len(s) -> Range(s)]
    BY DEF Range
  <1>2. s \in Surjection(1 .. Len(s), Range(s))
    BY <1>1 DEF Surjection, Range
  <1> QED
    BY <1>2, FS_SurjCardinalityBound DEF ExistsSurjection

-----------------------------------------------------------------------------
(* The steps both kinds of endpoint have. *)

(* The first step of a handler: its ticket, and for token_window the refusal of a
   cost that no window can pay. *)
Begin(r) ==
    /\ NewTicket(r)
    /\ (Goto(r, "admit") /\ UNCHANGED events) \/ Reject(r)

CommonStep(r) ==
    \/ Begin(r) \/ (\E est : Admission(r, est))
    \/ PushOK(r) \/ PushFull(r) \/ Retry(r) \/ TurnAway(r)
    \/ (\E label \in {"account", "signal"} : Announce(r, label))
    \/ Signal(r) \/ Receive(r) \/ Unavailable(r) \/ Respond(r)
    \/ (\E label \in {"uncount", "gone"} : Disconnect(r, label))

-----------------------------------------------------------------------------
(* Types. *)

(* emit keeps the sink within its capacity. *)
LEMMA EmitType ==
    ASSUME EndpointTypeOK, NEW kind \in EventKinds, Emit(kind)
    PROVE  events' \in Seq(EventKinds) /\ Len(events') <= EventBuf
  BY EventBufAssumption DEF EndpointTypeOK, Emit

(* Sending a handler to a state that exists keeps pc well typed. *)
LEMMA GotoType ==
    ASSUME EndpointTypeOK, NEW r \in Requests, NEW label \in HandlerStates, Goto(r, label)
    PROVE  pc' \in [Requests -> HandlerStates]
  BY DEF EndpointTypeOK, Goto

(* A fresh endpoint is well typed. *)
LEMMA EndpointInitType == EndpointInit => EndpointTypeOK
  <1> SUFFICES ASSUME EndpointInit PROVE EndpointTypeOK
    OBVIOUS
  <1> USE DEF EndpointInit
  <1>1. pc \in [Requests -> HandlerStates] /\ dpc \in DispatcherStates
    BY DEF HandlerStates, DispatcherStates
  <1>2. queue \in Seq(Requests) /\ batch \in Seq(Requests) /\ events \in Seq(EventKinds)
    OBVIOUS
  <1>3. Len(queue) <= MaxQueueSize /\ Len(events) <= EventBuf /\ work \in 0 .. MaxQueueSize
    BY EventBufAssumption, MaxQueueSizeAssumption
  <1>4. priority \in [Requests -> Int] /\ enqueuedAt \in [Requests -> Nat]
    OBVIOUS
  <1>5. released \subseteq Requests /\ ctxDone \in BOOLEAN
    OBVIOUS
  <1> HIDE DEF EndpointInit
  <1> QED
    BY <1>1, <1>2, <1>3, <1>4, <1>5 DEF EndpointTypeOK

(* The steps of a handler keep the types. *)
LEMMA CommonType ==
    ASSUME EndpointTypeOK, NEW r \in Requests, CommonStep(r)
    PROVE  EndpointTypeOK'
  <1>a. {"admit", "push", "retry", "pushed", "account", "signal", "waiting", "respond", "uncount",
         "served", "rejected", "turnedAway", "unavailable", "gone"} \subseteq HandlerStates
    BY DEF HandlerStates, InFlight, Unsignalled, Terminal
  <1>1. CASE Begin(r)
    <2>1. pc' \in [Requests -> HandlerStates]
      BY <1>1, <1>a, GotoType DEF Begin, Reject
    <2>2. priority' \in [Requests -> Int]
      BY <1>1, InputsAssumption DEF Begin, NewTicket, EndpointTypeOK
    <2>3. Now \in Nat
      <3>1. IsFiniteSet({s \in Requests : pc[s] # "idle"})
        BY RequestsAssumption, FS_Subset
      <3> QED
        BY <3>1, FS_CardinalityType DEF Now
    <2>4. enqueuedAt' \in [Requests -> Nat]
      BY <1>1, <2>3 DEF Begin, NewTicket, EndpointTypeOK
    <2>5. events' \in Seq(EventKinds) /\ Len(events') <= EventBuf
      BY <1>1, EmitType DEF Begin, Reject, EventKinds, EndpointTypeOK
    <2> QED
      BY <1>1, <2>1, <2>2, <2>4, <2>5 DEF Begin, NewTicket, EndpointTypeOK
  <1>2. ASSUME NEW est, Admission(r, est) PROVE EndpointTypeOK'
    <2>1. CASE Reject(r)
      BY <1>2, <2>1, <1>a, GotoType, EmitType DEF Admission, Reject, EndpointTypeOK, EventKinds
    <2>2. CASE Goto(r, "push") /\ UNCHANGED events
      BY <1>2, <2>2, <1>a, GotoType DEF Admission, EndpointTypeOK
    <2> QED
      BY <1>2, <2>1, <2>2 DEF Admission
  <1>3. CASE PushOK(r)
    BY <1>3, <1>a, GotoType, MaxQueueSizeAssumption DEF PushOK, Full, EndpointTypeOK
  <1>4. CASE PushFull(r)
    <2>1. CASE Reject(r)
      BY <1>4, <2>1, <1>a, GotoType, EmitType DEF PushFull, Reject, EndpointTypeOK, EventKinds
    <2>2. CASE Goto(r, "retry") /\ UNCHANGED events
      BY <1>4, <2>2, <1>a, GotoType DEF PushFull, EndpointTypeOK
    <2> QED
      BY <1>4, <2>1, <2>2 DEF PushFull
  <1>5. CASE Retry(r) \/ TurnAway(r) \/ Unavailable(r)
    BY <1>5, <1>a, GotoType DEF Retry, TurnAway, Unavailable, EndpointTypeOK
  <1>6. ASSUME NEW label \in {"account", "signal"}, Announce(r, label) PROVE EndpointTypeOK'
    BY <1>6, <1>a, GotoType, EmitType DEF Announce, EndpointTypeOK, EventKinds
  <1>7. CASE Signal(r)
    BY <1>7, <1>a, GotoType, MaxQueueSizeAssumption DEF Signal, EndpointTypeOK
  <1>8. CASE Receive(r)
    BY <1>8, <1>a, GotoType DEF Receive, EndpointTypeOK
  <1>9. CASE Respond(r)
    BY <1>9, <1>a, GotoType, EmitType DEF Respond, EndpointTypeOK, EventKinds
  <1>10. ASSUME NEW label \in {"uncount", "gone"}, Disconnect(r, label) PROVE EndpointTypeOK'
    BY <1>10, <1>a, GotoType DEF Disconnect, EndpointTypeOK
  <1> QED
    BY <1>1, <1>2, <1>3, <1>4, <1>5, <1>6, <1>7, <1>8, <1>9, <1>10 DEF CommonStep

(* So do Stop and the reader of the event sink. *)
LEMMA OutsideType ==
    ASSUME EndpointTypeOK, Cancel \/ SinkReceive
    PROVE  EndpointTypeOK'
  <1>1. CASE Cancel
    BY <1>1 DEF Cancel, EndpointTypeOK
  <1>2. CASE SinkReceive
    <2>1. events \in Seq(EventKinds) /\ events # <<>> /\ Len(events) <= EventBuf
      BY <1>2 DEF SinkReceive, EndpointTypeOK
    <2>2. Tail(events) \in Seq(EventKinds) /\ Len(Tail(events)) <= EventBuf
      BY <2>1, EventBufAssumption
    <2> QED
      BY <1>2, <2>2 DEF SinkReceive, EndpointTypeOK
  <1> QED
    BY <1>1, <1>2

-----------------------------------------------------------------------------
(* A ticket is in one place at a time. *)

(* Where the handler of a ticket may stand that has been pushed and whose release
   has not been received. *)
Held == (InFlight \ {"respond"}) \cup {"unavailable", "gone"}

(* The ticket the dispatcher has released and is still accounting for. *)
Settling == IF dpc = "settle" THEN {Head(batch)} ELSE {}

(* The inductive form of ReleasedOnce: besides the queue and the batch it speaks
   of the released tickets, whose handlers must not have gone past the select,
   and of the ticket being settled, whose handler may have answered. *)
Places ==
    /\ IsInjective(queue) /\ IsInjective(batch)
    /\ Queued \cap Range(batch) = {}
    /\ \A r \in Queued \cup (Range(batch) \ Settling) : r \notin released /\ pc[r] \in Held
    /\ \A r \in Range(batch) : pc[r] \in Held \cup {"respond", "served"}
    /\ \A r \in released : pc[r] \in Held

(* Nothing is anywhere in a fresh endpoint. *)
LEMMA InitPlaces == EndpointInit => Places
  BY DEF EndpointInit, Places, Queued, Range, IsInjective, Settling

(* A step of a handler that touches no ticket, on one side of the select. *)
LEMMA MoveKeepsPlaces ==
    ASSUME EndpointTypeOK, Places, NEW r \in Requests, NEW label, Goto(r, label),
           UNCHANGED <<queue, batch, released, dpc>>,
           pc[r] \in Held => label \in Held,
           pc[r] \in {"respond", "served"} => label \in {"respond", "served"}
    PROVE  Places'
  <1>1. \A s \in Requests : pc'[s] = IF s = r THEN label ELSE pc[s]
    BY DEF EndpointTypeOK, Goto
  <1>2. Queued \subseteq Requests /\ Range(batch) \subseteq Requests /\ released \subseteq Requests
    BY RangeOfSeq DEF EndpointTypeOK, Queued
  <1>3. Queued' = Queued /\ Range(batch)' = Range(batch) /\ Settling' = Settling
    BY DEF Queued, Settling
  <1>4. \A s \in Requests : pc[s] \in Held => pc'[s] \in Held
    BY <1>1
  <1>5. \A s \in Requests : pc[s] \in Held \cup {"respond", "served"}
                                => pc'[s] \in Held \cup {"respond", "served"}
    BY <1>1
  <1> QED
    BY <1>2, <1>3, <1>4, <1>5 DEF Places

(* Every step of a handler keeps each ticket in its place: a push puts a ticket
   that was nowhere into the queue, and a handler answers only after it has taken
   the release out of its channel. *)
LEMMA CommonPlaces ==
    ASSUME EndpointTypeOK, Places, NEW r \in Requests, CommonStep(r)
    PROVE  Places'
  <1>h. Held = {"pushed", "account", "signal", "waiting", "uncount", "unavailable", "gone"}
    BY DEF Held, InFlight, Unsignalled
  <1>1. CASE PushOK(r)
    <2>1. pc[r] = "push" /\ queue' = Append(queue, r) /\ Goto(r, "pushed")
          /\ UNCHANGED <<batch, released, dpc>>
      BY <1>1 DEF PushOK
    <2>2. r \notin Queued /\ r \notin Range(batch) /\ r \notin released
      BY <2>1, <1>h DEF Places
    <2>3. IsInjective(queue') /\ Queued' = Queued \cup {r}
      BY <2>1, <2>2, AppendRange DEF Places, EndpointTypeOK, Queued
    <2>4. \A s \in Requests : pc'[s] = IF s = r THEN "pushed" ELSE pc[s]
      BY <2>1 DEF EndpointTypeOK, Goto
    <2>5. Queued \subseteq Requests /\ Range(batch) \subseteq Requests /\ released \subseteq Requests
      BY RangeOfSeq DEF EndpointTypeOK, Queued
    <2>6. Range(batch)' = Range(batch) /\ Settling' = Settling /\ IsInjective(batch')
      BY <2>1 DEF Settling, Places
    <2>7. \A s \in Queued' \cup (Range(batch') \ Settling') : s \notin released' /\ pc'[s] \in Held
      BY <2>1, <2>2, <2>3, <2>4, <2>5, <2>6, <1>h DEF Places
    <2>8. \A s \in Range(batch') : pc'[s] \in Held \cup {"respond", "served"}
      BY <2>2, <2>4, <2>5, <2>6 DEF Places
    <2>9. \A s \in released' : pc'[s] \in Held
      BY <2>1, <2>2, <2>4, <2>5 DEF Places
    <2>10. Queued' \cap Range(batch') = {}
      BY <2>2, <2>3, <2>6 DEF Places
    <2> QED
      BY <2>3, <2>6, <2>7, <2>8, <2>9, <2>10 DEF Places
  <1>2. CASE Receive(r)
    <2>1. pc[r] = "waiting" /\ r \in released /\ released' = released \ {r} /\ Goto(r, "respond")
          /\ UNCHANGED <<queue, batch, dpc>>
      BY <1>2 DEF Receive
    <2>2. \A s \in Requests : pc'[s] = IF s = r THEN "respond" ELSE pc[s]
      BY <2>1 DEF EndpointTypeOK, Goto
    <2>3. Queued \subseteq Requests /\ Range(batch) \subseteq Requests /\ released \subseteq Requests
      BY RangeOfSeq DEF EndpointTypeOK, Queued
    <2>4. Queued' = Queued /\ Range(batch)' = Range(batch) /\ Settling' = Settling
      BY <2>1 DEF Queued, Settling
    <2>5. r \notin Queued \cup (Range(batch) \ Settling)
      BY <2>1 DEF Places
    <2>6. \A s \in Queued' \cup (Range(batch') \ Settling') : s \notin released' /\ pc'[s] \in Held
      BY <2>1, <2>2, <2>3, <2>4, <2>5 DEF Places
    <2>7. \A s \in Range(batch') : pc'[s] \in Held \cup {"respond", "served"}
      BY <2>2, <2>3, <2>4 DEF Places
    <2>8. \A s \in released' : pc'[s] \in Held
      BY <2>1, <2>2, <2>3 DEF Places
    <2> QED
      BY <2>1, <2>4, <2>6, <2>7, <2>8 DEF Places
  <1>3. CASE ~PushOK(r) /\ ~Receive(r)
    <2>1. PICK label : Goto(r, label) /\ (pc[r] \in Held => label \in Held)
                       /\ (pc[r] \in {"respond", "served"} => label \in {"respond", "served"})
      BY <1>3, <1>h DEF CommonStep, Begin, NewTicket, Admission, Reject, PushFull, Retry, TurnAway,
                        Announce, Signal, Unavailable, Respond, Disconnect
    <2>2. UNCHANGED <<queue, batch, released, dpc>>
      BY <1>3 DEF CommonStep, Begin, NewTicket, Admission, PushFull, Retry, TurnAway,
                  Announce, Signal, Unavailable, Respond, Disconnect
    <2> QED
      BY <2>1, <2>2, MoveKeepsPlaces
  <1> QED
    BY <1>1, <1>2, <1>3

(* Stop, the reader of the sink and stuttering steps move no ticket. *)
LEMMA SamePlaces ==
    ASSUME Places, UNCHANGED <<pc, queue, batch, released, dpc>>
    PROVE  Places'
  BY DEF Places, Queued, Settling

-----------------------------------------------------------------------------
(* The steps of a handler implement the gate. *)

(* The handler states of a request that has taken a place in the queue. *)
Taken == InFlight \cup {"served", "unavailable", "gone"}

(* The answer the gate sees, as a function of the handler's state. *)
ReplyAt(label) ==
    CASE label = "served"                        -> "ok"
      [] label = "rejected"                      -> "refused"
      [] label \in {"turnedAway", "unavailable"} -> "unavailable"
      [] label \in {"uncount", "gone"}           -> "gone"
      [] OTHER                                   -> "none"

(* Reply is ReplyAt of each handler. *)
LEMMA ReplyIsReplyAt == Reply = [r \in Requests |-> ReplyAt(pc[r])]
  BY DEF Reply, ReplyAt, IsCancelled

(* A step of one handler changes at most its own answer. *)
LEMMA ReplyAfterGoto ==
    ASSUME EndpointTypeOK, NEW r \in Requests, NEW label, Goto(r, label)
    PROVE  Reply' = [Reply EXCEPT ![r] = ReplyAt(label)]
  <1>1. Reply' = [s \in Requests |-> ReplyAt(pc'[s])]
    BY DEF Reply, ReplyAt, IsCancelled
  <1>2. Reply = [s \in Requests |-> ReplyAt(pc[s])]
    BY ReplyIsReplyAt
  <1>3. \A s \in Requests : pc'[s] = IF s = r THEN label ELSE pc[s]
    BY DEF EndpointTypeOK, Goto
  <1> HIDE DEF Reply
  <1> QED
    BY <1>1, <1>2, <1>3

(* Who has been let through does not change while the queue stays and no handler
   takes a place. *)
LEMMA SameGranted ==
    ASSUME EndpointTypeOK, NEW r \in Requests, NEW label, Goto(r, label), queue' = queue,
           pc[r] \in Taken <=> label \in Taken
    PROVE  Queued' = Queued /\ Granted' = Granted
  <1>1. \A s \in Requests : pc'[s] = IF s = r THEN label ELSE pc[s]
    BY DEF EndpointTypeOK, Goto
  <1>2. Queued' = Queued
    BY DEF Queued
  <1> QED
    BY <1>1, <1>2 DEF Granted, Taken

(* A step that changes neither the answer nor the place of its request is
   invisible at the gate. *)
LEMMA HiddenStep ==
    ASSUME EndpointTypeOK, NEW r \in Requests, NEW label, Goto(r, label),
           queue' = queue, ctxDone' = ctxDone,
           pc[r] \in Taken <=> label \in Taken,
           ReplyAt(label) = ReplyAt(pc[r])
    PROVE  UNCHANGED <<Queued, Granted, Reply, ctxDone>>
  <1>1. Queued' = Queued /\ Granted' = Granted
    BY SameGranted
  <1>2. Reply' = Reply
    BY ReplyAfterGoto, ReplyIsReplyAt
  <1> QED
    BY <1>1, <1>2

(* A step that answers a request answers it at the gate. *)
LEMMA AnswerStep ==
    ASSUME EndpointTypeOK, NEW r \in Requests, NEW label, Goto(r, label),
           queue' = queue, ctxDone' = ctxDone,
           pc[r] \in Taken <=> label \in Taken,
           ReplyAt(pc[r]) = "none"
    PROVE  Abstract!Answer(r, ReplyAt(label))
  <1>1. Queued' = Queued /\ Granted' = Granted
    BY SameGranted
  <1>2. Reply[r] = "none"
    BY ReplyIsReplyAt
  <1>3. Reply' = [Reply EXCEPT ![r] = ReplyAt(label)]
    BY ReplyAfterGoto
  <1> QED
    BY <1>1, <1>2, <1>3 DEF Abstract!Answer, Abstract!Open

(* The gate's steps a handler step may be. *)
GateStep == Abstract!Next \/ UNCHANGED <<Queued, Granted, Reply, ctxDone>>

(* Each step of a handler is a step of the gate or invisible there: the push is
   Enter, the answers are Serve, Refuse, TellStopped and Leave. *)
LEMMA CommonGate ==
    ASSUME EndpointTypeOK, Places, NEW r \in Requests, CommonStep(r)
    PROVE  GateStep
  <1>t. Taken = {"pushed", "account", "signal", "waiting", "respond", "uncount",
                 "served", "unavailable", "gone"}
    BY DEF Taken, InFlight, Unsignalled
  <1>h. Held = {"pushed", "account", "signal", "waiting", "uncount", "unavailable", "gone"}
    BY DEF Held, InFlight, Unsignalled
  <1>e. (r \in Queued \cup Granted) <=> (pc[r] \in Taken)
    BY <1>t, <1>h DEF Places, Granted, Taken
  <1>1. CASE PushOK(r)
    <2>1. pc[r] = "push" /\ queue' = Append(queue, r) /\ Goto(r, "pushed") /\ ctxDone' = ctxDone
          /\ Len(queue) < MaxQueueSize
      BY <1>1, MaxQueueSizeAssumption DEF PushOK, Full, EndpointTypeOK
    <2>2. Queued' = Queued \cup {r}
      BY <2>1, AppendRange DEF EndpointTypeOK, Queued
    <2>3. \A s \in Requests : pc'[s] = IF s = r THEN "pushed" ELSE pc[s]
      BY <2>1 DEF EndpointTypeOK, Goto
    <2>4. Granted' = Granted
      BY <2>1, <2>2, <2>3, <1>t DEF Granted, Taken
    <2>5. Reply' = Reply /\ Reply[r] = "none"
      <3>1. ReplyAt("push") = "none" /\ ReplyAt("pushed") = "none"
        BY DEF ReplyAt
      <3> QED
        BY <2>1, <3>1, ReplyAfterGoto, ReplyIsReplyAt
    <2>6. Cardinality(Queued) < MaxQueueSize
      <3>1. Cardinality(Queued) <= Len(queue) /\ IsFiniteSet(Queued)
        <4>1. Queued \subseteq Requests
          BY RangeOfSeq DEF EndpointTypeOK, Queued
        <4> QED
          BY <4>1, RangeCardinality, RequestsAssumption, FS_Subset DEF EndpointTypeOK, Queued
      <3>2. Cardinality(Queued) \in Nat /\ Len(queue) \in Nat /\ MaxQueueSize \in Nat
        BY <3>1, FS_CardinalityType, MaxQueueSizeAssumption DEF EndpointTypeOK
      <3> QED
        BY <2>1, <3>1, <3>2
    <2>7. ~(r \in Queued \cup Granted)
      BY <1>e, <1>t, <2>1
    <2>c. Abstract!Cardinality(Queued) = Cardinality(Queued)
      BY DEF Abstract!Cardinality, Cardinality
    <2>8. Abstract!Enter(r)
      BY <2>1, <2>2, <2>4, <2>5, <2>6, <2>7, <2>c DEF Abstract!Enter, Abstract!Open, Abstract!Entered
    <2> QED
      BY <2>8 DEF GateStep, Abstract!Next
  <1>2. CASE Respond(r)
    <2>1. pc[r] = "respond" /\ Goto(r, "served") /\ queue' = queue /\ ctxDone' = ctxDone
      BY <1>2 DEF Respond
    <2>2. r \in Granted
      BY <2>1, <1>h, <1>t, <1>e DEF Places
    <2>3. Abstract!Answer(r, "ok")
      BY <2>1, <1>t, AnswerStep DEF ReplyAt
    <2> QED
      BY <2>2, <2>3 DEF GateStep, Abstract!Next, Abstract!Serve
  <1>3. CASE Unavailable(r) \/ TurnAway(r)
    <2>1. PICK label \in {"turnedAway", "unavailable"} :
            Goto(r, label) /\ (pc[r] \in Taken <=> label \in Taken)
      BY <1>3, <1>t DEF Unavailable, TurnAway
    <2>2. queue' = queue /\ ctxDone' = ctxDone /\ ctxDone /\ pc[r] \in {"waiting", "retry"}
      BY <1>3 DEF Unavailable, TurnAway
    <2>3. Abstract!Answer(r, "unavailable")
      BY <2>1, <2>2, AnswerStep DEF ReplyAt
    <2> QED
      BY <2>2, <2>3 DEF GateStep, Abstract!Next, Abstract!TellStopped
  <1>4. ASSUME NEW label \in {"uncount", "gone"}, Disconnect(r, label) PROVE GateStep
    <2>1. pc[r] = "waiting" /\ Goto(r, label) /\ queue' = queue /\ ctxDone' = ctxDone
      BY <1>4 DEF Disconnect
    <2>2. Abstract!Answer(r, "gone")
      BY <2>1, <1>t, AnswerStep DEF ReplyAt
    <2>3. Abstract!Entered(r)
      BY <2>1, <1>t, <1>e DEF Abstract!Entered
    <2> QED
      BY <2>2, <2>3 DEF GateStep, Abstract!Next, Abstract!Leave
  <1>5. ASSUME Goto(r, "rejected"), pc[r] \in {"idle", "admit", "push"},
               queue' = queue, ctxDone' = ctxDone
        PROVE  GateStep
    <2>1. Abstract!Answer(r, "refused")
      BY <1>5, <1>t, AnswerStep DEF ReplyAt
    <2>2. ~Abstract!Entered(r)
      BY <1>5, <1>t, <1>e DEF Abstract!Entered
    <2> QED
      BY <2>1, <2>2 DEF GateStep, Abstract!Next, Abstract!Refuse
  <1>6. ASSUME NEW label, Goto(r, label), queue' = queue, ctxDone' = ctxDone,
               \/ pc[r] \in {"idle", "admit", "push", "retry"}
                  /\ label \in {"idle", "admit", "push", "retry"}
               \/ pc[r] \in {"pushed", "account", "signal", "waiting", "respond"}
                  /\ label \in {"pushed", "account", "signal", "waiting", "respond"}
        PROVE  GateStep
    <2>1. ReplyAt(label) = "none" /\ ReplyAt(pc[r]) = "none"
      BY <1>6 DEF ReplyAt
    <2>2. pc[r] \in Taken <=> label \in Taken
      BY <1>6, <1>t
    <2> QED
      BY <1>6, <2>1, <2>2, HiddenStep DEF GateStep
  <1>7. CASE Begin(r)
    BY <1>7, <1>5, <1>6 DEF Begin, NewTicket, Reject
  <1>8. ASSUME NEW est, Admission(r, est) PROVE GateStep
    BY <1>8, <1>5, <1>6 DEF Admission, Reject
  <1>9. CASE PushFull(r)
    BY <1>9, <1>5, <1>6 DEF PushFull, Reject
  <1>10. CASE Retry(r)
    BY <1>10, <1>6 DEF Retry
  <1>11. ASSUME NEW label \in {"account", "signal"}, Announce(r, label) PROVE GateStep
    BY <1>11, <1>6 DEF Announce
  <1>12. CASE Signal(r)
    BY <1>12, <1>6 DEF Signal
  <1>13. CASE Receive(r)
    BY <1>13, <1>6 DEF Receive
  <1> QED
    BY <1>1, <1>2, <1>3, <1>4, <1>7, <1>8, <1>9, <1>10, <1>11, <1>12, <1>13 DEF CommonStep

(* Taking one ticket out of the queue is Grant. *)
LEMMA PopIsGrant ==
    ASSUME EndpointTypeOK, Places, NEW r \in Queued, Queued' = Queued \ {r},
           UNCHANGED <<pc, ctxDone>>
    PROVE  GateStep
  <1>1. r \in Requests /\ pc[r] \in Taken
    BY RangeOfSeq DEF EndpointTypeOK, Queued, Places, Held, Taken
  <1>2. Granted' = Granted \cup {r}
    BY <1>1 DEF Granted, Taken
  <1>3. Reply' = Reply
    BY DEF Reply, IsCancelled
  <1>4. Abstract!Grant(r)
    BY <1>2, <1>3 DEF Abstract!Grant
  <1> QED
    BY <1>1, <1>4 DEF GateStep, Abstract!Next

(* Steps that leave the handlers and the queue alone are invisible or Stop. *)
LEMMA BackgroundGate ==
    ASSUME UNCHANGED <<pc, queue>>, UNCHANGED ctxDone \/ ctxDone' = TRUE
    PROVE  GateStep
  <1>1. UNCHANGED <<Queued, Granted, Reply>>
    BY DEF Queued, Granted, Reply, IsCancelled
  <1> QED
    BY <1>1 DEF GateStep, Abstract!Next, Abstract!Stop

(* A fresh endpoint is a fresh gate. *)
LEMMA InitGate == EndpointInit => Abstract!Init
  <1> SUFFICES ASSUME EndpointInit PROVE Abstract!Init
    OBVIOUS
  <1>1. Queued = {} /\ ctxDone = FALSE /\ pc = [r \in Requests |-> "idle"]
    BY DEF EndpointInit, Queued, Range
  <1>2. Granted = {}
    BY <1>1 DEF Granted, InFlight, Unsignalled
  <1>3. Reply = [r \in Requests |-> "none"]
    BY <1>1, ReplyIsReplyAt DEF ReplyAt
  <1> QED
    BY <1>1, <1>2, <1>3 DEF Abstract!Init
=============================================================================
