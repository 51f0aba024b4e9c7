--------------------- MODULE EndpointTokenWindowProofs ---------------------
(***************************************************************************)
(* Proofs about EndpointTokenWindow, for every set of requests, scheduler, *)
(* queue size, overflow policy, event buffer and window.                   *)
(***************************************************************************)
EXTENDS EndpointTokenWindow, EndpointProofs

-----------------------------------------------------------------------------
(* The steps of a handler: those both kinds of endpoint have, and the two that
   count the tokens of a ticket. *)
LEMMA HandlerSteps ==
    ASSUME NEW r \in Requests, Arrive(r) \/ HandlerStep(r) \/ Depart(r)
    PROVE  CommonStep(r) \/ Account(r) \/ Uncount(r)
  <1>1. Arrive(r) => Begin(r)
    BY DEF Arrive, Begin
  <1>2. Admit(r) => \E est : Admission(r, est)
    BY DEF Admit
  <1> QED
    BY <1>1, <1>2 DEF HandlerStep, Depart, CommonStep

(* No step of a handler touches the dispatcher or the window. *)
LEMMA HandlersLeaveWindow ==
    ASSUME NEW r \in Requests, Arrive(r) \/ HandlerStep(r) \/ Depart(r)
    PROVE  UNCHANGED <<dpc, batch, untested, refusedBefore, windowVars>>
  BY DEF Arrive, NewTicket, HandlerStep, Admit, Admission, Account, Uncount, PushOK, PushFull,
         Retry, TurnAway, Announce, Signal, Receive, Unavailable, Respond, Depart, Disconnect,
         ticketVars, tokenVars, windowVars

-----------------------------------------------------------------------------
(* Type correctness. *)

WindowTypeOK ==
    /\ cost \in [Requests -> Int]
    /\ pendingTokens \in Int
    /\ remaining \in Int
    /\ resetCh \in BOOLEAN
    /\ twpc \in {"loop", "notify", "exit"}
    /\ twDone \in BOOLEAN
    /\ untested \in Seq(Requests)
    /\ spent \in Nat
    /\ refusedBefore \subseteq Requests

(* Where the dispatcher stands says whether it holds tickets. *)
BatchShape ==
    /\ dpc \in {"select", "scan", "send", "settle", "exit"}
    /\ dpc \in {"send", "settle"} => batch # <<>>
    /\ dpc \in {"select", "exit"} => batch = <<>>

TypeInv == EndpointTypeOK /\ WindowTypeOK /\ BatchShape

(* A fresh endpoint is well typed. *)
LEMMA InitType == Init => TypeInv
  <1> SUFFICES ASSUME Init PROVE TypeInv
    OBVIOUS
  <1>1. EndpointTypeOK
    BY EndpointInitType DEF Init
  <1>2. WindowTypeOK
    <2>1. cost \in [Requests -> Int] /\ untested \in Seq(Requests)
      BY DEF Init
    <2>2. pendingTokens \in Int /\ remaining \in Int /\ spent \in Nat
      BY CapacityAssumption DEF Init
    <2> QED
      BY <2>1, <2>2 DEF Init, WindowTypeOK
  <1>3. BatchShape
    BY DEF Init, EndpointInit, BatchShape
  <1> QED
    BY <1>1, <1>2, <1>3 DEF TypeInv

(* PopWhere tests a ticket it has not tested, and TryConsume either pays for it,
   and it moves from the queue to the batch, or changes nothing. *)
LEMMA TestMoves ==
    ASSUME TypeInv, TestTicket
    PROVE  \E i \in DOMAIN untested :
             /\ i \in ScanNext(untested, priority, enqueuedAt)
             /\ untested[i] \in Requests
             /\ untested' = RemoveAt(untested, i)
             /\ untested' \in Seq(Requests)
             /\ \/ /\ cost[untested[i]] <= remaining
                   /\ remaining' = remaining - cost[untested[i]]
                   /\ spent' = spent + Max({0, cost[untested[i]]})
                   /\ batch' = Append(batch, untested[i])
                   /\ \E j \in DOMAIN queue : queue[j] = untested[i] /\ queue' = RemoveAt(queue, j)
                \/ /\ cost[untested[i]] > remaining
                   /\ UNCHANGED <<remaining, spent, batch, queue>>
  <1>1. PICK i \in ScanNext(untested, priority, enqueuedAt) :
             /\ untested' = RemoveAt(untested, i)
             /\ IF cost[untested[i]] <= remaining
                THEN /\ remaining' = remaining - cost[untested[i]]
                     /\ spent' = spent + Max({0, cost[untested[i]]})
                     /\ batch' = Append(batch, untested[i])
                     /\ \E j \in DOMAIN queue : queue[j] = untested[i] /\ queue' = RemoveAt(queue, j)
                ELSE UNCHANGED <<remaining, spent, batch, queue>>
    BY DEF TestTicket
  <1>2. i \in DOMAIN untested
    BY DEF ScanNext, First
  <1>3. untested \in Seq(Requests) /\ cost \in [Requests -> Int] /\ remaining \in Int
    BY DEF TypeInv, WindowTypeOK
  <1>4. untested[i] \in Requests
    BY <1>2, <1>3
  <1>5. cost[untested[i]] > remaining <=> ~(cost[untested[i]] <= remaining)
    BY <1>3, <1>4
  <1>6. untested' \in Seq(Requests)
    BY <1>1, <1>2, <1>3, RemoveAtRange
  <1> QED
    BY <1>1, <1>2, <1>4, <1>5, <1>6

(* max(0, c) as the history variable spent counts it. *)
LEMMA MaxZero ==
    ASSUME NEW c \in Int
    PROVE  /\ Max({0, c}) \in Nat
           /\ c >= 0 => Max({0, c}) = c
  <1>1. \A x \in Int : (x \in {0, c} /\ \A y \in {0, c} : x >= y) <=> x = IF c >= 0 THEN c ELSE 0
    OBVIOUS
  <1>2. Max({0, c}) = IF c >= 0 THEN c ELSE 0
    BY <1>1 DEF Max
  <1> QED
    BY <1>2

(* Every step keeps the types. *)
LEMMA NextType == TypeInv /\ [Next]_vars => TypeInv'
  <1> SUFFICES ASSUME TypeInv, [Next]_vars PROVE TypeInv'
    OBVIOUS
  <1> USE DEF ticketVars, tokenVars, windowVars
  <1>a. EndpointTypeOK /\ WindowTypeOK /\ BatchShape
    BY DEF TypeInv
  <1>c. {"select", "scan", "send", "settle", "exit"} \subseteq DispatcherStates
    BY DEF DispatcherStates
  <1>1. ASSUME NEW r \in Requests, Arrive(r) \/ HandlerStep(r) \/ Depart(r) PROVE TypeInv'
    <2>1. UNCHANGED <<dpc, batch, untested, refusedBefore, windowVars>>
      BY <1>1, HandlersLeaveWindow
    <2>2. BatchShape'
      BY <1>a, <2>1 DEF BatchShape
    <2>3. EndpointTypeOK'
      <3>1. CASE CommonStep(r)
        BY <3>1, <1>a, CommonType
      <3>2. CASE Account(r)
        BY <3>2, <1>a, GotoType
        DEF Account, EndpointTypeOK, HandlerStates, InFlight, Unsignalled
      <3>3. CASE Uncount(r)
        BY <3>3, <1>a, GotoType DEF Uncount, EndpointTypeOK, HandlerStates, Terminal
      <3> QED
        BY <1>1, <3>1, <3>2, <3>3, HandlerSteps
    <2>4. cost' \in [Requests -> Int]
      <3>1. CASE Arrive(r)
        <4>1. PICK tokens \in TokenParams :
                cost' = [cost EXCEPT ![r] = IF tokens > 0 THEN tokens ELSE DefaultTokens]
          BY <3>1 DEF Arrive
        <4>2. (IF tokens > 0 THEN tokens ELSE DefaultTokens) \in Int
          BY TokenParamsAssumption, DefaultTokensAssumption
        <4> QED
          BY <4>1, <4>2, <1>a DEF WindowTypeOK
      <3>2. CASE ~Arrive(r)
        BY <1>1, <3>2, <1>a DEF HandlerStep, Admit, Account, Uncount, Depart, WindowTypeOK
      <3> QED
        BY <3>1, <3>2
    <2>5. pendingTokens' \in Int
      <3>1. pendingTokens \in Int /\ cost[r] \in Int
        BY <1>a DEF WindowTypeOK
      <3>2. pendingTokens' \in {pendingTokens, pendingTokens + cost[r], pendingTokens - cost[r]}
        BY <1>1 DEF Arrive, HandlerStep, Admit, Account, Uncount, Depart
      <3> QED
        BY <3>1, <3>2
    <2> QED
      BY <2>1, <2>2, <2>3, <2>4, <2>5, <1>a DEF TypeInv, WindowTypeOK
  <1>2. CASE TakeWork \/ TakeReset
    <2>0. untested' = queue /\ dpc' = "scan" /\ dpc = "select"
      BY <1>2 DEF TakeWork, TakeReset, StartScan
    <2>1. work' \in 0 .. MaxQueueSize
      BY <1>2, <1>a, MaxQueueSizeAssumption DEF TakeWork, TakeReset, EndpointTypeOK
    <2>3. resetCh' \in BOOLEAN
      BY <1>2, <1>a DEF TakeWork, TakeReset, WindowTypeOK
    <2>2. UNCHANGED <<pc, priority, enqueuedAt, queue, released, ctxDone, events, batch,
                      cost, pendingTokens, remaining, twpc, twDone, spent, refusedBefore>>
      BY <1>2 DEF TakeWork, TakeReset, StartScan
    <2> QED
      BY <1>a, <1>c, <2>0, <2>1, <2>2, <2>3 DEF TypeInv, EndpointTypeOK, WindowTypeOK, BatchShape
  <1>3. CASE TestTicket
    <2>1. PICK i \in DOMAIN untested :
             /\ untested[i] \in Requests
             /\ untested' \in Seq(Requests)
             /\ \/ /\ cost[untested[i]] <= remaining
                   /\ remaining' = remaining - cost[untested[i]]
                   /\ spent' = spent + Max({0, cost[untested[i]]})
                   /\ batch' = Append(batch, untested[i])
                   /\ \E j \in DOMAIN queue : queue[j] = untested[i] /\ queue' = RemoveAt(queue, j)
                \/ /\ cost[untested[i]] > remaining
                   /\ UNCHANGED <<remaining, spent, batch, queue>>
      BY <1>3, TestMoves
    <2>2. UNCHANGED <<pc, priority, enqueuedAt, work, released, ctxDone, events, dpc,
                      cost, pendingTokens, resetCh, twpc, twDone, refusedBefore>> /\ dpc = "scan"
      BY <1>3 DEF TestTicket
    <2>3. cost[untested[i]] \in Int /\ remaining \in Int /\ spent \in Nat
      BY <1>a, <2>1 DEF WindowTypeOK
    <2>4. Max({0, cost[untested[i]]}) \in Nat
      BY <2>3, MaxZero
    <2>5. remaining' \in Int /\ spent' \in Nat
      BY <2>1, <2>3, <2>4
    <2>6. batch' \in Seq(Requests)
      <3>1. batch \in Seq(Requests)
        BY <1>a DEF EndpointTypeOK
      <3> QED
        BY <2>1, <3>1, AppendRange
    <2>7. queue' \in Seq(Requests) /\ Len(queue') <= MaxQueueSize
      <3>1. queue \in Seq(Requests) /\ Len(queue) <= MaxQueueSize /\ MaxQueueSize \in Nat
        BY <1>a, MaxQueueSizeAssumption DEF EndpointTypeOK
      <3>2. ASSUME NEW j \in DOMAIN queue, queue' = RemoveAt(queue, j)
            PROVE  queue' \in Seq(Requests) /\ Len(queue') = Len(queue) - 1
        BY <3>1, <3>2, RemoveAtRange
      <3>3. CASE queue' = queue
        BY <3>1, <3>3
      <3>4. CASE \E j \in DOMAIN queue : queue' = RemoveAt(queue, j)
        BY <3>1, <3>2, <3>4
      <3> QED
        BY <2>1, <3>3, <3>4
    <2> QED
      BY <1>a, <2>1, <2>2, <2>5, <2>6, <2>7 DEF TypeInv, EndpointTypeOK, WindowTypeOK, BatchShape
  <1>4. CASE EndScan
    BY <1>4, <1>a, <1>c DEF EndScan, TypeInv, EndpointTypeOK, WindowTypeOK, BatchShape
  <1>5. CASE Release
    <2>1. batch \in Seq(Requests) /\ batch # <<>>
      BY <1>5, <1>a DEF Release, EndpointTypeOK, BatchShape
    <2>2. Head(batch) \in Requests
      BY <2>1
    <2> QED
      BY <1>5, <1>a, <1>c, <2>1, <2>2
      DEF Release, TypeInv, EndpointTypeOK, WindowTypeOK, BatchShape
  <1>6. CASE Settle
    <2>1. batch \in Seq(Requests) /\ batch # <<>>
      BY <1>6, <1>a DEF Settle, EndpointTypeOK, BatchShape
    <2>2. Head(batch) \in Requests /\ Tail(batch) \in Seq(Requests)
          /\ (Tail(batch) = <<>> <=> Len(batch) = 1)
      <3>1. Head(batch) \in Requests /\ Tail(batch) \in Seq(Requests)
            /\ Len(Tail(batch)) = Len(batch) - 1 /\ Len(batch) \in Nat
        BY <2>1
      <3>2. Tail(batch) = <<>> <=> Len(Tail(batch)) = 0
        BY <3>1
      <3> QED
        BY <3>1, <3>2
    <2>3. pendingTokens' \in Int
      BY <1>6, <1>a, <2>2 DEF Settle, WindowTypeOK
    <2>4. dpc' = (IF Len(batch) = 1 THEN "select" ELSE "send") /\ batch' = Tail(batch)
      BY <1>6 DEF Settle
    <2>5. BatchShape'
      BY <2>2, <2>4 DEF BatchShape
    <2>6. UNCHANGED <<pc, priority, enqueuedAt, queue, work, released, ctxDone, events,
                   cost, untested, refusedBefore, windowVars>>
      BY <1>6 DEF Settle
    <2> QED
      BY <1>a, <1>c, <2>2, <2>3, <2>4, <2>5, <2>6 DEF TypeInv, EndpointTypeOK, WindowTypeOK
  <1>7. CASE Exit
    BY <1>7, <1>a, <1>c DEF Exit, TypeInv, EndpointTypeOK, WindowTypeOK, BatchShape
  <1>8. CASE Ticker \/ StopWindow \/ UNCHANGED vars
    <2>1. UNCHANGED endpointVars
      BY <1>8 DEF Ticker, Refill, Notify, WindowExit, StopWindow, vars
    <2>2. WindowTypeOK'
      <3>1. CASE Refill
        <4>1. Queued \subseteq Requests
          BY <1>a, RangeOfSeq DEF EndpointTypeOK, Queued
        <4> QED
          BY <3>1, <4>1, <1>a, CapacityAssumption DEF Refill, WindowTypeOK
      <3>2. CASE Notify \/ WindowExit \/ StopWindow \/ UNCHANGED vars
        BY <3>2, <1>a DEF Notify, WindowExit, StopWindow, vars, WindowTypeOK
      <3> QED
        BY <1>8, <3>1, <3>2 DEF Ticker
    <2>3. EndpointTypeOK' /\ BatchShape'
      BY <2>1, <1>a DEF endpointVars, EndpointTypeOK, BatchShape
    <2> QED
      BY <2>2, <2>3 DEF TypeInv
  <1>9. CASE Stop \/ (SinkReceive /\ UNCHANGED tokenVars)
    <2>1. EndpointTypeOK'
      BY <1>9, <1>a, OutsideType DEF Stop
    <2>2. UNCHANGED <<batch, dpc, tokenVars>>
      BY <1>9 DEF Stop, Cancel, SinkReceive
    <2> QED
      BY <1>a, <2>1, <2>2 DEF TypeInv, WindowTypeOK, BatchShape
  <1> QED
    BY <1>1, <1>2, <1>3, <1>4, <1>5, <1>6, <1>7, <1>8, <1>9 DEF Next, Dispatch

-----------------------------------------------------------------------------
(* A ticket is in one place at a time, and the endpoint is a gate. *)

(* PopWhere holds the queue's mutex: what it has still to test is in the queue, in
   the queue's order. *)
ScanShape ==
    dpc = "scan" => /\ IsInjective(untested)
                    /\ Range(untested) \subseteq Queued
                    /\ SameOrder(untested, queue)

PlacesInv == TypeInv /\ Places /\ ScanShape

(* In a fresh endpoint no ticket is anywhere. *)
LEMMA InitPlacesInv == Init => PlacesInv
  <1> SUFFICES ASSUME Init PROVE PlacesInv
    OBVIOUS
  <1>1. ScanShape
    BY DEF Init, EndpointInit, ScanShape
  <1> QED
    BY <1>1, InitType, InitPlaces DEF Init, PlacesInv

(* What a test does to the places of the tickets. *)
LEMMA TestPlaces ==
    ASSUME PlacesInv, TestTicket
    PROVE  \E t \in Queued :
             /\ Range(untested') = Range(untested) \ {t} /\ t \in Range(untested)
             /\ IsInjective(untested') /\ SameOrder(untested', queue')
             /\ IsInjective(queue')
             /\ \/ /\ cost[t] <= remaining /\ remaining' = remaining - cost[t]
                   /\ spent' = spent + Max({0, cost[t]})
                   /\ batch' = Append(batch, t)
                   /\ Queued' = Queued \ {t}
                \/ /\ cost[t] > remaining
                   /\ UNCHANGED <<remaining, spent, batch, queue>>
  <1>1. TypeInv /\ Places /\ IsInjective(untested) /\ Range(untested) \subseteq Queued
        /\ SameOrder(untested, queue) /\ IsInjective(queue)
    BY DEF PlacesInv, ScanShape, TestTicket, Places
  <1>2. untested \in Seq(Requests) /\ queue \in Seq(Requests)
    BY <1>1 DEF TypeInv, WindowTypeOK, EndpointTypeOK
  <1>3. PICK i \in DOMAIN untested :
             /\ untested' = RemoveAt(untested, i)
             /\ \/ /\ cost[untested[i]] <= remaining
                   /\ remaining' = remaining - cost[untested[i]]
                   /\ spent' = spent + Max({0, cost[untested[i]]})
                   /\ batch' = Append(batch, untested[i])
                   /\ \E j \in DOMAIN queue : queue[j] = untested[i] /\ queue' = RemoveAt(queue, j)
                \/ /\ cost[untested[i]] > remaining
                   /\ UNCHANGED <<remaining, spent, batch, queue>>
    BY <1>1, TestMoves
  <1> DEFINE t == untested[i]
  <1>4. t \in Range(untested) /\ t \in Queued
    BY <1>1 DEF Range
  <1>5. Range(untested') = Range(untested) \ {t} /\ IsInjective(untested')
        /\ SameOrder(untested', queue) /\ untested' \in Seq(Requests)
    BY <1>1, <1>2, <1>3, RemoveAtRange, RemoveKeepsOrder
  <1>6. CASE UNCHANGED <<remaining, spent, batch, queue>> /\ cost[t] > remaining
    BY <1>1, <1>4, <1>5, <1>6
  <1>7. ASSUME NEW j \in DOMAIN queue, queue[j] = t, queue' = RemoveAt(queue, j)
        PROVE  /\ Queued' = Queued \ {t} /\ IsInjective(queue')
               /\ SameOrder(untested', queue')
    BY <1>1, <1>2, <1>5, <1>7, RemoveAtRange, RemoveKeepsOrder DEF Queued
  <1> HIDE DEF t
  <1> QED
    BY <1>3, <1>4, <1>5, <1>6, <1>7 DEF t

(* Every step keeps each ticket in one place: a test that succeeds moves a ticket
   from the queue to the batch, Release from the batch into its channel. *)
LEMMA NextPlaces == PlacesInv /\ [Next]_vars => PlacesInv'
  <1> SUFFICES ASSUME PlacesInv, [Next]_vars PROVE Places' /\ ScanShape'
    BY NextType DEF PlacesInv
  <1> USE DEF ticketVars, tokenVars, windowVars
  <1>a. TypeInv /\ EndpointTypeOK /\ WindowTypeOK /\ BatchShape /\ Places /\ ScanShape
    BY DEF PlacesInv, TypeInv
  <1>1. ASSUME NEW r \in Requests, Arrive(r) \/ HandlerStep(r) \/ Depart(r)
        PROVE  Places' /\ ScanShape'
    <2>1. UNCHANGED <<dpc, untested>>
      BY <1>1, HandlersLeaveWindow
    <2>2. dpc = "scan" => queue' = queue
      BY <1>1 DEF Arrive, NewTicket, HandlerStep, Admit, Admission, Account, Uncount, PushOK,
                  QueueUnlocked, PushFull, Retry, TurnAway, Announce, Signal, Receive,
                  Unavailable, Respond, Depart, Disconnect
    <2>3. ScanShape'
      BY <1>a, <2>1, <2>2 DEF ScanShape, Queued
    <2>4. Places'
      <3>1. CASE CommonStep(r)
        BY <3>1, <1>a, CommonPlaces
      <3>2. CASE Account(r) \/ Uncount(r)
        <4>1. PICK label \in {"signal", "gone"} : Goto(r, label)
          BY <3>2 DEF Account, Uncount
        <4>2. UNCHANGED <<queue, batch, released, dpc>> /\ pc[r] \in {"account", "uncount"}
          BY <3>2 DEF Account, Uncount
        <4>3. label \in Held /\ pc[r] \notin {"respond", "served"}
          BY <4>2 DEF Held, InFlight, Unsignalled
        <4> QED
          BY <4>1, <4>2, <4>3, <1>a, MoveKeepsPlaces
      <3> QED
        BY <1>1, <3>1, <3>2, HandlerSteps
    <2> QED
      BY <2>3, <2>4
  <1>2. CASE TakeWork \/ TakeReset
    <2>1. UNCHANGED <<pc, queue, batch, released>> /\ dpc' = "scan" /\ untested' = queue
          /\ dpc = "select"
      BY <1>2 DEF TakeWork, TakeReset, StartScan
    <2>2. Settling = {} /\ Settling' = {}
      BY <2>1 DEF Settling
    <2>3. SameOrder(queue, queue)
      BY <1>a, SameOrderAsItself DEF EndpointTypeOK, Places
    <2> QED
      BY <1>a, <2>1, <2>2, <2>3 DEF Places, Queued, ScanShape
  <1>3. CASE TestTicket
    <2>1. PICK t \in Queued :
             /\ Range(untested') = Range(untested) \ {t} /\ t \in Range(untested)
             /\ IsInjective(untested') /\ SameOrder(untested', queue')
             /\ IsInjective(queue')
             /\ \/ batch' = Append(batch, t) /\ Queued' = Queued \ {t}
                \/ UNCHANGED <<batch, queue>>
      BY <1>3, TestPlaces
    <2>2. UNCHANGED <<pc, released, dpc>> /\ dpc = "scan"
      BY <1>3 DEF TestTicket
    <2>3. Range(untested) \subseteq Queued
      BY <1>a, <2>2 DEF ScanShape
    <2>4. Settling = {} /\ Settling' = {}
      BY <2>2 DEF Settling
    <2>5. CASE UNCHANGED <<batch, queue>>
      <3>1. Queued' = Queued
        BY <2>5 DEF Queued
      <3> QED
        BY <1>a, <2>1, <2>2, <2>3, <2>4, <2>5, <3>1 DEF Places, ScanShape
    <2>6. CASE batch' = Append(batch, t) /\ Queued' = Queued \ {t}
      <3>1. t \in Requests /\ batch \in Seq(Requests) /\ t \notin Range(batch)
        BY <1>a, RangeOfSeq DEF EndpointTypeOK, Queued, Places
      <3>2. Range(batch') = Range(batch) \cup {t} /\ IsInjective(batch')
        BY <1>a, <2>6, <3>1, AppendRange DEF Places
      <3> QED
        BY <1>a, <2>1, <2>2, <2>3, <2>4, <2>6, <3>2 DEF Places, ScanShape
    <2> QED
      BY <2>1, <2>5, <2>6
  <1>4. CASE EndScan \/ Exit
    <2>1. UNCHANGED <<pc, queue, batch, released>> /\ dpc' # "scan"
      BY <1>4 DEF EndScan, Exit
    <2>2. Settling = {} /\ Settling' = {}
      BY <1>4 DEF Settling, EndScan, Exit
    <2> QED
      BY <1>a, <2>1, <2>2 DEF Places, Queued, ScanShape
  <1>5. CASE Release
    <2>1. dpc = "send" /\ dpc' = "settle" /\ released' = released \cup {Head(batch)}
          /\ UNCHANGED <<pc, queue, batch>>
      BY <1>5 DEF Release
    <2>2. batch \in Seq(Requests) /\ batch # <<>>
      BY <1>a, <2>1 DEF EndpointTypeOK, BatchShape
    <2>3. Head(batch) \in Range(batch)
      BY <2>2, TailRange
    <2>4. Settling = {} /\ Settling' = {Head(batch)} /\ Queued' = Queued
      BY <2>1 DEF Settling, Queued
    <2> QED
      BY <1>a, <2>1, <2>3, <2>4 DEF Places, ScanShape
  <1>6. CASE Settle
    <2>1. dpc = "settle" /\ dpc' \in {"select", "send"} /\ batch' = Tail(batch)
          /\ UNCHANGED <<pc, queue, released>>
      BY <1>6 DEF Settle
    <2>2. batch \in Seq(Requests) /\ batch # <<>>
      BY <1>a, <2>1 DEF EndpointTypeOK, BatchShape
    <2>3. Range(batch') = Range(batch) \ {Head(batch)} /\ IsInjective(batch')
      BY <1>a, <2>1, <2>2, TailRange DEF Places
    <2>4. Settling = {Head(batch)} /\ Settling' = {} /\ Queued' = Queued
      BY <2>1 DEF Settling, Queued
    <2> QED
      BY <1>a, <2>1, <2>3, <2>4 DEF Places, ScanShape
  <1>7. CASE Ticker \/ StopWindow \/ Stop \/ (SinkReceive /\ UNCHANGED tokenVars) \/ UNCHANGED vars
    <2>1. UNCHANGED <<pc, queue, batch, released, dpc, untested>>
      BY <1>7 DEF Ticker, Refill, Notify, WindowExit, StopWindow, Stop, Cancel, SinkReceive,
                  vars, endpointVars
    <2> QED
      BY <1>a, <2>1, SamePlaces DEF ScanShape, Queued
  <1> QED
    BY <1>1, <1>2, <1>3, <1>4, <1>5, <1>6, <1>7 DEF Next, Dispatch

(* No ticket is released twice although PopWhere hands over several at a time, and
   the send on a ticket's one-slot Release channel never finds it full. *)
THEOREM TicketsReleasedOnce == Spec => []ReleasedOnce
  <1>1. PlacesInv => ReleasedOnce
    BY DEF PlacesInv, Places, ReleasedOnce, Held, Settling
  <1> QED
    BY <1>1, InitPlacesInv, NextPlaces, PTL DEF Spec

(* Every step is a step of the gate or invisible there: a test that succeeds is
   Grant. *)
LEMMA NextGate ==
    ASSUME PlacesInv, [Next]_vars
    PROVE  [Abstract!Next]_(Abstract!gateVars)
  <1> SUFFICES GateStep
    BY DEF GateStep, Abstract!gateVars
  <1> USE DEF ticketVars, tokenVars, windowVars
  <1>a. EndpointTypeOK /\ Places
    BY DEF PlacesInv, TypeInv
  <1>1. ASSUME NEW r \in Requests, Arrive(r) \/ HandlerStep(r) \/ Depart(r) PROVE GateStep
    <2>1. CASE CommonStep(r)
      BY <2>1, <1>a, CommonGate
    <2>2. CASE Account(r) \/ Uncount(r)
      <3>1. PICK label \in {"signal", "gone"} :
              Goto(r, label) /\ pc[r] = (IF label = "signal" THEN "account" ELSE "uncount")
        BY <2>2 DEF Account, Uncount
      <3>2. queue' = queue /\ ctxDone' = ctxDone
        BY <2>2 DEF Account, Uncount
      <3>3. label \in Taken /\ pc[r] \in Taken
        BY <3>1 DEF Taken, InFlight, Unsignalled
      <3>4. ReplyAt(label) = ReplyAt(pc[r])
        BY <3>1 DEF ReplyAt
      <3> QED
        BY <1>a, <3>1, <3>2, <3>3, <3>4, HiddenStep DEF GateStep
    <2> QED
      BY <1>1, <2>1, <2>2, HandlerSteps
  <1>2. CASE TestTicket
    <2>1. UNCHANGED <<pc, ctxDone>>
      BY <1>2 DEF TestTicket
    <2>2. PICK t \in Queued : Queued' = Queued \ {t} \/ UNCHANGED queue
      BY <1>2, TestPlaces
    <2>3. CASE Queued' = Queued \ {t}
      BY <1>a, <2>1, <2>3, PopIsGrant
    <2>4. CASE UNCHANGED queue
      BY <2>1, <2>4, BackgroundGate
    <2> QED
      BY <2>2, <2>3, <2>4
  <1>3. CASE \/ TakeWork \/ TakeReset \/ EndScan \/ Release \/ Settle \/ Exit
             \/ Ticker \/ StopWindow \/ Stop \/ (SinkReceive /\ UNCHANGED tokenVars)
             \/ UNCHANGED vars
    <2>1. UNCHANGED <<pc, queue>> /\ (UNCHANGED ctxDone \/ ctxDone' = TRUE)
      BY <1>3 DEF TakeWork, TakeReset, StartScan, EndScan, Release, Settle, Exit, Ticker, Refill,
                  Notify, WindowExit, StopWindow, Stop, Cancel, SinkReceive, vars, endpointVars
    <2> QED
      BY <2>1, BackgroundGate
  <1> QED
    BY <1>1, <1>2, <1>3 DEF Next, Dispatch

(* A token_window endpoint implements the same abstract gate as a standard one. *)
THEOREM TokenWindowImplementsGate == Spec => GateSpec
  <1>1. Init => Abstract!Init
    BY InitGate DEF Init
  <1>2. PlacesInv /\ [Next]_vars => [Abstract!Next]_(Abstract!gateVars)
    BY NextGate
  <1> QED
    BY <1>1, <1>2, InitPlacesInv, NextPlaces, PTL DEF Spec, GateSpec, Abstract!Spec

-----------------------------------------------------------------------------
(* The window's budget and the order of its grants.  Both need costs that are not
   negative, that is, a positive default_tokens. *)

(* What the window has left and what it has granted since its Reset are exactly
   its capacity. *)
BudgetInv ==
    /\ \A r \in Requests : cost[r] >= 0
    /\ remaining >= 0
    /\ spent + remaining = Capacity

(* A Reset that falls into a scan behind a refused ticket leaves a signal that the
   scan does not consume. *)
ResetSeen == refusedBefore # {} => dpc = "scan" /\ (resetCh \/ twpc = "notify")

(* What a scan has refused since the last Reset does not fit. *)
TestedDontFit ==
    dpc = "scan" =>
        \A r \in Queued \ (Range(untested) \cup refusedBefore) : cost[r] > remaining

(* Between scans a ticket that fits is one whose signal is still to come. *)
NothingMissed ==
    (dpc # "scan" /\ ~resetCh /\ twpc # "notify" /\ work = 0)
        => \A r \in Queued : pc[r] \in Unsignalled \/ cost[r] > remaining

WindowInv == PlacesInv /\ BudgetInv /\ ResetSeen /\ TestedDontFit /\ NothingMissed

(* A fresh window is full and nobody waits. *)
LEMMA InitWindow == Init => WindowInv
  <1> SUFFICES ASSUME Init PROVE WindowInv
    OBVIOUS
  <1>1. BudgetInv
    BY CapacityAssumption DEF Init, BudgetInv
  <1>2. ResetSeen /\ TestedDontFit
    BY DEF Init, EndpointInit, ResetSeen, TestedDontFit
  <1>3. NothingMissed
    BY DEF Init, EndpointInit, NothingMissed, Queued, Range
  <1> QED
    BY <1>1, <1>2, <1>3, InitPlacesInv DEF WindowInv

(* A handler changes the cost of its own ticket only, before it is queued, and
   sets it to something that is not negative. *)
LEMMA HandlerCosts ==
    ASSUME DefaultTokens > 0, PlacesInv, \A s \in Requests : cost[s] >= 0, NEW r \in Requests,
           Arrive(r) \/ HandlerStep(r) \/ Depart(r)
    PROVE  /\ \A s \in Requests : cost'[s] >= 0
           /\ \A s \in Queued : cost'[s] = cost[s]
  <1>a. cost \in [Requests -> Int] /\ Queued \subseteq Requests
    BY RangeOfSeq DEF PlacesInv, TypeInv, WindowTypeOK, EndpointTypeOK, Queued
  <1>1. CASE Arrive(r)
    <2>1. PICK tokens \in TokenParams :
            cost' = [cost EXCEPT ![r] = IF tokens > 0 THEN tokens ELSE DefaultTokens]
      BY <1>1 DEF Arrive
    <2>2. (IF tokens > 0 THEN tokens ELSE DefaultTokens) \in Nat
      BY TokenParamsAssumption, DefaultTokensAssumption
    <2>3. \A s \in Requests : s # r => cost'[s] = cost[s]
      BY <2>1, <1>a
    <2>4. cost'[r] >= 0
      BY <2>1, <2>2, <1>a
    <2>5. r \notin Queued
      BY <1>1 DEF Arrive, NewTicket, PlacesInv, Places, Held, InFlight, Unsignalled
    <2> QED
      BY <2>3, <2>4, <2>5, <1>a
  <1>2. CASE ~Arrive(r)
    <2>1. cost' = cost
      BY <1>2 DEF HandlerStep, Admit, Account, Uncount, Depart, tokenVars
    <2> QED
      BY <2>1
  <1> QED
    BY <1>1, <1>2

(* A handler adds to the queue only a ticket whose signal it still owes, and pays
   the signal into the work channel. *)
LEMMA HandlerSignals ==
    ASSUME PlacesInv, NEW r \in Requests, Arrive(r) \/ HandlerStep(r) \/ Depart(r)
    PROVE  /\ \A s \in Queued' : s \in Queued \/ pc'[s] \in Unsignalled
           /\ work' = 0 => /\ work = 0
                           /\ \A s \in Requests : pc[s] \in Unsignalled => pc'[s] \in Unsignalled
           /\ dpc = "scan" => Queued' = Queued
  <1>a. EndpointTypeOK /\ pc \in [Requests -> HandlerStates] /\ work \in Nat
        /\ Queued \subseteq Requests
    BY RangeOfSeq, MaxQueueSizeAssumption DEF PlacesInv, TypeInv, EndpointTypeOK, Queued
  <1>1. CASE PushOK(r)
    <2>1. queue' = Append(queue, r) /\ work' = work /\ dpc # "scan" /\ Goto(r, "pushed")
      BY <1>1 DEF PushOK, QueueUnlocked
    <2>2. Queued' = Queued \cup {r}
      BY <1>a, <2>1, AppendRange DEF EndpointTypeOK, Queued
    <2>3. \A s \in Requests : pc'[s] = IF s = r THEN "pushed" ELSE pc[s]
      BY <1>a, <2>1 DEF Goto
    <2> QED
      BY <2>1, <2>2, <2>3 DEF Unsignalled
  <1>2. CASE Signal(r)
    <2>1. work' = work + 1 /\ queue' = queue
      BY <1>2 DEF Signal
    <2> QED
      BY <1>a, <2>1 DEF Queued
  <1>3. CASE ~PushOK(r) /\ ~Signal(r)
    <2>1. work' = work /\ queue' = queue
      BY <1>3 DEF Arrive, NewTicket, HandlerStep, Admit, Admission, Account, Uncount, PushFull,
                  Retry, TurnAway, Announce, Receive, Unavailable, Respond, Depart, Disconnect
    <2>2. PICK label : Goto(r, label) /\ (pc[r] \in Unsignalled => label \in Unsignalled)
      <3>1. CASE Arrive(r)
        BY <3>1 DEF Arrive, NewTicket, Reject, Unsignalled
      <3>2. CASE ~Arrive(r)
        BY <1>3, <3>2 DEF HandlerStep, Admit, Admission, Reject, Account, Uncount, PushFull,
                  Retry, TurnAway, Announce, Receive, Unavailable, Respond, Depart, Disconnect,
                  Unsignalled
      <3> QED
        BY <3>1, <3>2
    <2>3. \A s \in Requests : pc'[s] = IF s = r THEN label ELSE pc[s]
      BY <1>a, <2>2 DEF Goto
    <2> QED
      BY <2>1, <2>2, <2>3 DEF Queued
  <1> QED
    BY <1>1, <1>2, <1>3

(* Every step keeps the account of the window and loses no wake-up. *)
LEMMA NextWindow ==
    ASSUME DefaultTokens > 0, WindowInv, [Next]_vars
    PROVE  WindowInv'
  <1> SUFFICES BudgetInv' /\ ResetSeen' /\ TestedDontFit' /\ NothingMissed'
    BY NextPlaces DEF WindowInv
  <1> USE DEF ticketVars, tokenVars, windowVars
  <1>a. PlacesInv /\ BudgetInv /\ ResetSeen /\ TestedDontFit /\ NothingMissed
    BY DEF WindowInv
  <1>b. TypeInv /\ EndpointTypeOK /\ WindowTypeOK /\ Queued \subseteq Requests
    BY <1>a, RangeOfSeq DEF PlacesInv, TypeInv, EndpointTypeOK, Queued
  <1>1. ASSUME NEW r \in Requests, Arrive(r) \/ HandlerStep(r) \/ Depart(r)
        PROVE  BudgetInv' /\ ResetSeen' /\ TestedDontFit' /\ NothingMissed'
    <2>1. UNCHANGED <<dpc, untested, refusedBefore, remaining, resetCh, twpc, spent>>
      BY <1>1, HandlersLeaveWindow
    <2>2. \A s \in Requests : cost'[s] >= 0
      BY <1>1, <1>a, HandlerCosts DEF BudgetInv
    <2>3. \A s \in Queued : cost'[s] = cost[s]
      BY <1>1, <1>a, HandlerCosts DEF BudgetInv
    <2>4. dpc = "scan" => Queued' = Queued
      BY <1>1, <1>a, HandlerSignals
    <2>5. \A s \in Queued' : s \in Queued \/ pc'[s] \in Unsignalled
      BY <1>1, <1>a, HandlerSignals
    <2>6. work' = 0 => work = 0 /\ \A s \in Requests : pc[s] \in Unsignalled => pc'[s] \in Unsignalled
      BY <1>1, <1>a, HandlerSignals
    <2>7. BudgetInv'
      BY <1>a, <2>1, <2>2 DEF BudgetInv
    <2>8. ResetSeen'
      BY <1>a, <2>1 DEF ResetSeen
    <2>9. TestedDontFit'
      BY <1>a, <2>1, <2>3, <2>4 DEF TestedDontFit
    <2>10. NothingMissed'
      BY <1>a, <1>b, <2>1, <2>3, <2>5, <2>6 DEF NothingMissed
    <2> QED
      BY <2>7, <2>8, <2>9, <2>10
  <1>2. CASE TakeWork \/ TakeReset
    <2>1. untested' = queue /\ dpc' = "scan" /\ dpc = "select"
          /\ UNCHANGED <<queue, cost, remaining, spent, refusedBefore>>
      BY <1>2 DEF TakeWork, TakeReset, StartScan
    <2>2. refusedBefore = {}
      BY <1>a, <2>1 DEF ResetSeen
    <2>3. Queued' \ Range(untested') = {}
      BY <2>1 DEF Queued
    <2> QED
      BY <1>a, <2>1, <2>2, <2>3 DEF BudgetInv, ResetSeen, TestedDontFit, NothingMissed
  <1>3. CASE TestTicket
    <2>1. PICK t \in Queued :
             /\ Range(untested') = Range(untested) \ {t}
             /\ \/ /\ cost[t] <= remaining /\ remaining' = remaining - cost[t]
                   /\ spent' = spent + Max({0, cost[t]})
                   /\ Queued' = Queued \ {t}
                \/ /\ cost[t] > remaining
                   /\ UNCHANGED <<remaining, spent, batch, queue>>
      BY <1>3, <1>a, TestPlaces
    <2>2. UNCHANGED <<dpc, cost, refusedBefore, resetCh, twpc>> /\ dpc = "scan"
      BY <1>3 DEF TestTicket
    <2>3. ResetSeen' /\ NothingMissed'
      BY <1>a, <2>2 DEF ResetSeen, NothingMissed
    <2>4. \A s \in Requests : cost[s] \in Int /\ cost[s] >= 0
      BY <1>a, <1>b DEF WindowTypeOK, BudgetInv
    <2>5. t \in Requests /\ remaining \in Int /\ spent \in Nat /\ Capacity \in Nat
      BY <1>b, CapacityAssumption DEF WindowTypeOK
    <2>6. CASE cost[t] > remaining /\ UNCHANGED <<remaining, spent, queue>>
      <3>1. Queued' = Queued
        BY <2>6 DEF Queued
      <3>2. BudgetInv'
        BY <1>a, <2>2, <2>6 DEF BudgetInv
      <3>3. TestedDontFit'
        BY <1>a, <2>1, <2>2, <2>6, <3>1 DEF TestedDontFit
      <3> QED
        BY <2>3, <3>2, <3>3
    <2>7. CASE /\ cost[t] <= remaining /\ remaining' = remaining - cost[t]
               /\ spent' = spent + Max({0, cost[t]})
               /\ Queued' = Queued \ {t}
      <3>1. spent' = spent + cost[t]
        BY <2>4, <2>5, <2>7, MaxZero
      <3>2. remaining' >= 0 /\ spent' + remaining' = Capacity
        <4>1. spent + remaining = Capacity
          BY <1>a DEF BudgetInv
        <4>2. cost[t] \in Int /\ cost[t] <= remaining /\ remaining' = remaining - cost[t]
          BY <2>4, <2>5, <2>7
        <4> QED
          BY <4>1, <4>2, <2>5, <3>1
      <3>3. BudgetInv'
        BY <2>2, <2>4, <3>2 DEF BudgetInv
      <3>4. \A c \in Int : c > remaining => c > remaining'
        BY <2>4, <2>5, <2>7
      <3>5. TestedDontFit'
        BY <1>a, <1>b, <2>1, <2>2, <2>4, <2>7, <3>4 DEF TestedDontFit
      <3> QED
        BY <2>3, <3>3, <3>5
    <2> QED
      BY <2>1, <2>6, <2>7
  <1>4. CASE EndScan
    <2>1. dpc = "scan" /\ untested = <<>> /\ dpc' # "scan" /\ refusedBefore' = {}
          /\ UNCHANGED <<queue, cost, remaining, spent, resetCh, twpc>>
      BY <1>4 DEF EndScan
    <2>2. Range(untested) = {} /\ Queued' = Queued
      BY <2>1 DEF Range, Queued
    <2>3. NothingMissed'
      BY <1>a, <2>1, <2>2 DEF ResetSeen, TestedDontFit, NothingMissed
    <2> QED
      BY <1>a, <2>1, <2>3 DEF BudgetInv, ResetSeen, TestedDontFit
  <1>5. CASE Release \/ Settle \/ Exit
    <2>1. dpc # "scan" /\ dpc' # "scan"
          /\ UNCHANGED <<pc, queue, work, cost, remaining, spent, resetCh, twpc, refusedBefore>>
      BY <1>5 DEF Release, Settle, Exit
    <2> QED
      BY <1>a, <2>1 DEF BudgetInv, ResetSeen, TestedDontFit, NothingMissed, Queued
  <1>6. CASE Refill
    <2>1. /\ remaining' = Capacity /\ spent' = 0 /\ twpc' = "notify"
          /\ refusedBefore' = IF dpc = "scan" THEN Queued \ Range(untested) ELSE {}
          /\ UNCHANGED <<dpc, cost, untested>> /\ Queued' = Queued
      BY <1>6 DEF Refill, endpointVars, Queued
    <2>2. BudgetInv'
      BY <1>a, <2>1, CapacityAssumption DEF BudgetInv
    <2>3. ResetSeen' /\ TestedDontFit' /\ NothingMissed'
      BY <2>1 DEF ResetSeen, TestedDontFit, NothingMissed
    <2> QED
      BY <2>2, <2>3
  <1>7. CASE Notify
    <2>1. resetCh' /\ UNCHANGED <<pc, queue, dpc, cost, remaining, spent, untested, refusedBefore>>
      BY <1>7 DEF Notify, endpointVars
    <2> QED
      BY <1>a, <2>1 DEF BudgetInv, ResetSeen, TestedDontFit, NothingMissed, Queued
  <1>8. CASE WindowExit \/ StopWindow \/ Stop \/ (SinkReceive /\ UNCHANGED tokenVars)
             \/ UNCHANGED vars
    <2>1. UNCHANGED <<pc, queue, work, dpc, cost, remaining, spent, untested, refusedBefore, resetCh>>
      BY <1>8 DEF WindowExit, StopWindow, Stop, Cancel, SinkReceive, vars, endpointVars
    <2>2. twpc' = "notify" <=> twpc = "notify"
      BY <1>8 DEF WindowExit, StopWindow, Stop, vars
    <2> QED
      BY <1>a, <2>1, <2>2 DEF BudgetInv, ResetSeen, TestedDontFit, NothingMissed, Queued
  <1> QED
    BY <1>1, <1>2, <1>3, <1>4, <1>5, <1>6, <1>7, <1>8 DEF Next, Dispatch, Ticker

(* "server guarantees no more than N tokens per time window": with a positive
   default cost, whatever the clients ask for and however Resets fall into scans,
   the tickets granted between two Resets never cost more than the capacity. *)
THEOREM WindowBudgetKept ==
    ASSUME DefaultTokens > 0
    PROVE  Spec => []BudgetPerWindow
  <1>1. WindowInv => BudgetPerWindow
    <2> SUFFICES ASSUME WindowInv PROVE spent <= Capacity
      BY DEF BudgetPerWindow
    <2>1. spent \in Nat /\ remaining \in Int /\ Capacity \in Nat
      BY CapacityAssumption DEF WindowInv, PlacesInv, TypeInv, WindowTypeOK
    <2> QED
      BY <2>1 DEF WindowInv, BudgetInv
  <1>2. WindowInv /\ [Next]_vars => WindowInv'
    BY NextWindow
  <1> QED
    BY <1>1, <1>2, InitWindow, PTL DEF Spec

(* No wake-up is lost, however Resets, signals and scans interleave: a dispatcher
   that sleeps with nothing to wake it leaves no ticket in the queue that fits. *)
THEOREM NoWakeUpLost ==
    ASSUME DefaultTokens > 0
    PROVE  Spec => []NoFittingTicketForgotten
  <1>1. WindowInv => NoFittingTicketForgotten
    <2> SUFFICES ASSUME WindowInv, dpc = "select", work = 0, ~resetCh, twpc # "notify",
                        \A r \in Requests : pc[r] \notin Unsignalled
                 PROVE  \A r \in Queued : cost[r] > remaining
      BY DEF NoFittingTicketForgotten
    <2>1. Queued \subseteq Requests
      BY RangeOfSeq DEF WindowInv, PlacesInv, TypeInv, EndpointTypeOK, Queued
    <2> QED
      BY <2>1 DEF WindowInv, NothingMissed
  <1>2. WindowInv /\ [Next]_vars => WindowInv'
    BY NextWindow
  <1> QED
    BY <1>1, <1>2, InitWindow, PTL DEF Spec

(* A ticket the queue would serve before the one being tested was tested before
   it: what PopWhere has still to test is in the order of the queue. *)
LEMMA AheadWasTested ==
    ASSUME PlacesInv, dpc = "scan",
           NEW i \in ScanNext(untested, priority, enqueuedAt),
           NEW s \in Ahead(untested[i])
    PROVE  s \in Queued \ Range(untested)
  <1>a. IsInjective(queue) /\ SameOrder(untested, queue) /\ i \in DOMAIN untested
    BY DEF PlacesInv, Places, ScanShape, ScanNext, First
  <1>b. queue \in Seq(Requests) /\ untested \in Seq(Requests)
    BY DEF PlacesInv, TypeInv, EndpointTypeOK, WindowTypeOK
  <1>1. PICK k \in DOMAIN queue, j \in DOMAIN queue :
            /\ s = queue[k] /\ queue[j] = untested[i]
            /\ Precedes(queue, priority, enqueuedAt, k, j)
    BY DEF Ahead
  <1>2. s \in Queued
    BY <1>1 DEF Queued, Range
  <1>3. ASSUME NEW m \in DOMAIN untested, untested[m] = s PROVE FALSE
    <2>1. ~Precedes(untested, priority, enqueuedAt, m, i)
      BY <1>3 DEF ScanNext, First
    <2>2. k \in Int /\ j \in Int /\ m \in Int /\ i \in Int
      BY <1>a, <1>b, <1>1
    <2>3. m < i => k < j
      BY <1>a, <1>1, <1>3 DEF SameOrder
    <2>4. i < m => j < k
      BY <1>a, <1>1, <1>3 DEF SameOrder
    <2>5. m = i => k = j
      BY <1>a, <1>1, <1>3 DEF IsInjective
    <2>6. CASE Scheduler = "priority"
      BY <1>1, <1>3, <2>1, <2>6 DEF Precedes
    <2>7. CASE Scheduler = "lifo"
      BY <1>1, <2>1, <2>2, <2>3, <2>5, <2>7 DEF Precedes
    <2>8. CASE Scheduler \notin {"priority", "lifo"}
      BY <1>1, <2>1, <2>2, <2>4, <2>5, <2>8 DEF Precedes
    <2> QED
      BY <2>6, <2>7, <2>8
  <1> QED
    BY <1>2, <1>3 DEF Range

(* A step of a scan grants only tickets cheaper than all those the queue would have
   served before them, but for those refused before a Reset. *)
LEMMA NextFavors ==
    ASSUME DefaultTokens > 0, WindowInv, [Next]_vars, dpc = "scan"
    PROVE  Favors
  <1> USE DEF ticketVars, tokenVars, windowVars
  <1>a. PlacesInv /\ TestedDontFit /\ TypeInv /\ Places
    BY DEF WindowInv, PlacesInv
  <1>1. CASE TestTicket /\ queue' # queue
    <2>1. PICK i \in DOMAIN untested :
             /\ i \in ScanNext(untested, priority, enqueuedAt)
             /\ untested[i] \in Requests
             /\ cost[untested[i]] <= remaining
             /\ \E j \in DOMAIN queue : queue[j] = untested[i] /\ queue' = RemoveAt(queue, j)
      BY <1>1, <1>a, TestMoves
    <2>2. Range(queue') = Queued \ {untested[i]}
      BY <1>a, <2>1, RemoveAtRange DEF TypeInv, EndpointTypeOK, Places, Queued
    <2>3. \A s \in Ahead(untested[i]) \ refusedBefore : s \in Queued /\ cost[s] > remaining
      BY <1>a, <2>1, AheadWasTested DEF TestedDontFit
    <2>4. remaining \in Int /\ (\A s \in Requests : cost[s] \in Int) /\ Queued \subseteq Requests
      BY <1>a, RangeOfSeq DEF TypeInv, WindowTypeOK, EndpointTypeOK, Queued
    <2>5. \A s \in Ahead(untested[i]) \ refusedBefore : cost[untested[i]] < cost[s]
      BY <2>1, <2>3, <2>4
    <2> QED
      BY <2>2, <2>5 DEF Favors
  <1>2. CASE queue' = queue
    BY <1>2 DEF Favors, Queued
  <1>3. CASE ~TestTicket
    <2>1. ASSUME NEW r \in Requests, Arrive(r) \/ HandlerStep(r) \/ Depart(r)
          PROVE  queue' = queue
      BY <2>1 DEF Arrive, NewTicket, HandlerStep, Admit, Admission, Account, Uncount, PushOK,
                  QueueUnlocked, PushFull, Retry, TurnAway, Announce, Signal, Receive,
                  Unavailable, Respond, Depart, Disconnect
    <2>2. Dispatch => queue' = queue
      BY <1>3 DEF Dispatch, TakeWork, TakeReset, StartScan, EndScan, Release, Settle, Exit
    <2>3. Ticker \/ StopWindow \/ Stop \/ (SinkReceive /\ UNCHANGED tokenVars) \/ UNCHANGED vars
            => queue' = queue
      BY DEF Ticker, Refill, Notify, WindowExit, StopWindow, Stop, Cancel, SinkReceive,
             vars, endpointVars
    <2> QED
      BY <1>2, <2>1, <2>2, <2>3 DEF Next
  <1> QED
    BY <1>1, <1>2, <1>3

(* "side-effecting predicates (e.g. TryConsume) favor the tickets that would be
   served first": a scan never gives tokens to a ticket that one of those before it
   could have used, unless it refused that one before a Reset that fell into it. *)
THEOREM ScanFavorsServeOrder ==
    ASSUME DefaultTokens > 0
    PROVE  Spec => FavorsServeOrder
  <1>1. WindowInv /\ [Next]_vars => [dpc = "scan" => Favors]_vars
    BY NextFavors
  <1>2. WindowInv /\ [Next]_vars => WindowInv'
    BY NextWindow
  <1> QED
    BY <1>1, <1>2, InitWindow, PTL DEF Spec, FavorsServeOrder
-----------------------------------------------------------------------------
(* The count of pending tokens. *)

(* The tickets the dispatcher has still to settle. *)
Unsettled == Queued \cup Range(batch)

(* What pendingTokens may hold for r.  Its handler adds the cost once, after the
   push, while the dispatcher may settle the ticket before that; whoever finds
   the client gone leaves the subtraction to the handler. *)
Share == [r \in Requests |->
    IF pc[r] \in {"pushed", "account"} THEN (IF r \in Unsettled THEN 0 ELSE 0 - cost[r])
    ELSE IF pc[r] \in {"signal", "waiting", "respond", "served", "unavailable"}
         THEN (IF r \in Unsettled THEN cost[r] ELSE 0)
    ELSE IF pc[r] = "uncount" THEN cost[r]
    ELSE 0]

PendingInv ==
    /\ PlacesInv
    /\ \A r \in Requests : cost[r] >= 0
    /\ pendingTokens <= Total(Share, Requests)

(* A ticket whose handler, place and cost stay as they are has the same share. *)
LEMMA SameShare ==
    ASSUME NEW r \in Requests, pc'[r] = pc[r], cost'[r] = cost[r],
           (r \in Unsettled)' <=> r \in Unsettled
    PROVE  Share'[r] = Share[r]
  BY DEF Share

(* A step that changes one share, and pendingTokens by no more than that. *)
LEMMA PendingMoves ==
    ASSUME TypeInv, TypeInv', pendingTokens <= Total(Share, Requests), NEW r \in Requests,
           \A s \in Requests : s # r => Share'[s] = Share[s],
           pendingTokens' <= pendingTokens + (Share'[r] - Share[r])
    PROVE  (pendingTokens <= Total(Share, Requests))'
  <1>1. \A s \in Requests : Share[s] \in Int /\ Share'[s] \in Int
    <2>1. \A s \in Requests : cost[s] \in Int /\ cost'[s] \in Int
      BY DEF TypeInv, WindowTypeOK
    <2> QED
      BY <2>1 DEF Share
  <1> DEFINE f == Share
             g == Share'
  <1>2. \A s \in Requests : f[s] \in Int /\ g[s] \in Int
    BY <1>1
  <1>3. \A s \in Requests : s # r => f[s] = g[s]
    OBVIOUS
  <1> HIDE DEF f, g
  <1>4. Total(g, Requests) = Total(f, Requests) + (g[r] - f[r])
    <2>1. IsFiniteSet(Requests) /\ r \in Requests
      BY RequestsAssumption
    <2> QED
      BY ONLY <1>2, <1>3, <2>1, TotalChanges
  <1>5. Total(f, Requests) \in Int /\ Total(g, Requests) \in Int
    BY <1>2, RequestsAssumption, TotalType
  <1>6. pendingTokens \in Int /\ pendingTokens' \in Int
    BY DEF TypeInv, WindowTypeOK
  <1>7. pendingTokens <= Total(f, Requests) /\ pendingTokens' <= pendingTokens + (g[r] - f[r])
    BY DEF f, g
  <1>8. pendingTokens' <= Total(g, Requests)
    BY <1>2, <1>4, <1>5, <1>6, <1>7
  <1> QED
    BY <1>8 DEF g

(* A step that changes no share and leaves pendingTokens alone. *)
LEMMA PendingStays ==
    ASSUME TypeInv, TypeInv', pendingTokens <= Total(Share, Requests),
           \A s \in Requests : Share'[s] = Share[s],
           pendingTokens' = pendingTokens
    PROVE  (pendingTokens <= Total(Share, Requests))'
  <1> DEFINE f == Share
             g == Share'
  <1>1. \A s \in Requests : f[s] = g[s]
    OBVIOUS
  <1> HIDE DEF f, g
  <1>2. Total(f, Requests) = Total(g, Requests)
    BY <1>1, RequestsAssumption, TotalSame
  <1>3. pendingTokens' <= Total(g, Requests)
    BY <1>2 DEF f
  <1> QED
    BY <1>3 DEF g

(* What a handler does to the count and to its own share. *)
LEMMA HandlerPending ==
    ASSUME PendingInv, TypeInv', NEW r \in Requests,
           Arrive(r) \/ HandlerStep(r) \/ Depart(r), \A s \in Requests : cost'[s] >= 0
    PROVE  /\ \A s \in Requests : s # r => Share'[s] = Share[s]
           /\ pendingTokens' <= pendingTokens + (Share'[r] - Share[r])
  <1>a. /\ TypeInv /\ EndpointTypeOK /\ WindowTypeOK /\ Places
        /\ pc \in [Requests -> HandlerStates] /\ cost \in [Requests -> Int]
        /\ pendingTokens \in Int /\ queue \in Seq(Requests)
    BY DEF PendingInv, PlacesInv, TypeInv, EndpointTypeOK, WindowTypeOK
  <1>b. batch' = batch
    BY HandlersLeaveWindow
  <1>c. PICK label : Goto(r, label)
    BY DEF Arrive, NewTicket, Reject, HandlerStep, Admit, Admission, Account, Uncount, PushOK,
           PushFull, Retry, TurnAway, Announce, Signal, Receive, Unavailable, Respond, Depart,
           Disconnect
  <1>d. \A s \in Requests : pc'[s] = IF s = r THEN label ELSE pc[s]
    BY <1>a, <1>c DEF Goto
  <1>e. \A s \in Requests : s # r => cost'[s] = cost[s]
    BY <1>a DEF Arrive, HandlerStep, Admit, Account, Uncount, Depart, tokenVars
  <1>f. Unsettled' = IF PushOK(r) THEN Unsettled \cup {r} ELSE Unsettled
    <2>1. CASE PushOK(r)
      <3>1. queue' = Append(queue, r)
        BY <2>1 DEF PushOK
      <3>2. Range(queue') = Range(queue) \cup {r}
        BY <1>a, <3>1, AppendRange
      <3> QED
        BY <1>b, <2>1, <3>2 DEF Unsettled, Queued
    <2>2. CASE ~PushOK(r)
      <3>1. queue' = queue
        BY <2>2 DEF Arrive, NewTicket, HandlerStep, Admit, Admission, Account, Uncount,
                    PushFull, Retry, TurnAway, Announce, Signal, Receive, Unavailable, Respond,
                    Depart, Disconnect
      <3> QED
        BY <1>b, <2>2, <3>1 DEF Unsettled, Queued
    <2> QED
      BY <2>1, <2>2
  <1>1. \A s \in Requests : s # r => Share'[s] = Share[s]
    <2> SUFFICES ASSUME NEW s \in Requests, s # r PROVE Share'[s] = Share[s]
      OBVIOUS
    <2>1. pc'[s] = pc[s] /\ cost'[s] = cost[s] /\ ((s \in Unsettled)' <=> s \in Unsettled)
      BY <1>d, <1>e, <1>f
    <2> QED
      BY <2>1, SameShare
  <1> DEFINE Early == {"idle", "admit", "push", "retry", "rejected", "turnedAway", "gone"}
             Late == {"signal", "waiting", "respond", "served", "unavailable"}
             Quiet(a, b) == \/ a \in Early /\ b \in Early
                            \/ /\ a \in Late /\ b \in Late
                               /\ cost' = cost /\ Unsettled' = Unsettled
                            \/ /\ a = "pushed" /\ b = "account"
                               /\ cost' = cost /\ Unsettled' = Unsettled
  <1>2. pc'[r] = label /\ pc[r] \in HandlerStates
    BY <1>a, <1>d
  <1>3. /\ Share[r] \in Int /\ Share'[r] \in Int /\ cost[r] \in Int
        /\ pc[r] \in {"pushed", "account"} => Share[r] = IF r \in Unsettled THEN 0 ELSE 0 - cost[r]
        /\ pc[r] \in Late => Share[r] = IF r \in Unsettled THEN cost[r] ELSE 0
        /\ pc[r] = "uncount" => Share[r] = cost[r]
        /\ pc[r] \in Early => Share[r] = 0
    <2>1. cost[r] \in Int
      BY <1>a
    <2>2. Share'[r] \in Int
      <3>1. cost'[r] \in Int
        BY DEF TypeInv, WindowTypeOK
      <3> QED
        BY <3>1 DEF Share
    <2> QED
      BY <2>1, <2>2 DEF Share
  <1>4. /\ label \in {"pushed", "account"} => Share'[r] = IF r \in Unsettled' THEN 0 ELSE 0 - cost'[r]
        /\ label \in Late => Share'[r] = IF r \in Unsettled' THEN cost'[r] ELSE 0
        /\ label = "uncount" => Share'[r] = cost'[r]
        /\ label \in Early => Share'[r] = 0
    BY <1>2 DEF Share
  <1>5. CASE Account(r)
    <2>1. pc[r] = "account" /\ pendingTokens' = pendingTokens + cost[r] /\ Goto(r, "signal")
          /\ cost' = cost /\ ~PushOK(r)
      BY <1>5 DEF Account, PushOK
    <2>2. label = "signal" /\ Unsettled' = Unsettled
      BY <1>2, <2>1, <1>a, <1>f DEF Goto
    <2>3. Share'[r] - Share[r] = cost[r]
      BY <1>3, <1>4, <2>1, <2>2
    <2> QED
      BY <1>1, <1>a, <1>3, <2>1, <2>3
  <1>6. CASE Uncount(r)
    <2>1. pc[r] = "uncount" /\ pendingTokens' = pendingTokens - cost[r] /\ Goto(r, "gone")
          /\ cost' = cost
      BY <1>6 DEF Uncount
    <2>2. label = "gone"
      BY <1>2, <2>1, <1>a DEF Goto
    <2>3. Share'[r] - Share[r] = 0 - cost[r]
      BY <1>3, <1>4, <2>1, <2>2
    <2> QED
      BY <1>1, <1>a, <1>3, <2>1, <2>3
  <1>7. CASE Depart(r)
    <2>1. pc[r] = "waiting" /\ Goto(r, "uncount") /\ cost' = cost /\ pendingTokens' = pendingTokens
      BY <1>7 DEF Depart, Disconnect, tokenVars
    <2>2. label = "uncount"
      BY <1>2, <2>1, <1>a DEF Goto
    <2>3. Share'[r] >= Share[r]
      BY <1>3, <1>4, <2>1, <2>2 DEF PendingInv
    <2> QED
      BY <1>1, <1>a, <1>3, <2>1, <2>3
  <1>8. CASE PushOK(r)
    <2>1. pc[r] = "push" /\ Goto(r, "pushed") /\ cost' = cost /\ pendingTokens' = pendingTokens
      BY <1>8 DEF PushOK, Arrive, NewTicket, HandlerStep, Admit, Admission, Account, Uncount,
                  Depart, Disconnect, tokenVars
    <2>2. label = "pushed" /\ r \in Unsettled'
      BY <1>2, <2>1, <1>a, <1>f, <1>8 DEF Goto
    <2> QED
      BY <1>1, <1>a, <1>3, <1>4, <2>1, <2>2
  <1>9. CASE ~Account(r) /\ ~Uncount(r) /\ ~Depart(r) /\ ~PushOK(r)
    <2>1. pendingTokens' = pendingTokens /\ Unsettled' = Unsettled
      BY <1>9, <1>f DEF Arrive, HandlerStep, Admit, tokenVars
    <2>2. Quiet(pc[r], pc'[r])
      <3>1. CASE Arrive(r)
        <4>1. pc[r] = "idle" /\ (Goto(r, "rejected") \/ Goto(r, "admit"))
          BY <3>1 DEF Arrive, NewTicket, Reject
        <4> QED
          BY <1>a, <4>1 DEF Goto
      <3>2. CASE Admit(r)
        <4>1. pc[r] = "admit" /\ (Goto(r, "rejected") \/ Goto(r, "push"))
          BY <3>2 DEF Admit, Admission, Reject
        <4> QED
          BY <1>a, <4>1 DEF Goto
      <3>3. CASE PushFull(r) \/ Retry(r) \/ TurnAway(r)
        <4>1. pc[r] \in {"push", "retry"}
              /\ \E b \in {"rejected", "retry", "push", "turnedAway"} : Goto(r, b)
          BY <3>3 DEF PushFull, Retry, TurnAway, Reject
        <4> QED
          BY <1>a, <4>1 DEF Goto
      <3>4. CASE Announce(r, "account") /\ UNCHANGED tokenVars
        BY <1>a, <2>1, <3>4 DEF Announce, Goto, tokenVars
      <3>5. CASE (Signal(r) \/ Receive(r) \/ Unavailable(r) \/ Respond(r)) /\ UNCHANGED tokenVars
        <4>1. pc[r] \in Late /\ (\E b \in Late : Goto(r, b)) /\ cost' = cost
          BY <3>5 DEF Signal, Receive, Unavailable, Respond, tokenVars
        <4> QED
          BY <1>a, <2>1, <4>1 DEF Goto
      <3> QED
        BY <1>9, <3>1, <3>2, <3>3, <3>4, <3>5 DEF HandlerStep
    <2>3. Share'[r] = Share[r]
      BY <1>2, <1>3, <1>4, <2>2
    <2> QED
      BY <1>1, <1>a, <1>3, <2>1, <2>3
  <1> QED
    BY <1>5, <1>6, <1>7, <1>8, <1>9 DEF HandlerStep

(* Every step keeps pendingTokens below the shares: it is raised only where a share
   is raised, and a share falls only where somebody subtracts. *)
LEMMA NextPending ==
    ASSUME DefaultTokens > 0, PendingInv, [Next]_vars
    PROVE  PendingInv'
  <1>a. TypeInv /\ TypeInv' /\ PlacesInv' /\ Places /\ PlacesInv
        /\ pendingTokens <= Total(Share, Requests) /\ \A s \in Requests : cost[s] >= 0
    BY NextType, NextPlaces DEF PendingInv, PlacesInv
  <1>b. EndpointTypeOK /\ WindowTypeOK /\ BatchShape
    BY <1>a DEF TypeInv
  <1> SUFFICES /\ \A s \in Requests : cost'[s] >= 0
               /\ (pendingTokens <= Total(Share, Requests))'
    BY <1>a DEF PendingInv
  <1>1. ASSUME NEW r \in Requests, Arrive(r) \/ HandlerStep(r) \/ Depart(r)
        PROVE  /\ \A s \in Requests : cost'[s] >= 0
               /\ (pendingTokens <= Total(Share, Requests))'
    <2>1. \A s \in Requests : cost'[s] >= 0
      BY <1>1, <1>a, HandlerCosts
    <2>2. /\ \A s \in Requests : s # r => Share'[s] = Share[s]
          /\ pendingTokens' <= pendingTokens + (Share'[r] - Share[r])
      BY <1>1, <1>a, <2>1, HandlerPending
    <2> QED
      BY <1>a, <2>1, <2>2, PendingMoves
  <1>2. CASE TestTicket
    <2>1. UNCHANGED <<pc, cost, pendingTokens>>
      BY <1>2 DEF TestTicket
    <2>2. Unsettled' = Unsettled
      <3>1. PICK t \in Queued : \/ batch' = Append(batch, t) /\ Queued' = Queued \ {t}
                                \/ UNCHANGED <<batch, queue>>
        BY <1>2, <1>a, TestPlaces
      <3>2. batch \in Seq(Requests) /\ t \in Requests
        BY <1>b, RangeOfSeq DEF EndpointTypeOK, Queued
      <3>3. CASE batch' = Append(batch, t) /\ Queued' = Queued \ {t}
        <4>1. Range(batch') = Range(batch) \cup {t}
          BY <3>2, <3>3, AppendRange
        <4> QED
          BY <3>3, <4>1 DEF Unsettled
      <3>4. CASE UNCHANGED <<batch, queue>>
        BY <3>4 DEF Unsettled, Queued
      <3> QED
        BY <3>1, <3>3, <3>4
    <2>3. \A s \in Requests : Share'[s] = Share[s]
      BY <2>1, <2>2, SameShare
    <2> QED
      BY <1>a, <2>1, <2>3, PendingStays
  <1>3. CASE Settle
    <2> DEFINE t == Head(batch)
    <2>1. /\ pendingTokens' = IF IsCancelled(t) THEN pendingTokens ELSE pendingTokens - cost[t]
          /\ batch' = Tail(batch) /\ UNCHANGED <<pc, queue, cost>> /\ dpc = "settle"
      BY <1>3 DEF Settle
    <2>2. batch \in Seq(Requests) /\ batch # <<>> /\ IsInjective(batch)
      BY <1>a, <1>b, <2>1 DEF EndpointTypeOK, BatchShape, Places
    <2>3. t \in Requests /\ t \in Range(batch) /\ Range(batch') = Range(batch) \ {t}
      BY <2>1, <2>2, TailRange
    <2>4. t \notin Queued /\ pc[t] \in Held \cup {"respond", "served"}
      BY <1>a, <2>3 DEF Places
    <2>5. t \in Unsettled /\ Unsettled' = Unsettled \ {t}
      BY <2>1, <2>3, <2>4 DEF Unsettled, Queued
    <2> HIDE DEF t
    <2>6. \A s \in Requests : s # t => Share'[s] = Share[s]
      BY <2>1, <2>5, SameShare
    <2>7. pendingTokens' <= pendingTokens + (Share'[t] - Share[t])
      <3>1. pendingTokens \in Int /\ cost[t] \in Int /\ pc \in [Requests -> HandlerStates]
        BY <1>b, <2>3 DEF WindowTypeOK, EndpointTypeOK
      <3>2. pc[t] \in {"pushed", "account", "signal", "waiting", "uncount", "unavailable", "gone",
                       "respond", "served"}
        BY <2>4 DEF Held, InFlight, Unsignalled
      <3>3. CASE pc[t] \in {"uncount", "gone"}
        <4>1. Share'[t] = Share[t] /\ Share[t] \in Int
          BY <2>1, <2>3, <3>1, <3>3 DEF Share
        <4> QED
          BY <2>1, <3>1, <3>3, <4>1 DEF IsCancelled
      <3>4. CASE pc[t] \in {"pushed", "account"}
        <4>1. Share'[t] = 0 - cost[t] /\ Share[t] = 0
          BY <2>1, <2>3, <2>5, <3>4 DEF Share
        <4> QED
          BY <2>1, <3>1, <3>4, <4>1 DEF IsCancelled
      <3>5. CASE pc[t] \in {"signal", "waiting", "unavailable", "respond", "served"}
        <4>1. Share'[t] = 0 /\ Share[t] = cost[t]
          BY <2>1, <2>3, <2>5, <3>5 DEF Share
        <4> QED
          BY <2>1, <3>1, <3>5, <4>1 DEF IsCancelled
      <3> QED
        BY <3>2, <3>3, <3>4, <3>5
    <2> QED
      BY <1>a, <2>1, <2>3, <2>6, <2>7, PendingMoves
  <1>4. CASE \/ TakeWork \/ TakeReset \/ EndScan \/ Release \/ Exit \/ Ticker \/ StopWindow \/ Stop
             \/ (SinkReceive /\ UNCHANGED tokenVars) \/ UNCHANGED vars
    <2>1. UNCHANGED <<pc, queue, batch, cost, pendingTokens>>
      BY <1>4 DEF TakeWork, TakeReset, StartScan, EndScan, Release, Exit, Ticker, Refill, Notify,
                  WindowExit, StopWindow, Stop, Cancel, SinkReceive, vars, endpointVars, tokenVars
    <2>2. Unsettled' = Unsettled
      BY <2>1 DEF Unsettled, Queued
    <2>3. \A s \in Requests : Share'[s] = Share[s]
      BY <2>1, <2>2, SameShare
    <2> QED
      BY <1>a, <2>1, <2>3, PendingStays
  <1> QED
    BY <1>1, <1>2, <1>3, <1>4 DEF Next, Dispatch

(* A fresh endpoint has no pending tokens. *)
LEMMA InitPending == Init => PendingInv
  <1> SUFFICES ASSUME Init PROVE PendingInv
    OBVIOUS
  <1>1. \A r \in Requests : Share[r] = 0 /\ cost[r] >= 0
    BY DEF Init, EndpointInit, Share
  <1>2. Total(Share, {}) = 0 /\ Total(Share, {}) = Total(Share, Requests)
    BY <1>1, RequestsAssumption, TotalType, TotalSkipsZeros
  <1> QED
    BY <1>1, <1>2, InitPlacesInv DEF Init, PendingInv

(* "so admission timeout estimates don't stay inflated by dead tickets": with a
   positive default cost, once everyone has caught up pendingTokens counts no more
   than the queued tickets whose clients still wait, whoever left at whatever
   moment.  (It may count less: TokenPendingDrift.) *)
THEOREM PendingStaysHonest ==
    ASSUME DefaultTokens > 0
    PROVE  Spec => []PendingNeverInflated
  <1>1. PendingInv => PendingNeverInflated
    <2> SUFFICES ASSUME PendingInv, Settled PROVE pendingTokens <= LiveCost
      BY DEF PendingNeverInflated
    <2> DEFINE live == {r \in Queued : ~IsCancelled(r)}
    <2>1. TypeInv /\ Places /\ EndpointTypeOK /\ BatchShape /\ WindowTypeOK
      BY DEF PendingInv, PlacesInv, TypeInv
    <2>2. Queued \subseteq Requests /\ batch = <<>> /\ Range(batch) = {}
      BY <2>1, RangeOfSeq DEF EndpointTypeOK, Queued, BatchShape, Settled, Range
    <2>3. Unsettled = Queued
      BY <2>2 DEF Unsettled
    <2>4. \A r \in Requests : Share[r] = IF r \in live THEN cost[r] ELSE 0
      <3> SUFFICES ASSUME NEW r \in Requests PROVE Share[r] = IF r \in live THEN cost[r] ELSE 0
        OBVIOUS
      <3>1. pc[r] \in HandlerStates /\ pc[r] \notin {"pushed", "account", "uncount"}
        BY <2>1 DEF EndpointTypeOK, Settled
      <3>2. r \in Queued => pc[r] \in Held
        BY <2>1, <2>2 DEF Places
      <3>3. CASE r \in Queued
        <4>1. pc[r] \in {"signal", "waiting", "unavailable", "gone"}
          BY <3>1, <3>2, <3>3 DEF Held, InFlight, Unsignalled
        <4> QED
          BY <2>3, <3>3, <4>1 DEF Share, IsCancelled
      <3>4. CASE r \notin Queued
        BY <2>3, <3>1, <3>4 DEF Share
      <3> QED
        BY <3>3, <3>4
    <2>5. \A r \in Requests : cost[r] \in Int
      BY <2>1 DEF WindowTypeOK
    <2>6. live \in SUBSET Requests /\ IsFiniteSet(live)
      BY <2>2, RequestsAssumption, FS_Subset
    <2>7. LiveCost = Total(cost, live)
      BY DEF LiveCost, Total
    <2> HIDE DEF live
    <2>8. \A r \in Requests : Share[r] \in Int
      BY <2>4, <2>5
    <2>9. Total(Share, live) = Total(Share, Requests)
      BY <2>4, <2>6, <2>8, RequestsAssumption, TotalSkipsZeros
    <2>10. Total(Share, live) = Total(cost, live)
      BY <2>4, <2>6, TotalSame
    <2> QED
      BY <2>7, <2>9, <2>10 DEF PendingInv
  <1>2. PendingInv /\ [Next]_vars => PendingInv'
    BY NextPending
  <1> QED
    BY <1>1, <1>2, InitPending, PTL DEF Spec
=============================================================================
