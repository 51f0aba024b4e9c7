------------------------ MODULE EndpointTokenWindow ------------------------
(***************************************************************************)
(* An endpoint whose algorithm is token_window: the handlers of module     *)
(* Endpoint with dispatchTokenWindow, and the TokenWindow of               *)
(* limiter/token_window.go with its ticker goroutine.                      *)
(*                                                                         *)
(* PopWhere calls TryConsume once per ticket while it holds the queue's    *)
(* mutex; TryConsume takes the window's own mutex, so a Reset of the       *)
(* ticker goroutine may fall between two of those calls.                   *)
(***************************************************************************)
EXTENDS Endpoint

CONSTANTS
    Capacity,       \* cfg.TokensPerWindow
    DefaultTokens,  \* cfg.DefaultTokens
    MayStop,        \* bound: whether Stop is explored
    TokenParams     \* values of ?tokens=; 0: absent or not a positive integer

(* What validateEndpoints and ApplyDefaults leave: they refuse a capacity that
   is not positive and a default above it, and replace a default of 0 by 1. *)
ASSUME CapacityAssumption == Capacity \in Nat \ {0}
ASSUME DefaultTokensAssumption ==
    DefaultTokens \in Int /\ DefaultTokens # 0 /\ DefaultTokens <= Capacity
ASSUME TokenParamsAssumption == TokenParams \subseteq Nat

VARIABLES
    cost,           \* ticket.Cost
    pendingTokens,  \* e.pendingTokens
    remaining,      \* tw.remaining
    resetCh,        \* tw.resetCh (capacity 1) holds a value
    twpc,           \* where the ticker goroutine stands
    twDone,         \* tw.ctx is cancelled
    untested,       \* tickets the running PopWhere has not tested yet
    spent,          \* history: tokens of the tickets granted since the last Reset
    refusedBefore   \* history: tickets the running PopWhere refused before the last Reset

windowVars == <<remaining, resetCh, twpc, twDone, spent>>
tokenVars == <<cost, pendingTokens, untested, refusedBefore, windowVars>>
vars == <<endpointVars, tokenVars>>

Init ==
    /\ EndpointInit
    /\ cost = [r \in Requests |-> 0]
    /\ pendingTokens = 0
    /\ remaining = Capacity
    /\ resetCh = FALSE
    /\ twpc = "loop"
    /\ twDone = FALSE
    /\ untested = <<>>
    /\ spent = 0
    /\ refusedBefore = {}

-----------------------------------------------------------------------------
(* The handler steps that only token_window endpoints have. *)

(* The ticket's cost is ?tokens= or the default; a cost above the capacity
   could never be granted and is refused at once. *)
Arrive(r) ==
    /\ NewTicket(r)
    /\ \E tokens \in TokenParams :
        LET c == IF tokens > 0 THEN tokens ELSE DefaultTokens
        IN  /\ cost' = [cost EXCEPT ![r] = c]
            /\ IF c > Capacity
               THEN Reject(r)
               ELSE Goto(r, "admit") /\ UNCHANGED events
    /\ UNCHANGED <<pendingTokens, untested, refusedBefore, windowVars>>

(* estimateWait, in windows: the pending tokens over the capacity, rounded up. *)
EstimatedWait ==
    IF Scheduler \in {"lifo", "random"} THEN 0
    ELSE -((-pendingTokens) \div Capacity)

Admit(r) == Admission(r, EstimatedWait) /\ UNCHANGED tokenVars

(* The ticket is counted only after it was pushed and announced. *)
Account(r) ==
    /\ pc[r] = "account"
    /\ pendingTokens' = pendingTokens + cost[r]
    /\ Goto(r, "signal")
    /\ UNCHANGED <<ticketVars, queue, work, released, ctxDone, events, dpc, batch,
                   cost, untested, refusedBefore, windowVars>>

(* Mutant: a vanished client's tokens stay counted. *)
UncountForgotten(r) ==
    /\ pc[r] = "uncount"
    /\ Goto(r, "gone")
    /\ UNCHANGED <<ticketVars, queue, work, released, ctxDone, events, dpc, batch, tokenVars>>

(* After ticket.Cancel(): the handler takes its tokens back itself. *)
Uncount(r) ==
    /\ pc[r] = "uncount"
    /\ pendingTokens' = pendingTokens - cost[r]
    /\ Goto(r, "gone")
    /\ UNCHANGED <<ticketVars, queue, work, released, ctxDone, events, dpc, batch,
                   cost, untested, refusedBefore, windowVars>>

(* The steps a handler takes by itself. *)
HandlerStep(r) ==
    \/ Admit(r) \/ Account(r) \/ Uncount(r)
    \/ /\ \/ PushOK(r) \/ PushFull(r) \/ Retry(r) \/ TurnAway(r)
          \/ Announce(r, "account") \/ Signal(r)
          \/ Receive(r) \/ Unavailable(r) \/ Respond(r)
       /\ UNCHANGED tokenVars

Depart(r) == Disconnect(r, "uncount") /\ UNCHANGED tokenVars

-----------------------------------------------------------------------------
(* dispatchTokenWindow and releaseTokenFitting *)

(* PopWhere takes the queue's mutex and goes over the tickets it finds. *)
StartScan ==
    /\ dpc' = "scan"
    /\ untested' = queue
    /\ UNCHANGED <<pc, ticketVars, queue, released, ctxDone, events, batch,
                   cost, pendingTokens, remaining, twpc, twDone, spent, refusedBefore>>

(* case <-e.work *)
TakeWork ==
    /\ dpc = "select"
    /\ work > 0
    /\ work' = work - 1
    /\ StartScan
    /\ UNCHANGED resetCh

(* Mutant: the dispatcher drains the reset signal without scanning. *)
TakeResetIdly ==
    /\ dpc = "select"
    /\ resetCh
    /\ resetCh' = FALSE
    /\ UNCHANGED <<endpointVars, cost, pendingTokens, remaining, twpc, twDone, spent,
                   untested, refusedBefore>>

(* case <-e.tokenWindow.ResetCh() *)
TakeReset ==
    /\ dpc = "select"
    /\ resetCh
    /\ resetCh' = FALSE
    /\ StartScan
    /\ UNCHANGED work

(* Mutant: the comparison of TryConsume is off by one. *)
TestOffByOne ==
    /\ dpc = "scan"
    /\ \E i \in ScanNext(untested, priority, enqueuedAt) :
        LET t == untested[i]
        IN  /\ untested' = RemoveAt(untested, i)
            /\ IF cost[t] <= remaining + 1
               THEN /\ remaining' = remaining - cost[t]
                    /\ spent' = spent + Max({0, cost[t]})
                    /\ batch' = Append(batch, t)
                    /\ \E j \in DOMAIN queue : queue[j] = t /\ queue' = RemoveAt(queue, j)
               ELSE UNCHANGED <<remaining, spent, batch, queue>>
    /\ UNCHANGED <<pc, ticketVars, work, released, ctxDone, events, dpc,
                   cost, pendingTokens, resetCh, twpc, twDone, refusedBefore>>

(* Mutant: a ticket that fits stays in the queue. *)
TestWithoutRemoving ==
    /\ dpc = "scan"
    /\ \E i \in ScanNext(untested, priority, enqueuedAt) :
        LET t == untested[i]
        IN  /\ untested' = RemoveAt(untested, i)
            /\ IF cost[t] <= remaining
               THEN /\ remaining' = remaining - cost[t]
                    /\ spent' = spent + Max({0, cost[t]})
                    /\ batch' = Append(batch, t)
               ELSE UNCHANGED <<remaining, spent, batch>>
    /\ UNCHANGED <<pc, ticketVars, queue, work, released, ctxDone, events, dpc,
                   cost, pendingTokens, resetCh, twpc, twDone, refusedBefore>>

(* PopWhere tests one more ticket with TryConsume(t.Cost); a ticket that fits
   leaves the queue for the batch. *)
TestTicket ==
    /\ dpc = "scan"
    /\ \E i \in ScanNext(untested, priority, enqueuedAt) :
        LET t == untested[i]
        IN  /\ untested' = RemoveAt(untested, i)
            /\ IF cost[t] <= remaining
               THEN /\ remaining' = remaining - cost[t]
                    /\ spent' = spent + Max({0, cost[t]})
                    /\ batch' = Append(batch, t)
                    /\ \E j \in DOMAIN queue : queue[j] = t /\ queue' = RemoveAt(queue, j)
               ELSE UNCHANGED <<remaining, spent, batch, queue>>
    /\ UNCHANGED <<pc, ticketVars, work, released, ctxDone, events, dpc,
                   cost, pendingTokens, resetCh, twpc, twDone, refusedBefore>>

(* PopWhere returns what it collected. *)
EndScan ==
    /\ dpc = "scan"
    /\ untested = <<>>
    /\ dpc' = IF batch = <<>> THEN "select" ELSE "send"
    /\ refusedBefore' = {}
    /\ UNCHANGED <<pc, ticketVars, queue, work, released, ctxDone, events, batch,
                   cost, pendingTokens, untested, windowVars>>

(* t.Release <- struct{}{}: blocks while the buffer is full. *)
Release ==
    /\ dpc = "send"
    /\ Head(batch) \notin released
    /\ released' = released \cup {Head(batch)}
    /\ dpc' = "settle"
    /\ UNCHANGED <<pc, ticketVars, queue, work, ctxDone, events, batch, tokenVars>>

(* Uncount the ticket just released, unless it is cancelled by now. *)
Settle ==
    /\ dpc = "settle"
    /\ pendingTokens' = IF IsCancelled(Head(batch)) THEN pendingTokens
                        ELSE pendingTokens - cost[Head(batch)]
    /\ batch' = Tail(batch)
    /\ dpc' = IF Len(batch) = 1 THEN "select" ELSE "send"
    /\ UNCHANGED <<pc, ticketVars, queue, work, released, ctxDone, events,
                   cost, untested, refusedBefore, windowVars>>

(* case <-e.ctx.Done() *)
Exit ==
    /\ dpc = "select"
    /\ ctxDone
    /\ dpc' = "exit"
    /\ UNCHANGED <<pc, ticketVars, queue, work, released, ctxDone, events, batch, tokenVars>>

Dispatch == TakeWork \/ TakeReset \/ TestTicket \/ EndScan \/ Release \/ Settle \/ Exit

-----------------------------------------------------------------------------
(* The ticker goroutine of the TokenWindow. *)

(* loop receives a tick and Reset refills the window under tw.mu.  A tick that
   was already buffered may still be taken after Stop. *)
Refill ==
    /\ twpc = "loop"
    /\ remaining' = Capacity
    /\ spent' = 0
    /\ refusedBefore' = IF dpc = "scan" THEN Queued \ Range(untested) ELSE {}
    /\ twpc' = "notify"
    /\ UNCHANGED <<endpointVars, cost, pendingTokens, untested, resetCh, twDone>>

(* Mutant: the reset signal is lost. *)
NotifyLost ==
    /\ twpc = "notify"
    /\ twpc' = "loop"
    /\ UNCHANGED <<endpointVars, cost, pendingTokens, untested, refusedBefore,
                   resetCh, remaining, twDone, spent>>

(* Reset's non-blocking send: several resets coalesce into one signal. *)
Notify ==
    /\ twpc = "notify"
    /\ resetCh' = TRUE
    /\ twpc' = "loop"
    /\ UNCHANGED <<endpointVars, cost, pendingTokens, untested, refusedBefore,
                   remaining, twDone, spent>>

(* case <-tw.ctx.Done() *)
WindowExit ==
    /\ twpc = "loop"
    /\ twDone
    /\ twpc' = "exit"
    /\ UNCHANGED <<endpointVars, cost, pendingTokens, untested, refusedBefore,
                   remaining, resetCh, twDone, spent>>

Ticker == Refill \/ Notify \/ WindowExit

(* Endpoint.Stop cancels the endpoint's context and then stops the window. *)
Stop == MayStop /\ Cancel /\ UNCHANGED tokenVars

(* Mutant: Stop stops the ticker and leaves its goroutine waiting. *)
StopTickerOnly == ctxDone /\ ~twDone /\ UNCHANGED vars

StopWindow ==
    /\ ctxDone
    /\ ~twDone
    /\ twDone' = TRUE
    /\ UNCHANGED <<endpointVars, cost, pendingTokens, untested, refusedBefore,
                   remaining, resetCh, twpc, spent>>

Next ==
    \/ \E r \in Requests : Arrive(r) \/ HandlerStep(r) \/ Depart(r)
    \/ Dispatch
    \/ Ticker
    \/ Stop
    \/ StopWindow
    \/ SinkReceive /\ UNCHANGED tokenVars

Spec == Init /\ [][Next]_vars

(* The endpoint's own goroutines run, the ticker ticks until it is stopped, and
   Stop, once begun, is finished.  The selects pick at random among their ready
   cases, so work cannot lose to resets forever, nor the cancelled context to
   ticks. *)
GoroutineFairness ==
    /\ WF_vars(Dispatch)
    /\ WF_vars(Ticker) /\ SF_vars(WindowExit)
    /\ WF_vars(StopWindow)

(* Strong fairness of the handlers: sync.Mutex hands itself to a waiter that has
   starved, and the senders blocked on a channel are served in order. *)
HandlerFairness ==
    /\ SF_vars(TakeWork)
    /\ \A r \in Requests : SF_vars(HandlerStep(r))

FairSpec == Spec /\ GoroutineFairness /\ HandlerFairness

-----------------------------------------------------------------------------
(* "work is sized to MaxQueueSize so it can never be full when a push just
   succeeded" (endpoint.go), stated of a token_window endpoint. *)
SignalNeverBlocks == \A r \in Requests : pc[r] = "signal" => work < MaxQueueSize

(* "server guarantees no more than N tokens per time window" (README.md): the
   costs granted between two resets never exceed the capacity. *)
BudgetPerWindow == spent <= Capacity

(* No wake-up is lost: when the dispatcher is about to sleep and nothing that
   would wake it is under way, no queued ticket fits in the window. *)
NoFittingTicketForgotten ==
    (/\ dpc = "select" /\ work = 0 /\ ~resetCh /\ twpc # "notify"
     /\ \A r \in Requests : pc[r] \notin Unsignalled)
        => \A r \in Queued : cost[r] > remaining

(* A ticket is in one place at a time and is released at most once, so the send
   on its one-slot Release channel cannot block the dispatcher. *)
ReleasedOnce ==
    /\ IsInjective(queue) /\ IsInjective(batch)
    /\ Queued \cap Range(batch) = {}
    /\ \A r \in Queued \cup (Range(batch) \ (IF dpc = "settle" THEN {Head(batch)} ELSE {})) :
        r \notin released /\ pc[r] \in (InFlight \ {"respond"}) \cup {"unavailable", "gone"}

(* No goroutine is between a change of the queue and the matching update of
   pendingTokens. *)
Settled ==
    /\ dpc \in {"select", "exit"}
    /\ \A r \in Requests : pc[r] \notin {"pushed", "account", "uncount"}

LiveCost == MapThenSumSet(LAMBDA r : cost[r], {r \in Queued : ~IsCancelled(r)})

(* "so admission timeout estimates don't stay inflated by dead tickets"
   (endpoint.go): once everyone has caught up, pendingTokens counts no more than
   the queued tickets whose clients still wait. *)
PendingNeverInflated == Settled => pendingTokens <= LiveCost

(* pendingTokens is "total token cost of queued tickets"; "Skip decrement for
   cancelled tickets - the handler already decremented" (endpoint.go). *)
PendingExact == Settled => pendingTokens = LiveCost

(* The tickets to be served before r that are still in the queue. *)
Ahead(r) ==
    {queue[i] : i \in {k \in DOMAIN queue :
        \E j \in DOMAIN queue : queue[j] = r /\ Precedes(queue, priority, enqueuedAt, k, j)}}

(* A ticket granted in this step is cheaper than every ticket it overtakes, and so
   takes no tokens that one could have had, unless a Reset fell between the tests
   of the two. *)
Favors ==
    \A r \in Queued \ Range(queue') : \A s \in Ahead(r) \ refusedBefore : cost[r] < cost[s]

(* "Tickets are tested in the queue's natural serve order ... so that
   side-effecting predicates (e.g. TryConsume) favor the tickets that would be
   served first" (queue.go).  A Reset in the middle of a scan lets the tickets
   tested after it overtake those refused before it, but not one another. *)
FavorsServeOrder == [][dpc = "scan" => Favors]_vars

(* The endpoint implements the abstract gate. *)
GateSpec == Abstract!Spec

(* Until Stop every request is answered: each admitted cost fits into a fresh
   window, and a reset always leads to a scan. *)
AnsweredUntilStop ==
    \A r \in Requests : (pc[r] # "idle") ~> (pc[r] \in Terminal \/ ctxDone)

(* Stop ends both goroutines of the endpoint. *)
GoroutinesStop == ctxDone ~> (dpc = "exit" /\ twpc = "exit")
=============================================================================
