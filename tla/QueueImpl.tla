------------------------------ MODULE QueueImpl ------------------------------
(***************************************************************************)
(* The four queues of queue/ as their code works on slices: the in-place   *)
(* filter of fifo.go and random.go, the double reversal of lifo.go, and    *)
(* the binary heap of priority.go with the sifting of container/heap.      *)
(* Module Queue says what these methods must return; this module is        *)
(* checked against it.                                                     *)
(*                                                                         *)
(* PopWhere is run with the predicate the endpoint gives it: TryConsume    *)
(* with a budget that shrinks as tickets match.                            *)
(***************************************************************************)
EXTENDS Integers, Sequences, SequencesExt, FiniteSets

CONSTANTS
    Schedulers,    \* the schedulers a queue may be created with
    MaxQueueSize,
    Tickets, Priorities, Costs, Budgets

VARIABLES
    scheduler,       \* which of the four queues this is
    prio, at, cost,  \* the tickets' fields, fixed from the start
    items,           \* q.items, or q.h
    last             \* history: the last call, what it found and what it returned

fixedVars == <<scheduler, prio, at, cost>>
queueVars == <<fixedVars, items, last>>

(* What the methods must do. *)
Reference == INSTANCE Queue WITH Scheduler <- scheduler

NoCall == [op |-> "none", before |-> <<>>, budget |-> 0, out |-> <<>>]

ASSUME TicketsAssumption == Tickets \subseteq Nat
ASSUME FieldsAssumption == Priorities \subseteq Int /\ Costs \subseteq Int /\ Budgets \subseteq Int
ASSUME SchedulersAssumption == Schedulers \subseteq {"fifo", "lifo", "random", "priority"}

(* The tickets are numbered by their time stamps; they may be pushed in any
   order. *)
QueueInit ==
    /\ scheduler \in Schedulers
    /\ prio \in [Tickets -> IF scheduler = "priority" THEN Priorities ELSE {0}]
    /\ at = [t \in Tickets |-> t]
    /\ cost \in [Tickets -> Costs]
    /\ items = <<>>
    /\ last = NoCall

-----------------------------------------------------------------------------
(* What n rounds of a loop make of the state x it starts from.  `round` maps the
   state at the head of the loop to the next one, and leaves it alone once the
   loop has ended. *)
Rounds(round, x, n) ==
    LET after[k \in 0 .. n] == IF k = 0 THEN x ELSE round[after[k - 1]]
    IN  after[n]

Slices == Seq(Tickets)

-----------------------------------------------------------------------------
(* priorityHeap and container/heap, with indices from 1. *)

HeapLess(h, i, j) == Reference!Less(prio, at, h[i], h[j])
Swap(h, i, j) == [h EXCEPT ![i] = h[j], ![j] = h[i]]

(* A heap and the place in it where up or down has got to. *)
Sifting == [h : Slices, j : Nat]

UpRound ==
    [s \in Sifting |->
        IF s.j = 1 \/ ~HeapLess(s.h, s.j, s.j \div 2) THEN s
        ELSE [h |-> Swap(s.h, s.j, s.j \div 2), j |-> s.j \div 2]]

Up(h, j) == Rounds(UpRound, [h |-> h, j |-> j], Len(h)).h

(* Sift down inside the first n elements. *)
DownRound(n) ==
    [s \in Sifting |->
        LET left == 2 * s.j
            child == IF left + 1 <= n /\ HeapLess(s.h, left + 1, left) THEN left + 1 ELSE left
        IN  IF left > n \/ ~HeapLess(s.h, child, s.j) THEN s
            ELSE [h |-> Swap(s.h, s.j, child), j |-> child]]

Down(h, i, n) == Rounds(DownRound(n), [h |-> h, j |-> i], n).h

(* Mutant: sifting down looks at left children only. *)
HeapPopLeft(h) ==
    LET n == Len(h)
        s == Swap(h, 1, n)
    IN  <<s[n], SubSeq(IF n > 2 /\ HeapLess(s, 2, 1) THEN Swap(s, 1, 2) ELSE s, 1, n - 1)>>

HeapPush(h, t) == Up(Append(h, t), Len(h) + 1)

(* heap.Pop: the ticket and the rest. *)
HeapPop(h) ==
    LET n == Len(h)
        s == Down(Swap(h, 1, n), 1, n - 1)
    IN  <<s[n], SubSeq(s, 1, n - 1)>>

-----------------------------------------------------------------------------
(* The loops of PopWhere.  `left` is what the predicate has left of its budget;
   each returns the matched tickets and the new items. *)

(* fifo.go, random.go: `remaining`, of length k, shares the array a that the loop
   reads at i. *)
FilterRound ==
    [s \in [a : Slices, i : Nat, k : Nat, left : Int, matched : Slices] |->
        LET t == s.a[s.i]
        IN  IF cost[t] <= s.left
            THEN [s EXCEPT !.i = @ + 1, !.left = @ - cost[t], !.matched = Append(@, t)]
            ELSE [s EXCEPT !.i = @ + 1, !.a[s.k + 1] = t, !.k = @ + 1]]

FilterInPlace(budget) ==
    LET s == Rounds(FilterRound,
                    [a |-> items, i |-> 1, k |-> 0, left |-> budget, matched |-> <<>>],
                    Len(items))
    IN  <<s.matched, SubSeq(s.a, 1, s.k)>>

(* lifo.go: from the last ticket to the first; remaining is then reversed. *)
BackwardsRound ==
    [s \in [i : Nat, remaining : Slices, left : Int, matched : Slices] |->
        LET t == items[s.i]
        IN  IF cost[t] <= s.left
            THEN [s EXCEPT !.i = @ - 1, !.left = @ - cost[t], !.matched = Append(@, t)]
            ELSE [s EXCEPT !.i = @ - 1, !.remaining = Append(@, t)]]

FilterBackwards(budget) ==
    LET s == Rounds(BackwardsRound,
                    [i |-> Len(items), remaining |-> <<>>, left |-> budget, matched |-> <<>>],
                    Len(items))
    IN  <<s.matched, s.remaining>>

(* priority.go: pop everything, test it, push back what does not match. *)
DrainRound ==
    [s \in [h : Slices, keep : Slices, left : Int, matched : Slices] |->
        LET t == HeapPop(s.h)[1]
            rest == HeapPop(s.h)[2]
        IN  IF cost[t] <= s.left
            THEN [s EXCEPT !.h = rest, !.left = @ - cost[t], !.matched = Append(@, t)]
            ELSE [s EXCEPT !.h = rest, !.keep = Append(@, t)]]

PushBackRound ==
    [s \in [h : Slices, keep : Slices] |->
        [h |-> HeapPush(s.h, Head(s.keep)), keep |-> Tail(s.keep)]]

DrainHeap(budget) ==
    LET s == Rounds(DrainRound,
                    [h |-> items, keep |-> <<>>, left |-> budget, matched |-> <<>>],
                    Len(items))
    IN  <<s.matched, Rounds(PushBackRound, [h |-> <<>>, keep |-> s.keep], Len(s.keep)).h>>

(* Mutant: every slice is filtered backwards and left reversed. *)
PopWhereUnreversed(budget) == FilterBackwards(budget)

(* Mutant: every slice is filtered from the front. *)
PopWhereFrontFirst(budget) == FilterInPlace(budget)

PopWhere(budget) ==
    CASE scheduler = "priority" -> DrainHeap(budget)
      [] scheduler = "lifo" ->
            LET result == FilterBackwards(budget) IN <<result[1], Reverse(result[2])>>
      [] OTHER -> FilterInPlace(budget)

-----------------------------------------------------------------------------
Called(op, budget, out) ==
    last' = [op |-> op, before |-> items, budget |-> budget, out |-> out]

Push(t) ==
    /\ t \notin Range(items)
    /\ items' = IF Reference!Full(items) THEN items
                ELSE IF scheduler = "priority" THEN HeapPush(items, t)
                ELSE Append(items, t)
    /\ Called("push", 0, IF Reference!Full(items) THEN <<>> ELSE <<t>>)
    /\ UNCHANGED fixedVars

Pop ==
    /\ items # <<>>
    /\ IF scheduler = "priority"
       THEN items' = HeapPop(items)[2] /\ Called("pop", 0, <<HeapPop(items)[1]>>)
       ELSE \E i \in Reference!ServeNext(items, prio, at) :
                items' = Reference!PopAt(items, i) /\ Called("pop", 0, <<items[i]>>)
    /\ UNCHANGED fixedVars

CallPopWhere ==
    \E budget \in Budgets :
        /\ items' = PopWhere(budget)[2]
        /\ Called("popwhere", budget, PopWhere(budget)[1])
        /\ UNCHANGED fixedVars

QueueNext == (\E t \in Tickets : Push(t)) \/ Pop \/ CallPopWhere

QueueSpec == QueueInit /\ [][QueueNext]_queueVars

-----------------------------------------------------------------------------
(* Ticket a of the sequence s is to be served before ticket b. *)
Earlier(s, a, b) ==
    \E i, j \in DOMAIN s : s[i] = a /\ s[j] = b /\ Reference!Precedes(s, prio, at, i, j)

CostOf(S) == MapThenSumSet(LAMBDA t : cost[t], S)

(* Pop returns a ticket module Queue allows: for the priority queue the heap
   yields the highest priority, the oldest first, after any sequence of calls. *)
PopServesFirst ==
    last.op = "pop" =>
        \E i \in Reference!ServeNext(last.before, prio, at) : last.out = <<last.before[i]>>

(* PopWhere is greedy in serve order: it returns, in that order, exactly the
   tickets that fit into what the matching tickets before them left over. *)
PopWhereGreedy ==
    last.op = "popwhere" =>
        LET s == last.before
            matched == Range(last.out)
            before(t) == {u \in matched : Earlier(s, u, t)}
        IN  /\ \A t \in Range(s) : t \in matched <=> cost[t] + CostOf(before(t)) <= last.budget
            /\ \A i, j \in DOMAIN last.out : i < j => Earlier(s, last.out[i], last.out[j])

(* Pop and PopWhere move tickets from the queue to their caller: none is lost or
   duplicated, although the filters overwrite the slice they read, and what
   PopWhere leaves in a slice stays in the order it was in. *)
OrderKept ==
    last.op \in {"pop", "popwhere"} =>
        /\ IsInjective(items \o last.out)
        /\ Range(items \o last.out) = Range(last.before)
        /\ (last.op = "popwhere" /\ scheduler # "priority") =>
            \A i, j \in DOMAIN items : i < j =>
                \E k, l \in DOMAIN last.before :
                    k < l /\ last.before[k] = items[i] /\ last.before[l] = items[j]
=============================================================================
