------------------------------- MODULE Queue -------------------------------
(***************************************************************************)
(* The four scheduling queues of queue/: fifo.go, lifo.go, random.go and   *)
(* priority.go behind the Queue interface of queue.go.                     *)
(*                                                                         *)
(* A queue is the sequence of its tickets in insertion order (the slice    *)
(* `items`; for the priority queue the tickets of the heap, whose array    *)
(* layout nobody outside container/heap can observe).  Every method holds  *)
(* q.mu from its first to its last line, so each is one operator here;     *)
(* PopWhere, whose predicate takes a second lock, is stepped ticket by     *)
(* ticket by the module that runs it (EndpointTokenWindow) through         *)
(* ScanNext.                                                               *)
(***************************************************************************)
EXTENDS Integers, Sequences, SequencesExt

CONSTANTS
    Scheduler,     \* cfg.Scheduler
    MaxQueueSize   \* cfg.MaxQueueSize, the bound given to every queue

(* queue.New refuses any other scheduler; validateEndpoints refuses a
   max_queue_size that is not positive. *)
ASSUME SchedulerAssumption == Scheduler \in {"fifo", "lifo", "random", "priority"}
ASSUME MaxQueueSizeAssumption == MaxQueueSize \in Nat \ {0}

(* priorityHeap.Less on tickets a and b, given the Priority and the
   EnqueuedAt of every ticket. *)
Less(prio, at, a, b) ==
    \/ prio[a] > prio[b]
    \/ prio[a] = prio[b] /\ at[a] < at[b]

(* Push accepts a ticket exactly when this is false. *)
Full(items) == Len(items) >= MaxQueueSize

(* The ticket at index i is to be served before the one at index j.  The random
   queue has no serve order; its PopWhere goes through the slice. *)
Precedes(items, prio, at, i, j) ==
    CASE Scheduler = "priority" -> Less(prio, at, items[i], items[j])
      [] Scheduler = "lifo"     -> i > j
      [] OTHER                  -> i < j

(* The indices no other precedes.  Tickets of equal priority and equal time stamp
   may leave the heap in any order. *)
First(items, prio, at) ==
    {i \in DOMAIN items : \A j \in DOMAIN items : ~Precedes(items, prio, at, j, i)}

(* The indices of the tickets Pop may return. *)
ServeNext(items, prio, at) ==
    IF Scheduler = "random" THEN DOMAIN items ELSE First(items, prio, at)

(* Mutant: the ticket is taken off the wrong end. *)
PopAtWrongEnd(items, i) ==
    IF i = 1 THEN SubSeq(items, 1, Len(items) - 1) ELSE Tail(items)

(* The tickets left when the one at index i has been popped.  The random queue
   moves its last ticket into the hole. *)
PopAt(items, i) ==
    IF Scheduler = "random"
    THEN SubSeq([items EXCEPT ![i] = items[Len(items)]], 1, Len(items) - 1)
    ELSE RemoveAt(items, i)

(* Mutant: PopWhere starts with the newest ticket. *)
ScanNewestFirst(untested, prio, at) == {i \in DOMAIN untested : i = Len(untested)}

(* The indices of the tickets PopWhere may test next among those it has not
   tested yet. *)
ScanNext(untested, prio, at) == First(untested, prio, at)
=============================================================================
