-------------------------------- MODULE Hub --------------------------------
(***************************************************************************)
(* attach/hub.go and attach/fanout.go: from the event sink and the log     *)
(* sink of the server to the buffered channel of each subscriber.  With    *)
(* -interactive main puts a Fanout2 between.  Every send on the way is     *)
(* non-blocking: what finds a full channel is dropped.                     *)
(*                                                                         *)
(* A message is a type and a body, the number of the event or log line.    *)
(* Neither sink is ever closed by main, so the paths for closed channels   *)
(* are not taken.                                                          *)
(***************************************************************************)
EXTENDS Integers, Sequences

CONSTANTS
    Clients,   \* one subscription each
    MaxProduced,      \* how many events and log lines are produced (a bound)
    SinkCap,   \* capacity of the event and log sinks
    FanCap,    \* capacity of the outputs of Fanout2
    SubCap     \* capacity of a subscriber's channel

Kinds == {"event", "log"}

(* The channel of a subscriber has room for configuration and snapshot. *)
ASSUME CapAssumption ==
    /\ SinkCap \in Nat \ {0} /\ FanCap \in Nat \ {0} /\ SubCap \in Nat /\ SubCap >= 2
    /\ MaxProduced \in Nat

VARIABLES
    interactive,  \* main was started with -interactive
    ctxDone,      \* the context of Run and Serve is cancelled
    produced,     \* produced[k]: how many messages of kind k were emitted
    sink,         \* sink[k]: rawEvents, rawLogCh
    hubIn,        \* hubIn[k]: hubEvents, hubLogs; unused without -interactive
    hubEnded,     \* Hub.Run has returned
    subs,         \* h.subs
    sub           \* sub[c]: the channel of subscriber c

sourceVars == <<interactive, ctxDone, produced, sink, hubIn>>
subVars == <<subs, sub>>
hubVars == <<sourceVars, hubEnded, subVars>>

Msg(type, body) == [type |-> type, body |-> body]

(* A non-blocking send on a channel of capacity cap. *)
Sent(ch, m, cap) == IF Len(ch) < cap THEN Append(ch, m) ELSE ch

HubInit ==
    /\ interactive \in BOOLEAN
    /\ ctxDone = FALSE
    /\ produced = [k \in Kinds |-> 0]
    /\ sink = [k \in Kinds |-> <<>>]
    /\ hubIn = [k \in Kinds |-> <<>>]
    /\ hubEnded = FALSE
    /\ subs = {}
    /\ sub = [c \in Clients |-> <<>>]

-----------------------------------------------------------------------------
(* Endpoint.emit, or logWriter.Write. *)
Produce(k) ==
    /\ produced["event"] + produced["log"] < MaxProduced
    /\ produced' = [produced EXCEPT ![k] = @ + 1]
    /\ sink' = [sink EXCEPT ![k] = Sent(@, Msg(k, produced[k] + 1), SinkCap)]
    /\ UNCHANGED <<interactive, ctxDone, hubIn, hubEnded, subVars>>

(* Fanout2 passes a message on.  The message its goroutine holds between the
   receive and the sends counts as one of the sink; the send to the TUI of the
   server's own terminal, non-blocking too, changes nothing here. *)
FanForward(k) ==
    /\ interactive
    /\ sink[k] # <<>>
    /\ sink' = [sink EXCEPT ![k] = Tail(@)]
    /\ hubIn' = [hubIn EXCEPT ![k] = Sent(@, Head(sink[k]), FanCap)]
    /\ UNCHANGED <<interactive, ctxDone, produced, hubEnded, subVars>>

(* What Hub.Run reads messages of kind k from. *)
Source(k) == IF interactive THEN hubIn[k] ELSE sink[k]

(* Hub.Run: case ev := <-events, case line := <-logs, and broadcast.  The message
   Run holds while it waits for the read lock counts as one of its source; under
   the lock h.subs is fixed, and the sends to the channels, independent of one
   another, are one step. *)
Broadcast(k) ==
    /\ ~hubEnded
    /\ Source(k) # <<>>
    /\ sub' = [c \in Clients |->
                 IF c \in subs THEN Sent(sub[c], Head(Source(k)), SubCap) ELSE sub[c]]
    /\ IF interactive
       THEN hubIn' = [hubIn EXCEPT ![k] = Tail(@)] /\ UNCHANGED sink
       ELSE sink' = [sink EXCEPT ![k] = Tail(@)] /\ UNCHANGED hubIn
    /\ UNCHANGED <<interactive, ctxDone, produced, hubEnded, subs>>

(* Hub.Run: case <-ctx.Done() *)
RunEnd ==
    /\ ctxDone /\ ~hubEnded
    /\ hubEnded' = TRUE
    /\ UNCHANGED <<sourceVars, subVars>>

(* main cancels the context: the signal came, or the TUI was quit. *)
CancelContext ==
    /\ ~ctxDone
    /\ ctxDone' = TRUE
    /\ UNCHANGED <<interactive, produced, sink, hubIn, hubEnded, subVars>>

(* Mutant: the snapshot is sent before the configuration. *)
SubscribeStateFirst(c) ==
    /\ subs' = subs \cup {c}
    /\ sub' = [sub EXCEPT ![c] = <<Msg("state", produced["event"]), Msg("config", 0)>>]

(* Subscribe, under the write lock from registering the channel to the second
   send.  The snapshot is that of the moment: stateFunc reads the queues. *)
Subscribe(c) ==
    /\ subs' = subs \cup {c}
    /\ sub' = [sub EXCEPT ![c] = <<Msg("config", 0), Msg("state", produced["event"])>>]

(* The function Subscribe returns; nobody reads the channel afterwards. *)
Unsubscribe(c) ==
    /\ subs' = subs \ {c}
    /\ sub' = [sub EXCEPT ![c] = <<>>]

(* Two kinds of goroutine, and everything they depend on. *)
Fan == \E k \in Kinds : FanForward(k)
Run == (\E k \in Kinds : Broadcast(k)) \/ RunEnd
HubStep == (\E k \in Kinds : Produce(k)) \/ Fan \/ Run \/ CancelContext

(* The events on their way to the subscribers' channels, the next one first. *)
Upstream == hubIn["event"] \o sink["event"]
=============================================================================
