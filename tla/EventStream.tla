----------------------------- MODULE EventStream -----------------------------
(***************************************************************************)
(* What one attached client is promised of the events of the server: the   *)
(* configuration, then a snapshot, then events in the order they happened. *)
(* Any event may be lost on the way, none is duplicated or overtaken; the  *)
(* stream may be cut at any point, and then nothing is added to it.        *)
(*                                                                         *)
(* The events that were under way when the snapshot was taken follow it,   *)
(* though what they report is already part of it.                          *)
(***************************************************************************)
EXTENDS Integers, Sequences, SequencesExt

VARIABLES
    emitted,  \* how many events have happened
    pipe,     \* the messages under way to the client, next one first
    phase     \* "before" the snapshot, "on" after it, "cut"

streamVars == <<emitted, pipe, phase>>

ConfigMsg == [type |-> "config", body |-> 0]
StateMsg(s) == [type |-> "state", body |-> s]
EventMsg(e) == [type |-> "event", body |-> e]

StreamInit ==
    /\ emitted = 0
    /\ pipe = <<>>
    /\ phase = "before"

(* Event e happens; a full buffer may swallow it at once. *)
Emit(e) ==
    /\ emitted' = emitted + 1
    /\ pipe' \in {pipe} \cup (IF phase = "cut" THEN {} ELSE {Append(pipe, EventMsg(e))})
    /\ UNCHANGED phase

(* A full buffer swallows an event on its way; configuration and snapshot are
   never lost. *)
Lose ==
    /\ UNCHANGED <<emitted, phase>>
    /\ LET events == {i \in DOMAIN pipe : pipe[i].type = "event"}
       IN  pipe' \in {RemoveAt(pipe, i) : i \in events}

(* The client is subscribed with snapshot s. *)
Start(s) ==
    /\ phase = "before"
    /\ phase' = "on"
    /\ pipe' = <<ConfigMsg, StateMsg(s)>> \o pipe
    /\ UNCHANGED emitted

(* The client takes the next message. *)
Deliver ==
    /\ phase # "before"
    /\ pipe # <<>>
    /\ pipe' = Tail(pipe)
    /\ UNCHANGED <<emitted, phase>>

(* One side closes the connection, or will never open it. *)
Cut ==
    /\ phase' = "cut"
    /\ pipe' \in {SubSeq(pipe, 1, k) : k \in 0 .. Len(pipe)}
    /\ UNCHANGED emitted

(* With numbered events and their number as the snapshot. *)
StreamNext == Emit(emitted + 1) \/ Lose \/ Start(emitted) \/ Deliver \/ Cut

StreamSpec == StreamInit /\ [][StreamNext]_streamVars
=============================================================================
