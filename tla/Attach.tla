------------------------------- MODULE Attach -------------------------------
(***************************************************************************)
(* attach/server.go and attach/client.go: the socket on which Serve hands  *)
(* each client its subscription of the hub, and the process at the other   *)
(* end (main with -attach).  Composes Hub.                                 *)
(*                                                                         *)
(* The socket is external: a connection that was dialled waits for Accept; *)
(* `wire` holds the lines written and not yet read, and a write blocks     *)
(* while it is full; what was written before the writer closes can still   *)
(* be read; writing to a peer that is gone fails.                          *)
(***************************************************************************)
EXTENDS Hub

CONSTANTS
    Stalled,    \* clients that are suspended once they have dialled
    Watched,    \* the client whose view is compared with EventStream: any of them
    WireCap,    \* how many lines a socket buffers
    ClientCap   \* capacity of the client's event and log channels

ASSUME StalledAssumption == Stalled \subseteq Clients
ASSUME WatchedAssumption == Watched \in Clients
ASSUME WireAssumption == WireCap \in Nat \ {0} /\ ClientCap \in Nat \ {0}

VARIABLES
    listening,  \* the listener is open
    serve,      \* Serve: "accept", "wait" in wg.Wait, "returned"
    link,       \* link[c]: serveConn of the connection of c
    writing,    \* writing[c]: the message it encodes, as a sequence of at most one
    wire,       \* wire[c]: the lines between the two processes
    client,     \* client[c]: where main stands in the attaching process
    reader,     \* reader[c]: its reader goroutine: "none", "reading", "ended"
    stateSent,  \* stateSent[c]: stateEmitted
    stateCh,    \* stateCh[c], of capacity 1
    received    \* received[c][k]: its channels events and logs

serveVars == <<listening, serve>>
linkVars == <<link, writing, wire>>
clientVars == <<client, reader, stateSent, stateCh, received>>
vars == <<hubVars, serveVars, linkVars, clientVars>>

Init ==
    /\ HubInit
    /\ listening = TRUE /\ serve = "accept"
    /\ link = [c \in Clients |-> "none"]
    /\ writing = [c \in Clients |-> <<>>]
    /\ wire = [c \in Clients |-> <<>>]
    /\ client = [c \in Clients |-> "idle"]
    /\ reader = [c \in Clients |-> "none"]
    /\ stateSent = [c \in Clients |-> FALSE]
    /\ stateCh = [c \in Clients |-> <<>>]
    /\ received = [c \in Clients |-> [k \in Kinds |-> <<>>]]

Gone(c) == client[c] \in {"failed", "gone"}

(* No more lines will come: serveConn closed the connection, or the listener was
   closed before it was accepted. *)
AtEOF(c) ==
    /\ wire[c] = <<>>
    /\ link[c] = "closed" \/ (link[c] = "dialled" /\ ~listening)

-----------------------------------------------------------------------------
(* Serve *)

(* The goroutine that closes the listener. *)
CloseListener ==
    /\ ctxDone /\ listening
    /\ listening' = FALSE
    /\ UNCHANGED <<hubVars, serve, linkVars, clientVars>>

Accept(c) ==
    /\ serve = "accept" /\ listening
    /\ link[c] = "dialled"
    /\ link' = [link EXCEPT ![c] = "accepted"]
    /\ UNCHANGED <<hubVars, serveVars, writing, wire, clientVars>>

(* Accept fails: the listener is closed, or the system refuses a descriptor; in
   either case Serve accepts nobody any more and waits for its connections. *)
AcceptFails ==
    /\ serve = "accept"
    /\ serve' = "wait"
    /\ UNCHANGED <<hubVars, listening, linkVars, clientVars>>

(* wg.Wait returns, and with it Serve, which closes the listener if it is open. *)
ServeReturn ==
    /\ serve = "wait"
    /\ \A c \in Clients : link[c] \in {"none", "dialled", "closed"}
    /\ serve' = "returned"
    /\ listening' = FALSE
    /\ UNCHANGED <<hubVars, linkVars, clientVars>>

-----------------------------------------------------------------------------
(* serveConn *)

ConnSubscribe(c) ==
    /\ link[c] = "accepted"
    /\ Subscribe(c)
    /\ link' = [link EXCEPT ![c] = "select"]
    /\ UNCHANGED <<sourceVars, hubEnded, serveVars, writing, wire, clientVars>>

(* return: the deferred unsub and conn.Close. *)
ConnClose(c) ==
    /\ Unsubscribe(c)
    /\ link' = [link EXCEPT ![c] = "closed"]
    /\ writing' = [writing EXCEPT ![c] = <<>>]
    /\ UNCHANGED <<sourceVars, hubEnded, serveVars, wire, clientVars>>

(* case <-ctx.Done() *)
ConnDone(c) == link[c] = "select" /\ ctxDone /\ ConnClose(c)

(* case msg := <-ch *)
ConnReceive(c) ==
    /\ link[c] = "select" /\ sub[c] # <<>>
    /\ writing' = [writing EXCEPT ![c] = <<Head(sub[c])>>]
    /\ sub' = [sub EXCEPT ![c] = Tail(@)]
    /\ link' = [link EXCEPT ![c] = "encode"]
    /\ UNCHANGED <<sourceVars, hubEnded, subs, serveVars, wire, clientVars>>

(* Mutant: a failed write is tried again. *)
EncodeRetrying(c) ==
    /\ link[c] = "encode"
    /\ ~Gone(c)
    /\ Len(wire[c]) < WireCap
    /\ wire' = [wire EXCEPT ![c] = @ \o writing[c]]
    /\ writing' = [writing EXCEPT ![c] = <<>>]
    /\ link' = [link EXCEPT ![c] = "select"]
    /\ UNCHANGED <<hubVars, serveVars, clientVars>>

(* enc.Encode(msg): blocks while the socket is full, fails when the peer is gone. *)
Encode(c) ==
    /\ link[c] = "encode"
    /\ \/ Gone(c) /\ ConnClose(c)
       \/ /\ ~Gone(c)
          /\ Len(wire[c]) < WireCap
          /\ wire' = [wire EXCEPT ![c] = @ \o writing[c]]
          /\ writing' = [writing EXCEPT ![c] = <<>>]
          /\ link' = [link EXCEPT ![c] = "select"]
          /\ UNCHANGED <<hubVars, serveVars, clientVars>>

-----------------------------------------------------------------------------
(* ConnectAddr, its reader goroutine, and main *)

(* net.Dial; without a listener it fails, which ends the process. *)
Dial(c) ==
    /\ client[c] = "idle"
    /\ client' = [client EXCEPT ![c] = IF listening THEN "connecting" ELSE "failed"]
    /\ link' = [link EXCEPT ![c] = IF listening THEN "dialled" ELSE @]
    /\ UNCHANGED <<hubVars, serveVars, writing, wire, reader, stateSent, stateCh, received>>

(* The first line must be the configuration; then ConnectAddr starts the reader
   and returns, and main waits for the snapshot. *)
FirstLine(c) ==
    /\ client[c] = "connecting"
    /\ \/ /\ wire[c] # <<>>
          /\ wire' = [wire EXCEPT ![c] = Tail(@)]
          /\ IF Head(wire[c]).type = "config"
             THEN /\ client' = [client EXCEPT ![c] = "waiting"]
                  /\ reader' = [reader EXCEPT ![c] = "reading"]
             ELSE client' = [client EXCEPT ![c] = "failed"] /\ UNCHANGED reader
       \/ /\ AtEOF(c)
          /\ client' = [client EXCEPT ![c] = "failed"]
          /\ UNCHANGED <<wire, reader>>
    /\ UNCHANGED <<hubVars, serveVars, link, writing, stateSent, stateCh, received>>

(* stateCh <- m, if the snapshot has not been sent; it blocks while the channel
   is full. *)
SendState(c, m) ==
    /\ stateSent[c] \/ stateCh[c] = <<>>
    /\ stateSent' = [stateSent EXCEPT ![c] = TRUE]
    /\ stateCh' = [stateCh EXCEPT ![c] = IF stateSent[c] THEN @ ELSE Append(@, m)]

(* One line: a snapshot is kept only if it comes first, an event or log line
   goes to its channel or is dropped. *)
ReadLine(c) ==
    /\ reader[c] = "reading" /\ ~Gone(c)
    /\ wire[c] # <<>>
    /\ wire' = [wire EXCEPT ![c] = Tail(@)]
    /\ LET m == Head(wire[c])
       IN  CASE m.type = "state" -> SendState(c, m) /\ UNCHANGED received
             [] m.type \in Kinds ->
                  /\ SendState(c, Msg("nil", 0))
                  /\ received' = [received EXCEPT ![c][m.type] = Sent(@, m, ClientCap)]
             [] OTHER -> UNCHANGED <<stateSent, stateCh, received>>
    /\ UNCHANGED <<hubVars, serveVars, link, writing, client, reader>>

(* Mutant: the reader ends without a word. *)
ReadEndSilent(c) ==
    /\ reader[c] = "reading" /\ ~Gone(c)
    /\ AtEOF(c)
    /\ reader' = [reader EXCEPT ![c] = "ended"]
    /\ UNCHANGED <<hubVars, serveVars, linkVars, client, stateSent, stateCh, received>>

(* End of file: main must not wait for a snapshot that does not come; the
   channels are closed. *)
ReadEnd(c) ==
    /\ reader[c] = "reading" /\ ~Gone(c)
    /\ AtEOF(c)
    /\ SendState(c, Msg("nil", 0))
    /\ reader' = [reader EXCEPT ![c] = "ended"]
    /\ UNCHANGED <<hubVars, serveVars, linkVars, client, received>>

(* main: snapshots := <-stateCh *)
TakeState(c) ==
    /\ client[c] = "waiting"
    /\ stateCh[c] # <<>>
    /\ stateCh' = [stateCh EXCEPT ![c] = Tail(@)]
    /\ client' = [client EXCEPT ![c] = "watching"]
    /\ UNCHANGED <<hubVars, serveVars, linkVars, reader, stateSent, received>>

(* The TUI, or the two loops of main, take an event or a log line. *)
Watch(c, k) ==
    /\ client[c] = "watching"
    /\ received[c][k] # <<>>
    /\ received' = [received EXCEPT ![c][k] = Tail(@)]
    /\ UNCHANGED <<hubVars, serveVars, linkVars, client, reader, stateSent, stateCh>>

(* The process of c ends: nothing it held matters any more. *)
Leave(c) ==
    /\ client' = [client EXCEPT ![c] = "gone"]
    /\ wire' = [wire EXCEPT ![c] = <<>>]
    /\ stateCh' = [stateCh EXCEPT ![c] = <<>>]
    /\ received' = [received EXCEPT ![c] = [k \in Kinds |-> <<>>]]
    /\ reader' = [reader EXCEPT ![c] = "ended"]
    /\ UNCHANGED <<hubVars, serveVars, link, writing, stateSent>>

(* A closed and empty channel ends the TUI or the loop over the log lines; the
   user may quit before. *)
Disconnected(c) ==
    /\ client[c] = "watching" /\ reader[c] = "ended"
    /\ \E k \in Kinds : received[c][k] = <<>>
    /\ Leave(c)

Quit(c) == client[c] = "watching" /\ Leave(c)

-----------------------------------------------------------------------------
ServeStep ==
    \/ CloseListener \/ ServeReturn
    \/ \E c \in Clients : Accept(c)
    \/ ~listening /\ AcceptFails
ConnStep(c) == ConnSubscribe(c) \/ ConnDone(c) \/ ConnReceive(c) \/ Encode(c)
ClientStep(c) ==
    /\ c \notin Stalled
    /\ \/ FirstLine(c) \/ ReadLine(c) \/ ReadEnd(c)
       \/ TakeState(c) \/ (\E k \in Kinds : Watch(c, k)) \/ Disconnected(c)

Next ==
    \/ HubStep /\ UNCHANGED <<serveVars, linkVars, clientVars>>
    \/ CloseListener \/ AcceptFails \/ ServeReturn
    \/ \E c \in Clients :
        Accept(c) \/ ConnStep(c) \/ Dial(c) \/ ClientStep(c) \/ Quit(c)

(* The goroutines of Serve and of the clients run when they can; nothing is needed
   of the hub.  Nobody need dial, quit, or cancel the context, and Accept need
   not fail while the listener is open. *)
Spec ==
    /\ Init
    /\ [][Next]_vars
    /\ WF_vars(ServeStep)
    /\ \A c \in Clients : WF_vars(ConnStep(c))
    /\ \A c \in Clients \ Stalled : WF_vars(ClientStep(c))

-----------------------------------------------------------------------------
(* What a client is promised: not the log lines, nor the nil that stands for a
   snapshot that does not come. *)
Promised(m) == m.type \in {"config", "state", "event"}

(* The promised messages of s. *)
Due(s) ==
    LET due[n \in 0 .. Len(s)] ==
            IF n = 0 THEN <<>>
            ELSE IF Promised(s[n]) THEN Append(due[n - 1], s[n]) ELSE due[n - 1]
    IN  due[Len(s)]

(* Nothing will be added to what is under way to c: its connection was closed, or
   will not be accepted. *)
Closed(c) == link[c] = "closed" \/ (link[c] = "dialled" /\ serve # "accept")

(* The messages on their way to the user of client c: those its own process
   holds, those on the wire and at serveConn, those in its channel, and, while
   it is or can still be subscribed, those that have not reached the hub. *)
Pipe(c) ==
    LET own == stateCh[c] \o received[c]["event"] \o wire[c] \o writing[c] \o sub[c]
    IN  IF Gone(c) THEN <<>>
        ELSE IF Closed(c) THEN Due(own)
        ELSE Due(own) \o Upstream

PhaseOf(c) ==
    IF Gone(c) \/ Closed(c) THEN "cut"
    ELSE IF link[c] \in {"none", "dialled", "accepted"} THEN "before"
    ELSE "on"

Stream == INSTANCE EventStream
    WITH emitted <- produced["event"], pipe <- Pipe(Watched), phase <- PhaseOf(Watched)

(* "guarantees no broadcast events can arrive before the config snapshot"
   (hub.go), and more: what a client sees is an event stream, whatever the
   buffers, the other clients, the fan-out and the moment of its subscription. *)
StreamKept == Stream!StreamSpec

(* Nothing is left to answer to c: it has not dialled, it got configuration and
   snapshot, or it was told that the server ends or accepts nobody any more. *)
Told(c) ==
    \/ client[c] \in {"idle", "watching", "gone"}
    \/ client[c] = "failed" /\ (ctxDone \/ ~listening)

(* A client that connects gets configuration and snapshot: ConnectAddr and main's
   wait for the snapshot end, and they never fail because of the lines that came.
   The exception is a Serve that met an error in Accept: it accepts nobody any
   more, and keeps the listener open as long as one of its clients stays; once the
   last has left, this client too is told. *)
ConnectEnds ==
    \A c \in Clients \ Stalled : []<>Told(c) \/ <>[](serve = "wait" /\ listening)

(* Once its context is done Serve returns, and so removes the socket file: no
   client can prevent it, except one that stops reading for good, on whose
   connection the write of a line then blocks for good. *)
ServeReturns ==
    \/ []<>(ctxDone => serve = "returned")
    \/ \E c \in Stalled : <>[](link[c] = "encode" /\ ~Gone(c))
=============================================================================
