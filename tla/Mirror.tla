------------------------------- MODULE Mirror -------------------------------
(***************************************************************************)
(* How well the terminal UI mirrors the queues of the server: TuiModel fed *)
(* by an EventStream (Attach shows that an attached client has one), with  *)
(* the requests whose handlers emit the events.  In the server's own       *)
(* terminal the stream is on from the start and the registry can be read;  *)
(* an attached UI starts from the configuration and the snapshot.          *)
(*                                                                         *)
(* A request is seen as its handler in Endpoint moves it: pushed into the  *)
(* queue, announced by an event, popped by the dispatcher, served with an  *)
(* event; a client that leaves makes no event at all.                      *)
(***************************************************************************)
EXTENDS TuiModel, EventStream

CONSTANTS
    Requests,     \* requests that are made
    AskedChoices, \* the paths they may be made for, as functions of the request
    MaxKeys       \* bound on the keys the user presses

ASSUME RequestsAssumption ==
    /\ IsFiniteSet(Requests)
    /\ AskedChoices \subseteq [Requests -> Range(Order)]

VARIABLES
    asked,     \* asked[r]: the path of request r
    keys,      \* how many keys were pressed
    attached,  \* the UI runs in another process, with -attach
    stage,     \* stage[r]: where the handler of r stands
    queued,    \* the requests whose tickets are in a queue
    faults     \* history: faults[p]: what may have cost path p a dot

serverVars == <<stage, queued>>
fixedVars == <<asked, attached>>
mirrorVars == <<uiVars, streamVars, fixedVars, serverVars, keys, faults>>

At(p) == {r \in Requests : asked[r] = p}
Depth(p) == Cardinality(queued \cap At(p))

(* The paths of the registry: the configured ones and those asked for. *)
Registered == Configured \cup {asked[r] : r \in {q \in Requests : stage[q] # "new"}}

MirrorInit ==
    /\ UiInit
    /\ attached \in BOOLEAN
    /\ asked \in AskedChoices
    /\ keys = 0
    /\ emitted = 0
    /\ pipe = <<>>
    /\ phase = IF attached THEN "before" ELSE "on"
    /\ stage = [r \in Requests |-> "new"]
    /\ queued = {}
    /\ faults = [p \in Range(Order) |-> 0]

Blame(p, n) == faults' = [faults EXCEPT ![p] = @ + n]

Became(r, s) == stage' = [stage EXCEPT ![r] = s]

-----------------------------------------------------------------------------
(* The server *)

(* Endpoint.emit; an event lost after the snapshot is a fault. *)
EmitEvent(r, kind) ==
    /\ Emit([kind |-> kind, path |-> asked[r]])
    /\ Blame(asked[r], IF phase = "on" /\ pipe' = pipe THEN 1 ELSE 0)
    /\ UNCHANGED <<uiVars, fixedVars, keys>>

Push(r) ==
    /\ stage[r] = "new"
    /\ Became(r, "pushed")
    /\ queued' = queued \cup {r}
    /\ UNCHANGED <<uiVars, streamVars, fixedVars, keys, faults>>

Announce(r) ==
    /\ stage[r] = "pushed"
    /\ Became(r, "waiting")
    /\ EmitEvent(r, "queued")
    /\ UNCHANGED queued

(* The dispatcher takes the ticket, be it announced or not, abandoned or not. *)
Pop(r) ==
    /\ r \in queued
    /\ queued' = queued \ {r}
    /\ UNCHANGED <<uiVars, streamVars, fixedVars, keys, stage, faults>>

Serve(r) ==
    /\ stage[r] = "waiting" /\ r \notin queued
    /\ Became(r, "over")
    /\ EmitEvent(r, "served")
    /\ UNCHANGED queued

(* The client leaves: no event says that its ticket is gone. *)
Depart(r) ==
    /\ stage[r] = "waiting"
    /\ Became(r, "over")
    /\ Blame(asked[r], 1)
    /\ UNCHANGED <<uiVars, streamVars, fixedVars, keys, queued>>

Reject(r) ==
    /\ stage[r] = "new"
    /\ Became(r, "over")
    /\ EmitEvent(r, "rejected")
    /\ UNCHANGED queued

ServerStep == \E r \in Requests :
    Push(r) \/ Announce(r) \/ Pop(r) \/ Serve(r) \/ Depart(r) \/ Reject(r)

-----------------------------------------------------------------------------
(* The stream *)

(* An event of p is lost on the way. *)
StreamLoses ==
    /\ Lose
    /\ \E i \in DOMAIN pipe :
        /\ pipe[i].type = "event" /\ pipe' = RemoveAt(pipe, i)
        /\ Blame(pipe[i].body.path, IF phase = "on" THEN 1 ELSE 0)
    /\ UNCHANGED <<uiVars, fixedVars, keys, serverVars>>

(* What the snapshot and the events after it together get wrong about p: events
   under way, requests between a change of the queue and its event, tickets whose
   clients have left, and the depth of a path that has no row to be seeded. *)
Straddling(p) ==
    LET underway == {i \in DOMAIN pipe : pipe[i].body.path = p}
        between == {r \in At(p) :
                      \/ stage[r] = "pushed"
                      \/ stage[r] = "waiting" /\ r \notin queued
                      \/ stage[r] = "over" /\ r \in queued}
    IN  Cardinality(underway) + Cardinality(between)
            + (IF p \in Configured THEN 0 ELSE Depth(p))

(* hub.Subscribe: stateFunc reads the queue depths of the registry. *)
SubscribeUi ==
    /\ Start([p \in Registered |-> Depth(p)])
    /\ faults' = [p \in DOMAIN faults |-> Straddling(p)]
    /\ UNCHANGED <<uiVars, fixedVars, keys, serverVars>>

(* The connection ends; when that loses the snapshot the UI only starts to quit at
   once, which is left out. *)
Disconnect ==
    /\ attached /\ phase = "on"
    /\ Cut
    /\ UNCHANGED <<uiVars, fixedVars, keys, serverVars, faults>>

-----------------------------------------------------------------------------
(* The UI *)

(* The attaching process reads the configuration, and the UI starts with the
   snapshot. *)
TakeConfig ==
    /\ pipe # <<>> /\ Head(pipe).type = "config"
    /\ Deliver
    /\ UNCHANGED <<uiVars, fixedVars, keys, serverVars, faults>>

TakeSnapshot ==
    /\ pipe # <<>> /\ Head(pipe).type = "state"
    /\ Deliver
    /\ StartUi(Head(pipe).body)
    /\ UNCHANGED <<fixedVars, keys, serverVars, faults>>

(* In the server's own terminal it starts without one. *)
StartLocal ==
    /\ ~attached
    /\ StartUi([p \in {} |-> 0])
    /\ UNCHANGED <<streamVars, fixedVars, keys, serverVars, faults>>

(* waitForEvent and Update; an event thrown away during a pause is as good as
   lost. *)
TakeEvent ==
    /\ pipe # <<>> /\ Head(pipe).type = "event"
    /\ Deliver
    /\ OnEvent(Head(pipe).body)
    /\ Blame(Head(pipe).body.path, IF paused THEN 1 ELSE 0)
    /\ UNCHANGED <<fixedVars, keys, serverVars>>

(* tickEvery; an attached UI has no registry. *)
Tick ==
    /\ ~attached
    /\ OnTick(Registered)
    /\ UNCHANGED <<streamVars, fixedVars, keys, serverVars, faults>>

Press ==
    /\ keys < MaxKeys
    /\ keys' = keys + 1
    /\ Key
    /\ UNCHANGED <<streamVars, fixedVars, serverVars, faults>>

(* The channel is closed and empty: disconnectedMsg. *)
StreamEnded ==
    /\ phase = "cut" /\ pipe = <<>>
    /\ QuitUi
    /\ UNCHANGED <<streamVars, fixedVars, keys, serverVars, faults>>

UiStep == TakeConfig \/ TakeSnapshot \/ StartLocal \/ TakeEvent \/ Tick \/ Press \/ StreamEnded

MirrorNext == ServerStep \/ StreamLoses \/ SubscribeUi \/ Disconnect \/ UiStep

MirrorSpec == MirrorInit /\ [][MirrorNext]_mirrorVars

-----------------------------------------------------------------------------
(* Nothing is under way, and every queue change has been announced. *)
Quiet ==
    /\ ui = "on" /\ phase = "on" /\ pipe = <<>>
    /\ \A r \in Requests :
        stage[r] # "pushed" /\ (stage[r] = "waiting" => r \in queued)

DotsOf(p) == IF p \in KnownPaths(rows) THEN rows[IndexForPath(rows, p)].dots ELSE 0

(* "one entry per currently queued request" (model.go), as far as it is true:
   when nothing is under way, the dots of a path differ from its queue by at most
   one for every event that was lost or thrown away, every client that left, and
   every request whose events straddle the snapshot.  Errors never multiply, and
   without them the display is exact. *)
DriftBounded ==
    Quiet => \A p \in Registered :
        Depth(p) - DotsOf(p) \in (0 - faults[p]) .. faults[p]

(* A row keeps its statistics and its path until an event of that path, or a
   reset of that row: rows inserted before it, the sorting of the first tick and
   later ticks do not mix them up. *)
StatsFollowPath ==
    [][ui = "on" =>
        \A p \in KnownPaths(rows) :
            /\ p \in KnownPaths(rows')
            /\ LET old == rows[IndexForPath(rows, p)]
                   new == rows'[IndexForPath(rows', p)]
               IN  \/ [new EXCEPT !.origin = old.origin] = old
                   \/ pipe' # pipe /\ Head(pipe).body.path = p
                   \/ /\ pipe' = pipe /\ rows[selected].path = p
                      /\ new = [old EXCEPT !.served = 0, !.rejected = 0]]_mirrorVars

(* The settings shown for a path are the ones the server gave it: those of its
   nearest configured ancestor, though the UI may never have heard of the dynamic
   endpoints between them. *)
ShownSettings ==
    \A i, j \in DOMAIN rows :
        /\ rows[i].path = rows[j].path => i = j
        /\ rows[i].origin = IF rows[i].path \in Configured THEN rows[i].path
                            ELSE NearestIn(rows[i].path, Configured)
=============================================================================
