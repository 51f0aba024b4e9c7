------------------------------ MODULE TuiModel ------------------------------
(***************************************************************************)
(* tui/model.go: what the terminal UI knows of the endpoints and how       *)
(* Update changes it.  The UI keeps its own copy of the endpoint list,     *)
(* counts events per path, and adds a row for a path it has never seen;    *)
(* in the server's own terminal (m.registry set) every tick rebuilds the   *)
(* list from the registry.                                                 *)
(*                                                                         *)
(* A row counts its dots, one per request believed to be queued; when each *)
(* was queued only colours them.  Of the settings of a row the model keeps *)
(* `origin`, the configured path they come from.  Rendering, log lines,    *)
(* wait times and the status line are left out.                            *)
(***************************************************************************)
EXTENDS RequestPaths, SequencesExt

CONSTANTS
    Order,       \* all paths, in the order of their strings
    ConfigRows   \* the configured paths, in the order of the file

ASSUME OrderAssumption == Order \in Seq(Seq(STRING)) /\ IsInjective(Order)

(* ApplyDefaults sees to it that the root is configured. *)
ASSUME RowsAssumption ==
    /\ ConfigRows \in Seq(Range(Order))
    /\ Root \in Range(ConfigRows)

VARIABLES
    ui,        \* "off" until Run is called, then "on", then "quit"
    rows,      \* m.endpoints
    selected,  \* m.selected, counted from 1
    paused     \* m.paused

uiVars == <<ui, rows, selected, paused>>

Configured == Range(ConfigRows)
KnownPaths(rs) == {rs[i].path : i \in DOMAIN rs}

(* indexForPath, or 0 for none. *)
IndexForPath(rs, path) ==
    IF path \in KnownPaths(rs) THEN Min({i \in DOMAIN rs : rs[i].path = path}) ELSE 0

NewRow(path, origin) ==
    [path |-> path, origin |-> origin, dots |-> 0, served |-> 0, rejected |-> 0]

UiInit ==
    /\ ui = "off"
    /\ rows = <<>>
    /\ selected = 1
    /\ paused = FALSE

(* Mutant: the snapshot is not used. *)
NewModelUnseeded(snapshot) ==
    [i \in DOMAIN ConfigRows |-> NewRow(ConfigRows[i], ConfigRows[i])]

(* NewModel: a row per configured endpoint, its dots seeded from the snapshot;
   depths of paths that are not configured are ignored. *)
NewModel(snapshot) ==
    [i \in DOMAIN ConfigRows |->
        LET path == ConfigRows[i]
        IN  [NewRow(path, path) EXCEPT
                !.dots = IF path \in DOMAIN snapshot THEN snapshot[path] ELSE 0]]

(* Run *)
StartUi(snapshot) ==
    /\ ui = "off"
    /\ ui' = "on"
    /\ rows' = NewModel(snapshot)
    /\ UNCHANGED <<selected, paused>>

-----------------------------------------------------------------------------
(* handleServerEvent *)

Before(p, q) ==
    \E i, j \in DOMAIN Order : i < j /\ Order[i] = p /\ Order[j] = q

(* Mutant: a row of a new path takes its settings from the first row. *)
InheritedFromFirst(rs, path) == rs[1].origin

(* The settings a new row inherits from the nearest ancestor it knows; Root when
   it knows none and falls back to minimal defaults. *)
Inherited(rs, path) ==
    IF AncestorsIn(path, KnownPaths(rs)) = {} THEN Root
    ELSE rs[IndexForPath(rs, NearestIn(path, KnownPaths(rs)))].origin

(* addDynamicEndpoint: the row is put before the first row with a larger path. *)
AddDynamicEndpoint(rs, path) ==
    LET larger == {i \in DOMAIN rs : Before(path, rs[i].path)}
        place == Min(larger \cup {Len(rs) + 1})
    IN  InsertAt(rs, place, NewRow(path, Inherited(rs, path)))

(* The row of the event's path counts it. *)
Counted(row, kind) ==
    CASE kind = "queued" -> [row EXCEPT !.dots = @ + 1]
      [] kind = "served" -> [row EXCEPT !.dots = Max({0, @ - 1}), !.served = @ + 1]
      [] kind = "rejected" -> [row EXCEPT !.rejected = @ + 1]

HandleServerEvent(rs, ev) ==
    LET known == IF ev.path \in KnownPaths(rs) THEN rs ELSE AddDynamicEndpoint(rs, ev.path)
    IN  [known EXCEPT ![IndexForPath(known, ev.path)] = Counted(@, ev.kind)]

(* Update, serverEventMsg: while paused the event is thrown away. *)
OnEvent(ev) ==
    /\ ui = "on"
    /\ rows' = IF paused THEN rows ELSE HandleServerEvent(rows, ev)
    /\ UNCHANGED <<ui, selected, paused>>

-----------------------------------------------------------------------------
(* Snapshot: the registry's paths in sorted order, each with as many before it as
   sort before it. *)
Snapshot(known) ==
    [n \in 1 .. Cardinality(known) |->
        CHOOSE p \in known : Cardinality({q \in known : Before(q, p)}) = n - 1]

(* Mutant: the statistics are carried over by position. *)
SyncByIndex(rs, known) ==
    LET paths == Snapshot(known)
    IN  [i \in DOMAIN paths |->
            LET row == NewRow(paths[i], IF paths[i] \in Configured THEN paths[i]
                                        ELSE NearestIn(paths[i], Configured))
            IN  IF i \in DOMAIN rs
                THEN [row EXCEPT !.dots = rs[i].dots, !.served = rs[i].served,
                                 !.rejected = rs[i].rejected]
                ELSE row]

(* syncEndpoints: the rows of the registry's paths in sorted order, with the
   statistics they had and the settings of the registry (Registry shows that
   these are the settings of the nearest configured ancestor). *)
Sync(rs, known) ==
    LET paths == Snapshot(known)
    IN  [i \in DOMAIN paths |->
            LET origin == IF paths[i] \in Configured THEN paths[i]
                          ELSE NearestIn(paths[i], Configured)
            IN  IF paths[i] \in KnownPaths(rs)
                THEN [rs[IndexForPath(rs, paths[i])] EXCEPT !.origin = origin]
                ELSE NewRow(paths[i], origin)]

(* Update, tickMsg, with the registry's paths `known`. *)
OnTick(known) ==
    /\ ui = "on"
    /\ ~paused
    /\ rows' = Sync(rows, known)
    /\ selected' = Max({1, Min({selected, Len(rows')})})
    /\ UNCHANGED <<ui, paused>>

-----------------------------------------------------------------------------
(* handleKey; the other keys change the layout or inject a request. *)

KeyMove ==
    /\ ui = "on"
    /\ selected' \in {Max({1, selected - 1}), Min({selected + 1, Len(rows)})}
    /\ UNCHANGED <<ui, rows, paused>>

KeyReset ==
    /\ ui = "on"
    /\ rows' = [rows EXCEPT ![selected].served = 0, ![selected].rejected = 0]
    /\ UNCHANGED <<ui, selected, paused>>

KeyPause ==
    /\ ui = "on"
    /\ paused' = ~paused
    /\ UNCHANGED <<ui, rows, selected>>

(* The key q, or disconnectedMsg. *)
QuitUi ==
    /\ ui = "on"
    /\ ui' = "quit"
    /\ UNCHANGED <<rows, selected, paused>>

Key == KeyMove \/ KeyReset \/ KeyPause \/ QuitUi
=============================================================================
