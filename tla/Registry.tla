------------------------------ MODULE Registry ------------------------------
(***************************************************************************)
(* endpoint/registry.go: the map from request paths to endpoints, and the  *)
(* dynamic endpoints Match creates under configured ones, with             *)
(* config.InheritFrom (config/config.go).                                  *)
(*                                                                         *)
(* An endpoint is an index into `made`, the endpoints ever started; its    *)
(* settings are the fields of its EndpointConfig other than Path and       *)
(* Dynamic, 0 standing for a field that is not set.                        *)
(***************************************************************************)
EXTENDS RequestPaths

CONSTANTS
    Callers,      \* request goroutines that call Match
    Paths,        \* the paths they may ask for
    Fields,       \* the inheritable fields of an EndpointConfig
    Algorithms,   \* the values of field "algorithm" endpoint.New accepts
    ConfigLists,  \* the configured endpoints, as a list of [path, settings]
    MaxDynamic    \* r.maxDynamic

ASSUME FieldsAssumption == "algorithm" \in Fields /\ Algorithms \subseteq Nat \ {0}
ASSUME MaxDynamicAssumption == MaxDynamic \in Nat
ASSUME CallersAssumption == IsFiniteSet(Callers)
ASSUME PathsAssumption == Paths \subseteq Seq(STRING)
ASSUME ConfigListsAssumption ==
    ConfigLists \subseteq Seq([path : Seq(STRING), settings : [Fields -> Nat]])

VARIABLES
    configs,       \* the configuration the registry is built from
    phase,         \* "building", "ready", or "failed" after an error
    made,          \* the endpoints ever created, in order
    running,       \* the indices of those whose goroutines have not been stopped
    endpoints,     \* r.endpoints
    dynamicCount,  \* r.dynamicCount
    cpc,           \* where each caller stands in Match
    want,          \* the path it asks for
    got,           \* what Match returned: an endpoint, or 0 for none
    stopAllAt      \* history: how many endpoints StopAll found created, -1 before

vars == <<configs, phase, made, running, endpoints, dynamicCount, cpc, want, got, stopAllAt>>
callerVars == <<cpc, want, got>>

Unset == [f \in Fields |-> 0]

Registered == DOMAIN endpoints

Init ==
    /\ configs \in ConfigLists
    /\ phase = "building"
    /\ made = <<>>
    /\ running = {}
    /\ endpoints = [p \in {} |-> 0]
    /\ dynamicCount = 0
    /\ cpc = [c \in Callers |-> "idle"]
    /\ want = [c \in Callers |-> Root]
    /\ got = [c \in Callers |-> 0]
    /\ stopAllAt = -1

(* endpoint.New succeeds: queue.New and limiter.New accept the settings. *)
Accepted(settings) == settings["algorithm"] \in Algorithms

(* endpoint.New starts the endpoint and the registry maps its path to it, in
   place of any endpoint the path had. *)
Register(path, settings, dynamic) ==
    /\ made' = Append(made, [path |-> path, settings |-> settings, dynamic |-> dynamic])
    /\ running' = running \cup {Len(made) + 1}
    /\ endpoints' = [p \in Registered \cup {path} |->
                        IF p = path THEN Len(made) + 1 ELSE endpoints[p]]

-----------------------------------------------------------------------------
(* NewRegistryWithOpts: one endpoint per configuration entry, in order. *)

Build ==
    /\ phase = "building"
    /\ Len(made) < Len(configs)
    /\ LET cfg == configs[Len(made) + 1]
       IN  IF Accepted(cfg.settings)
           THEN /\ Register(cfg.path, cfg.settings, FALSE)
                /\ UNCHANGED <<phase, stopAllAt>>
           ELSE /\ phase' = "failed"
                /\ running' = running \ {endpoints[p] : p \in Registered}
                /\ stopAllAt' = Len(made)
                /\ UNCHANGED <<made, endpoints>>
    /\ UNCHANGED <<configs, dynamicCount, callerVars>>

Built ==
    /\ phase = "building"
    /\ Len(made) = Len(configs)
    /\ phase' = "ready"
    /\ UNCHANGED <<configs, made, running, endpoints, dynamicCount, callerVars, stopAllAt>>

-----------------------------------------------------------------------------
(* Match *)

(* Mutant: the walk goes straight to the root. *)
FindParentAtRoot(path) == IF Root \in Registered THEN endpoints[Root] ELSE 0

(* findParentLocked: walk up with path.Dir until a registered path is met. *)
FindParent(path) ==
    IF AncestorsIn(path, Registered) = {} THEN 0
    ELSE endpoints[NearestIn(path, Registered)]

(* Mutant: nothing is inherited. *)
InheritNothing(child, parent) == child

(* config.InheritFrom on the settings of child and parent. *)
InheritFrom(child, parent) ==
    [f \in Fields |-> IF child[f] = 0 THEN parent[f] ELSE child[f]]

Finish(c, ep) ==
    /\ cpc' = [cpc EXCEPT ![c] = "done"]
    /\ got' = [got EXCEPT ![c] = ep]
    /\ UNCHANGED want

(* A request goroutine asks for a path. *)
Ask(c) ==
    /\ phase = "ready"
    /\ cpc[c] = "idle"
    /\ \E path \in Paths : want' = [want EXCEPT ![c] = path]
    /\ cpc' = [cpc EXCEPT ![c] = "fast"]
    /\ UNCHANGED <<configs, phase, made, running, endpoints, dynamicCount, got, stopAllAt>>

(* The exact match under the read lock. *)
MatchFast(c) ==
    /\ cpc[c] = "fast"
    /\ IF want[c] \in Registered
       THEN Finish(c, endpoints[want[c]])
       ELSE cpc' = [cpc EXCEPT ![c] = "slow"] /\ UNCHANGED <<want, got>>
    /\ UNCHANGED <<configs, phase, made, running, endpoints, dynamicCount, stopAllAt>>

(* Mutant: the cap is off by one. *)
CreateOverCap(c, parent) ==
    LET settings == InheritFrom(Unset, made[parent].settings)
    IN  IF dynamicCount > MaxDynamic \/ ~Accepted(settings)
        THEN Finish(c, parent) /\ UNCHANGED <<made, running, endpoints, dynamicCount>>
        ELSE /\ Register(want[c], settings, TRUE)
             /\ dynamicCount' = dynamicCount + 1
             /\ Finish(c, Len(made) + 1)

(* Create the dynamic endpoint for the path of c under parent, unless the cap is
   reached or New fails; then the parent serves the path. *)
CreateUnder(c, parent) ==
    LET settings == InheritFrom(Unset, made[parent].settings)
    IN  IF dynamicCount >= MaxDynamic \/ ~Accepted(settings)
        THEN Finish(c, parent) /\ UNCHANGED <<made, running, endpoints, dynamicCount>>
        ELSE /\ Register(want[c], settings, TRUE)
             /\ dynamicCount' = dynamicCount + 1
             /\ Finish(c, Len(made) + 1)

(* Mutant: no second look at the map once the write lock is held. *)
MatchSlowUnchecked(c) ==
    /\ cpc[c] = "slow"
    /\ IF FindParent(want[c]) = 0
       THEN Finish(c, 0) /\ UNCHANGED <<made, running, endpoints, dynamicCount>>
       ELSE CreateUnder(c, FindParent(want[c]))
    /\ UNCHANGED <<configs, phase, stopAllAt>>

(* The write-locked part: look again, find the parent, create. *)
MatchSlow(c) ==
    /\ cpc[c] = "slow"
    /\ IF want[c] \in Registered
       THEN /\ Finish(c, endpoints[want[c]])
            /\ UNCHANGED <<made, running, endpoints, dynamicCount>>
       ELSE IF FindParent(want[c]) = 0
       THEN Finish(c, 0) /\ UNCHANGED <<made, running, endpoints, dynamicCount>>
       ELSE CreateUnder(c, FindParent(want[c]))
    /\ UNCHANGED <<configs, phase, stopAllAt>>

(* StopAll stops every endpoint of the map. *)
StopAll ==
    /\ phase = "ready"
    /\ stopAllAt = -1
    /\ running' = running \ {endpoints[p] : p \in Registered}
    /\ stopAllAt' = Len(made)
    /\ UNCHANGED <<configs, phase, made, endpoints, dynamicCount, callerVars>>

Next ==
    \/ Build
    \/ Built
    \/ \E c \in Callers : Ask(c) \/ MatchFast(c) \/ MatchSlow(c)
    \/ StopAll

Spec == Init /\ [][Next]_vars

-----------------------------------------------------------------------------
ConfiguredPaths == {made[i].path : i \in {j \in DOMAIN made : ~made[j].dynamic}}

(* r.dynamicCount counts the dynamic endpoints there are, concurrent misses of
   the same path included, and the cap holds. *)
DynamicCapHolds ==
    /\ dynamicCount = Cardinality({i \in DOMAIN made : made[i].dynamic})
    /\ dynamicCount <= MaxDynamic

(* Dynamic endpoints "inherit configuration from the nearest configured ancestor"
   (README.md) although Match only looks for the nearest registered one: through
   any chain of dynamic endpoints the settings are those of that ancestor. *)
InheritsNearestConfigured ==
    \A p \in Registered \ ConfiguredPaths :
        /\ AncestorsIn(p, ConfiguredPaths) # {}
        /\ made[endpoints[p]].settings =
             made[endpoints[NearestIn(p, ConfiguredPaths)]].settings

(* Callers of the same path share one endpoint, so they share one rate: also
   when they race to create it, and when the cap sends them to an ancestor. *)
SamePathSameEndpoint ==
    \A c, d \in Callers :
        (cpc[c] = "done" /\ cpc[d] = "done" /\ want[c] = want[d]) => got[c] = got[d]

(* Creating a dynamic endpoint cannot fail: whatever it inherits was accepted
   before, so only the cap makes Match fall back to a parent. *)
FallbackOnlyAtCap ==
    \A c \in Callers :
        (cpc[c] = "done" /\ got[c] # 0 /\ made[got[c]].path # want[c])
            => dynamicCount = MaxDynamic
=============================================================================
