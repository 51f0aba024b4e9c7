---------------------------- MODULE ServerProofs ----------------------------
(***************************************************************************)
(* Proofs about Registry and about Server, for every number of callers,    *)
(* every set of paths, every configuration and every cap on dynamic        *)
(* endpoints.  Part I is about the registry alone.  Part II carries its    *)
(* invariant to the server, each step of which is a step of the registry   *)
(* or leaves it alone, and adds what shutting down keeps.                  *)
(***************************************************************************)
EXTENDS Server, SharedLemmas

(***************************************************************************)
(* Part I: the registry.                                                   *)
(***************************************************************************)

-----------------------------------------------------------------------------
(* The inductive invariant. *)

Settings == [Fields -> Nat]
EndpointRecords == [path : Seq(STRING), settings : Settings, dynamic : BOOLEAN]

(* The endpoint map points at created endpoints, each under its own path. *)
MapOK ==
    /\ made \in Seq(EndpointRecords)
    /\ running \subseteq DOMAIN made
    /\ Registered \subseteq Seq(STRING)
    /\ endpoints \in [Registered -> DOMAIN made]
    /\ \A p \in Registered : made[endpoints[p]].path = p
    /\ \A i \in DOMAIN made : Accepted(made[i].settings)

CallersOK ==
    /\ cpc \in [Callers -> {"idle", "fast", "slow", "done"}]
    /\ want \in [Callers -> Seq(STRING)]
    /\ got \in [Callers -> 0 .. Len(made)]
    /\ \A c \in Callers : cpc[c] # "idle" => phase = "ready"

RegistryTypeOK ==
    /\ configs \in ConfigLists
    /\ phase \in {"building", "ready", "failed"}
    /\ dynamicCount \in Nat
    /\ stopAllAt \in Int
    /\ stopAllAt <= Len(made)
    /\ MapOK
    /\ CallersOK

(* Only Match makes dynamic endpoints, and a configured path keeps its entry. *)
ConfiguredInv ==
    /\ ConfiguredPaths \subseteq Registered
    /\ phase # "ready" => Registered = ConfiguredPaths
    /\ phase = "building" => stopAllAt = -1

(* What a caller was told still answers its path: its endpoint, no endpoint and
   still no ancestor, or the nearest ancestor and still no room. *)
ToldExact(c) == want[c] \in Registered /\ got[c] = endpoints[want[c]]
ToldNothing(c) ==
    /\ want[c] \notin Registered
    /\ AncestorsIn(want[c], Registered) = {}
    /\ got[c] = 0
ToldParent(c) ==
    /\ want[c] \notin Registered
    /\ AncestorsIn(want[c], Registered) # {}
    /\ dynamicCount = MaxDynamic
    /\ got[c] = FindParent(want[c])

DoneInv ==
    \A c \in Callers : cpc[c] = "done" => ToldExact(c) \/ ToldNothing(c) \/ ToldParent(c)

RegistryInv ==
    /\ RegistryTypeOK
    /\ DynamicCapHolds
    /\ ConfiguredInv
    /\ InheritsNearestConfigured
    /\ DoneInv

(* No two endpoints have the same path, so every endpoint is in the map. *)
DistinctPaths ==
    \A cfgs \in ConfigLists : \A i, j \in DOMAIN cfgs : cfgs[i].path = cfgs[j].path => i = j

EveryoneMapped ==
    /\ \A i \in DOMAIN made : made[i].path \in Registered /\ endpoints[made[i].path] = i
    /\ phase = "building" =>
          /\ Len(made) <= Len(configs)
          /\ \A i \in DOMAIN made : made[i].path = configs[i].path

(* Until StopAll every endpoint ever created runs ... *)
RunningInv == stopAllAt = -1 => running = DOMAIN made

(* ... and it leaves none of those it found running. *)
StopInv == running \cap (1 .. stopAllAt) = {}

-----------------------------------------------------------------------------
(* What registering an endpoint does. *)

(* Register adds one endpoint at the end of made and puts it in the map. *)
LEMMA RegisterMap ==
    ASSUME MapOK, NEW path \in Seq(STRING), NEW settings \in Settings,
           NEW dynamic \in BOOLEAN, Accepted(settings),
           Register(path, settings, dynamic)
    PROVE  /\ MapOK'
           /\ Len(made') = Len(made) + 1
           /\ DOMAIN made' = DOMAIN made \cup {Len(made) + 1}
           /\ Len(made) + 1 \notin DOMAIN made
           /\ \A i \in DOMAIN made : made'[i] = made[i]
           /\ made'[Len(made) + 1] =
                [path |-> path, settings |-> settings, dynamic |-> dynamic]
           /\ Registered' = Registered \cup {path}
           /\ endpoints'[path] = Len(made) + 1
           /\ \A p \in Registered : p # path => endpoints'[p] = endpoints[p]
           /\ running' = running \cup {Len(made) + 1}
  <1> DEFINE rec == [path |-> path, settings |-> settings, dynamic |-> dynamic]
             k == Len(made) + 1
  <1>1. rec \in EndpointRecords /\ rec.path = path /\ rec.settings = settings
    BY DEF EndpointRecords
  <1>2. made \in Seq(EndpointRecords) /\ made' = Append(made, rec)
        /\ running' = running \cup {k}
        /\ endpoints' = [p \in Registered \cup {path} |-> IF p = path THEN k ELSE endpoints[p]]
    BY DEF MapOK, Register
  <1> HIDE DEF rec
  <1>3. /\ made' \in Seq(EndpointRecords) /\ Len(made') = k
        /\ DOMAIN made' = 1 .. k /\ DOMAIN made = 1 .. Len(made) /\ Len(made) \in Nat
        /\ made'[k] = rec /\ \A i \in 1 .. Len(made) : made'[i] = made[i]
    BY <1>1, <1>2
  <1>4. DOMAIN made' = DOMAIN made \cup {k} /\ k \notin DOMAIN made
    BY <1>3
  <1> HIDE DEF k
  <1>5. /\ Registered' = Registered \cup {path} /\ endpoints'[path] = k
        /\ \A p \in Registered : p # path => endpoints'[p] = endpoints[p]
    BY <1>2 DEF Registered
  <1>6. endpoints' \in [Registered' -> DOMAIN made']
    <2>1. endpoints \in [Registered -> DOMAIN made]
      BY DEF MapOK
    <2> QED
      BY <1>2, <1>4, <1>5, <2>1
  <1>7. \A p \in Registered' : made'[endpoints'[p]].path = p
    <2> SUFFICES ASSUME NEW p \in Registered' PROVE made'[endpoints'[p]].path = p
      OBVIOUS
    <2>1. CASE p = path
      BY <1>1, <1>3, <1>5, <2>1
    <2>2. CASE p # path
      <3>1. p \in Registered /\ endpoints'[p] = endpoints[p]
        BY <1>5, <2>2
      <3>2. endpoints[p] \in DOMAIN made /\ made[endpoints[p]].path = p
        BY <3>1 DEF MapOK
      <3> QED
        BY <1>3, <3>1, <3>2
    <2> QED
      BY <2>1, <2>2
  <1>8. \A i \in DOMAIN made' : Accepted(made'[i].settings)
    <2> SUFFICES ASSUME NEW i \in DOMAIN made' PROVE Accepted(made'[i].settings)
      OBVIOUS
    <2>1. CASE i = k
      BY <1>1, <1>3, <2>1
    <2>2. CASE i \in DOMAIN made
      <3>1. made'[i] = made[i]
        BY <1>3, <2>2
      <3>2. Accepted(made[i].settings)
        BY <2>2 DEF MapOK
      <3> QED
        BY <3>1, <3>2
    <2> QED
      BY <1>4, <2>1, <2>2
  <1>9. running' \subseteq DOMAIN made'
    <2>1. running \subseteq DOMAIN made
      BY DEF MapOK
    <2> QED
      BY <1>2, <1>4, <2>1
  <1>10. Registered' \subseteq Seq(STRING)
    <2>1. Registered \subseteq Seq(STRING)
      BY DEF MapOK
    <2> QED
      BY <1>5, <2>1
  <1>11. MapOK'
    BY <1>3, <1>6, <1>7, <1>8, <1>9, <1>10 DEF MapOK
  <1> QED
    BY <1>2, <1>3, <1>4, <1>5, <1>11 DEF rec, k

(* InheritFrom onto a configuration with nothing set copies the parent. *)
LEMMA InheritsAll ==
    ASSUME NEW s \in Settings
    PROVE  InheritFrom(Unset, s) = s
  BY DEF InheritFrom, Unset, Settings

(* findParentLocked returns the nearest registered ancestor, or nothing. *)
LEMMA FindParentFinds ==
    ASSUME MapOK, NEW p \in Seq(STRING)
    PROVE  /\ AncestorsIn(p, Registered) = {} => FindParent(p) = 0
           /\ AncestorsIn(p, Registered) # {} =>
                 /\ NearestIn(p, Registered) \in Registered
                 /\ FindParent(p) = endpoints[NearestIn(p, Registered)]
                 /\ FindParent(p) \in DOMAIN made /\ FindParent(p) # 0
  <1>1. ASSUME AncestorsIn(p, Registered) # {}
        PROVE  NearestIn(p, Registered) \in Registered
    BY <1>1, NearestIsLongest
  <1>2. DOMAIN made = 1 .. Len(made)
    BY DEF MapOK
  <1>3. 0 \notin DOMAIN made
    BY <1>2
  <1>4. \A q \in Registered : endpoints[q] \in DOMAIN made
    BY DEF MapOK
  <1> QED
    BY <1>1, <1>3, <1>4 DEF FindParent

(* The dynamic endpoint c creates: a path that was not registered, below its
   nearest registered ancestor, whose settings it gets. *)
Creates(c) ==
    LET parent == FindParent(want[c])
    IN  /\ want[c] \notin Registered
        /\ AncestorsIn(want[c], Registered) # {}
        /\ dynamicCount < MaxDynamic
        /\ Register(want[c], made[parent].settings, TRUE)
        /\ dynamicCount' = dynamicCount + 1
        /\ Finish(c, Len(made) + 1)

(* The write-locked half of Match answers as one of these four says; only the
   last creates an endpoint, and endpoint.New never refuses there. *)
LEMMA MatchSlowCases ==
    ASSUME RegistryInv, NEW c \in Callers, MatchSlow(c)
    PROVE  /\ UNCHANGED <<configs, phase, stopAllAt>>
           /\ cpc[c] = "slow"
           /\ \/ /\ UNCHANGED <<made, running, endpoints, dynamicCount>>
                 /\ \/ want[c] \in Registered /\ Finish(c, endpoints[want[c]])
                    \/ /\ want[c] \notin Registered
                       /\ AncestorsIn(want[c], Registered) = {}
                       /\ Finish(c, 0)
                    \/ /\ want[c] \notin Registered
                       /\ AncestorsIn(want[c], Registered) # {}
                       /\ dynamicCount = MaxDynamic
                       /\ Finish(c, FindParent(want[c]))
              \/ Creates(c)
  <1> DEFINE p == want[c]
             parent == FindParent(p)
  <1>1. MapOK /\ p \in Seq(STRING) /\ dynamicCount \in Nat /\ dynamicCount <= MaxDynamic
    BY DEF RegistryInv, RegistryTypeOK, CallersOK, DynamicCapHolds
  <1>2. UNCHANGED <<configs, phase, stopAllAt>> /\ cpc[c] = "slow"
    BY DEF MatchSlow
  <1>3. CASE p \in Registered
    BY <1>2, <1>3 DEF MatchSlow
  <1>4. CASE p \notin Registered /\ AncestorsIn(p, Registered) = {}
    <2>1. parent = 0
      BY <1>1, <1>4, FindParentFinds
    <2> QED
      BY <1>2, <1>4, <2>1 DEF MatchSlow
  <1>5. CASE p \notin Registered /\ AncestorsIn(p, Registered) # {}
    <2>1. parent \in DOMAIN made /\ parent # 0
      BY <1>1, <1>5, FindParentFinds
    <2>2. CreateUnder(c, parent)
      BY <1>5, <2>1 DEF MatchSlow
    <2>3. made[parent] \in EndpointRecords /\ Accepted(made[parent].settings)
      BY <1>1, <2>1 DEF MapOK
    <2>4. InheritFrom(Unset, made[parent].settings) = made[parent].settings
      BY <2>3, InheritsAll DEF EndpointRecords
    <2>5. \/ /\ UNCHANGED <<made, running, endpoints, dynamicCount>>
             /\ dynamicCount >= MaxDynamic
             /\ Finish(c, parent)
          \/ /\ ~ (dynamicCount >= MaxDynamic)
             /\ Register(p, made[parent].settings, TRUE)
             /\ dynamicCount' = dynamicCount + 1
             /\ Finish(c, Len(made) + 1)
      BY <2>2, <2>3, <2>4 DEF CreateUnder
    <2>6. dynamicCount >= MaxDynamic => dynamicCount = MaxDynamic
      BY <1>1, MaxDynamicAssumption
    <2>7. ~ (dynamicCount >= MaxDynamic) => dynamicCount < MaxDynamic
      BY <1>1, MaxDynamicAssumption
    <2> QED
      BY <1>2, <1>5, <2>5, <2>6, <2>7 DEF Creates
  <1> QED
    BY <1>3, <1>4, <1>5

-----------------------------------------------------------------------------
(* The steps of Registry, by what they do to the map of endpoints. *)

(* No endpoint is created: everything but running, phase and the callers stays. *)
MapStays ==
    /\ UNCHANGED <<configs, made, endpoints, dynamicCount>>
    /\ running' \subseteq running

(* NewRegistryWithOpts creates the endpoint of the next entry. *)
Configures ==
    LET cfg == configs[Len(made) + 1]
    IN  /\ phase = "building"
        /\ Len(made) < Len(configs)
        /\ Register(cfg.path, cfg.settings, FALSE)
        /\ Accepted(cfg.settings)
        /\ cfg.path \in Seq(STRING) /\ cfg.settings \in Settings
        /\ UNCHANGED <<configs, phase, stopAllAt, dynamicCount, callerVars>>

(* A caller gets its answer. *)
Answers(c) ==
    /\ cpc[c] \in {"fast", "slow"}
    /\ MapStays
    /\ UNCHANGED <<phase, stopAllAt, running>>
    /\ \/ want[c] \in Registered /\ Finish(c, endpoints[want[c]])
       \/ /\ want[c] \notin Registered
          /\ AncestorsIn(want[c], Registered) = {}
          /\ Finish(c, 0)
       \/ /\ want[c] \notin Registered
          /\ AncestorsIn(want[c], Registered) # {}
          /\ dynamicCount = MaxDynamic
          /\ Finish(c, FindParent(want[c]))

(* A caller moves on without an answer yet. *)
Proceeds(c) ==
    /\ MapStays
    /\ UNCHANGED <<phase, stopAllAt, running, got>>
    /\ phase = "ready"
    /\ \/ cpc[c] = "idle" /\ cpc' = [cpc EXCEPT ![c] = "fast"]
          /\ \E path \in Paths : want' = [want EXCEPT ![c] = path]
       \/ cpc[c] = "fast" /\ cpc' = [cpc EXCEPT ![c] = "slow"] /\ UNCHANGED want

(* The build fails or ends, or StopAll runs: no caller moves. *)
Settles ==
    /\ MapStays
    /\ UNCHANGED callerVars
    /\ \/ /\ phase = "building" /\ phase' = "failed" /\ stopAllAt' = Len(made)
          /\ running' = running \ {endpoints[p] : p \in Registered}
       \/ /\ phase = "building" /\ phase' = "ready" /\ UNCHANGED <<running, stopAllAt>>
       \/ /\ phase = "ready" /\ phase' = "ready" /\ stopAllAt' = Len(made)
          /\ running' = running \ {endpoints[p] : p \in Registered}
       \/ UNCHANGED <<phase, running, stopAllAt>>

(* Every step of the registry is one of these. *)
LEMMA StepCases ==
    ASSUME RegistryInv, [Next]_vars
    PROVE  \/ Configures
           \/ Settles
           \/ \E c \in Callers : \/ Proceeds(c)
                                 \/ Answers(c)
                                 \/ Creates(c) /\ cpc[c] = "slow" /\ phase = "ready"
                                    /\ UNCHANGED <<configs, phase, stopAllAt>>
  <1>1. CASE Build
    <2> DEFINE cfg == configs[Len(made) + 1]
    <2>1. /\ configs \in Seq([path : Seq(STRING), settings : Settings])
          /\ made \in Seq(EndpointRecords)
      BY ConfigListsAssumption DEF RegistryInv, RegistryTypeOK, MapOK, Settings
    <2>2. Len(made) < Len(configs) /\ phase = "building"
      BY <1>1 DEF Build
    <2>3. Len(made) + 1 \in 1 .. Len(configs)
      BY <2>1, <2>2
    <2>4. cfg \in [path : Seq(STRING), settings : Settings]
      BY <2>1, <2>3, ElementOfSeq, Zenon
    <2>5. cfg.path \in Seq(STRING) /\ cfg.settings \in Settings
      BY <2>4
    <2>6. CASE Accepted(cfg.settings)
      <3>1. Configures
        BY <1>1, <2>5, <2>6 DEF Build, Configures
      <3> QED
        BY <3>1
    <2>7. CASE ~Accepted(cfg.settings)
      <3>1. Settles
        BY <1>1, <2>7 DEF Build, Settles, MapStays
      <3> QED
        BY <3>1
    <2> QED
      BY <2>6, <2>7
  <1>2. CASE Built
    <2>1. Settles
      BY <1>2 DEF Built, Settles, MapStays
    <2> QED
      BY <2>1
  <1>3. CASE StopAll
    <2>1. Settles
      BY <1>3 DEF StopAll, Settles, MapStays
    <2> QED
      BY <2>1
  <1>4. CASE UNCHANGED vars
    <2>1. Settles
      BY <1>4 DEF vars, callerVars, Settles, MapStays
    <2> QED
      BY <2>1
  <1>5. ASSUME NEW c \in Callers, Ask(c) \/ MatchFast(c) \/ MatchSlow(c)
        PROVE  \/ Proceeds(c)
               \/ Answers(c)
               \/ Creates(c) /\ cpc[c] = "slow" /\ phase = "ready"
                  /\ UNCHANGED <<configs, phase, stopAllAt>>
    <2>1. cpc[c] # "idle" => phase = "ready"
      BY DEF RegistryInv, RegistryTypeOK, CallersOK
    <2>2. CASE Ask(c)
      BY <2>2 DEF Ask, Proceeds, MapStays
    <2>3. CASE MatchFast(c)
      <3>1. CASE want[c] \in Registered
        BY <2>3, <3>1 DEF MatchFast, Answers, MapStays
      <3>2. CASE want[c] \notin Registered
        BY <2>1, <2>3, <3>2 DEF MatchFast, Proceeds, MapStays
      <3> QED
        BY <3>1, <3>2
    <2>4. CASE MatchSlow(c)
      <3>1. UNCHANGED <<configs, phase, stopAllAt>> /\ cpc[c] = "slow" /\ phase = "ready"
        BY <2>1, <2>4, MatchSlowCases
      <3>2. CASE Creates(c)
        BY <3>1, <3>2
      <3>3. CASE UNCHANGED <<made, running, endpoints, dynamicCount>>
                 /\ \/ want[c] \in Registered /\ Finish(c, endpoints[want[c]])
                    \/ /\ want[c] \notin Registered
                       /\ AncestorsIn(want[c], Registered) = {}
                       /\ Finish(c, 0)
                    \/ /\ want[c] \notin Registered
                       /\ AncestorsIn(want[c], Registered) # {}
                       /\ dynamicCount = MaxDynamic
                       /\ Finish(c, FindParent(want[c]))
        <4>1. MapStays
          BY <3>1, <3>3 DEF MapStays
        <4>2. Answers(c)
          BY <3>1, <3>3, <4>1 DEF Answers
        <4> QED
          BY <4>2
      <3> QED
        BY <2>4, <3>2, <3>3, MatchSlowCases
    <2> QED
      BY <1>5, <2>2, <2>3, <2>4
  <1> QED
    BY <1>1, <1>2, <1>3, <1>4, <1>5 DEF Next

(* What Creates does to the map. *)
LEMMA CreatesMap ==
    ASSUME RegistryInv, NEW c \in Callers, Creates(c)
    PROVE  LET parent == NearestIn(want[c], Registered)
               k == Len(made) + 1
           IN  /\ MapOK'
               /\ want[c] \in Seq(STRING)
               /\ DOMAIN made' = DOMAIN made \cup {k} /\ k \notin DOMAIN made
               /\ Len(made') = k
               /\ \A i \in DOMAIN made : made'[i] = made[i]
               /\ parent \in Registered
               /\ made'[k].path = want[c] /\ made'[k].dynamic = TRUE
               /\ made'[k].settings = made[endpoints[parent]].settings
               /\ Registered' = Registered \cup {want[c]}
               /\ endpoints'[want[c]] = k
               /\ \A p \in Registered : endpoints'[p] = endpoints[p]
               /\ running' = running \cup {k}
  <1> DEFINE s == made[FindParent(want[c])].settings
  <1>1. MapOK /\ want[c] \in Seq(STRING) /\ want[c] \notin Registered
        /\ AncestorsIn(want[c], Registered) # {}
    BY DEF RegistryInv, RegistryTypeOK, CallersOK, Creates
  <1>2. /\ NearestIn(want[c], Registered) \in Registered
        /\ FindParent(want[c]) = endpoints[NearestIn(want[c], Registered)]
        /\ FindParent(want[c]) \in DOMAIN made
    BY <1>1, FindParentFinds
  <1>3. made[FindParent(want[c])] \in EndpointRecords /\ Accepted(s)
    BY <1>1, <1>2 DEF MapOK
  <1>4. s \in Settings
    BY <1>3 DEF EndpointRecords
  <1>5. Register(want[c], s, TRUE)
    BY DEF Creates
  <1> HIDE DEF s
  <1>6. /\ MapOK'
        /\ Len(made') = Len(made) + 1
        /\ DOMAIN made' = DOMAIN made \cup {Len(made) + 1}
        /\ Len(made) + 1 \notin DOMAIN made
        /\ \A i \in DOMAIN made : made'[i] = made[i]
        /\ made'[Len(made) + 1] = [path |-> want[c], settings |-> s, dynamic |-> TRUE]
        /\ Registered' = Registered \cup {want[c]}
        /\ endpoints'[want[c]] = Len(made) + 1
        /\ \A p \in Registered : p # want[c] => endpoints'[p] = endpoints[p]
        /\ running' = running \cup {Len(made) + 1}
    BY <1>1, <1>3, <1>4, <1>5, RegisterMap
  <1>7. s = made[endpoints[NearestIn(want[c], Registered)]].settings
    BY <1>2 DEF s
  <1>8. /\ made'[Len(made) + 1].path = want[c]
        /\ made'[Len(made) + 1].dynamic = TRUE
        /\ made'[Len(made) + 1].settings = s
    BY <1>6
  <1> QED
    BY <1>1, <1>2, <1>6, <1>7, <1>8

-----------------------------------------------------------------------------
(* Each conjunct of RegistryInv survives every step. *)

(* When no endpoint is created the map stays in order. *)
LEMMA MapStaysOK ==
    ASSUME MapOK, MapStays
    PROVE  MapOK' /\ Registered' = Registered /\ ConfiguredPaths' = ConfiguredPaths
  BY DEF MapOK, MapStays, Registered, ConfiguredPaths

(* An endpoint of the configuration is configured. *)
LEMMA ConfiguresMap ==
    ASSUME RegistryInv, Configures
    PROVE  LET path == configs[Len(made) + 1].path
               k == Len(made) + 1
           IN  /\ MapOK'
               /\ DOMAIN made' = DOMAIN made \cup {k} /\ k \notin DOMAIN made
               /\ Len(made') = k
               /\ \A i \in DOMAIN made : made'[i] = made[i]
               /\ made'[k].path = path /\ ~made'[k].dynamic
               /\ Registered' = Registered \cup {path}
               /\ endpoints'[path] = k
               /\ \A p \in Registered : p # path => endpoints'[p] = endpoints[p]
               /\ running' = running \cup {k}
               /\ ConfiguredPaths' = ConfiguredPaths \cup {path}
  <1> DEFINE cfg == configs[Len(made) + 1]
             k == Len(made) + 1
  <1>1. MapOK
    BY DEF RegistryInv, RegistryTypeOK
  <1>2. /\ cfg.path \in Seq(STRING) /\ cfg.settings \in Settings /\ Accepted(cfg.settings)
        /\ Register(cfg.path, cfg.settings, FALSE)
    BY DEF Configures
  <1> HIDE DEF cfg
  <1>3. /\ MapOK'
        /\ Len(made') = k
        /\ DOMAIN made' = DOMAIN made \cup {k}
        /\ k \notin DOMAIN made
        /\ \A i \in DOMAIN made : made'[i] = made[i]
        /\ made'[k] = [path |-> cfg.path, settings |-> cfg.settings, dynamic |-> FALSE]
        /\ Registered' = Registered \cup {cfg.path}
        /\ endpoints'[cfg.path] = k
        /\ \A p \in Registered : p # cfg.path => endpoints'[p] = endpoints[p]
        /\ running' = running \cup {k}
    BY <1>1, <1>2, RegisterMap
  <1> HIDE DEF k
  <1>4. made'[k].path = cfg.path /\ ~made'[k].dynamic
    BY <1>3
  <1>5. ConfiguredPaths' = ConfiguredPaths \cup {cfg.path}
    <2> DEFINE J == {j \in DOMAIN made : ~made[j].dynamic}
    <2>1. J' = J \cup {k} /\ J \subseteq DOMAIN made
      BY <1>3, <1>4
    <2>2. ConfiguredPaths = {made[i].path : i \in J}
          /\ ConfiguredPaths' = {made'[i].path : i \in J'}
      BY DEF ConfiguredPaths
    <2> HIDE DEF J
    <2>3. \A i \in J : made'[i] = made[i]
      BY <1>3, <2>1
    <2> QED
      BY <1>4, <2>1, <2>2, <2>3
  <1> QED
    BY <1>3, <1>4, <1>5 DEF cfg, k

(* A dynamic endpoint is not configured. *)
LEMMA CreatesConfigured ==
    ASSUME RegistryInv, NEW c \in Callers, Creates(c)
    PROVE  ConfiguredPaths' = ConfiguredPaths
  <1> DEFINE k == Len(made) + 1
  <1>1. /\ DOMAIN made' = DOMAIN made \cup {k} /\ k \notin DOMAIN made
        /\ \A i \in DOMAIN made : made'[i] = made[i]
        /\ made'[k].dynamic = TRUE
    BY CreatesMap
  <1> HIDE DEF k
  <1> QED
    BY <1>1, Zenon DEF ConfiguredPaths

(* Types. *)
LEMMA RegistryTypeStep ==
    ASSUME RegistryInv, [Next]_vars
    PROVE  RegistryTypeOK'
  <1>1. /\ RegistryTypeOK /\ MapOK /\ CallersOK
        /\ Len(made) \in Nat /\ stopAllAt \in Int /\ stopAllAt <= Len(made)
    BY DEF RegistryInv, RegistryTypeOK, MapOK
  <1>2. CASE Configures
    <2>1. MapOK' /\ Len(made') = Len(made) + 1
      BY <1>2, ConfiguresMap
    <2>2. UNCHANGED <<configs, phase, stopAllAt, dynamicCount, cpc, want, got>>
      BY <1>2 DEF Configures, callerVars
    <2>3. CallersOK'
      BY <1>1, <2>1, <2>2 DEF CallersOK
    <2>4. stopAllAt' <= Len(made')
      BY <1>1, <2>1, <2>2
    <2> QED
      BY <1>1, <2>1, <2>2, <2>3, <2>4 DEF RegistryTypeOK
  <1>3. CASE Settles
    <2>1. MapOK' /\ made' = made
      BY <1>1, <1>3, MapStaysOK DEF Settles, MapStays
    <2>2. UNCHANGED <<configs, dynamicCount, cpc, want, got>>
          /\ phase' \in {"building", "ready", "failed"}
          /\ (phase = "ready" => phase' = "ready")
      BY <1>1, <1>3 DEF Settles, MapStays, callerVars, RegistryTypeOK
    <2>3. stopAllAt' \in Int /\ stopAllAt' <= Len(made')
      BY <1>1, <1>3, <2>1 DEF Settles
    <2>4. CallersOK'
      BY <1>1, <2>1, <2>2 DEF CallersOK
    <2> QED
      BY <1>1, <2>1, <2>2, <2>3, <2>4 DEF RegistryTypeOK
  <1>4. ASSUME NEW c \in Callers, Proceeds(c) PROVE RegistryTypeOK'
    <2>1. MapOK' /\ UNCHANGED <<made, configs, dynamicCount, phase, stopAllAt, got>>
          /\ phase = "ready"
      BY <1>1, <1>4, MapStaysOK DEF Proceeds, MapStays
    <2>2. want' \in [Callers -> Seq(STRING)]
          /\ cpc' \in [Callers -> {"idle", "fast", "slow", "done"}]
      BY <1>1, <1>4, PathsAssumption DEF CallersOK, Proceeds
    <2>3. CallersOK'
      BY <1>1, <2>1, <2>2 DEF CallersOK
    <2> QED
      BY <1>1, <2>1, <2>3 DEF RegistryTypeOK
  <1>5. ASSUME NEW c \in Callers, Answers(c) PROVE RegistryTypeOK'
    <2>1. MapOK' /\ UNCHANGED <<made, configs, dynamicCount, phase, stopAllAt, want>>
      BY <1>1, <1>5, MapStaysOK DEF Answers, MapStays, Finish
    <2>2. phase = "ready"
      BY <1>1, <1>5 DEF CallersOK, Answers
    <2>3. PICK ep \in 0 .. Len(made) : Finish(c, ep)
      <3>1. want[c] \in Seq(STRING)
        BY <1>1 DEF CallersOK
      <3>2. \A i \in DOMAIN made : i \in 0 .. Len(made)
        BY <1>1 DEF MapOK
      <3>3. want[c] \in Registered => endpoints[want[c]] \in 0 .. Len(made)
        BY <1>1, <3>2 DEF MapOK
      <3>4. FindParent(want[c]) \in 0 .. Len(made) /\ 0 \in 0 .. Len(made)
        BY <1>1, <3>1, <3>2, FindParentFinds
      <3> QED
        BY <1>5, <3>3, <3>4 DEF Answers
    <2>4. CallersOK'
      BY <1>1, <2>1, <2>2, <2>3 DEF CallersOK, Finish
    <2> QED
      BY <1>1, <2>1, <2>4 DEF RegistryTypeOK
  <1>6. ASSUME NEW c \in Callers, Creates(c), cpc[c] = "slow", phase = "ready",
               UNCHANGED <<configs, phase, stopAllAt>>
        PROVE  RegistryTypeOK'
    <2>1. MapOK' /\ Len(made') = Len(made) + 1
      BY <1>6, CreatesMap
    <2>2. Finish(c, Len(made) + 1) /\ dynamicCount' = dynamicCount + 1
      BY <1>6 DEF Creates
    <2>3. got' \in [Callers -> 0 .. Len(made')]
      <3>1. got \in [Callers -> 0 .. Len(made)] /\ got' = [got EXCEPT ![c] = Len(made) + 1]
        BY <1>1, <2>2 DEF CallersOK, Finish
      <3> QED
        BY <1>1, <2>1, <3>1
    <2>4. CallersOK'
      BY <1>1, <1>6, <2>2, <2>3 DEF CallersOK, Finish
    <2>5. stopAllAt' <= Len(made') /\ dynamicCount' \in Nat
      BY <1>1, <1>6, <2>1, <2>2 DEF RegistryTypeOK
    <2> QED
      BY <1>1, <1>6, <2>1, <2>4, <2>5 DEF RegistryTypeOK
  <1> QED
    BY <1>2, <1>3, <1>4, <1>5, <1>6, StepCases

(* Each creation of a dynamic endpoint is counted, and none happens at the cap. *)
LEMMA CapStep ==
    ASSUME RegistryInv, [Next]_vars
    PROVE  DynamicCapHolds'
  <1> DEFINE D == {i \in DOMAIN made : made[i].dynamic}
  <1>1. /\ dynamicCount = Cardinality(D) /\ dynamicCount <= MaxDynamic
        /\ dynamicCount \in Nat /\ MapOK
    BY DEF RegistryInv, DynamicCapHolds, RegistryTypeOK
  <1>2. CASE Configures
    <2>1. D' = D
      <3> DEFINE k == Len(made) + 1
      <3>1. /\ DOMAIN made' = DOMAIN made \cup {k}
            /\ \A i \in DOMAIN made : made'[i] = made[i]
            /\ ~made'[k].dynamic
        BY <1>2, ConfiguresMap
      <3> HIDE DEF k
      <3> QED
        BY <3>1
    <2>2. dynamicCount' = dynamicCount
      BY <1>2 DEF Configures
    <2> QED
      BY <1>1, <2>1, <2>2 DEF DynamicCapHolds
  <1>3. CASE MapStays
    BY <1>1, <1>3 DEF MapStays, DynamicCapHolds
  <1>4. ASSUME NEW c \in Callers, Creates(c) PROVE DynamicCapHolds'
    <2> DEFINE k == Len(made) + 1
    <2>1. /\ DOMAIN made' = DOMAIN made \cup {k} /\ k \notin DOMAIN made
          /\ \A i \in DOMAIN made : made'[i] = made[i]
          /\ made'[k].dynamic = TRUE
      BY <1>4, CreatesMap
    <2> HIDE DEF k
    <2>2. D' = D \cup {k} /\ k \notin D
      BY <2>1
    <2>3. IsFiniteSet(D)
      <3>1. DOMAIN made = 1 .. Len(made) /\ Len(made) \in Nat
        BY <1>1 DEF MapOK
      <3>2. IsFiniteSet(1 .. Len(made))
        BY <3>1, FS_Interval
      <3>3. D \subseteq 1 .. Len(made)
        BY <3>1
      <3> QED
        BY <3>2, <3>3, FS_Subset
    <2> HIDE DEF D
    <2>4. Cardinality(D') = Cardinality(D) + 1
      BY <2>2, <2>3, FS_AddElement
    <2>5. dynamicCount' = dynamicCount + 1 /\ dynamicCount < MaxDynamic
      BY <1>4 DEF Creates
    <2>6. dynamicCount' = Cardinality(D')
      BY <1>1, <2>4, <2>5
    <2>7. dynamicCount' <= MaxDynamic
      BY <1>1, <2>5, MaxDynamicAssumption
    <2> QED
      BY <2>6, <2>7 DEF DynamicCapHolds, D
  <1> QED
    BY <1>2, <1>3, <1>4, StepCases DEF Settles, Proceeds, Answers

(* Configured paths stay registered. *)
LEMMA ConfiguredStep ==
    ASSUME RegistryInv, [Next]_vars
    PROVE  ConfiguredInv'
  <1>1. MapOK /\ ConfiguredInv
    BY DEF RegistryInv, RegistryTypeOK
  <1>2. CASE Configures
    <2>1. /\ Registered' = Registered \cup {configs[Len(made) + 1].path}
          /\ ConfiguredPaths' = ConfiguredPaths \cup {configs[Len(made) + 1].path}
      BY <1>2, ConfiguresMap
    <2> QED
      BY <1>1, <1>2, <2>1 DEF ConfiguredInv, Configures
  <1>3. CASE Settles
    <2>1. Registered' = Registered /\ ConfiguredPaths' = ConfiguredPaths
      BY <1>1, <1>3, MapStaysOK DEF Settles
    <2> QED
      BY <1>1, <1>3, <2>1 DEF ConfiguredInv, Settles
  <1>4. ASSUME NEW c \in Callers, Proceeds(c) \/ Answers(c) PROVE ConfiguredInv'
    <2>1. Registered' = Registered /\ ConfiguredPaths' = ConfiguredPaths
      BY <1>1, <1>4, MapStaysOK DEF Proceeds, Answers
    <2> QED
      BY <1>1, <1>4, <2>1 DEF ConfiguredInv, Proceeds, Answers
  <1>5. ASSUME NEW c \in Callers, Creates(c), phase = "ready", UNCHANGED <<phase, stopAllAt>>
        PROVE  ConfiguredInv'
    <2>1. Registered' = Registered \cup {want[c]} /\ ConfiguredPaths' = ConfiguredPaths
      BY <1>5, CreatesMap, CreatesConfigured
    <2> QED
      BY <1>1, <1>5, <2>1 DEF ConfiguredInv
  <1> QED
    BY <1>2, <1>3, <1>4, <1>5, StepCases

(* A new dynamic endpoint copies the settings of its nearest registered ancestor,
   which are those of the nearest configured one already. *)
LEMMA InheritsStep ==
    ASSUME RegistryInv, [Next]_vars
    PROVE  InheritsNearestConfigured'
  <1>1. MapOK /\ ConfiguredInv /\ InheritsNearestConfigured /\ ConfiguredPaths \subseteq Registered
    BY DEF RegistryInv, RegistryTypeOK, ConfiguredInv
  <1>2. CASE Configures
    <2>1. Registered' = ConfiguredPaths'
      BY <1>1, <1>2, ConfiguresMap DEF ConfiguredInv, Configures
    <2> QED
      BY <2>1 DEF InheritsNearestConfigured
  <1>3. CASE MapStays
    <2>1. Registered' = Registered /\ ConfiguredPaths' = ConfiguredPaths
          /\ made' = made /\ endpoints' = endpoints
      BY <1>1, <1>3, MapStaysOK DEF MapStays
    <2> QED
      BY <1>1, <2>1 DEF InheritsNearestConfigured
  <1>4. ASSUME NEW c \in Callers, Creates(c) PROVE InheritsNearestConfigured'
    <2> DEFINE w == want[c]
               C == ConfiguredPaths
               k == Len(made) + 1
               parent == NearestIn(w, Registered)
    <2>1. /\ w \in Seq(STRING) /\ k \notin DOMAIN made
          /\ \A i \in DOMAIN made : made'[i] = made[i]
          /\ parent \in Registered
          /\ made'[k].settings = made[endpoints[parent]].settings
          /\ Registered' = Registered \cup {w}
          /\ endpoints'[w] = k
          /\ \A p \in Registered : endpoints'[p] = endpoints[p]
      BY <1>4, CreatesMap
    <2>2. w \notin Registered /\ AncestorsIn(w, Registered) # {}
      BY <1>4 DEF Creates
    <2>3. ConfiguredPaths' = C
      BY <1>4, CreatesConfigured
    <2>4. \A p \in Registered : endpoints[p] \in DOMAIN made /\ p \in Seq(STRING)
      BY <1>1 DEF MapOK
    <2>5. \A p \in Registered : made'[endpoints'[p]] = made[endpoints[p]]
      BY <2>1, <2>4
    <2>6. /\ parent \in C => AncestorsIn(w, C) # {} /\ NearestIn(w, C) = parent
          /\ (parent \notin C /\ AncestorsIn(parent, C) # {}) =>
                 AncestorsIn(w, C) # {} /\ NearestIn(w, C) = NearestIn(parent, C)
      BY <1>1, <2>1, <2>2, NearestThroughChain
    <2>7. \A p \in Registered \ C :
             /\ AncestorsIn(p, C) # {}
             /\ NearestIn(p, C) \in Registered
             /\ made[endpoints[p]].settings = made[endpoints[NearestIn(p, C)]].settings
      <3> SUFFICES ASSUME NEW p \in Registered \ C
                   PROVE  /\ AncestorsIn(p, C) # {}
                          /\ NearestIn(p, C) \in Registered
                          /\ made[endpoints[p]].settings =
                               made[endpoints[NearestIn(p, C)]].settings
        OBVIOUS
      <3>1. /\ AncestorsIn(p, C) # {}
            /\ made[endpoints[p]].settings = made[endpoints[NearestIn(p, C)]].settings
        BY <1>1 DEF InheritsNearestConfigured
      <3>2. NearestIn(p, C) \in C
        BY <2>4, <3>1, NearestIsLongest
      <3> QED
        BY <1>1, <3>1, <3>2
    <2> HIDE DEF w, k, C, parent
    <2>8. /\ AncestorsIn(w, C) # {} /\ NearestIn(w, C) \in Registered
          /\ made[endpoints[parent]].settings = made[endpoints[NearestIn(w, C)]].settings
      <3>1. CASE parent \in C
        BY <2>1, <2>6, <3>1
      <3>2. CASE parent \notin C
        BY <2>1, <2>6, <2>7, <3>2
      <3> QED
        BY <3>1, <3>2
    <2>9. \A p \in Registered' \ C :
             /\ AncestorsIn(p, C) # {}
             /\ made'[endpoints'[p]].settings = made'[endpoints'[NearestIn(p, C)]].settings
      <3> SUFFICES ASSUME NEW p \in Registered' \ C
                   PROVE  /\ AncestorsIn(p, C) # {}
                          /\ made'[endpoints'[p]].settings =
                               made'[endpoints'[NearestIn(p, C)]].settings
        OBVIOUS
      <3>1. CASE p = w
        BY <2>1, <2>5, <2>8, <3>1
      <3>2. CASE p \in Registered
        BY <2>5, <2>7, <3>2
      <3> QED
        BY <2>1, <3>1, <3>2
    <2> QED
      BY <2>3, <2>9 DEF InheritsNearestConfigured, C
  <1> QED
    BY <1>2, <1>3, <1>4, StepCases DEF Settles, Proceeds, Answers

(* What a caller was told stays right: an answer without an endpoint rules out
   any later ancestor, and an answer at the cap any later endpoint. *)
LEMMA DoneStep ==
    ASSUME RegistryInv, [Next]_vars
    PROVE  DoneInv'
  <1>1. MapOK /\ CallersOK /\ DoneInv
    BY DEF RegistryInv, RegistryTypeOK
  <1> DEFINE Told(d) == ToldExact(d) \/ ToldNothing(d) \/ ToldParent(d)
  <1>2. CASE Configures
    <2>1. \A d \in Callers : cpc'[d] = "idle"
      BY <1>1, <1>2 DEF Configures, CallersOK, callerVars
    <2> QED
      BY <2>1 DEF DoneInv
  <1>3. ASSUME MapStays, NEW d \in Callers, Told(d), want'[d] = want[d], got'[d] = got[d]
        PROVE  Told(d)'
    BY <1>3 DEF MapStays, ToldExact, ToldNothing, ToldParent, FindParent, Registered
  <1>4. CASE Settles
    <2> SUFFICES ASSUME NEW d \in Callers, cpc'[d] = "done" PROVE Told(d)'
      BY DEF DoneInv
    <2>1. Told(d) /\ want'[d] = want[d] /\ got'[d] = got[d]
      BY <1>1, <1>4 DEF DoneInv, Settles, callerVars
    <2> QED
      BY <1>3, <1>4, <2>1 DEF Settles
  <1>5. ASSUME NEW c \in Callers, Proceeds(c) PROVE DoneInv'
    <2> SUFFICES ASSUME NEW d \in Callers, cpc'[d] = "done" PROVE Told(d)'
      BY DEF DoneInv
    <2>1. d # c /\ cpc[d] = "done" /\ want'[d] = want[d] /\ got'[d] = got[d]
      BY <1>1, <1>5 DEF Proceeds, CallersOK
    <2> QED
      BY <1>1, <1>3, <1>5, <2>1 DEF Proceeds, DoneInv
  <1>6. ASSUME NEW c \in Callers, Answers(c) PROVE DoneInv'
    <2> SUFFICES ASSUME NEW d \in Callers, cpc'[d] = "done" PROVE Told(d)'
      BY DEF DoneInv
    <2>1. CASE d # c
      <3>1. cpc[d] = "done" /\ want'[d] = want[d] /\ got'[d] = got[d]
        BY <1>1, <1>6, <2>1 DEF Answers, Finish, CallersOK
      <3> QED
        BY <1>1, <1>3, <1>6, <3>1 DEF Answers, DoneInv
    <2>2. CASE d = c
      <3>1. \A ep : Finish(c, ep) => got'[c] = ep /\ want'[c] = want[c]
        BY <1>1 DEF Finish, CallersOK
      <3>2. /\ Registered' = Registered /\ endpoints' = endpoints /\ dynamicCount' = dynamicCount
            /\ FindParent(want[c])' = FindParent(want'[c])
        BY <1>6 DEF Answers, MapStays, Registered, FindParent
      <3>3. want'[c] = want[c]
        BY <1>6, <3>1 DEF Answers
      <3> QED
        BY <1>6, <2>2, <3>1, <3>2, <3>3
           DEF Answers, ToldExact, ToldNothing, ToldParent, FindParent
    <2> QED
      BY <2>1, <2>2
  <1>7. ASSUME NEW c \in Callers, Creates(c) PROVE DoneInv'
    <2> SUFFICES ASSUME NEW d \in Callers, cpc'[d] = "done" PROVE Told(d)'
      BY DEF DoneInv
    <2>1. /\ want[c] \in Seq(STRING) /\ want[d] \in Seq(STRING)
          /\ Registered' = Registered \cup {want[c]}
          /\ endpoints'[want[c]] = Len(made) + 1
          /\ \A p \in Registered : endpoints'[p] = endpoints[p]
      BY <1>1, <1>7, CreatesMap DEF CallersOK
    <2>2. /\ want[c] \notin Registered /\ AncestorsIn(want[c], Registered) # {}
          /\ dynamicCount < MaxDynamic /\ Finish(c, Len(made) + 1)
      BY <1>7 DEF Creates
    <2>3. want' = want
      BY <2>2 DEF Finish
    <2>4. CASE d = c
      <3>1. got'[c] = Len(made) + 1
        BY <1>1, <2>2 DEF Finish, CallersOK
      <3>2. want'[c] \in Registered'
        BY <2>1, <2>3
      <3> QED
        BY <2>1, <2>3, <2>4, <3>1, <3>2 DEF ToldExact
    <2>5. CASE d # c
      <3>1. cpc[d] = "done" /\ got'[d] = got[d]
        BY <1>1, <2>2, <2>5 DEF Finish, CallersOK
      <3>2. Told(d)
        BY <1>1, <3>1 DEF DoneInv
      <3>3. CASE ToldExact(d)
        <4>1. want'[d] \in Registered' /\ got'[d] = endpoints'[want'[d]]
          BY <2>1, <2>3, <3>1, <3>3 DEF ToldExact
        <4> QED
          BY <4>1 DEF ToldExact
      <3>4. CASE ToldNothing(d)
        <4>1. want[d] # want[c]
          BY <2>2, <3>4 DEF ToldNothing
        <4>2. ASSUME NEW n \in AncestorsIn(want[d], Registered') PROVE FALSE
          <5>1. n \in 0 .. Len(want[d]) - 1 /\ SubSeq(want[d], 1, n) \in Registered'
                /\ SubSeq(want[d], 1, n) \notin Registered
            BY <3>4, <4>2 DEF AncestorsIn, ToldNothing
          <5>2. SubSeq(want[d], 1, n) = want[c]
            BY <2>1, <5>1
          <5>3. AncestorsIn(SubSeq(want[d], 1, n), Registered) =
                   {m \in AncestorsIn(want[d], Registered) : m < n}
            BY <2>1, <5>1, AncestorsInherited, Zenon
          <5> QED
            BY <2>2, <3>4, <5>2, <5>3 DEF ToldNothing
        <4>3. AncestorsIn(want[d], Registered') = {}
          BY <4>2
        <4>4. want'[d] \notin Registered' /\ AncestorsIn(want'[d], Registered') = {} /\ got'[d] = 0
          BY <2>1, <2>3, <3>1, <3>4, <4>1, <4>3 DEF ToldNothing
        <4> QED
          BY <4>4 DEF ToldNothing
      <3>5. CASE ToldParent(d)
        <4>1. dynamicCount = MaxDynamic
          BY <3>5 DEF ToldParent
        <4> QED
          BY <2>2, <4>1, MaxDynamicAssumption
      <3> QED
        BY <3>2, <3>3, <3>4, <3>5
    <2> QED
      BY <2>4, <2>5
  <1> QED
    BY <1>2, <1>4, <1>5, <1>6, <1>7, StepCases

(* A registry about to be built. *)
LEMMA RegistryInitInv == Init => RegistryInv
  <1> SUFFICES ASSUME Init PROVE RegistryInv
    OBVIOUS
  <1>1. /\ made = <<>> /\ made \in Seq(EndpointRecords) /\ Len(made) = 0 /\ DOMAIN made = {}
        /\ Registered = {} /\ endpoints \in [{} -> {}]
    BY DEF Init, Registered
  <1>2. ConfiguredPaths = {} /\ {i \in DOMAIN made : made[i].dynamic} = {}
    BY <1>1 DEF ConfiguredPaths
  <1>3. Root \in Seq(STRING)
    BY DEF Root
  <1>4. MapOK
    BY <1>1 DEF Init, MapOK
  <1>5. CallersOK
    BY <1>1, <1>3 DEF Init, CallersOK
  <1>6. RegistryTypeOK
    BY <1>1, <1>4, <1>5 DEF Init, RegistryTypeOK
  <1>7. DynamicCapHolds
    BY <1>2, FS_EmptySet, MaxDynamicAssumption DEF Init, DynamicCapHolds
  <1>8. ConfiguredInv /\ InheritsNearestConfigured
    BY <1>1, <1>2 DEF Init, ConfiguredInv, InheritsNearestConfigured
  <1>9. DoneInv
    BY DEF Init, DoneInv
  <1> QED
    BY <1>6, <1>7, <1>8, <1>9 DEF RegistryInv

(* RegistryInv is inductive. *)
LEMMA RegistryStepInv == RegistryInv /\ [Next]_vars => RegistryInv'
  BY RegistryTypeStep, CapStep, ConfiguredStep, InheritsStep, DoneStep DEF RegistryInv

(* It says of two callers of the same path that they share an endpoint, and that
   only the cap sends a caller to an ancestor. *)
LEMMA DoneMeansShared == RegistryInv => SamePathSameEndpoint /\ FallbackOnlyAtCap
  <1> SUFFICES ASSUME RegistryInv PROVE SamePathSameEndpoint /\ FallbackOnlyAtCap
    OBVIOUS
  <1>1. \A c \in Callers : cpc[c] = "done" => ToldExact(c) \/ ToldNothing(c) \/ ToldParent(c)
    BY DEF RegistryInv, DoneInv
  <1>2. \A p \in Registered : made[endpoints[p]].path = p
    BY DEF RegistryInv, RegistryTypeOK, MapOK
  <1>3. SamePathSameEndpoint
    BY <1>1 DEF SamePathSameEndpoint, ToldExact, ToldNothing, ToldParent
  <1>4. FallbackOnlyAtCap
    BY <1>1, <1>2 DEF FallbackOnlyAtCap, ToldExact, ToldNothing, ToldParent
  <1> QED
    BY <1>3, <1>4

(* Match's double-checked creation counts each dynamic endpoint once and stops at
   the cap, for any number of racing callers. *)
THEOREM CapHolds == Spec => []DynamicCapHolds
  <1>1. RegistryInv => DynamicCapHolds
    BY DEF RegistryInv
  <1> QED
    BY <1>1, RegistryInitInv, RegistryStepInv, PTL DEF Spec

(* Dynamic endpoints get the settings of their nearest configured ancestor,
   through chains of dynamic endpoints of any length. *)
THEOREM SettingsInherited == Spec => []InheritsNearestConfigured
  <1>1. RegistryInv => InheritsNearestConfigured
    BY DEF RegistryInv
  <1> QED
    BY <1>1, RegistryInitInv, RegistryStepInv, PTL DEF Spec

(* Two callers that Match sent somewhere for the same path share that endpoint. *)
THEOREM OnePathOneEndpoint == Spec => []SamePathSameEndpoint
  BY DoneMeansShared, RegistryInitInv, RegistryStepInv, PTL DEF Spec

(* Match falls back to an ancestor only when no dynamic endpoint may be created. *)
THEOREM FallbackNeedsCap == Spec => []FallbackOnlyAtCap
  BY DoneMeansShared, RegistryInitInv, RegistryStepInv, PTL DEF Spec

-----------------------------------------------------------------------------
(* StopAll.  The map may forget an endpoint when a configuration names a path
   twice, which validateEndpoints does not refuse; without that it never does. *)

(* Every endpoint stays in the map while the paths of a configuration differ. *)
LEMMA EveryoneMappedStep ==
    ASSUME DistinctPaths, RegistryInv, EveryoneMapped, [Next]_vars
    PROVE  EveryoneMapped'
  <1>1. /\ MapOK /\ configs \in ConfigLists /\ Len(made) \in Nat
        /\ DOMAIN made = 1 .. Len(made)
        /\ configs \in Seq([path : Seq(STRING), settings : [Fields -> Nat]])
    <2>1. MapOK /\ configs \in ConfigLists
      BY DEF RegistryInv, RegistryTypeOK
    <2>2. made \in Seq(EndpointRecords)
      BY <2>1 DEF MapOK
    <2>3. Len(made) \in Nat /\ DOMAIN made = 1 .. Len(made)
      BY <2>2
    <2> QED
      BY <2>1, <2>3, ConfigListsAssumption
  <1>2. CASE Configures
    <2> DEFINE k == Len(made) + 1
               path == configs[k].path
    <2>1. /\ DOMAIN made' = DOMAIN made \cup {k} /\ Len(made') = k
          /\ \A i \in DOMAIN made : made'[i] = made[i]
          /\ made'[k].path = path
          /\ Registered' = Registered \cup {path}
          /\ endpoints'[path] = k
          /\ \A p \in Registered : p # path => endpoints'[p] = endpoints[p]
      BY <1>2, ConfiguresMap
    <2>2. Len(made) < Len(configs) /\ Len(configs) \in Nat /\ DOMAIN configs = 1 .. Len(configs)
          /\ configs' = configs /\ phase = "building"
      BY <1>1, <1>2 DEF Configures
    <2>3. \A i \in DOMAIN made : i \in DOMAIN configs /\ i # k
      BY <1>1, <2>2
    <2>4. k \in DOMAIN configs /\ k <= Len(configs)
      BY <1>1, <2>2
    <2> HIDE DEF k
    <2>5. \A i \in DOMAIN made : made[i].path # path
      <3> SUFFICES ASSUME NEW i \in DOMAIN made, made[i].path = path PROVE FALSE
        OBVIOUS
      <3>1. configs[i].path = configs[k].path
        BY <2>2 DEF EveryoneMapped
      <3>2. i = k
        BY <1>1, <2>3, <2>4, <3>1 DEF DistinctPaths
      <3> QED
        BY <2>3, <3>2
    <2>6. \A i \in DOMAIN made' : made'[i].path \in Registered' /\ endpoints'[made'[i].path] = i
      <3> SUFFICES ASSUME NEW i \in DOMAIN made'
                   PROVE  made'[i].path \in Registered' /\ endpoints'[made'[i].path] = i
        OBVIOUS
      <3>1. CASE i = k
        BY <2>1, <3>1
      <3>2. CASE i \in DOMAIN made
        <4>1. made[i].path \in Registered /\ endpoints[made[i].path] = i /\ made'[i] = made[i]
          BY <2>1, <3>2 DEF EveryoneMapped
        <4> QED
          BY <2>1, <2>5, <3>2, <4>1
      <3> QED
        BY <2>1, <3>1, <3>2
    <2>7. \A i \in DOMAIN made' : made'[i].path = configs'[i].path
      BY <2>1, <2>2 DEF EveryoneMapped
    <2> QED
      BY <2>1, <2>2, <2>4, <2>6, <2>7 DEF EveryoneMapped
  <1>3. CASE Settles
    BY <1>3 DEF Settles, MapStays, EveryoneMapped, Registered
  <1>4. ASSUME NEW c \in Callers, Proceeds(c) \/ Answers(c) PROVE EveryoneMapped'
    BY <1>4 DEF Proceeds, Answers, MapStays, EveryoneMapped, Registered
  <1>5. ASSUME NEW c \in Callers, Creates(c), phase = "ready", phase' = phase
        PROVE  EveryoneMapped'
    <2> DEFINE k == Len(made) + 1
    <2>1. /\ DOMAIN made' = DOMAIN made \cup {k}
          /\ \A i \in DOMAIN made : made'[i] = made[i]
          /\ made'[k].path = want[c]
          /\ Registered' = Registered \cup {want[c]}
          /\ endpoints'[want[c]] = k
          /\ \A p \in Registered : endpoints'[p] = endpoints[p]
      BY <1>5, CreatesMap
    <2> HIDE DEF k
    <2>2. \A i \in DOMAIN made' : made'[i].path \in Registered' /\ endpoints'[made'[i].path] = i
      BY <2>1 DEF EveryoneMapped
    <2> QED
      BY <1>5, <2>2 DEF EveryoneMapped
  <1> QED
    BY <1>2, <1>3, <1>4, <1>5, StepCases

(* What a step does to running, made and stopAllAt. *)
LEMMA RunningCases ==
    ASSUME RegistryInv, [Next]_vars
    PROVE  \/ /\ running' = running \cup {Len(made) + 1} /\ stopAllAt' = stopAllAt
              /\ DOMAIN made' = DOMAIN made \cup {Len(made) + 1}
           \/ UNCHANGED <<made, running, stopAllAt>>
           \/ /\ running' = running \ {endpoints[p] : p \in Registered}
              /\ stopAllAt' = Len(made)
  <1>1. CASE Configures
    BY <1>1, ConfiguresMap DEF Configures
  <1>2. CASE Settles
    BY <1>2 DEF Settles, MapStays
  <1>3. ASSUME NEW c \in Callers, Proceeds(c) \/ Answers(c)
        PROVE  UNCHANGED <<made, running, stopAllAt>>
    BY <1>3 DEF Proceeds, Answers, MapStays
  <1>4. ASSUME NEW c \in Callers, Creates(c)
        PROVE  /\ running' = running \cup {Len(made) + 1}
               /\ DOMAIN made' = DOMAIN made \cup {Len(made) + 1}
    BY <1>4, CreatesMap
  <1> QED
    BY <1>1, <1>2, <1>3, <1>4, StepCases

(* Nothing but StopAll stops an endpoint. *)
LEMMA RunningStep ==
    ASSUME RegistryInv, RunningInv, [Next]_vars
    PROVE  RunningInv'
  <1>1. Len(made) \in Nat
    BY DEF RegistryInv, RegistryTypeOK, MapOK
  <1>2. Len(made) # -1
    BY <1>1
  <1>3. CASE running' = running \cup {Len(made) + 1} /\ stopAllAt' = stopAllAt
             /\ DOMAIN made' = DOMAIN made \cup {Len(made) + 1}
    BY <1>3 DEF RunningInv
  <1>4. CASE UNCHANGED <<made, running, stopAllAt>>
    BY <1>4 DEF RunningInv
  <1>5. CASE stopAllAt' = Len(made)
    BY <1>2, <1>5 DEF RunningInv
  <1> QED
    BY <1>3, <1>4, <1>5, RunningCases

(* Stopping what is in the map stops every endpoint there is. *)
LEMMA StopInvStep ==
    ASSUME RegistryInv, EveryoneMapped, StopInv, [Next]_vars
    PROVE  StopInv'
  <1>1. /\ Len(made) \in Nat /\ stopAllAt \in Int /\ stopAllAt <= Len(made)
        /\ running \subseteq DOMAIN made
    BY DEF RegistryInv, RegistryTypeOK, MapOK
  <1>2. CASE running' = running \ {endpoints[p] : p \in Registered}
    <2>1. DOMAIN made \subseteq {endpoints[p] : p \in Registered}
      BY DEF EveryoneMapped
    <2>2. running' = {}
      BY <1>1, <1>2, <2>1
    <2> QED
      BY <2>2 DEF StopInv
  <1>3. CASE UNCHANGED <<made, running, stopAllAt>>
    BY <1>3 DEF StopInv
  <1>4. CASE running' = running \cup {Len(made) + 1} /\ stopAllAt' = stopAllAt
    <2>1. Len(made) + 1 \notin 1 .. stopAllAt
      BY <1>1
    <2> QED
      BY <1>4, <2>1 DEF StopInv
  <1> QED
    BY <1>2, <1>3, <1>4, RunningCases

(* Before the build nothing runs. *)
LEMMA StopInitInv == Init => EveryoneMapped /\ RunningInv /\ StopInv
  <1> SUFFICES ASSUME Init PROVE EveryoneMapped /\ RunningInv /\ StopInv
    OBVIOUS
  <1>1. made = <<>> /\ DOMAIN made = {} /\ Len(made) = 0 /\ running = {} /\ stopAllAt = -1
    BY DEF Init
  <1>2. configs \in Seq([path : Seq(STRING), settings : [Fields -> Nat]])
    BY ConfigListsAssumption DEF Init
  <1>3. Len(configs) \in Nat
    BY <1>2
  <1> QED
    BY <1>1, <1>3 DEF EveryoneMapped, RunningInv, StopInv

(***************************************************************************)
(* Part II: the server.                                                    *)
(***************************************************************************)

-----------------------------------------------------------------------------
(* The inductive invariant of the HTTP side. *)

(* Where the connection of c stands, and where its caller stands in Match. *)
ConnOK(c) ==
    /\ conn[c] \in {"none", "new", "match", "handle", "reply", "over"}
    /\ cpc[c] \in {"fast", "slow"} => conn[c] = "match"
    /\ conn[c] = "handle" => cpc[c] = "done" /\ got[c] # 0
    /\ conn[c] # "none" => phase = "ready"

HttpInv ==
    /\ conn \in [Callers -> {"none", "new", "match", "handle", "reply", "over"}]
    /\ reply \in [Callers -> {"none", "notFound", "handled", "unavailable"}]
    /\ \A c \in Callers : ConnOK(c)

(* s.activeRequests counts the handlers between Add and Done. *)
Handling == {c \in Callers : conn[c] = "handle"}
ActiveInv == active = Cardinality(Handling)

Waited == {"wait", "stop", "stopped", "exited"}

ShutdownInv ==
    /\ spc \in {"serving", "http"} \cup Waited
    /\ timedOut \in BOOLEAN
    /\ late \subseteq Callers
    /\ spc # "serving" => phase = "ready"
    /\ (phase # "failed" /\ spc \notin {"stopped", "exited"}) => stopAllAt = -1

(* http.Shutdown returned in time only once every connection was over. *)
DrainedInv ==
    (spc \in Waited /\ timedOut = FALSE) => \A c \in Callers : conn[c] \in {"none", "over"}

(* A handler that runs after Wait was counted after it. *)
LateInv ==
    \A c \in Callers :
        /\ (spc \in {"stop", "stopped", "exited"} /\ conn[c] = "handle") =>
               c \in late /\ timedOut = TRUE
        /\ reply[c] = "unavailable" => c \in late /\ timedOut = TRUE

ServerInv ==
    /\ RegistryInv
    /\ RunningInv
    /\ HttpInv
    /\ ActiveInv
    /\ ShutdownInv
    /\ DrainedInv
    /\ LateInv

-----------------------------------------------------------------------------
(* Every step of the server is a step of the registry or leaves it alone. *)
LEMMA ServerStepsRegistry ==
    ASSUME [ServerNext]_serverVars
    PROVE  [Next]_vars
  <1>1. CASE Setup
    BY <1>1 DEF Setup, Next
  <1>2. ASSUME NEW c \in Callers, Request(c) PROVE Next
    BY <1>2 DEF Request, Next
  <1>3. ASSUME NEW c \in Callers, Match(c) PROVE Next
    BY <1>3 DEF Match, Next
  <1>4. ASSUME NEW c \in Callers,
               Accept(c) \/ NotFound(c) \/ Count(c) \/ Handle(c) \/ Flush(c) \/ CloseIdle(c)
        PROVE  UNCHANGED vars
    BY <1>4 DEF Accept, NotFound, Count, Handle, Finished, Flush, CloseIdle
  <1>5. CASE StopEndpoints
    BY <1>5 DEF StopEndpoints, Next
  <1>6. CASE Shutdown \/ HttpReturn \/ HttpTimeout \/ WaitReturn \/ Exit
    BY <1>6 DEF Shutdown, HttpReturn, HttpTimeout, WaitReturn, Exit
  <1>7. CASE UNCHANGED serverVars
    BY <1>7 DEF serverVars
  <1> QED
    BY <1>1, <1>2, <1>3, <1>4, <1>5, <1>6, <1>7 DEF ServerNext, HandlerStep, ShutdownStep

(* A connection moves along. *)
ConnMoves(c) ==
    \/ Accept(c) \/ Request(c) \/ NotFound(c) \/ Count(c)
    \/ Handle(c) \/ Flush(c) \/ CloseIdle(c)

(* The steps, by what they do to the connections. *)
LEMMA ServerStepCases ==
    ASSUME [ServerNext]_serverVars
    PROVE  \/ Setup
           \/ \E c \in Callers : ConnMoves(c)
           \/ \E c \in Callers : Match(c)
           \/ Shutdown \/ HttpReturn \/ HttpTimeout \/ WaitReturn \/ StopEndpoints \/ Exit
           \/ UNCHANGED serverVars
  BY DEF ServerNext, HandlerStep, ShutdownStep, ConnMoves

(* Connections and callers stay in step. *)
LEMMA HttpStep ==
    ASSUME ServerInv, [ServerNext]_serverVars
    PROVE  HttpInv'
  <1>1. /\ HttpInv /\ CallersOK
        /\ conn \in [Callers -> {"none", "new", "match", "handle", "reply", "over"}]
        /\ reply \in [Callers -> {"none", "notFound", "handled", "unavailable"}]
        /\ \A c \in Callers : ConnOK(c)
        /\ cpc \in [Callers -> {"idle", "fast", "slow", "done"}]
        /\ got \in [Callers -> 0 .. Len(made)]
    BY DEF ServerInv, RegistryInv, RegistryTypeOK, HttpInv, CallersOK
  <1>2. CASE Setup
    <2>1. phase = "building" /\ UNCHANGED <<cpc, got, conn, reply>>
      BY <1>2 DEF Setup, Build, Built, callerVars, httpVars
    <2> QED
      BY <1>1, <2>1 DEF HttpInv, ConnOK
  <1>3. ASSUME NEW c \in Callers, ConnMoves(c) PROVE HttpInv'
    <2>1. phase' = phase
      BY <1>3 DEF ConnMoves, Accept, Request, NotFound, Count, Handle, Finished, Flush,
                  CloseIdle, Ask, vars
    <2>2. reply' \in [Callers -> {"none", "notFound", "handled", "unavailable"}]
      BY <1>1, <1>3 DEF ConnMoves, Accept, Request, NotFound, Count, Handle, Finished, Flush,
                  CloseIdle
    <2>3. conn' \in [Callers -> {"none", "new", "match", "handle", "reply", "over"}]
      BY <1>1, <1>3, SMTT(30)
      DEF ConnMoves, Accept, Request, NotFound, Count, Handle, Finished, Flush,
          CloseIdle, Move
    <2>4. \A d \in Callers \ {c} : conn'[d] = conn[d] /\ cpc'[d] = cpc[d] /\ got'[d] = got[d]
      BY <1>1, <1>3 DEF ConnMoves, Accept, Request, NotFound, Count, Handle, Finished, Flush,
                  CloseIdle, Move, Ask, vars
    <2>5. ConnOK(c)'
      <3>0. ConnOK(c)
        BY <1>1
      <3>1. CASE Accept(c)
        BY <1>1, <3>0, <3>1 DEF Accept, Move, vars, ConnOK
      <3>2. CASE Request(c)
        BY <1>1, <3>0, <3>2 DEF Request, Move, Ask, ConnOK
      <3>3. CASE NotFound(c)
        BY <1>1, <3>0, <3>3 DEF NotFound, Move, vars, ConnOK
      <3>4. CASE Count(c)
        BY <1>1, <3>0, <3>4 DEF Count, Move, vars, ConnOK
      <3>5. CASE Handle(c)
        BY <1>1, <3>0, <3>5 DEF Handle, Finished, Move, vars, ConnOK
      <3>6. CASE Flush(c)
        BY <1>1, <3>0, <3>6 DEF Flush, Move, vars, ConnOK
      <3>7. CASE CloseIdle(c)
        BY <1>1, <3>0, <3>7 DEF CloseIdle, Move, vars, ConnOK
      <3> QED
        BY <1>3, <3>1, <3>2, <3>3, <3>4, <3>5, <3>6, <3>7 DEF ConnMoves
    <2>6. \A d \in Callers \ {c} : ConnOK(d)'
      BY <1>1, <2>1, <2>4 DEF ConnOK
    <2> QED
      BY <2>2, <2>3, <2>5, <2>6 DEF HttpInv
  <1>4. ASSUME NEW c \in Callers, Match(c) PROVE HttpInv'
    <2>1. UNCHANGED <<conn, reply, phase>>
      BY <1>4 DEF Match, MatchFast, MatchSlow, httpVars
    <2>2. /\ cpc[c] \in {"fast", "slow"} /\ cpc'[c] \in {"slow", "done"}
          /\ \A d \in Callers \ {c} : cpc'[d] = cpc[d] /\ got'[d] = got[d]
      BY <1>1, <1>4 DEF Match, MatchFast, MatchSlow, CreateUnder, Finish
    <2>3. conn[c] = "match"
      BY <1>1, <2>2 DEF ConnOK
    <2>4. \A d \in Callers : ConnOK(d)'
      BY <1>1, <2>1, <2>2, <2>3 DEF ConnOK
    <2> QED
      BY <1>1, <2>1, <2>4 DEF HttpInv
  <1>5. CASE \/ Shutdown \/ HttpReturn \/ HttpTimeout \/ WaitReturn \/ StopEndpoints \/ Exit
             \/ UNCHANGED serverVars
    <2>1. UNCHANGED <<cpc, got, conn, reply, phase>>
      BY <1>5 DEF Shutdown, HttpReturn, HttpTimeout, WaitReturn, StopEndpoints, StopAll, Exit,
                  serverVars, vars, callerVars, httpVars
    <2> QED
      BY <1>1, <2>1 DEF HttpInv, ConnOK
  <1> QED
    BY <1>2, <1>3, <1>4, <1>5, ServerStepCases

(* The counter follows the handlers. *)
LEMMA ActiveStep ==
    ASSUME ServerInv, [ServerNext]_serverVars
    PROVE  ActiveInv'
  <1>1. /\ active = Cardinality(Handling)
        /\ conn \in [Callers -> {"none", "new", "match", "handle", "reply", "over"}]
    BY DEF ServerInv, ActiveInv, HttpInv
  <1>2. IsFiniteSet(Handling) /\ Cardinality(Handling) \in Nat
    <2>1. Handling \subseteq Callers
      BY DEF Handling
    <2> QED
      BY <2>1, CallersAssumption, FS_Subset, FS_CardinalityType
  <1>3. CASE UNCHANGED <<conn, active>>
    BY <1>1, <1>3 DEF ActiveInv, Handling
  <1>4. ASSUME NEW c \in Callers, ConnMoves(c) PROVE ActiveInv'
    <2>1. CASE Count(c)
      <3>1. conn[c] = "match" /\ conn' = [conn EXCEPT ![c] = "handle"] /\ active' = active + 1
        BY <2>1 DEF Count, Move
      <3>2. Handling' = Handling \cup {c} /\ c \notin Handling
        BY <1>1, <3>1 DEF Handling
      <3>3. Cardinality(Handling') = Cardinality(Handling) + 1
        BY <1>2, <3>2, FS_AddElement
      <3> QED
        BY <1>1, <3>1, <3>3 DEF ActiveInv
    <2>2. CASE Handle(c)
      <3>1. conn[c] = "handle" /\ conn' = [conn EXCEPT ![c] = "reply"] /\ active' = active - 1
        BY <2>2 DEF Handle, Finished, Move
      <3>2. Handling' = Handling \ {c} /\ c \in Handling
        BY <1>1, <3>1 DEF Handling
      <3>3. Cardinality(Handling') = Cardinality(Handling) - 1
        BY <1>2, <3>2, FS_RemoveElement
      <3> QED
        BY <1>1, <3>1, <3>3 DEF ActiveInv
    <2>3. CASE Accept(c) \/ Request(c) \/ NotFound(c) \/ Flush(c) \/ CloseIdle(c)
      <3>1. active' = active /\ conn[c] # "handle"
            /\ \E to \in {"new", "match", "reply", "over"} : conn' = [conn EXCEPT ![c] = to]
        BY <2>3 DEF Accept, Request, NotFound, Flush, CloseIdle, Move
      <3>2. Handling' = Handling
        BY <1>1, <3>1 DEF Handling
      <3> QED
        BY <1>1, <3>1, <3>2 DEF ActiveInv
    <2> QED
      BY <1>4, <2>1, <2>2, <2>3 DEF ConnMoves
  <1>5. CASE \/ Setup \/ Shutdown \/ HttpReturn \/ HttpTimeout \/ WaitReturn \/ StopEndpoints
             \/ Exit \/ UNCHANGED serverVars
    <2>1. UNCHANGED <<conn, active>>
      BY <1>5 DEF Setup, Shutdown, HttpReturn, HttpTimeout, WaitReturn, StopEndpoints, Exit,
                  serverVars, httpVars
    <2> QED
      BY <1>3, <2>1
  <1>6. ASSUME NEW c \in Callers, Match(c) PROVE UNCHANGED <<conn, active>>
    BY <1>6 DEF Match, httpVars
  <1> QED
    BY <1>3, <1>4, <1>5, <1>6, ServerStepCases

(* Shutdown only runs on a registry that was built, and StopAll only then. *)
LEMMA ShutdownStepInv ==
    ASSUME ServerInv, [ServerNext]_serverVars
    PROVE  ShutdownInv'
  <1>1. /\ ShutdownInv
        /\ phase \in {"building", "ready", "failed"}
        /\ phase = "building" => stopAllAt = -1
    BY DEF ServerInv, RegistryInv, RegistryTypeOK, ConfiguredInv
  <1>2. CASE Setup
    <2>1. /\ UNCHANGED <<spc, timedOut, late>> /\ phase = "building"
          /\ phase' # "failed" => stopAllAt' = stopAllAt
      BY <1>2 DEF Setup, Build, Built, shutdownVars, httpVars
    <2> QED
      BY <1>1, <2>1 DEF ShutdownInv
  <1>3. ASSUME NEW c \in Callers, ConnMoves(c) \/ Match(c) PROVE ShutdownInv'
    <2>1. UNCHANGED <<spc, timedOut, phase, stopAllAt>>
      BY <1>3 DEF ConnMoves, Accept, Request, NotFound, Count, Handle, Finished, Flush,
                  CloseIdle, Ask, vars, Match, MatchFast, MatchSlow, shutdownVars
    <2>2. late' \subseteq late \cup {c}
      BY <1>3 DEF ConnMoves, Accept, Request, NotFound, Count, Handle, Finished, Flush,
                  CloseIdle, Match, httpVars
    <2> QED
      BY <1>1, <2>1, <2>2 DEF ShutdownInv
  <1>4. CASE Shutdown \/ HttpReturn \/ HttpTimeout \/ WaitReturn
    <2>1. UNCHANGED <<phase, stopAllAt, late>>
          /\ timedOut' \in BOOLEAN /\ spc' \in {"http", "wait", "stop"}
          /\ phase = "ready" /\ spc \notin {"stopped", "exited"}
      BY <1>1, <1>4 DEF Shutdown, HttpReturn, HttpTimeout, WaitReturn, httpVars, vars,
                        ShutdownInv
    <2> QED
      BY <1>1, <2>1 DEF ShutdownInv, Waited
  <1>5. CASE StopEndpoints \/ Exit
    <2>1. UNCHANGED <<phase, late, timedOut>> /\ spc' \in {"stopped", "exited"}
          /\ phase = "ready"
      BY <1>1, <1>5 DEF StopEndpoints, StopAll, Exit, httpVars, vars, ShutdownInv
    <2> QED
      BY <1>1, <2>1 DEF ShutdownInv, Waited
  <1>6. CASE UNCHANGED serverVars
    BY <1>1, <1>6 DEF serverVars, shutdownVars, httpVars, vars, ShutdownInv
  <1> QED
    BY <1>2, <1>3, <1>4, <1>5, <1>6, ServerStepCases

(* Once http.Shutdown has returned in time no connection moves any more. *)
LEMMA DrainedStep ==
    ASSUME ServerInv, [ServerNext]_serverVars
    PROVE  DrainedInv'
  <1>1. DrainedInv /\ ShutdownInv /\ HttpInv
    BY DEF ServerInv
  <1> SUFFICES ASSUME spc' \in Waited, timedOut' = FALSE, NEW d \in Callers
               PROVE  conn'[d] \in {"none", "over"}
    BY DEF DrainedInv
  <1>2. CASE HttpReturn
    BY <1>2 DEF HttpReturn, httpVars
  <1>3. CASE HttpTimeout
    BY <1>3 DEF HttpTimeout
  <1>4. CASE Shutdown
    BY <1>4 DEF Shutdown, Waited
  <1>5. CASE Setup \/ WaitReturn \/ StopEndpoints \/ Exit \/ UNCHANGED serverVars
    <2>1. conn' = conn /\ timedOut' = timedOut /\ spc \in Waited
      BY <1>5 DEF Setup, WaitReturn, StopEndpoints, Exit, serverVars, shutdownVars, httpVars,
                  Waited
    <2> QED
      BY <1>1, <2>1 DEF DrainedInv
  <1>6. ASSUME NEW c \in Callers, Match(c) PROVE conn'[d] \in {"none", "over"}
    BY <1>1, <1>6 DEF Match, shutdownVars, httpVars, DrainedInv
  <1>7. ASSUME NEW c \in Callers, ConnMoves(c) PROVE FALSE
    <2>1. timedOut' = timedOut /\ spc' = spc
      BY <1>7 DEF ConnMoves, Accept, Request, NotFound, Count, Handle, Finished, Flush,
                  CloseIdle, shutdownVars
    <2>2. conn[c] \in {"none", "over"}
      BY <1>1, <2>1 DEF DrainedInv
    <2>3. spc \notin {"serving", "http"}
      BY <2>1 DEF Waited
    <2> QED
      BY <1>7, <2>2, <2>3 DEF ConnMoves, Accept, Request, NotFound, Count, Handle, Finished,
                  Flush, CloseIdle, Move
  <1> QED
    BY <1>2, <1>3, <1>4, <1>5, <1>6, <1>7, ServerStepCases

(* Only a request that was not counted when Wait returned can be handled after it,
   and only such a request can meet a stopped endpoint. *)
LEMMA LateStep ==
    ASSUME ServerInv, [ServerNext]_serverVars
    PROVE  LateInv'
  <1> DEFINE Stopping == {"stop", "stopped", "exited"}
  <1>1. /\ LateInv /\ DrainedInv /\ ShutdownInv /\ HttpInv /\ RunningInv /\ ActiveInv
        /\ conn \in [Callers -> {"none", "new", "match", "handle", "reply", "over"}]
        /\ reply \in [Callers -> {"none", "notFound", "handled", "unavailable"}]
        /\ timedOut \in BOOLEAN
    BY DEF ServerInv, HttpInv, ShutdownInv
  <1>2. ASSUME conn' = conn, reply' = reply, late' = late,
               timedOut = TRUE => timedOut' = TRUE,
               spc' \in Stopping => spc \in Stopping
        PROVE  LateInv'
    BY <1>1, <1>2 DEF LateInv
  <1>3. CASE Setup \/ Shutdown \/ HttpReturn \/ HttpTimeout \/ StopEndpoints \/ Exit
             \/ UNCHANGED serverVars
    BY <1>2, <1>3 DEF Setup, Shutdown, HttpReturn, HttpTimeout, StopEndpoints, Exit,
                      serverVars, shutdownVars, httpVars
  <1>4. ASSUME NEW c \in Callers, Match(c) PROVE LateInv'
    BY <1>2, <1>4 DEF Match, shutdownVars, httpVars
  <1>5. CASE WaitReturn
    <2>1. active = 0 /\ UNCHANGED <<conn, reply, late, timedOut>>
      BY <1>5 DEF WaitReturn, httpVars
    <2>2. IsFiniteSet(Handling)
      <3>1. Handling \subseteq Callers
        BY DEF Handling
      <3> QED
        BY <3>1, CallersAssumption, FS_Subset
    <2>3. Handling = {}
      BY <1>1, <2>1, <2>2, FS_EmptySet DEF ActiveInv
    <2> QED
      BY <1>1, <2>1, <2>3 DEF LateInv, Handling
  <1>6. ASSUME NEW c \in Callers, ConnMoves(c) PROVE LateInv'
    <2>1. timedOut' = timedOut /\ spc' = spc /\ late \subseteq late'
      BY <1>6 DEF ConnMoves, Accept, Request, NotFound, Count, Handle, Finished, Flush,
                  CloseIdle, shutdownVars
    <2>2. ASSUME NEW d \in Callers, d # c
          PROVE  conn'[d] = conn[d] /\ reply'[d] = reply[d]
      BY <1>1, <1>6, <2>2 DEF ConnMoves, Accept, Request, NotFound, Count, Handle, Finished,
                  Flush, CloseIdle, Move
    <2>3. (spc \in Stopping /\ conn'[c] = "handle") => c \in late' /\ timedOut = TRUE
      <3> SUFFICES ASSUME spc \in Stopping, conn'[c] = "handle"
                   PROVE  c \in late' /\ timedOut = TRUE
        OBVIOUS
      <3>1. Count(c)
        BY <1>1, <1>6 DEF ConnMoves, Accept, Request, NotFound, Handle, Finished, Flush,
                  CloseIdle, Move
      <3>2. spc # "exited" /\ conn[c] = "match"
        BY <3>1 DEF Count, Move, Alive
      <3>3. c \in late'
        BY <3>1, <3>2 DEF Count
      <3>4. timedOut = TRUE
        BY <1>1, <3>2 DEF DrainedInv, Waited
      <3> QED
        BY <3>3, <3>4
    <2>4. reply'[c] = "unavailable" => c \in late' /\ timedOut = TRUE
      <3>1. CASE reply'[c] = reply[c]
        BY <1>1, <2>1, <3>1 DEF LateInv
      <3>2. CASE reply'[c] = "unavailable" /\ reply'[c] # reply[c]
        <4>1. conn[c] = "handle" /\ got[c] \notin running /\ late' = late
          BY <1>1, <1>6, <3>2 DEF ConnMoves, Accept, Request, NotFound, Count, Handle,
                  Finished, Flush, CloseIdle, Move
        <4>2. got[c] \in 1 .. Len(made) /\ phase = "ready"
          <5>1. ConnOK(c)
            BY <1>1 DEF HttpInv
          <5>2. got[c] \in 0 .. Len(made) /\ made \in Seq(EndpointRecords)
            BY DEF ServerInv, RegistryInv, RegistryTypeOK, CallersOK, MapOK
          <5>3. got[c] # 0 /\ phase = "ready"
            BY <4>1, <5>1 DEF ConnOK
          <5> QED
            BY <5>2, <5>3
        <4>3. DOMAIN made = 1 .. Len(made)
          BY DEF ServerInv, RegistryInv, RegistryTypeOK, MapOK
        <4>4. stopAllAt # -1
          BY <1>1, <4>1, <4>2, <4>3 DEF RunningInv
        <4>5. spc \in Stopping
          BY <1>1, <4>2, <4>4 DEF ShutdownInv
        <4> QED
          BY <1>1, <4>1, <4>5 DEF LateInv
      <3> QED
        BY <3>1, <3>2
    <2>5. \A d \in Callers :
             /\ (spc' \in Stopping /\ conn'[d] = "handle") => d \in late' /\ timedOut' = TRUE
             /\ reply'[d] = "unavailable" => d \in late' /\ timedOut' = TRUE
      <3> SUFFICES ASSUME NEW d \in Callers
            PROVE
             /\ (spc' \in Stopping /\ conn'[d] = "handle") => d \in late' /\ timedOut' = TRUE
             /\ reply'[d] = "unavailable" => d \in late' /\ timedOut' = TRUE
        OBVIOUS
      <3>1. CASE d = c
        BY <2>1, <2>3, <2>4, <3>1
      <3>2. CASE d # c
        BY <1>1, <2>1, <2>2, <3>2 DEF LateInv
      <3> QED
        BY <3>1, <3>2
    <2> QED
      BY <2>5 DEF LateInv
  <1> QED
    BY <1>3, <1>4, <1>5, <1>6, ServerStepCases

(* A server about to be set up. *)
LEMMA ServerInitInv == ServerInit => ServerInv
  <1> SUFFICES ASSUME ServerInit PROVE ServerInv
    OBVIOUS
  <1>1. RegistryInv /\ RunningInv
    BY RegistryInitInv, StopInitInv DEF ServerInit
  <1>2. HttpInv
    BY DEF ServerInit, Init, HttpInv, ConnOK
  <1>3. ActiveInv
    <2>1. Handling = {} /\ active = 0
      BY DEF ServerInit, Handling
    <2> QED
      BY <2>1, FS_EmptySet DEF ActiveInv
  <1>4. ShutdownInv /\ DrainedInv /\ LateInv
    BY DEF ServerInit, Init, ShutdownInv, DrainedInv, LateInv, Waited
  <1> QED
    BY <1>1, <1>2, <1>3, <1>4 DEF ServerInv

(* ServerInv is inductive. *)
LEMMA ServerStepInv == ServerInv /\ [ServerNext]_serverVars => ServerInv'
  <1> SUFFICES ASSUME ServerInv, [ServerNext]_serverVars PROVE ServerInv'
    OBVIOUS
  <1>1. RegistryInv /\ RunningInv
    BY DEF ServerInv
  <1>2. RegistryInv' /\ RunningInv'
    BY <1>1, ServerStepsRegistry, RegistryStepInv, RunningStep
  <1> QED
    BY <1>2, HttpStep, ActiveStep, ShutdownStepInv, DrainedStep, LateStep DEF ServerInv

-----------------------------------------------------------------------------
(* The theorems. *)

(* Under the server, whatever the timing of its handlers and of Shutdown, the
   registry keeps the promises it makes on its own. *)
THEOREM RegistryUnderServer ==
    ServerSpec => [](/\ DynamicCapHolds
                     /\ InheritsNearestConfigured
                     /\ SamePathSameEndpoint
                     /\ FallbackOnlyAtCap)
  <1>1. RegistryInv => DynamicCapHolds /\ InheritsNearestConfigured
    BY DEF RegistryInv
  <1>2. ServerInv => RegistryInv
    BY DEF ServerInv
  <1>3. ServerSpec => ServerInit /\ [][ServerNext]_serverVars
    BY PTL DEF ServerSpec
  <1> QED
    BY <1>1, <1>2, <1>3, DoneMeansShared, ServerInitInv, ServerStepInv, PTL

(* Shutdown in time cuts no request off: it stops the endpoints after the last
   response, and only a request left in Match by an expired shutdown is told 503. *)
THEOREM DrainGraceful == ServerSpec => []DrainIsGraceful
  <1>1. ServerInv => DrainIsGraceful
    <2> SUFFICES ASSUME ServerInv PROVE DrainIsGraceful
      OBVIOUS
    <2>1. LateInv /\ DrainedInv /\ timedOut \in BOOLEAN
      BY DEF ServerInv, ShutdownInv
    <2>2. \A c \in Callers : reply[c] = "unavailable" => timedOut /\ c \in late
      BY <2>1 DEF LateInv
    <2>3. (spc \in {"stop", "stopped", "exited"} /\ ~timedOut) =>
              \A c \in Callers : conn[c] \in {"none", "over"}
      BY <2>1 DEF DrainedInv, Waited
    <2> QED
      BY <2>2, <2>3 DEF DrainIsGraceful
  <1>2. ServerSpec => ServerInit /\ [][ServerNext]_serverVars
    BY PTL DEF ServerSpec
  <1> QED
    BY <1>1, <1>2, ServerInitInv, ServerStepInv, PTL

(* After StopAll in a drain that ended in time no endpoint runs. *)
QuietInv == (spc \in {"stopped", "exited"} /\ timedOut = FALSE) => running = {}

(* StopAll leaves nothing running and nothing starts behind it. *)
LEMMA QuietStep ==
    ASSUME ServerInv, EveryoneMapped, QuietInv, [ServerNext]_serverVars
    PROVE  QuietInv'
  <1>1. /\ DrainedInv /\ ShutdownInv /\ HttpInv /\ RegistryInv
        /\ running \subseteq DOMAIN made
    BY DEF ServerInv, RegistryInv, RegistryTypeOK, MapOK
  <1>2. CASE StopEndpoints
    <2>1. running' = running \ {endpoints[p] : p \in Registered}
      BY <1>2 DEF StopEndpoints, StopAll
    <2>2. DOMAIN made \subseteq {endpoints[p] : p \in Registered}
      BY DEF EveryoneMapped
    <2>3. running' = {}
      BY <1>1, <2>1, <2>2
    <2> QED
      BY <2>3 DEF QuietInv
  <1>3. CASE Setup
    <2>1. spc = "serving" /\ spc' = spc
      BY <1>1, <1>3 DEF Setup, Build, Built, shutdownVars, ShutdownInv
    <2> QED
      BY <2>1 DEF QuietInv
  <1>4. CASE Shutdown \/ HttpReturn \/ HttpTimeout \/ WaitReturn
    BY <1>4 DEF Shutdown, HttpReturn, HttpTimeout, WaitReturn, QuietInv
  <1>5. CASE Exit \/ UNCHANGED serverVars
    BY <1>5 DEF Exit, serverVars, vars, shutdownVars, QuietInv
  <1>6. ASSUME NEW c \in Callers, ConnMoves(c) PROVE QuietInv'
    <2>1. UNCHANGED <<running, spc, timedOut>>
      BY <1>6 DEF ConnMoves, Accept, Request, NotFound, Count, Handle, Finished, Flush,
                  CloseIdle, Ask, vars, shutdownVars
    <2> QED
      BY <2>1 DEF QuietInv
  <1>7. ASSUME NEW c \in Callers, Match(c) PROVE QuietInv'
    <2>1. cpc[c] \in {"fast", "slow"} /\ UNCHANGED <<spc, timedOut>>
      BY <1>7 DEF Match, MatchFast, MatchSlow, shutdownVars
    <2>2. conn[c] = "match"
      BY <1>1, <2>1 DEF HttpInv, ConnOK
    <2>3. ~ (spc \in {"stopped", "exited"} /\ timedOut = FALSE)
      BY <1>1, <2>2 DEF DrainedInv, Waited
    <2> QED
      BY <2>1, <2>3 DEF QuietInv
  <1> QED
    BY <1>2, <1>3, <1>4, <1>5, <1>6, <1>7, ServerStepCases

(* StopAll stops every endpoint created before it, and a drain that ended in time
   leaves none running - provided no configuration names a path twice: the
   registry would forget the first of the two endpoints, and StopAll with it. *)
THEOREM StopAllStopsAll ==
    ASSUME DistinctPaths
    PROVE  ServerSpec => []NothingLeftRunning
  <1> DEFINE Inv == ServerInv /\ EveryoneMapped /\ StopInv /\ QuietInv
  <1>1. ServerInit => Inv
    <2> SUFFICES ASSUME ServerInit PROVE Inv
      OBVIOUS
    <2>1. EveryoneMapped /\ StopInv
      BY StopInitInv DEF ServerInit
    <2>2. QuietInv
      BY DEF ServerInit, QuietInv
    <2> QED
      BY <2>1, <2>2, ServerInitInv
  <1>2. Inv /\ [ServerNext]_serverVars => Inv'
    <2> SUFFICES ASSUME Inv, [ServerNext]_serverVars PROVE Inv'
      OBVIOUS
    <2>1. RegistryInv /\ [Next]_vars
      BY ServerStepsRegistry DEF ServerInv
    <2>2. EveryoneMapped'
      BY <2>1, EveryoneMappedStep
    <2>3. StopInv'
      BY <2>1, StopInvStep
    <2> QED
      BY <2>2, <2>3, QuietStep, ServerStepInv
  <1>3. Inv => NothingLeftRunning
    <2> SUFFICES ASSUME Inv PROVE NothingLeftRunning
      OBVIOUS
    <2>1. timedOut \in BOOLEAN
      BY DEF ServerInv, ShutdownInv
    <2>2. (spc \in {"stopped", "exited"} /\ ~timedOut) => running = {}
      BY <2>1 DEF QuietInv
    <2> QED
      BY <2>2 DEF NothingLeftRunning, StopInv
  <1>4. ServerSpec => ServerInit /\ [][ServerNext]_serverVars
    BY PTL DEF ServerSpec
  <1> QED
    BY <1>1, <1>2, <1>3, <1>4, PTL
=============================================================================
