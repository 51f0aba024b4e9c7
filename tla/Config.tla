------------------------------- MODULE Config -------------------------------
(***************************************************************************)
(* config/config.go and the start of main.go: from the configuration file  *)
(* to the endpoints the server is created with.                            *)
(*                                                                         *)
(* The settings of an endpoint are a function of the fields of             *)
(* EndpointConfig, with "" and 0 for a field that is not set.  Rates are   *)
(* integers; the host is left out.                                         *)
(***************************************************************************)
EXTENDS Integers, Sequences

CONSTANTS
    RawEndpoints,  \* the endpoint lists a file may hold
    RawDefaults,   \* the `defaults` sections it may hold
    Ports,         \* the ports it may name; 0: none
    FlagPorts      \* the values of --port; 0: not given

Named == {"scheduler", "algorithm", "unit", "overflow"}
(* The fields of Defaults that endpoints take over. *)
Defaulted == Named \cup {"maxQueueSize", "queueTimeout", "latencyCompensation",
                         "tokensPerWindow", "defaultTokens"}
Fields == Defaulted \cup {"rate", "burstSize", "windowSeconds"}
Unset(f) == IF f \in Named THEN "" ELSE 0

(* The fields of the struct; those that are not names are numbers. *)
Typed(settings, fields) ==
    /\ DOMAIN settings = fields
    /\ \A f \in fields \ Named : settings[f] \in Int

(* A list of EndpointConfig. *)
EndpointList(es) ==
    /\ es \in Seq({es[i] : i \in DOMAIN es})
    /\ \A i \in DOMAIN es :
        DOMAIN es[i] = {"path", "settings"} /\ Typed(es[i].settings, Fields)

ASSUME RawAssumption ==
    /\ \A d \in RawDefaults : Typed(d, Defaulted)
    /\ \A es \in RawEndpoints : EndpointList(es)

VARIABLES
    file,      \* the parsed file: port, defaults, endpoints
    flagPort,  \* the --port flag
    cfg,       \* the configuration as it is built up
    stage,     \* "load", "fallback", "start", "running" or "fatal"
    loaded     \* history: cfg comes from the file

vars == <<file, flagPort, cfg, stage, loaded>>

Init ==
    /\ file \in [port : Ports, defaults : RawDefaults, endpoints : RawEndpoints]
    /\ flagPort \in FlagPorts
    /\ cfg = file
    /\ stage = "load"
    /\ loaded = FALSE

-----------------------------------------------------------------------------
systemDefaults ==
    [f \in Defaulted |->
        CASE f = "scheduler"    -> "fifo"
          [] f = "algorithm"    -> "strict"
          [] f = "unit"         -> "rps"
          [] f = "overflow"     -> "reject"
          [] f = "maxQueueSize" -> 1000
          [] OTHER              -> 0]

(* The code lists the fields one by one in three places, here three sets: what
   mergeWithSystem assigns, ... *)
MergedFields == {"scheduler", "algorithm", "unit", "maxQueueSize", "overflow"}

mergeWithSystem(d) ==
    [f \in Defaulted |-> IF f \in MergedFields /\ d[f] = Unset(f) THEN systemDefaults[f]
                         ELSE d[f]]

(* ... what the inserted root copies besides its rate, ... *)
RootFields == {"unit", "scheduler", "algorithm", "maxQueueSize", "overflow"}

(* Mutant: one assignment of the loop is forgotten. *)
FilledFieldsWithoutTimeout ==
    {"unit", "scheduler", "algorithm", "maxQueueSize", "overflow",
     "latencyCompensation", "tokensPerWindow", "defaultTokens"}

(* ... and what the loop over the endpoints fills from the defaults. *)
FilledFields ==
    {"unit", "scheduler", "algorithm", "maxQueueSize", "overflow", "queueTimeout",
     "latencyCompensation", "tokensPerWindow", "defaultTokens"}

(* The root endpoint ApplyDefaults puts in front when there is none. *)
AutoRoot(d) ==
    [path |-> "/",
     settings |-> [f \in Fields |-> IF f = "rate" THEN 1
                                    ELSE IF f \in RootFields THEN d[f]
                                    ELSE Unset(f)]]

WithRoot(endpoints, d) ==
    IF \E i \in DOMAIN endpoints : endpoints[i].path = "/" THEN endpoints
    ELSE <<AutoRoot(d)>> \o endpoints

(* The body of ApplyDefaults' loop over the endpoints. *)
Fill(settings, d) ==
    LET filled == [f \in Fields |->
                    IF settings[f] # Unset(f) THEN settings[f]
                    ELSE IF f = "rate" THEN 1
                    ELSE IF f \in FilledFields THEN d[f]
                    ELSE Unset(f)]
    IN  IF filled["algorithm"] = "token_window" /\ filled["defaultTokens"] = 0
        THEN [filled EXCEPT !["defaultTokens"] = 1]
        ELSE filled

ApplyDefaults(c) ==
    LET d == mergeWithSystem(c.defaults)
        eps == WithRoot(c.endpoints, d)
    IN  [c EXCEPT !.endpoints =
            [i \in DOMAIN eps |-> [eps[i] EXCEPT !.settings = Fill(@, d)]]]

(* applyServerDefaults, and whether it accepts the port. *)
ApplyServerDefaults(c) == [c EXCEPT !.port = IF c.port = 0 THEN 8080 ELSE c.port]
PortAccepted(c) == ApplyServerDefaults(c).port \in 1 .. 65535

(* Mutant: the checks of token windows are forgotten. *)
ValidWithoutTokens(s) ==
    /\ s["algorithm"] \in {"strict", "token_bucket", "sliding_window", "token_window"}
    /\ s["scheduler"] \in {"fifo", "lifo", "priority", "random"}
    /\ s["unit"] \in {"rps", "rpm"}
    /\ s["algorithm"] # "token_window" => s["rate"] > 0
    /\ s["maxQueueSize"] > 0
    /\ s["queueTimeout"] >= 0

(* validateEndpoints accepts the settings of one endpoint. *)
Valid(s) ==
    /\ s["algorithm"] \in {"strict", "token_bucket", "sliding_window", "token_window"}
    /\ s["scheduler"] \in {"fifo", "lifo", "priority", "random"}
    /\ s["unit"] \in {"rps", "rpm"}
    /\ s["algorithm"] # "token_window" => s["rate"] > 0
    /\ s["maxQueueSize"] > 0
    /\ s["queueTimeout"] >= 0
    /\ s["algorithm"] = "token_window" =>
        /\ s["tokensPerWindow"] > 0
        /\ s["windowSeconds"] > 0
        /\ s["defaultTokens"] <= s["tokensPerWindow"]

(* MergeOverrides sets the port of the flag, unchecked. *)
MergeOverrides(c) == IF flagPort = 0 THEN c ELSE [c EXCEPT !.port = flagPort]

-----------------------------------------------------------------------------
(* loadConfig succeeds. *)
LoadOK ==
    LET c == ApplyDefaults(ApplyServerDefaults(file))
    IN  /\ stage = "load"
        /\ PortAccepted(file)
        /\ \A i \in DOMAIN c.endpoints : Valid(c.endpoints[i].settings)
        /\ cfg' = MergeOverrides(c)
        /\ loaded' = TRUE
        /\ stage' = "start"
        /\ UNCHANGED <<file, flagPort>>

(* loadConfig returns an error: the port, an endpoint, or a file that cannot be
   read or parsed. *)
LoadFails ==
    /\ stage = "load"
    /\ stage' = "fallback"
    /\ UNCHANGED <<file, flagPort, cfg, loaded>>

(* defaultConfig *)
BuiltIn ==
    ApplyDefaults([port |-> 8080, defaults |-> [f \in Defaulted |-> Unset(f)], endpoints |-> <<>>])

(* main falls back to the built-in defaults. *)
Fallback ==
    /\ stage = "fallback"
    /\ cfg' = MergeOverrides(BuiltIn)
    /\ stage' = "start"
    /\ UNCHANGED <<file, flagPort, loaded>>

(* NewStrict's ticker has a period of at least a nanosecond. *)
TickerFires(s) ==
    \/ s["latencyCompensation"] > 0
    \/ (IF s["unit"] = "rpm" THEN (s["rate"] + 59) \div 60 ELSE s["rate"]) <= 10 ^ 9

(* endpoint.New succeeds: queue.New and limiter.New return no error, and neither
   a channel of negative size nor a ticker without a positive period is made. *)
Startable(s) ==
    /\ s["scheduler"] \in {"fifo", "lifo", "priority", "random"}
    /\ s["maxQueueSize"] >= 0
    /\ \/ s["algorithm"] = "token_window" /\ s["windowSeconds"] > 0
       \/ s["rate"] > 0 /\ s["algorithm"] \in {"token_bucket", "sliding_window"}
       \/ s["rate"] > 0 /\ s["algorithm"] = "strict" /\ TickerFires(s)

(* server.New builds the registry; an error or a panic is fatal. *)
Start ==
    /\ stage = "start"
    /\ stage' = IF \A i \in DOMAIN cfg.endpoints : Startable(cfg.endpoints[i].settings)
                THEN "running" ELSE "fatal"
    /\ UNCHANGED <<file, flagPort, cfg, loaded>>

Next == LoadOK \/ LoadFails \/ Fallback \/ Start

Spec == Init /\ [][Next]_vars

-----------------------------------------------------------------------------
(* What modules Queue, EndpointTokenWindow and Limiter assume of an endpoint. *)
Assumed(s) ==
    /\ s["maxQueueSize"] > 0
    /\ s["algorithm"] = "token_window" =>
        /\ s["tokensPerWindow"] > 0
        /\ s["defaultTokens"] # 0 /\ s["defaultTokens"] <= s["tokensPerWindow"]
    /\ s["algorithm"] # "token_window" => s["rate"] > 0

(* Whatever the file says, main ends up with a server that starts, every endpoint
   of which meets the assumptions the other modules make: validateEndpoints and
   the constructors agree, and the built-in defaults need no validation.  Only a
   strict rate above one per nanosecond is accepted and then refused. *)
AlwaysStarts ==
    /\ stage = "fatal" =>
        \E i \in DOMAIN cfg.endpoints :
            cfg.endpoints[i].settings["algorithm"] = "strict" /\ ~TickerFires(cfg.endpoints[i].settings)
    /\ stage \in {"start", "running"} =>
        \A i \in DOMAIN cfg.endpoints : Assumed(cfg.endpoints[i].settings)

(* The first of the three sources that sets f. *)
FirstSet(f, endpoint) ==
    IF endpoint[f] # Unset(f) THEN endpoint[f]
    ELSE IF file.defaults[f] # Unset(f) THEN file.defaults[f]
    ELSE systemDefaults[f]

(* The endpoints the file means: without a root, one of which only the path is
   written comes first. *)
Meant ==
    IF \E i \in DOMAIN file.endpoints : file.endpoints[i].path = "/" THEN file.endpoints
    ELSE <<[path |-> "/", settings |-> [f \in Fields |-> Unset(f)]]>> \o file.endpoints

(* The endpoints of the file keep their order, and each of their fields comes
   from the endpoint, else from the file's defaults, else from the system
   defaults; only an unset default_tokens of a token window becomes 1.  Fields
   without a default stay as written, but for an unset rate.  The same holds of
   the root that ApplyDefaults inserts, half filled, before it fills the rest. *)
FieldsFromNearestSource ==
    loaded =>
        /\ Len(cfg.endpoints) = Len(Meant)
        /\ \A i \in DOMAIN Meant :
            LET raw == Meant[i].settings
                got == cfg.endpoints[i].settings
            IN  /\ cfg.endpoints[i].path = Meant[i].path
                /\ \A f \in Defaulted :
                    \/ got[f] = FirstSet(f, raw)
                    \/ f = "defaultTokens" /\ FirstSet(f, raw) = 0 /\ got[f] = 1
                /\ \A f \in Fields \ Defaulted :
                    got[f] = IF f = "rate" /\ raw[f] = 0 THEN 1 ELSE raw[f]
=============================================================================
