---------------------------- MODULE ConfigProofs ----------------------------
(***************************************************************************)
(* Theorems about Config: whatever a file says, the server main creates    *)
(* starts, its endpoints meet the assumptions of the other modules, and    *)
(* each field comes from the nearest source that sets it.                  *)
(***************************************************************************)
EXTENDS Config, SequenceTheorems, TLAPS

(* The fields of the two structs, and which of them carry a default. *)
LEMMA FieldNames ==
    /\ Named \subseteq Defaulted /\ Defaulted \subseteq Fields
    /\ FilledFields = Defaulted
    /\ RootFields = Named \cup {"maxQueueSize"} /\ MergedFields = RootFields
    /\ "algorithm" \in Named /\ "scheduler" \in Named /\ "unit" \in Named
    /\ "overflow" \in Named
    /\ "maxQueueSize" \in Defaulted \ Named /\ "queueTimeout" \in Defaulted \ Named
    /\ "latencyCompensation" \in Defaulted \ Named
    /\ "tokensPerWindow" \in Defaulted \ Named /\ "defaultTokens" \in Defaulted \ Named
    /\ "rate" \in Fields \ Defaulted /\ "windowSeconds" \in Fields \ Defaulted
  BY DEF Named, Defaulted, Fields, FilledFields, RootFields, MergedFields

-----------------------------------------------------------------------------
(* mergeWithSystem and Fill keep the types of the structs. *)

(* Merged defaults are typed like those of the file. *)
LEMMA MergedTyped ==
    ASSUME NEW d, Typed(d, Defaulted)
    PROVE  Typed(mergeWithSystem(d), Defaulted)
  <1>1. ASSUME NEW f \in Defaulted \ Named
        PROVE  mergeWithSystem(d)[f] \in Int
    <2>1. systemDefaults[f] \in Int
      BY <1>1 DEF systemDefaults, Named, Defaulted
    <2>2. mergeWithSystem(d)[f] \in {d[f], systemDefaults[f]}
      BY <1>1 DEF mergeWithSystem
    <2> QED
      BY <1>1, <2>1, <2>2 DEF Typed
  <1> QED
    BY <1>1 DEF Typed, mergeWithSystem

(* Filled settings are typed like those of an endpoint. *)
LEMMA FillTyped ==
    ASSUME NEW s, NEW d, Typed(s, Fields), Typed(d, Defaulted)
    PROVE  Typed(Fill(s, d), Fields)
  <1> DEFINE filled == [f \in Fields |->
                          IF s[f] # Unset(f) THEN s[f]
                          ELSE IF f = "rate" THEN 1
                          ELSE IF f \in FilledFields THEN d[f]
                          ELSE Unset(f)]
  <1>1. ASSUME NEW f \in Fields \ Named
        PROVE  filled[f] \in Int
    BY FieldNames DEF Typed, Unset
  <1>2. Typed(filled, Fields)
    BY <1>1 DEF Typed
  <1>3. Fill(s, d) = IF filled["algorithm"] = "token_window" /\ filled["defaultTokens"] = 0
                     THEN [filled EXCEPT !["defaultTokens"] = 1] ELSE filled
    BY DEF Fill
  <1>4. Typed([filled EXCEPT !["defaultTokens"] = 1], Fields)
    BY <1>2, FieldNames DEF Typed
  <1> QED
    BY <1>2, <1>3, <1>4

-----------------------------------------------------------------------------
(* Validation and the constructors agree. *)

(* A token window whose default_tokens is unset gets 1. *)
LEMMA FillSetsTokens ==
    ASSUME NEW s, NEW d, Fill(s, d)["algorithm"] = "token_window"
    PROVE  Fill(s, d)["defaultTokens"] # 0
  <1> DEFINE filled == [f \in Fields |->
                          IF s[f] # Unset(f) THEN s[f]
                          ELSE IF f = "rate" THEN 1
                          ELSE IF f \in FilledFields THEN d[f]
                          ELSE Unset(f)]
  <1>1. Fill(s, d) = IF filled["algorithm"] = "token_window" /\ filled["defaultTokens"] = 0
                     THEN [filled EXCEPT !["defaultTokens"] = 1] ELSE filled
    BY DEF Fill
  <1>2. "defaultTokens" \in DOMAIN filled
    BY FieldNames
  <1> HIDE DEF filled
  <1> QED
    BY <1>1, <1>2

(* The exception of AlwaysStarts: NewStrict is given a ticker that cannot fire. *)
TooFast(s) == s["algorithm"] = "strict" /\ ~TickerFires(s)

(* What validateEndpoints accepts meets the assumptions of the other modules, and
   endpoint.New accepts it too, but for a strict rate that is too fast. *)
LEMMA ValidStarts ==
    ASSUME NEW s, Typed(s, Fields), Valid(s),
           s["algorithm"] = "token_window" => s["defaultTokens"] # 0
    PROVE  Assumed(s) /\ (Startable(s) \/ TooFast(s))
  <1>1. s["maxQueueSize"] \in Int /\ s["rate"] \in Int
    BY FieldNames DEF Typed
  <1>2. Assumed(s)
    BY DEF Valid, Assumed
  <1>3. s["maxQueueSize"] >= 0
    BY <1>1 DEF Valid
  <1> QED
    BY <1>2, <1>3 DEF Valid, Startable, TooFast

-----------------------------------------------------------------------------
(* Where a field comes from. *)

(* The defaults of the file come before those of the system. *)
LEMMA MergedField ==
    ASSUME NEW f \in Defaulted, NEW d
    PROVE  mergeWithSystem(d)[f] = IF d[f] # Unset(f) THEN d[f] ELSE systemDefaults[f]
  <1>1. f \notin MergedFields => systemDefaults[f] = Unset(f)
    BY DEF systemDefaults, MergedFields, Unset, Named
  <1> QED
    BY <1>1 DEF mergeWithSystem

(* Fill takes each field from the endpoint, else from the defaults. *)
LEMMA FillField ==
    ASSUME NEW s, NEW d, NEW f \in Fields
    PROVE  LET nearest == IF s[f] # Unset(f) THEN s[f]
                          ELSE IF f = "rate" THEN 1
                          ELSE IF f \in Defaulted THEN d[f]
                          ELSE Unset(f)
           IN  \/ Fill(s, d)[f] = nearest
               \/ f = "defaultTokens" /\ nearest = 0 /\ Fill(s, d)[f] = 1
  <1> DEFINE filled == [g \in Fields |->
                          IF s[g] # Unset(g) THEN s[g]
                          ELSE IF g = "rate" THEN 1
                          ELSE IF g \in FilledFields THEN d[g]
                          ELSE Unset(g)]
  <1>1. Fill(s, d) = IF filled["algorithm"] = "token_window" /\ filled["defaultTokens"] = 0
                     THEN [filled EXCEPT !["defaultTokens"] = 1] ELSE filled
    BY DEF Fill
  <1>2. \/ Fill(s, d)[f] = filled[f]
        \/ f = "defaultTokens" /\ filled[f] = 0 /\ Fill(s, d)[f] = 1
    <2>1. f \in DOMAIN filled
      OBVIOUS
    <2> HIDE DEF filled
    <2> QED
      BY <1>1, <2>1
  <1> QED
    BY <1>2, FieldNames

(* The root that ApplyDefaults inserts is half filled before the loop fills the
   rest; it ends up as if only its path had been written. *)
LEMMA RootIsUnset ==
    ASSUME NEW d
    PROVE  Fill(AutoRoot(d).settings, d) = Fill([f \in Fields |-> Unset(f)], d)
  <1> DEFINE half == AutoRoot(d).settings
             none == [f \in Fields |-> Unset(f)]
             Filled(s) == [f \in Fields |->
                            IF s[f] # Unset(f) THEN s[f]
                            ELSE IF f = "rate" THEN 1
                            ELSE IF f \in FilledFields THEN d[f]
                            ELSE Unset(f)]
  <1>1. ASSUME NEW f \in Fields
        PROVE  Filled(half)[f] = Filled(none)[f]
    <2>1. half[f] = IF f = "rate" THEN 1
                    ELSE IF f \in RootFields THEN d[f] ELSE Unset(f)
      BY DEF AutoRoot
    <2>2. none[f] = Unset(f)
      OBVIOUS
    <2>3. f \in RootFields => f \in FilledFields /\ f # "rate"
      BY FieldNames
    <2>4. Unset("rate") = 0
      BY FieldNames DEF Unset
    <2> HIDE DEF half, none
    <2>5. CASE f = "rate"
      BY <2>1, <2>2, <2>4, <2>5
    <2>6. CASE f # "rate"
      BY <2>1, <2>2, <2>3, <2>6
    <2> QED
      BY <2>5, <2>6
  <1>2. Filled(half) = Filled(none)
    BY <1>1
  <1> QED
    BY <1>2 DEF Fill

-----------------------------------------------------------------------------
(* ApplyDefaults as a whole. *)

(* An endpoint of which nothing is written but the path. *)
Bare == [f \in Fields |-> Unset(f)]
BareRoot == [path |-> "/", settings |-> Bare]

(* Meant, of any list of endpoints. *)
MeantBy(es) ==
    IF \E i \in DOMAIN es : es[i].path = "/" THEN es ELSE <<BareRoot>> \o es

(* Putting a root in front moves every endpoint by one place. *)
LEMMA InFront ==
    ASSUME NEW e, NEW es, es \in Seq({es[i] : i \in DOMAIN es})
    PROVE  /\ Len(<<e>> \o es) = Len(es) + 1
           /\ DOMAIN (<<e>> \o es) = 1 .. (Len(es) + 1)
           /\ (<<e>> \o es)[1] = e
           /\ \A i \in 2 .. (Len(es) + 1) : (<<e>> \o es)[i] = es[i - 1] /\ i - 1 \in DOMAIN es
           /\ Len(es) \in Nat
  <1> DEFINE S == {es[i] : i \in DOMAIN es} \cup {e}
  <1>1. es \in Seq(S)
    BY SeqDef
  <1>2. <<e>> \in Seq(S) /\ Len(<<e>>) = 1 /\ <<e>>[1] = e
    OBVIOUS
  <1> HIDE DEF S
  <1> QED
    BY <1>1, <1>2

(* ApplyDefaults keeps the order and the paths of what the file means, and fills
   every endpoint, the inserted root like the others. *)
LEMMA Applied ==
    ASSUME NEW c, DOMAIN c = {"port", "defaults", "endpoints"}, EndpointList(c.endpoints)
    PROVE  LET got == ApplyDefaults(c).endpoints
               meant == MeantBy(c.endpoints)
               d == mergeWithSystem(c.defaults)
           IN  /\ Len(got) = Len(meant) /\ DOMAIN got = DOMAIN meant
               /\ \A i \in DOMAIN meant :
                    /\ got[i].path = meant[i].path
                    /\ got[i].settings = Fill(meant[i].settings, d)
                    /\ Typed(meant[i].settings, Fields)
  <1> DEFINE es == c.endpoints
             d == mergeWithSystem(c.defaults)
             eps == WithRoot(es, d)
             meant == MeantBy(es)
             got == ApplyDefaults(c).endpoints
  <1>1. got = [i \in DOMAIN eps |-> [eps[i] EXCEPT !.settings = Fill(@, d)]]
    BY DEF ApplyDefaults
  <1>2. Typed(Bare, Fields)
    BY DEF Typed, Bare, Unset
  <1>3. /\ DOMAIN eps = 1 .. Len(eps) /\ Len(eps) \in Nat
        /\ Len(eps) = Len(meant) /\ DOMAIN meant = DOMAIN eps
        /\ \A i \in DOMAIN eps :
             /\ DOMAIN eps[i] = {"path", "settings"}
             /\ eps[i].path = meant[i].path
             /\ Fill(eps[i].settings, d) = Fill(meant[i].settings, d)
             /\ Typed(meant[i].settings, Fields)
    <2>1. CASE \E i \in DOMAIN es : es[i].path = "/"
      <3>1. eps = es /\ meant = es
        BY <2>1 DEF WithRoot, MeantBy
      <3>2. DOMAIN es = 1 .. Len(es) /\ Len(es) \in Nat
        BY DEF EndpointList
      <3> QED
        BY <3>1, <3>2 DEF EndpointList
    <2>2. CASE ~ \E i \in DOMAIN es : es[i].path = "/"
      <3>1. eps = <<AutoRoot(d)>> \o es /\ meant = <<BareRoot>> \o es
        BY <2>2 DEF WithRoot, MeantBy
      <3>2. es \in Seq({es[i] : i \in DOMAIN es})
        BY DEF EndpointList
      <3>3. /\ Len(eps) = Len(es) + 1 /\ DOMAIN eps = 1 .. (Len(es) + 1)
            /\ eps[1] = AutoRoot(d) /\ Len(es) \in Nat
            /\ \A i \in 2 .. (Len(es) + 1) : eps[i] = es[i - 1] /\ i - 1 \in DOMAIN es
        BY <3>1, <3>2, InFront
      <3>4. /\ Len(meant) = Len(es) + 1 /\ DOMAIN meant = 1 .. (Len(es) + 1)
            /\ meant[1] = BareRoot
            /\ \A i \in 2 .. (Len(es) + 1) : meant[i] = es[i - 1]
        BY <3>1, <3>2, InFront
      <3>5. /\ DOMAIN AutoRoot(d) = {"path", "settings"}
            /\ AutoRoot(d).path = BareRoot.path
            /\ Fill(AutoRoot(d).settings, d) = Fill(BareRoot.settings, d)
            /\ Typed(BareRoot.settings, Fields)
        BY <1>2, RootIsUnset DEF AutoRoot, BareRoot, Bare
      <3>6. \A i \in DOMAIN es :
               DOMAIN es[i] = {"path", "settings"} /\ Typed(es[i].settings, Fields)
        BY DEF EndpointList
      <3> HIDE DEF eps, meant, es, d
      <3>7. ASSUME NEW i \in DOMAIN eps
            PROVE  /\ DOMAIN eps[i] = {"path", "settings"}
                   /\ eps[i].path = meant[i].path
                   /\ Fill(eps[i].settings, d) = Fill(meant[i].settings, d)
                   /\ Typed(meant[i].settings, Fields)
        <4>1. CASE i = 1
          BY <3>3, <3>4, <3>5, <4>1
        <4>2. CASE i # 1
          <5>1. i \in 2 .. (Len(es) + 1)
            BY <3>3, <4>2
          <5> QED
            BY <3>3, <3>4, <3>6, <5>1
        <4> QED
          BY <4>1, <4>2
      <3> QED
        BY <3>3, <3>4, <3>7
    <2> QED
      BY <2>1, <2>2
  <1> HIDE DEF eps, meant, es, d
  <1>4. DOMAIN got = 1 .. Len(eps) /\ Len(got) = Len(eps)
    <2>1. got \in Seq({got[i] : i \in DOMAIN got})
      BY <1>1, <1>3, SeqDef
    <2> QED
      BY <1>1, <1>3, <2>1
  <1>5. ASSUME NEW i \in DOMAIN eps
        PROVE  got[i].path = eps[i].path /\ got[i].settings = Fill(eps[i].settings, d)
    BY <1>1, <1>3
  <1> QED
    BY <1>3, <1>4, <1>5 DEF eps, meant, es, d

-----------------------------------------------------------------------------
(* The invariant. *)

(* The file is what yaml.Unmarshal made of it. *)
FileInv ==
    /\ DOMAIN file = {"port", "defaults", "endpoints"}
    /\ EndpointList(file.endpoints)
    /\ Typed(file.defaults, Defaulted)

(* Each endpoint meets the assumptions, and endpoint.New accepts it or is given a
   rate that is too fast. *)
Checked(es) ==
    \A i \in DOMAIN es :
        LET s == es[i].settings
        IN  Assumed(s) /\ (Startable(s) \/ TooFast(s))

CheckedInv ==
    /\ stage \in {"load", "fallback"} => loaded = FALSE
    /\ stage \in {"start", "running", "fatal"} => Checked(cfg.endpoints)
    /\ stage \in {"load", "fallback", "start", "running", "fatal"}
    /\ stage = "fatal" => \E i \in DOMAIN cfg.endpoints : ~Startable(cfg.endpoints[i].settings)

ConfigInv == FileInv /\ CheckedInv /\ FieldsFromNearestSource

(* The port flag changes no endpoint. *)
LEMMA OverridesKeepEndpoints ==
    ASSUME NEW c, DOMAIN c = {"port", "defaults", "endpoints"}
    PROVE  MergeOverrides(c).endpoints = c.endpoints
  BY DEF MergeOverrides

(* A loaded configuration passed validation, so it can be started. *)
LEMMA LoadedChecked ==
    ASSUME FileInv, LoadOK
    PROVE  Checked(cfg'.endpoints)
  <1> DEFINE c == ApplyServerDefaults(file)
             d == mergeWithSystem(c.defaults)
             got == ApplyDefaults(c).endpoints
  <1>1. /\ DOMAIN c = {"port", "defaults", "endpoints"}
        /\ c.endpoints = file.endpoints /\ c.defaults = file.defaults
    BY DEF ApplyServerDefaults, FileInv
  <1>2. cfg'.endpoints = got
    <2>1. DOMAIN ApplyDefaults(c) = {"port", "defaults", "endpoints"}
      BY <1>1 DEF ApplyDefaults
    <2> QED
      BY <2>1, OverridesKeepEndpoints DEF LoadOK
  <1>3. \A i \in DOMAIN got : Valid(got[i].settings)
    BY DEF LoadOK
  <1>4. Typed(d, Defaulted)
    BY <1>1, MergedTyped DEF FileInv
  <1>5. ASSUME NEW i \in DOMAIN got
        PROVE  LET s == got[i].settings IN Assumed(s) /\ (Startable(s) \/ TooFast(s))
    <2> DEFINE raw == MeantBy(c.endpoints)[i].settings
    <2>1. got[i].settings = Fill(raw, d) /\ Typed(raw, Fields)
      BY <1>1, Applied DEF FileInv
    <2>2. Typed(Fill(raw, d), Fields)
      BY <1>4, <2>1, FillTyped
    <2>3. Valid(Fill(raw, d))
      BY <1>3, <2>1
    <2> HIDE DEF raw, got, d
    <2> QED
      BY <2>1, <2>2, <2>3, FillSetsTokens, ValidStarts
  <1> QED
    BY <1>2, <1>5 DEF Checked

(* A loaded configuration takes every field from the nearest source. *)
LEMMA LoadedFields ==
    ASSUME FileInv, LoadOK
    PROVE  FieldsFromNearestSource'
  <1> DEFINE c == ApplyServerDefaults(file)
             d == mergeWithSystem(c.defaults)
             got == ApplyDefaults(c).endpoints
  <1>1. /\ DOMAIN c = {"port", "defaults", "endpoints"}
        /\ c.endpoints = file.endpoints /\ c.defaults = file.defaults
    BY DEF ApplyServerDefaults, FileInv
  <1>2. cfg'.endpoints = got
    <2>1. DOMAIN ApplyDefaults(c) = {"port", "defaults", "endpoints"}
      BY <1>1 DEF ApplyDefaults
    <2> QED
      BY <2>1, OverridesKeepEndpoints DEF LoadOK
  <1>3. file' = file /\ Meant' = Meant /\ Meant = MeantBy(c.endpoints)
    BY <1>1 DEF LoadOK, Meant, MeantBy, BareRoot, Bare
  <1>4. /\ Len(got) = Len(Meant)
        /\ \A i \in DOMAIN Meant :
             got[i].path = Meant[i].path /\ got[i].settings = Fill(Meant[i].settings, d)
    BY <1>1, <1>3, Applied DEF FileInv
  <1>5. ASSUME NEW i \in DOMAIN Meant, NEW f \in Defaulted
        PROVE  LET raw == Meant[i].settings
               IN  \/ got[i].settings[f] = FirstSet(f, raw)
                   \/ f = "defaultTokens" /\ FirstSet(f, raw) = 0 /\ got[i].settings[f] = 1
    <2> DEFINE raw == Meant[i].settings
    <2>1. d[f] = IF file.defaults[f] # Unset(f) THEN file.defaults[f] ELSE systemDefaults[f]
      BY <1>1, MergedField
    <2>2. f \in Fields /\ f # "rate"
      BY FieldNames
    <2>3. \/ Fill(raw, d)[f] = (IF raw[f] # Unset(f) THEN raw[f] ELSE d[f])
          \/ f = "defaultTokens" /\ (IF raw[f] # Unset(f) THEN raw[f] ELSE d[f]) = 0
                                 /\ Fill(raw, d)[f] = 1
      <3> HIDE DEF raw, d
      <3> QED
        BY <2>2, FillField
    <2>4. FirstSet(f, raw) = IF raw[f] # Unset(f) THEN raw[f] ELSE d[f]
      BY <2>1 DEF FirstSet
    <2> QED
      BY <1>4, <2>3, <2>4
  <1>6. ASSUME NEW i \in DOMAIN Meant, NEW f \in Fields \ Defaulted
        PROVE  LET raw == Meant[i].settings
               IN  got[i].settings[f] = IF f = "rate" /\ raw[f] = 0 THEN 1 ELSE raw[f]
    <2> DEFINE raw == Meant[i].settings
    <2>1. Unset(f) = 0 /\ f # "defaultTokens"
      BY FieldNames DEF Unset
    <2>2. Fill(raw, d)[f] = IF raw[f] # Unset(f) THEN raw[f] ELSE IF f = "rate" THEN 1 ELSE Unset(f)
      <3> HIDE DEF raw, d
      <3> QED
        BY <2>1, FillField
    <2> QED
      BY <1>4, <2>1, <2>2
  <1> HIDE DEF got, d, c
  <1>7. \A f, raw : FirstSet(f, raw)' = FirstSet(f, raw)
    BY <1>3 DEF FirstSet
  <1> QED
    BY <1>2, <1>3, <1>4, <1>5, <1>6, <1>7 DEF FieldsFromNearestSource, FirstSet

(* The built-in defaults need no validation. *)
LEMMA BuiltInChecked ==
    Checked(MergeOverrides(BuiltIn).endpoints)
  <1> DEFINE none == [f \in Defaulted |-> Unset(f)]
             c == [port |-> 8080, defaults |-> none, endpoints |-> <<>>]
             d == mergeWithSystem(none)
             s == Fill(Bare, d)
  <1>1. EndpointList(<<>>)
    BY DEF EndpointList
  <1>2. Typed(none, Defaulted) /\ Typed(Bare, Fields)
    BY DEF Typed, Bare, Unset
  <1>3. MergeOverrides(BuiltIn).endpoints = ApplyDefaults(c).endpoints
    <2>1. BuiltIn = ApplyDefaults(c)
      BY DEF BuiltIn
    <2>2. DOMAIN ApplyDefaults(c) = {"port", "defaults", "endpoints"}
      BY DEF ApplyDefaults
    <2> QED
      BY <2>1, <2>2, OverridesKeepEndpoints
  <1>4. MeantBy(<<>>) = <<BareRoot>>
    BY DEF MeantBy
  <1>5. /\ DOMAIN ApplyDefaults(c).endpoints = {1}
        /\ ApplyDefaults(c).endpoints[1].settings = s
    <2>1. c.endpoints = <<>> /\ c.defaults = none
          /\ DOMAIN c = {"port", "defaults", "endpoints"}
      OBVIOUS
    <2>2. DOMAIN <<BareRoot>> = {1} /\ <<BareRoot>>[1].settings = Bare
      BY DEF BareRoot
    <2> HIDE DEF c
    <2> QED
      BY <1>1, <1>4, <2>1, <2>2, Applied
  <1>6. Typed(s, Fields)
    BY <1>2, MergedTyped, FillTyped
  <1>7. ASSUME NEW f \in Defaulted \ {"defaultTokens"}
        PROVE  s[f] = systemDefaults[f]
    <2>1. d[f] = systemDefaults[f] /\ Bare[f] = Unset(f) /\ f # "rate" /\ f \in Fields
      BY <1>7, FieldNames, MergedField DEF Bare
    <2> HIDE DEF d
    <2> QED
      BY <2>1, FillField
  <1>8. s["rate"] = 1
    <2>1. Bare["rate"] = Unset("rate")
      BY FieldNames DEF Bare
    <2> HIDE DEF d
    <2> QED
      BY <2>1, FieldNames, FillField
  <1>9. /\ s["algorithm"] = "strict" /\ s["scheduler"] = "fifo" /\ s["unit"] = "rps"
        /\ s["maxQueueSize"] = 1000 /\ s["queueTimeout"] = 0
    BY <1>7, FieldNames DEF systemDefaults
  <1> HIDE DEF s
  <1>10. Valid(s)
    BY <1>8, <1>9 DEF Valid
  <1>11. Assumed(s) /\ (Startable(s) \/ TooFast(s))
    BY <1>6, <1>9, <1>10, ValidStarts
  <1> QED
    BY <1>3, <1>5, <1>11 DEF Checked

(* The invariant holds at the start. *)
LEMMA ConfigInit ==
    Init => ConfigInv
  <1> SUFFICES ASSUME Init PROVE ConfigInv
    OBVIOUS
  <1>1. FileInv
    BY RawAssumption DEF Init, FileInv
  <1> QED
    BY <1>1 DEF Init, ConfigInv, CheckedInv, FieldsFromNearestSource

(* The fields of a loaded configuration depend on nothing but the file and cfg. *)
LEMMA FieldsStay ==
    ASSUME FieldsFromNearestSource, UNCHANGED <<file, cfg, loaded>>
    PROVE  FieldsFromNearestSource'
  <1>1. Meant' = Meant
    BY DEF Meant
  <1>2. \A f, raw : FirstSet(f, raw)' = FirstSet(f, raw)
    BY DEF FirstSet
  <1> QED
    BY <1>1, <1>2 DEF FieldsFromNearestSource, FirstSet

(* Every step keeps the invariant. *)
LEMMA ConfigStep ==
    ConfigInv /\ [Next]_vars => ConfigInv'
  <1> SUFFICES ASSUME ConfigInv, [Next]_vars PROVE ConfigInv'
    OBVIOUS
  <1>1. FileInv /\ CheckedInv /\ FieldsFromNearestSource
    BY DEF ConfigInv
  <1>2. FileInv'
    <2>1. file' = file
      BY DEF Next, LoadOK, LoadFails, Fallback, Start, vars
    <2> QED
      BY <1>1, <2>1 DEF FileInv
  <1>3. CASE LoadOK
    <2>1. Checked(cfg'.endpoints) /\ FieldsFromNearestSource'
      BY <1>1, <1>3, LoadedChecked, LoadedFields
    <2>2. stage' = "start"
      BY <1>3 DEF LoadOK
    <2> QED
      BY <1>2, <2>1, <2>2 DEF ConfigInv, CheckedInv
  <1>4. CASE LoadFails
    <2>1. stage = "load" /\ stage' = "fallback" /\ UNCHANGED <<file, cfg, loaded>>
      BY <1>4 DEF LoadFails
    <2>2. FieldsFromNearestSource'
      BY <1>1, <2>1, FieldsStay
    <2> QED
      BY <1>1, <1>2, <2>1, <2>2 DEF ConfigInv, CheckedInv
  <1>5. CASE Fallback
    <2>1. /\ stage = "fallback" /\ stage' = "start" /\ loaded' = loaded
          /\ cfg' = MergeOverrides(BuiltIn)
      BY <1>5 DEF Fallback
    <2>2. Checked(cfg'.endpoints)
      BY <2>1, BuiltInChecked
    <2>3. loaded' = FALSE
      BY <1>1, <2>1 DEF CheckedInv
    <2>4. FieldsFromNearestSource'
      BY <2>3 DEF FieldsFromNearestSource
    <2> QED
      BY <1>2, <2>1, <2>2, <2>3, <2>4 DEF ConfigInv, CheckedInv
  <1>6. CASE Start
    <2>1. /\ stage = "start" /\ UNCHANGED <<file, cfg, loaded>>
          /\ stage' = IF \A i \in DOMAIN cfg.endpoints : Startable(cfg.endpoints[i].settings)
                      THEN "running" ELSE "fatal"
      BY <1>6 DEF Start
    <2>2. FieldsFromNearestSource'
      BY <1>1, <2>1, FieldsStay
    <2>3. CheckedInv'
      BY <1>1, <2>1 DEF CheckedInv
    <2> QED
      BY <1>2, <2>2, <2>3 DEF ConfigInv
  <1>7. CASE UNCHANGED vars
    <2>1. UNCHANGED <<file, cfg, loaded, stage>>
      BY <1>7 DEF vars
    <2>2. FieldsFromNearestSource'
      BY <1>1, <2>1, FieldsStay
    <2>3. CheckedInv'
      BY <1>1, <2>1 DEF CheckedInv
    <2> QED
      BY <1>2, <2>2, <2>3 DEF ConfigInv
  <1> QED
    BY <1>3, <1>4, <1>5, <1>6, <1>7 DEF Next

(* The invariant holds in every behaviour. *)
LEMMA ConfigInvariant ==
    Spec => []ConfigInv
  BY ConfigInit, ConfigStep, PTL DEF Spec

(* Whatever the file says, or if it cannot be read, the server main creates starts,
   but for a strict rate of more than one per nanosecond, and each endpoint meets
   what the other modules assume of it. *)
THEOREM EveryFileStarts ==
    Spec => []AlwaysStarts
  <1>1. ConfigInv => AlwaysStarts
    <2> SUFFICES ASSUME ConfigInv PROVE AlwaysStarts
      OBVIOUS
    <2>1. CheckedInv
      BY DEF ConfigInv
    <2>2. ASSUME stage = "fatal"
          PROVE  \E i \in DOMAIN cfg.endpoints : TooFast(cfg.endpoints[i].settings)
      BY <2>1, <2>2 DEF CheckedInv, Checked
    <2>3. ASSUME stage \in {"start", "running"}
          PROVE  \A i \in DOMAIN cfg.endpoints : Assumed(cfg.endpoints[i].settings)
      BY <2>1, <2>3 DEF CheckedInv, Checked
    <2> QED
      BY <2>2, <2>3 DEF AlwaysStarts, TooFast
  <1> QED
    BY <1>1, ConfigInvariant, PTL

(* Every field of a loaded configuration comes from the endpoint, else from the
   defaults of the file, else from those of the system. *)
THEOREM NearestSourceWins ==
    Spec => []FieldsFromNearestSource
  <1>1. ConfigInv => FieldsFromNearestSource
    BY DEF ConfigInv
  <1> QED
    BY <1>1, ConfigInvariant, PTL
=============================================================================
