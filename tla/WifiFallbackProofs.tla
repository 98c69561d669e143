------------------------- MODULE WifiFallbackProofs -------------------------
(***************************************************************************)
(* What a start of the device finds in NVS, proved for every number of     *)
(* networks, of submissions through the portal, of resets and of faults.   *)
(*                                                                         *)
(* A handler's calls are cut short at any place, or one of them fails.     *)
(* The lemmas about Applied therefore only say which values a key may have *)
(* after them (May) and, when the handler came to its end, must have       *)
(* (Must); each group of calls is then described by the keys it writes     *)
(* (Quiet, Only) and by the values it writes there.  There is one lemma    *)
(* for each action, and all end in Established or Unaffected.              *)
(*                                                                         *)
(* The last part does the same for the keys of the outage and proves       *)
(* NeverEarly with at most one fault, MayTrack and MadeBut in the place of *)
(* May and Must; its lemmas for the actions end in EarlyInv.               *)
(***************************************************************************)
EXTENDS WifiFallback, SequenceTheorems, TLAPS

-----------------------------------------------------------------------------
(* What a sequence of NVS calls may leave behind. *)

Nvs == [active : BOOLEAN, started : Nat, elapsed : Nat, sleep : Nat,
        marker : BOOLEAN, backup : Config, blynk : Config]
Key == {"active", "started", "elapsed", "sleep", "marker", "backup", "blynk"}

\* The calls that are made have a value of their key.
Call ==
    [key : {"active", "marker"}, value : BOOLEAN]
        \cup [key : {"started", "elapsed", "sleep"}, value : Nat]
        \cup [key : {"backup", "blynk"}, value : Config]

\* The values that writes has for key k.
Values(writes, k) == {writes[i].value : i \in {j \in DOMAIN writes : writes[j].key = k}}

LEMMA NoValues == ASSUME NEW k PROVE Values(<<>>, k) = {} /\ <<>> \in Seq(Call)
BY DEF Values

LEMMA OneValue ==
    ASSUME NEW c \in Call, NEW k
    PROVE  /\ <<c>> \in Seq(Call)
           /\ Values(<<c>>, k) = IF c.key = k THEN {c.value} ELSE {}
BY DEF Values

LEMMA ConcatValues ==
    ASSUME NEW u \in Seq(Call), NEW v \in Seq(Call), NEW k
    PROVE  /\ u \o v \in Seq(Call)
           /\ Values(u \o v, k) = Values(u, k) \cup Values(v, k)
<1> DEFINE w == u \o v
<1>1. w \in Seq(Call) /\ Len(w) = Len(u) + Len(v)
  BY ConcatProperties
<1>2. \A i \in 1 .. Len(u) : w[i] = u[i]
  BY ConcatProperties
<1>3. \A i \in 1 .. Len(v) : w[Len(u) + i] = v[i]
  BY ConcatProperties
<1>4. /\ DOMAIN u = 1 .. Len(u) /\ DOMAIN v = 1 .. Len(v) /\ DOMAIN w = 1 .. Len(w)
      /\ Len(u) \in Nat /\ Len(v) \in Nat
  BY <1>1
<1> HIDE DEF w
<1>5. Values(u, k) \subseteq Values(w, k)
  BY <1>1, <1>2, <1>4 DEF Values
<1>6. Values(v, k) \subseteq Values(w, k)
  <2> SUFFICES ASSUME NEW i \in DOMAIN v, v[i].key = k
               PROVE  v[i].value \in Values(w, k)
    BY DEF Values
  <2>1. Len(u) + i \in DOMAIN w /\ w[Len(u) + i] = v[i]
    BY <1>1, <1>3, <1>4
  <2> QED BY <2>1 DEF Values
<1>7. Values(w, k) \subseteq Values(u, k) \cup Values(v, k)
  <2> SUFFICES ASSUME NEW i \in DOMAIN w, w[i].key = k
               PROVE  w[i].value \in Values(u, k) \cup Values(v, k)
    BY DEF Values
  <2>1. CASE i \in DOMAIN u
    BY <2>1, <1>2, <1>4 DEF Values
  <2>2. CASE i \notin DOMAIN u
    <3>1. i - Len(u) \in 1 .. Len(v) /\ i = Len(u) + (i - Len(u))
      BY <2>2, <1>1, <1>4
    <3>2. w[i] = v[i - Len(u)]
      BY <3>1, <1>3
    <3> QED BY <3>1, <3>2, <1>4 DEF Values
  <2> QED BY <2>1, <2>2
<1> QED BY <1>1, <1>5, <1>6, <1>7 DEF w

LEMMA AppliedKey ==
    ASSUME NEW store, NEW writes, NEW indices, indices \subseteq DOMAIN writes,
           NEW k \in DOMAIN store
    PROVE  /\ Applied(store, writes, indices)[k] \in {store[k]} \cup Values(writes, k)
           /\ (\E i \in indices : writes[i].key = k) =>
                  Applied(store, writes, indices)[k] \in Values(writes, k)
<1> DEFINE i0 == CHOOSE i \in indices : writes[i].key = k
<1>1. CASE \E i \in indices : writes[i].key = k
  <2>1. i0 \in indices /\ writes[i0].key = k
    BY <1>1
  <2>2. Applied(store, writes, indices)[k] = writes[i0].value
    BY <1>1 DEF Applied
  <2> HIDE DEF i0
  <2> QED BY <2>1, <2>2 DEF Values
<1>2. CASE ~\E i \in indices : writes[i].key = k
  BY <1>2 DEF Applied
<1> QED BY <1>1, <1>2

LEMMA TypedValues ==
    ASSUME NEW writes \in Seq(Call)
    PROVE  /\ \A k \in {"active", "marker"} : Values(writes, k) \subseteq BOOLEAN
           /\ \A k \in {"started", "elapsed", "sleep"} : Values(writes, k) \subseteq Nat
           /\ \A k \in {"backup", "blynk"} : Values(writes, k) \subseteq Config
<1>1. \A i \in DOMAIN writes : writes[i] \in Call
  OBVIOUS
<1> QED BY <1>1 DEF Values, Call

LEMMA NvsFields ==
    ASSUME NEW s \in Nvs
    PROVE  /\ DOMAIN s = Key
           /\ s.active \in BOOLEAN /\ s.marker \in BOOLEAN
           /\ s.started \in Nat /\ s.elapsed \in Nat /\ s.sleep \in Nat
           /\ s.backup \in Config /\ s.blynk \in Config
           /\ s["active"] = s.active /\ s["marker"] = s.marker /\ s["started"] = s.started
           /\ s["elapsed"] = s.elapsed /\ s["sleep"] = s.sleep
           /\ s["backup"] = s.backup /\ s["blynk"] = s.blynk
BY DEF Nvs, Key

LEMMA AppliedType ==
    ASSUME NEW s \in Nvs, NEW writes \in Seq(Call), NEW indices \in SUBSET DOMAIN writes
    PROVE  Applied(s, writes, indices) \in Nvs
<1> DEFINE t == Applied(s, writes, indices)
<1>1. DOMAIN t = Key /\ t = [k \in Key |-> t[k]]
  BY NvsFields DEF Applied
<1>2. \A k \in Key : t[k] \in {s[k]} \cup Values(writes, k)
  BY AppliedKey, NvsFields
<1> HIDE DEF t
<1>3. /\ t["active"] \in BOOLEAN /\ t["marker"] \in BOOLEAN
      /\ t["started"] \in Nat /\ t["elapsed"] \in Nat /\ t["sleep"] \in Nat
      /\ t["backup"] \in Config /\ t["blynk"] \in Config
  BY <1>2, TypedValues, NvsFields DEF Key
<1> QED BY <1>1, <1>3 DEF Nvs, Key, t

LEMMA WhenValues ==
    ASSUME NEW c, NEW u \in Seq(Call), NEW k
    PROVE  /\ When(c, u) \in Seq(Call)
           /\ Values(When(c, u), k) = IF c THEN Values(u, k) ELSE {}
BY NoValues DEF When

-----------------------------------------------------------------------------
(* The calls of each part. *)

Setting == {"marker", "backup", "blynk"}
Outage == [active : BOOLEAN, started : Nat, elapsed : Nat, awakeAt : Nat]
Prov == [config : Config, good : Config, requested : BOOLEAN, fallback : BOOLEAN,
         mode : Mode, recovery : {"IDLE", "CONNECTING"}, started : BOOLEAN]

\* The calls of the outage tracker leave the settings alone.
Quiet(writes) == writes \in Seq(Call) /\ \A k \in Setting : Values(writes, k) = {}

LEMMA QuietParts ==
    /\ Quiet(<<>>)
    /\ \A u, v : Quiet(u) /\ Quiet(v) => Quiet(u \o v)
    /\ \A c, u : Quiet(u) => Quiet(When(c, u))
    /\ \A c \in Call : c.key \notin Setting => Quiet(<<c>>)
<1>1. Quiet(<<>>)
  BY NoValues DEF Quiet
<1>2. ASSUME NEW u, NEW v, Quiet(u), Quiet(v) PROVE Quiet(u \o v)
  BY <1>2, ConcatValues DEF Quiet
<1>3. ASSUME NEW c, NEW u, Quiet(u) PROVE Quiet(When(c, u))
  BY <1>3, WhenValues DEF Quiet
<1>4. ASSUME NEW c \in Call, c.key \notin Setting PROVE Quiet(<<c>>)
  BY <1>4, OneValue DEF Quiet
<1> QED BY <1>1, <1>2, <1>3, <1>4

LEMMA OutageWrites ==
    ASSUME NEW b \in BOOLEAN, NEW n \in Nat
    PROVE  Quiet(<<Write("active", b), Write("started", n), Write("elapsed", 0),
                   Write("sleep", 0)>>)
<1> DEFINE w == <<Write("active", b), Write("started", n), Write("elapsed", 0),
                  Write("sleep", 0)>>
<1>1. /\ Write("active", b) \in Call /\ Write("started", n) \in Call
      /\ Write("elapsed", 0) \in Call /\ Write("sleep", 0) \in Call
  BY DEF Write, Call
<1>2. w \in Seq(Call)
  BY <1>1
<1>3. DOMAIN w = 1 .. 4
  OBVIOUS
<1>4. ASSUME NEW i \in 1 .. 4 PROVE w[i].key \notin Setting
  <2>1. CASE i = 1  BY <2>1 DEF Write, Setting
  <2>2. CASE i = 2  BY <2>2 DEF Write, Setting
  <2>3. CASE i = 3  BY <2>3 DEF Write, Setting
  <2>4. CASE i = 4  BY <2>4 DEF Write, Setting
  <2> QED BY <2>1, <2>2, <2>3, <2>4
<1> HIDE DEF w
<1>5. Quiet(w)
  BY <1>2, <1>3, <1>4 DEF Quiet, Values
<1> QED BY <1>5 DEF w

LEMMA ResetQuiet ==
    ASSUME NEW o \in Outage, NEW t \in Nat
    PROVE  Quiet(ResetWrites(o)) /\ ResetTracking(o, t) \in Outage
<1>1. ResetTracking(o, t) \in Outage
  BY DEF ResetTracking, NoOutage, Outage
<1>2. Quiet(ResetWrites(o))
  BY OutageWrites, QuietParts DEF ResetWrites
<1> QED BY <1>1, <1>2

LEMMA BeginQuiet ==
    ASSUME NEW o \in Outage, NEW t \in Nat, NEW c \in BOOLEAN
    PROVE  Quiet(BeginWrites(o, t, c)) /\ BeginTracking(o, t, c) \in Outage
<1>1. BeginTracking(o, t, c) \in Outage
  BY DEF BeginTracking, Outage
<1>2. (IF c THEN t ELSE 0) \in Nat
  OBVIOUS
<1>3. Quiet(BeginWrites(o, t, c))
  BY <1>2, OutageWrites, QuietParts DEF BeginWrites
<1> QED BY <1>1, <1>3

LEMMA CheckpointQuiet ==
    ASSUME NEW o \in Outage, NEW t \in Nat
    PROVE  Quiet(CheckpointWrites(o, t)) /\ Checkpointed(o, t) \in Outage
<1>1. Checkpointed(o, t) \in Outage
  <2>1. CASE o.active /\ t > o.awakeAt
    <3>1. o.elapsed + (t - o.awakeAt) \in Nat
      BY <2>1 DEF Outage
    <3>2. Checkpointed(o, t) = [o EXCEPT !.elapsed = o.elapsed + (t - o.awakeAt), !.awakeAt = t]
      BY <2>1 DEF Checkpointed
    <3> QED BY <3>1, <3>2 DEF Outage
  <2>2. CASE ~(o.active /\ t > o.awakeAt)
    BY <2>2 DEF Checkpointed
  <2> QED BY <2>1, <2>2
<1>2. Write("elapsed", Checkpointed(o, t).elapsed) \in Call
  BY <1>1 DEF Outage, Write, Call
<1>3. Write("elapsed", Checkpointed(o, t).elapsed).key \notin Setting
  BY DEF Write, Setting
<1>4. Quiet(CheckpointWrites(o, t))
  BY <1>2, <1>3, QuietParts DEF CheckpointWrites
<1> QED BY <1>1, <1>4

LEMMA EvaluationQuiet ==
    ASSUME NEW o \in Outage, NEW t \in Nat, NEW c \in BOOLEAN, NEW due \in BOOLEAN
    PROVE  Quiet(EvaluationWrites(o, t, c, due)) /\ Evaluated(o, t, c, due) \in Outage
<1> DEFINE b == BeginTracking(o, t, c)
<1>1. b \in Outage /\ Quiet(BeginWrites(o, t, c))
  BY BeginQuiet
<1> HIDE DEF b
<1>2. Quiet(CheckpointWrites(b, t)) /\ Checkpointed(b, t) \in Outage
  BY <1>1, CheckpointQuiet
<1>3. Evaluated(o, t, c, due) \in Outage
  BY <1>1, <1>2 DEF Evaluated, b
<1>4. Quiet(BeginWrites(o, t, c) \o When(due, CheckpointWrites(b, t)))
  BY <1>1, <1>2, QuietParts
<1> QED BY <1>3, <1>4 DEF EvaluationWrites, b

LEMMA SleepQuiet ==
    ASSUME NEW o \in Outage, NEW t \in Nat, NEW d \in Nat
    PROVE  Quiet(SleepWrites(o, t, d))
<1>1. Write("sleep", d) \in Call /\ Write("sleep", d).key \notin Setting
  BY DEF Write, Call, Setting
<1>2. Quiet(When(o.active, <<Write("sleep", d)>>))
  BY <1>1, QuietParts
<1> QED BY <1>2, CheckpointQuiet, QuietParts DEF SleepWrites

LEMMA RestoreQuiet ==
    ASSUME NEW s \in Nvs, NEW timerWake \in BOOLEAN, NEW t \in Nat
    PROVE  Quiet(RestoreWrites(s, timerWake)) /\ Restored(s, t, timerWake) \in Outage
<1> DEFINE e == s.elapsed + Slept(s, timerWake)
<1>1. e \in Nat /\ Slept(s, timerWake) \in Nat
  BY NvsFields DEF Slept
<1>2. Restored(s, t, timerWake) \in Outage
  BY <1>1, NvsFields DEF Restored, Outage
<1> HIDE DEF e
<1>3. /\ Write("sleep", 0) \in Call /\ Write("sleep", 0).key \notin Setting
      /\ Write("elapsed", e) \in Call /\ Write("elapsed", e).key \notin Setting
  BY <1>1 DEF Write, Call, Setting
<1>4. Quiet(<<Write("sleep", 0)>> \o When(Slept(s, timerWake) > 0, <<Write("elapsed", e)>>))
  BY <1>3, QuietParts
<1> QED BY <1>2, <1>4 DEF RestoreWrites, e

LEMMA ConfigFacts ==
    /\ NoConfig \in Config /\ ~NoConfig.valid /\ NoConfig.network = "none"
    /\ \A n \in Networks : /\ Valid(n) \in Config /\ Valid(n).valid
                           /\ Valid(n).network = n /\ Valid(n) # NoConfig
    /\ \A c \in Config : /\ c.valid \in BOOLEAN
                         /\ c # NoConfig => c.network \in Networks
                         /\ c.valid => c = Valid(c.network) /\ c # NoConfig
                         /\ c.network \in Networks => c # NoConfig
                         /\ c.network = "none" <=> c = NoConfig
                         /\ c.network # "none" => [c EXCEPT !.valid = TRUE] = Valid(c.network)
<1>1. NoConfig \in Config /\ ~NoConfig.valid /\ NoConfig.network = "none"
  BY DEF NoConfig, Config
<1>2. ASSUME NEW n \in Networks
      PROVE  /\ Valid(n) \in Config /\ Valid(n).valid
             /\ Valid(n).network = n /\ Valid(n) # NoConfig
  BY FallbackAssumption DEF NoConfig, Config, Valid
<1>3. ASSUME NEW c \in [network : Networks, valid : BOOLEAN]
      PROVE  /\ c.valid \in BOOLEAN /\ c.network \in Networks /\ c.network # "none"
             /\ c # NoConfig
             /\ c.valid => c = Valid(c.network)
             /\ [c EXCEPT !.valid = TRUE] = Valid(c.network)
  <2>1. c.valid \in BOOLEAN /\ c.network \in Networks /\ c.network # "none"
    BY FallbackAssumption
  <2>2. c # NoConfig
    BY <2>1 DEF NoConfig
  <2>3. c = [network |-> c.network, valid |-> c.valid]
    OBVIOUS
  <2>4. [c EXCEPT !.valid = TRUE] = Valid(c.network)
    <3> DEFINE d == [c EXCEPT !.valid = TRUE]
    <3>1. d \in [network : Networks, valid : BOOLEAN]
      OBVIOUS
    <3>2. d.network = c.network /\ d.valid = TRUE
      OBVIOUS
    <3> HIDE DEF d
    <3>3. d = [network |-> d.network, valid |-> d.valid]
      BY <3>1
    <3> QED BY <3>2, <3>3 DEF Valid, d
  <2>5. c.valid => c = Valid(c.network)
    BY <2>3, <2>1 DEF Valid
  <2> QED BY <2>1, <2>2, <2>4, <2>5
<1>4. \A c \in Config : c = NoConfig \/ c \in [network : Networks, valid : BOOLEAN]
  BY DEF Config
<1>5. ASSUME NEW c \in Config
      PROVE  /\ c.valid \in BOOLEAN
             /\ c # NoConfig => c.network \in Networks
             /\ c.valid => c = Valid(c.network) /\ c # NoConfig
             /\ c.network \in Networks => c # NoConfig
             /\ c.network = "none" <=> c = NoConfig
             /\ c.network # "none" => [c EXCEPT !.valid = TRUE] = Valid(c.network)
  <2>1. CASE c = NoConfig
    <3>1. c.network = "none" /\ "none" \notin Networks
      BY <2>1, <1>1, FallbackAssumption
    <3>2. c.valid = FALSE
      BY <2>1 DEF NoConfig
    <3> QED BY <2>1, <3>1, <3>2
  <2>2. CASE c \in [network : Networks, valid : BOOLEAN]
    BY <2>2, <1>3
  <2> QED BY <2>1, <2>2, <1>4
<1> QED BY <1>1, <1>2, <1>5

\* Of the settings, writes may write those in keys only.
Only(writes, keys) ==
    writes \in Seq(Call) /\ \A k \in Setting \ keys : Values(writes, k) = {}

LEMMA MarkerValues ==
    ASSUME NEW s \in Nvs, NEW b \in BOOLEAN
    PROVE  /\ Only(MarkerWrites(s, b), {"marker"})
           /\ Values(MarkerWrites(s, b), "marker") = IF s.marker # b THEN {b} ELSE {}
<1>1. /\ Write("marker", b) \in Call /\ Write("marker", b).key = "marker"
      /\ Write("marker", b).value = b
  BY DEF Write, Call
<1>2. CASE s.marker = b
  BY <1>2, NoValues DEF MarkerWrites, When, Only
<1>3. CASE s.marker # b
  <2>1. MarkerWrites(s, b) = <<Write("marker", b)>>
    BY <1>3 DEF MarkerWrites, When
  <2> QED BY <2>1, <1>1, <1>3, OneValue DEF Only, Setting
<1> QED BY <1>2, <1>3

LEMMA ConfigValues ==
    ASSUME NEW c \in Config
    PROVE  /\ Only(ConfigWrites(c), {"blynk"})
           /\ Values(ConfigWrites(c), "blynk") = {c}
<1>1. /\ Write("blynk", c) \in Call /\ Write("blynk", c).key = "blynk"
      /\ Write("blynk", c).value = c
  BY DEF Write, Call
<1> QED BY <1>1, OneValue DEF ConfigWrites, Only, Setting

LEMMA SaveGoodValues ==
    ASSUME NEW s \in Nvs, NEW c \in Config, NEW replace \in BOOLEAN
    PROVE  /\ Only(SaveGoodWrites(s, c, replace), {"backup"})
           /\ Values(SaveGoodWrites(s, c, replace), "backup") \subseteq {Valid(c.network)}
           /\ \/ Values(SaveGoodWrites(s, c, replace), "backup") = {}
              \/ c.network # "none" /\ (s.backup = NoConfig \/ replace)
<1> DEFINE saved == [c EXCEPT !.valid = TRUE]
           needed == /\ c.network # "none"
                     /\ s.backup # saved
                     /\ s.backup = NoConfig \/ replace
<1>1. c.network # "none" => saved = Valid(c.network) /\ saved \in Config
  BY ConfigFacts
<1> HIDE DEF saved
<1>3. CASE needed
  <2>1. /\ Write("backup", saved) \in Call /\ Write("backup", saved).key = "backup"
        /\ Write("backup", saved).value = saved
    BY <1>1, <1>3 DEF Write, Call
  <2>2. SaveGoodWrites(s, c, replace) = <<Write("backup", saved)>>
    BY <1>3 DEF SaveGoodWrites, When, saved
  <2> QED BY <2>1, <2>2, <1>1, <1>3, OneValue DEF Only, Setting
<1>4. CASE ~needed
  <2>1. SaveGoodWrites(s, c, replace) = <<>>
    BY <1>4 DEF SaveGoodWrites, When, saved
  <2> QED BY <2>1, NoValues DEF Only
<1> QED BY <1>3, <1>4

LEMMA OnlyParts ==
    /\ \A u, v, k : u \in Seq(Call) /\ v \in Seq(Call) =>
           Values(u \o v, k) = Values(u, k) \cup Values(v, k)
    /\ \A u, v, a, b : Only(u, a) /\ Only(v, b) => Only(u \o v, a \cup b)
    /\ \A c, u, a : Only(u, a) => Only(When(c, u), a)
    /\ \A u, a : Only(u, a) => u \in Seq(Call)
    /\ \A u, a, k : Only(u, a) /\ k \in Setting /\ k \notin a => Values(u, k) = {}
    /\ \A u : Quiet(u) <=> Only(u, {})
<1>1. ASSUME NEW u, NEW v, NEW k, u \in Seq(Call), v \in Seq(Call)
      PROVE  Values(u \o v, k) = Values(u, k) \cup Values(v, k)
  BY <1>1, ConcatValues
<1>2. ASSUME NEW u, NEW v, NEW a, NEW b, Only(u, a), Only(v, b) PROVE Only(u \o v, a \cup b)
  BY <1>2, ConcatValues DEF Only
<1>3. ASSUME NEW c, NEW u, NEW a, Only(u, a) PROVE Only(When(c, u), a)
  BY <1>3, WhenValues DEF Only
<1>4. \A u, a : Only(u, a) => u \in Seq(Call)
  BY DEF Only
<1>5. \A u, a, k : Only(u, a) /\ k \in Setting /\ k \notin a => Values(u, k) = {}
  BY DEF Only
<1>6. \A u : Quiet(u) <=> Only(u, {})
  BY DEF Only, Quiet
<1> QED BY <1>1, <1>2, <1>3, <1>4, <1>5, <1>6

-----------------------------------------------------------------------------
(* How a handler ends. *)

MachineOK ==
    /\ power \in {"on", "asleep", "off"}
    /\ now \in Nat /\ wakeAt \in Nat /\ clockValid \in BOOLEAN
    /\ outage \in Outage /\ prov \in Prov /\ nvs \in Nvs
    /\ uploaded \in BOOLEAN /\ timedOut \in BOOLEAN
    /\ faults \in 0 .. MaxFaults

WorldOK ==
    /\ stayAwake \in BOOLEAN
    /\ seenAt \in Nat /\ verified \subseteq Networks
    /\ submissions \in 0 .. MaxSubmissions /\ resets \in 0 .. MaxResets

LEMMA TypeParts == TypeOK <=> MachineOK /\ WorldOK
BY DEF TypeOK, MachineOK, WorldOK, Outage, Prov, Nvs

\* What writes may have made of the settings.
May(writes) == \A k \in Setting : nvs'[k] \in {nvs[k]} \cup Values(writes, k)

\* The handler is done: the calls that do not merely fail have been made.
Must(writes) == \A k \in {"marker", "blynk"} :
                    Values(writes, k) # {} => nvs'[k] \in Values(writes, k)

Gone == power' # "on" /\ prov' = Unprovisioned

LEMMA ResultOfWrites ==
    ASSUME MachineOK, NEW writes \in Seq(Call)
    PROVE  /\ Stored(writes) => /\ nvs' \in Nvs /\ faults' \in 0 .. MaxFaults
                                /\ May(writes) /\ Must(writes)
           /\ nvs' \in CutShort(nvs, writes) => nvs' \in Nvs /\ May(writes)
<1>1. nvs \in Nvs /\ DOMAIN nvs = Key /\ MaxFaults \in Nat /\ faults \in 0 .. MaxFaults
  BY NvsFields, FallbackAssumption DEF MachineOK
<1>2. ASSUME NEW I \in SUBSET DOMAIN writes, nvs' = Applied(nvs, writes, I)
      PROVE  nvs' \in Nvs /\ May(writes)
  BY <1>1, <1>2, AppliedType, AppliedKey DEF May, Setting, Key
<1>3. ASSUME NEW I \in SUBSET DOMAIN writes, nvs' = Applied(nvs, writes, I),
             \A i \in DOMAIN writes \ I : writes[i].key \notin Unfailing
      PROVE  Must(writes)
  <2> SUFFICES ASSUME NEW k \in {"marker", "blynk"}, Values(writes, k) # {}
               PROVE  nvs'[k] \in Values(writes, k)
    BY DEF Must
  <2>1. PICK i \in DOMAIN writes : writes[i].key = k
    BY DEF Values
  <2>2. i \in I
    BY <2>1, <1>3 DEF Unfailing
  <2>3. k \in DOMAIN nvs
    BY <1>1 DEF Key
  <2> QED BY <2>1, <2>2, <2>3, <1>3, AppliedKey
<1>4. ASSUME Stored(writes)
      PROVE  nvs' \in Nvs /\ faults' \in 0 .. MaxFaults /\ May(writes) /\ Must(writes)
  <2>1. CASE nvs' = Written(nvs, writes) /\ UNCHANGED faults
    BY <2>1, <1>1, <1>2, <1>3 DEF Written
  <2>2. CASE /\ faults < MaxFaults /\ faults' = faults + 1
             /\ nvs' \in OneFailed(nvs, writes, Unfailing)
    <3>1. PICK i \in DOMAIN writes : /\ writes[i].key \notin Unfailing
                                     /\ nvs' = Applied(nvs, writes, DOMAIN writes \ {i})
      BY <2>2 DEF OneFailed
    <3>2. DOMAIN writes \ {i} \in SUBSET DOMAIN writes
      OBVIOUS
    <3>3. nvs' \in Nvs /\ May(writes) /\ Must(writes)
      BY <3>1, <3>2, <1>2, <1>3
    <3> QED BY <3>3, <2>2, <1>1
  <2> QED BY <1>4, <2>1, <2>2 DEF Stored
<1>5. ASSUME nvs' \in CutShort(nvs, writes) PROVE nvs' \in Nvs /\ May(writes)
  <2>1. PICK n \in 0 .. Len(writes) - 1 : nvs' = Applied(nvs, writes, 1 .. n)
    BY <1>5 DEF CutShort
  <2>2. 1 .. n \in SUBSET DOMAIN writes
    BY <2>1
  <2> QED BY <2>1, <2>2, <1>2
<1> QED BY <1>4, <1>5

LEMMA NothingRemembered == Unprovisioned \in Prov /\ NoOutage(0) \in Outage
BY ConfigFacts DEF Unprovisioned, Prov, NoOutage, Outage, Mode, Portal

LEMMA Dying ==
    ASSUME MachineOK, Dies
    PROVE  /\ Gone
           /\ power' \in {"on", "asleep", "off"} /\ wakeAt' \in Nat /\ clockValid' \in BOOLEAN
           /\ outage' \in Outage /\ prov' \in Prov
           /\ uploaded' \in BOOLEAN /\ timedOut' \in BOOLEAN
BY NothingRemembered DEF Dies, RamLost, Gone, MachineOK

LEMMA Tearing ==
    ASSUME MachineOK, NEW writes \in Seq(Call), Torn(writes)
    PROVE  MachineOK' /\ Gone /\ May(writes)
<1>1. nvs' \in Nvs /\ May(writes)
  BY ResultOfWrites DEF Torn
<1>2. faults' \in 0 .. MaxFaults
  BY FallbackAssumption DEF Torn, MachineOK
<1> QED BY <1>1, <1>2, Dying DEF Torn, MachineOK

LEMMA Handling ==
    ASSUME MachineOK, NEW o \in Outage, NEW p \in Prov, NEW isUploaded \in BOOLEAN,
           NEW isTimedOut \in BOOLEAN, NEW writes \in Seq(Call),
           Handles(o, p, isUploaded, isTimedOut, writes)
    PROVE  /\ MachineOK'
           /\ May(writes)
           /\ Gone \/ (prov' = p /\ power' = power /\ Must(writes))
<1>1. CASE Torn(writes)
  BY <1>1, Tearing
<1>2. CASE /\ outage' = o /\ prov' = p
           /\ uploaded' = isUploaded /\ timedOut' = isTimedOut
           /\ Stored(writes)
           /\ UNCHANGED <<power, clock, clockValid>>
  BY <1>2, ResultOfWrites DEF MachineOK, clock
<1> QED BY <1>1, <1>2 DEF Handles

-----------------------------------------------------------------------------
(***************************************************************************)
(* The inductive invariant.  Saves: as soon as V is not empty, the backup  *)
(* is a network of V, and so is Blynk's configuration unless the marker    *)
(* sets it aside.  Sensible: what the variables in RAM say of each other   *)
(* and of Blynk's configuration.  Trusted: which of them hold a network of *)
(* V while the device is on.                                               *)
(***************************************************************************)
Saves(s, V) ==
    /\ s.backup # NoConfig => s.backup.valid
    /\ V # {} => /\ s.backup # NoConfig /\ s.backup.network \in V
                 /\ ~s.marker => s.blynk.valid /\ s.blynk.network \in V

Sensible(p, s) ==
    /\ p.config.valid => s.blynk = p.config
    /\ p.good # NoConfig => p.good.valid
    /\ ~p.requested /\ p.good # NoConfig => p.good = p.config /\ p.started
    /\ p.mode = "LOGGED_IN" => ~p.requested
    /\ p.mode = "RUNNING" => p.config.valid
    /\ p.mode \in Portal /\ ~p.requested => ~p.config.valid /\ ~p.started
    /\ p.started /\ ~p.requested /\ ~p.config.valid => p.mode \in {"LOGGED_IN", "RESET_CONFIG"}
    /\ p.mode \in {"SWITCH_TO_STA", "CONNECTING_NET", "CONNECTING_CLOUD", "LOGGED_IN", "RUNNING"}
           => p.config # NoConfig
    /\ p.recovery = "CONNECTING" =>
           /\ p.mode \in Portal \cup {"RESET_CONFIG"} /\ p.requested
           /\ p.config.valid \/ p.config = NoConfig

Trusted(p, s, V) ==
    V # {} =>
        /\ p.good # NoConfig => p.good.network \in V
        /\ p.config.valid /\ (p.mode \in Portal \/ ~p.requested) => p.config.network \in V
        /\ p.mode = "LOGGED_IN" => p.config.network \in V
        /\ p.requested => p.fallback /\ s.marker
        /\ p.mode \in Portal \cup {"SWITCH_TO_STA"} => p.requested
        /\ ~p.config.valid /\ p.mode \notin {"LOGGED_IN", "RESET_CONFIG"} => p.requested
        /\ ~p.config.valid /\ p.mode \in {"SWITCH_TO_STA", "CONNECTING_NET", "CONNECTING_CLOUD"}
               => s.blynk.valid /\ s.blynk.network \in V

Agreement(p, s, V) == Sensible(p, s) /\ Trusted(p, s, V)

IInv ==
    /\ MachineOK /\ WorldOK
    /\ Saves(nvs, verified)
    /\ Sensible(prov, nvs) /\ (On => Trusted(prov, nvs, verified))

LEMMA Established ==
    ASSUME MachineOK', WorldOK', Saves(nvs', verified'),
           Gone \/ Agreement(prov', nvs', verified')
    PROVE  IInv'
<1>1. CASE Gone
  <2>1. Sensible(Unprovisioned, nvs')
    BY ConfigFacts DEF Sensible, Unprovisioned, Portal
  <2> QED BY <1>1, <2>1 DEF IInv, Gone, On
<1>2. CASE Agreement(prov', nvs', verified')
  BY <1>2 DEF IInv, Agreement
<1> QED BY <1>1, <1>2

Same == nvs'.marker = nvs.marker /\ nvs'.backup = nvs.backup /\ nvs'.blynk = nvs.blynk

LEMMA SettingsAfter ==
    ASSUME MachineOK, MachineOK', NEW writes, May(writes)
    PROVE  /\ nvs'.marker \in {nvs.marker} \cup Values(writes, "marker")
           /\ nvs'.backup \in {nvs.backup} \cup Values(writes, "backup")
           /\ nvs'.blynk \in {nvs.blynk} \cup Values(writes, "blynk")
           /\ Must(writes) => /\ Values(writes, "marker") # {} =>
                                     nvs'.marker \in Values(writes, "marker")
                              /\ Values(writes, "blynk") # {} =>
                                     nvs'.blynk \in Values(writes, "blynk")
           /\ Quiet(writes) => Same
<1>1. nvs \in Nvs /\ nvs' \in Nvs
  BY DEF MachineOK
<1>2. /\ nvs'.marker \in {nvs.marker} \cup Values(writes, "marker")
      /\ nvs'.backup \in {nvs.backup} \cup Values(writes, "backup")
      /\ nvs'.blynk \in {nvs.blynk} \cup Values(writes, "blynk")
  BY <1>1, NvsFields DEF May, Setting
<1>3. Must(writes) => /\ Values(writes, "marker") # {} =>
                                nvs'.marker \in Values(writes, "marker")
                      /\ Values(writes, "blynk") # {} =>
                                nvs'.blynk \in Values(writes, "blynk")
  BY <1>1, NvsFields DEF Must
<1>4. Quiet(writes) => Same
  BY <1>2 DEF Quiet, Setting, Same
<1> QED BY <1>2, <1>3, <1>4

\* Steps that leave the settings and the variables of the provisioning alone.
LEMMA Unaffected ==
    ASSUME IInv, MachineOK', WorldOK', Same, verified' = verified,
           Gone \/ (prov' = prov /\ power' = power)
    PROVE  IInv'
<1>1. Saves(nvs', verified')
  BY DEF IInv, Saves, Same
<1>2. CASE Gone
  BY <1>1, <1>2, Established
<1>3. CASE prov' = prov /\ power' = power
  <2>1. Sensible(prov', nvs') /\ (On' => Trusted(prov', nvs', verified'))
    BY <1>3 DEF IInv, Sensible, Trusted, Same, On
  <2> QED BY <1>1, <2>1 DEF IInv
<1> QED BY <1>2, <1>3

LEMMA WorldKept ==
    ASSUME WorldOK, MachineOK, UNCHANGED world, verified' \subseteq Networks,
           UNCHANGED seenAt \/ WifiIsSeen
    PROVE  WorldOK'
BY DEF WorldOK, MachineOK, world, WifiIsSeen

-----------------------------------------------------------------------------
(* The actions that do not touch the configuration. *)

LEMMA Simple ==
    ASSUME IInv,
           \/ NetworkTime \/ UploadFinishes \/ StartNormalMeasurementCycle
           \/ SetDeepSleepDisabled \/ Tick
    PROVE  IInv'
<1>1. MachineOK' /\ WorldOK' /\ nvs' = nvs /\ verified' = verified /\ prov' = prov /\ power' = power
  <2>1. CASE NetworkTime  BY <2>1 DEF NetworkTime, IInv, MachineOK, WorldOK, clock, history, world
  <2>2. CASE UploadFinishes
    BY <2>2 DEF UploadFinishes, IInv, MachineOK, WorldOK, clock, history, world
  <2>3. CASE StartNormalMeasurementCycle
    BY <2>3 DEF StartNormalMeasurementCycle, IInv, MachineOK, WorldOK, clock, history, world
  <2>4. CASE SetDeepSleepDisabled
    BY <2>4 DEF SetDeepSleepDisabled, IInv, MachineOK, WorldOK, clock, history, world
  <2>5. CASE Tick  BY <2>5 DEF Tick, IInv, MachineOK, WorldOK, history, world
  <2> QED BY <2>1, <2>2, <2>3, <2>4, <2>5
<1> QED BY <1>1, Unaffected DEF Same

LEMMA Resetting ==
    ASSUME IInv, PowerLossOrReset
    PROVE  IInv'
<1>1. MachineOK' /\ WorldOK' /\ nvs' = nvs /\ verified' = verified /\ Gone
  BY Dying DEF PowerLossOrReset, IInv, MachineOK, WorldOK, history, world
<1> QED BY <1>1, Unaffected DEF Same

LEMMA Sleeping ==
    ASSUME IInv, EnterTimedDeepSleep
    PROVE  IInv'
<1> USE DEF IInv
<1>1. PICK d \in SleepLengths :
          \/ /\ power' = "asleep" /\ wakeAt' = now + d
             /\ RamLost /\ Stored(SleepWrites(outage, now, d))
             /\ UNCHANGED <<now, clockValid>>
          \/ Torn(SleepWrites(outage, now, d))
  BY DEF EnterTimedDeepSleep
<1> DEFINE w == SleepWrites(outage, now, d)
<1>2. Quiet(w) /\ w \in Seq(Call) /\ d \in Nat
  BY SleepQuiet, FallbackAssumption DEF MachineOK, Quiet
<1>3. WorldOK' /\ verified' = verified
  BY DEF EnterTimedDeepSleep, WorldOK, world, history
<1> HIDE DEF w
<1>4. MachineOK' /\ Gone /\ May(w)
  <2>1. CASE Torn(w)
    BY <2>1, <1>2, Tearing
  <2>2. CASE /\ power' = "asleep" /\ wakeAt' = now + d
             /\ RamLost /\ Stored(w)
             /\ UNCHANGED <<now, clockValid>>
    <3>1. nvs' \in Nvs /\ faults' \in 0 .. MaxFaults /\ May(w)
      BY <2>2, <1>2, ResultOfWrites
    <3>2. power' = "asleep" /\ wakeAt' \in Nat /\ now' = now /\ clockValid' = clockValid
      BY <2>2, <1>2 DEF MachineOK
    <3>3. /\ outage' = NoOutage(0) /\ prov' = Unprovisioned
          /\ uploaded' = FALSE /\ timedOut' = FALSE
      BY <2>2 DEF RamLost
    <3> QED BY <3>1, <3>2, <3>3, NothingRemembered DEF MachineOK, Gone
  <2> QED BY <2>1, <2>2, <1>1 DEF w
<1>5. Same
  BY <1>2, <1>4, SettingsAfter
<1> QED BY <1>3, <1>4, <1>5, Unaffected

LEMMA Seeing ==
    ASSUME IInv, ServiceSuccessfulWifiConnection
    PROVE  IInv'
<1> USE DEF IInv
<1>1. ResetTracking(outage, now) \in Outage /\ Quiet(ResetWrites(outage))
  BY ResetQuiet DEF MachineOK
<1>2. /\ MachineOK' /\ May(ResetWrites(outage))
      /\ Gone \/ (prov' = prov /\ power' = power)
  BY <1>1, Handling DEF ServiceSuccessfulWifiConnection, Serves, MachineOK, Quiet
<1>3. Same
  BY <1>1, <1>2, SettingsAfter
<1>4. WorldOK' /\ verified' = verified
  BY WorldKept DEF ServiceSuccessfulWifiConnection, WorldOK
<1> QED BY <1>2, <1>3, <1>4, Unaffected

-----------------------------------------------------------------------------
(* The outage of the Wi-Fi reaches the threshold. *)

LEMMA FallbackCalls ==
    ASSUME NEW s \in Nvs, NEW p \in Prov
    PROVE  /\ EnterFallback(p) \in Prov
           /\ Only(EnterFallbackWrites(s, p), {"marker", "backup"})
           /\ Values(EnterFallbackWrites(s, p), "marker") \subseteq {TRUE}
           /\ ~s.marker => Values(EnterFallbackWrites(s, p), "marker") = {TRUE}
           /\ Values(EnterFallbackWrites(s, p), "backup") \subseteq {Valid(p.config.network)}
           /\ \/ Values(EnterFallbackWrites(s, p), "backup") = {}
              \/ p.config.valid /\ s.backup = NoConfig
<1> DEFINE c == ~p.fallback /\ p.config.valid
           u == SaveGoodWrites(s, p.config, FALSE)
           v == When(c, u)
           m == MarkerWrites(s, TRUE)
<1>1. p.config \in Config
  BY DEF Prov
<1>2. EnterFallback(p) \in Prov
  BY DEF EnterFallback, Prov, Mode, Portal
<1>3. /\ Only(u, {"backup"}) /\ Values(u, "backup") \subseteq {Valid(p.config.network)}
      /\ Values(u, "backup") = {} \/ s.backup = NoConfig
  BY <1>1, SaveGoodValues
<1>4. Only(m, {"marker"}) /\ Values(m, "marker") = IF s.marker # TRUE THEN {TRUE} ELSE {}
  BY MarkerValues
<1> HIDE DEF u, m
<1>5. Only(v, {"backup"}) /\ Values(v, "backup") = IF c THEN Values(u, "backup") ELSE {}
  BY <1>3, OnlyParts, WhenValues
<1>6. Values(v, "marker") = {} /\ Values(m, "backup") = {}
  BY <1>4, <1>5, OnlyParts DEF Setting
<1>7. u \in Seq(Call) /\ v \in Seq(Call) /\ m \in Seq(Call)
  BY <1>3, <1>4, <1>5, OnlyParts
<1> HIDE DEF v
<1>8. Only(v \o m, {"backup"} \cup {"marker"})
  BY <1>4, <1>5, OnlyParts
<1>9. /\ Values(v \o m, "marker") = Values(m, "marker")
      /\ Values(v \o m, "backup") = Values(v, "backup")
  <2>1. \A k : Values(v \o m, k) = Values(v, k) \cup Values(m, k)
    BY <1>7, ConcatValues
  <2> QED BY <2>1, <1>6
<1>10. EnterFallbackWrites(s, p) = v \o m
  BY DEF EnterFallbackWrites, u, v, m
<1>11. Only(v \o m, {"marker", "backup"})
  <2>1. {"backup"} \cup {"marker"} = {"marker", "backup"}
    OBVIOUS
  <2> QED BY <1>8, <2>1
<1>12. s.marker \in BOOLEAN
  BY NvsFields
<1> QED BY <1>2, <1>3, <1>4, <1>5, <1>9, <1>10, <1>11, <1>12

\* Each check of the threshold either enters the fallback or leaves the settings alone.
LEMMA Checking ==
    ASSUME IInv, WorldOK', verified' = verified, ~prov.requested, On,
           NEW due \in BOOLEAN, NEW then \in Prov, NEW isTimedOut \in BOOLEAN,
           CheckOutage(due, then, isTimedOut),
           Agreement(then, nvs, verified)
    PROVE  IInv'
<1> DEFINE o == Evaluated(outage, now, clockValid, due)
           w == EvaluationWrites(outage, now, clockValid, due)
           f == EnterFallbackWrites(nvs, prov)
<1> USE DEF IInv
<1>1. o \in Outage /\ Quiet(w) /\ w \in Seq(Call)
  BY EvaluationQuiet DEF MachineOK, Quiet
<1>2. /\ nvs \in Nvs /\ prov \in Prov /\ uploaded \in BOOLEAN
      /\ Agreement(prov, nvs, verified)
  BY DEF MachineOK, Agreement
<1> HIDE DEF o, w, f
<1>3. CASE /\ ThresholdReached(outage, now, clockValid)
           /\ Handles(o, EnterFallback(prov), uploaded, FALSE, w \o f)
  <2> DEFINE p == EnterFallback(prov)
  <2>1. /\ p \in Prov /\ Only(f, {"marker", "backup"})
        /\ Values(f, "marker") \subseteq {TRUE}
        /\ ~nvs.marker => Values(f, "marker") = {TRUE}
        /\ Values(f, "backup") \subseteq {Valid(prov.config.network)}
        /\ \/ Values(f, "backup") = {}
           \/ prov.config.valid /\ nvs.backup = NoConfig
    BY <1>2, FallbackCalls DEF f
  <2>2. /\ w \o f \in Seq(Call)
        /\ \A k \in Setting : Values(w \o f, k) = Values(f, k)
    <3>1. f \in Seq(Call)
      BY <2>1, OnlyParts
    <3>2. /\ w \o f \in Seq(Call)
          /\ \A k : Values(w \o f, k) = Values(w, k) \cup Values(f, k)
      BY <3>1, <1>1, ConcatValues
    <3>3. \A k \in Setting : Values(w, k) = {}
      BY <1>1 DEF Quiet
    <3> QED BY <3>2, <3>3
  <2>3. Values(f, "blynk") = {}
    BY <2>1, OnlyParts DEF Setting
  <2>4. /\ MachineOK' /\ May(w \o f)
        /\ Gone \/ (prov' = p /\ power' = power /\ Must(w \o f))
    BY <2>1, <2>2, <1>1, <1>2, <1>3, Handling
  <2> HIDE DEF p
  <2>5. /\ nvs'.marker \in {nvs.marker} \cup Values(f, "marker")
        /\ nvs'.backup \in {nvs.backup} \cup Values(f, "backup")
        /\ nvs'.blynk = nvs.blynk
        /\ Must(w \o f) /\ Values(f, "marker") # {} => nvs'.marker \in Values(f, "marker")
    BY <2>2, <2>3, <2>4, SettingsAfter DEF Setting
  <2>6. prov.config \in Config /\ nvs.marker \in BOOLEAN
    BY <1>2, NvsFields DEF Prov
  <2>7. Saves(nvs', verified')
    <3>1. nvs'.backup = nvs.backup \/ (nvs'.backup = Valid(prov.config.network) /\ prov.config.valid /\ nvs.backup = NoConfig)
      BY <2>1, <2>5
    <3>2. nvs'.marker = nvs.marker \/ nvs'.marker = TRUE
      BY <2>1, <2>5
    <3> QED BY <3>1, <3>2, <2>5, <2>6, ConfigFacts DEF Saves
  <2>8. Must(w \o f) => nvs'.marker = TRUE
    BY <2>1, <2>5, <2>6
  <2>9. ASSUME Must(w \o f) PROVE Agreement(p, nvs', verified')
    <3>1. /\ p.config = prov.config /\ p.requested = TRUE /\ p.fallback = TRUE
          /\ p.mode = "WAIT_CONFIG" /\ p.recovery = "IDLE" /\ p.started = prov.started
          /\ p.good = prov.good \/ (p.good = prov.config /\ prov.config.valid)
      BY <1>2 DEF p, EnterFallback, Prov
    <3>2. Sensible(p, nvs')
      BY <3>1, <2>5, <1>2 DEF Agreement, Sensible, Portal
    <3>3. Trusted(p, nvs', verified')
      BY <3>1, <2>5, <2>8, <2>9, <1>2 DEF Agreement, Trusted, Portal
    <3> QED BY <3>2, <3>3 DEF Agreement
  <2> QED BY <2>4, <2>7, <2>9, Established
<1>4. CASE Handles(o, then, uploaded, isTimedOut, w)
  <2>1. /\ MachineOK' /\ May(w)
        /\ Gone \/ (prov' = then /\ power' = power)
    BY <1>1, <1>2, <1>4, Handling
  <2>2. Same
    BY <2>1, <1>1, SettingsAfter
  <2>3. Saves(nvs', verified')
    BY <2>2 DEF Saves, Same
  <2>4. Agreement(then, nvs', verified')
    BY <2>2 DEF Agreement, Sensible, Trusted, Same
  <2> QED BY <2>1, <2>3, <2>4, Established
<1> QED BY <1>3, <1>4 DEF CheckOutage, o, w, f

LEMMA StayingAwake ==
    ASSUME IInv, ServiceStayAwakeWifiProvisioningFallback
    PROVE  IInv'
<1> USE DEF IInv
<1>1. PICK due \in BOOLEAN : CheckOutage(due, prov, timedOut)
  BY DEF ServiceStayAwakeWifiProvisioningFallback
<1>2. On /\ ~prov.requested /\ prov.config.valid
  BY DEF ServiceStayAwakeWifiProvisioningFallback
<1>3. WorldOK' /\ verified' = verified
  BY DEF ServiceStayAwakeWifiProvisioningFallback, WorldOK, world, history
<1>4. prov \in Prov /\ timedOut \in BOOLEAN /\ Agreement(prov, nvs, verified)
  BY <1>2 DEF MachineOK, Agreement
<1> QED BY <1>1, <1>2, <1>3, <1>4, Checking

LEMMA Aborting ==
    ASSUME IInv, AbortEdgentConnectionForThisCycle
    PROVE  IInv'
<1> USE DEF IInv
<1> DEFINE running == [prov EXCEPT !.mode = IF @ \in Portal \cup {"CONNECTING_NET",
                                                       "CONNECTING_CLOUD"}
                                            THEN "RUNNING" ELSE @]
<1>1. On /\ prov.started /\ ~prov.requested /\ prov \in Prov /\ UNCHANGED world
  BY DEF AbortEdgentConnectionForThisCycle, MachineOK
<1>2. Agreement(prov, nvs, verified)
  BY <1>1 DEF Agreement
<1>3. /\ \/ CheckOutage(TRUE, running, TRUE) /\ UNCHANGED history
         \/ /\ Handles(ResetTracking(outage, now), running, uploaded, TRUE,
                       ResetWrites(outage))
            /\ WifiIsSeen /\ UNCHANGED verified
  BY DEF AbortEdgentConnectionForThisCycle
<1>4. /\ running \in Prov
      /\ running.config = prov.config /\ running.good = prov.good
      /\ running.requested = prov.requested /\ running.fallback = prov.fallback
      /\ running.recovery = prov.recovery /\ running.started = prov.started
      /\ \/ running.mode = prov.mode /\ prov.mode \notin Portal
         \/ running.mode = "RUNNING" /\ prov.mode \in {"CONNECTING_NET", "CONNECTING_CLOUD"}
         \/ running.mode = "RUNNING" /\ prov.mode \in Portal
  BY <1>1 DEF Prov, Mode
<1> HIDE DEF running
<1>5. prov.mode \notin Portal
  BY <1>1, <1>2 DEF Agreement, Sensible
<1>6. Sensible(running, nvs)
  BY <1>1, <1>2, <1>4, <1>5 DEF Agreement, Sensible, Portal
<1>7. Trusted(running, nvs, verified)
  BY <1>1, <1>2, <1>4, <1>5 DEF Agreement, Trusted, Portal
<1>8. Agreement(running, nvs, verified)
  BY <1>6, <1>7 DEF Agreement
<1>9. CASE CheckOutage(TRUE, running, TRUE) /\ UNCHANGED history
  <2>1. WorldOK' /\ verified' = verified
    BY <1>1, <1>9 DEF WorldOK, world, history
  <2>2. PICK due \in BOOLEAN, isTimedOut \in BOOLEAN : CheckOutage(due, running, isTimedOut)
    BY <1>9
  <2> QED BY <2>1, <2>2, <1>1, <1>4, <1>8, Checking
<1>10. CASE /\ Handles(ResetTracking(outage, now), running, uploaded, TRUE,
                       ResetWrites(outage))
            /\ WifiIsSeen /\ UNCHANGED verified
  <2>1. ResetTracking(outage, now) \in Outage /\ Quiet(ResetWrites(outage))
    BY ResetQuiet DEF MachineOK
  <2>2. /\ MachineOK' /\ May(ResetWrites(outage))
        /\ Gone \/ (prov' = running /\ power' = power)
    BY <2>1, <1>4, <1>10, Handling DEF MachineOK, Quiet
  <2>3. Same
    BY <2>1, <2>2, SettingsAfter
  <2>4. WorldOK'
    BY <1>1, <1>10, WorldKept DEF WorldOK
  <2>5. Saves(nvs', verified')
    BY <2>3, <1>10 DEF Saves, Same
  <2>6. Agreement(running, nvs', verified')
    BY <2>3, <1>8, <1>10 DEF Agreement, Sensible, Trusted, Same
  <2> QED BY <2>2, <2>4, <2>5, <2>6, Established
<1> QED BY <1>3, <1>9, <1>10

-----------------------------------------------------------------------------
(* Provisioning. *)

\* A step of the provisioning that makes calls for the settings in keys only.
LEMMA Providing ==
    ASSUME IInv, NEW p \in Prov, NEW writes \in Seq(Call), Provisions(p, writes)
    PROVE  /\ MachineOK' /\ WorldOK' /\ May(writes) /\ verified' = verified /\ On
           /\ Gone \/ (prov' = p /\ power' = power /\ Must(writes))
<1>1. MachineOK /\ WorldOK /\ outage \in Outage /\ uploaded \in BOOLEAN /\ timedOut \in BOOLEAN
  BY DEF IInv, MachineOK
<1>2. Handles(outage, p, uploaded, timedOut, writes) /\ UNCHANGED <<history, world>> /\ On
  BY DEF Provisions, Serves
<1>3. /\ MachineOK' /\ May(writes)
      /\ Gone \/ (prov' = p /\ power' = power /\ Must(writes))
  BY <1>1, <1>2, Handling
<1>4. WorldOK' /\ verified' = verified
  BY <1>1, <1>2 DEF WorldOK, history, world
<1> QED BY <1>2, <1>3, <1>4

LEMMA RamOnly ==
    ASSUME IInv, NEW p \in Prov, Provisions(p, <<>>), Agreement(p, nvs, verified)
    PROVE  IInv'
<1>1. <<>> \in Seq(Call) /\ Quiet(<<>>)
  BY NoValues, QuietParts
<1>2. /\ MachineOK' /\ WorldOK' /\ May(<<>>) /\ verified' = verified
      /\ Gone \/ (prov' = p /\ power' = power)
  BY <1>1, Providing
<1>3. Same
  BY <1>1, <1>2, SettingsAfter DEF IInv
<1>4. Saves(nvs', verified')
  BY <1>2, <1>3 DEF IInv, Saves, Same
<1>5. Agreement(p, nvs', verified')
  BY <1>2, <1>3 DEF Agreement, Sensible, Trusted, Same
<1> QED BY <1>2, <1>4, <1>5, Established

\* What IInv says of a device that is on.
LEMMA WhileOn ==
    ASSUME IInv, On
    PROVE  /\ prov \in Prov /\ nvs \in Nvs /\ outage \in Outage /\ verified \subseteq Networks
           /\ now \in Nat /\ uploaded \in BOOLEAN /\ timedOut \in BOOLEAN
           /\ Sensible(prov, nvs) /\ Trusted(prov, nvs, verified) /\ Saves(nvs, verified)
           /\ prov.config \in Config /\ prov.good \in Config /\ prov.mode \in Mode
           /\ prov.requested \in BOOLEAN /\ prov.fallback \in BOOLEAN
           /\ prov.started \in BOOLEAN /\ prov.recovery \in {"IDLE", "CONNECTING"}
           /\ nvs.marker \in BOOLEAN /\ nvs.backup \in Config /\ nvs.blynk \in Config
<1>1. /\ prov \in Prov /\ nvs \in Nvs /\ outage \in Outage /\ verified \subseteq Networks
      /\ now \in Nat /\ uploaded \in BOOLEAN /\ timedOut \in BOOLEAN
      /\ Sensible(prov, nvs) /\ Trusted(prov, nvs, verified) /\ Saves(nvs, verified)
  BY DEF IInv, MachineOK, WorldOK
<1>2. /\ prov.config \in Config /\ prov.good \in Config /\ prov.mode \in Mode
      /\ prov.requested \in BOOLEAN /\ prov.fallback \in BOOLEAN
      /\ prov.started \in BOOLEAN /\ prov.recovery \in {"IDLE", "CONNECTING"}
  BY <1>1 DEF Prov
<1>3. nvs.marker \in BOOLEAN /\ nvs.backup \in Config /\ nvs.blynk \in Config
  BY <1>1, NvsFields
<1> QED BY <1>1, <1>2, <1>3

\* The steps that change one variable in RAM.
LEMMA Beginning == ASSUME IInv, SavedWifiBegins PROVE IInv'
<1> DEFINE p == [prov EXCEPT !.recovery = "CONNECTING"]
<1>1. On /\ Provisions(p, <<>>)
  BY DEF SavedWifiBegins, Provisions
<1>2. /\ prov.fallback /\ prov.requested /\ prov.config.valid /\ prov.mode \in Portal
  BY DEF SavedWifiBegins
<1>3. /\ p \in Prov
      /\ p.config = prov.config /\ p.good = prov.good /\ p.mode = prov.mode
      /\ p.requested = prov.requested /\ p.fallback = prov.fallback
      /\ p.started = prov.started /\ p.recovery = "CONNECTING"
  BY <1>1, WhileOn DEF Prov
<1> HIDE DEF p
<1>4. Sensible(p, nvs)
  BY <1>1, <1>2, <1>3, WhileOn DEF Sensible
<1>5. Trusted(p, nvs, verified)
  BY <1>1, <1>2, <1>3, WhileOn DEF Trusted
<1> QED BY <1>1, <1>3, <1>4, <1>5, RamOnly DEF Agreement

LEMMA TimingOut == ASSUME IInv, SavedWifiTimesOut PROVE IInv'
<1> DEFINE p == [prov EXCEPT !.recovery = "IDLE"]
<1>1. On /\ Provisions(p, <<>>)
  BY DEF SavedWifiTimesOut, Provisions
<1>2. /\ p \in Prov
      /\ p.config = prov.config /\ p.good = prov.good /\ p.mode = prov.mode
      /\ p.requested = prov.requested /\ p.fallback = prov.fallback
      /\ p.started = prov.started /\ p.recovery = "IDLE"
  BY <1>1, WhileOn DEF Prov
<1> HIDE DEF p
<1>3. Sensible(p, nvs)
  BY <1>1, <1>2, WhileOn DEF Sensible
<1>4. Trusted(p, nvs, verified)
  BY <1>1, <1>2, WhileOn DEF Trusted
<1> QED BY <1>1, <1>2, <1>3, <1>4, RamOnly DEF Agreement

LEMMA Starting == ASSUME IInv, FirstCycle PROVE IInv'
<1> DEFINE p == [prov EXCEPT !.started = TRUE]
<1>1. On /\ Provisions(p, <<>>) /\ prov.config.valid
  BY DEF FirstCycle, Provisions
<1>2. /\ p \in Prov
      /\ p.config = prov.config /\ p.good = prov.good /\ p.mode = prov.mode
      /\ p.requested = prov.requested /\ p.fallback = prov.fallback
      /\ p.started = TRUE /\ p.recovery = prov.recovery
  BY <1>1, WhileOn DEF Prov
<1> HIDE DEF p
<1>3. Sensible(p, nvs)
  BY <1>1, <1>2, WhileOn DEF Sensible
<1>4. Trusted(p, nvs, verified)
  BY <1>1, <1>2, WhileOn DEF Trusted
<1> QED BY <1>1, <1>2, <1>3, <1>4, RamOnly DEF Agreement

\* A change of the mode alone, from one of Edgent's or the loop's modes to another.
LEMMA ChangingMode ==
    ASSUME IInv, On, NEW mode \in Mode,
           \/ prov.mode \in Portal /\ mode \in Portal
           \/ prov.mode = "SWITCH_TO_STA" /\ mode = "CONNECTING_NET"
           \/ prov.mode = "CONNECTING_NET" /\ mode = "CONNECTING_CLOUD"
           \/ prov.mode = "CONNECTING_CLOUD" /\ mode = "CONNECTING_NET"
           \/ prov.mode = "RUNNING" /\ mode \in {"CONNECTING_NET", "CONNECTING_CLOUD"}
           \/ prov.mode \in {"CONNECTING_NET", "CONNECTING_CLOUD"} /\ mode = "ERROR" /\ prov.config.valid
           \/ prov.mode = "ERROR" /\ mode = "RESET_CONFIG"
           \/ prov.mode = "ERROR" /\ ~prov.requested /\ prov.started /\ mode = "CONNECTING_NET"
    PROVE  /\ [prov EXCEPT !.mode = mode] \in Prov
           /\ Agreement([prov EXCEPT !.mode = mode], nvs, verified)
<1> DEFINE p == [prov EXCEPT !.mode = mode]
<1>2. /\ p \in Prov
      /\ p.config = prov.config /\ p.good = prov.good /\ p.mode = mode
      /\ p.requested = prov.requested /\ p.fallback = prov.fallback
      /\ p.started = prov.started /\ p.recovery = prov.recovery
  BY WhileOn DEF Prov
<1> HIDE DEF p
<1>3. Sensible(p, nvs)
  BY <1>2, WhileOn, ConfigFacts DEF Sensible, Portal
<1>4. Trusted(p, nvs, verified)
  BY <1>2, WhileOn, ConfigFacts DEF Trusted, Sensible, Portal
<1> QED BY <1>2, <1>3, <1>4 DEF Agreement, p

LEMMA Moving ==
    ASSUME IInv, NEW mode \in Mode, Provisions([prov EXCEPT !.mode = mode], <<>>),
           \/ prov.mode \in Portal /\ mode \in Portal
           \/ prov.mode = "SWITCH_TO_STA" /\ mode = "CONNECTING_NET"
           \/ prov.mode = "CONNECTING_NET" /\ mode = "CONNECTING_CLOUD"
           \/ prov.mode = "CONNECTING_CLOUD" /\ mode = "CONNECTING_NET"
           \/ prov.mode = "RUNNING" /\ mode \in {"CONNECTING_NET", "CONNECTING_CLOUD"}
           \/ prov.mode \in {"CONNECTING_NET", "CONNECTING_CLOUD"} /\ mode = "ERROR" /\ prov.config.valid
           \/ prov.mode = "ERROR" /\ mode = "RESET_CONFIG"
           \/ prov.mode = "ERROR" /\ ~prov.requested /\ prov.started /\ mode = "CONNECTING_NET"
    PROVE  IInv'
<1>1. On
  BY DEF Provisions
<1> QED BY <1>1, ChangingMode, RamOnly

LEMMA Restoring ==
    ASSUME IInv, Provisions(RestoreSaved(nvs, prov), RestoreSavedWrites(nvs, prov)),
           prov.fallback, prov.requested, prov.mode \in {"ERROR", "WAIT_CONFIG"}
    PROVE  IInv'
<1> DEFINE saved == SavedConfig(nvs, prov)
           p == RestoreSaved(nvs, prov)
           w == RestoreSavedWrites(nvs, prov)
<1>1. On
  BY DEF Provisions
<1>2. /\ saved \in Config
      /\ saved # NoConfig => saved.valid
      /\ verified # {} => saved # NoConfig /\ saved.network \in verified
  BY <1>1, WhileOn DEF SavedConfig, Sensible, Saves, Trusted
<1>3. CASE saved = NoConfig
  <2>1. p = prov /\ w = <<>>
    BY <1>3 DEF RestoreSaved, RestoreSavedWrites, When
  <2>2. Agreement(prov, nvs, verified)
    BY <1>1, WhileOn DEF Agreement
  <2> QED BY <1>1, <2>1, <2>2, WhileOn, RamOnly
<1>4. CASE saved # NoConfig
  <2>1. w = ConfigWrites(saved)
    BY <1>4 DEF RestoreSavedWrites, When
  <2>2. p = [prov EXCEPT !.config = saved, !.good = saved,
                         !.mode = "WAIT_CONFIG", !.recovery = "IDLE"]
    BY <1>4 DEF RestoreSaved
  <2>3. /\ p \in Prov
        /\ p.config = saved /\ p.good = saved /\ p.mode = "WAIT_CONFIG"
        /\ p.requested = TRUE /\ p.fallback = TRUE
        /\ p.started = prov.started /\ p.recovery = "IDLE"
    BY <1>1, <1>2, <2>2, WhileOn DEF Prov, Mode, Portal
  <2> HIDE DEF saved
  <2>4. /\ w \in Seq(Call) /\ Values(w, "blynk") = {saved}
        /\ Values(w, "marker") = {} /\ Values(w, "backup") = {}
    BY <1>2, <2>1, ConfigValues DEF Only, Setting
  <2> HIDE DEF p, w
  <2>5. /\ MachineOK' /\ WorldOK' /\ May(w) /\ verified' = verified
        /\ Gone \/ (prov' = p /\ power' = power /\ Must(w))
    BY <2>3, <2>4, Providing DEF p, w
  <2>6. /\ nvs'.marker = nvs.marker /\ nvs'.backup = nvs.backup
        /\ nvs'.blynk \in {nvs.blynk, saved}
        /\ Must(w) => nvs'.blynk = saved
    BY <2>4, <2>5, SettingsAfter DEF IInv
  <2>7. Saves(nvs', verified')
    BY <1>1, <1>2, <1>4, <2>5, <2>6, WhileOn DEF Saves
  <2>8. ASSUME Must(w) PROVE Agreement(p, nvs', verified')
    <3>1. Sensible(p, nvs')
      BY <1>2, <1>4, <2>3, <2>6, <2>8 DEF Sensible, Portal
    <3>2. Trusted(p, nvs', verified')
      BY <1>1, <1>2, <1>4, <2>3, <2>5, <2>6, <2>8, WhileOn DEF Trusted, Portal
    <3> QED BY <3>1, <3>2 DEF Agreement
  <2> QED BY <2>5, <2>7, <2>8, Established
<1> QED BY <1>3, <1>4

LEMMA Erring == ASSUME IInv, ModeError PROVE IInv'
<1>1. CASE Provisions(RestoreSaved(nvs, prov), RestoreSavedWrites(nvs, prov))
           /\ prov.requested /\ prov.fallback
  BY <1>1, Restoring DEF ModeError
<1>2. CASE Provisions([prov EXCEPT !.mode = "RESET_CONFIG"], <<>>)
  BY <1>2, Moving DEF ModeError, Mode
<1>3. CASE Provisions([prov EXCEPT !.mode = "CONNECTING_NET"], <<>>) /\ ~prov.requested
  BY <1>3, Moving DEF ModeError, Mode
<1> QED BY <1>1, <1>2, <1>3 DEF ModeError

LEMMA Connecting == ASSUME IInv, SavedWifiConnects PROVE IInv'
<1> DEFINE p == Recovered(prov)
           m == MarkerWrites(nvs, FALSE)
           r == ResetWrites(outage)
<1>1. /\ On /\ prov.recovery = "CONNECTING" /\ prov.mode \in Portal
      /\ prov.config.network \in Networks
  BY FallbackAssumption DEF SavedWifiConnects
<1>2. prov.config # NoConfig /\ prov.config.valid /\ prov.requested
  BY <1>1, WhileOn, ConfigFacts DEF Sensible
<1>3. /\ p \in Prov
      /\ p.config = prov.config /\ p.good = NoConfig /\ p.mode = "CONNECTING_CLOUD"
      /\ p.requested = FALSE /\ p.fallback = FALSE
      /\ p.started = prov.started /\ p.recovery = "IDLE"
  BY <1>1, WhileOn, ConfigFacts DEF Recovered, Prov, Mode
<1>4. /\ Only(m, {"marker"}) /\ Quiet(r) /\ ResetTracking(outage, now) \in Outage
      /\ m \in Seq(Call) /\ r \in Seq(Call)
      /\ Values(m, "marker") = IF nvs.marker # FALSE THEN {FALSE} ELSE {}
  BY <1>1, WhileOn, MarkerValues, ResetQuiet DEF Only, Quiet
<1>5. Handles(ResetTracking(outage, now), p, uploaded, timedOut, m \o r)
  BY DEF SavedWifiConnects, Serves
<1> HIDE DEF p, m, r
<1>6. m \o r \in Seq(Call) /\ \A k : Values(m \o r, k) = Values(m, k) \cup Values(r, k)
  BY <1>4, ConcatValues
<1>7. /\ Values(m \o r, "blynk") = {} /\ Values(m \o r, "backup") = {}
      /\ Values(m \o r, "marker") = IF nvs.marker # FALSE THEN {FALSE} ELSE {}
  BY <1>4, <1>6 DEF Only, Quiet, Setting
<1>8. /\ MachineOK' /\ May(m \o r)
      /\ Gone \/ (prov' = p /\ power' = power /\ Must(m \o r))
  BY <1>1, <1>3, <1>4, <1>5, <1>6, WhileOn, Handling DEF IInv
<1>9. WorldOK' /\ verified' = verified
  BY WorldKept DEF SavedWifiConnects, IInv, WorldOK
<1>10. /\ nvs'.blynk = nvs.blynk /\ nvs'.backup = nvs.backup
  BY <1>7, <1>8, SettingsAfter DEF IInv
<1>11. Saves(nvs', verified')
  BY <1>1, <1>2, <1>9, <1>10, WhileOn DEF Saves, Sensible, Trusted
<1>12. Sensible(p, nvs')
  BY <1>1, <1>2, <1>3, <1>10, WhileOn, ConfigFacts DEF Sensible, Portal
<1>13. Trusted(p, nvs', verified')
  BY <1>1, <1>2, <1>3, <1>9, <1>10, WhileOn DEF Trusted, Portal
<1> QED BY <1>8, <1>9, <1>11, <1>12, <1>13, Established DEF Agreement

LEMMA Pressing == ASSUME IInv, ButtonReset PROVE IInv'
<1> DEFINE p == [prov EXCEPT !.mode = "RESET_CONFIG"]
<1>1. /\ On /\ prov.mode \notin {"RESET_CONFIG", "LOGGED_IN"} /\ prov' = p
      /\ power' = power /\ nvs' = nvs /\ verified' = verified
  BY DEF ButtonReset, history
<1>2. /\ p \in Prov
      /\ p.config = prov.config /\ p.good = prov.good /\ p.mode = "RESET_CONFIG"
      /\ p.requested = prov.requested /\ p.fallback = prov.fallback
      /\ p.started = prov.started /\ p.recovery = prov.recovery
  BY <1>1, WhileOn DEF Prov, Mode
<1>3. MachineOK'
  BY <1>1, <1>2 DEF ButtonReset, IInv, MachineOK, clock
<1>4. WorldOK'
  BY FallbackAssumption DEF ButtonReset, IInv, WorldOK, history
<1> HIDE DEF p
<1>5. Sensible(p, nvs)
  BY <1>1, <1>2, WhileOn DEF Sensible, Portal
<1>6. Trusted(p, nvs, verified)
  BY <1>1, <1>2, WhileOn DEF Trusted, Portal
<1>7. Saves(nvs', verified')
  BY <1>1 DEF IInv
<1> QED BY <1>1, <1>3, <1>4, <1>5, <1>6, <1>7, Established DEF Agreement

LEMMA Erasing == ASSUME IInv, ModeResetConfig PROVE IInv'
<1>1. On /\ verified' = {} /\ prov.mode = "RESET_CONFIG" /\ UNCHANGED <<seenAt, world>>
  BY DEF ModeResetConfig
<1>2. WorldOK'
  BY <1>1 DEF IInv, WorldOK, world
<1>3. CASE prov.started
  <2> DEFINE p == ExplicitReset(prov)
             m == MarkerWrites(nvs, FALSE)
             b == <<Write("backup", NoConfig)>>
             c == ConfigWrites(NoConfig)
             w == m \o b \o c
  <2>1. Handles(outage, p, uploaded, timedOut, w)
    BY <1>3 DEF ModeResetConfig, Serves, ExplicitResetWrites
  <2>2. /\ p \in Prov
        /\ p.config = NoConfig /\ p.good = NoConfig /\ p.mode = "WAIT_CONFIG"
        /\ p.requested = TRUE /\ p.started = prov.started /\ p.recovery = prov.recovery
    BY <1>1, WhileOn, ConfigFacts DEF ExplicitReset, Prov, Mode, Portal
  <2>3. Write("backup", NoConfig) \in Call /\ Write("backup", NoConfig).key = "backup"
        /\ Write("backup", NoConfig).value = NoConfig
    BY ConfigFacts DEF Write, Call
  <2>4. /\ m \in Seq(Call) /\ Only(m, {"marker"})
        /\ c \in Seq(Call) /\ Only(c, {"blynk"})
        /\ b \in Seq(Call) /\ Values(b, "backup") = {NoConfig}
    BY <1>1, <2>3, WhileOn, ConfigFacts, MarkerValues, ConfigValues, OneValue DEF Only
  <2> HIDE DEF p, m, b, c
  <2>5. m \o b \in Seq(Call) /\ \A k : Values(m \o b, k) = Values(m, k) \cup Values(b, k)
    BY <2>4, ConcatValues
  <2>6. w \in Seq(Call) /\ \A k : Values(w, k) = Values(m \o b, k) \cup Values(c, k)
    BY <2>4, <2>5, ConcatValues
  <2>7. Values(w, "backup") = {NoConfig}
    BY <2>4, <2>5, <2>6 DEF Only, Setting
  <2> HIDE DEF w
  <2>8. MachineOK' /\ May(w) /\ (Gone \/ (prov' = p /\ power' = power))
    BY <1>1, <2>1, <2>2, <2>6, WhileOn, Handling DEF IInv
  <2>9. nvs'.backup \in {nvs.backup, NoConfig}
    BY <2>7, <2>8, SettingsAfter DEF IInv
  <2>10. Saves(nvs', verified')
    BY <1>1, <2>9, WhileOn DEF Saves
  <2>11. Agreement(p, nvs', verified')
    BY <1>1, <2>2, WhileOn, ConfigFacts DEF Agreement, Sensible, Trusted, Portal
  <2> QED BY <1>2, <2>8, <2>10, <2>11, Established
<1>4. CASE ~prov.started
  <2> DEFINE p == [prov EXCEPT !.config = NoConfig, !.mode = "WAIT_CONFIG"]
             w == ConfigWrites(NoConfig)
  <2>1. Handles(outage, p, uploaded, timedOut, w)
    BY <1>4 DEF ModeResetConfig, Serves
  <2>2. /\ p \in Prov
        /\ p.config = NoConfig /\ p.good = prov.good /\ p.mode = "WAIT_CONFIG"
        /\ p.requested = prov.requested /\ p.started = FALSE /\ p.recovery = prov.recovery
    BY <1>1, <1>4, WhileOn, ConfigFacts DEF Prov, Mode, Portal
  <2>3. w \in Seq(Call) /\ Values(w, "backup") = {}
    BY ConfigFacts, ConfigValues DEF Only, Setting
  <2> HIDE DEF p, w
  <2>4. MachineOK' /\ May(w) /\ (Gone \/ (prov' = p /\ power' = power))
    BY <1>1, <2>1, <2>2, <2>3, WhileOn, Handling DEF IInv
  <2>5. nvs'.backup = nvs.backup
    BY <2>3, <2>4, SettingsAfter DEF IInv
  <2>6. Saves(nvs', verified')
    BY <1>1, <2>5, WhileOn DEF Saves
  <2>7. Agreement(p, nvs', verified')
    BY <1>1, <1>4, <2>2, WhileOn, ConfigFacts DEF Agreement, Sensible, Trusted, Portal
  <2> QED BY <1>2, <2>4, <2>6, <2>7, Established
<1> QED BY <1>3, <1>4

-----------------------------------------------------------------------------
(* Blynk.Edgent and its user. *)

LEMMA Attaching == ASSUME IInv, PortalClient PROVE IInv'
<1>1. PICK mode \in Portal : Provisions([prov EXCEPT !.mode = mode], <<>>)
  BY DEF PortalClient
<1>2. prov.mode \in Portal /\ mode \in Mode
  BY DEF PortalClient, PortalServes, Mode
<1> QED BY <1>1, <1>2, Moving

LEMMA Submitting == ASSUME IInv, PortalSubmits PROVE IInv'
<1>1. /\ On /\ prov.mode \in Portal /\ submissions' = submissions + 1
      /\ submissions < MaxSubmissions
      /\ prov.fallback => prov.config.valid
      /\ UNCHANGED <<history, stayAwake, resets>>
  BY DEF PortalSubmits, PortalServes
<1>2. PICK network \in Networks, forced \in BOOLEAN :
          LET candidate == [network |-> network, valid |-> forced]
          IN  Serves(outage, [prov EXCEPT !.config = candidate, !.mode = "SWITCH_TO_STA",
                                          !.recovery = "IDLE"],
                     When(forced, ConfigWrites(candidate)))
  BY DEF PortalSubmits
<1> DEFINE candidate == [network |-> network, valid |-> forced]
           p == [prov EXCEPT !.config = candidate, !.mode = "SWITCH_TO_STA",
                             !.recovery = "IDLE"]
           w == When(forced, ConfigWrites(candidate))
<1>3. Handles(outage, p, uploaded, timedOut, w)
  BY <1>2 DEF Serves
<1>4. /\ candidate \in Config /\ candidate.valid = forced /\ candidate.network = network
      /\ candidate # NoConfig
  BY ConfigFacts DEF Config
<1> HIDE DEF candidate
<1>5. /\ p \in Prov
      /\ p.config = candidate /\ p.good = prov.good /\ p.mode = "SWITCH_TO_STA"
      /\ p.requested = prov.requested /\ p.fallback = prov.fallback
      /\ p.started = prov.started /\ p.recovery = "IDLE"
  BY <1>1, <1>4, WhileOn DEF Prov, Mode
<1>6. /\ ConfigWrites(candidate) \in Seq(Call)
      /\ Values(ConfigWrites(candidate), "blynk") = {candidate}
      /\ Values(ConfigWrites(candidate), "marker") = {}
      /\ Values(ConfigWrites(candidate), "backup") = {}
  BY <1>4, ConfigValues DEF Only, Setting
<1>7. /\ w \in Seq(Call) /\ Values(w, "marker") = {} /\ Values(w, "backup") = {}
      /\ Values(w, "blynk") = IF forced THEN {candidate} ELSE {}
  BY <1>6, WhenValues
<1> HIDE DEF p, w
<1>8. /\ MachineOK' /\ May(w)
      /\ Gone \/ (prov' = p /\ power' = power /\ Must(w))
  BY <1>1, <1>3, <1>5, <1>7, WhileOn, Handling DEF IInv
<1>9. WorldOK' /\ verified' = verified
  BY <1>1, FallbackAssumption DEF IInv, WorldOK, history
<1>10. /\ nvs'.marker = nvs.marker /\ nvs'.backup = nvs.backup
       /\ nvs'.blynk = nvs.blynk \/ (forced /\ nvs'.blynk = candidate)
       /\ Must(w) => nvs'.blynk = IF forced THEN candidate ELSE nvs.blynk
  BY <1>7, <1>8, SettingsAfter DEF IInv
<1>11. verified # {} => /\ prov.requested /\ prov.fallback /\ nvs.marker
                        /\ nvs.blynk.valid /\ nvs.blynk.network \in verified
  BY <1>1, WhileOn DEF Trusted, Sensible
<1>12. Saves(nvs', verified')
  BY <1>1, <1>9, <1>10, <1>11, WhileOn DEF Saves
<1>13. ASSUME Must(w) PROVE Agreement(p, nvs', verified')
  <2>1. ~prov.requested => prov.good = NoConfig
    BY <1>1, WhileOn DEF Sensible
  <2>2. Sensible(p, nvs')
    BY <1>1, <1>4, <1>5, <1>10, <1>13, <2>1, WhileOn DEF Sensible, Portal
  <2>3. Trusted(p, nvs', verified')
    BY <1>1, <1>4, <1>5, <1>9, <1>10, <1>11, <1>13, WhileOn DEF Trusted, Portal
  <2> QED BY <2>2, <2>3 DEF Agreement
<1> QED BY <1>8, <1>9, <1>12, <1>13, Established

LEMMA Failing ==
    ASSUME IInv, NEW mode \in {"ERROR", "WAIT_CONFIG"}, EdgentFails(mode),
           \/ prov.mode \in {"CONNECTING_NET", "CONNECTING_CLOUD"} /\ mode = "ERROR"
           \/ prov.mode = "CONNECTING_CLOUD" /\ ~prov.config.valid
    PROVE  IInv'
<1>1. CASE prov.config.valid
  BY <1>1, Moving DEF EdgentFails, Mode
<1>2. CASE ~prov.config.valid
  <2> DEFINE p == [prov EXCEPT !.config = NoConfig, !.mode = mode]
  <2>1. PICK saved \in BOOLEAN : Provisions(p, When(saved, ConfigWrites(NoConfig)))
    BY <1>2 DEF EdgentFails
  <2> DEFINE w == When(saved, ConfigWrites(NoConfig))
  <2>2. On
    BY <2>1 DEF Provisions
  <2>3. /\ p \in Prov
        /\ p.config = NoConfig /\ p.good = prov.good /\ p.mode = mode
        /\ p.requested = prov.requested /\ p.fallback = prov.fallback
        /\ p.started = prov.started /\ p.recovery = prov.recovery
    BY <2>2, WhileOn, ConfigFacts DEF Prov, Mode, Portal
  <2>4. /\ ConfigWrites(NoConfig) \in Seq(Call)
        /\ Values(ConfigWrites(NoConfig), "marker") = {}
        /\ Values(ConfigWrites(NoConfig), "backup") = {}
    BY ConfigFacts, ConfigValues DEF Only, Setting
  <2>5. w \in Seq(Call) /\ Values(w, "marker") = {} /\ Values(w, "backup") = {}
    BY <2>4, WhenValues
  <2> HIDE DEF p, w
  <2>6. /\ MachineOK' /\ WorldOK' /\ May(w) /\ verified' = verified
        /\ Gone \/ (prov' = p /\ power' = power)
    BY <2>1, <2>3, <2>5, Providing DEF w
  <2>7. nvs'.marker = nvs.marker /\ nvs'.backup = nvs.backup
    BY <2>5, <2>6, SettingsAfter DEF IInv
  <2>8. /\ verified # {} => prov.requested /\ prov.fallback /\ nvs.marker
        /\ prov.requested \/ (~prov.started /\ prov.good = NoConfig)
        /\ prov.recovery # "CONNECTING"
    BY <1>2, <2>2, WhileOn DEF Trusted, Sensible, Portal
  <2>9. Saves(nvs', verified')
    BY <2>2, <2>6, <2>7, <2>8, WhileOn DEF Saves
  <2>10. Sensible(p, nvs')
    BY <2>2, <2>3, <2>8, WhileOn, ConfigFacts DEF Sensible, Portal
  <2>11. Trusted(p, nvs', verified')
    BY <2>2, <2>3, <2>6, <2>7, <2>8, WhileOn, ConfigFacts DEF Trusted, Portal
  <2> QED BY <2>6, <2>9, <2>10, <2>11, Established DEF Agreement
<1> QED BY <1>1, <1>2

LEMMA EdgentMoves ==
    ASSUME IInv, EdgentSwitches \/ EdgentJoinsNetwork \/ EdgentGivesUp \/ EdgentLoses
    PROVE  IInv'
<1>1. CASE EdgentSwitches
  BY <1>1, Moving DEF EdgentSwitches, Mode
<1>2. CASE EdgentJoinsNetwork
  BY <1>2, Moving DEF EdgentJoinsNetwork, Mode
<1>3. CASE EdgentGivesUp
  BY <1>3, Failing DEF EdgentGivesUp
<1>4. CASE EdgentLoses
  <2>1. CASE prov.mode = "CONNECTING_CLOUD" /\ Provisions([prov EXCEPT !.mode = "CONNECTING_NET"], <<>>)
    BY <2>1, Moving DEF Mode
  <2>2. CASE prov.mode = "RUNNING" /\ Provisions([prov EXCEPT !.mode = "CONNECTING_NET"], <<>>)
    BY <2>2, Moving DEF Mode
  <2>3. CASE prov.mode = "RUNNING" /\ Provisions([prov EXCEPT !.mode = "CONNECTING_CLOUD"], <<>>)
    BY <2>3, Moving DEF Mode
  <2> QED BY <1>4, <2>1, <2>2, <2>3 DEF EdgentLoses
<1> QED BY <1>1, <1>2, <1>3, <1>4

\* What BLYNK_CONNECTED counts, with the backup that it leaves.
LEMMA Counting ==
    ASSUME NEW n \in Networks
    PROVE  \/ Counted(n) = verified \cup {n} /\ (verified # {} \/ nvs'.backup = Valid(n))
           \/ Counted(n) = verified /\ verified = {}
BY DEF Counted

LEMMA LoggingIn == ASSUME IInv, BlynkConnected PROVE IInv'
<1> DEFINE p == BlynkLoggedIn(prov)
           n == prov.config.network
           m == MarkerWrites(nvs, FALSE)
           g == SaveGoodWrites(nvs, prov.config, TRUE)
           r == ResetWrites(outage)
           w == (m \o g) \o r
<1>1. On /\ prov.mode = "CONNECTING_CLOUD" /\ UNCHANGED world
  BY DEF BlynkConnected
<1>2. Handles(ResetTracking(outage, now), p, uploaded, timedOut, w) /\ WifiIsSeen
  BY DEF BlynkConnected, Serves, BlynkLoggedInWrites
<1>3. prov.config # NoConfig /\ n \in Networks /\ (prov.config.valid => prov.config = Valid(n))
  BY <1>1, WhileOn, ConfigFacts DEF Sensible
<1>4. /\ p \in Prov
      /\ p.config = prov.config /\ p.mode = "LOGGED_IN"
      /\ p.good = IF prov.requested THEN NoConfig ELSE prov.good
      /\ p.recovery = IF prov.requested THEN "IDLE" ELSE prov.recovery
      /\ p.requested = FALSE /\ p.fallback = FALSE /\ p.started = prov.started
  BY <1>1, WhileOn, ConfigFacts DEF BlynkLoggedIn, Prov, Mode
<1>5. /\ Only(m, {"marker"}) /\ Quiet(r) /\ ResetTracking(outage, now) \in Outage
      /\ Only(g, {"backup"}) /\ Values(g, "backup") \subseteq {Valid(n)}
      /\ m \in Seq(Call) /\ r \in Seq(Call) /\ g \in Seq(Call)
  BY <1>1, WhileOn, MarkerValues, SaveGoodValues, ResetQuiet DEF Only, Quiet
<1> HIDE DEF p, m, g, r
<1>6. m \o g \in Seq(Call) /\ \A k : Values(m \o g, k) = Values(m, k) \cup Values(g, k)
  BY <1>5, ConcatValues
<1>7. w \in Seq(Call) /\ \A k : Values(w, k) = Values(m \o g, k) \cup Values(r, k)
  BY <1>5, <1>6, ConcatValues
<1> HIDE DEF w
<1>8. Values(w, "blynk") = {} /\ Values(w, "backup") \subseteq {Valid(n)}
  BY <1>5, <1>6, <1>7 DEF Only, Quiet, Setting
<1>9. /\ MachineOK' /\ May(w)
      /\ Gone \/ (prov' = p /\ power' = power)
  BY <1>1, <1>2, <1>4, <1>5, <1>7, WhileOn, Handling DEF IInv
<1>10. nvs'.blynk = nvs.blynk /\ nvs'.backup \in {nvs.backup, Valid(n)}
  BY <1>8, <1>9, SettingsAfter DEF IInv
<1>11. \/ /\ verified' = verified \cup {n}
          /\ verified # {} \/ (nvs'.backup = Valid(n) /\ prov.config.valid)
       \/ verified' = verified /\ verified = {}
  <2>1. verified' = IF prov.config.valid \/ verified # {} THEN Counted(n) ELSE verified
    BY DEF BlynkConnected
  <2> QED BY <2>1, <1>3, Counting
<1>12. WorldOK'
  <2>1. verified' \subseteq Networks
    BY <1>1, <1>3, <1>11, WhileOn
  <2> QED BY <2>1, <1>1, <1>2, WorldKept DEF IInv
<1>13. nvs.marker => \/ verified = {}
                     \/ nvs.blynk.valid /\ nvs.blynk.network \in verified \cup {n}
  BY <1>1, <1>3, WhileOn DEF Sensible, Trusted
<1>14. Saves(nvs', verified')
  <2>1. Valid(n).valid /\ Valid(n).network = n /\ Valid(n) # NoConfig
    BY <1>3, ConfigFacts
  <2>2. nvs'.backup # NoConfig => nvs'.backup.valid
    BY <1>1, <1>10, <2>1, WhileOn DEF Saves
  <2>3. CASE verified # {}
    BY <2>1, <2>2, <2>3, <1>1, <1>10, <1>11, <1>13, WhileOn DEF Saves
  <2>4. CASE verified = {}
    BY <2>1, <2>2, <2>4, <1>1, <1>3, <1>10, <1>11, WhileOn DEF Saves, Sensible
  <2> QED BY <2>3, <2>4
<1>15. Sensible(p, nvs')
  BY <1>1, <1>3, <1>4, <1>10, WhileOn DEF Sensible, Portal
<1>16. Trusted(p, nvs', verified')
  <2>1. verified' # {} => n \in verified' /\ verified \subseteq verified'
    BY <1>11
  <2>2. p.good # NoConfig => p.good = prov.config
    BY <1>1, <1>4, WhileOn DEF Sensible
  <2> QED BY <2>1, <2>2, <1>4 DEF Trusted, Portal
<1> QED BY <1>9, <1>12, <1>14, <1>15, <1>16, Established DEF Agreement

LEMMA Running == ASSUME IInv, EdgentRuns PROVE IInv'
<1> DEFINE n == prov.config.network
           config == Valid(n)
           p == [prov EXCEPT !.config = config, !.mode = "RUNNING"]
           w == When(~prov.config.valid, ConfigWrites(config))
<1>1. On /\ prov.mode = "LOGGED_IN" /\ UNCHANGED <<seenAt, world>>
  BY DEF EdgentRuns
<1>2. /\ Handles(outage, p, uploaded, timedOut, w)
      /\ verified' = IF power' = "on" THEN Counted(n) ELSE verified
  BY ConfigFacts DEF EdgentRuns, Serves, Valid
<1>3. /\ prov.config # NoConfig /\ n \in Networks /\ (prov.config.valid => prov.config = config)
      /\ config \in Config /\ config.valid /\ config.network = n /\ config # NoConfig
      /\ ~prov.requested
  BY <1>1, WhileOn, ConfigFacts DEF Sensible
<1> HIDE DEF config
<1>4. /\ p \in Prov
      /\ p.config = config /\ p.good = prov.good /\ p.mode = "RUNNING"
      /\ p.requested = FALSE /\ p.fallback = prov.fallback
      /\ p.started = prov.started /\ p.recovery = prov.recovery
  BY <1>1, <1>3, WhileOn DEF Prov, Mode
<1>5. /\ ConfigWrites(config) \in Seq(Call)
      /\ Values(ConfigWrites(config), "blynk") = {config}
      /\ Values(ConfigWrites(config), "marker") = {}
      /\ Values(ConfigWrites(config), "backup") = {}
  BY <1>3, ConfigValues DEF Only, Setting
<1>6. /\ w \in Seq(Call) /\ Values(w, "marker") = {} /\ Values(w, "backup") = {}
      /\ Values(w, "blynk") = IF ~prov.config.valid THEN {config} ELSE {}
  BY <1>5, WhenValues
<1> HIDE DEF p, w
<1>7. /\ MachineOK' /\ May(w)
      /\ Gone \/ (prov' = p /\ power' = power /\ Must(w))
  BY <1>1, <1>2, <1>4, <1>6, WhileOn, Handling DEF IInv
<1>8. /\ nvs'.marker = nvs.marker /\ nvs'.backup = nvs.backup
      /\ nvs'.blynk \in {nvs.blynk, config}
      /\ Must(w) => nvs'.blynk = config
  BY <1>1, <1>3, <1>6, <1>7, WhileOn, SettingsAfter DEF IInv, Sensible
<1>9. \/ verified' = verified \cup {n} /\ (verified # {} \/ nvs'.backup = config) /\ ~Gone
      \/ verified' = verified /\ (verified = {} \/ Gone)
  BY <1>2, <1>3, <1>7, <1>1, Counting DEF Gone, On, config
<1>10. WorldOK'
  <2>1. verified' \subseteq Networks
    BY <1>1, <1>3, <1>9, WhileOn
  <2> QED BY <2>1, <1>1 DEF IInv, WorldOK, world
<1>11. verified # {} => n \in verified
  BY <1>1, WhileOn DEF Trusted
<1>12. Saves(nvs', verified')
  <2>1. CASE verified # {}
    <3>1. verified' = verified
      BY <2>1, <1>9, <1>11
    <3> QED BY <2>1, <3>1, <1>1, <1>3, <1>8, <1>11, WhileOn DEF Saves
  <2>2. CASE verified = {}
    BY <2>2, <1>1, <1>3, <1>7, <1>8, <1>9, WhileOn DEF Saves
  <2> QED BY <2>1, <2>2
<1>13. ASSUME Must(w) PROVE Agreement(p, nvs', verified')
  <2>1. prov.good # NoConfig => prov.good = config /\ prov.good.valid
    BY <1>1, <1>3, WhileOn DEF Sensible
  <2>2. Sensible(p, nvs')
    BY <1>1, <1>3, <1>4, <1>8, <1>13, <2>1, WhileOn DEF Sensible, Portal
  <2>3. verified' # {} => n \in verified'
    BY <1>9, <1>11
  <2>4. Trusted(p, nvs', verified')
    BY <1>3, <1>4, <2>1, <2>3 DEF Trusted, Portal
  <2> QED BY <2>2, <2>4 DEF Agreement
<1> QED BY <1>7, <1>10, <1>12, <1>13, Established

LEMMA Reviving == ASSUME IInv, SavedWifiRestores PROVE IInv'
BY Restoring DEF SavedWifiRestores

-----------------------------------------------------------------------------
(* The start of the device. *)

LEMMA BootCalls ==
    ASSUME NEW s \in Nvs
    PROVE  LET c == ConfigAtBoot(s)
               w == BootWrites(s)
           IN  /\ c \in Config /\ Booted(s) \in Prov
               /\ w \in Seq(Call)
               /\ Values(w, "blynk") = IF c # s.blynk THEN {c} ELSE {}
               /\ Values(w, "marker") # {} => s.backup = NoConfig /\ ~c.valid
               /\ Values(w, "backup") # {} => s.backup = NoConfig /\ c.valid
               /\ Values(w, "backup") \subseteq {Valid(c.network)}
<1> DEFINE c == ConfigAtBoot(s)
           x == ConfigWrites(c)
           y == MarkerWrites(s, FALSE)
           z == SaveGoodWrites(s, c, FALSE)
           u == When(c # s.blynk, x)
           v == When(s.backup = NoConfig /\ ~c.valid, y)
           w == When(c.valid, z)
<1>1. c \in Config /\ s.marker \in BOOLEAN /\ c.valid \in BOOLEAN
  BY NvsFields, ConfigFacts DEF ConfigAtBoot
<1>2. Booted(s) \in Prov
  <2> DEFINE f == s.marker /\ c.valid
             g == IF c.valid THEN c ELSE NoConfig
             m == IF c.valid /\ ~f THEN "CONNECTING_NET" ELSE "WAIT_CONFIG"
             r == ~c.valid \/ f
  <2>1. f \in BOOLEAN /\ g \in Config /\ m \in Mode /\ r \in BOOLEAN
    BY <1>1, ConfigFacts DEF Mode, Portal
  <2>2. Booted(s) = [config |-> c, good |-> g, requested |-> r, fallback |-> f, mode |-> m,
                     recovery |-> "IDLE", started |-> c.valid]
    BY DEF Booted
  <2> HIDE DEF c, f, g, m, r
  <2> QED BY <1>1, <2>1, <2>2 DEF Prov
<1>3. BootWrites(s) = (u \o v) \o w
  BY DEF BootWrites
<1> HIDE DEF c
<1>4. Only(x, {"blynk"}) /\ Values(x, "blynk") = {c}
  BY <1>1, ConfigValues
<1>5. Only(y, {"marker"})
  BY <1>1, MarkerValues
<1>6. /\ Only(z, {"backup"})
      /\ Values(z, "backup") \subseteq {Valid(c.network)}
      /\ Values(z, "backup") = {} \/ s.backup = NoConfig
  BY <1>1, SaveGoodValues
<1>7. x \in Seq(Call) /\ y \in Seq(Call) /\ z \in Seq(Call)
  BY <1>4, <1>5, <1>6, OnlyParts
<1> HIDE DEF x, y, z
<1>8. /\ u \in Seq(Call) /\ v \in Seq(Call) /\ w \in Seq(Call)
      /\ \A k : Values(u, k) = IF c # s.blynk THEN Values(x, k) ELSE {}
      /\ \A k : Values(v, k) = IF s.backup = NoConfig /\ ~c.valid THEN Values(y, k) ELSE {}
      /\ \A k : Values(w, k) = IF c.valid THEN Values(z, k) ELSE {}
  BY <1>7, WhenValues
<1> HIDE DEF u, v, w
<1>9. u \o v \in Seq(Call) /\ \A k : Values(u \o v, k) = Values(u, k) \cup Values(v, k)
  BY <1>8, ConcatValues
<1>10. /\ (u \o v) \o w \in Seq(Call)
       /\ \A k : Values((u \o v) \o w, k) = Values(u \o v, k) \cup Values(w, k)
  <2> DEFINE a == u \o v
  <2>1. a \in Seq(Call)
    BY <1>9
  <2> HIDE DEF a
  <2>2. a \o w \in Seq(Call) /\ \A k : Values(a \o w, k) = Values(a, k) \cup Values(w, k)
    BY <1>8, <2>1, ConcatValues
  <2> QED BY <2>2 DEF a
<1>11. /\ Values(x, "marker") = {} /\ Values(x, "backup") = {}
       /\ Values(y, "blynk") = {} /\ Values(y, "backup") = {}
       /\ Values(z, "blynk") = {} /\ Values(z, "marker") = {}
  BY <1>4, <1>5, <1>6, OnlyParts DEF Setting
<1> DEFINE t == (u \o v) \o w
<1>12. \A k : Values(t, k) = Values(u, k) \cup Values(v, k) \cup Values(w, k)
  BY <1>9, <1>10
<1>13. t \in Seq(Call)
  BY <1>10
<1> HIDE DEF t
<1>14. Values(t, "blynk") = IF c # s.blynk THEN {c} ELSE {}
  BY <1>4, <1>8, <1>11, <1>12
<1>15. Values(t, "marker") # {} => s.backup = NoConfig /\ ~c.valid
  BY <1>8, <1>11, <1>12
<1>16. /\ Values(t, "backup") # {} => s.backup = NoConfig /\ c.valid
       /\ Values(t, "backup") \subseteq {Valid(c.network)}
  BY <1>6, <1>8, <1>11, <1>12
<1>17. BootWrites(s) = t
  BY <1>3 DEF t
<1> QED BY <1>1, <1>2, <1>13, <1>14, <1>15, <1>16, <1>17 DEF c

LEMMA Booting == ASSUME IInv, Setup PROVE IInv'
<1> DEFINE c == ConfigAtBoot(nvs)
           p == Booted(nvs)
           timerWake == power = "asleep"
           o == Restored(nvs, now, timerWake)
           u == RestoreWrites(nvs, timerWake)
           v == BootWrites(nvs)
           w == u \o v
<1>1. /\ MachineOK /\ WorldOK /\ nvs \in Nvs /\ now \in Nat /\ timerWake \in BOOLEAN
      /\ Saves(nvs, verified)
  BY DEF IInv, MachineOK
<1>2. /\ \/ /\ power' = "on" /\ wakeAt' = 0
            /\ outage' = o /\ prov' = p
            /\ Stored(w)
            /\ UNCHANGED <<now, clockValid, uploaded, timedOut>>
         \/ Torn(w)
      /\ UNCHANGED <<history, world>>
  BY DEF Setup
<1>3. o \in Outage /\ Quiet(u) /\ u \in Seq(Call)
  BY <1>1, RestoreQuiet DEF Quiet
<1>4. /\ c \in Config /\ p \in Prov
      /\ v \in Seq(Call)
      /\ Values(v, "blynk") = IF c # nvs.blynk THEN {c} ELSE {}
      /\ Values(v, "marker") # {} => nvs.backup = NoConfig /\ ~c.valid
      /\ Values(v, "backup") # {} => nvs.backup = NoConfig /\ c.valid
      /\ Values(v, "backup") \subseteq {Valid(c.network)}
  BY <1>1, BootCalls
<1>5. c = IF nvs.marker /\ nvs.backup # NoConfig THEN nvs.backup ELSE nvs.blynk
  BY DEF ConfigAtBoot
<1>6. nvs.marker \in BOOLEAN /\ nvs.backup \in Config /\ nvs.blynk \in Config
  BY <1>1, NvsFields
<1>7. LET f == nvs.marker /\ c.valid
      IN  /\ p.config = c /\ p.good = IF c.valid THEN c ELSE NoConfig
          /\ p.requested = (~c.valid \/ f) /\ p.fallback = f
          /\ p.mode = IF c.valid /\ ~f THEN "CONNECTING_NET" ELSE "WAIT_CONFIG"
          /\ p.recovery = "IDLE" /\ p.started = c.valid
  BY DEF Booted
<1> HIDE DEF c, p, o, u, v, timerWake
<1>8. /\ w \in Seq(Call)
      /\ \A k \in Setting : Values(w, k) = Values(v, k)
  <2>1. w \in Seq(Call) /\ \A k : Values(w, k) = Values(u, k) \cup Values(v, k)
    BY <1>3, <1>4, ConcatValues
  <2> QED BY <2>1, <1>3 DEF Quiet
<1> HIDE DEF w
<1>9. WorldOK' /\ verified' = verified
  BY <1>1, <1>2 DEF WorldOK, history, world
<1>10. MachineOK' /\ May(w) /\ (Gone \/ (prov' = p /\ Must(w)))
  <2>1. CASE Torn(w)
    BY <2>1, <1>1, <1>8, Tearing
  <2>2. CASE /\ power' = "on" /\ wakeAt' = 0
             /\ outage' = o /\ prov' = p
             /\ Stored(w)
             /\ UNCHANGED <<now, clockValid, uploaded, timedOut>>
    <3>1. nvs' \in Nvs /\ faults' \in 0 .. MaxFaults /\ May(w) /\ Must(w)
      BY <2>2, <1>1, <1>8, ResultOfWrites
    <3> QED BY <2>2, <3>1, <1>1, <1>3, <1>4 DEF MachineOK
  <2> QED BY <1>2, <2>1, <2>2
<1>11. /\ nvs'.marker \in {nvs.marker} \cup Values(v, "marker")
       /\ nvs'.backup \in {nvs.backup} \cup Values(v, "backup")
       /\ nvs'.blynk \in {nvs.blynk} \cup Values(v, "blynk")
       /\ Must(w) /\ Values(v, "blynk") # {} => nvs'.blynk \in Values(v, "blynk")
  BY <1>1, <1>8, <1>10, SettingsAfter DEF Setting
<1>12. /\ nvs'.marker = nvs.marker \/ (nvs.backup = NoConfig /\ ~c.valid)
       /\ \/ nvs'.backup = nvs.backup
          \/ nvs.backup = NoConfig /\ c.valid /\ nvs'.backup = Valid(c.network)
       /\ nvs'.blynk \in {nvs.blynk, c}
       /\ Must(w) => nvs'.blynk = c
  BY <1>4, <1>11
<1>13. verified # {} => /\ c.valid /\ c.network \in verified
                        /\ nvs.backup # NoConfig
  BY <1>1, <1>5, <1>6 DEF Saves
<1>14. c.valid => c.network \in Networks /\ c # NoConfig
  BY <1>4, ConfigFacts
<1>15. Saves(nvs', verified')
  <2>1. nvs'.backup # NoConfig => nvs'.backup.valid
    BY <1>1, <1>12, <1>14, ConfigFacts DEF Saves
  <2>2. ASSUME verified # {}
        PROVE  /\ nvs'.backup # NoConfig /\ nvs'.backup.network \in verified
               /\ ~nvs'.marker => nvs'.blynk.valid /\ nvs'.blynk.network \in verified
    BY <2>2, <1>1, <1>12, <1>13 DEF Saves
  <2> QED BY <2>1, <2>2, <1>9 DEF Saves
<1>16. ASSUME Must(w) PROVE Agreement(p, nvs', verified')
  <2>1. Sensible(p, nvs')
    BY <1>4, <1>7, <1>12, <1>14, <1>16 DEF Sensible, Portal
  <2>2. Trusted(p, nvs', verified')
    BY <1>7, <1>9, <1>12, <1>13, <1>16 DEF Trusted, Portal
  <2> QED BY <2>1, <2>2 DEF Agreement
<1> QED BY <1>9, <1>10, <1>15, <1>16, Established

-----------------------------------------------------------------------------
(***************************************************************************)
(* The theorems                                                            *)
(***************************************************************************)
LEMMA Initially == Init => IInv
<1> SUFFICES ASSUME Init PROVE IInv
  OBVIOUS
<1>1. /\ power = "off" /\ now = 1 /\ wakeAt = 0 /\ clockValid = FALSE
      /\ outage = NoOutage(0) /\ prov = Unprovisioned
      /\ uploaded = FALSE /\ timedOut = FALSE /\ stayAwake \in BOOLEAN
      /\ seenAt = 1 /\ faults = 0 /\ submissions = 0 /\ resets = 0
  BY DEF Init
<1>2. ASSUME NEW c \in Config
      PROVE  /\ Keys(c) \in Nvs /\ Keys(c).marker = FALSE
             /\ Keys(c).backup = c /\ Keys(c).blynk = c
  BY DEF Keys, Nvs
<1>3. /\ nvs \in Nvs /\ verified \subseteq Networks /\ Saves(nvs, verified)
      /\ Sensible(prov, nvs)
  <2>1. CASE verified = {} /\ nvs = Keys(NoConfig)
    <3>1. nvs \in Nvs /\ nvs.marker = FALSE /\ nvs.backup = NoConfig /\ nvs.blynk = NoConfig
      BY <2>1, <1>2, ConfigFacts
    <3> QED BY <2>1, <3>1, <1>1, ConfigFacts DEF Saves, Sensible, Unprovisioned, Portal
  <2>2. ASSUME NEW network \in Installed, verified = {network},
               nvs = Keys(Valid(network))
        PROVE  /\ nvs \in Nvs /\ verified \subseteq Networks /\ Saves(nvs, verified)
               /\ Sensible(prov, nvs)
    <3>1. network \in Networks
      BY FallbackAssumption
    <3>2. /\ nvs \in Nvs /\ nvs.marker = FALSE
          /\ nvs.backup = Valid(network) /\ nvs.blynk = Valid(network)
      BY <2>2, <3>1, <1>2, ConfigFacts
    <3> QED BY <2>2, <3>1, <3>2, <1>1, ConfigFacts DEF Saves, Sensible, Unprovisioned, Portal
  <2> QED BY <2>1, <2>2 DEF Init
<1>4. MachineOK /\ WorldOK
  <2>1. 0 \in 0 .. MaxFaults /\ 0 \in 0 .. MaxSubmissions /\ 0 \in 0 .. MaxResets
    BY FallbackAssumption
  <2>2. outage \in Outage /\ prov \in Prov
    BY <1>1, NothingRemembered
  <2> QED BY <1>1, <1>3, <2>1, <2>2 DEF MachineOK, WorldOK
<1>5. ~On
  BY <1>1 DEF On
<1> QED BY <1>3, <1>4, <1>5 DEF IInv

LEMMA Inductive == IInv /\ [Next]_vars => IInv'
<1> SUFFICES ASSUME IInv, [Next]_vars PROVE IInv'
  OBVIOUS
<1>1. CASE \/ NetworkTime \/ UploadFinishes \/ StartNormalMeasurementCycle
           \/ SetDeepSleepDisabled \/ Tick
  BY <1>1, Simple
<1>2. CASE ServiceSuccessfulWifiConnection  BY <1>2, Seeing
<1>3. CASE ServiceStayAwakeWifiProvisioningFallback  BY <1>3, StayingAwake
<1>4. CASE AbortEdgentConnectionForThisCycle  BY <1>4, Aborting
<1>5. CASE EnterTimedDeepSleep  BY <1>5, Sleeping
<1>6. CASE PowerLossOrReset  BY <1>6, Resetting
<1>7. CASE Setup  BY <1>7, Booting
<1>8. CASE SavedWifiRestores  BY <1>8, Reviving
<1>9. CASE SavedWifiBegins  BY <1>9, Beginning
<1>10. CASE SavedWifiConnects  BY <1>10, Connecting
<1>11. CASE SavedWifiTimesOut  BY <1>11, TimingOut
<1>12. CASE ModeError  BY <1>12, Erring
<1>13. CASE ModeResetConfig  BY <1>13, Erasing
<1>14. CASE FirstCycle  BY <1>14, Starting
<1>15. CASE ButtonReset  BY <1>15, Pressing
<1>16. CASE PortalClient  BY <1>16, Attaching
<1>17. CASE PortalSubmits  BY <1>17, Submitting
<1>18. CASE EdgentSwitches \/ EdgentJoinsNetwork \/ EdgentGivesUp \/ EdgentLoses
  BY <1>18, EdgentMoves
<1>19. CASE BlynkConnected  BY <1>19, LoggingIn
<1>20. CASE EdgentRuns  BY <1>20, Running
<1>21. CASE UNCHANGED vars
  <2>1. MachineOK' /\ WorldOK'
    BY <1>21 DEF vars, clock, history, world, IInv, MachineOK, WorldOK
  <2>2. Same /\ verified' = verified /\ prov' = prov /\ power' = power
    BY <1>21 DEF vars, history, Same
  <2> QED BY <2>1, <2>2, Unaffected
<1> QED
  BY <1>1, <1>2, <1>3, <1>4, <1>5, <1>6, <1>7, <1>8, <1>9, <1>10, <1>11, <1>12, <1>13, <1>14,
     <1>15, <1>16, <1>17, <1>18, <1>19, <1>20, <1>21 DEF Next

\* IInv is an invariant: the backup, Blynk's configuration, the marker and the copies
\* in RAM agree in every state, whatever was cut short before.
THEOREM Invariant == Spec => []IInv
BY Initially, Inductive, PTL DEF Spec

\* TypeOK: what the handlers leave in RAM and in NVS has its type, however their calls
\* ended; a checkpoint never takes the outage time below zero and no bound is passed.
THEOREM TypeCorrect == Spec => []TypeOK
<1>1. IInv => TypeOK
  BY TypeParts DEF IInv
<1> QED BY <1>1, Invariant, PTL

\* BootFindsVerified: whenever the power is lost, and however many of the calls before
\* were cut short or failed, setup() finds valid credentials of a network that has worked.
THEOREM BootAlwaysFindsVerified == Spec => []BootFindsVerified
<1>1. IInv => BootFindsVerified
  <2> SUFFICES ASSUME IInv, verified # {}
               PROVE  ConfigAtBoot(nvs).valid /\ ConfigAtBoot(nvs).network \in verified
    BY DEF BootFindsVerified
  <2>1. Saves(nvs, verified)
    BY DEF IInv
  <2> QED BY <2>1 DEF Saves, ConfigAtBoot
<1> QED BY <1>1, Invariant, PTL

-----------------------------------------------------------------------------
(* The keys of the outage. *)

Tracking == {"active", "started", "elapsed", "sleep"}

\* The calls of the provisioning leave them alone.
Settles(writes) == writes \in Seq(Call) /\ \A k \in Tracking : Values(writes, k) = {}

LEMMA SettlesParts ==
    /\ Settles(<<>>)
    /\ \A u, v : Settles(u) /\ Settles(v) => Settles(u \o v)
    /\ \A c, u : Settles(u) => Settles(When(c, u))
    /\ \A c \in Call : c.key \notin Tracking => Settles(<<c>>)
<1>1. Settles(<<>>)
  BY NoValues DEF Settles
<1>2. ASSUME NEW u, NEW v, Settles(u), Settles(v) PROVE Settles(u \o v)
  BY <1>2, ConcatValues DEF Settles
<1>3. ASSUME NEW c, NEW u, Settles(u) PROVE Settles(When(c, u))
  BY <1>3, WhenValues DEF Settles
<1>4. ASSUME NEW c \in Call, c.key \notin Tracking PROVE Settles(<<c>>)
  BY <1>4, OneValue DEF Settles
<1> QED BY <1>1, <1>2, <1>3, <1>4

LEMMA MarkerSettles ==
    ASSUME NEW s, NEW b \in BOOLEAN PROVE Settles(MarkerWrites(s, b))
<1>1. Write("marker", b) \in Call /\ Write("marker", b).key \notin Tracking
  BY DEF Write, Call, Tracking
<1> QED BY <1>1, SettlesParts DEF MarkerWrites

LEMMA ConfigSettles == ASSUME NEW c \in Config PROVE Settles(ConfigWrites(c))
<1>1. Write("blynk", c) \in Call /\ Write("blynk", c).key \notin Tracking
  BY DEF Write, Call, Tracking
<1> QED BY <1>1, SettlesParts DEF ConfigWrites

LEMMA SaveGoodSettles ==
    ASSUME NEW s, NEW c \in Config, NEW replace PROVE Settles(SaveGoodWrites(s, c, replace))
<1> DEFINE saved == [c EXCEPT !.valid = TRUE]
           needed == /\ c.network # "none"
                     /\ s.backup # saved
                     /\ s.backup = NoConfig \/ replace
<1>1. SaveGoodWrites(s, c, replace) = When(needed, <<Write("backup", saved)>>)
  BY DEF SaveGoodWrites
<1>2. CASE needed
  <2>1. saved \in Config
    BY <1>2, ConfigFacts
  <2> HIDE DEF saved
  <2>2. Write("backup", saved) \in Call /\ Write("backup", saved).key \notin Tracking
    BY <2>1 DEF Write, Call, Tracking
  <2> QED BY <1>1, <2>2, SettlesParts
<1>3. CASE ~needed
  BY <1>1, <1>3, SettlesParts DEF When
<1> QED BY <1>2, <1>3

LEMMA FallbackSettles ==
    ASSUME NEW s, NEW p \in Prov PROVE Settles(EnterFallbackWrites(s, p))
<1>1. p.config \in Config
  BY DEF Prov
<1> QED BY <1>1, SaveGoodSettles, MarkerSettles, SettlesParts DEF EnterFallbackWrites

LEMMA RestoreSavedSettles ==
    ASSUME NEW s \in Nvs, NEW p \in Prov PROVE Settles(RestoreSavedWrites(s, p))
<1>1. SavedConfig(s, p) \in Config
  BY NvsFields DEF SavedConfig, Prov
<1> QED BY <1>1, ConfigSettles, SettlesParts DEF RestoreSavedWrites

LEMMA LoggedInSettles ==
    ASSUME NEW s, NEW p \in Prov PROVE Settles(BlynkLoggedInWrites(s, p))
<1>1. p.config \in Config
  BY DEF Prov
<1> QED BY <1>1, SaveGoodSettles, MarkerSettles, SettlesParts DEF BlynkLoggedInWrites

LEMMA ExplicitResetSettles == ASSUME NEW s PROVE Settles(ExplicitResetWrites(s))
<1> DEFINE m == MarkerWrites(s, FALSE)
           b == <<Write("backup", NoConfig)>>
           c == ConfigWrites(NoConfig)
<1>1. Write("backup", NoConfig) \in Call /\ Write("backup", NoConfig).key \notin Tracking
  BY ConfigFacts DEF Write, Call, Tracking
<1>2. Settles(m) /\ Settles(b) /\ Settles(c)
  BY <1>1, ConfigFacts, MarkerSettles, ConfigSettles, SettlesParts
<1> HIDE DEF m, b, c
<1>3. Settles((m \o b) \o c)
  BY <1>2, SettlesParts
<1> QED BY <1>3 DEF ExplicitResetWrites, m, b, c

LEMMA BootSettles == ASSUME NEW s \in Nvs PROVE Settles(BootWrites(s))
<1> DEFINE c == ConfigAtBoot(s)
           u == When(c # s.blynk, ConfigWrites(c))
           v == When(s.backup = NoConfig /\ ~c.valid, MarkerWrites(s, FALSE))
           w == When(c.valid, SaveGoodWrites(s, c, FALSE))
<1>1. c \in Config
  BY NvsFields DEF ConfigAtBoot
<1>2. BootWrites(s) = (u \o v) \o w
  BY DEF BootWrites
<1> HIDE DEF c
<1>3. Settles(u) /\ Settles(v) /\ Settles(w)
  BY <1>1, ConfigSettles, MarkerSettles, SaveGoodSettles, SettlesParts
<1> HIDE DEF u, v, w
<1>4. Settles((u \o v) \o w)
  BY <1>3, SettlesParts
<1> QED BY <1>2, <1>4

-----------------------------------------------------------------------------
(* How a handler ends, for the keys of the outage. *)

\* What writes may have made of them, and that all calls but those for key j were made.
MayTrack(writes) == \A k \in Tracking : nvs'[k] \in {nvs[k]} \cup Values(writes, k)
MadeBut(writes, j) ==
    \A k \in Tracking \ {j} : Values(writes, k) # {} => nvs'[k] \in Values(writes, k)

Completes(writes) ==
    /\ MayTrack(writes)
    /\ \/ faults' = faults /\ MadeBut(writes, "none")
       \/ faults = 0 /\ faults' = 1 /\ \E j : MadeBut(writes, j)

\* The power is lost on the way.
Breaks(writes) ==
    /\ MayTrack(writes)
    /\ power' = "off" /\ now' = now /\ faults = 0 /\ faults' = 1

LEMMA CallsMade ==
    ASSUME MachineOK, MaxFaults <= 1, NEW writes \in Seq(Call)
    PROVE  /\ Stored(writes) => Completes(writes)
           /\ Torn(writes) => Breaks(writes)
<1>1. DOMAIN nvs = Key /\ MaxFaults \in Nat /\ faults \in 0 .. MaxFaults /\ Tracking \subseteq Key
  BY NvsFields, FallbackAssumption DEF MachineOK, Tracking, Key
<1>2. faults < MaxFaults /\ faults' = faults + 1 => faults = 0 /\ faults' = 1
  BY <1>1
<1>3. ASSUME NEW I \in SUBSET DOMAIN writes, nvs' = Applied(nvs, writes, I)
      PROVE  MayTrack(writes)
  BY <1>1, <1>3, AppliedKey DEF MayTrack
<1>4. ASSUME NEW I \in SUBSET DOMAIN writes, nvs' = Applied(nvs, writes, I), NEW j,
             \A i \in DOMAIN writes \ I : writes[i].key = j
      PROVE  MadeBut(writes, j)
  <2> SUFFICES ASSUME NEW k \in Tracking \ {j}, Values(writes, k) # {}
               PROVE  nvs'[k] \in Values(writes, k)
    BY DEF MadeBut
  <2>1. PICK i \in DOMAIN writes : writes[i].key = k
    BY DEF Values
  <2>2. i \in I
    BY <2>1, <1>4
  <2> QED BY <2>1, <2>2, <1>1, <1>4, AppliedKey
<1>5. ASSUME nvs' = Written(nvs, writes), UNCHANGED faults PROVE Completes(writes)
  <2>1. /\ DOMAIN writes \in SUBSET DOMAIN writes
        /\ \A i \in DOMAIN writes \ DOMAIN writes : writes[i].key = "none"
    OBVIOUS
  <2> QED BY <2>1, <1>3, <1>4, <1>5 DEF Written, Completes
<1>6. ASSUME faults < MaxFaults, faults' = faults + 1,
             nvs' \in OneFailed(nvs, writes, Unfailing)
      PROVE  Completes(writes)
  <2>1. PICK i \in DOMAIN writes : nvs' = Applied(nvs, writes, DOMAIN writes \ {i})
    BY <1>6 DEF OneFailed
  <2>2. /\ DOMAIN writes \ {i} \in SUBSET DOMAIN writes
        /\ \A n \in DOMAIN writes \ (DOMAIN writes \ {i}) : writes[n].key = writes[i].key
    OBVIOUS
  <2>3. MayTrack(writes) /\ MadeBut(writes, writes[i].key)
    BY <2>1, <2>2, <1>3, <1>4
  <2> QED BY <2>3, <1>2, <1>6 DEF Completes
<1>7. ASSUME Torn(writes) PROVE Breaks(writes)
  <2>1. /\ faults < MaxFaults /\ faults' = faults + 1 /\ power' = "off" /\ now' = now
        /\ nvs' \in CutShort(nvs, writes)
    BY <1>7 DEF Torn, Dies
  <2>2. PICK n \in 0 .. Len(writes) - 1 : nvs' = Applied(nvs, writes, 1 .. n)
    BY <2>1 DEF CutShort
  <2>3. 1 .. n \in SUBSET DOMAIN writes
    BY <2>2
  <2>4. MayTrack(writes)
    BY <2>2, <2>3, <1>3
  <2> QED BY <2>1, <2>4, <1>2 DEF Breaks
<1> QED BY <1>5, <1>6, <1>7 DEF Stored

LEMMA HandlerEnds ==
    ASSUME MachineOK, MaxFaults <= 1, NEW o, NEW p, NEW isUploaded, NEW isTimedOut,
           NEW writes \in Seq(Call), Handles(o, p, isUploaded, isTimedOut, writes)
    PROVE  \/ /\ outage' = o /\ prov' = p /\ Completes(writes)
              /\ power' = power /\ now' = now /\ wakeAt' = wakeAt
           \/ Breaks(writes)
BY CallsMade DEF Handles, clock

-----------------------------------------------------------------------------
(* What the outage tracker writes. *)

LEMMA FourCalls ==
    ASSUME NEW b \in BOOLEAN, NEW n \in Nat
    PROVE  LET w == <<Write("active", b), Write("started", n), Write("elapsed", 0),
                      Write("sleep", 0)>>
           IN  /\ w \in Seq(Call)
               /\ Values(w, "active") = {b} /\ Values(w, "started") = {n}
               /\ Values(w, "elapsed") = {0} /\ Values(w, "sleep") = {0}
<1> DEFINE w == <<Write("active", b), Write("started", n), Write("elapsed", 0),
                  Write("sleep", 0)>>
<1>1. w \in Seq(Call)
  BY OutageWrites DEF Quiet
<1>2. /\ DOMAIN w = 1 .. 4
      /\ w[1].key = "active" /\ w[2].key = "started" /\ w[3].key = "elapsed" /\ w[4].key = "sleep"
      /\ w[1].value = b /\ w[2].value = n /\ w[3].value = 0 /\ w[4].value = 0
  BY DEF Write
<1> HIDE DEF w
<1>3. \A i \in 1 .. 4 : i = 1 \/ i = 2 \/ i = 3 \/ i = 4
  OBVIOUS
<1>4. 1 \in 1 .. 4 /\ 2 \in 1 .. 4 /\ 3 \in 1 .. 4 /\ 4 \in 1 .. 4
  OBVIOUS
<1>5. Values(w, "active") = {b}
  BY <1>2, <1>3, <1>4 DEF Values
<1>6. Values(w, "started") = {n}
  BY <1>2, <1>3, <1>4 DEF Values
<1>7. Values(w, "elapsed") = {0}
  BY <1>2, <1>3, <1>4 DEF Values
<1>8. Values(w, "sleep") = {0}
  BY <1>2, <1>3, <1>4 DEF Values
<1> QED BY <1>1, <1>5, <1>6, <1>7, <1>8 DEF w

LEMMA ResetValues ==
    ASSUME NEW o \in Outage
    PROVE  LET w == ResetWrites(o)
           IN  /\ w \in Seq(Call)
               /\ ~o.active => Settles(w)
               /\ o.active => /\ Values(w, "active") = {FALSE} /\ Values(w, "started") = {0}
                              /\ Values(w, "elapsed") = {0} /\ Values(w, "sleep") = {0}
<1>1. CASE o.active
  BY <1>1, FourCalls DEF ResetWrites, When
<1>2. CASE ~o.active
  BY <1>2, SettlesParts DEF ResetWrites, When, Settles
<1> QED BY <1>1, <1>2

LEMMA CheckpointValues ==
    ASSUME NEW o \in Outage, NEW t \in Nat
    PROVE  LET w == CheckpointWrites(o, t)
               e == o.elapsed + (t - o.awakeAt)
           IN  /\ w \in Seq(Call)
               /\ \A k \in Tracking \ {"elapsed"} : Values(w, k) = {}
               /\ IF o.active /\ t > o.awakeAt
                  THEN /\ Values(w, "elapsed") = {e}
                       /\ Checkpointed(o, t) = [o EXCEPT !.elapsed = e, !.awakeAt = t]
                  ELSE Values(w, "elapsed") = {} /\ Checkpointed(o, t) = o
<1> DEFINE e == o.elapsed + (t - o.awakeAt)
<1>1. CASE o.active /\ t > o.awakeAt
  <2>1. e \in Nat
    BY <1>1 DEF Outage
  <2>2. Checkpointed(o, t) = [o EXCEPT !.elapsed = e, !.awakeAt = t]
    BY <1>1 DEF Checkpointed
  <2>3. Checkpointed(o, t).elapsed = e
    BY <2>2 DEF Outage
  <2> HIDE DEF e
  <2>4. /\ Write("elapsed", e) \in Call /\ Write("elapsed", e).key = "elapsed"
        /\ Write("elapsed", e).value = e
    BY <2>1 DEF Write, Call
  <2>5. CheckpointWrites(o, t) = <<Write("elapsed", e)>>
    BY <1>1, <2>3 DEF CheckpointWrites, When
  <2>6. /\ <<Write("elapsed", e)>> \in Seq(Call)
        /\ \A k \in Tracking \ {"elapsed"} : Values(<<Write("elapsed", e)>>, k) = {}
        /\ Values(<<Write("elapsed", e)>>, "elapsed") = {e}
    BY <2>4, OneValue DEF Tracking
  <2> QED BY <1>1, <2>2, <2>5, <2>6 DEF e
<1>2. CASE ~(o.active /\ t > o.awakeAt)
  <2>1. CheckpointWrites(o, t) = <<>> /\ Checkpointed(o, t) = o
    BY <1>2 DEF CheckpointWrites, When, Checkpointed
  <2> QED BY <1>2, <2>1, NoValues
<1> QED BY <1>1, <1>2

\* A check without a known outage begins one: r is known then, and w is written.
Begins(r, w, t) ==
    /\ w \in Seq(Call)
    /\ r.active = TRUE /\ r.started \in {0, t} /\ r.elapsed = 0 /\ r.awakeAt = t
    /\ Values(w, "active") = {TRUE} /\ Values(w, "started") = {r.started}
    /\ Values(w, "elapsed") = {0} /\ Values(w, "sleep") = {0}

\* A check of an outage o that is known may checkpoint its awake time.
Continues(r, w, o, t) ==
    LET e == o.elapsed + (t - o.awakeAt)
    IN  /\ w \in Seq(Call)
        /\ r.active = TRUE /\ r.started = o.started
        /\ \/ r.elapsed = o.elapsed /\ r.awakeAt = o.awakeAt
           \/ t > o.awakeAt /\ r.elapsed = e /\ r.awakeAt = t
        /\ Values(w, "active") = {} /\ Values(w, "started") = {} /\ Values(w, "sleep") = {}
        /\ Values(w, "elapsed") \subseteq {e}

LEMMA BeginningValues ==
    ASSUME NEW o \in Outage, NEW t \in Nat, NEW c \in BOOLEAN, NEW due \in BOOLEAN,
           ~o.active
    PROVE  Begins(Evaluated(o, t, c, due), EvaluationWrites(o, t, c, due), t)
<1> DEFINE b == BeginTracking(o, t, c)
           u == BeginWrites(o, t, c)
           v == CheckpointWrites(b, t)
           x == When(due, v)
           r == Evaluated(o, t, c, due)
           w == EvaluationWrites(o, t, c, due)
           s == IF c THEN t ELSE 0
           z == <<Write("active", TRUE), Write("started", s), Write("elapsed", 0),
                  Write("sleep", 0)>>
<1>1. b = [active |-> TRUE, started |-> s, elapsed |-> 0, awakeAt |-> t]
  BY DEF BeginTracking
<1>2. u = z
  BY DEF BeginWrites, When
<1>3. s \in Nat /\ s \in {0, t}
  OBVIOUS
<1>4. /\ r = IF due THEN Checkpointed(b, t) ELSE b
      /\ w = u \o x
  BY DEF Evaluated, EvaluationWrites
<1> HIDE DEF s
<1>5. /\ z \in Seq(Call)
      /\ Values(z, "active") = {TRUE} /\ Values(z, "started") = {s}
      /\ Values(z, "elapsed") = {0} /\ Values(z, "sleep") = {0}
  BY <1>3, FourCalls
<1>6. b.active = TRUE /\ b.started = s /\ b.elapsed = 0 /\ b.awakeAt = t
  BY <1>1
<1>7. Checkpointed(b, t) = b /\ x = <<>>
  BY <1>6 DEF Checkpointed, CheckpointWrites, When
<1> HIDE DEF b, u, v, x, z, r, w
<1>8. r = b
  BY <1>4, <1>7
<1>9. w \in Seq(Call) /\ \A k : Values(w, k) = Values(z, k)
  BY <1>2, <1>4, <1>5, <1>7, NoValues, ConcatValues
<1>10. Begins(r, w, t)
  BY <1>3, <1>5, <1>6, <1>8, <1>9 DEF Begins
<1> QED BY <1>10 DEF r, w

LEMMA ContinuingValues ==
    ASSUME NEW o \in Outage, NEW t \in Nat, NEW c \in BOOLEAN, NEW due \in BOOLEAN,
           o.active
    PROVE  Continues(Evaluated(o, t, c, due), EvaluationWrites(o, t, c, due), o, t)
<1> DEFINE b == BeginTracking(o, t, c)
           u == BeginWrites(o, t, c)
           v == CheckpointWrites(b, t)
           x == When(due, v)
           r == Evaluated(o, t, c, due)
           w == EvaluationWrites(o, t, c, due)
           e == o.elapsed + (t - o.awakeAt)
<1>1. b = o /\ u = <<>>
  BY DEF BeginTracking, BeginWrites, When
<1>2. /\ v \in Seq(Call)
      /\ \A k \in Tracking \ {"elapsed"} : Values(v, k) = {}
      /\ IF t > o.awakeAt
         THEN /\ Values(v, "elapsed") = {e}
              /\ Checkpointed(o, t) = [o EXCEPT !.elapsed = e, !.awakeAt = t]
         ELSE Values(v, "elapsed") = {} /\ Checkpointed(o, t) = o
  BY <1>1, CheckpointValues
<1>3. /\ r = IF due THEN Checkpointed(b, t) ELSE b
      /\ w = u \o x
  BY DEF Evaluated, EvaluationWrites
<1>4. /\ r.active = TRUE /\ r.started = o.started
      /\ \/ r.elapsed = o.elapsed /\ r.awakeAt = o.awakeAt
         \/ t > o.awakeAt /\ r.elapsed = e /\ r.awakeAt = t
  <2> HIDE DEF e
  <2>1. CASE due /\ t > o.awakeAt
    BY <2>1, <1>1, <1>2, <1>3 DEF Outage
  <2>2. CASE ~(due /\ t > o.awakeAt)
    BY <2>2, <1>1, <1>2, <1>3 DEF Outage
  <2> QED BY <2>1, <2>2
<1> HIDE DEF b, u, v
<1>5. x \in Seq(Call) /\ \A k : Values(x, k) = IF due THEN Values(v, k) ELSE {}
  BY <1>2, WhenValues
<1> HIDE DEF x, r, w
<1>6. w \in Seq(Call) /\ \A k : Values(w, k) = Values(x, k)
  BY <1>1, <1>3, <1>5, NoValues, ConcatValues
<1>7. Values(w, "active") = {} /\ Values(w, "started") = {} /\ Values(w, "sleep") = {}
  BY <1>2, <1>5, <1>6 DEF Tracking
<1>8. Values(w, "elapsed") \subseteq {e}
  BY <1>2, <1>5, <1>6
<1>9. Continues(r, w, o, t)
  BY <1>4, <1>6, <1>7, <1>8 DEF Continues
<1> QED BY <1>9 DEF r, w

\* The calls w of a sleep of d ticks.
SleepCalls(w, o, t, d) ==
    /\ w \in Seq(Call)
    /\ ~o.active => Settles(w)
    /\ Values(w, "active") = {} /\ Values(w, "started") = {}
    /\ Values(w, "elapsed") \subseteq {o.elapsed + (t - o.awakeAt)}
    /\ o.active => Values(w, "sleep") = {d}

LEMMA SleepValues ==
    ASSUME NEW o \in Outage, NEW t \in Nat, NEW d \in Nat
    PROVE  SleepCalls(SleepWrites(o, t, d), o, t, d)
<1> DEFINE u == CheckpointWrites(o, t)
           y == <<Write("sleep", d)>>
           v == When(o.active, y)
           w == u \o v
           e == o.elapsed + (t - o.awakeAt)
<1>1. /\ u \in Seq(Call)
      /\ \A k \in Tracking \ {"elapsed"} : Values(u, k) = {}
      /\ IF o.active /\ t > o.awakeAt THEN Values(u, "elapsed") = {e} ELSE Values(u, "elapsed") = {}
  BY CheckpointValues
<1>2. Write("sleep", d) \in Call /\ Write("sleep", d).key = "sleep" /\ Write("sleep", d).value = d
  BY DEF Write, Call
<1>3. y \in Seq(Call) /\ \A k : Values(y, k) = IF k = "sleep" THEN {d} ELSE {}
  BY <1>2, OneValue
<1> HIDE DEF u, y, e
<1>4. v \in Seq(Call) /\ \A k : Values(v, k) = IF o.active THEN Values(y, k) ELSE {}
  BY <1>3, WhenValues
<1> HIDE DEF v
<1>5. w \in Seq(Call) /\ \A k : Values(w, k) = Values(u, k) \cup Values(v, k)
  BY <1>1, <1>4, ConcatValues
<1>6. SleepWrites(o, t, d) = w
  BY DEF SleepWrites, u, v, y
<1> HIDE DEF w
<1>7. /\ ~o.active => Settles(w)
      /\ Values(w, "active") = {} /\ Values(w, "started") = {}
      /\ Values(w, "elapsed") \subseteq {e}
      /\ o.active => Values(w, "sleep") = {d}
  BY <1>1, <1>3, <1>4, <1>5 DEF Settles, Tracking
<1> QED BY <1>5, <1>6, <1>7 DEF e, SleepCalls

\* The calls w of a start that finds the keys s, after a sleep that counts x ticks.
RestoreCalls(w, s, x) ==
    /\ w \in Seq(Call)
    /\ Values(w, "active") = {} /\ Values(w, "started") = {}
    /\ Values(w, "elapsed") \subseteq {s.elapsed + x}
    /\ x > 0 \/ Values(w, "elapsed") = {}
    /\ Values(w, "sleep") = {0}

LEMMA RestoreValues ==
    ASSUME NEW s \in Nvs, NEW timerWake \in BOOLEAN
    PROVE  RestoreCalls(RestoreWrites(s, timerWake), s, Slept(s, timerWake))
<1> DEFINE e == s.elapsed + Slept(s, timerWake)
           c == Slept(s, timerWake) > 0
           u == <<Write("sleep", 0)>>
           y == <<Write("elapsed", e)>>
           v == When(c, y)
           w == u \o v
<1>1. e \in Nat
  BY NvsFields DEF Slept
<1> HIDE DEF e, c
<1>2. /\ Write("sleep", 0) \in Call /\ Write("sleep", 0).key = "sleep" /\ Write("sleep", 0).value = 0
      /\ Write("elapsed", e) \in Call /\ Write("elapsed", e).key = "elapsed"
      /\ Write("elapsed", e).value = e
  BY <1>1 DEF Write, Call
<1>3. /\ u \in Seq(Call) /\ \A k : Values(u, k) = IF k = "sleep" THEN {0} ELSE {}
      /\ y \in Seq(Call) /\ \A k : Values(y, k) = IF k = "elapsed" THEN {e} ELSE {}
  BY <1>2, OneValue
<1> HIDE DEF u, y
<1>4. v \in Seq(Call) /\ \A k : Values(v, k) = IF c THEN Values(y, k) ELSE {}
  BY <1>3, WhenValues
<1> HIDE DEF v
<1>5. w \in Seq(Call) /\ \A k : Values(w, k) = Values(u, k) \cup Values(v, k)
  BY <1>3, <1>4, ConcatValues
<1>6. RestoreWrites(s, timerWake) = w
  BY DEF RestoreWrites, u, v, y, c, e
<1> HIDE DEF w
<1>7. /\ Values(w, "active") = {} /\ Values(w, "started") = {}
      /\ Values(w, "elapsed") \subseteq {e}
      /\ c \/ Values(w, "elapsed") = {}
      /\ Values(w, "sleep") = {0}
  BY <1>3, <1>4, <1>5
<1> QED BY <1>5, <1>6, <1>7 DEF c, e, RestoreCalls

-----------------------------------------------------------------------------
(***************************************************************************)
(* The inductive invariant of NeverEarly, for at most one fault.  The      *)
(* outage that NVS stores, and the one that RAM holds, started after the   *)
(* Wi-Fi was last seen, and the time they have counted has passed since.   *)
(* OneFault: what the keys still hold where no outage is known.            *)
(***************************************************************************)
StoredOutage ==
    nvs.active =>
        /\ nvs.started # 0 => seenAt <= nvs.started
        /\ seenAt + nvs.elapsed <= now
        /\ power = "asleep" => seenAt + nvs.elapsed + nvs.sleep <= wakeAt

KnownOutage ==
    On /\ outage.active =>
        /\ outage.started # 0 => seenAt <= outage.started
        /\ seenAt + outage.elapsed <= outage.awakeAt /\ outage.awakeAt <= now

Clear(s) == s.started = 0 /\ s.elapsed = 0 /\ s.sleep = 0

OneFault ==
    /\ On /\ ~outage.active /\ nvs.active => Clear(nvs)
    /\ faults = 0 => /\ ~nvs.active => Clear(nvs)
                     /\ On => nvs.sleep = 0
                     /\ On /\ outage.active => nvs.active

EarlyInv ==
    /\ seenAt <= now /\ (power = "asleep" => now <= wakeAt)
    /\ StoredOutage /\ KnownOutage /\ OneFault

\* The portal opens only after the Wi-Fi has been away for long enough.
Justified ==
    ~prov.fallback /\ On /\ prov'.fallback /\ power' = "on"
        => now - seenAt >= WIFI_OUTAGE_BEFORE_PROVISIONING

\* The dual of Same, and calls w that do with the keys of the outage what u does.
SameOutage == /\ nvs'.active = nvs.active /\ nvs'.started = nvs.started
              /\ nvs'.elapsed = nvs.elapsed /\ nvs'.sleep = nvs.sleep

TracksLike(w, u) == w \in Seq(Call) /\ \A k \in Tracking : Values(w, k) = Values(u, k)

LEMMA TracksLikeParts ==
    /\ \A u : u \in Seq(Call) => TracksLike(u, u)
    /\ \A u, v : u \in Seq(Call) /\ Settles(v) => TracksLike(u \o v, u) /\ TracksLike(v \o u, u)
<1>1. ASSUME NEW u, NEW v, u \in Seq(Call), Settles(v)
      PROVE  TracksLike(u \o v, u) /\ TracksLike(v \o u, u)
  <2>1. v \in Seq(Call) /\ \A k \in Tracking : Values(v, k) = {}
    BY <1>1 DEF Settles
  <2>2. u \o v \in Seq(Call) /\ \A k : Values(u \o v, k) = Values(u, k) \cup Values(v, k)
    BY <1>1, <2>1, ConcatValues
  <2>3. v \o u \in Seq(Call) /\ \A k : Values(v \o u, k) = Values(v, k) \cup Values(u, k)
    BY <1>1, <2>1, ConcatValues
  <2> QED BY <2>1, <2>2, <2>3 DEF TracksLike
<1> QED BY <1>1 DEF TracksLike

LEMMA KeysAfter ==
    ASSUME MachineOK, MachineOK', NEW writes, NEW u, TracksLike(writes, u)
    PROVE  /\ MayTrack(writes) =>
                  /\ nvs'.active \in {nvs.active} \cup Values(u, "active")
                  /\ nvs'.started \in {nvs.started} \cup Values(u, "started")
                  /\ nvs'.elapsed \in {nvs.elapsed} \cup Values(u, "elapsed")
                  /\ nvs'.sleep \in {nvs.sleep} \cup Values(u, "sleep")
           /\ \A j : MadeBut(writes, j) =>
                  /\ j # "active" /\ Values(u, "active") # {} => nvs'.active \in Values(u, "active")
                  /\ j # "started" /\ Values(u, "started") # {} => nvs'.started \in Values(u, "started")
                  /\ j # "elapsed" /\ Values(u, "elapsed") # {} => nvs'.elapsed \in Values(u, "elapsed")
                  /\ j # "sleep" /\ Values(u, "sleep") # {} => nvs'.sleep \in Values(u, "sleep")
           /\ Settles(u) /\ MayTrack(writes) => SameOutage
<1>1. nvs \in Nvs /\ nvs' \in Nvs
  BY DEF MachineOK
<1>2. MayTrack(writes) =>
          /\ nvs'.active \in {nvs.active} \cup Values(u, "active")
          /\ nvs'.started \in {nvs.started} \cup Values(u, "started")
          /\ nvs'.elapsed \in {nvs.elapsed} \cup Values(u, "elapsed")
          /\ nvs'.sleep \in {nvs.sleep} \cup Values(u, "sleep")
  BY <1>1, NvsFields DEF MayTrack, TracksLike, Tracking
<1>3. ASSUME NEW j, MadeBut(writes, j)
      PROVE  /\ j # "active" /\ Values(u, "active") # {} => nvs'.active \in Values(u, "active")
             /\ j # "started" /\ Values(u, "started") # {} => nvs'.started \in Values(u, "started")
             /\ j # "elapsed" /\ Values(u, "elapsed") # {} => nvs'.elapsed \in Values(u, "elapsed")
             /\ j # "sleep" /\ Values(u, "sleep") # {} => nvs'.sleep \in Values(u, "sleep")
  BY <1>1, <1>3, NvsFields DEF MadeBut, TracksLike, Tracking
<1>4. Settles(u) /\ MayTrack(writes) => SameOutage
  BY <1>2 DEF Settles, Tracking, SameOutage
<1> QED BY <1>2, <1>3, <1>4

\* The types, as far as the outage goes.
LEMMA TrackTypes ==
    ASSUME IInv
    PROVE  /\ MachineOK /\ nvs \in Nvs /\ outage \in Outage /\ prov \in Prov
           /\ now \in Nat /\ wakeAt \in Nat /\ seenAt \in Nat /\ faults \in Nat
           /\ clockValid \in BOOLEAN /\ power \in {"on", "asleep", "off"}
           /\ nvs.active \in BOOLEAN /\ nvs.started \in Nat /\ nvs.elapsed \in Nat
           /\ nvs.sleep \in Nat
           /\ outage.active \in BOOLEAN /\ outage.started \in Nat /\ outage.elapsed \in Nat
           /\ outage.awakeAt \in Nat
<1>1. /\ MachineOK /\ nvs \in Nvs /\ outage \in Outage /\ prov \in Prov
      /\ now \in Nat /\ wakeAt \in Nat /\ seenAt \in Nat /\ faults \in 0 .. MaxFaults
      /\ clockValid \in BOOLEAN /\ power \in {"on", "asleep", "off"}
  BY DEF IInv, MachineOK, WorldOK
<1> QED BY <1>1, NvsFields DEF Outage

-----------------------------------------------------------------------------
(* The actions that leave the outage alone. *)

LEMMA Undisturbed ==
    ASSUME IInv, IInv', EarlyInv, SameOutage, seenAt' = seenAt, faults' = 0 => faults = 0,
           \/ UNCHANGED <<power, now, wakeAt, outage>>
           \/ power' = "off" /\ now' = now
    PROVE  EarlyInv'
<1>1. CASE UNCHANGED <<power, now, wakeAt, outage>>
  <2>1. On' = On /\ power' = power /\ now' = now /\ wakeAt' = wakeAt /\ outage' = outage
    BY <1>1 DEF On
  <2>2. StoredOutage' /\ KnownOutage' /\ OneFault'
    BY <2>1 DEF EarlyInv, StoredOutage, KnownOutage, OneFault, Clear, SameOutage
  <2> QED BY <2>1, <2>2 DEF EarlyInv
<1>2. CASE power' = "off" /\ now' = now
  <2>1. ~On'
    BY <1>2 DEF On
  <2>2. StoredOutage' /\ KnownOutage' /\ OneFault'
    BY <1>2, <2>1 DEF EarlyInv, StoredOutage, KnownOutage, OneFault, Clear, SameOutage
  <2> QED BY <1>2, <2>2 DEF EarlyInv
<1> QED BY <1>1, <1>2

\* A handler of the provisioning.
LEMMA Aside ==
    ASSUME IInv, IInv', EarlyInv, MaxFaults <= 1, NEW p, NEW isUploaded, NEW isTimedOut,
           NEW writes, Settles(writes), Handles(outage, p, isUploaded, isTimedOut, writes),
           seenAt' = seenAt
    PROVE  EarlyInv' /\ (prov' = p \/ power' = "off")
<1>1. MachineOK /\ MachineOK' /\ faults \in Nat
  BY TrackTypes DEF IInv
<1>2. writes \in Seq(Call)
  BY DEF Settles
<1>3. \/ /\ outage' = outage /\ prov' = p /\ Completes(writes)
         /\ power' = power /\ now' = now /\ wakeAt' = wakeAt
      \/ Breaks(writes)
  BY <1>1, <1>2, HandlerEnds
<1>4. MayTrack(writes)
  BY <1>3 DEF Completes, Breaks
<1>5. SameOutage
  BY <1>1, <1>2, <1>4, TracksLikeParts, KeysAfter
<1>6. faults' = 0 => faults = 0
  BY <1>3 DEF Completes, Breaks
<1>7. EarlyInv'
  BY <1>3, <1>5, <1>6, Undisturbed DEF Breaks
<1> QED BY <1>3, <1>7 DEF Breaks

-----------------------------------------------------------------------------
(* The actions that find the Wi-Fi connected. *)

LEMMA FindingWifi ==
    ASSUME IInv, IInv', EarlyInv, MaxFaults <= 1, On, NEW p, NEW isUploaded, NEW isTimedOut,
           NEW writes, TracksLike(writes, ResetWrites(outage)),
           Handles(ResetTracking(outage, now), p, isUploaded, isTimedOut, writes), WifiIsSeen
    PROVE  EarlyInv' /\ (prov' = p \/ power' = "off")
<1> DEFINE o == ResetTracking(outage, now)
           u == ResetWrites(outage)
<1>1. MachineOK' /\ nvs'.active \in BOOLEAN /\ nvs'.started \in Nat /\ nvs'.elapsed \in Nat
      /\ nvs'.sleep \in Nat /\ seenAt' \in Nat
  BY NvsFields DEF IInv, MachineOK, WorldOK
<1>2. o.active = FALSE
  BY TrackTypes DEF ResetTracking, NoOutage
<1>3. /\ ~outage.active => Settles(u)
      /\ outage.active => /\ Values(u, "active") = {FALSE} /\ Values(u, "started") = {0}
                          /\ Values(u, "elapsed") = {0} /\ Values(u, "sleep") = {0}
  BY TrackTypes, ResetValues
<1> HIDE DEF o, u
<1>4. writes \in Seq(Call)
  BY DEF TracksLike
<1>5. \/ /\ outage' = o /\ prov' = p /\ Completes(writes)
         /\ power' = power /\ now' = now /\ wakeAt' = wakeAt
      \/ Breaks(writes)
  BY <1>4, TrackTypes, HandlerEnds DEF o
<1>6. seenAt' = IF power' = "on" \/ ~nvs'.active THEN now ELSE seenAt
  BY DEF WifiIsSeen
<1>7. /\ MayTrack(writes) =>
             /\ nvs'.active \in {nvs.active} \cup Values(u, "active")
             /\ nvs'.started \in {nvs.started} \cup Values(u, "started")
             /\ nvs'.elapsed \in {nvs.elapsed} \cup Values(u, "elapsed")
             /\ nvs'.sleep \in {nvs.sleep} \cup Values(u, "sleep")
      /\ \A j : MadeBut(writes, j) =>
             /\ j # "active" /\ Values(u, "active") # {} => nvs'.active \in Values(u, "active")
             /\ j # "started" /\ Values(u, "started") # {} => nvs'.started \in Values(u, "started")
             /\ j # "elapsed" /\ Values(u, "elapsed") # {} => nvs'.elapsed \in Values(u, "elapsed")
             /\ j # "sleep" /\ Values(u, "sleep") # {} => nvs'.sleep \in Values(u, "sleep")
      /\ Settles(u) /\ MayTrack(writes) => SameOutage
  BY <1>1, TrackTypes, KeysAfter DEF u
\* The power is lost: what is left of the outage is older than the Wi-Fi.
<1>8. CASE Breaks(writes)
  <2>1. power' = "off" /\ now' = now /\ faults' = 1 /\ MayTrack(writes)
    BY <1>8 DEF Breaks
  <2>2. nvs'.active => nvs.active /\ seenAt' = seenAt
    BY <1>3, <1>6, <1>7, <2>1 DEF SameOutage
  <2>3. /\ nvs'.started \in {0, nvs.started} /\ nvs'.elapsed \in {0, nvs.elapsed}
    BY <1>3, <1>7, <2>1 DEF SameOutage
  <2>4. seenAt' <= now
    BY <1>6, TrackTypes DEF EarlyInv
  <2>5. StoredOutage'
    BY <2>1, <2>2, <2>3, <1>1, TrackTypes DEF EarlyInv, StoredOutage
  <2>6. KnownOutage' /\ OneFault'
    BY <2>1 DEF KnownOutage, OneFault, On
  <2> QED BY <2>1, <2>4, <2>5, <2>6 DEF EarlyInv
\* The handler is done: an outage that is still stored has no time in it.
<1>9. CASE /\ outage' = o /\ prov' = p /\ Completes(writes)
           /\ power' = power /\ now' = now /\ wakeAt' = wakeAt
  <2>1. power' = "on" /\ seenAt' = now /\ ~outage'.active /\ MayTrack(writes)
    BY <1>2, <1>6, <1>9 DEF On, Completes
  <2>2. CASE outage.active
    <3>1. /\ nvs'.active => Clear(nvs')
          /\ faults' = 0 => nvs'.active = FALSE /\ Clear(nvs')
      <4>1. CASE faults' = faults /\ MadeBut(writes, "none")
        <5>1. PICK j : MadeBut(writes, j) /\ j \notin Tracking
          BY <4>1 DEF Tracking
        <5>2. nvs'.active = FALSE
          BY <5>1, <2>2, <1>3, <1>7 DEF Tracking
        <5>3. nvs'.started = 0 /\ nvs'.elapsed = 0 /\ nvs'.sleep = 0
          BY <5>1, <2>2, <1>3, <1>7 DEF Tracking
        <5> QED BY <5>2, <5>3 DEF Clear
      <4>2. CASE faults = 0 /\ faults' = 1 /\ \E j : MadeBut(writes, j)
        <5>1. PICK j : MadeBut(writes, j)
          BY <4>2
        <5>2. CASE j = "active"
          BY <5>1, <5>2, <4>2, <2>2, <1>3, <1>7 DEF Clear
        <5>3. CASE j # "active"
          <6>1. nvs'.active = FALSE
            BY <5>1, <5>3, <2>2, <1>3, <1>7
          <6> QED BY <6>1, <4>2
        <5> QED BY <5>2, <5>3
      <4> QED BY <4>1, <4>2, <1>9 DEF Completes
    <3>2. StoredOutage'
      BY <2>1, <3>1, <1>9, TrackTypes DEF StoredOutage, Clear
    <3>3. KnownOutage' /\ OneFault'
      BY <2>1, <3>1 DEF KnownOutage, OneFault, Clear
    <3> QED BY <2>1, <3>2, <3>3, <1>9, TrackTypes DEF EarlyInv
  <2>3. CASE ~outage.active
    <3>1. SameOutage
      BY <2>1, <2>3, <1>3, <1>7
    <3>2. nvs.active => Clear(nvs)
      BY <2>3 DEF EarlyInv, OneFault
    <3>3. faults' = 0 => faults = 0
      BY <1>9 DEF Completes
    <3>4. StoredOutage'
      BY <2>1, <3>1, <3>2, <1>9, TrackTypes DEF StoredOutage, Clear, SameOutage
    <3>5. KnownOutage' /\ OneFault'
      BY <2>1, <3>1, <3>2, <3>3 DEF KnownOutage, EarlyInv, OneFault, Clear, SameOutage
    <3> QED BY <2>1, <3>4, <3>5, <1>9, TrackTypes DEF EarlyInv
  <2> QED BY <1>9, <2>2, <2>3
<1> QED BY <1>5, <1>8, <1>9

-----------------------------------------------------------------------------
(* The check of the threshold. *)

LEMMA DurationBounded ==
    ASSUME IInv, EarlyInv, On, ThresholdReached(outage, now, clockValid)
    PROVE  now - seenAt >= WIFI_OUTAGE_BEFORE_PROVISIONING
<1> DEFINE b == BeginTracking(outage, now, clockValid)
<1>1. OutageDuration(b, now, clockValid) >= WIFI_OUTAGE_BEFORE_PROVISIONING
  BY DEF ThresholdReached
<1>2. CASE outage.active
  <2>1. b = outage
    BY <1>2 DEF BeginTracking
  <2> HIDE DEF b
  <2>2. \/ outage.started # 0 /\ OutageDuration(b, now, clockValid) = now - outage.started
        \/ OutageDuration(b, now, clockValid) = outage.elapsed + (now - outage.awakeAt)
    BY <1>2, <2>1 DEF OutageDuration
  <2> QED BY <1>1, <1>2, <2>2, TrackTypes, OutageAssumption DEF EarlyInv, KnownOutage
<1>3. CASE ~outage.active
  <2>1. b.active = TRUE /\ b.started \in {0, now} /\ b.elapsed = 0 /\ b.awakeAt = now
    BY <1>3 DEF BeginTracking
  <2> HIDE DEF b
  <2>2. OutageDuration(b, now, clockValid) = 0
    BY <2>1, TrackTypes DEF OutageDuration
  <2> QED BY <1>1, <2>2, OutageAssumption
<1> QED BY <1>2, <1>3

\* A handler that checks the threshold, and then leaves the provisioning so.
LEMMA Evaluating ==
    ASSUME IInv, IInv', EarlyInv, MaxFaults <= 1, On, NEW due \in BOOLEAN, NEW p,
           NEW isUploaded, NEW isTimedOut, NEW writes,
           TracksLike(writes, EvaluationWrites(outage, now, clockValid, due)),
           Handles(Evaluated(outage, now, clockValid, due), p, isUploaded, isTimedOut, writes),
           seenAt' = seenAt
    PROVE  EarlyInv' /\ (prov' = p \/ power' = "off")
<1> DEFINE r == Evaluated(outage, now, clockValid, due)
           u == EvaluationWrites(outage, now, clockValid, due)
           e == outage.elapsed + (now - outage.awakeAt)
<1>1. MachineOK' /\ nvs'.active \in BOOLEAN /\ nvs'.started \in Nat /\ nvs'.elapsed \in Nat
      /\ nvs'.sleep \in Nat
  BY NvsFields DEF IInv, MachineOK
<1>2. /\ outage \in Outage /\ now \in Nat /\ clockValid \in BOOLEAN
      /\ outage.active \in BOOLEAN /\ u \in Seq(Call)
  BY TrackTypes, EvaluationQuiet DEF Quiet
<1> HIDE DEF r, u
<1>3. writes \in Seq(Call)
  BY DEF TracksLike
<1>4. \/ /\ outage' = r /\ prov' = p /\ Completes(writes)
         /\ power' = power /\ now' = now /\ wakeAt' = wakeAt
      \/ Breaks(writes)
  BY <1>3, TrackTypes, HandlerEnds DEF r
<1>5. /\ MayTrack(writes) =>
             /\ nvs'.active \in {nvs.active} \cup Values(u, "active")
             /\ nvs'.started \in {nvs.started} \cup Values(u, "started")
             /\ nvs'.elapsed \in {nvs.elapsed} \cup Values(u, "elapsed")
             /\ nvs'.sleep \in {nvs.sleep} \cup Values(u, "sleep")
      /\ \A j : MadeBut(writes, j) =>
             /\ j # "active" /\ Values(u, "active") # {} => nvs'.active \in Values(u, "active")
             /\ j # "started" /\ Values(u, "started") # {} => nvs'.started \in Values(u, "started")
             /\ j # "elapsed" /\ Values(u, "elapsed") # {} => nvs'.elapsed \in Values(u, "elapsed")
             /\ j # "sleep" /\ Values(u, "sleep") # {} => nvs'.sleep \in Values(u, "sleep")
  BY <1>1, TrackTypes, KeysAfter DEF u
<1>6. MayTrack(writes) /\ now' = now /\ power' # "asleep"
  BY <1>4 DEF Completes, Breaks, On
<1>7. \/ power' = "off" /\ faults' = 1 /\ faults = 0
      \/ /\ power' = "on" /\ outage' = r
         /\ \/ faults' = faults /\ MadeBut(writes, "none")
            \/ faults = 0 /\ faults' = 1
  BY <1>4 DEF Completes, Breaks, On
<1>8. CASE outage.active
  <2>1. /\ r.active = TRUE /\ r.started = outage.started
        /\ \/ r.elapsed = outage.elapsed /\ r.awakeAt = outage.awakeAt
           \/ now > outage.awakeAt /\ r.elapsed = e /\ r.awakeAt = now
        /\ Values(u, "active") = {} /\ Values(u, "started") = {} /\ Values(u, "sleep") = {}
        /\ Values(u, "elapsed") \subseteq {e}
    <3>1. Continues(r, u, outage, now)
      BY <1>8, <1>2, ContinuingValues DEF r, u
    <3> QED BY <3>1 DEF Continues
  <2>2. /\ nvs'.active = nvs.active /\ nvs'.started = nvs.started /\ nvs'.sleep = nvs.sleep
        /\ nvs'.elapsed = nvs.elapsed \/ nvs'.elapsed = e
    BY <2>1, <1>5, <1>6, <1>8 DEF Tracking
  <2>3. /\ outage.started # 0 => seenAt <= outage.started
        /\ seenAt + outage.elapsed <= outage.awakeAt /\ outage.awakeAt <= now
        /\ seenAt + e <= now
    BY <1>8, TrackTypes DEF EarlyInv, KnownOutage
  <2>4. StoredOutage'
    <3> HIDE DEF e
    <3> QED BY <2>2, <2>3, <1>1, <1>6, TrackTypes DEF EarlyInv, StoredOutage
  <2>5. KnownOutage'
    <3> HIDE DEF e
    <3>1. CASE power' = "off"
      BY <3>1 DEF KnownOutage, On
    <3>2. CASE outage' = r
      BY <3>2, <2>3, <2>1, <1>6, <1>8, TrackTypes DEF KnownOutage
    <3> QED BY <1>7, <3>1, <3>2
  <2>6. OneFault'
    <3>1. faults' = 0 => power' = "on" /\ faults = 0
      BY <1>7
    <3>2. faults' = 0 => nvs.active /\ nvs.sleep = 0
      BY <3>1, <1>8 DEF EarlyInv, OneFault
    <3>3. On' => outage'.active
      BY <2>1, <1>7 DEF On
    <3> QED BY <3>1, <3>2, <3>3, <2>2 DEF OneFault
  <2>9. seenAt' <= now' /\ (power' = "asleep" => now' <= wakeAt')
    BY <1>6 DEF EarlyInv
  <2>10. prov' = p \/ power' = "off"
    BY <1>4 DEF Breaks
  <2> QED BY <2>4, <2>5, <2>6, <2>9, <2>10 DEF EarlyInv
<1>9. CASE ~outage.active
  <2>1. /\ r.active = TRUE /\ r.started \in {0, now} /\ r.elapsed = 0 /\ r.awakeAt = now
        /\ Values(u, "active") = {TRUE} /\ Values(u, "started") = {r.started}
        /\ Values(u, "elapsed") = {0} /\ Values(u, "sleep") = {0}
    <3>1. Begins(r, u, now)
      BY <1>9, <1>2, BeginningValues DEF r, u
    <3> QED BY <3>1 DEF Begins
  <2>2. /\ nvs'.started \in {nvs.started, 0, now} /\ nvs'.elapsed \in {nvs.elapsed, 0}
        /\ nvs'.sleep \in {nvs.sleep, 0}
    BY <2>1, <1>5, <1>6, <1>9
  <2>3. faults' = faults /\ MadeBut(writes, "none")
            => nvs'.active /\ nvs'.started \in {0, now} /\ nvs'.elapsed = 0 /\ nvs'.sleep = 0
    <3> SUFFICES ASSUME MadeBut(writes, "none")
                 PROVE  /\ nvs'.active /\ nvs'.started \in {0, now} /\ nvs'.elapsed = 0
                        /\ nvs'.sleep = 0
      OBVIOUS
    <3>1. PICK j : MadeBut(writes, j) /\ j \notin Tracking
      BY DEF Tracking
    <3>2. nvs'.active = TRUE
      BY <3>1, <2>1, <1>5, <1>9 DEF Tracking
    <3>3. nvs'.started \in {0, now} /\ nvs'.elapsed = 0 /\ nvs'.sleep = 0
      BY <3>1, <2>1, <1>5, <1>9 DEF Tracking
    <3> QED BY <3>2, <3>3
  <2>4. faults = 0 \/ nvs.active => Clear(nvs)
    BY <1>9 DEF EarlyInv, OneFault
  <2>5. nvs'.started \in {0, now} /\ nvs'.elapsed = 0
    BY <1>7, <2>2, <2>3, <2>4 DEF Clear
  <2>6. StoredOutage'
    BY <2>5, <1>6, TrackTypes DEF EarlyInv, StoredOutage
  <2>7. KnownOutage'
    <3>1. CASE power' = "off"
      BY <3>1 DEF KnownOutage, On
    <3>2. CASE outage' = r
      <4>1. seenAt <= now
        BY DEF EarlyInv
      <4> QED BY <3>2, <4>1, <2>1, <1>6, TrackTypes DEF KnownOutage
    <3> QED BY <1>7, <3>1, <3>2
  <2>8. OneFault'
    <3>1. faults' = 0 => nvs'.active /\ nvs'.sleep = 0
      BY <1>7, <2>3
    <3>2. On' => outage'.active
      BY <2>1, <1>7 DEF On
    <3> QED BY <3>1, <3>2 DEF OneFault
  <2>9. seenAt' <= now' /\ (power' = "asleep" => now' <= wakeAt')
    BY <1>6 DEF EarlyInv
  <2>10. prov' = p \/ power' = "off"
    BY <1>4 DEF Breaks
  <2> QED BY <2>6, <2>7, <2>8, <2>9, <2>10 DEF EarlyInv
<1> QED BY <1>8, <1>9

LEMMA CheckingEarly ==
    ASSUME IInv, IInv', EarlyInv, MaxFaults <= 1, On, NEW due \in BOOLEAN,
           NEW then, then.fallback = prov.fallback, NEW isTimedOut,
           CheckOutage(due, then, isTimedOut), seenAt' = seenAt
    PROVE  EarlyInv' /\ Justified
<1> DEFINE o == Evaluated(outage, now, clockValid, due)
           w == EvaluationWrites(outage, now, clockValid, due)
           f == EnterFallbackWrites(nvs, prov)
<1>1. w \in Seq(Call) /\ Settles(f)
  BY TrackTypes, EvaluationQuiet, FallbackSettles DEF Quiet
<1>2. TracksLike(w, w) /\ TracksLike(w \o f, w)
  <2> HIDE DEF w, f
  <2> QED BY <1>1, TracksLikeParts
<1> HIDE DEF o, w, f
<1>3. CASE /\ ThresholdReached(outage, now, clockValid)
           /\ Handles(o, EnterFallback(prov), uploaded, FALSE, w \o f)
  <2>1. EarlyInv'
    BY <1>2, <1>3, Evaluating DEF o, w
  <2> QED BY <2>1, <1>3, DurationBounded DEF Justified
<1>4. CASE Handles(o, then, uploaded, isTimedOut, w)
  <2>1. EarlyInv' /\ (prov' = then \/ power' = "off")
    BY <1>2, <1>4, Evaluating DEF o, w
  <2> QED BY <2>1 DEF Justified
<1> QED BY <1>3, <1>4 DEF CheckOutage, o, w, f

-----------------------------------------------------------------------------
(* Sleep and start. *)

LEMMA SleepingEarly ==
    ASSUME IInv, IInv', EarlyInv, MaxFaults <= 1, EnterTimedDeepSleep
    PROVE  EarlyInv'
<1>1. PICK d \in SleepLengths :
          \/ /\ power' = "asleep" /\ wakeAt' = now + d
             /\ RamLost /\ Stored(SleepWrites(outage, now, d))
             /\ UNCHANGED <<now, clockValid>>
          \/ Torn(SleepWrites(outage, now, d))
  BY DEF EnterTimedDeepSleep
<1> DEFINE w == SleepWrites(outage, now, d)
           e == outage.elapsed + (now - outage.awakeAt)
<1>2. On /\ seenAt' = seenAt
  BY DEF EnterTimedDeepSleep, history
<1>3. d \in Nat
  BY FallbackAssumption
<1>4. SleepCalls(w, outage, now, d)
  BY <1>3, TrackTypes, SleepValues
<1> HIDE DEF w
<1>5. /\ w \in Seq(Call)
      /\ ~outage.active => Settles(w)
      /\ Values(w, "active") = {} /\ Values(w, "started") = {}
      /\ Values(w, "elapsed") \subseteq {e}
      /\ outage.active => Values(w, "sleep") = {d}
  BY <1>4 DEF SleepCalls
<1>6. MachineOK' /\ nvs'.active \in BOOLEAN /\ nvs'.started \in Nat /\ nvs'.elapsed \in Nat
      /\ nvs'.sleep \in Nat
  BY NvsFields DEF IInv, MachineOK
<1>7. \/ Breaks(w)
      \/ power' = "asleep" /\ wakeAt' = now + d /\ now' = now /\ Completes(w)
  BY <1>1, <1>5, TrackTypes, CallsMade DEF w
<1>8. now' = now /\ power' # "on" /\ MayTrack(w)
  BY <1>7 DEF Breaks, Completes
<1>9. TracksLike(w, w)
  BY <1>5, TracksLikeParts
<1>10. /\ nvs'.active \in {nvs.active} \cup Values(w, "active")
       /\ nvs'.started \in {nvs.started} \cup Values(w, "started")
       /\ nvs'.elapsed \in {nvs.elapsed} \cup Values(w, "elapsed")
       /\ nvs'.sleep \in {nvs.sleep} \cup Values(w, "sleep")
       /\ Settles(w) => SameOutage
  BY <1>6, <1>8, <1>9, TrackTypes, KeysAfter
<1>11. /\ nvs'.active = nvs.active /\ nvs'.started = nvs.started
       /\ nvs'.elapsed = nvs.elapsed \/ (outage.active /\ nvs'.elapsed = e)
       /\ nvs'.sleep = nvs.sleep \/ (outage.active /\ nvs'.sleep = d)
  BY <1>5, <1>10 DEF SameOutage
<1>12. outage.active => seenAt + e <= now
  BY <1>2, TrackTypes DEF EarlyInv, KnownOutage
<1> HIDE DEF e
\* A planned sleep that is stored is the one that begins.
<1>13. power' = "asleep" /\ nvs'.active => nvs'.sleep <= d
  <2> SUFFICES ASSUME power' = "asleep", nvs'.active PROVE nvs'.sleep <= d
    OBVIOUS
  <2>1. Completes(w) /\ nvs.active
    BY <1>7, <1>11 DEF Breaks
  <2>2. CASE faults = 0
    BY <2>2, <1>2, <1>3, <1>11 DEF EarlyInv, OneFault
  <2>3. CASE ~outage.active
    BY <2>1, <2>3, <1>2, <1>3, <1>11 DEF EarlyInv, OneFault, Clear
  <2>4. CASE faults # 0 /\ outage.active
    <3>1. PICK j : MadeBut(w, j) /\ j \notin Tracking
      BY <2>1, <2>4 DEF Completes, Tracking
    <3>2. nvs'.sleep \in Values(w, "sleep")
      BY <3>1, <2>4, <1>5, <1>6, <1>9, TrackTypes, KeysAfter DEF Tracking
    <3> QED BY <3>2, <2>4, <1>3, <1>5
  <2> QED BY <2>2, <2>3, <2>4
<1>14. StoredOutage'
  <2> SUFFICES ASSUME nvs'.active
               PROVE  /\ nvs'.started # 0 => seenAt' <= nvs'.started
                      /\ seenAt' + nvs'.elapsed <= now'
                      /\ power' = "asleep" => seenAt' + nvs'.elapsed + nvs'.sleep <= wakeAt'
    BY DEF StoredOutage
  <2>1. /\ nvs'.started # 0 => seenAt <= nvs'.started
        /\ seenAt + nvs'.elapsed <= now
    BY <1>11, <1>12, TrackTypes DEF EarlyInv, StoredOutage
  <2>2. ASSUME power' = "asleep" PROVE seenAt + nvs'.elapsed + nvs'.sleep <= wakeAt'
    <3>1. wakeAt' = now + d /\ nvs'.sleep <= d
      BY <1>7, <1>13, <2>2 DEF Breaks
    <3> QED BY <3>1, <2>1, <1>3, <1>6, TrackTypes
  <2> QED BY <2>1, <2>2, <1>2, <1>8
<1>15. KnownOutage'
  BY <1>8 DEF KnownOutage, On
<1>16. OneFault'
  <2>1. ASSUME faults' = 0, ~nvs'.active PROVE Clear(nvs')
    <3>1. faults = 0 /\ ~nvs.active
      BY <2>1, <1>7, <1>11 DEF Breaks, Completes
    <3>2. ~outage.active /\ Clear(nvs)
      BY <3>1, <1>2 DEF EarlyInv, OneFault
    <3> QED BY <3>2, <1>11 DEF Clear
  <2> QED BY <2>1, <1>8 DEF OneFault, On
<1>17. seenAt' <= now' /\ (power' = "asleep" => now' <= wakeAt')
  BY <1>2, <1>3, <1>7, <1>8, TrackTypes DEF EarlyInv, Breaks
<1> QED BY <1>14, <1>15, <1>16, <1>17 DEF EarlyInv

LEMMA BootingEarly ==
    ASSUME IInv, IInv', EarlyInv, MaxFaults <= 1, Setup
    PROVE  EarlyInv'
<1> DEFINE timerWake == power = "asleep"
           o == Restored(nvs, now, timerWake)
           x == Slept(nvs, timerWake)
           u == RestoreWrites(nvs, timerWake)
           v == BootWrites(nvs)
           w == u \o v
<1>1. /\ \/ /\ power' = "on" /\ wakeAt' = 0
            /\ outage' = o /\ prov' = Booted(nvs)
            /\ Stored(w)
            /\ UNCHANGED <<now, clockValid, uploaded, timedOut>>
         \/ Torn(w)
      /\ seenAt' = seenAt
      /\ power = "off" \/ (power = "asleep" /\ now = wakeAt)
  BY DEF Setup, history
<1>2. timerWake \in BOOLEAN
  OBVIOUS
<1>3. /\ o.active = nvs.active /\ o.started = nvs.started
      /\ o.elapsed = nvs.elapsed + x /\ o.awakeAt = now
  BY DEF Restored
<1>4. RestoreCalls(u, nvs, x)
  BY <1>2, TrackTypes, RestoreValues
<1>5. x = (IF nvs.active /\ power = "asleep" THEN nvs.sleep ELSE 0) /\ x \in Nat
  BY TrackTypes DEF Slept
<1>6. Settles(v)
  BY TrackTypes, BootSettles
<1> HIDE DEF timerWake, o, x, u, v
<1>7. /\ u \in Seq(Call)
      /\ Values(u, "active") = {} /\ Values(u, "started") = {}
      /\ Values(u, "elapsed") \subseteq {nvs.elapsed + x}
      /\ x > 0 \/ Values(u, "elapsed") = {}
      /\ Values(u, "sleep") = {0}
  BY <1>4 DEF RestoreCalls
<1>8. TracksLike(w, u)
  BY <1>6, <1>7, TracksLikeParts
<1> HIDE DEF w
<1>9. MachineOK' /\ nvs'.active \in BOOLEAN /\ nvs'.started \in Nat /\ nvs'.elapsed \in Nat
      /\ nvs'.sleep \in Nat
  BY NvsFields DEF IInv, MachineOK
<1>10. \/ Breaks(w)
       \/ power' = "on" /\ outage' = o /\ now' = now /\ Completes(w)
  BY <1>1, <1>8, TrackTypes, CallsMade DEF TracksLike
<1>11. now' = now /\ power' # "asleep" /\ MayTrack(w)
  BY <1>10 DEF Breaks, Completes
<1>12. /\ nvs'.active \in {nvs.active} \cup Values(u, "active")
       /\ nvs'.started \in {nvs.started} \cup Values(u, "started")
       /\ nvs'.elapsed \in {nvs.elapsed} \cup Values(u, "elapsed")
       /\ nvs'.sleep \in {nvs.sleep} \cup Values(u, "sleep")
  BY <1>8, <1>9, <1>11, TrackTypes, KeysAfter
<1>13. /\ nvs'.active = nvs.active /\ nvs'.started = nvs.started
       /\ nvs'.elapsed = nvs.elapsed \/ (x > 0 /\ nvs'.elapsed = nvs.elapsed + x)
       /\ nvs'.sleep = nvs.sleep \/ nvs'.sleep = 0
  BY <1>7, <1>12
\* The time that was slept has passed since the Wi-Fi was seen.
<1>14. nvs.active => /\ nvs.started # 0 => seenAt <= nvs.started
                     /\ seenAt + nvs.elapsed + x <= now /\ seenAt + nvs.elapsed <= now
  BY <1>1, <1>5, TrackTypes DEF EarlyInv, StoredOutage
<1>15. StoredOutage'
  <2> SUFFICES ASSUME nvs'.active
               PROVE  /\ nvs'.started # 0 => seenAt' <= nvs'.started
                      /\ seenAt' + nvs'.elapsed <= now'
    BY <1>11 DEF StoredOutage
  <2>1. /\ nvs'.started # 0 => seenAt <= nvs'.started
        /\ seenAt + nvs'.elapsed <= now
    BY <1>5, <1>13, <1>14, TrackTypes
  <2> QED BY <2>1, <1>1, <1>11
<1>16. KnownOutage'
  <2>1. CASE power' = "off"
    BY <2>1 DEF KnownOutage, On
  <2>2. CASE outage' = o
    BY <2>2, <1>1, <1>3, <1>5, <1>11, <1>14, TrackTypes DEF KnownOutage
  <2> QED BY <2>1, <2>2, <1>10 DEF Breaks
<1>17. OneFault'
  <2>1. On' => outage'.active = nvs'.active
    BY <1>3, <1>10, <1>13 DEF On, Breaks
  <2>2. ASSUME faults' = 0 PROVE nvs'.sleep = 0 /\ faults = 0
    <3>1. faults = 0 /\ MadeBut(w, "none")
      BY <2>2, <1>10 DEF Breaks, Completes
    <3>2. PICK j : MadeBut(w, j) /\ j \notin Tracking
      BY <3>1 DEF Tracking
    <3>3. nvs'.sleep \in Values(u, "sleep")
      BY <3>2, <1>7, <1>8, <1>9, TrackTypes, KeysAfter DEF Tracking
    <3> QED BY <3>1, <3>3, <1>7
  <2>3. ASSUME faults' = 0, ~nvs'.active PROVE Clear(nvs')
    <3>1. Clear(nvs) /\ x = 0
      BY <2>2, <2>3, <1>5, <1>13 DEF EarlyInv, OneFault
    <3> QED BY <3>1, <2>2, <2>3, <1>13 DEF Clear
  <2> QED BY <2>1, <2>2, <2>3 DEF OneFault
<1> QED BY <1>1, <1>11, <1>15, <1>16, <1>17 DEF EarlyInv

-----------------------------------------------------------------------------
(* All the actions. *)

LEMMA SimpleEarly ==
    ASSUME IInv, IInv', EarlyInv,
           \/ NetworkTime \/ UploadFinishes \/ StartNormalMeasurementCycle
           \/ SetDeepSleepDisabled \/ ButtonReset \/ UNCHANGED vars
    PROVE  EarlyInv' /\ Justified
<1>1. /\ UNCHANGED <<power, now, wakeAt, outage, nvs, seenAt, faults>>
      /\ prov'.fallback = prov.fallback
  <2>1. CASE NetworkTime  BY <2>1 DEF NetworkTime, clock, history
  <2>2. CASE UploadFinishes  BY <2>2 DEF UploadFinishes, clock, history
  <2>3. CASE StartNormalMeasurementCycle
    BY <2>3 DEF StartNormalMeasurementCycle, clock, history
  <2>4. CASE SetDeepSleepDisabled  BY <2>4 DEF SetDeepSleepDisabled, clock, history
  <2>5. CASE ButtonReset
    BY <2>5, TrackTypes DEF ButtonReset, clock, history, Prov
  <2>6. CASE UNCHANGED vars  BY <2>6 DEF vars, clock, history
  <2> QED BY <2>1, <2>2, <2>3, <2>4, <2>5, <2>6
<1>2. SameOutage
  BY <1>1 DEF SameOutage
<1> QED BY <1>1, <1>2, Undisturbed DEF Justified

LEMMA TickingEarly == ASSUME IInv, EarlyInv, Tick PROVE EarlyInv' /\ Justified
<1>1. /\ now' = now + 1 /\ (power = "asleep" => now < wakeAt)
      /\ UNCHANGED <<power, wakeAt, nvs, outage, prov, seenAt, faults>>
  BY DEF Tick, history
<1>2. power' = power /\ nvs' = nvs /\ outage' = outage /\ On' = On
  BY <1>1 DEF On
<1>3. StoredOutage'
  BY <1>1, <1>2, TrackTypes DEF EarlyInv, StoredOutage
<1>4. KnownOutage'
  BY <1>1, <1>2, TrackTypes DEF EarlyInv, KnownOutage
<1>5. OneFault'
  BY <1>1, <1>2 DEF EarlyInv, OneFault, Clear
<1> QED BY <1>1, <1>3, <1>4, <1>5, TrackTypes DEF EarlyInv, Justified

LEMMA ResettingEarly ==
    ASSUME IInv, IInv', EarlyInv, PowerLossOrReset PROVE EarlyInv' /\ Justified
<1>1. power' = "off" /\ UNCHANGED <<now, nvs, seenAt, faults>>
  BY DEF PowerLossOrReset, Dies, history
<1>2. SameOutage
  BY <1>1 DEF SameOutage
<1> QED BY <1>1, <1>2, Undisturbed DEF Justified

\* A step of the provisioning does not enter the fallback.
LEMMA ProvidingEarly ==
    ASSUME IInv, IInv', EarlyInv, MaxFaults <= 1, NEW p, NEW writes, Settles(writes),
           Provisions(p, writes), p.fallback => prov.fallback
    PROVE  EarlyInv' /\ Justified
BY Aside DEF Provisions, Serves, history, Justified

LEMMA RestoringEarly ==
    ASSUME IInv, IInv', EarlyInv, MaxFaults <= 1,
           Provisions(RestoreSaved(nvs, prov), RestoreSavedWrites(nvs, prov))
    PROVE  EarlyInv' /\ Justified
<1>1. RestoreSaved(nvs, prov).fallback = prov.fallback
  BY TrackTypes DEF RestoreSaved, Prov
<1>2. Settles(RestoreSavedWrites(nvs, prov))
  BY TrackTypes, RestoreSavedSettles
<1> QED BY <1>1, <1>2, ProvidingEarly

\* A step that only changes variables of the provisioning in RAM.
LEMMA RamOnlyEarly ==
    ASSUME IInv, IInv', EarlyInv, MaxFaults <= 1, NEW p, Provisions(p, <<>>),
           p.fallback = prov.fallback
    PROVE  EarlyInv' /\ Justified
BY ProvidingEarly, SettlesParts

LEMMA SavedWifiEarly ==
    ASSUME IInv, IInv', EarlyInv, MaxFaults <= 1,
           \/ SavedWifiRestores \/ SavedWifiBegins \/ SavedWifiTimesOut \/ FirstCycle
    PROVE  EarlyInv' /\ Justified
<1>1. CASE SavedWifiRestores
  BY <1>1, RestoringEarly DEF SavedWifiRestores
<1>2. CASE SavedWifiBegins
  BY <1>2, TrackTypes, RamOnlyEarly DEF SavedWifiBegins, Prov
<1>3. CASE SavedWifiTimesOut
  BY <1>3, TrackTypes, RamOnlyEarly DEF SavedWifiTimesOut, Prov
<1>4. CASE FirstCycle
  BY <1>4, TrackTypes, RamOnlyEarly DEF FirstCycle, Prov
<1> QED BY <1>1, <1>2, <1>3, <1>4

\* A step that only changes Edgent's mode.
LEMMA MovingEarly ==
    ASSUME IInv, IInv', EarlyInv, MaxFaults <= 1, NEW mode,
           Provisions([prov EXCEPT !.mode = mode], <<>>)
    PROVE  EarlyInv' /\ Justified
<1>1. [prov EXCEPT !.mode = mode].fallback = prov.fallback
  BY TrackTypes DEF Prov
<1> QED BY <1>1, RamOnlyEarly

LEMMA EdgentEarly ==
    ASSUME IInv, IInv', EarlyInv, MaxFaults <= 1,
           \/ ModeError \/ PortalClient \/ EdgentSwitches \/ EdgentJoinsNetwork
           \/ EdgentGivesUp \/ EdgentLoses
    PROVE  EarlyInv' /\ Justified
<1>1. CASE ModeError
  BY <1>1, RestoringEarly, MovingEarly DEF ModeError
<1>2. CASE PortalClient
  BY <1>2, MovingEarly DEF PortalClient
<1>3. CASE EdgentSwitches
  BY <1>3, MovingEarly DEF EdgentSwitches
<1>4. CASE EdgentJoinsNetwork
  BY <1>4, MovingEarly DEF EdgentJoinsNetwork
<1>5. CASE EdgentGivesUp
  <2> SUFFICES ASSUME NEW mode, EdgentFails(mode) PROVE EarlyInv' /\ Justified
    BY <1>5 DEF EdgentGivesUp
  <2>1. CASE prov.config.valid
    BY <2>1, MovingEarly DEF EdgentFails
  <2>2. CASE ~prov.config.valid
    <3> DEFINE p == [prov EXCEPT !.config = NoConfig, !.mode = mode]
    <3>1. PICK saved \in BOOLEAN : Provisions(p, When(saved, ConfigWrites(NoConfig)))
      BY <2>2 DEF EdgentFails
    <3>2. Settles(When(saved, ConfigWrites(NoConfig)))
      BY ConfigFacts, ConfigSettles, SettlesParts
    <3>3. p.fallback = prov.fallback
      BY TrackTypes DEF Prov
    <3> HIDE DEF p
    <3> QED BY <3>1, <3>2, <3>3, ProvidingEarly
  <2> QED BY <2>1, <2>2
<1>6. CASE EdgentLoses
  BY <1>6, MovingEarly DEF EdgentLoses
<1> QED BY <1>1, <1>2, <1>3, <1>4, <1>5, <1>6

LEMMA ConfiguringEarly ==
    ASSUME IInv, IInv', EarlyInv, MaxFaults <= 1,
           ModeResetConfig \/ PortalSubmits \/ EdgentRuns
    PROVE  EarlyInv' /\ Justified
<1>1. PICK p, writes : Serves(outage, p, writes) /\ Settles(writes)
                           /\ (p.fallback => prov.fallback)
  <2>1. CASE ModeResetConfig
    <3>1. CASE prov.started
      <4>1. ~ExplicitReset(prov).fallback
        BY TrackTypes DEF ExplicitReset, Prov
      <4> QED BY <2>1, <3>1, <4>1, ExplicitResetSettles DEF ModeResetConfig
    <3>2. CASE ~prov.started
      <4> DEFINE p == [prov EXCEPT !.config = NoConfig, !.mode = "WAIT_CONFIG"]
      <4>1. p.fallback = prov.fallback
        BY TrackTypes DEF Prov
      <4>2. Serves(outage, p, ConfigWrites(NoConfig))
        BY <2>1, <3>2 DEF ModeResetConfig
      <4> HIDE DEF p
      <4> QED BY <4>1, <4>2, ConfigFacts, ConfigSettles
    <3> QED BY <3>1, <3>2
  <2>2. CASE PortalSubmits
    <3>1. PICK network \in Networks, forced \in BOOLEAN :
              LET candidate == [network |-> network, valid |-> forced]
              IN  Serves(outage, [prov EXCEPT !.config = candidate, !.mode = "SWITCH_TO_STA",
                                              !.recovery = "IDLE"],
                         When(forced, ConfigWrites(candidate)))
      BY <2>2 DEF PortalSubmits
    <3> DEFINE candidate == [network |-> network, valid |-> forced]
               p == [prov EXCEPT !.config = candidate, !.mode = "SWITCH_TO_STA",
                                 !.recovery = "IDLE"]
               w == When(forced, ConfigWrites(candidate))
    <3>2. p.fallback = prov.fallback
      BY TrackTypes DEF Prov
    <3>3. candidate \in Config
      BY DEF Config
    <3> HIDE DEF candidate
    <3>4. Settles(w)
      BY <3>3, ConfigSettles, SettlesParts
    <3>5. Serves(outage, p, w)
      BY <3>1 DEF candidate
    <3> HIDE DEF p, w
    <3> QED BY <3>2, <3>4, <3>5
  <2>3. CASE EdgentRuns
    <3> DEFINE config == Valid(prov.config.network)
               p == [prov EXCEPT !.config = config, !.mode = "RUNNING"]
               w == When(~prov.config.valid, ConfigWrites(config))
    <3>1. Serves(outage, p, w) /\ On /\ prov.mode = "LOGGED_IN"
      BY <2>3 DEF EdgentRuns
    <3>2. p.fallback = prov.fallback
      BY TrackTypes DEF Prov
    <3>3. config \in Config
      BY <3>1, WhileOn, ConfigFacts DEF Sensible
    <3> HIDE DEF config
    <3>4. Settles(w)
      BY <3>3, ConfigSettles, SettlesParts
    <3> HIDE DEF p, w
    <3> QED BY <3>1, <3>2, <3>4
  <2> QED BY <2>1, <2>2, <2>3
<1>2. seenAt' = seenAt
  BY DEF ModeResetConfig, PortalSubmits, EdgentRuns, history
<1> QED BY <1>1, <1>2, Aside DEF Serves, Justified

LEMMA WifiEarly ==
    ASSUME IInv, IInv', EarlyInv, MaxFaults <= 1,
           ServiceSuccessfulWifiConnection \/ SavedWifiConnects \/ BlynkConnected
    PROVE  EarlyInv' /\ Justified
<1> DEFINE o == ResetTracking(outage, now)
           r == ResetWrites(outage)
<1>1. On /\ WifiIsSeen
  BY DEF ServiceSuccessfulWifiConnection, SavedWifiConnects, BlynkConnected
<1>2. r \in Seq(Call)
  BY TrackTypes, ResetQuiet DEF Quiet
<1>3. PICK p, writes : /\ Handles(o, p, uploaded, timedOut, writes)
                       /\ TracksLike(writes, r) /\ (p.fallback => prov.fallback)
  <2>1. CASE ServiceSuccessfulWifiConnection
    BY <2>1, <1>2, TracksLikeParts DEF ServiceSuccessfulWifiConnection, Serves
  <2>2. CASE SavedWifiConnects
    <3> DEFINE m == MarkerWrites(nvs, FALSE)
               p == Recovered(prov)
    <3>1. Handles(o, p, uploaded, timedOut, m \o r)
      BY <2>2 DEF SavedWifiConnects, Serves
    <3>2. ~p.fallback
      BY TrackTypes DEF Recovered, Prov
    <3>3. Settles(m)
      BY MarkerSettles
    <3> HIDE DEF m, p, o, r
    <3> QED BY <3>1, <3>2, <3>3, <1>2, TracksLikeParts
  <2>3. CASE BlynkConnected
    <3> DEFINE m == BlynkLoggedInWrites(nvs, prov)
               p == BlynkLoggedIn(prov)
    <3>1. Handles(o, p, uploaded, timedOut, m \o r)
      BY <2>3 DEF BlynkConnected, Serves
    <3>2. ~p.fallback
      BY TrackTypes DEF BlynkLoggedIn, Prov
    <3>3. Settles(m)
      BY TrackTypes, LoggedInSettles
    <3> HIDE DEF m, p, o, r
    <3> QED BY <3>1, <3>2, <3>3, <1>2, TracksLikeParts
  <2> QED BY <2>1, <2>2, <2>3
<1> QED BY <1>1, <1>3, FindingWifi DEF Justified

LEMMA AbortingEarly ==
    ASSUME IInv, IInv', EarlyInv, MaxFaults <= 1, AbortEdgentConnectionForThisCycle
    PROVE  EarlyInv' /\ Justified
<1> DEFINE running == [prov EXCEPT !.mode = IF @ \in Portal \cup {"CONNECTING_NET",
                                                       "CONNECTING_CLOUD"}
                                            THEN "RUNNING" ELSE @]
<1>1. /\ On
      /\ \/ CheckOutage(TRUE, running, TRUE) /\ UNCHANGED history
         \/ /\ Handles(ResetTracking(outage, now), running, uploaded, TRUE,
                       ResetWrites(outage))
            /\ WifiIsSeen
  BY DEF AbortEdgentConnectionForThisCycle
<1>2. running.fallback = prov.fallback
  BY TrackTypes DEF Prov
<1> HIDE DEF running
<1>3. CASE CheckOutage(TRUE, running, TRUE) /\ UNCHANGED history
  <2>1. PICK due \in BOOLEAN, isTimedOut \in BOOLEAN : CheckOutage(due, running, isTimedOut)
    BY <1>3
  <2> QED BY <2>1, <1>1, <1>2, <1>3, CheckingEarly DEF history
<1>4. CASE /\ Handles(ResetTracking(outage, now), running, uploaded, TRUE,
                      ResetWrites(outage))
           /\ WifiIsSeen
  <2>1. TracksLike(ResetWrites(outage), ResetWrites(outage))
    BY TrackTypes, ResetQuiet, TracksLikeParts DEF Quiet
  <2> QED BY <2>1, <1>1, <1>2, <1>4, FindingWifi DEF Justified
<1> QED BY <1>1, <1>3, <1>4

LEMMA StayingAwakeEarly ==
    ASSUME IInv, IInv', EarlyInv, MaxFaults <= 1, ServiceStayAwakeWifiProvisioningFallback
    PROVE  EarlyInv' /\ Justified
<1>1. PICK due \in BOOLEAN : CheckOutage(due, prov, timedOut)
  BY DEF ServiceStayAwakeWifiProvisioningFallback
<1>2. On /\ seenAt' = seenAt
  BY DEF ServiceStayAwakeWifiProvisioningFallback, history
<1> QED BY <1>1, <1>2, CheckingEarly

LEMMA EarlyInductive ==
    ASSUME MaxFaults <= 1
    PROVE  IInv /\ IInv' /\ EarlyInv /\ [Next]_vars => EarlyInv' /\ Justified
<1> SUFFICES ASSUME IInv, IInv', EarlyInv, [Next]_vars PROVE EarlyInv' /\ Justified
  OBVIOUS
<1>1. CASE \/ NetworkTime \/ UploadFinishes \/ StartNormalMeasurementCycle
           \/ SetDeepSleepDisabled \/ ButtonReset \/ UNCHANGED vars
  BY <1>1, SimpleEarly
<1>2. CASE Tick  BY <1>2, TickingEarly
<1>3. CASE PowerLossOrReset  BY <1>3, ResettingEarly
<1>4. CASE EnterTimedDeepSleep
  <2>1. power' # "on"
    BY <1>4 DEF EnterTimedDeepSleep, Torn, Dies
  <2> QED BY <2>1, <1>4, SleepingEarly DEF Justified
<1>5. CASE Setup
  <2>1. ~On
    BY <1>5 DEF Setup, On
  <2> QED BY <2>1, <1>5, BootingEarly DEF Justified
<1>6. CASE SavedWifiRestores \/ SavedWifiBegins \/ SavedWifiTimesOut \/ FirstCycle
  BY <1>6, SavedWifiEarly
<1>7. CASE \/ ModeError \/ PortalClient \/ EdgentSwitches \/ EdgentJoinsNetwork
           \/ EdgentGivesUp \/ EdgentLoses
  BY <1>7, EdgentEarly
<1>8. CASE ModeResetConfig \/ PortalSubmits \/ EdgentRuns
  BY <1>8, ConfiguringEarly
<1>9. CASE ServiceSuccessfulWifiConnection \/ SavedWifiConnects \/ BlynkConnected
  BY <1>9, WifiEarly
<1>10. CASE AbortEdgentConnectionForThisCycle  BY <1>10, AbortingEarly
<1>11. CASE ServiceStayAwakeWifiProvisioningFallback  BY <1>11, StayingAwakeEarly
<1> QED
  BY <1>1, <1>2, <1>3, <1>4, <1>5, <1>6, <1>7, <1>8, <1>9, <1>10, <1>11 DEF Next

LEMMA EarlyInitially == Init => EarlyInv
<1> SUFFICES ASSUME Init PROVE EarlyInv
  OBVIOUS
<1>1. power = "off" /\ now = 1 /\ seenAt = 1
  BY DEF Init
<1>2. /\ nvs.active = FALSE /\ nvs.started = 0 /\ nvs.elapsed = 0 /\ nvs.sleep = 0
  BY DEF Init, Keys
<1> QED BY <1>1, <1>2 DEF EarlyInv, StoredOutage, KnownOutage, OneFault, Clear, On

\* NeverEarly: with at most one torn handler or failing write in a behaviour, the portal
\* never opens before the Wi-Fi has been away for WIFI_OUTAGE_BEFORE_PROVISIONING,
\* however often the device slept, was reset or lost its clock in between.
THEOREM NotEarlyAfterOneFault == ASSUME MaxFaults <= 1 PROVE Spec => NeverEarly
<1>1. IInv /\ IInv' /\ EarlyInv /\ [Next]_vars => EarlyInv'
  BY EarlyInductive
<1>2. IInv /\ IInv' /\ EarlyInv /\ [Next]_vars
          => [~prov.fallback /\ On /\ prov'.fallback /\ power' = "on"
                  => now - seenAt >= WIFI_OUTAGE_BEFORE_PROVISIONING]_vars
  BY EarlyInductive DEF Justified
<1> QED BY <1>1, <1>2, EarlyInitially, Invariant, PTL DEF Spec, NeverEarly
=============================================================================
