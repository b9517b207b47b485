------------------------------- MODULE Adapters -------------------------------
(***************************************************************************)
(* From the sensors of a Home Assistant to the surplus a household offers: *)
(* the discovery and the reading of each adapter (adapters/), the two      *)
(* wizard steps between them (config_flow.py), and surplus_w (base.py).    *)
(*                                                                         *)
(* Discovery matches substrings of entity ids.  An entity is a record: the *)
(* vendor its id begins with, the tokens the id holds (for Anker: the one  *)
(* it ends with, and as its lead what is left before that one), and what   *)
(* it really measures, of which unit.                                      *)
(***************************************************************************)
EXTENDS Integers, SequencesExt

CONSTANTS
    Entities,   \* sensors an installation may have
    MaxSensors, \* bound: sensors of one installation
    Flows,      \* PV and battery power of each unit, and the load of the house
    None        \* no value

Vendors == {"anker_solix", "marstek_venus", "maxxicharge", "shelly_3em", "generic"}
Units == {1, 2}

\* Mutant of BindingKeys: the form has no field for the meter.
BindingKeysNoGrid == {"pv", "battery_soc", "battery_power", "home_load"}

BindingKeys == {"pv", "battery_soc", "battery_power", "grid_export", "home_load"}

ASSUME AdaptersAssumption ==
    /\ \A e \in Entities : e.of \in Vendors /\ e.unit \in Units
    /\ \A f \in Flows :
          f.pv \in [Units -> Nat] /\ f.battery \in [Units -> Int] /\ f.load \in Nat
    /\ MaxSensors \in Nat
    /\ None \notin Int \cup BindingKeys

VARIABLES
    sensors,    \* entity ids of the state machine, in the order they came
    step,       \* the wizard's form, then "done"
    vendor,     \* the adapter picked
    discovered, \* what discover returned for it
    binding     \* the entry's adapter binding

vars == <<sensors, step, vendor, discovered, binding>>

Nothing == [k \in {} |-> None]

\* b, with the sensor e for the key k.
With(b, k, e) == [l \in DOMAIN b \cup {k} |-> IF l = k THEN e ELSE b[l]]

Init ==
    /\ sensors = <<>>
    /\ step = "pick"
    /\ vendor = None
    /\ discovered = <<>>
    /\ binding = Nothing

-----------------------------------------------------------------------------
(* Discovery. *)

AnkerRules ==
    << <<"pv_power", "pv">>, <<"solar_power", "pv">>,
       <<"battery_soc", "battery_soc">>, <<"battery_state_of_charge", "battery_soc">>,
       <<"battery_power", "battery_power">>, <<"output_power", "battery_power">>,
       <<"grid_power", "grid_export">>, <<"home_load", "home_load">> >>

MarstekRules ==
    << <<"pv_power", "pv">>, <<"solar_power", "pv">>,
       <<"battery_soc", "battery_soc">>, <<"soc", "battery_soc">>,
       <<"battery_power", "battery_power">>,
       <<"charge_discharge_power", "battery_power">>,
       <<"grid_power", "grid_export">>, <<"ac_power", "grid_export">>,
       <<"load_power", "home_load">> >>

MaxxiRules ==
    << <<"pv_power", "pv">>, <<"solar_power", "pv">>, <<"input_power", "pv">>,
       <<"soc", "battery_soc">>, <<"battery_level", "battery_soc">>,
       <<"battery_power", "battery_power">>, <<"output_power", "battery_power">>,
       <<"grid_power", "grid_export">>, <<"export_power", "grid_export">>,
       <<"home_consumption", "home_load">>, <<"load", "home_load">> >>

\* Mutant of KeyFor: a sensor whose first rule is taken does not fall through.
KeyForFirstRule(e, rules, taken) ==
    LET fits == {i \in DOMAIN rules : rules[i][1] \in e.has}
    IN  IF fits = {} \/ rules[Min(fits)][2] \in taken THEN None ELSE rules[Min(fits)][2]

\* The key of the first rule that fits an entity and is not taken, or None.
KeyFor(e, rules, taken) ==
    LET fits == {i \in DOMAIN rules : rules[i][1] \in e.has /\ rules[i][2] \notin taken}
    IN  IF fits = {} THEN None ELSE rules[Min(fits)][2]

AnkerKey(e) == IF e.of = "anker_solix" THEN KeyFor(e, AnkerRules, {}) ELSE None

\* The sensors Anker's rules know, by their position.
AnkerSensors == {i \in DOMAIN sensors : AnkerKey(sensors[i]) # None}

\* The binding of some sensors; of two for one key the later one is kept.
Latest(some) ==
    [k \in {AnkerKey(sensors[i]) : i \in some} |->
        sensors[Max({i \in some : AnkerKey(sensors[i]) = k})]]

\* Mutant of AnkerDiscover: all devices end up in one binding.
AnkerDiscoverMerged == IF AnkerSensors = {} THEN <<>> ELSE <<Latest(AnkerSensors)>>

\* What Anker's adapter takes for the device: all of the id between the vendor
\* and the metric.  It names the unit, and may name more ("1" and "1_ac").
AnkerDevice(e) == e.lead

\* The devices of Anker's sensors, in the order they appear.
AnkerDevices ==
    FoldLeft(LAMBDA ds, e : IF AnkerKey(e) = None \/ Contains(ds, AnkerDevice(e)) THEN ds
                            ELSE Append(ds, AnkerDevice(e)), <<>>, sensors)

\* One binding for each of them.
AnkerDiscover ==
    [n \in DOMAIN AnkerDevices |->
        Latest({i \in AnkerSensors : AnkerDevice(sensors[i]) = AnkerDevices[n]})]

\* Marstek and Maxxicharge: one binding for all there is; the first sensor that
\* claims a key keeps it, and a sensor may fall through to a later rule.
FirstClaims(v, rules) ==
    LET Claim(b, e) == LET k == KeyFor(e, rules, DOMAIN b)
                       IN  IF e.of # v \/ k = None THEN b ELSE With(b, k, e)
        bound == FoldLeft(Claim, Nothing, sensors)
    IN  IF bound = Nothing THEN <<>> ELSE <<bound>>

ShellyNames ==
    << {"shellyem3", "total", "active", "power"},
       {"shellypro3em", "total", "active", "power"},
       {"shelly3em", "total", "power"} >>

\* The first sensor for the first name pattern any sensor has.
ShellyDiscover ==
    LET found(n) == {i \in DOMAIN sensors : ShellyNames[n] \subseteq sensors[i].has}
        named == {n \in DOMAIN ShellyNames : found(n) # {}}
    IN  IF named = {} THEN <<>>
        ELSE <<With(Nothing, "grid_import_signed", sensors[Min(found(Min(named)))])>>

\* Only the three entities of the simulation, and only all of them.
GenericDiscover ==
    LET sims == {"pv", "battery_power", "grid_export"}
        sim(k) == {e \in ToSet(sensors) : e.of = "generic" /\ e.shows = k}
    IN  IF \E k \in sims : sim(k) = {} THEN <<>>
        ELSE <<[k \in sims |-> CHOOSE e \in sim(k) : TRUE]>>

Discover(v) ==
    CASE v = "anker_solix"   -> AnkerDiscover
      [] v = "marstek_venus" -> FirstClaims(v, MarstekRules)
      [] v = "maxxicharge"   -> FirstClaims(v, MaxxiRules)
      [] v = "shelly_3em"    -> ShellyDiscover
      [] v = "generic"       -> GenericDiscover

-----------------------------------------------------------------------------
(* What the sensors say, and what the adapters make of it. *)

\* Power that leaves the house at the meter.
Export(f) == f.pv[1] + f.pv[2] - f.battery[1] - f.battery[2] - f.load

\* Marstek and Shelly count what is imported.
Says(e, f) ==
    CASE e.shows = "pv"            -> f.pv[e.unit]
      [] e.shows = "battery_power" -> f.battery[e.unit]
      [] e.shows = "home_load"     -> f.load
      [] e.shows = "grid_export"   -> IF e.of \in {"marstek_venus", "shelly_3em"}
                                      THEN -Export(f) ELSE Export(f)
      [] OTHER                     -> 0

\* _read_float: a key without an entity and an entity without a number are None.
\* "there" are the entities that have a number now.
ReadFloat(k, b, there, f) ==
    IF k \in DOMAIN b /\ b[k] \in there THEN Says(b[k], f) ELSE None

Flip(x) == IF x = None THEN None ELSE -x

ReadKeys == {"pv", "battery_soc", "battery_power", "grid_export", "home_load"}

\* read_state of Anker, Maxxicharge and the generic adapter, for a binding b.
ReadPlain(b, there, f) == [k \in ReadKeys |-> ReadFloat(k, b, there, f)]

ReadMarstek(b, there, f) == [ReadPlain(b, there, f) EXCEPT !["grid_export"] = Flip(@)]

\* The Shelly adapter measures the meter only, under a key of its own.
ReadShelly(b, there, f) ==
    [k \in ReadKeys |-> IF k = "grid_export"
                        THEN Flip(ReadFloat("grid_import_signed", b, there, f)) ELSE None]

ReadState(b, there, f) ==
    CASE vendor = "shelly_3em"    -> ReadShelly(b, there, f)
      [] vendor = "marstek_venus" -> ReadMarstek(b, there, f)
      [] OTHER                    -> ReadPlain(b, there, f)

Surplus(r) ==
    LET charging == Max({0} \cup ({r["battery_power"]} \ {None}))
    IN  IF r["grid_export"] # None THEN r["grid_export"]
        ELSE IF r["pv"] # None /\ r["home_load"] # None
             THEN r["pv"] - r["home_load"] - charging
             ELSE 0

CompleteEnoughToTrade(r) == r["grid_export"] # None \/ r["pv"] # None

-----------------------------------------------------------------------------
(* The wizard. *)

\* Integrations of the vendors load in any order.
SensorAppears(e) ==
    /\ step = "pick"
    /\ Len(sensors) < MaxSensors
    /\ ~Contains(sensors, e)
    /\ sensors' = Append(sensors, e)
    /\ UNCHANGED <<step, vendor, discovered, binding>>

\* Discovery runs again when the vendor is submitted.
AdapterPick(v) ==
    /\ step = "pick"
    /\ vendor' = v
    /\ discovered' = Discover(v)
    /\ step' = "bind"
    /\ UNCHANGED <<sensors, binding>>

\* Mutant of Proposed: all of it is stored.
ProposedWhole == IF discovered = <<>> THEN Nothing ELSE Head(discovered)

\* The first binding found fills the fields of the form, as far as there are any.
Proposed ==
    IF discovered = <<>> THEN Nothing
    ELSE [k \in DOMAIN Head(discovered) \cap BindingKeys |-> Head(discovered)[k]]

\* The fields of the form as the user submits it; empty ones are not stored.
AdapterBind(fields) ==
    /\ step = "bind"
    /\ binding' = fields
    /\ step' = "done"
    /\ UNCHANGED <<sensors, vendor, discovered>>

Next ==
    \/ \E e \in Entities : SensorAppears(e)
    \/ \E v \in Vendors : AdapterPick(v)
    \/ \E kept \in SUBSET DOMAIN Proposed : AdapterBind([k \in kept |-> Proposed[k]])
    \/ \E k \in BindingKeys, e \in ToSet(sensors) : AdapterBind(With(Proposed, k, e))

Spec == Init /\ [][Next]_vars

-----------------------------------------------------------------------------
(* Properties. *)

\* Every variable keeps its type; a stored binding has only keys of the form.
TypeOK ==
    /\ ToSet(sensors) \subseteq Entities
    /\ step \in {"pick", "bind", "done"}
    /\ vendor \in Vendors \cup {None}
    /\ \A i \in DOMAIN discovered :
          {discovered[i][k] : k \in DOMAIN discovered[i]} \subseteq ToSet(sensors)
    /\ DOMAIN binding \subseteq BindingKeys
    /\ {binding[k] : k \in DOMAIN binding} \subseteq ToSet(sensors)

Rules == [anker_solix |-> AnkerRules, marstek_venus |-> MarstekRules,
          maxxicharge |-> MaxxiRules]

\* The keys some rules allow a sensor.
Allowed(e, rules) == {rules[i][2] : i \in {j \in DOMAIN rules : rules[j][1] \in e.has}}

\* The keys a sensor of the vendor picked can be bound to: Anker's only its first.
KeysOf(e) == IF vendor = "anker_solix" THEN {AnkerKey(e)} \ {None} ELSE Allowed(e, Rules[vendor])

\* A binding of Anker's is of one device; the others have only one binding.
SameDevice(d, e) == vendor = "anker_solix" => AnkerDevice(d) = AnkerDevice(e)

BoundAt(e, i, k) == i \in DOMAIN discovered /\ k \in DOMAIN discovered[i] /\ discovered[i][k] = e

\* discover of the three vendors with rules gives each of their sensors its
\* place, whatever order they came in: at most one place in all that is found,
\* under a key its id speaks of and among sensors of its own device; and a
\* sensor is left out only where every such key is held by another one of the
\* same device.  The device is what the adapter makes of the id, not what is
\* on the roof: two units of Marstek or Maxxicharge share the one binding.
EachSensorHasItsPlace ==
    step # "pick" /\ vendor \in DOMAIN Rules =>
        \A e \in ToSet(sensors) : e.of = vendor =>
            /\ \A i, j \in DOMAIN discovered :
                  \A k \in DOMAIN discovered[i], l \in DOMAIN discovered[j] :
                     BoundAt(e, i, k) /\ BoundAt(e, j, l) => i = j /\ k = l
            /\ \A i \in DOMAIN discovered : \A k, l \in DOMAIN discovered[i] :
                  BoundAt(e, i, k) => k \in KeysOf(e) /\ SameDevice(discovered[i][l], e)
            /\ \/ \E i \in DOMAIN discovered : \E k \in DOMAIN discovered[i] : BoundAt(e, i, k)
               \/ \A k \in KeysOf(e) : \E i \in DOMAIN discovered :
                     k \in DOMAIN discovered[i] /\ SameDevice(discovered[i][k], e)

\* A household whose first device found measures PV or the meter can trade with
\* what the wizard proposes.  The Shelly adapter's key is not in the form, and
\* its households cannot.
FoundIsTraded ==
    step = "bind" /\ discovered # <<>> /\ vendor # "shelly_3em" =>
        \A f \in Flows :
            (\E k \in DOMAIN Head(discovered) : k \in {"pv", "grid_export"})
                => CompleteEnoughToTrade(ReadState(Proposed, ToSet(sensors), f))

CountsImport == {"marstek_venus", "shelly_3em"}

\* Each key is bound to a sensor of what it says, and the meter's sensor counts
\* in the direction the adapter expects.
Truthful ==
    \A k \in DOMAIN binding :
        /\ binding[k].shows = k
        /\ k = "grid_export" => (binding[k].of \in CountsImport <=> vendor \in CountsImport)

\* A surplus that is offered leaves the house at the meter, also while some
\* sensors have no value: either the meter is read, or the formula takes off
\* what charges the battery.  That needs every battery that charges to be read,
\* and the binding has a field for one.
OfferedSurplusIsThere ==
    step = "done" /\ Truthful =>
        \A f \in Flows, there \in SUBSET {binding[k] : k \in DOMAIN binding} :
            LET r == ReadState(binding, there, f) IN
            \/ Surplus(r) <= 0
            \/ Surplus(r) <= Export(f)
            \/ /\ r["grid_export"] = None
               /\ \E u \in Units :
                     /\ f.battery[u] > 0
                     /\ r["battery_power"] # None => binding["battery_power"].unit # u

=============================================================================
