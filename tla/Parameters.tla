----------------------------- MODULE Parameters -----------------------------
(***************************************************************************)
(* The multi-parameter classes (aes70_dsp.c): OcaDynamics,                 *)
(* OcaFilterClassical, OcaFilterParametric, OcaPanBalance and              *)
(* OcaSignalGenerator.                                                     *)
(*                                                                         *)
(* Four tables of the source have to agree for a subscriber to see what    *)
(* the device holds: the field a selector writes, the property whose       *)
(* change is announced, the field a property is read from, and the methods *)
(* that count as writes.  They are kept apart here as they are there.      *)
(*                                                                         *)
(* One object of any of the classes.  Value 0 and 1 lie in every range, 2  *)
(* outside; min, max and the OcaDBr reference of a threshold never change. *)
(* Delivery to the subscriber is that of module Sessions.  MaxTouched      *)
(* bounds the parameters written in one behaviour.                         *)
(***************************************************************************)
EXTENDS Naturals, FiniteSets, Sequences

CONSTANTS
  MaxTouched,     \* bound on the different parameters one behaviour writes
  Privileged,     \* a controller whose session is privileged
  Unprivileged,   \* one whose session is not
  Application     \* aes70_dsp_apply_set

Controller == {Privileged, Unprivileged}
Value      == 0 .. 2
OutOfRange == 2

Kind == {"dynamics", "filter", "peq", "pan", "siggen"}

VARIABLES
  kind,      \* obj->kind
  secured,   \* obj->secured
  val,       \* field of the class's state -> its value
  mirror,    \* property -> its value to a controller that subscribed at the start
  by,        \* ghost: who took the last step
  touched    \* ghost: the selectors written so far

vars == <<kind, secured, val, mirror, by, touched>>

-----------------------------------------------------------------------------
(* The tables.                                                             *)

(* sel_to_prop.  The selectors of a class are the domain of its row.       *)
PropertyTable ==
  [dynamics |-> [triggered |-> 1, dynamic_gain |-> 2, function |-> 3, ratio |-> 4,
                 threshold |-> 5, threshold_units |-> 6, detector_law |-> 7,
                 attack |-> 8, release |-> 9, hold |-> 10, gain_ceiling |-> 11,
                 gain_floor |-> 12, knee |-> 13, slope |-> 14],
   filter   |-> [frequency |-> 1, passband |-> 2, shape |-> 3, order |-> 4, parameter |-> 5],
   peq      |-> [frequency |-> 1, shape |-> 2, width |-> 3, inband_gain |-> 4,
                 shape_param |-> 5],
   pan      |-> [position |-> 1, midpoint_gain |-> 2],
   siggen   |-> [freq1 |-> 1, freq2 |-> 2, level |-> 3, waveform |-> 4, sweep_type |-> 5,
                 sweep_time |-> 6, sweep_repeat |-> 7, generating |-> 8]]

Selector(k) == DOMAIN PropertyTable[k]

(* Bug: the two gain limits change places.                                 *)
AnnouncedSwappedBug(k, sel) ==
  CASE sel = "gain_floor" -> 11 [] sel = "gain_ceiling" -> 12
    [] OTHER -> PropertyTable[k][sel]

Announced(k, sel) == PropertyTable[k][sel]

(* aes70_dsp_encode_property: the fields properties 1, 2, ... are read from.*)
Encoded ==
  [dynamics |-> <<"triggered", "dynamic_gain", "function", "ratio", "threshold",
                  "threshold_units", "detector_law", "attack", "release", "hold",
                  "gain_ceiling", "gain_floor", "knee", "ratio">>,
   filter   |-> <<"frequency", "passband", "shape", "order", "parameter">>,
   peq      |-> <<"frequency", "shape", "width", "inband_gain", "shape_param">>,
   pan      |-> <<"position", "midpoint_gain">>,
   siggen   |-> <<"freq1", "freq2", "level", "waveform", "sweep_type", "sweep_time",
                  "sweep_repeat", "generating">>]

Property(k) == DOMAIN Encoded[k]
Field(k)    == {Encoded[k][p] : p \in Property(k)}

(* dyn_write, flt_write, peq_write, pan_write, sig_write: the field, and   *)
(* what it holds afterwards.                                               *)
FieldOf(sel) == IF sel = "slope" THEN "ratio" ELSE sel

Flags == {"triggered", "sweep_repeat", "generating"}

Stored(sel, v) == IF sel \in Flags /\ v # 0 THEN 1 ELSE v

(* The methods that write, in the order of the dispatchers.  Start and     *)
(* Stop write one value each.                                              *)
SetterTable ==
  [dynamics |-> [function |-> 4, ratio |-> 6, threshold |-> 8, threshold_units |-> 10,
                 detector_law |-> 12, attack |-> 14, release |-> 16, hold |-> 18,
                 gain_floor |-> 20, gain_ceiling |-> 22, knee |-> 24, slope |-> 26],
   filter   |-> [frequency |-> 2, passband |-> 4, shape |-> 6, order |-> 8, parameter |-> 10],
   peq      |-> [frequency |-> 2, shape |-> 4, width |-> 6, inband_gain |-> 8,
                 shape_param |-> 10],
   pan      |-> [position |-> 2, midpoint_gain |-> 4],
   siggen   |-> [freq1 |-> 2, freq2 |-> 4, level |-> 6, waveform |-> 8, sweep_type |-> 10,
                 sweep_time |-> 12, sweep_repeat |-> 14, generating |-> 16]]

Settable(k) == DOMAIN SetterTable[k]

Method(k, sel, v) ==
  IF sel = "generating" /\ v = 0 THEN 17 ELSE SetterTable[k][sel]

(* Setters that refuse a value outside the range of their parameter.       *)
RangeChecked ==
  [dynamics |-> {"ratio", "threshold", "attack", "release", "knee"},
   filter   |-> {"frequency", "order"},
   peq      |-> {"frequency", "inband_gain"},
   pan      |-> {"position"},
   siggen   |-> {"freq1", "freq2", "level"}]

(* Parameters the public interface lets the application set.               *)
ApplicationSets ==
  [dynamics |-> {"function", "threshold", "ratio", "attack", "release", "dynamic_gain",
                 "triggered"},
   filter   |-> {"frequency", "passband", "shape", "order"},
   peq      |-> {"frequency", "inband_gain", "width", "shape"},
   pan      |-> {"position"},
   siggen   |-> {"freq1", "level", "waveform", "generating"}]

(* aes70_method_is_write.                                                  *)
IsWrite(k, m) ==
  CASE k = "dynamics"         -> m % 2 = 0 /\ m \in 4 .. 26
    [] k \in {"filter", "peq"} -> m \in {2, 4, 6, 8, 10}
    [] k = "pan"              -> m \in {2, 4}
    [] k = "siggen"           -> m % 2 = 0 /\ m \in 2 .. 14

-----------------------------------------------------------------------------
Init ==
  /\ kind \in Kind
  /\ secured = FALSE
  /\ val = [f \in Field(kind) |-> 0]
  /\ mirror = [p \in Property(kind) |-> 0]
  /\ by = Application
  /\ touched = {}

(* The field is written, then the property is announced with the value it  *)
(* is read as; a controller's write is also reported to the application.   *)
ParamWrite(sel, v) ==
  /\ val' = [val EXCEPT ![FieldOf(sel)] = Stored(sel, v)]
  /\ LET p == Announced(kind, sel) IN mirror' = [mirror EXCEPT ![p] = val'[Encoded[kind][p]]]
  /\ touched' = touched \cup {sel}
  /\ Cardinality(touched') <= MaxTouched
  /\ UNCHANGED <<kind, secured>>

(* aes70_object_dispatch and the class's setter.                           *)
ControllerSet(s, sel, v) ==
  /\ sel \in Settable(kind)
  /\ secured /\ IsWrite(kind, Method(kind, sel, v)) => s = Privileged
  /\ v = OutOfRange => sel \notin RangeChecked[kind]
  /\ ParamWrite(sel, v)
  /\ by' = s

(* aes70_dsp_apply_set: no range is checked.                               *)
ApplicationSet(sel, v) ==
  /\ sel \in ApplicationSets[kind]
  /\ ParamWrite(sel, v)
  /\ by' = Application

SetSecured(b) ==
  /\ secured' = b
  /\ by' = Application
  /\ UNCHANGED <<kind, val, mirror, touched>>

Next ==
  \/ \E sel \in Selector(kind), v \in Value :
       \/ \E s \in Controller : ControllerSet(s, sel, v)
       \/ ApplicationSet(sel, v)
  \/ \E b \in BOOLEAN : SetSecured(b)

Spec == Init /\ [][Next]_vars

-----------------------------------------------------------------------------
(* Properties.                                                             *)

(* Type invariant: flags hold truth values, the rest any value.            *)
TypeOK ==
  /\ kind \in Kind
  /\ secured \in BOOLEAN
  /\ val \in [Field(kind) -> Value]
  /\ \A f \in Flags \cap Field(kind) : val[f] \in {0, 1}
  /\ mirror \in [Property(kind) -> Value]
  /\ by \in Controller \cup {Application}
  /\ touched \subseteq Selector(kind)

(* A controller that subscribed knows the value of every field, by one     *)
(* property or another: the tables agree, whoever writes.  (Ratio and      *)
(* Slope of OcaDynamics are read from one field and announced apart, so a  *)
(* property on its own may be out of date.)                                *)
SubscriberUpToDate ==
  \A f \in Field(kind) :
    \E p \in Property(kind) : Encoded[kind][p] = f /\ mirror[p] = val[f]

(* A secured object keeps every parameter through the calls of sessions    *)
(* without privilege, but for a signal generator's Generating.             *)
SecuredKept ==
  secured /\ by' = Unprivileged =>
    \A f \in Field(kind) \ {"generating"} : val'[f] = val[f]
=============================================================================
