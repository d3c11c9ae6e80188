------------------------------- MODULE Values -------------------------------
(***************************************************************************)
(* The single-value classes (aes70_classes.c, aes70_object.c), OcaWorker   *)
(* and OcaAgent properties every class has, and the two settable           *)
(* properties of OcaDeviceManager: who may write them, what is stored and  *)
(* what the controllers hear of it.                                        *)
(*                                                                         *)
(* One object of any class.  The tables of the source are kept apart: the  *)
(* method that writes a value, the methods that count as writes, the       *)
(* property announced, the property read back.  Ranges start at 1, with 0  *)
(* below and 3 above them; a string is its length.  Delivery to the        *)
(* subscriber is that of module Sessions, the end of a session too.        *)
(***************************************************************************)
EXTENDS Naturals

CONSTANTS
  Privileged,     \* a controller whose session is privileged
  Unprivileged,   \* one whose session is not
  Application,    \* the task of the application
  Recall,         \* ApplyParameterData of the block, whoever sends it
  Nobody          \* no lock owner

Controller == {Privileged, Unprivileged}

NaN    == 4                    \* not a number: every comparison with it is false
Number == 0 .. 3
Less(a, b) == a # NaN /\ b # NaN /\ a < b

Text == {"", "a"}              \* labels and names

Sensor  == {"level_sensor", "temperature"}
Real    == {"gain", "float32", "delay", "frequency"} \cup Sensor
Integer == {"int32", "uint16", "uint32"}
TwoState == {"mute", "polarity"}
Truth   == {"boolean", "identify"}
Basic   == {"boolean", "float32", "string"} \cup Integer
Valued  == Real \cup Integer \cup TwoState \cup Truth \cup {"switch", "string"}
Worker  == Valued \cup {"block"}
Kind    == Worker \cup {"grouper", "manager"}

Actuator == Valued \ Sensor

VARIABLES
  kind,      \* obj->kind
  range,     \* num_min and num_max; count: sw_count, or str_max of a string
  field,     \* the properties that are announced
  known,     \* what a controller that subscribed at the start was told they are
  secured, owner,   \* obj->secured; lock_owner, Nobody when lock_state is NONE
  by,        \* ghost: who took the last step
  setBy,     \* ghost: who set the value last
  relabelled \* ghost: the application has set the label

vars == <<kind, range, field, known, secured, owner, by, setBy, relabelled>>

-----------------------------------------------------------------------------
(* The tables.                                                             *)

(* The setter of the value, by level and index, and the property it        *)
(* passes to commit_num or commit_str.                                     *)
Setter(k) == IF k \in Basic THEN <<5, 2>> ELSE <<4, 2>>

SetterAnnounces(k) == IF k \in Basic THEN <<5, 1>> ELSE <<4, 1>>

(* aes70_object_primary_property.                                          *)
Primary(k) == IF k \in Basic THEN <<5, 1>> ELSE <<4, 1>>

(* Bug: the setters of OcaWorker stop at Enabled.                          *)
IsWriteNoLabelBug(k, m) ==
  \/ m \in {<<1, 3>>, <<1, 4>>, <<1, 6>>, <<2, 2>>}
  \/ k \in Actuator /\ m = Setter(k)

(* aes70_method_is_write; the setters of OcaDeviceManager are not there.   *)
IsWrite(k, m) ==
  \/ m \in {<<1, 3>>, <<1, 4>>, <<1, 6>>, <<2, 2>>, <<2, 9>>}
  \/ k \in Basic /\ m = <<5, 2>>
  \/ k \in Actuator \ Basic /\ m = <<4, 2>>

(* aes70_object_encode_property: the field a property is read from.        *)
Encoded(k, p) ==
  CASE p = <<2, 1>> -> "enabled"
    [] p = <<2, 3>> -> "label"
    [] k = "manager" /\ p = <<3, 4>> -> "name"
    [] k = "manager" /\ p = <<3, 6>> -> "role"
    [] k \in Valued /\ p = Primary(k) -> "value"
    [] OTHER -> "none"

Field == {"enabled", "label", "name", "role", "value"}

(* What a controller's setter stores of what it reads.                     *)
Stored(k, v) == IF k \in Truth THEN (IF v = 0 THEN 0 ELSE 1) ELSE v

(* encode_value and the getters write the same of it.                      *)
Shown(k, v) == IF k \in Truth THEN (IF v = 0 THEN 0 ELSE 1) ELSE v

(* The numbers a setter of this class can be given.                        *)
Input(k) == IF k \in Real THEN Number \cup {NaN} ELSE Number

Below(v) == Less(v, range.min)
Above(v) == Less(range.max, v)
LastPosition == range.count - 1

(* Bug: the position after the last is let through.                        *)
RefusedBug(k, v) ==
  CASE k = "switch"   -> v > range.count
    [] k = "string"   -> range.count # 0 /\ v > range.count
    [] k \in TwoState -> v \notin {1, 2}
    [] k \in Truth    -> FALSE
    [] OTHER          -> Below(v) \/ Above(v)

(* PARAMETER_OUT_OF_RANGE.                                                 *)
Refused(k, v) ==
  CASE k = "switch"   -> range.count = 0 \/ v > LastPosition
    [] k = "string"   -> range.count # 0 /\ v > range.count
    [] k \in TwoState -> v \notin {1, 2}
    [] k \in Truth    -> FALSE
    [] OTHER          -> Below(v) \/ Above(v)

Clamp(v) == IF Below(v) THEN range.min ELSE IF Above(v) THEN range.max ELSE v

(* What aes70_object_apply_set makes of a value.                           *)
Applied(k, v) ==
  CASE k \in Real \cup Integer -> Clamp(v)
    [] k = "switch" /\ range.count > 0 /\ v > LastPosition -> LastPosition
    [] OTHER -> v

(* What the typed setters of the public interface can be given.            *)
ApplicationInput(k) ==
  {v \in Input(k) : /\ k \in TwoState => v \in {1, 2}
                    /\ k \in Truth    => v \in {0, 1}}

-----------------------------------------------------------------------------
(* The constructors.  A switch made without position names has none.       *)
Range(k) ==
  {r \in [min : 0 .. 1, max : 0 .. 2, count : 0 .. 2] :
     /\ k \in TwoState => r = [min |-> 1, max |-> 2, count |-> 0]
     /\ k \in Truth    => r = [min |-> 0, max |-> 1, count |-> 0]
     /\ k = "switch"   => r.min = 0 /\ r.max < 2 /\ (r.count # 0 => r.max = r.count - 1)
     /\ k = "string"   => r.min = 0 /\ r.max = 0 /\ r.count # 1
     /\ k \in Real \cup Integer => r.min = 1 /\ r.max # 0 /\ r.count = 0
     /\ k \notin Valued => r = [min |-> 0, max |-> 0, count |-> 0]}

Init ==
  /\ kind \in Kind
  /\ range \in Range(kind)
  /\ field = [enabled |-> TRUE, label |-> "", name |-> "", role |-> "", value |-> range.min]
  /\ known = field
  /\ secured = FALSE /\ owner = Nobody
  /\ by = Application /\ setBy = Application
  /\ relabelled = FALSE

(* aes70_notify_property_changed, of a property that can be encoded.       *)
Announce(p) ==
  LET f == Encoded(kind, p) IN
    known' = IF f \notin Field THEN known
             ELSE [known EXCEPT ![f] = IF f = "value" THEN Shown(kind, field'.value)
                                                      ELSE field'[f]]

(* The gate aes70_object_dispatch puts before the methods that write.      *)
Permitted(s, m) ==
  IsWrite(kind, m) => /\ secured => s = Privileged
                      /\ owner \in {Nobody, s}

Set(f, v) == field' = [field EXCEPT ![f] = v]

-----------------------------------------------------------------------------
(* Methods.                                                                *)

(* SetGain, SetState, SetPosition, SetDelayTime, SetActive, SetSetting.    *)
ControllerSet(s, v) ==
  /\ kind \in Actuator
  /\ Permitted(s, Setter(kind))
  /\ ~Refused(kind, v)
  /\ Set("value", Stored(kind, v))
  /\ Announce(SetterAnnounces(kind))
  /\ by' = s /\ setBy' = s
  /\ UNCHANGED <<kind, range, secured, owner, relabelled>>

SetEnabled(s, b) ==
  /\ kind \in Worker
  /\ Permitted(s, <<2, 2>>)
  /\ Set("enabled", b)
  /\ Announce(<<2, 1>>)
  /\ by' = s
  /\ UNCHANGED <<kind, range, secured, owner, setBy, relabelled>>

SetLabel(s, t) ==
  /\ kind \in Worker
  /\ Permitted(s, <<2, 9>>)
  /\ Set("label", t)
  /\ Announce(<<2, 3>>)
  /\ by' = s /\ relabelled' = FALSE
  /\ UNCHANGED <<kind, range, secured, owner, setBy>>

(* SetLabel of OcaAgent announces nothing.                                 *)
SetAgentLabel(s, t) ==
  /\ kind = "grouper"
  /\ Permitted(s, <<2, 2>>)
  /\ Set("label", t)
  /\ by' = s
  /\ UNCHANGED <<kind, range, known, secured, owner, setBy, relabelled>>

(* SetDeviceName and SetDeviceRole.                                        *)
SetIdentity(s, f, m, p, t) ==
  /\ kind = "manager"
  /\ Permitted(s, m)
  /\ Set(f, t)
  /\ Announce(p)
  /\ by' = s
  /\ UNCHANGED <<kind, range, secured, owner, setBy, relabelled>>

SetDeviceName(s, t) == SetIdentity(s, "name", <<3, 5>>, <<3, 4>>, t)
SetDeviceRole(s, t) == SetIdentity(s, "role", <<3, 8>>, <<3, 6>>, t)

(* SetLockNoWrite and Unlock of OcaRoot.                                   *)
SetLock(s, o) ==
  /\ Permitted(s, IF o = Nobody THEN <<1, 4>> ELSE <<1, 6>>)
  /\ owner' = o
  /\ by' = s
  /\ UNCHANGED <<kind, range, field, known, secured, setBy, relabelled>>

(* The entry of this object in ApplyParameterData, of a scene that may     *)
(* have been kept from an object with another range.  A range of a single  *)
(* point is not applied.                                                   *)
ApplyParameter(v) ==
  /\ kind \in Actuator \ {"identify", "string"}
  /\ Set("value", IF range.min < range.max THEN Clamp(v) ELSE v)
  /\ Announce(Primary(kind))
  /\ by' = Recall /\ setBy' = Recall
  /\ UNCHANGED <<kind, range, secured, owner, relabelled>>

-----------------------------------------------------------------------------
(* The application.                                                        *)

(* A typed setter, and aes70_object_apply_set on the server task.          *)
ApplicationSet(v) ==
  /\ kind \in Valued
  /\ Set("value", Applied(kind, v))
  /\ Announce(Primary(kind))
  /\ by' = Application /\ setBy' = Application
  /\ UNCHANGED <<kind, range, secured, owner, relabelled>>

(* aes70_object_set_label, of an object the application has a handle of.   *)
ApplicationSetLabel(t) ==
  /\ kind # "manager"
  /\ Set("label", t)
  /\ by' = Application /\ relabelled' = TRUE
  /\ UNCHANGED <<kind, range, known, secured, owner, setBy>>

SetSecured(b) ==
  /\ kind # "manager"
  /\ secured' = b
  /\ by' = Application
  /\ UNCHANGED <<kind, range, field, known, owner, setBy, relabelled>>

Next ==
  \/ \E s \in Controller :
       \/ \E v \in Input(kind) : ControllerSet(s, v)
       \/ \E b \in BOOLEAN : SetEnabled(s, b)
       \/ \E t \in Text : \/ SetLabel(s, t) \/ SetAgentLabel(s, t)
                          \/ SetDeviceName(s, t) \/ SetDeviceRole(s, t)
       \/ \E o \in {s, Nobody} : SetLock(s, o)
  \/ \E v \in Input(kind) : ApplyParameter(v)
  \/ \E v \in ApplicationInput(kind) : ApplicationSet(v)
  \/ \E t \in Text : ApplicationSetLabel(t)
  \/ \E b \in BOOLEAN : SetSecured(b)

Spec == Init /\ [][Next]_vars

-----------------------------------------------------------------------------
(* Properties.                                                             *)

(* Type invariant: a flag holds a truth value.                             *)
TypeOK ==
  /\ kind \in Kind
  /\ range \in Range(kind)
  /\ field \in [enabled : BOOLEAN, label : Text, name : Text, role : Text,
                value : Number \cup {NaN}]
  /\ known \in [enabled : BOOLEAN, label : Text, name : Text, role : Text,
                value : Number \cup {NaN}]
  /\ kind \in Truth => field.value \in {0, 1}
  /\ secured \in BOOLEAN
  /\ owner \in Controller \cup {Nobody}
  /\ by \in Controller \cup {Application, Recall}
  /\ setBy \in Controller \cup {Application, Recall}
  /\ relabelled \in BOOLEAN

(* A controller that subscribed is told of every change, whoever makes it: *)
(* what it heard is what the getters answer.  The exceptions are a label   *)
(* the application has set, and the label of an agent.                     *)
SubscriberUpToDate ==
  /\ known.value = Shown(kind, field.value)
  /\ \A f \in {"enabled", "name", "role"} : known[f] = field[f]
  /\ kind # "grouper" /\ ~relabelled => known.label = field.label

(* A value leaves the range the getters report in these ways only: a       *)
(* number that is none, an object of a single point recalled, and the      *)
(* application setting a switch without names or a string.                 *)
InRange ==
  /\ kind = "switch" => field.value <= (IF range.count > 0 THEN LastPosition ELSE 0)
  /\ kind = "string" => (range.count # 0 => field.value <= range.count)
  /\ kind \in Valued \ {"switch", "string"} =>
       range.min <= field.value /\ field.value <= range.max

OutsideOnlyKnownWays ==
  \/ InRange
  \/ field.value = NaN /\ kind \in Real
  \/ setBy = Recall /\ range.min = range.max
  \/ setBy = Application /\ kind = "switch" /\ range.count = 0
  \/ setBy = Recall /\ kind = "switch" /\ range.count = 0
  \/ setBy = Application /\ kind = "string"

(* What is locked by another session, or secured against this one, is      *)
(* neither written nor unlocked by it; OcaDeviceManager apart.             *)
GateHeld ==
  \A s \in Controller :
    by' = s /\ kind # "manager" /\ (owner \notin {Nobody, s} \/ (secured /\ s = Unprivileged))
      => UNCHANGED <<field, owner>>
=============================================================================
