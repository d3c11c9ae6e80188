----------------------------- MODULE MCClasses ------------------------------
(***************************************************************************)
(* One object of one of the class families of the device, chosen at the    *)
(* start, with the callers of its family:                                  *)
(*   "matrix"      module Matrix: a member table of two rows and two       *)
(*                 columns, one member: every size from nothing to the     *)
(*                 whole table, rows that are not columns, lists of every  *)
(*                 length;                                                 *)
(*   "value"       module Values: each class with each of its ranges;      *)
(*   "parameters"  module Parameters: each class and each parameter; any   *)
(*                 two are written in one behaviour, over and over:        *)
(*                 parameters meet in a field that two of them share;      *)
(*   "text"        module Strings: up to three characters for a buffer of  *)
(*                 four bytes: one of two or three bytes may be cut at     *)
(*                 each of its places, and a text may fill the buffer.     *)
(* The objects share no state, so nothing is lost by looking at one.       *)
(***************************************************************************)
EXTENDS Matrix

CONSTANTS
  m1,
  Privileged, Unprivileged, Application, Recall, Nobody,
  MaxTouched,
  Cap, MaxChars, MaxCount

(* Two sessions, neither of them the application nor a recall of a scene;  *)
(* a buffer with room for the terminator.                                  *)
ASSUME ClassesAssumption ==
  /\ Privileged # Unprivileged
  /\ Application \notin {Privileged, Unprivileged}
  /\ Recall \notin {Privileged, Unprivileged}
  /\ Cap \in Nat \ {0} /\ MaxChars \in Nat /\ MaxCount \in Nat

MCMember == {m1}

VARIABLES
  family,
  kind, range, field, known, secured, owner, by, setBy, relabelled,   \* Values
  dspKind, dspSecured, val, mirror, dspBy, touched,                   \* Parameters
  stored, request, result, answer                                     \* Strings

valueVars == <<kind, range, field, known, secured, owner, by, setBy, relabelled>>
dspVars   == <<dspKind, dspSecured, val, mirror, dspBy, touched>>
textVars  == <<stored, request, result, answer>>

V == INSTANCE Values
P == INSTANCE Parameters WITH kind <- dspKind, secured <- dspSecured, by <- dspBy
S == INSTANCE Strings

(* The objects that are not looked at: any one state of each.              *)
ValueInit == V!Init /\ (family # "value" => kind = "block")
DspInit   == P!Init /\ (family # "parameters" => dspKind = "pan")
MatrixInit == Init /\ (family # "matrix" => x_size = 0 /\ y_size = 0)

ClassesInit ==
  /\ family \in {"matrix", "value", "parameters", "text"}
  /\ MatrixInit /\ ValueInit /\ DspInit /\ S!Init

ClassesNext ==
  /\ UNCHANGED family
  /\ \/ family = "matrix" /\ Next /\ UNCHANGED <<valueVars, dspVars, textVars>>
     \/ family = "value" /\ V!Next /\ UNCHANGED <<vars, dspVars, textVars>>
     \/ family = "parameters" /\ P!Next /\ UNCHANGED <<vars, valueVars, textVars>>
     \/ family = "text" /\ S!Next /\ UNCHANGED <<vars, valueVars, dspVars>>

ClassesSpec == ClassesInit /\ [][ClassesNext]_<<family, vars, valueVars, dspVars, textVars>>

(* The ghosts that name the last step, and the settings of a matrix, are   *)
(* read by no action.                                                      *)
View ==
  CASE family = "matrix" -> <<family, grid, selection, xy_locked, app>>
    [] family = "value"  -> <<family, kind, range, field, known, secured, owner, setBy,
                              relabelled>>
    [] family = "parameters" -> <<family, dspKind, dspSecured, val, mirror, touched>>
    [] family = "text"   -> <<family, textVars>>

-----------------------------------------------------------------------------
(* Properties of the instances.                                            *)

(* Type invariants of the four modules.                                    *)
ClassesTypeOK == TypeOK /\ V!TypeOK /\ P!TypeOK /\ S!TypeOK

(* A subscriber knows what the getters answer: the one value of a          *)
(* single-value object, each parameter of a multi-parameter object.        *)
SubscribersKnow == V!SubscriberUpToDate /\ P!SubscriberUpToDate

(* A value is outside the range the getters report in the known ways only. *)
ValueOutsideOnlyKnownWays == V!OutsideOnlyKnownWays

(* Locks and secured objects hold against the setters of every class, but  *)
(* for those the list of write methods leaves out: Generating, and the     *)
(* name and the role of the device manager.                                *)
GateHolds == [][V!GateHeld /\ P!SecuredKept]_<<valueVars, dspVars>>

(* A text with the right count is read whole, no text is read from beyond  *)
(* the request, and one of whole characters is answered so that its reader *)
(* finds it and the field behind it.                                       *)
TextsIntact == S!WellFormedIsRead /\ S!StaysInside /\ S!WholeTextsDecode
=============================================================================
