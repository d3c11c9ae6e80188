------------------------------- MODULE Grouper -------------------------------
(***************************************************************************)
(* OcaGrouper (aes70_grouper.c): its tables of groups and citizens, the    *)
(* enrollment bit map indexed by their slots, and the fan-out of a         *)
(* controller's write to a group's proxy (aes70_grouper_on_commit, called  *)
(* by aes70_object_commit_num).                                            *)
(*                                                                         *)
(* One grouper whose citizen class is OcaGain.  Objects of another kind    *)
(* and remote citizens are refused by AddCitizen and left out; the access  *)
(* checks that come before a handler are those of modules Sessions and     *)
(* Scenes.  MaxAdds bounds the ghost numbering of citizens.                *)
(***************************************************************************)
EXTENDS Integers

CONSTANTS
  Controls,     \* gains the application made: objects 1 .. Controls
  MaxProxies,   \* room for further objects in the registry
  MaxGroups,    \* G_MAX_GROUPS (16)
  MaxCitizens,  \* G_MAX_CITIZENS (32)
  MaxAdds,      \* bound on the citizens added in one behaviour
  MaxValue,     \* values are 0 .. MaxValue, the range of a proxy
  Top           \* control -> its num_max (num_min is 0)

ASSUME GrouperAssumption ==
  /\ Controls \in Nat /\ MaxProxies \in Nat
  /\ MaxGroups \in Nat /\ MaxCitizens \in Nat /\ MaxAdds \in Nat
  /\ MaxValue \in Nat
  /\ Top \in [1 .. Controls -> 0 .. MaxValue]

Object      == 1 .. Controls + MaxProxies
Value       == 0 .. MaxValue
GroupSlot   == 1 .. MaxGroups
CitizenSlot == 1 .. MaxCitizens
Citizen     == 1 .. MaxAdds
None        == 0

VARIABLES
  count,     \* objects in the registry that exist: 1 .. count
  group,     \* groups[g]: None, or in use with this proxy
  citizen,   \* citizens[c]: None, or in use with this object
  enroll,    \* the set bits of enroll[][]
  num,       \* obj->num
  raised,    \* ghost: objects the last step notified
  cid,       \* ghost: the citizen now in a slot
  nextCid    \* ghost: number the next citizen gets

tableVars == <<count, group, citizen, enroll, cid, nextCid>>
vars == <<tableVars, num, raised>>

(* The num_max of an object; init_proxy gives a proxy the widest range.    *)
Max(o) == IF o \in 1 .. Controls THEN Top[o] ELSE MaxValue

Init ==
  /\ count = Controls
  /\ group = [g \in GroupSlot |-> None]
  /\ citizen = [c \in CitizenSlot |-> None]
  /\ enroll = {}
  /\ num = [o \in Object |-> 0]
  /\ raised = {}
  /\ cid = [c \in CitizenSlot |-> None]
  /\ nextCid = 1

-----------------------------------------------------------------------------
(* Methods of the grouper.  A method that finds its table full, a slot not *)
(* in use or the registry full reports so and changes nothing.             *)

Lowest(slots, i) == i \in slots /\ \A j \in slots : i <= j

(* Bug: the column of a slot is left as it is.                             *)
ColumnClearedNotBug(c) == enroll

Cleared(g)  == {e \in enroll : e[1] # g}
Released(c) == {e \in enroll : e[2] # c}

AddGroup(g) ==
  /\ Lowest({i \in GroupSlot : group[i] = None}, g)
  /\ count + 1 \in Object
  /\ count' = count + 1
  /\ num' = [x \in Object |-> IF x = count + 1 THEN 0 ELSE num[x]]
  /\ group' = [group EXCEPT ![g] = count + 1]
  /\ enroll' = Cleared(g)
  /\ raised' = {}
  /\ UNCHANGED <<citizen, cid, nextCid>>

(* The proxy stays in the tree.                                            *)
DeleteGroup(g) ==
  /\ group[g] # None
  /\ group' = [group EXCEPT ![g] = None]
  /\ enroll' = Cleared(g)
  /\ raised' = {}
  /\ UNCHANGED <<count, citizen, num, cid, nextCid>>

AddCitizen(c, o) ==
  /\ Lowest({i \in CitizenSlot : citizen[i] = None}, c)
  /\ o \in 1 .. count
  /\ nextCid \in Citizen
  /\ citizen' = [citizen EXCEPT ![c] = o]
  /\ cid' = [cid EXCEPT ![c] = nextCid]
  /\ nextCid' = nextCid + 1
  /\ raised' = {}
  /\ UNCHANGED <<count, group, enroll, num>>

DeleteCitizen(c) ==
  /\ citizen[c] # None
  /\ citizen' = [citizen EXCEPT ![c] = None]
  /\ enroll' = Released(c)
  /\ cid' = [cid EXCEPT ![c] = None]
  /\ raised' = {}
  /\ UNCHANGED <<count, group, num, nextCid>>

(* Bug: only the range of the indices is checked.                          *)
SetEnrollmentUncheckedBug(g, c, on) ==
  /\ enroll' = IF on THEN enroll \cup {<<g, c>>} ELSE enroll \ {<<g, c>>}
  /\ raised' = {}
  /\ UNCHANGED <<count, group, citizen, num, cid, nextCid>>

SetEnrollment(g, c, on) ==
  /\ group[g] # None /\ citizen[c] # None
  /\ enroll' = IF on THEN enroll \cup {<<g, c>>} ELSE enroll \ {<<g, c>>}
  /\ raised' = {}
  /\ UNCHANGED <<count, group, citizen, num, cid, nextCid>>

-----------------------------------------------------------------------------
(* Values.                                                                 *)

(* Objects aes70_grouper_on_commit copies the value of o to: it writes     *)
(* them directly, so a proxy among them does not fan out in its turn.      *)
FanOut(o) ==
  {citizen[c] : c \in {d \in CitizenSlot :
     \E g \in GroupSlot : group[g] = o /\ citizen[d] # None /\ <<g, d>> \in enroll}}

(* aes70_object_commit_num on behalf of a controller.                      *)
CommitFromController(o, v) ==
  /\ num' = [x \in Object |-> IF x \in {o} \cup FanOut(o) THEN v ELSE num[x]]
  /\ raised' = {o} \cup FanOut(o)
  /\ UNCHANGED tableVars

(* SetGain: a value outside the object's range is refused.                 *)
SetGain(o, v) ==
  /\ o \in 1 .. count /\ v <= Max(o)
  /\ CommitFromController(o, v)

Clamp(o, v) == IF v > Max(o) THEN Max(o) ELSE v

(* aes70_object_apply_set, for the application: clamped, not fanned out.   *)
ApplySet(o, v) ==
  /\ o \in 1 .. count
  /\ num' = [num EXCEPT ![o] = Clamp(o, v)]
  /\ raised' = {o}
  /\ UNCHANGED tableVars

-----------------------------------------------------------------------------
(* The application may ask for any value; MaxValue + 1 stands for those    *)
(* outside every range.                                                    *)
Asked == 0 .. MaxValue + 1

Next ==
  \/ \E g \in GroupSlot : AddGroup(g) \/ DeleteGroup(g)
  \/ \E c \in CitizenSlot :
       \/ \E o \in Object : AddCitizen(c, o)
       \/ DeleteCitizen(c)
       \/ \E g \in GroupSlot, on \in BOOLEAN : SetEnrollment(g, c, on)
  \/ \E o \in Object, v \in Asked : SetGain(o, v) \/ ApplySet(o, v)

Spec == Init /\ [][Next]_vars

-----------------------------------------------------------------------------
(* Properties.                                                             *)

(* Type invariant.                                                         *)
TypeOK ==
  /\ count \in Controls .. Controls + MaxProxies
  /\ group \in [GroupSlot -> 1 .. count \cup {None}]
  /\ citizen \in [CitizenSlot -> 1 .. count \cup {None}]
  /\ enroll \subseteq GroupSlot \X CitizenSlot
  /\ num \in [Object -> Value]
  /\ raised \subseteq Object
  /\ cid \in [CitizenSlot -> Citizen \cup {None}]
  /\ nextCid \in 1 .. MaxAdds + 1

(* An enrollment bit is set only for a group and a citizen that exist:     *)
(* whoever is given their slots next starts with no enrollment.            *)
EnrollmentOfLiveSlots ==
  \A e \in enroll : group[e[1]] # None /\ citizen[e[2]] # None

(* Groups have proxies of their own, and citizens numbers of their own     *)
(* below the next (used by the refinement).                                *)
SlotsDistinct ==
  /\ \A g \in GroupSlot : group[g] # None => group[g] > Controls
  /\ \A g, h \in GroupSlot : group[g] # None /\ group[g] = group[h] => g = h
  /\ \A c \in CitizenSlot : (citizen[c] = None) <=> (cid[c] = None)
  /\ \A c \in CitizenSlot : cid[c] < nextCid
  /\ \A c, d \in CitizenSlot : cid[c] # None /\ cid[c] = cid[d] => c = d

Groups == INSTANCE GroupService WITH
  groups  <- {group[g] : g \in {h \in GroupSlot : group[h] # None}},
  born    <- 1 .. count,
  roster  <- {<<cid[c], citizen[c]>> : c \in {d \in CitizenSlot : citizen[d] # None}},
  members <- {<<group[e[1]], cid[e[2]]>> : e \in enroll}

(* Through any reuse of slots the grouper keeps its promise: a write to a  *)
(* proxy changes and notifies exactly the objects enrolled in the group    *)
(* whose proxy it is, and nobody is enrolled who was not put there.        *)
ImplementsGroups == Groups!GroupsSpec
=============================================================================
