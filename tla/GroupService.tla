---------------------------- MODULE GroupService ----------------------------
(***************************************************************************)
(* What OcaGrouper promises a controller, without slots or bit maps: a     *)
(* group is known by its proxy object, a citizen by the AddCitizen that    *)
(* made it; deleting either ends its enrollments, and a controller's write *)
(* to a proxy is a write to every object enrolled in the group.            *)
(***************************************************************************)
EXTENDS Naturals

CONSTANTS
  Object,   \* control objects, proxies included
  Value,    \* values they may hold
  Citizen   \* names for the citizens that may ever be added

VARIABLES
  groups,   \* proxies of the groups there are
  born,     \* objects there are
  roster,   \* <<citizen, object>> for the citizens there are
  members,  \* <<proxy, citizen>> for the enrollments in force
  num,      \* the value of each object
  raised    \* objects whose change the last step notified

groupVars == <<groups, born, roster, members, num, raised>>

GroupsInit ==
  /\ groups = {} /\ roster = {} /\ members = {} /\ raised = {}
  /\ born \in SUBSET Object
  /\ num \in [Object -> Value]

(* What a controller's write to o reaches.                                 *)
Reached(o) ==
  {o} \cup {r[2] : r \in {q \in roster : <<o, q[1]>> \in members}}

AddGroup(p) ==
  /\ p \in Object \ born
  /\ groups' = groups \cup {p}
  /\ born' = born \cup {p}
  /\ \E v \in Value : num' = [x \in Object |-> IF x = p THEN v ELSE num[x]]
  /\ raised' = {}
  /\ UNCHANGED <<roster, members>>

DeleteGroup(p) ==
  /\ p \in groups
  /\ groups' = groups \ {p}
  /\ members' = {m \in members : m[1] # p}
  /\ raised' = {}
  /\ UNCHANGED <<born, roster, num>>

AddCitizen(c, o) ==
  /\ o \in born /\ \A r \in roster : r[1] # c
  /\ roster' = roster \cup {<<c, o>>}
  /\ raised' = {}
  /\ UNCHANGED <<groups, born, members, num>>

DeleteCitizen(c) ==
  /\ \E r \in roster : r[1] = c
  /\ roster' = {r \in roster : r[1] # c}
  /\ members' = {m \in members : m[2] # c}
  /\ raised' = {}
  /\ UNCHANGED <<groups, born, num>>

SetEnrollment(p, c, on) ==
  /\ p \in groups /\ \E r \in roster : r[1] = c
  /\ members' = IF on THEN members \cup {<<p, c>>} ELSE members \ {<<p, c>>}
  /\ raised' = {}
  /\ UNCHANGED <<groups, born, roster, num>>

Write(o, v) ==
  /\ o \in born
  /\ raised' = Reached(o)
  /\ num' = [x \in Object |-> IF x \in Reached(o) THEN v ELSE num[x]]
  /\ UNCHANGED <<groups, born, roster, members>>

(* The application's own writes reach their object only.                   *)
ApplicationWrite(o, v) ==
  /\ o \in born
  /\ raised' = {o}
  /\ num' = [num EXCEPT ![o] = v]
  /\ UNCHANGED <<groups, born, roster, members>>

GroupsNext ==
  \/ \E o \in Object :
       \/ AddGroup(o) \/ DeleteGroup(o)
       \/ \E v \in Value : Write(o, v) \/ ApplicationWrite(o, v)
       \/ \E c \in Citizen :
            AddCitizen(c, o) \/ \E on \in BOOLEAN : SetEnrollment(o, c, on)
  \/ \E c \in Citizen : DeleteCitizen(c)

GroupsSpec == GroupsInit /\ [][GroupsNext]_groupVars
=============================================================================
