---------------------------- MODULE GrouperProofs ----------------------------
(***************************************************************************)
(* Proofs about module Grouper, and about module Scenes, which adds locks, *)
(* controllers and stored scenes to it, for tables and value ranges of any *)
(* size and for any number of objects, controllers and values.             *)
(***************************************************************************)
EXTENDS Scenes, WellFoundedInduction, TLAPS

USE GrouperAssumption, ScenesAssumption DEF GrouperAssumption, ScenesAssumption

(* The inductive invariant: SlotsDistinct lets a slot number and the proxy *)
(* or the citizen it holds stand for each other.                           *)
IInv == TypeOK /\ EnrollmentOfLiveSlots /\ SlotsDistinct

(* A control's range lies within the values.                               *)
LEMMA MaxType == ASSUME NEW o \in Object PROVE Max(o) \in Value
  BY DEF Object, Value, Max

(* What the application asks for is brought into the range.                *)
LEMMA ClampType ==
  ASSUME NEW o \in Object, NEW v \in Asked PROVE Clamp(o, v) \in Value
  BY MaxType DEF Asked, Value, Clamp

(* The inductive invariant holds at the start.                             *)
LEMMA InitInv == Init => IInv
  <1> SUFFICES ASSUME Init PROVE IInv
    OBVIOUS
  <1> USE DEF Init, None
  <1>1. TypeOK
    BY DEF TypeOK, Value, Object, GroupSlot, CitizenSlot
  <1>2. EnrollmentOfLiveSlots /\ SlotsDistinct
    BY DEF EnrollmentOfLiveSlots, SlotsDistinct, GroupSlot, CitizenSlot
  <1>3. QED
    BY <1>1, <1>2 DEF IInv

(* A new group has a proxy no other group has, and an empty row.           *)
LEMMA AddGroupInv ==
  ASSUME IInv, NEW g \in GroupSlot, AddGroup(g) PROVE IInv'
  <1> USE DEF IInv, AddGroup, Lowest, None
  <1>1. TypeOK'
    BY DEF TypeOK, Object, Value, Cleared
  <1>2. EnrollmentOfLiveSlots'
    BY DEF TypeOK, EnrollmentOfLiveSlots, Cleared
  <1>3. SlotsDistinct'
    BY DEF TypeOK, SlotsDistinct
  <1>4. QED
    BY <1>1, <1>2, <1>3

(* A deleted group takes its row with it.                                  *)
LEMMA DeleteGroupInv ==
  ASSUME IInv, NEW g \in GroupSlot, DeleteGroup(g) PROVE IInv'
  <1> USE DEF IInv, DeleteGroup, None
  <1>1. TypeOK'
    BY DEF TypeOK, Cleared
  <1>2. EnrollmentOfLiveSlots'
    BY DEF TypeOK, EnrollmentOfLiveSlots, Cleared
  <1>3. SlotsDistinct'
    BY DEF TypeOK, SlotsDistinct
  <1>4. QED
    BY <1>1, <1>2, <1>3

(* A new citizen gets a number no other has.                               *)
LEMMA AddCitizenInv ==
  ASSUME IInv, NEW c \in CitizenSlot, NEW o \in Object, AddCitizen(c, o)
  PROVE  IInv'
  <1> USE DEF IInv, AddCitizen, Lowest, None
  <1>1. TypeOK'
    BY DEF TypeOK, Citizen
  <1>2. EnrollmentOfLiveSlots'
    BY DEF TypeOK, EnrollmentOfLiveSlots
  <1>3. SlotsDistinct'
    BY DEF TypeOK, SlotsDistinct, Citizen
  <1>4. QED
    BY <1>1, <1>2, <1>3

(* A deleted citizen takes its column with it.                             *)
LEMMA DeleteCitizenInv ==
  ASSUME IInv, NEW c \in CitizenSlot, DeleteCitizen(c) PROVE IInv'
  <1> USE DEF IInv, DeleteCitizen, None
  <1>1. TypeOK'
    BY DEF TypeOK, Released
  <1>2. EnrollmentOfLiveSlots'
    BY DEF TypeOK, EnrollmentOfLiveSlots, Released
  <1>3. SlotsDistinct'
    BY DEF TypeOK, SlotsDistinct, Citizen
  <1>4. QED
    BY <1>1, <1>2, <1>3

(* Only bits of groups and citizens that exist are set.                    *)
LEMMA SetEnrollmentInv ==
  ASSUME IInv, NEW g \in GroupSlot, NEW c \in CitizenSlot, NEW on \in BOOLEAN,
         SetEnrollment(g, c, on)
  PROVE  IInv'
  <1> USE DEF IInv, SetEnrollment
  <1>1. TypeOK'
    BY DEF TypeOK
  <1>2. EnrollmentOfLiveSlots'
    BY DEF EnrollmentOfLiveSlots
  <1>3. SlotsDistinct'
    BY DEF SlotsDistinct
  <1>4. QED
    BY <1>1, <1>2, <1>3

(* A write reaches objects that exist.                                     *)
LEMMA FanOutType == ASSUME TypeOK, NEW o PROVE FanOut(o) \subseteq Object
  <1>1. SUFFICES ASSUME NEW c \in CitizenSlot, citizen[c] # None
                 PROVE  citizen[c] \in Object
    BY DEF FanOut
  <1>2. citizen[c] \in 1 .. count /\ count \in Controls .. Controls + MaxProxies
    BY <1>1 DEF TypeOK
  <1>3. QED
    BY <1>2 DEF Object

(* Writes touch no table.                                                  *)
LEMMA WriteInv ==
  ASSUME IInv, NEW o \in Object, NEW v \in Asked, SetGain(o, v) \/ ApplySet(o, v)
  PROVE  IInv'
  <1> USE DEF IInv
  <1>1. UNCHANGED tableVars
    BY DEF SetGain, CommitFromController, ApplySet
  <1>2. num' \in [Object -> Value] /\ raised' \subseteq Object
    <2>1. CASE SetGain(o, v)
      <3>1. v \in Value
        BY <2>1, MaxType DEF SetGain, Asked, Value
      <3>2. FanOut(o) \subseteq Object
        BY FanOutType
      <3>3. num \in [Object -> Value]
        BY DEF TypeOK
      <3>4. num' \in [Object -> Value]
        BY <2>1, <3>1, <3>3 DEF SetGain, CommitFromController
      <3>5. raised' \subseteq Object
        BY <2>1, <3>2 DEF SetGain, CommitFromController
      <3>6. QED
        BY <3>4, <3>5
    <2>2. CASE ApplySet(o, v)
      BY <2>2, ClampType DEF ApplySet, TypeOK
    <2>3. QED
      BY <2>1, <2>2
  <1>3. TypeOK'
    BY <1>1, <1>2 DEF TypeOK, tableVars
  <1>4. EnrollmentOfLiveSlots' /\ SlotsDistinct'
    BY <1>1 DEF EnrollmentOfLiveSlots, SlotsDistinct, tableVars
  <1>5. QED
    BY <1>3, <1>4

(* Every step keeps the inductive invariant.                               *)
LEMMA NextInv == IInv /\ [Next]_vars => IInv'
  <1> SUFFICES ASSUME IInv, [Next]_vars PROVE IInv'
    OBVIOUS
  <1>1. ASSUME NEW g \in GroupSlot, AddGroup(g) PROVE IInv'
    BY <1>1, AddGroupInv
  <1>2. ASSUME NEW g \in GroupSlot, DeleteGroup(g) PROVE IInv'
    BY <1>2, DeleteGroupInv
  <1>3. ASSUME NEW c \in CitizenSlot, NEW o \in Object, AddCitizen(c, o) PROVE IInv'
    BY <1>3, AddCitizenInv
  <1>4. ASSUME NEW c \in CitizenSlot, DeleteCitizen(c) PROVE IInv'
    BY <1>4, DeleteCitizenInv
  <1>5. ASSUME NEW g \in GroupSlot, NEW c \in CitizenSlot, NEW on \in BOOLEAN,
               SetEnrollment(g, c, on)
        PROVE  IInv'
    BY <1>5, SetEnrollmentInv
  <1>6. ASSUME NEW o \in Object, NEW v \in Asked, SetGain(o, v) \/ ApplySet(o, v)
        PROVE  IInv'
    BY <1>6, WriteInv
  <1>7. CASE UNCHANGED vars
    BY <1>7 DEF IInv, TypeOK, EnrollmentOfLiveSlots, SlotsDistinct, vars, tableVars
  <1>8. QED
    BY <1>1, <1>2, <1>3, <1>4, <1>5, <1>6, <1>7 DEF Next

(* Type correctness of module Grouper.                                     *)
THEOREM GrouperTypeCorrect == Spec => []TypeOK
  <1>1. IInv => TypeOK
    BY DEF IInv
  <1>2. QED
    BY <1>1, InitInv, NextInv, PTL DEF Spec

(* No enrollment outlives its group or its citizen (AddGroup, DeleteGroup  *)
(* and DeleteCitizen clear the row or the column), so a slot given out     *)
(* again starts empty.                                                     *)
THEOREM EnrollmentsEndWithSlots == Spec => []EnrollmentOfLiveSlots
  <1>1. IInv => EnrollmentOfLiveSlots
    BY DEF IInv
  <1>2. QED
    BY <1>1, InitInv, NextInv, PTL DEF Spec

-----------------------------------------------------------------------------
(* Refinement of module GroupService.                                      *)

(* The state of GroupService that a state of Grouper stands for.           *)
Proxies == {group[g] : g \in {h \in GroupSlot : group[h] # None}}
Roster  == {<<cid[c], citizen[c]>> : c \in {d \in CitizenSlot : citizen[d] # None}}
Members == {<<group[e[1]], cid[e[2]]>> : e \in enroll}

(* What a write reaches, by slots and by names.                            *)
LEMMA ReachedMaps ==
  ASSUME IInv, NEW o \in Object PROVE Groups!Reached(o) = {o} \cup FanOut(o)
  <1> USE DEF IInv, None
  <1>1. ASSUME NEW x \in FanOut(o) PROVE x \in Groups!Reached(o)
    <2>1. PICK c \in CitizenSlot, g \in GroupSlot :
            x = citizen[c] /\ group[g] = o /\ citizen[c] # None /\ <<g, c>> \in enroll
      BY DEF FanOut
    <2>2. <<o, cid[c]>> \in Members
      BY <2>1 DEF Members
    <2>3. <<cid[c], x>> \in Roster
      BY <2>1 DEF Roster
    <2>4. <<cid[c], x>> \in {q \in Roster : <<o, q[1]>> \in Members}
      BY <2>2, <2>3
    <2>5. x \in {r[2] : r \in {q \in Roster : <<o, q[1]>> \in Members}}
      BY <2>4, <<cid[c], x>>[2] = x
    <2>6. QED
      BY <2>5 DEF Groups!Reached, Roster, Members
  <1>2. ASSUME NEW x \in Groups!Reached(o), x # o PROVE x \in FanOut(o)
    <2>1. PICK q \in Roster : x = q[2] /\ <<o, q[1]>> \in Members
      BY <1>2 DEF Groups!Reached, Roster, Members
    <2>2. PICK c \in CitizenSlot : citizen[c] # None /\ q = <<cid[c], citizen[c]>>
      BY <2>1 DEF Roster
    <2>3. PICK e \in enroll : o = group[e[1]] /\ q[1] = cid[e[2]]
      BY <2>1 DEF Members
    <2>4. e \in GroupSlot \X CitizenSlot /\ citizen[e[2]] # None
      BY DEF TypeOK, EnrollmentOfLiveSlots
    <2>5. e[2] = c
      BY <2>2, <2>3, <2>4 DEF SlotsDistinct
    <2>6. <<e[1], c>> \in enroll /\ e[1] \in GroupSlot
      BY <2>4, <2>5
    <2>7. x = citizen[c]
      BY <2>1, <2>2
    <2>8. QED
      BY <2>2, <2>3, <2>6, <2>7 DEF FanOut
  <1>3. QED
    BY <1>1, <1>2 DEF Groups!Reached

(* The tables start as the abstract state does.                            *)
LEMMA InitMaps == Init => Groups!GroupsInit
  <1> SUFFICES ASSUME Init PROVE Groups!GroupsInit
    OBVIOUS
  <1>1. TypeOK
    BY InitInv DEF IInv
  <1>2. 1 .. count \in SUBSET Object
    BY DEF Init, Object
  <1>3. QED
    BY <1>1, <1>2 DEF Init, Groups!GroupsInit, TypeOK

(* A fresh row adds no member.                                             *)
LEMMA AddGroupMaps ==
  ASSUME IInv, NEW g \in GroupSlot, AddGroup(g) PROVE Groups!AddGroup(count + 1)
  <1> USE DEF IInv, AddGroup, Lowest, None
  <1>1. group[g] = None /\ group' = [group EXCEPT ![g] = count + 1] /\ count + 1 # None
    BY DEF TypeOK
  <1>2. Proxies' = Proxies \cup {count + 1}
    BY <1>1 DEF TypeOK, Proxies
  <1>3. enroll' = enroll /\ \A e \in enroll : group'[e[1]] = group[e[1]]
    BY <1>1 DEF TypeOK, EnrollmentOfLiveSlots, Cleared
  <1>4. UNCHANGED Members
    BY <1>3 DEF Members
  <1>5. (1 .. count)' = (1 .. count) \cup {count + 1} /\ count + 1 \in Object \ (1 .. count)
    <2>1. count \in Nat /\ count' = count + 1 /\ count + 1 \in Object
      BY DEF TypeOK
    <2>2. QED
      BY ONLY <2>1, SMT
  <1>6. \E v \in Value : num' = [x \in Object |-> IF x = count + 1 THEN v ELSE num[x]]
    <2>1. 0 \in Value /\ num' = [x \in Object |-> IF x = count + 1 THEN 0 ELSE num[x]]
      BY DEF Value
    <2>2. QED
      BY ONLY <2>1, Zenon
  <1>7. raised' = {} /\ UNCHANGED Roster
    BY DEF Roster
  <1>8. QED
    BY <1>2, <1>4, <1>5, <1>6, <1>7 DEF Groups!AddGroup, Proxies, Roster, Members

(* Clearing a row removes the members of that group and of no other.       *)
LEMMA DeleteGroupMaps ==
  ASSUME IInv, NEW g \in GroupSlot, DeleteGroup(g) PROVE Groups!DeleteGroup(group[g])
  <1> USE DEF IInv, DeleteGroup, None
  <1>1. group' = [group EXCEPT ![g] = None] /\ group[g] \in Proxies
    BY DEF Proxies
  <1>2. \A h \in GroupSlot : h # g /\ group[h] # None => group[h] # group[g]
    BY DEF SlotsDistinct
  <1>3. Proxies' = Proxies \ {group[g]}
    BY <1>1, <1>2 DEF TypeOK, Proxies
  <1>4. Members' = {m \in Members : m[1] # group[g]}
    <2>1. \A e \in enroll : e[1] # g <=> group[e[1]] # group[g]
      BY <1>2 DEF TypeOK, EnrollmentOfLiveSlots
    <2>2. \A e \in enroll' : e \in enroll /\ e[1] # g /\ group'[e[1]] = group[e[1]]
      BY <1>1 DEF TypeOK, Cleared
    <2>3. \A e \in enroll : e[1] # g => e \in enroll'
      BY DEF Cleared
    <2>4. ASSUME NEW m \in Members' PROVE m \in Members /\ m[1] # group[g]
      BY <2>1, <2>2 DEF Members
    <2>5. ASSUME NEW m \in Members, m[1] # group[g] PROVE m \in Members'
      <3>1. PICK e \in enroll : m = <<group[e[1]], cid[e[2]]>>
        BY DEF Members
      <3>2. e \in enroll' /\ m = <<group'[e[1]], cid'[e[2]]>>
        BY <2>1, <2>2, <2>3, <2>5, <3>1
      <3>3. QED
        BY <3>2 DEF Members
    <2>6. QED
      BY <2>4, <2>5
  <1>5. raised' = {} /\ UNCHANGED <<1 .. count, Roster, num>>
    BY DEF Roster
  <1>6. QED
    BY <1>1, <1>3, <1>4, <1>5 DEF Groups!DeleteGroup, Proxies, Roster, Members

(* A reused column brings no enrollment along.                             *)
LEMMA AddCitizenMaps ==
  ASSUME IInv, NEW c \in CitizenSlot, NEW o \in Object, AddCitizen(c, o)
  PROVE  nextCid \in Citizen /\ Groups!AddCitizen(nextCid, o)
  <1> USE DEF IInv, AddCitizen, Lowest, None
  <1>1. /\ citizen[c] = None /\ citizen' = [citizen EXCEPT ![c] = o] /\ o # None
        /\ cid' = [cid EXCEPT ![c] = nextCid]
    OBVIOUS
  <1>2. \A d \in CitizenSlot : citizen[d] # None => d # c /\ cid[d] # nextCid
    BY <1>1 DEF TypeOK, SlotsDistinct, Citizen
  <1>3. Roster' = Roster \cup {<<nextCid, o>>}
    <2>1. ASSUME NEW r \in Roster' PROVE r \in Roster \cup {<<nextCid, o>>}
      BY <1>1 DEF TypeOK, Roster
    <2>2. ASSUME NEW r \in Roster PROVE r \in Roster'
      <3>1. PICK d \in CitizenSlot : citizen[d] # None /\ r = <<cid[d], citizen[d]>>
        BY DEF Roster
      <3>2. d # c /\ citizen'[d] = citizen[d] /\ cid'[d] = cid[d]
        BY <1>1, <1>2, <3>1 DEF TypeOK
      <3>3. QED
        BY <3>1, <3>2 DEF Roster
    <2>3. citizen'[c] = o /\ cid'[c] = nextCid
      BY <1>1 DEF TypeOK
    <2>4. <<nextCid, o>> \in Roster'
      BY <1>1, <2>3 DEF Roster
    <2>5. QED
      BY <2>1, <2>2, <2>4
  <1>4. \A r \in Roster : r[1] # nextCid
    BY <1>2 DEF Roster
  <1>5. UNCHANGED Members
    <2>1. \A e \in enroll : cid'[e[2]] = cid[e[2]]
      BY <1>1, <1>2 DEF TypeOK, EnrollmentOfLiveSlots
    <2>2. QED
      BY <2>1 DEF Members
  <1>6. raised' = {} /\ o \in 1 .. count /\ UNCHANGED <<Proxies, 1 .. count, num>>
    BY DEF Proxies
  <1>7. QED
    BY <1>3, <1>4, <1>5, <1>6 DEF Groups!AddCitizen, Proxies, Roster, Members

(* Clearing a column removes that citizen from every group.                *)
LEMMA DeleteCitizenMaps ==
  ASSUME IInv, NEW c \in CitizenSlot, DeleteCitizen(c)
  PROVE  cid[c] \in Citizen /\ Groups!DeleteCitizen(cid[c])
  <1> USE DEF IInv, DeleteCitizen, None
  <1>1. /\ citizen[c] # None /\ citizen' = [citizen EXCEPT ![c] = None]
        /\ cid' = [cid EXCEPT ![c] = None]
    OBVIOUS
  <1>2. \A d \in CitizenSlot : d # c /\ citizen[d] # None => cid[d] # cid[c]
    BY <1>1 DEF SlotsDistinct
  <1>3. cid[c] \in Citizen /\ <<cid[c], citizen[c]>> \in Roster
    BY <1>1 DEF TypeOK, SlotsDistinct, Roster
  <1>4. Roster' = {r \in Roster : r[1] # cid[c]}
    <2>1. ASSUME NEW r \in Roster' PROVE r \in Roster /\ r[1] # cid[c]
      BY <1>1, <1>2 DEF TypeOK, Roster
    <2>2. ASSUME NEW r \in Roster, r[1] # cid[c] PROVE r \in Roster'
      <3>1. PICK d \in CitizenSlot : citizen[d] # None /\ r = <<cid[d], citizen[d]>>
        BY DEF Roster
      <3>2. d # c /\ citizen'[d] = citizen[d] /\ cid'[d] = cid[d]
        BY <1>1, <2>2, <3>1 DEF TypeOK
      <3>3. QED
        BY <3>1, <3>2 DEF Roster
    <2>3. QED
      BY <2>1, <2>2
  <1>5. Members' = {m \in Members : m[2] # cid[c]}
    <2>1. \A e \in enroll : e[2] # c <=> cid[e[2]] # cid[c]
      BY <1>2 DEF TypeOK, EnrollmentOfLiveSlots
    <2>2. \A e \in enroll' : e \in enroll /\ e[2] # c /\ cid'[e[2]] = cid[e[2]]
      BY <1>1 DEF TypeOK, Released
    <2>3. \A e \in enroll : e[2] # c => e \in enroll'
      BY DEF Released
    <2>4. ASSUME NEW m \in Members' PROVE m \in Members /\ m[2] # cid[c]
      BY <2>1, <2>2 DEF Members
    <2>5. ASSUME NEW m \in Members, m[2] # cid[c] PROVE m \in Members'
      <3>1. PICK e \in enroll : m = <<group[e[1]], cid[e[2]]>>
        BY DEF Members
      <3>2. e \in enroll' /\ m = <<group'[e[1]], cid'[e[2]]>>
        BY <2>1, <2>2, <2>3, <2>5, <3>1
      <3>3. QED
        BY <3>2 DEF Members
    <2>6. QED
      BY <2>4, <2>5
  <1>6. raised' = {} /\ UNCHANGED <<Proxies, 1 .. count, num>>
    BY DEF Proxies
  <1>7. \E r \in Roster : r[1] = cid[c]
    BY <1>3
  <1>8. QED
    BY <1>3, <1>4, <1>5, <1>6, <1>7 DEF Groups!DeleteCitizen, Proxies, Roster, Members

(* One bit is one membership.                                              *)
LEMMA SetEnrollmentMaps ==
  ASSUME IInv, NEW g \in GroupSlot, NEW c \in CitizenSlot, NEW on \in BOOLEAN,
         SetEnrollment(g, c, on)
  PROVE  cid[c] \in Citizen /\ Groups!SetEnrollment(group[g], cid[c], on)
  <1> DEFINE m == <<group[g], cid[c]>>
  <1> USE DEF IInv, SetEnrollment, None
  <1>1. group[g] \in Proxies /\ <<cid[c], citizen[c]>> \in Roster /\ cid[c] \in Citizen
    BY DEF TypeOK, SlotsDistinct, Proxies, Roster
  <1>2. \A e \in enroll : <<group[e[1]], cid[e[2]]>> = m => e = <<g, c>>
    BY DEF TypeOK, EnrollmentOfLiveSlots, SlotsDistinct
  <1>3. Members' = IF on THEN Members \cup {m} ELSE Members \ {m}
    <2>1. CASE on
      <3>1. enroll' = enroll \cup {<<g, c>>} /\ UNCHANGED <<group, cid>>
        BY <2>1
      <3>2. m \in Members'
        <4>1. <<g, c>> \in enroll' /\ m = <<group'[g], cid'[c]>>
          BY <3>1
        <4>2. <<group'[<<g, c>>[1]], cid'[<<g, c>>[2]]>> \in Members'
          BY <4>1 DEF Members
        <4>3. QED
          BY <4>1, <4>2
      <3>3. ASSUME NEW k \in Members' PROVE k \in Members \cup {m}
        BY <3>1 DEF Members
      <3>4. ASSUME NEW k \in Members PROVE k \in Members'
        BY <3>1 DEF Members
      <3>5. QED
        BY <2>1, <3>2, <3>3, <3>4
    <2>2. CASE ~on
      <3>1. enroll' = enroll \ {<<g, c>>}
        BY <2>2
      <3>2. ASSUME NEW k \in Members' PROVE k \in Members /\ k # m
        <4>1. PICK e \in enroll' : k = <<group[e[1]], cid[e[2]]>>
          BY DEF Members
        <4>2. e \in enroll /\ e # <<g, c>>
          BY <3>1
        <4>3. QED
          BY <1>2, <4>1, <4>2 DEF Members
      <3>3. ASSUME NEW k \in Members, k # m PROVE k \in Members'
        BY <3>1, <3>3 DEF Members
      <3>4. QED
        BY <2>2, <3>2, <3>3
    <2>3. QED
      BY <2>1, <2>2
  <1>4. raised' = {} /\ UNCHANGED <<Proxies, 1 .. count, Roster, num>>
    BY DEF Proxies, Roster
  <1>5. \E r \in Roster : r[1] = cid[c]
    BY <1>1
  <1>6. QED
    BY <1>1, <1>3, <1>4, <1>5 DEF Groups!SetEnrollment, Proxies, Roster, Members

(* Writes reach what GroupService says they reach.                         *)
LEMMA WriteMaps ==
  ASSUME IInv, NEW o \in Object, NEW v \in Asked
  PROVE  /\ SetGain(o, v) => v \in Value /\ Groups!Write(o, v)
         /\ ApplySet(o, v) => Clamp(o, v) \in Value /\ Groups!ApplicationWrite(o, Clamp(o, v))
  <1>1. ASSUME UNCHANGED tableVars PROVE UNCHANGED <<Proxies, 1 .. count, Roster, Members>>
    BY <1>1 DEF tableVars, Proxies, Roster, Members
  <1>2. SetGain(o, v) => v \in Value
    BY MaxType DEF SetGain, Asked, Value
  <1>3. ASSUME SetGain(o, v) PROVE Groups!Write(o, v)
    <2>1. Groups!Reached(o) = {o} \cup FanOut(o)
      BY ReachedMaps
    <2>2. UNCHANGED <<Proxies, 1 .. count, Roster, Members>>
      BY <1>1, <1>3 DEF SetGain, CommitFromController
    <2>3. /\ o \in 1 .. count
          /\ raised' = Groups!Reached(o)
          /\ num' = [x \in Object |-> IF x \in Groups!Reached(o) THEN v ELSE num[x]]
      BY <1>3, <2>1 DEF SetGain, CommitFromController
    <2>4. QED
      BY <2>2, <2>3 DEF Groups!Write, Proxies, Roster, Members
  <1>4. ASSUME ApplySet(o, v) PROVE Groups!ApplicationWrite(o, Clamp(o, v))
    <2>1. UNCHANGED <<Proxies, 1 .. count, Roster, Members>>
      BY <1>1, <1>4 DEF ApplySet
    <2>2. QED
      BY <1>4, <2>1 DEF ApplySet, Groups!ApplicationWrite, Proxies, Roster, Members
  <1>5. QED
    BY <1>2, <1>3, <1>4, ClampType

(* Every step of the module is a step of the abstract one or a stutter.    *)
LEMMA StepMaps == IInv /\ [Next]_vars => [Groups!GroupsNext]_(Groups!groupVars)
  <1> SUFFICES ASSUME IInv, [Next]_vars
               PROVE  Groups!GroupsNext \/ UNCHANGED Groups!groupVars
    OBVIOUS
  <1> USE DEF IInv
  <1>1. ASSUME NEW g \in GroupSlot, AddGroup(g) PROVE Groups!GroupsNext
    <2>1. Groups!AddGroup(count + 1) /\ count + 1 \in Object
      BY <1>1, AddGroupMaps DEF AddGroup
    <2>2. PICK p \in Object : p = count + 1
      BY <2>1
    <2>3. Groups!AddGroup(p)
      BY <2>1, <2>2 DEF Groups!AddGroup
    <2>4. QED
      BY <2>3 DEF Groups!GroupsNext
  <1>2. ASSUME NEW g \in GroupSlot, DeleteGroup(g) PROVE Groups!GroupsNext
    <2>1. Groups!DeleteGroup(group[g])
      BY <1>2, DeleteGroupMaps
    <2>2. PICK p \in Object : p = group[g]
      BY <1>2 DEF DeleteGroup, TypeOK, None, Object
    <2>3. Groups!DeleteGroup(p)
      BY <2>1, <2>2 DEF Groups!DeleteGroup
    <2>4. QED
      BY <2>3 DEF Groups!GroupsNext
  <1>3. ASSUME NEW c \in CitizenSlot, NEW o \in Object, AddCitizen(c, o)
        PROVE  Groups!GroupsNext
    <2>1. nextCid \in Citizen /\ Groups!AddCitizen(nextCid, o)
      BY <1>3, AddCitizenMaps
    <2>2. PICK k \in Citizen : k = nextCid
      BY <2>1
    <2>3. Groups!AddCitizen(k, o)
      BY <2>1, <2>2 DEF Groups!AddCitizen
    <2>4. QED
      BY <2>3 DEF Groups!GroupsNext
  <1>4. ASSUME NEW c \in CitizenSlot, DeleteCitizen(c) PROVE Groups!GroupsNext
    <2>1. cid[c] \in Citizen /\ Groups!DeleteCitizen(cid[c])
      BY <1>4, DeleteCitizenMaps
    <2>2. PICK k \in Citizen : k = cid[c]
      BY <2>1
    <2>3. Groups!DeleteCitizen(k)
      BY <2>1, <2>2 DEF Groups!DeleteCitizen
    <2>4. QED
      BY <2>3 DEF Groups!GroupsNext
  <1>5. ASSUME NEW g \in GroupSlot, NEW c \in CitizenSlot, NEW on \in BOOLEAN,
               SetEnrollment(g, c, on)
        PROVE  Groups!GroupsNext
    <2>1. cid[c] \in Citizen /\ Groups!SetEnrollment(group[g], cid[c], on)
      BY <1>5, SetEnrollmentMaps
    <2>2. PICK p \in Object, k \in Citizen : p = group[g] /\ k = cid[c]
      BY <1>5, <2>1 DEF SetEnrollment, TypeOK, None, Object
    <2>3. Groups!SetEnrollment(p, k, on)
      BY <2>1, <2>2 DEF Groups!SetEnrollment
    <2>4. QED
      BY <2>3 DEF Groups!GroupsNext
  <1>6. ASSUME NEW o \in Object, NEW v \in Asked, SetGain(o, v) \/ ApplySet(o, v)
        PROVE  Groups!GroupsNext
    <2>1. PICK w \in Value : Groups!Write(o, w) \/ Groups!ApplicationWrite(o, w)
      BY <1>6, WriteMaps
    <2>2. QED
      BY <2>1 DEF Groups!GroupsNext
  <1>7. CASE UNCHANGED vars
    BY <1>7 DEF vars, tableVars, Groups!groupVars
  <1>8. QED
    BY <1>1, <1>2, <1>3, <1>4, <1>5, <1>6, <1>7 DEF Next

(* The grouper's slots and bit map implement GroupService: with any number *)
(* of slots and any reuse of them, a controller's write to a proxy changes *)
(* and notifies the objects enrolled in its group and no others.           *)
THEOREM GroupsImplemented == Spec => ImplementsGroups
  BY InitInv, NextInv, InitMaps, StepMaps, PTL DEF Spec, ImplementsGroups, Groups!GroupsSpec

-----------------------------------------------------------------------------
(* Scenes: locks.                                                          *)

(* Only objects that exist are locked, so the proxy AddGroup makes is not  *)
(* one somebody relies on.                                                 *)
LockInv ==
  /\ count \in Nat
  /\ owner \in [Lockable -> Controller \cup {Nobody}]
  /\ \A o \in Object : owner[o] # Nobody => o <= count

(* The steps of a group's methods leave the locks and existing values.     *)
LEMMA GroupStep ==
  ASSUME LockInv, NEW s \in Controller, Group(s)
  PROVE  /\ count' \in Nat /\ count <= count' /\ owner' = owner
         /\ \A o \in Object : o <= count => num'[o] = num[o]
  <1> USE DEF LockInv
  <1>1. CASE \E g \in GroupSlot : AddGroup(g)
    BY <1>1 DEF Group, AddGroup, Object
  <1>2. CASE num' = num /\ count' = count
    BY <1>2 DEF Group, Object
  <1>3. QED
    BY <1>1, <1>2 DEF Group, DeleteGroup, AddCitizen, DeleteCitizen, SetEnrollment

(* No lock outlives or precedes the object it is on.                       *)
LEMMA LockNext == LockInv /\ [ScenesNext]_sceneVars => LockInv'
  <1> SUFFICES ASSUME LockInv, [ScenesNext]_sceneVars PROVE LockInv'
    OBVIOUS
  <1> USE DEF LockInv
  <1>1. ASSUME NEW s \in Controller, NEW o \in Lockable, Lock(s, o) \/ Unlock(s, o)
        PROVE  LockInv'
    <2>1. o \in Object => o <= count
      BY <1>1 DEF Lock, Unlock, Exists, Block, GrouperNo, Object
    <2>2. count' = count
      BY <1>1 DEF Lock, Unlock, tableVars
    <2>3. PICK t \in {s, Nobody} : owner' = [owner EXCEPT ![o] = t]
      BY <1>1 DEF Lock, Unlock
    <2>4. QED
      BY <2>1, <2>2, <2>3
  <1>2. ASSUME NEW s \in Controller, Disconnect(s) PROVE LockInv'
    BY <1>2 DEF Disconnect, tableVars, Lockable
  <1>3. ASSUME NEW s \in Controller, Group(s) PROVE LockInv'
    BY <1>3, GroupStep DEF Object
  <1>4. ASSUME UNCHANGED <<tableVars, owner>> PROVE LockInv'
    BY <1>4 DEF tableVars
  <1>5. ASSUME NEW s \in Controller,
               \/ \E o \in Object, v \in Value : Write(s, o, v)
               \/ FetchCurrentParameterData(s)
               \/ \E n \in 0 .. Len(scene) : ApplyParameterData(s, n)
        PROVE  UNCHANGED <<tableVars, owner>>
    BY <1>5 DEF Write, SetGain, CommitFromController, FetchCurrentParameterData,
                ApplyParameterData
  <1>6. ASSUME NEW o \in Object, NEW v \in Asked, ApplicationSet(o, v)
        PROVE  UNCHANGED <<tableVars, owner>>
    BY <1>6 DEF ApplicationSet, ApplySet
  <1>7. CASE UNCHANGED sceneVars
    BY <1>4, <1>7 DEF sceneVars, vars
  <1>8. QED
    BY <1>1, <1>2, <1>3, <1>4, <1>5, <1>6, <1>7 DEF ScenesNext

(* Nothing is locked at the start.                                         *)
LEMMA LockInit == ScenesInit => LockInv
  BY DEF ScenesInit, Init, LockInv, Lockable

(* One step of another session, from a state in which s holds the locks.   *)
LEMMA LocksHoldStep ==
  ASSUME LockInv, ScenesNext, NEW o \in Object, NEW s \in Controller,
         \A l \in {o, Block} \cup Sources(o) : owner[l] = s,
         by' \notin {s, Application}
  PROVE  num'[o] = num[o]
  <1>0. s # Nobody /\ owner[o] = s /\ owner[Block] = s
    OBVIOUS
  <1>1. ASSUME NEW t \in Controller, NEW p \in Object, NEW v \in Value, Write(t, p, v)
        PROVE  num'[o] = num[o]
    <2>1. t # s /\ owner[p] # s
      BY <1>0, <1>1 DEF Write, By, MayWrite
    <2>2. o # p /\ o \notin FanOut(p)
      BY <1>0, <2>1 DEF Sources
    <2>3. QED
      BY <1>1, <2>2 DEF Write, SetGain, CommitFromController
  <1>2. ASSUME NEW t \in Controller, Group(t) PROVE num'[o] = num[o]
    BY <1>0, <1>2, GroupStep DEF LockInv
  <1>3. ASSUME NEW t \in Controller, NEW n \in 0 .. Len(scene), ApplyParameterData(t, n)
        PROVE  FALSE
    BY <1>0, <1>3 DEF ApplyParameterData, MayWrite
  <1>4. ASSUME NEW p \in Object, NEW v \in Asked, ApplicationSet(p, v) PROVE FALSE
    BY <1>4 DEF ApplicationSet, By
  <1>5. CASE UNCHANGED num
    BY <1>5
  <1>6. QED
    BY <1>1, <1>2, <1>3, <1>4, <1>5
    DEF ScenesNext, Lock, Unlock, Disconnect, FetchCurrentParameterData

(* Which locks protect a value: those of the object, of the proxies it     *)
(* follows and of the block.  (The lock of the object alone does not: a    *)
(* recall looks at that of the block, a fan-out at that of the proxy.)     *)
THEOREM LocksHold == ScenesSpec => LocksProtect
  <1>1. LockInv /\ [ScenesNext]_sceneVars =>
          [\A o \in Object, s \in Controller :
             /\ \A l \in {o, Block} \cup Sources(o) : owner[l] = s
             /\ by' \notin {s, Application}
             => num'[o] = num[o]]_sceneVars
    BY LocksHoldStep
  <1>2. QED
    BY <1>1, LockInit, LockNext, PTL DEF ScenesSpec, LocksProtect

-----------------------------------------------------------------------------
(* Scenes: recall.                                                         *)

(* Every set of naturals that has a member has a least one.                *)
LEMMA LeastNatural ==
  ASSUME NEW T \in SUBSET Nat, T # {}
  PROVE  \E n \in T : \A m \in T : n <= m
  <1>1. IsWellFoundedOn(OpToRel(<, Nat), Nat)
    BY NatLessThanWellFounded
  <1>2. PICK n \in T : \A m \in T : <<m, n>> \notin OpToRel(<, Nat)
    BY <1>1, WFMin
  <1>3. \A m \in T : ~(m < n)
    BY <1>2 DEF OpToRel
  <1>4. QED
    BY <1>3

(* What holds at first and from one entry to the next holds of them all.   *)
LEMMA EntryByEntry ==
  ASSUME NEW T, NEW n \in Nat, 0 \in T, \A k \in 0 .. n - 1 : k \in T => k + 1 \in T
  PROVE  \A k \in 0 .. n : k \in T
  <1> DEFINE Missing == {k \in 0 .. n : k \notin T}
  <1>1. SUFFICES ASSUME Missing # {} PROVE FALSE
    OBVIOUS
  <1>2. Missing \in SUBSET Nat
    OBVIOUS
  <1> HIDE DEF Missing
  <1>3. PICK k \in Missing : \A m \in Missing : k <= m
    BY <1>1, <1>2, LeastNatural
  <1>4. k \in 0 .. n /\ k \notin T /\ k # 0
    BY <1>3 DEF Missing
  <1>5. k - 1 \in 0 .. n - 1 /\ (k - 1) + 1 = k /\ k - 1 \in 0 .. n /\ ~(k <= k - 1)
    BY <1>4
  <1>6. k - 1 \in T
    BY <1>3, <1>5 DEF Missing
  <1>7. QED
    BY <1>4, <1>5, <1>6

IsRecall(R, n) ==
  R = [i \in 0 .. n |->
         IF i = 0 THEN num
         ELSE [x \in Object |-> IF x \in {i} \cup FanOut(i) THEN RecallValue(i, scene[i])
                                ELSE R[i - 1][x]]]

LEMMA RecallExists ==
  ASSUME NEW n \in Nat
  PROVE  \E R : IsRecall(R, n)
  <1> DEFINE Good == {m \in Nat : \E R : IsRecall(R, m)}
  <1>1. 0 \in Good
    <2>1. IsRecall([i \in 0 .. 0 |-> num], 0)
      BY DEF IsRecall
    <2>2. QED
      BY <2>1
  <1>2. ASSUME NEW m \in 0 .. n - 1, m \in Good
        PROVE  m + 1 \in Good
    <2>1. PICK R : IsRecall(R, m)
      BY <1>2
    <2> DEFINE After(i, f) == [x \in Object |-> IF x \in {i} \cup FanOut(i)
                                                THEN RecallValue(i, scene[i]) ELSE f[x]]
               S == [i \in 0 .. m + 1 |-> IF i = m + 1 THEN After(m + 1, R[m]) ELSE R[i]]
    <2>2. (\A i \in 0 .. m : S[i] = R[i]) /\ S[m + 1] = After(m + 1, R[m])
      OBVIOUS
    <2>3. R[0] = num /\ \A i \in 1 .. m : R[i] = After(i, R[i - 1])
      <3>1. \A i \in 0 .. m : R[i] = IF i = 0 THEN num ELSE After(i, R[i - 1])
        BY <2>1 DEF IsRecall
      <3>2. 0 \in 0 .. m /\ \A i \in 1 .. m : i \in 0 .. m /\ i # 0
        OBVIOUS
      <3> HIDE DEF After
      <3>3. QED
        BY <3>1, <3>2
    <2>4. S = [i \in 0 .. m + 1 |-> S[i]]
      OBVIOUS
    <2> HIDE DEF S, Good, After
    <2>5. S[0] = num
      BY <2>2, <2>3
    <2>6. ASSUME NEW i \in 1 .. m + 1
          PROVE  S[i] = After(i, S[i - 1])
      <3>1. i - 1 \in 0 .. m
        OBVIOUS
      <3>2. CASE i = m + 1
        BY <2>2, <3>1, <3>2
      <3>3. CASE i # m + 1
        BY <2>2, <2>3, <3>1, <3>3
      <3>4. QED
        BY <3>2, <3>3
    <2>7. \A i \in 0 .. m + 1 : S[i] = IF i = 0 THEN num ELSE After(i, S[i - 1])
      BY <2>5, <2>6
    <2>8. S = [i \in 0 .. m + 1 |-> IF i = 0 THEN num ELSE After(i, S[i - 1])]
      BY <2>4, <2>7
    <2>9. IsRecall(S, m + 1)
      BY <2>8 DEF IsRecall, After
    <2>10. QED
      BY <2>9 DEF Good
  <1> HIDE DEF Good
  <1>3. \A k \in 0 .. n : k \in Good
    BY <1>1, <1>2, EntryByEntry
  <1>4. n \in Good
    BY <1>3
  <1>5. QED
    BY <1>4 DEF Good

(* What each entry of a scene does.                                        *)
LEMMA EntryRecalled ==
  ASSUME Len(scene) \in Nat
  PROVE  /\ Recalled[0] = num
         /\ \A i \in 1 .. Len(scene) :
              Recalled[i] = [x \in Object |-> IF x \in {i} \cup FanOut(i)
                                              THEN RecallValue(i, scene[i])
                                              ELSE Recalled[i - 1][x]]
  <1>1. PICK R : IsRecall(R, Len(scene))
    BY RecallExists
  <1>2. IsRecall(Recalled, Len(scene))
    BY <1>1, Zenon DEF Recalled, IsRecall
  <1>3. \A i \in 0 .. Len(scene) :
          Recalled[i] = IF i = 0 THEN num
                        ELSE [x \in Object |-> IF x \in {i} \cup FanOut(i)
                                               THEN RecallValue(i, scene[i])
                                               ELSE Recalled[i - 1][x]]
    <2>1. PICK S : S = Recalled
      OBVIOUS
    <2>2. IsRecall(S, Len(scene))
      BY <1>2, <2>1
    <2>3. \A i \in 0 .. Len(scene) :
            S[i] = IF i = 0 THEN num
                   ELSE [x \in Object |-> IF x \in {i} \cup FanOut(i)
                                          THEN RecallValue(i, scene[i])
                                          ELSE S[i - 1][x]]
      BY <2>2 DEF IsRecall
    <2>4. QED
      BY <2>1, <2>3
  <1>4. 0 \in 0 .. Len(scene) /\ \A i \in 1 .. Len(scene) : i \in 0 .. Len(scene) /\ i # 0
    OBVIOUS
  <1>5. QED
    BY <1>3, <1>4

(* A scene is of objects there are.                                        *)
SceneTypes == scene \in Seq(Value) /\ Len(scene) <= count

LEMMA SceneRange ==
  ASSUME TypeOK, SceneTypes
  PROVE  Len(scene) \in Nat /\ \A i \in 1 .. Len(scene) : i \in Object /\ scene[i] \in Value
  <1>1. Len(scene) \in Nat /\ \A i \in 1 .. Len(scene) : scene[i] \in Value
    BY DEF SceneTypes
  <1>2. count \in Int /\ count <= Controls + MaxProxies /\ Len(scene) <= count
    BY DEF TypeOK, SceneTypes
  <1>3. ASSUME NEW i \in 1 .. Len(scene) PROVE i \in Object
    <2>1. PICK n \in Nat, all \in Int : n = Len(scene) /\ all = Controls + MaxProxies
      BY <1>1
    <2>2. i \in 1 .. n /\ n <= all
      BY <1>2, <2>1
    <2>3. QED
      BY <2>1, <2>2 DEF Object
  <1>4. QED
    BY <1>1, <1>3

LEMMA RecalledTypes ==
  ASSUME TypeOK, SceneTypes
  PROVE  \A i \in 0 .. Len(scene) : Recalled[i] \in [Object -> Value]
  <1> DEFINE T == {i \in 0 .. Len(scene) : Recalled[i] \in [Object -> Value]}
  <1>1. Len(scene) \in Nat /\ \A i \in 1 .. Len(scene) : i \in Object /\ scene[i] \in Value
    BY SceneRange
  <1>2. 0 \in T
    BY <1>1, EntryRecalled DEF TypeOK
  <1>3. ASSUME NEW k \in 0 .. Len(scene) - 1, k \in T PROVE k + 1 \in T
    <2>1. PICK i \in 1 .. Len(scene) : i = k + 1 /\ i - 1 = k
      BY <1>1
    <2>2. RecallValue(i, scene[i]) \in Value
      BY <1>1, MaxType DEF RecallValue, Clamp
    <2>3. Recalled[i] = [x \in Object |-> IF x \in {i} \cup FanOut(i)
                                          THEN RecallValue(i, scene[i])
                                          ELSE Recalled[i - 1][x]]
      BY <1>1, EntryRecalled
    <2>4. Recalled[k] \in [Object -> Value]
      BY <1>3
    <2>5. Recalled[i] \in [Object -> Value]
      BY <2>1, <2>2, <2>3, <2>4
    <2>6. QED
      BY <2>1, <2>5
  <1> HIDE DEF T
  <1>4. \A k \in 0 .. Len(scene) : k \in T
    BY <1>1, <1>2, <1>3, EntryByEntry
  <1>5. QED
    BY <1>4 DEF T

(* Up to any entry of a coherent scene, what was recalled stays recalled.  *)
LEMMA CoherentRecalled ==
  ASSUME TypeOK, SceneTypes,
         \A i \in 1 .. Len(scene) :
           /\ scene[i] <= Max(i)
           /\ \A m \in FanOut(i) \cap 1 .. Len(scene) : scene[m] = scene[i]
  PROVE  \A n \in 0 .. Len(scene) : \A i \in 1 .. n : Recalled[n][i] = scene[i]
  <1> DEFINE T == {n \in 0 .. Len(scene) : \A i \in 1 .. n : Recalled[n][i] = scene[i]}
  <1>1. Len(scene) \in Nat /\ \A i \in 1 .. Len(scene) : i \in Object /\ scene[i] \in Value
    BY SceneRange
  <1>2. 0 \in T
    BY <1>1
  <1>3. ASSUME NEW k \in 0 .. Len(scene) - 1, k \in T PROVE k + 1 \in T
    <2>1. PICK n \in 1 .. Len(scene) : n = k + 1 /\ n - 1 = k
      BY <1>1
    <2>2. RecallValue(n, scene[n]) = scene[n]
      <3>1. Max(n) \in Value /\ scene[n] \in Value /\ scene[n] <= Max(n)
        BY <1>1, MaxType
      <3>2. ~(scene[n] > Max(n))
        BY <3>1 DEF Value
      <3>3. QED
        BY <3>2 DEF RecallValue, Clamp
    <2>3. Recalled[n] = [x \in Object |-> IF x \in {n} \cup FanOut(n)
                                          THEN RecallValue(n, scene[n])
                                          ELSE Recalled[n - 1][x]]
      BY <1>1, EntryRecalled
    <2>4. \A i \in 1 .. k : Recalled[k][i] = scene[i]
      BY <1>3
    <2>5. ASSUME NEW i \in 1 .. n PROVE Recalled[n][i] = scene[i]
      <3>1. i \in Object /\ i \in 1 .. Len(scene) /\ (i # n => i \in 1 .. k)
        BY <1>1, <2>1
      <3>2. CASE i = n
        BY <2>2, <2>3, <3>1, <3>2
      <3>3. CASE i # n /\ i \in FanOut(n)
        <4>1. scene[i] = scene[n]
          BY <3>1, <3>3
        <4>2. QED
          BY <2>2, <2>3, <3>1, <3>3, <4>1
      <3>4. CASE i # n /\ i \notin FanOut(n)
        BY <2>1, <2>3, <2>4, <3>1, <3>4
      <3>5. QED
        BY <3>2, <3>3, <3>4
    <2>6. QED
      BY <1>1, <2>1, <2>5
  <1> HIDE DEF T
  <1>4. \A k \in 0 .. Len(scene) : k \in T
    BY <1>1, <1>2, <1>3, EntryByEntry
  <1>5. QED
    BY <1>4 DEF T

(* The types of module Scenes, on which recalls depend.                    *)
SceneInv ==
  /\ IInv /\ SceneTypes
  /\ owner \in [Lockable -> Controller \cup {Nobody}]
  /\ by \in Controller \cup {Application} /\ whole \in BOOLEAN

LEMMA SceneInit == ScenesInit => SceneInv
  <1> SUFFICES ASSUME ScenesInit PROVE SceneInv
    OBVIOUS
  <1>1. IInv
    BY InitInv DEF ScenesInit
  <1>2. SceneTypes
    BY DEF ScenesInit, SceneTypes, Init
  <1>3. QED
    BY <1>1, <1>2 DEF ScenesInit, SceneInv

LEMMA GroupInv ==
  ASSUME IInv, NEW s \in Controller, Group(s)
  PROVE  IInv' /\ count' \in Int /\ count <= count'
  <1>1. count \in Int
    BY DEF IInv, TypeOK
  <1>2. ASSUME NEW g \in GroupSlot, AddGroup(g) PROVE IInv' /\ count' = count + 1
    BY <1>2, AddGroupInv DEF AddGroup
  <1>3. ASSUME NEW g \in GroupSlot, DeleteGroup(g) PROVE IInv' /\ count' = count
    BY <1>3, DeleteGroupInv DEF DeleteGroup
  <1>4. ASSUME NEW c \in CitizenSlot, NEW o \in Object, AddCitizen(c, o)
        PROVE  IInv' /\ count' = count
    BY <1>4, AddCitizenInv DEF AddCitizen
  <1>5. ASSUME NEW c \in CitizenSlot, DeleteCitizen(c) PROVE IInv' /\ count' = count
    BY <1>5, DeleteCitizenInv DEF DeleteCitizen
  <1>6. ASSUME NEW c \in CitizenSlot, NEW g \in GroupSlot, NEW on \in BOOLEAN,
               SetEnrollment(g, c, on)
        PROVE  IInv' /\ count' = count
    BY <1>6, SetEnrollmentInv DEF SetEnrollment
  <1>7. IInv' /\ (count' = count \/ count' = count + 1)
    BY <1>2, <1>3, <1>4, <1>5, <1>6 DEF Group
  <1>8. QED
    BY <1>1, <1>7

LEMMA SceneNext == SceneInv /\ [ScenesNext]_sceneVars => SceneInv'
  <1> SUFFICES ASSUME SceneInv, [ScenesNext]_sceneVars PROVE SceneInv'
    OBVIOUS
  <1>1. IInv /\ TypeOK /\ SceneTypes
    BY DEF SceneInv, IInv
  <1>2. ASSUME UNCHANGED <<tableVars, num>>, raised' \subseteq Object PROVE IInv'
    BY <1>1, <1>2 DEF IInv, TypeOK, EnrollmentOfLiveSlots, SlotsDistinct, tableVars
  <1>3. ASSUME UNCHANGED <<scene, count>> PROVE SceneTypes'
    BY <1>1, <1>3 DEF SceneTypes
  <1>4. ASSUME NEW s \in Controller, NEW o \in Lockable, Lock(s, o) \/ Unlock(s, o)
        PROVE  SceneInv'
    <2>1. UNCHANGED <<tableVars, num, scene>> /\ raised' = {} /\ By(s)
      BY <1>4 DEF Lock, Unlock
    <2>2. owner' \in [Lockable -> Controller \cup {Nobody}]
      BY <1>4 DEF Lock, Unlock, SceneInv
    <2>3. QED
      BY <1>2, <1>3, <2>1, <2>2 DEF SceneInv, By, tableVars
  <1>5. ASSUME NEW s \in Controller, Disconnect(s) PROVE SceneInv'
    <2>1. UNCHANGED <<tableVars, num, scene>> /\ raised' = {} /\ By(s)
      BY <1>5 DEF Disconnect
    <2>2. owner' \in [Lockable -> Controller \cup {Nobody}]
      BY <1>5 DEF Disconnect, SceneInv
    <2>3. QED
      BY <1>2, <1>3, <2>1, <2>2 DEF SceneInv, By, tableVars
  <1>6. ASSUME NEW s \in Controller, Group(s) PROVE SceneInv'
    <2>1. IInv' /\ count' \in Int /\ count <= count'
      BY <1>1, <1>6, GroupInv
    <2>2. SceneTypes'
      <3>1. scene' = scene /\ count \in Int /\ Len(scene) \in Nat
        BY <1>1, <1>6, SceneRange DEF Group, TypeOK
      <3>2. QED
        BY <1>1, <2>1, <3>1 DEF SceneTypes
    <2>3. QED
      BY <1>6, <2>1, <2>2 DEF SceneInv, Group, By
  <1>7. ASSUME NEW s \in Controller, NEW o \in Object, NEW v \in Value, Write(s, o, v)
        PROVE  SceneInv'
    <2>1. v \in Asked
      BY DEF Value, Asked
    <2>2. IInv'
      BY <1>1, <1>7, <2>1, WriteInv DEF Write
    <2>3. UNCHANGED <<scene, count>>
      BY <1>7 DEF Write, SetGain, CommitFromController, tableVars
    <2>4. QED
      BY <1>3, <1>7, <2>2, <2>3 DEF SceneInv, Write, By
  <1>8. ASSUME NEW s \in Controller, FetchCurrentParameterData(s) PROVE SceneInv'
    <2>1. /\ UNCHANGED <<tableVars, num, owner>> /\ raised' = {} /\ By(s)
          /\ scene' = [o \in Present |-> num[o]]
      BY <1>8 DEF FetchCurrentParameterData
    <2>2. SceneTypes'
      <3>1. count \in Nat /\ Present = 1 .. count /\ Present \subseteq Object
        BY <1>1 DEF TypeOK, Present, Object
      <3>2. scene' \in [1 .. count -> Value]
        BY <1>1, <2>1, <3>1 DEF TypeOK
      <3>3. scene' \in Seq(Value) /\ Len(scene') = count
        BY <2>1, <3>1, <3>2
      <3>4. QED
        BY <2>1, <3>1, <3>3 DEF SceneTypes, tableVars
    <2>3. QED
      BY <1>2, <2>1, <2>2 DEF SceneInv, By
  <1>9. ASSUME NEW s \in Controller, NEW n \in 0 .. Len(scene), ApplyParameterData(s, n)
        PROVE  SceneInv'
    <2>1. /\ UNCHANGED <<tableVars, owner, scene>> /\ num' = Recalled[n] /\ by' = s
          /\ whole' = (n = Len(scene))
          /\ raised' = UNION {{i} \cup FanOut(i) : i \in 1 .. n}
      BY <1>9 DEF ApplyParameterData
    <2>2. num' \in [Object -> Value]
      BY <1>1, <2>1, RecalledTypes
    <2>3. \A i \in 1 .. n : i \in Object /\ FanOut(i) \subseteq Object
      <3>1. Len(scene) \in Nat
        BY <1>1, SceneRange
      <3>2. \A i \in 1 .. n : i \in 1 .. Len(scene)
        BY <3>1
      <3>3. QED
        BY <1>1, <3>2, SceneRange, FanOutType
    <2>4. raised' \subseteq Object
      BY <2>1, <2>3
    <2>5. IInv'
      BY <1>1, <2>1, <2>2, <2>4 DEF IInv, TypeOK, EnrollmentOfLiveSlots, SlotsDistinct, tableVars
    <2>6. QED
      BY <1>3, <2>1, <2>5 DEF SceneInv, tableVars
  <1>10. ASSUME NEW o \in Object, NEW v \in Asked, ApplicationSet(o, v)
         PROVE  SceneInv'
    <2>1. IInv'
      BY <1>1, <1>10, WriteInv DEF ApplicationSet
    <2>2. UNCHANGED <<scene, count>>
      BY <1>10 DEF ApplicationSet, ApplySet, tableVars
    <2>3. QED
      BY <1>3, <1>10, <2>1, <2>2 DEF SceneInv, ApplicationSet, By
  <1>11. CASE UNCHANGED sceneVars
    <2>1. UNCHANGED <<tableVars, num, raised, owner, scene, by, whole>>
      BY <1>11 DEF sceneVars, vars
    <2>2. raised \subseteq Object
      BY <1>1 DEF TypeOK
    <2>3. QED
      BY <1>2, <1>3, <2>1, <2>2 DEF SceneInv, tableVars
  <1>12. QED
    BY <1>4, <1>5, <1>6, <1>7, <1>8, <1>9, <1>10, <1>11 DEF ScenesNext

(* Type correctness of module Scenes: a scene has a value for objects that *)
(* exist, and a recall leaves every value one that may be stored.          *)
THEOREM ScenesTypeCorrect == ScenesSpec => []ScenesTypeOK
  <1>1. SceneInv => ScenesTypeOK
    BY SceneRange DEF SceneInv, IInv, SceneTypes, ScenesTypeOK
  <1>2. QED
    BY <1>1, SceneInit, SceneNext, PTL DEF ScenesSpec

(* A scene in which members agree with their proxies and every value is in *)
(* range comes back exactly, whatever fan-out its entries set off, for any *)
(* groups and any number of objects (aes70_managers.c, ApplyParameterData; *)
(* aes70_grouper_on_commit).                                               *)
THEOREM CoherentScenesComeBack == ScenesSpec => CoherentSceneRestored
  <1>1. ASSUME SceneInv, [ScenesNext]_sceneVars, whole' /\ ~UNCHANGED sceneVars,
               \A i \in 1 .. Len(scene) :
                 /\ scene[i] <= Max(i)
                 /\ \A m \in FanOut(i) \cap 1 .. Len(scene) : scene[m] = scene[i]
        PROVE  Restored
    <2>1. PICK s \in Controller, n \in 0 .. Len(scene) : ApplyParameterData(s, n)
      BY <1>1 DEF ScenesNext, Lock, Unlock, Disconnect, Group, Write, ApplicationSet,
                  FetchCurrentParameterData, By
    <2>2. num' = Recalled[n] /\ n = Len(scene)
      BY <1>1, <2>1 DEF ApplyParameterData
    <2>3. TypeOK /\ SceneTypes
      BY <1>1 DEF SceneInv, IInv
    <2>4. \A i \in 1 .. n : Recalled[n][i] = scene[i]
      BY <1>1, <2>3, CoherentRecalled
    <2>5. QED
      BY <2>2, <2>4 DEF Restored
  <1>2. SceneInv /\ [ScenesNext]_sceneVars =>
          [/\ whole'
           /\ \A i \in 1 .. Len(scene) :
                /\ scene[i] <= Max(i)
                /\ \A m \in FanOut(i) \cap 1 .. Len(scene) : scene[m] = scene[i]
           => Restored]_sceneVars
    BY <1>1
  <1>3. QED
    BY <1>2, SceneInit, SceneNext, PTL DEF ScenesSpec, CoherentSceneRestored
=============================================================================
