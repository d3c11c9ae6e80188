------------------------------- MODULE Scenes -------------------------------
(***************************************************************************)
(* What a controller can rely on when locks (OcaRoot), groups (OcaGrouper) *)
(* and scenes (FetchCurrentParameterData and ApplyParameterData of the     *)
(* root OcaBlock) act on the same objects.  Module Grouper, with the lock  *)
(* gate aes70_object_dispatch puts before every write method and the two   *)
(* scene methods.                                                          *)
(*                                                                         *)
(* Both lock modes stop the same writes, so a lock is its owner here.  The *)
(* controls and proxies are members of one block, in the order they were   *)
(* made; a controller may recall its scene whole or cut short.             *)
(***************************************************************************)
EXTENDS Grouper, Sequences

CONSTANTS
  Controller,   \* sessions that stay open but for Disconnect
  Nobody,       \* no lock owner
  Application   \* the actor behind aes70_object_apply_set

ASSUME ScenesAssumption == Nobody # Application /\ Controller \cap {Nobody, Application} = {}

Block     == 0                           \* the root block, as a lockable object
GrouperNo == Controls + MaxProxies + 1   \* the grouper, as a lockable object
Lockable  == Object \cup {Block, GrouperNo}

VARIABLES
  owner,   \* lock_owner of each object: Nobody when lock_state is NONE
  scene,   \* values the last FetchCurrentParameterData returned, in tree order
  by,      \* ghost: who took the last step
  whole    \* ghost: and whether it recalled the whole scene

sceneVars == <<vars, owner, scene, by, whole>>

(* The state without the ghosts, which no action looks at.                 *)
SceneState == <<tableVars, num, owner, scene>>

By(a) == by' = a /\ whole' = FALSE

ScenesInit ==
  /\ Init
  /\ owner = [o \in Lockable |-> Nobody]
  /\ scene = <<>>
  /\ by = Application
  /\ whole = FALSE

-----------------------------------------------------------------------------
(* Locks.                                                                  *)

(* Bug: the gate of ApplyParameterData is missing from the setter list.    *)
MayWriteNotBlockBug(s, o) == o = Block \/ owner[o] \in {Nobody, s}

MayWrite(s, o) == owner[o] \in {Nobody, s}

Exists(o) == o \in {Block, GrouperNo} \cup 1 .. count

(* SetLockNoWrite and SetLockNoReadWrite, themselves gated.                *)
Lock(s, o) ==
  /\ Exists(o) /\ MayWrite(s, o)
  /\ owner' = [owner EXCEPT ![o] = s]
  /\ By(s)
  /\ raised' = {}
  /\ UNCHANGED <<tableVars, num, scene>>

Unlock(s, o) ==
  /\ Exists(o) /\ MayWrite(s, o)
  /\ owner' = [owner EXCEPT ![o] = Nobody]
  /\ By(s)
  /\ raised' = {}
  /\ UNCHANGED <<tableVars, num, scene>>

(* aes70_locks_drop_conn; the session that comes next is as a new one.     *)
Disconnect(s) ==
  /\ owner' = [o \in Lockable |-> IF owner[o] = s THEN Nobody ELSE owner[o]]
  /\ By(s)
  /\ raised' = {}
  /\ UNCHANGED <<tableVars, num, scene>>

-----------------------------------------------------------------------------
(* The methods of module Grouper, behind the gate of their own object.     *)

Group(s) ==
  /\ MayWrite(s, GrouperNo)
  /\ \/ \E g \in GroupSlot : AddGroup(g) \/ DeleteGroup(g)
     \/ \E c \in CitizenSlot :
          \/ \E o \in Object : AddCitizen(c, o)
          \/ DeleteCitizen(c)
          \/ \E g \in GroupSlot, on \in BOOLEAN : SetEnrollment(g, c, on)
  /\ By(s)
  /\ UNCHANGED <<owner, scene>>

Write(s, o, v) ==
  /\ MayWrite(s, o)
  /\ SetGain(o, v)
  /\ By(s)
  /\ UNCHANGED <<owner, scene>>

ApplicationSet(o, v) ==
  /\ ApplySet(o, v)
  /\ By(Application)
  /\ UNCHANGED <<owner, scene>>

-----------------------------------------------------------------------------
(* Scenes.                                                                 *)

Present == 1 .. count

FetchCurrentParameterData(s) ==
  /\ scene' = [o \in Present |-> num[o]]
  /\ By(s)
  /\ raised' = {}
  /\ UNCHANGED <<tableVars, num, owner>>

(* An object whose range is a single point is not clamped.                 *)
RecallValue(o, v) == IF Max(o) > 0 THEN Clamp(o, v) ELSE v

(* The values after the first i entries, each committed as a controller's. *)
Recalled[i \in 0 .. Len(scene)] ==
  IF i = 0 THEN num
  ELSE [x \in Object |-> IF x \in {i} \cup FanOut(i) THEN RecallValue(i, scene[i])
                                                     ELSE Recalled[i - 1][x]]

(* Bug: the last entry is not applied.                                     *)
ApplyParameterDataShortBug(s, n) ==
  /\ MayWrite(s, Block)
  /\ LET m == IF n = 0 THEN 0 ELSE n - 1 IN
       /\ num' = Recalled[m]
       /\ raised' = UNION {{i} \cup FanOut(i) : i \in 1 .. m}
  /\ by' = s
  /\ whole' = (n = Len(scene))
  /\ UNCHANGED <<tableVars, owner, scene>>

(* The blob holds the first n entries of the scene: fewer than all, and    *)
(* they are applied before BadFormat is returned.  Only the lock of the    *)
(* block is looked at.                                                     *)
ApplyParameterData(s, n) ==
  /\ MayWrite(s, Block)
  /\ num' = Recalled[n]
  /\ raised' = UNION {{i} \cup FanOut(i) : i \in 1 .. n}
  /\ by' = s
  /\ whole' = (n = Len(scene))
  /\ UNCHANGED <<tableVars, owner, scene>>

-----------------------------------------------------------------------------
ScenesNext ==
  \/ \E s \in Controller :
       \/ \E o \in Lockable : Lock(s, o) \/ Unlock(s, o)
       \/ Disconnect(s)
       \/ Group(s)
       \/ \E o \in Object, v \in Value : Write(s, o, v)
       \/ FetchCurrentParameterData(s)
       \/ \E n \in 0 .. Len(scene) : ApplyParameterData(s, n)
  \/ \E o \in Object, v \in Asked : ApplicationSet(o, v)

ScenesSpec == ScenesInit /\ [][ScenesNext]_sceneVars

-----------------------------------------------------------------------------
(* Properties.                                                             *)

(* Type invariant: a scene holds values of objects there are.              *)
ScenesTypeOK ==
  /\ TypeOK
  /\ owner \in [Lockable -> Controller \cup {Nobody}]
  /\ Len(scene) <= count
  /\ \A i \in 1 .. Len(scene) : scene[i] \in Value
  /\ by \in Controller \cup {Application} /\ whole \in BOOLEAN

(* Objects whose write by a controller also writes o.                      *)
Sources(o) == {p \in Object : o \in FanOut(p)}

(* Which locks protect a value: a session that holds the lock of an        *)
(* object, of every proxy the object follows at the time, and of the block *)
(* sees no step of another session change it.                              *)
LocksProtect ==
  [][\A o \in Object, s \in Controller :
       /\ \A l \in {o, Block} \cup Sources(o) : owner[l] = s
       /\ by' \notin {s, Application}
       => num'[o] = num[o]]_sceneVars

(* After the step the objects of the scene have its values again.          *)
Restored == \A i \in 1 .. Len(scene) : num'[i] = scene[i]

(* A scene in which members have the value of their proxies, all values in *)
(* range, comes back exactly, whatever was enrolled, written or created    *)
(* since, in spite of the fan-out each of its own entries sets off.        *)
CoherentSceneRestored ==
  [][/\ whole'
     /\ \A i \in 1 .. Len(scene) :
          /\ scene[i] <= Max(i)
          /\ \A m \in FanOut(i) \cap 1 .. Len(scene) : scene[m] = scene[i]
     => Restored]_sceneVars
=============================================================================
