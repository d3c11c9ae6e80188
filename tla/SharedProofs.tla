---------------------------- MODULE SharedProofs ----------------------------
(***************************************************************************)
(* What the device lock buys what tasks reach at once, for any number of   *)
(* them, of objects and of blocks.                                         *)
(*                                                                         *)
(* The object registry (module Registry): as long as every object is       *)
(* created by a constructor that holds the lock, any number of application *)
(* tasks may build the tree beside the server task.  The grouper and       *)
(* matrix constructors and AddGroup do not hold it and are excluded        *)
(* (Locked); the run shared_unlocked shows what they break.  With it an     *)
(* enumeration beside them is of one state of the tree.                    *)
(*                                                                         *)
(* The texts (module SharedTexts): setters that meet lose no text and free *)
(* none twice, and a text that is read is good until it is set again.      *)
(***************************************************************************)
EXTENDS Registry, SharedTexts, SequenceTheorems, FiniteSetTheorems,
        WellFoundedInduction, TLAPS

-----------------------------------------------------------------------------
(* The object registry.                                                    *)

Locked == Kinds \subseteq {"plain", "block"} /\ AddsGroups = FALSE

(* Stages of a constructor that has its object, and those after it has     *)
(* registered it.                                                          *)
Listing  == {"member", "grown", "mstore", "mcount", "mlate", "finish"}
Building == {"store", "count", "late"} \cup Listing
Label    == {"idle", "number", "bump", "new"} \cup Building
Local    == [kind : {"plain", "block", "grouper", "group"}, block : Block,
             obj : Obj \cup {None}, ono : Nat, at : Nat]

ITypes ==
  /\ next_ono \in Nat
  /\ objects \in [Index -> Obj \cup {None}] /\ object_count \in 0 .. MaxObjects
  /\ children \in [Block -> [Place -> Obj \cup {None}]]
  /\ child_count \in [Block -> Nat] /\ child_cap \in [Block -> Nat]
  /\ moved \subseteq Block
  /\ ono \in [Obj -> Nat] /\ ready \in [Obj -> BOOLEAN]
  /\ owner \in [Obj -> Block \cup {None}]
  /\ used \subseteq Obj /\ returned \subseteq used
  /\ lock \in Task \cup {Free}
  /\ pc \in [Task -> Label] /\ me \in [Task -> Local]

(* One constructor at a time, and it has the lock.                         *)
IMutex == \A t \in Task : pc[t] # "idle" => t \in AppTask /\ lock = t

(* The registry: its entries differ, carry numbers already handed out, and *)
(* beyond the count there is at most the one entry being written.          *)
IRegistry ==
  /\ \A i \in Index : objects[i] # None =>
       objects[i] \in used /\ ono[objects[i]] < next_ono
  /\ \A i, j \in Index : i # j /\ objects[i] # None /\ objects[j] # None =>
       objects[i] # objects[j] /\ ono[objects[i]] # ono[objects[j]]
  /\ \A i \in Index : i >= object_count /\ objects[i] # None =>
       \E t \in Task : pc[t] = "count" /\ i = me[t].at
  /\ \A o \in returned : \E i \in Index : i < object_count /\ objects[i] = o

Registering(t) ==
  /\ pc[t] = "bump" => me[t].ono = next_ono
  /\ pc[t] \in {"new", "store", "late"} =>
       /\ me[t].ono < next_ono
       /\ \A i \in Index : objects[i] # None => ono[objects[i]] < me[t].ono
  /\ pc[t] \in Building => me[t].obj \in used \ returned
  /\ pc[t] \in {"store", "late"} =>
       ono[me[t].obj] = me[t].ono /\ \A i \in Index : objects[i] # me[t].obj
  /\ pc[t] \in {"store", "count"} => me[t].at = object_count /\ object_count < MaxObjects
  /\ pc[t] = "count" => objects[me[t].at] = me[t].obj
  /\ pc[t] = "late" => object_count = me[t].at + 1 /\ objects[me[t].at] = None
  /\ pc[t] \in Listing => \E i \in Index : i < object_count /\ objects[i] = me[t].obj

IRegistering == \A t \in Task : Registering(t)

(* Object o is listed in the block it carries as its owner, in one place,  *)
(* or it has no owner and is listed nowhere.                               *)
Nowhere(o) == \A b \in Block : \A i \in Place : children[b][i] # o
OnlyAt(o, blk, p) ==
  /\ children[blk][p] = o
  /\ \A b \in Block : \A i \in Place : children[b][i] = o => b = blk /\ i = p
Settled(o) ==
  \/ owner[o] = None /\ Nowhere(o)
  \/ /\ owner[o] \in Block
     /\ \E p \in Place : p < child_count[owner[o]] /\ OnlyAt(o, owner[o], p)

(* The member lists.  The lists are at most as long as the objects handed  *)
(* out are many, which keeps them inside their bounds: memory is numbered  *)
(* in the order it is handed out, so that "many" is the highest number.    *)
IMembers ==
  /\ \A b \in Block : child_count[b] <= child_cap[b] /\ child_count[b] <= MaxCreated
  /\ \A b \in Block : \A p \in Obj \ used : child_count[b] < p
  /\ \A o \in Obj \ used : Nowhere(o) /\ owner[o] = None
  /\ \A o \in returned : Settled(o)

(* Beyond its count a list holds at most the one member being written.     *)
Beyond(b, i) == i >= child_count[b] /\ children[b][i] # None
IBeyond ==
  \A b \in Block : \A i \in Place : Beyond(b, i) =>
    \E t \in Task : pc[t] = "mcount" /\ b = me[t].block /\ i = me[t].at

Entering(t) ==
  /\ pc[t] \in Building => \A p \in Obj \ used : me[t].obj < p
  /\ pc[t] \in Building \ {"finish", "mlate"} =>
       child_count[me[t].block] < me[t].obj
  /\ pc[t] \in Building \ {"finish", "mcount"} =>
       Nowhere(me[t].obj) /\ owner[me[t].obj] = None
  /\ pc[t] \in {"mstore", "mcount"} =>
       /\ me[t].at = child_count[me[t].block]
       /\ child_count[me[t].block] < child_cap[me[t].block]
  /\ pc[t] = "mcount" =>
       OnlyAt(me[t].obj, me[t].block, me[t].at) /\ owner[me[t].obj] = None
  /\ pc[t] = "mlate" =>
       /\ child_count[me[t].block] = me[t].at + 1
       /\ me[t].at \in Place /\ children[me[t].block][me[t].at] = None
  /\ pc[t] = "finish" => Settled(me[t].obj)

IListing == \A t \in Task : Entering(t)

IInv == ITypes /\ IMutex /\ IRegistry /\ IRegistering /\ IMembers /\ IBeyond /\ IListing
-----------------------------------------------------------------------------
LEMMA TheOthersAreIdle ==
  ASSUME IMutex, NEW t \in Task, pc[t] # "idle"
  PROVE  t \in AppTask /\ lock = t /\ \A u \in Task : u # t => pc[u] = "idle"
  BY RegistryAssumption DEF IMutex

LEMMA InitEstablishes == Init => IInv
<1> SUFFICES ASSUME Init PROVE IInv
  OBVIOUS
<1>1. ITypes
  BY RegistryAssumption DEF Init, ITypes, Label, Local, Fresh, Task, Block, Obj, None
<1>2. IMutex /\ IRegistry /\ IRegistering
  BY RegistryAssumption DEF Init, IMutex, IRegistry, IRegistering, Registering, Building, Listing, Index, Obj, None
<1>3. IMembers /\ IBeyond /\ IListing
  BY RegistryAssumption DEF Init, IMembers, IBeyond, Beyond, IListing, Entering, Nowhere, Building, Listing, Obj, None
<1> QED
  BY <1>1, <1>2, <1>3 DEF IInv

LEMMA EnterKeeps ==
  ASSUME IInv, NEW t \in Task, NEW k \in {"plain", "block", "grouper", "group"}, NEW b \in Block, Locked, Enter(t, k, b)
  PROVE  IInv'
<1> USE RegistryAssumption DEF Enter, TakesLock, Fresh, Locked, Goto, registry, lists, attrs
<1>0. ITypes /\ IMutex /\ IRegistry /\ IRegistering /\ IMembers /\ IBeyond /\ IListing
  BY DEF IInv
<1>t. \A u \in Task : u # t => pc[u] = "idle"
  BY <1>0 DEF IMutex, Task, Free
<1>m. /\ me[t] \in Local
      /\ me[t].ono \in Nat /\ me[t].at \in Nat /\ me[t].block \in Block
      /\ me[t].obj \in Obj \cup {None}
  <2>1. me[t] \in Local
    BY <1>0 DEF ITypes
  <2> QED
    BY <2>1 DEF Local
<1>s. Registering(t) /\ Entering(t)
  BY <1>0 DEF IRegistering, IListing
<1>1. ITypes'
  BY <1>0, <1>m DEF ITypes, Label, Building, Listing, Local, Task
<1>2. IMutex'
  BY <1>0, <1>t DEF ITypes, IMutex, Task
<1>3. IRegistry'
  BY <1>0, <1>s, <1>m, <1>t DEF ITypes, IRegistry, Registering
<1>i. \A u \in Task : u # t => Registering(u)' /\ Entering(u)'
  BY <1>0, <1>t DEF ITypes, Registering, Entering, Building, Listing
<1>4. IRegistering'
  <2>1. Registering(t)'
    BY <1>0, <1>s, <1>m, <1>t DEF ITypes, Registering, IRegistry, Building, Listing
  <2> QED
    BY <2>1, <1>i DEF IRegistering
<1>5. IMembers'
  BY <1>0, <1>s, <1>m, <1>t DEF ITypes, IMembers, Entering, Settled, Nowhere, OnlyAt
<1>b. IBeyond'
  BY <1>0, <1>s, <1>m, <1>t DEF ITypes, IBeyond, Beyond, Entering
<1>6. IListing'
  <2>1. Entering(t)'
    BY <1>0, <1>s, <1>m, <1>t DEF ITypes, IMembers, Entering, Settled, Nowhere, OnlyAt, Building, Listing
  <2> QED
    BY <2>1, <1>i DEF IListing
<1> QED
  BY <1>1, <1>2, <1>3, <1>4, <1>5, <1>b, <1>6 DEF IInv

LEMMA ReadNumberKeeps ==
  ASSUME IInv, NEW t \in Task, ReadNumber(t)
  PROVE  IInv'
<1> USE RegistryAssumption DEF ReadNumber, Goto, registry, lists, attrs
<1>0. ITypes /\ IMutex /\ IRegistry /\ IRegistering /\ IMembers /\ IBeyond /\ IListing
  BY DEF IInv
<1>t. \A u \in Task : u # t => pc[u] = "idle"
  BY <1>0, TheOthersAreIdle
<1>m. /\ me[t] \in Local
      /\ me[t].ono \in Nat /\ me[t].at \in Nat /\ me[t].block \in Block
      /\ me[t].obj \in Obj \cup {None}
  <2>1. me[t] \in Local
    BY <1>0 DEF ITypes
  <2> QED
    BY <2>1 DEF Local
<1>s. Registering(t) /\ Entering(t)
  BY <1>0 DEF IRegistering, IListing
<1>1. ITypes'
  BY <1>0, <1>m DEF ITypes, Label, Building, Listing, Local, Task
<1>2. IMutex'
  BY <1>0, <1>t DEF ITypes, IMutex
<1>3. IRegistry'
  BY <1>0, <1>s, <1>m, <1>t DEF ITypes, IRegistry, Registering
<1>i. \A u \in Task : u # t => Registering(u)' /\ Entering(u)'
  BY <1>0, <1>t DEF ITypes, Registering, Entering, Building, Listing
<1>4. IRegistering'
  <2>1. Registering(t)'
    BY <1>0, <1>s, <1>m, <1>t DEF ITypes, Registering, IRegistry, Building, Listing
  <2> QED
    BY <2>1, <1>i DEF IRegistering
<1>5. IMembers'
  BY <1>0, <1>s, <1>m, <1>t DEF ITypes, IMembers, Entering, Settled, Nowhere, OnlyAt
<1>b. IBeyond'
  BY <1>0, <1>s, <1>m, <1>t DEF ITypes, IBeyond, Beyond, Entering
<1>6. IListing'
  <2>1. Entering(t)'
    BY <1>0, <1>s, <1>m, <1>t DEF ITypes, IMembers, Entering, Settled, Nowhere, OnlyAt, Building, Listing
  <2> QED
    BY <2>1, <1>i DEF IListing
<1> QED
  BY <1>1, <1>2, <1>3, <1>4, <1>5, <1>b, <1>6 DEF IInv

LEMMA BumpNumberKeeps ==
  ASSUME IInv, NEW t \in Task, BumpNumber(t)
  PROVE  IInv'
<1> USE RegistryAssumption DEF BumpNumber, Goto, registry, lists, attrs
<1>0. ITypes /\ IMutex /\ IRegistry /\ IRegistering /\ IMembers /\ IBeyond /\ IListing
  BY DEF IInv
<1>t. \A u \in Task : u # t => pc[u] = "idle"
  BY <1>0, TheOthersAreIdle
<1>m. /\ me[t] \in Local
      /\ me[t].ono \in Nat /\ me[t].at \in Nat /\ me[t].block \in Block
      /\ me[t].obj \in Obj \cup {None}
  <2>1. me[t] \in Local
    BY <1>0 DEF ITypes
  <2> QED
    BY <2>1 DEF Local
<1>s. Registering(t) /\ Entering(t)
  BY <1>0 DEF IRegistering, IListing
<1>1. ITypes'
  BY <1>0, <1>m DEF ITypes, Label, Building, Listing, Local, Task
<1>2. IMutex'
  BY <1>0, <1>t DEF ITypes, IMutex
<1>3. IRegistry'
  BY <1>0, <1>s, <1>m, <1>t DEF ITypes, IRegistry, Registering
<1>i. \A u \in Task : u # t => Registering(u)' /\ Entering(u)'
  BY <1>0, <1>t DEF ITypes, Registering, Entering, Building, Listing
<1>4. IRegistering'
  <2>1. Registering(t)'
    BY <1>0, <1>s, <1>m, <1>t DEF ITypes, Registering, IRegistry, Building, Listing
  <2> QED
    BY <2>1, <1>i DEF IRegistering
<1>5. IMembers'
  BY <1>0, <1>s, <1>m, <1>t DEF ITypes, IMembers, Entering, Settled, Nowhere, OnlyAt
<1>b. IBeyond'
  BY <1>0, <1>s, <1>m, <1>t DEF ITypes, IBeyond, Beyond, Entering
<1>6. IListing'
  <2>1. Entering(t)'
    BY <1>0, <1>s, <1>m, <1>t DEF ITypes, IMembers, Entering, Settled, Nowhere, OnlyAt, Building, Listing
  <2> QED
    BY <2>1, <1>i DEF IListing
<1> QED
  BY <1>1, <1>2, <1>3, <1>4, <1>5, <1>b, <1>6 DEF IInv

LEMMA RefuseKeeps ==
  ASSUME IInv, NEW t \in Task, Refuse(t)
  PROVE  IInv'
<1> USE RegistryAssumption DEF Refuse, Leave, Fresh, Goto, registry, lists, attrs
<1>0. ITypes /\ IMutex /\ IRegistry /\ IRegistering /\ IMembers /\ IBeyond /\ IListing
  BY DEF IInv
<1>t. \A u \in Task : u # t => pc[u] = "idle"
  BY <1>0, TheOthersAreIdle
<1>m. /\ me[t] \in Local
      /\ me[t].ono \in Nat /\ me[t].at \in Nat /\ me[t].block \in Block
      /\ me[t].obj \in Obj \cup {None}
  <2>1. me[t] \in Local
    BY <1>0 DEF ITypes
  <2> QED
    BY <2>1 DEF Local
<1>s. Registering(t) /\ Entering(t)
  BY <1>0 DEF IRegistering, IListing
<1>1. ITypes'
  BY <1>0, <1>m DEF ITypes, Label, Building, Listing, Local, Task, Block
<1>2. IMutex'
  BY <1>0, <1>t DEF ITypes, IMutex
<1>3. IRegistry'
  BY <1>0, <1>s, <1>m, <1>t DEF ITypes, IRegistry, Registering
<1>i. \A u \in Task : u # t => Registering(u)' /\ Entering(u)'
  BY <1>0, <1>t DEF ITypes, Registering, Entering, Building, Listing
<1>4. IRegistering'
  <2>1. Registering(t)'
    BY <1>0, <1>s, <1>m, <1>t DEF ITypes, Registering, IRegistry, Building, Listing
  <2> QED
    BY <2>1, <1>i DEF IRegistering
<1>5. IMembers'
  BY <1>0, <1>s, <1>m, <1>t DEF ITypes, IMembers, Entering, Settled, Nowhere, OnlyAt
<1>b. IBeyond'
  BY <1>0, <1>s, <1>m, <1>t DEF ITypes, IBeyond, Beyond, Entering
<1>6. IListing'
  <2>1. Entering(t)'
    BY <1>0, <1>s, <1>m, <1>t DEF ITypes, IMembers, Entering, Settled, Nowhere, OnlyAt, Building, Listing
  <2> QED
    BY <2>1, <1>i DEF IListing
<1> QED
  BY <1>1, <1>2, <1>3, <1>4, <1>5, <1>b, <1>6 DEF IInv

LEMMA AllocateKeeps ==
  ASSUME IInv, NEW t \in Task, Allocate(t)
  PROVE  IInv'
<1> USE RegistryAssumption DEF HasNoSlot, Goto, registry, lists, attrs
<1>0. ITypes /\ IMutex /\ IRegistry /\ IRegistering /\ IMembers /\ IBeyond /\ IListing
  BY DEF IInv
<1>t. \A u \in Task : u # t => pc[u] = "idle"
  BY <1>0, TheOthersAreIdle DEF Allocate
<1>o. PICK o \in Obj \ used :
        /\ \A p \in Obj \ used : o <= p
        /\ used' = used \cup {o}
        /\ ono' = [ono EXCEPT ![o] = me[t].ono]
        /\ kind' = [kind EXCEPT ![o] = me[t].kind]
        /\ me' = [me EXCEPT ![t].obj = o, ![t].at = object_count]
  BY DEF Allocate
<1>a. /\ pc[t] = "new" /\ pc' = [pc EXCEPT ![t] = "store"]
      /\ object_count < MaxObjects
      /\ UNCHANGED <<lock, registry, lists, owner, ready, walk, returned>>
  BY <1>0 DEF Allocate, ITypes
<1>m. /\ me[t] \in Local
      /\ me[t].ono \in Nat /\ me[t].at \in Nat /\ me[t].block \in Block
      /\ me[t].obj \in Obj \cup {None}
  <2>1. me[t] \in Local
    BY <1>0 DEF ITypes
  <2> QED
    BY <2>1 DEF Local
<1>s. Registering(t) /\ Entering(t)
  BY <1>0 DEF IRegistering, IListing
<1>1. ITypes'
  BY <1>0, <1>m, <1>o, <1>a DEF ITypes, Label, Building, Listing, Local, Task
<1>2. IMutex'
  BY <1>0, <1>t, <1>m, <1>o, <1>a DEF ITypes, IMutex
<1>3. IRegistry'
  BY <1>0, <1>s, <1>m, <1>t, <1>o, <1>a DEF ITypes, IRegistry, Registering
<1>i. \A u \in Task : u # t => Registering(u)' /\ Entering(u)'
  BY <1>0, <1>t, <1>m, <1>o, <1>a DEF ITypes, Registering, Entering, Building, Listing
<1>4. IRegistering'
  <2>1. Registering(t)'
    BY <1>0, <1>s, <1>m, <1>t, <1>o, <1>a DEF ITypes, Registering, IRegistry, Index, Obj, None, Building, Listing
  <2> QED
    BY <2>1, <1>i DEF IRegistering
<1>5. IMembers'
  BY <1>0, <1>s, <1>m, <1>t, <1>o, <1>a DEF ITypes, Obj, IMembers, Entering, Settled, Nowhere, OnlyAt
<1>b. IBeyond'
  BY <1>0, <1>s, <1>m, <1>t, <1>o, <1>a DEF ITypes, Place, Obj, None, IBeyond, Beyond, Entering
<1>6. IListing'
  <2>1. Entering(t)'
    BY <1>0, <1>s, <1>m, <1>t, <1>o, <1>a DEF ITypes, Place, Obj, None, IMembers, Entering, Settled, Nowhere, OnlyAt, Building, Listing
  <2> QED
    BY <2>1, <1>i DEF IListing
<1> QED
  BY <1>1, <1>2, <1>3, <1>4, <1>5, <1>b, <1>6 DEF IInv

LEMMA RegisterKeeps ==
  ASSUME IInv, NEW t \in Task, Register(t)
  PROVE  IInv'
<1> DEFINE o == me[t].obj
           a == me[t].at
<1>0. ITypes /\ IMutex /\ IRegistry /\ IRegistering /\ IMembers /\ IBeyond /\ IListing
  BY DEF IInv
<1>t. \A u \in Task : u # t => pc[u] = "idle"
  BY <1>0, TheOthersAreIdle DEF Register, StoreObject, CountObject
<1>m. /\ me[t] \in Local
      /\ me[t].ono \in Nat /\ a \in Nat /\ me[t].block \in Block /\ o \in Obj \cup {None}
  <2>1. me[t] \in Local
    BY <1>0 DEF ITypes
  <2> QED
    BY <2>1 DEF Local
<1>s. Registering(t) /\ Entering(t)
  BY <1>0 DEF IRegistering, IListing
<1>u. /\ UNCHANGED <<lock, next_ono, children, child_count, child_cap, moved, ono, kind, owner,
                     ready, me, walk, used, returned>>
      /\ pc[t] \in {"store", "count", "late"}
      /\ pc' = [pc EXCEPT ![t] = pc'[t]] /\ pc'[t] \in {"count", "late", "member"}
  BY <1>0 DEF ITypes, Register, StoreObject, CountObject, Goto, lists, attrs
<1>2. IMutex'
  BY <1>0, <1>t, <1>u DEF ITypes, IMutex
<1>i. \A u \in Task : u # t => Registering(u)' /\ Entering(u)'
  BY <1>0, <1>t, <1>u DEF ITypes, Registering, Entering, Building, Listing
<1>o. o \in used \ returned /\ o \in Obj /\ o # None
  <2>1. o \in used \ returned
    BY <1>s, <1>u DEF Registering, Building
  <2>2. o \in Obj
    BY <2>1, <1>0 DEF ITypes
  <2>3. None \notin Obj
    BY RegistryAssumption DEF Obj, None
  <2> QED
    BY <2>1, <2>2, <2>3
<1>5. IMembers' /\ IBeyond' /\ IListing'
  <2>1. IMembers'
    BY <1>0, <1>u DEF IMembers, Settled, Nowhere, OnlyAt
  <2>2. IBeyond'
    BY <1>0, <1>u, <1>t DEF IBeyond, Beyond
  <2>3. Entering(t)'
    BY <1>s, <1>u, <1>0 DEF ITypes, Entering, Settled, Nowhere, OnlyAt, Building, Listing
  <2> QED
    BY <2>1, <2>2, <2>3, <1>i DEF IListing
<1>n. \A i \in Index : i \in Nat /\ i < MaxObjects
  BY RegistryAssumption DEF Index
<1>p. object_count \in Nat /\ object_count <= MaxObjects /\ MaxObjects \in Nat
  BY <1>0, RegistryAssumption DEF ITypes
(* Before either store: the object is new to the table, its place is the   *)
(* first one beyond the count.                                             *)
<1>3. CASE StoreObject(t, "store", "count")
  <2>1. /\ pc[t] = "store" /\ pc'[t] = "count" /\ object_count' = object_count
        /\ objects' = [objects EXCEPT ![a] = o]
    BY <1>3, <1>0 DEF StoreObject, Goto, ITypes
  <2>2. /\ a = object_count /\ a \in Index /\ ono[o] = me[t].ono /\ me[t].ono < next_ono
        /\ \A i \in Index : objects[i] # o
        /\ \A i \in Index : objects[i] # None => ono[objects[i]] < ono[o]
    BY <1>s, <2>1, <1>p DEF Registering, Index
  <2>3. objects' \in [Index -> Obj \cup {None}] /\ objects'[a] = o
        /\ \A i \in Index : i # a => objects'[i] = objects[i]
    BY <2>1, <2>2, <1>0, <1>o DEF ITypes
  <2>4. ITypes'
    BY <1>0, <1>u, <2>1, <2>3 DEF ITypes, Label, Building, Listing
  <2>5. \A i \in Index : objects'[i] # None => objects'[i] \in used /\ ono[objects'[i]] < next_ono
    BY <1>0, <2>2, <2>3, <1>o DEF IRegistry
  <2>6. \A i, j \in Index : i # j /\ objects'[i] # None /\ objects'[j] # None =>
          objects'[i] # objects'[j] /\ ono[objects'[i]] # ono[objects'[j]]
    <3> SUFFICES ASSUME NEW i \in Index, NEW j \in Index,
                        i # j, objects'[i] # None, objects'[j] # None
                 PROVE  objects'[i] # objects'[j] /\ ono[objects'[i]] # ono[objects'[j]]
      OBVIOUS
    <3>0. \A x \in Obj : ono[x] \in Nat
      BY <1>0 DEF ITypes
    <3>1. CASE i = a
      BY <3>1, <3>0, <2>2, <2>3, <1>0, <1>o DEF ITypes
    <3>2. CASE j = a
      BY <3>2, <3>0, <2>2, <2>3, <1>0, <1>o DEF ITypes
    <3>3. CASE i # a /\ j # a
      BY <3>3, <2>3, <1>0 DEF IRegistry
    <3> QED
      BY <3>1, <3>2, <3>3
  <2>7. \A i \in Index : i >= object_count /\ objects'[i] # None => i = a
    <3>1. \A i \in Index : i >= object_count /\ objects[i] # None => FALSE
      BY <1>0, <1>t, <2>1 DEF IRegistry
    <3> QED
      BY <3>1, <2>3
  <2>8. \A x \in returned : \E i \in Index : i < object_count /\ objects'[i] = x
    BY <1>0, <2>2, <2>3, <1>n, <1>p DEF IRegistry
  <2>9. IRegistry'
    BY <2>5, <2>6, <2>7, <2>8, <1>u, <2>1 DEF IRegistry
  <2>10. Registering(t)'
    BY <1>u, <1>o, <1>p, <1>s, <2>1, <2>2, <2>3 DEF Registering, Building, Listing
  <2> QED
    BY <1>2, <1>i, <1>5, <2>4, <2>9, <2>10 DEF IInv, IRegistering
<1>4. CASE CountObject(t, "count", "member")
  <2>1. /\ pc[t] = "count" /\ pc'[t] = "member" /\ object_count' = a + 1 /\ objects' = objects
    BY <1>4, <1>0 DEF CountObject, Goto, ITypes
  <2>2. a = object_count /\ object_count < MaxObjects /\ a \in Index /\ objects[a] = o
    BY <1>s, <2>1, <1>p DEF Registering, Index
  <2>3. ITypes'
    BY <1>0, <1>u, <1>p, <2>1, <2>2 DEF ITypes, Label, Building, Listing
  <2>4. \A i \in Index : objects[i] # None => i <= a
    BY <1>0, <1>t, <1>n, <1>p, <2>1, <2>2 DEF IRegistry
  <2>5. IRegistry'
    BY <1>0, <1>u, <1>n, <1>p, <2>1, <2>2, <2>4 DEF IRegistry
  <2>6. Registering(t)'
    BY <1>u, <1>o, <1>p, <2>1, <2>2 DEF Registering, Building, Listing
  <2> QED
    BY <1>2, <1>i, <1>5, <2>3, <2>5, <2>6 DEF IInv, IRegistering
<1>6. CASE CountObject(t, "store", "late")
  <2>1. /\ pc[t] = "store" /\ pc'[t] = "late" /\ object_count' = a + 1 /\ objects' = objects
    BY <1>6, <1>0 DEF CountObject, Goto, ITypes
  <2>2. a = object_count /\ object_count < MaxObjects /\ a \in Index
    BY <1>s, <2>1, <1>p DEF Registering, Index
  <2>3. ITypes'
    BY <1>0, <1>u, <1>p, <2>1, <2>2 DEF ITypes, Label, Building, Listing
  <2>4. \A i \in Index : objects[i] # None => i < a
    BY <1>0, <1>t, <1>n, <1>p, <2>1, <2>2 DEF IRegistry
  <2>5. IRegistry'
    BY <1>0, <1>u, <1>n, <1>p, <2>1, <2>2, <2>4 DEF IRegistry
  <2>6. Registering(t)'
    BY <1>u, <1>o, <1>p, <1>s, <1>n, <2>1, <2>2, <2>4 DEF Registering, Building, Listing
  <2> QED
    BY <1>2, <1>i, <1>5, <2>3, <2>5, <2>6 DEF IInv, IRegistering
<1>7. CASE StoreObject(t, "late", "member")
  <2>1. /\ pc[t] = "late" /\ pc'[t] = "member" /\ object_count' = object_count
        /\ objects' = [objects EXCEPT ![a] = o]
    BY <1>7, <1>0 DEF StoreObject, Goto, ITypes
  <2>2. /\ object_count = a + 1 /\ a \in Index /\ ono[o] = me[t].ono /\ me[t].ono < next_ono
        /\ objects[a] = None /\ \A i \in Index : objects[i] # o
        /\ \A i \in Index : objects[i] # None => ono[objects[i]] < ono[o]
    BY <1>s, <1>m, <2>1, <1>p DEF Registering, Index
  <2>3. objects' \in [Index -> Obj \cup {None}] /\ objects'[a] = o
        /\ \A i \in Index : i # a => objects'[i] = objects[i]
    BY <2>1, <2>2, <1>0, <1>o DEF ITypes
  <2>4. ITypes'
    BY <1>0, <1>u, <2>1, <2>3 DEF ITypes, Label, Building, Listing
  <2>5. \A i \in Index : objects'[i] # None => objects'[i] \in used /\ ono[objects'[i]] < next_ono
    BY <1>0, <2>2, <2>3, <1>o DEF IRegistry
  <2>6. \A i, j \in Index : i # j /\ objects'[i] # None /\ objects'[j] # None =>
          objects'[i] # objects'[j] /\ ono[objects'[i]] # ono[objects'[j]]
    <3> SUFFICES ASSUME NEW i \in Index, NEW j \in Index,
                        i # j, objects'[i] # None, objects'[j] # None
                 PROVE  objects'[i] # objects'[j] /\ ono[objects'[i]] # ono[objects'[j]]
      OBVIOUS
    <3>0. \A x \in Obj : ono[x] \in Nat
      BY <1>0 DEF ITypes
    <3>1. CASE i = a
      BY <3>1, <3>0, <2>2, <2>3, <1>0, <1>o DEF ITypes
    <3>2. CASE j = a
      BY <3>2, <3>0, <2>2, <2>3, <1>0, <1>o DEF ITypes
    <3>3. CASE i # a /\ j # a
      BY <3>3, <2>3, <1>0 DEF IRegistry
    <3> QED
      BY <3>1, <3>2, <3>3
  <2>7. \A i \in Index : i >= object_count => objects'[i] = None
    <3>1. \A i \in Index : i >= object_count /\ objects[i] # None => FALSE
      BY <1>0, <1>t, <2>1 DEF IRegistry
    <3> QED
      BY <3>1, <2>2, <2>3, <1>n, <1>m
  <2>8. \A x \in returned : \E i \in Index : i < object_count /\ objects'[i] = x
    <3> SUFFICES ASSUME NEW x \in returned
                 PROVE  \E i \in Index : i < object_count /\ objects'[i] = x
      OBVIOUS
    <3>1. PICK i \in Index : i < object_count /\ objects[i] = x
      BY <1>0 DEF IRegistry
    <3>2. i # a
      BY <3>1, <2>2, <1>0 DEF ITypes, Obj, None
    <3> QED
      BY <3>1, <3>2, <2>3
  <2>9. IRegistry'
    BY <2>5, <2>6, <2>7, <2>8, <1>u, <2>1 DEF IRegistry
  <2>10. Registering(t)'
    BY <1>u, <1>o, <1>p, <1>m, <2>1, <2>2, <2>3 DEF Registering, Building, Listing
  <2> QED
    BY <1>2, <1>i, <1>5, <2>4, <2>9, <2>10 DEF IInv, IRegistering
<1> QED
  BY <1>3, <1>4, <1>6, <1>7 DEF Register

LEMMA GrowKeeps ==
  ASSUME IInv, NEW t \in Task, Grow(t)
  PROVE  IInv'
<1> USE RegistryAssumption DEF Grow, Goto, registry, lists, attrs
<1>0. ITypes /\ IMutex /\ IRegistry /\ IRegistering /\ IMembers /\ IBeyond /\ IListing
  BY DEF IInv
<1>t. \A u \in Task : u # t => pc[u] = "idle"
  BY <1>0, TheOthersAreIdle
<1>m. /\ me[t] \in Local
      /\ me[t].ono \in Nat /\ me[t].at \in Nat /\ me[t].block \in Block
      /\ me[t].obj \in Obj \cup {None}
  <2>1. me[t] \in Local
    BY <1>0 DEF ITypes
  <2> QED
    BY <2>1 DEF Local
<1>s. Registering(t) /\ Entering(t)
  BY <1>0 DEF IRegistering, IListing
<1>1. ITypes'
  BY <1>0, <1>m DEF ITypes, Label, Building, Listing, Local, Task
<1>2. IMutex'
  BY <1>0, <1>t DEF ITypes, IMutex
<1>3. IRegistry'
  BY <1>0, <1>s, <1>m, <1>t DEF ITypes, IRegistry, Registering
<1>i. \A u \in Task : u # t => Registering(u)' /\ Entering(u)'
  BY <1>0, <1>t DEF ITypes, Registering, Entering, Building, Listing
<1>4. IRegistering'
  <2>1. Registering(t)'
    BY <1>0, <1>s, <1>m, <1>t DEF ITypes, Registering, IRegistry, Building, Listing
  <2> QED
    BY <2>1, <1>i DEF IRegistering
<1>5. IMembers'
  BY <1>0, <1>s, <1>m, <1>t DEF ITypes, IMembers, Entering, Settled, Nowhere, OnlyAt
<1>b. IBeyond'
  BY <1>0, <1>s, <1>m, <1>t DEF ITypes, IBeyond, Beyond, Entering
<1>6. IListing'
  <2>1. Entering(t)'
    BY <1>0, <1>s, <1>m, <1>t DEF ITypes, IMembers, Entering, Settled, Nowhere, OnlyAt, Building, Listing
  <2> QED
    BY <2>1, <1>i DEF IListing
<1> QED
  BY <1>1, <1>2, <1>3, <1>4, <1>5, <1>b, <1>6 DEF IInv

LEMMA GrowFailsKeeps ==
  ASSUME IInv, NEW t \in Task, GrowFails(t)
  PROVE  IInv'
<1> USE RegistryAssumption DEF GrowFails, Goto, registry, lists, attrs
<1>0. ITypes /\ IMutex /\ IRegistry /\ IRegistering /\ IMembers /\ IBeyond /\ IListing
  BY DEF IInv
<1>t. \A u \in Task : u # t => pc[u] = "idle"
  BY <1>0, TheOthersAreIdle
<1>m. /\ me[t] \in Local
      /\ me[t].ono \in Nat /\ me[t].at \in Nat /\ me[t].block \in Block
      /\ me[t].obj \in Obj \cup {None}
  <2>1. me[t] \in Local
    BY <1>0 DEF ITypes
  <2> QED
    BY <2>1 DEF Local
<1>s. Registering(t) /\ Entering(t)
  BY <1>0 DEF IRegistering, IListing
<1>1. ITypes'
  BY <1>0, <1>m DEF ITypes, Label, Building, Listing, Local, Task
<1>2. IMutex'
  BY <1>0, <1>t DEF ITypes, IMutex
<1>3. IRegistry'
  BY <1>0, <1>s, <1>m, <1>t DEF ITypes, IRegistry, Registering
<1>i. \A u \in Task : u # t => Registering(u)' /\ Entering(u)'
  BY <1>0, <1>t DEF ITypes, Registering, Entering, Building, Listing
<1>4. IRegistering'
  <2>1. Registering(t)'
    BY <1>0, <1>s, <1>m, <1>t DEF ITypes, Registering, IRegistry, Building, Listing
  <2> QED
    BY <2>1, <1>i DEF IRegistering
<1>5. IMembers'
  BY <1>0, <1>s, <1>m, <1>t DEF ITypes, IMembers, Entering, Settled, Nowhere, OnlyAt
<1>b. IBeyond'
  BY <1>0, <1>s, <1>m, <1>t DEF ITypes, IBeyond, Beyond, Entering
<1>6. IListing'
  <2>1. Entering(t)'
    BY <1>0, <1>s, <1>m, <1>t DEF ITypes, IMembers, Entering, Settled, Nowhere, OnlyAt, Building, Listing
  <2> QED
    BY <2>1, <1>i DEF IListing
<1> QED
  BY <1>1, <1>2, <1>3, <1>4, <1>5, <1>b, <1>6 DEF IInv

LEMMA UpdateListKeeps ==
  ASSUME IInv, NEW t \in Task, UpdateList(t)
  PROVE  IInv'
<1> USE RegistryAssumption DEF UpdateList, GrownTo, Goto, registry, lists, attrs
<1>0. ITypes /\ IMutex /\ IRegistry /\ IRegistering /\ IMembers /\ IBeyond /\ IListing
  BY DEF IInv
<1>t. \A u \in Task : u # t => pc[u] = "idle"
  BY <1>0, TheOthersAreIdle
<1>m. /\ me[t] \in Local
      /\ me[t].ono \in Nat /\ me[t].at \in Nat /\ me[t].block \in Block
      /\ me[t].obj \in Obj \cup {None}
  <2>1. me[t] \in Local
    BY <1>0 DEF ITypes
  <2> QED
    BY <2>1 DEF Local
<1>s. Registering(t) /\ Entering(t)
  BY <1>0 DEF IRegistering, IListing
<1>1. ITypes'
  BY <1>0, <1>m DEF ITypes, Label, Building, Listing, Local, Task
<1>2. IMutex'
  BY <1>0, <1>t DEF ITypes, IMutex
<1>3. IRegistry'
  BY <1>0, <1>s, <1>m, <1>t DEF ITypes, IRegistry, Registering
<1>i. \A u \in Task : u # t => Registering(u)' /\ Entering(u)'
  BY <1>0, <1>t DEF ITypes, Registering, Entering, Building, Listing
<1>4. IRegistering'
  <2>1. Registering(t)'
    BY <1>0, <1>s, <1>m, <1>t DEF ITypes, Registering, IRegistry, Building, Listing
  <2> QED
    BY <2>1, <1>i DEF IRegistering
<1>5. IMembers'
  BY <1>0, <1>s, <1>m, <1>t DEF ITypes, IMembers, Entering, Settled, Nowhere, OnlyAt
<1>b. IBeyond'
  BY <1>0, <1>s, <1>m, <1>t DEF ITypes, IBeyond, Beyond, Entering
<1>6. IListing'
  <2>1. Entering(t)'
    BY <1>0, <1>s, <1>m, <1>t DEF ITypes, IMembers, Entering, Settled, Nowhere, OnlyAt, Building, Listing
  <2> QED
    BY <2>1, <1>i DEF IListing
<1> QED
  BY <1>1, <1>2, <1>3, <1>4, <1>5, <1>b, <1>6 DEF IInv

LEMMA ReadPlaceKeeps ==
  ASSUME IInv, NEW t \in Task, ReadPlace(t)
  PROVE  IInv'
<1> USE RegistryAssumption DEF ReadPlace, HasRoom, Goto, registry, lists, attrs
<1>0. ITypes /\ IMutex /\ IRegistry /\ IRegistering /\ IMembers /\ IBeyond /\ IListing
  BY DEF IInv
<1>t. \A u \in Task : u # t => pc[u] = "idle"
  BY <1>0, TheOthersAreIdle
<1>m. /\ me[t] \in Local
      /\ me[t].ono \in Nat /\ me[t].at \in Nat /\ me[t].block \in Block
      /\ me[t].obj \in Obj \cup {None}
  <2>1. me[t] \in Local
    BY <1>0 DEF ITypes
  <2> QED
    BY <2>1 DEF Local
<1>s. Registering(t) /\ Entering(t)
  BY <1>0 DEF IRegistering, IListing
<1>1. ITypes'
  BY <1>0, <1>m DEF ITypes, Label, Building, Listing, Local, Task
<1>2. IMutex'
  BY <1>0, <1>t DEF ITypes, IMutex
<1>3. IRegistry'
  BY <1>0, <1>s, <1>m, <1>t DEF ITypes, IRegistry, Registering
<1>i. \A u \in Task : u # t => Registering(u)' /\ Entering(u)'
  BY <1>0, <1>t DEF ITypes, Registering, Entering, Building, Listing
<1>4. IRegistering'
  <2>1. Registering(t)'
    BY <1>0, <1>s, <1>m, <1>t DEF ITypes, Registering, IRegistry, Building, Listing
  <2> QED
    BY <2>1, <1>i DEF IRegistering
<1>5. IMembers'
  BY <1>0, <1>s, <1>m, <1>t DEF ITypes, IMembers, Entering, Settled, Nowhere, OnlyAt
<1>b. IBeyond'
  BY <1>0, <1>s, <1>m, <1>t DEF ITypes, IBeyond, Beyond, Entering
<1>6. IListing'
  <2>1. Entering(t)'
    BY <1>0, <1>s, <1>m, <1>t DEF ITypes, IMembers, Entering, Settled, Nowhere, OnlyAt, Building, Listing
  <2> QED
    BY <2>1, <1>i DEF IListing
<1> QED
  BY <1>1, <1>2, <1>3, <1>4, <1>5, <1>b, <1>6 DEF IInv

LEMMA AddMemberKeeps ==
  ASSUME IInv, NEW t \in Task, AddMember(t)
  PROVE  IInv'
<1> DEFINE o == me[t].obj
           a == me[t].at
           b == me[t].block
<1>0. ITypes /\ IMutex /\ IRegistry /\ IRegistering /\ IMembers /\ IBeyond /\ IListing
  BY DEF IInv
<1>t. \A u \in Task : u # t => pc[u] = "idle"
  BY <1>0, TheOthersAreIdle DEF AddMember, StoreMember, CountMember
<1>m. a \in Nat /\ b \in Block /\ o \in Obj \cup {None}
  <2>1. me[t] \in Local
    BY <1>0 DEF ITypes
  <2> QED
    BY <2>1 DEF Local
<1>s. Registering(t) /\ Entering(t)
  BY <1>0 DEF IRegistering, IListing
<1>u. /\ UNCHANGED <<lock, next_ono, objects, object_count, child_cap, moved, ono, kind, ready,
                     me, walk, used, returned>>
      /\ pc[t] \in {"mstore", "mcount", "mlate"}
      /\ pc' = [pc EXCEPT ![t] = pc'[t]] /\ pc'[t] \in {"mcount", "mlate", "finish"}
  BY <1>0 DEF ITypes, AddMember, StoreMember, CountMember, Goto, registry
<1>2. IMutex'
  BY <1>0, <1>t, <1>u DEF ITypes, IMutex
<1>i. \A u \in Task : u # t => Registering(u)' /\ Entering(u)'
  BY <1>0, <1>t, <1>u DEF ITypes, Registering, Entering, Building, Listing
<1>o. o \in used \ returned /\ o \in Obj /\ o # None /\ o \in Nat /\ o <= MaxCreated
  BY <1>s, <1>u, <1>0, RegistryAssumption DEF Registering, Building, Listing, Obj, None, ITypes
<1>3. IRegistry' /\ IRegistering'
  <2>1. IRegistry'
    BY <1>0, <1>u, <1>t DEF IRegistry
  <2>2. Registering(t)'
    BY <1>s, <1>u, <1>0 DEF ITypes, Registering, Building, Listing
  <2> QED
    BY <2>1, <2>2, <1>i DEF IRegistering
<1>n. \A i \in Place : i \in Nat /\ i < MaxCreated
  BY RegistryAssumption DEF Place
<1>c. \A x \in Block : child_count[x] \in Nat /\ child_cap[x] \in Nat
  BY <1>0 DEF ITypes
<1>p. \A p \in Obj \ used : p \in Nat /\ o < p
  BY <1>s, <1>u, RegistryAssumption DEF Entering, Building, Listing, Obj
<1>d. \A x \in returned : x # o
  BY <1>o
<1>4. CASE StoreMember(t, "mstore", "mcount")
  <2>1. /\ pc[t] = "mstore" /\ pc'[t] = "mcount"
        /\ children' = [children EXCEPT ![b][a] = o]
        /\ child_count' = child_count /\ owner' = owner
    BY <1>4, <1>0 DEF StoreMember, Goto, ITypes, Owned
  <2>2. /\ a = child_count[b] /\ a < child_cap[b] /\ a < o /\ a \in Place
        /\ Nowhere(o) /\ owner[o] = None
    BY <1>s, <1>o, <1>m, <2>1, RegistryAssumption DEF Entering, Building, Listing, Place
  <2>3. /\ children' \in [Block -> [Place -> Obj \cup {None}]]
        /\ children'[b][a] = o
        /\ \A x \in Block : \A i \in Place : x # b \/ i # a => children'[x][i] = children[x][i]
    BY <2>1, <2>2, <1>0, <1>m, <1>o DEF ITypes
  <2>4. ITypes'
    BY <1>0, <1>u, <2>1, <2>3 DEF ITypes, Label, Building, Listing
  <2>5. children[b][a] = None
    BY <1>0, <1>t, <1>c, <1>m, <2>1, <2>2 DEF IBeyond, Beyond
  <2>6. \A x \in Obj : x # o /\ Nowhere(x) => Nowhere(x)'
    BY <2>3 DEF Nowhere
  <2>7. \A x \in Obj : x # o /\ Settled(x) => Settled(x)'
    <3> SUFFICES ASSUME NEW x \in Obj, x # o, Settled(x) PROVE Settled(x)'
      OBVIOUS
    <3>1. CASE owner[x] = None /\ Nowhere(x)
      BY <3>1, <2>6, <2>1 DEF Settled
    <3>2. ASSUME owner[x] \in Block,
                 NEW p \in Place, p < child_count[owner[x]], OnlyAt(x, owner[x], p)
          PROVE  Settled(x)'
      <4>1. x # None
        BY RegistryAssumption DEF Obj, None
      <4>2. owner[x] # b \/ p # a
        BY <3>2, <4>1, <2>5 DEF OnlyAt
      <4>3. OnlyAt(x, owner[x], p)'
        BY <3>2, <4>2, <2>1, <2>3 DEF OnlyAt
      <4> QED
        BY <3>2, <4>3, <2>1 DEF Settled
    <3> QED
      BY <3>1, <3>2 DEF Settled
  <2>8. IMembers'
    BY <1>0, <1>u, <1>o, <1>d, <2>1, <2>6, <2>7 DEF IMembers, ITypes
  <2>9. IBeyond'
    BY <1>0, <1>t, <1>u, <1>m, <2>1, <2>3 DEF IBeyond, Beyond
  <2>10. OnlyAt(o, b, a)'
    BY <2>2, <2>3, <1>u DEF OnlyAt, Nowhere
  <2>11. Entering(t)'
    BY <1>u, <1>s, <2>1, <2>2, <2>10 DEF Entering, Building, Listing
  <2> QED
    BY <1>2, <1>3, <1>i, <2>4, <2>8, <2>9, <2>11 DEF IInv, IListing
<1>5. CASE CountMember(t, "mcount", "finish")
  <2>1. /\ pc[t] = "mcount" /\ pc'[t] = "finish" /\ children' = children
        /\ child_count' = [child_count EXCEPT ![b] = a + 1]
        /\ owner' = [owner EXCEPT ![o] = b]
    BY <1>5, <1>0 DEF CountMember, Goto, ITypes, Owned
  <2>2. /\ a = child_count[b] /\ a < child_cap[b] /\ a < o /\ a \in Place
        /\ OnlyAt(o, b, a) /\ owner[o] = None
    BY <1>s, <1>o, <1>m, <2>1, RegistryAssumption DEF Entering, Building, Listing, Place
  <2>3. /\ child_count'[b] = a + 1 /\ \A x \in Block : x # b => child_count'[x] = child_count[x]
        /\ \A x \in Block : child_count[x] <= child_count'[x] /\ child_count'[x] \in Nat
        /\ child_count' \in [Block -> Nat]
        /\ owner' \in [Obj -> Block \cup {None}]
        /\ owner'[o] = b /\ \A x \in Obj : x # o => owner'[x] = owner[x]
    BY <2>1, <2>2, <1>0, <1>m, <1>o, <1>c DEF ITypes
  <2>4. ITypes'
    BY <1>0, <1>u, <2>1, <2>3 DEF ITypes, Label, Building, Listing
  <2>5. \A x \in Obj : x # o /\ Settled(x) => Settled(x)'
    <3> SUFFICES ASSUME NEW x \in Obj, x # o, Settled(x) PROVE Settled(x)'
      OBVIOUS
    <3>1. CASE owner[x] = None /\ Nowhere(x)
      BY <3>1, <2>1, <2>3 DEF Settled, Nowhere
    <3>2. ASSUME owner[x] \in Block,
                 NEW p \in Place, p < child_count[owner[x]], OnlyAt(x, owner[x], p)
          PROVE  Settled(x)'
      <4>1. OnlyAt(x, owner[x], p)' /\ owner'[x] = owner[x]
        BY <3>2, <2>1, <2>3 DEF OnlyAt
      <4>2. p < child_count'[owner[x]]
        BY <3>2, <2>3, <1>c, <1>n
      <4> QED
        BY <3>2, <4>1, <4>2 DEF Settled
    <3> QED
      BY <3>1, <3>2 DEF Settled
  <2>6. Settled(o)'
    <3>1. OnlyAt(o, b, a)'
      BY <2>1, <2>2, <1>u DEF OnlyAt
    <3>2. owner'[o] = b /\ a < child_count'[b] /\ me' = me
      BY <2>3, <1>m, <1>u
    <3> QED
      BY <3>1, <3>2, <2>2, <1>m DEF Settled
  <2>7. \A x \in Obj : Nowhere(x) => Nowhere(x)'
    BY <2>1 DEF Nowhere
  <2>8. \A x \in Block : child_count'[x] <= child_cap[x] /\ child_count'[x] <= MaxCreated
    BY <1>0, <1>c, <1>o, <2>2, <2>3, RegistryAssumption DEF IMembers
  <2>9. \A x \in Block : \A p \in Obj \ used : child_count'[x] < p
    BY <1>0, <1>c, <1>o, <1>p, <2>2, <2>3 DEF IMembers
  <2>10. IMembers'
    BY <1>0, <1>u, <1>o, <1>d, <2>3, <2>5, <2>7, <2>8, <2>9 DEF IMembers, ITypes
  <2>11. IBeyond'
    <3> SUFFICES ASSUME NEW x \in Block, NEW i \in Place, Beyond(x, i)' PROVE FALSE
      BY DEF IBeyond
    <3>1. i >= child_count[x] /\ children[x][i] # None
      BY <2>1, <2>3, <1>c, <1>n DEF Beyond
    <3>2. x = b /\ i = a
      BY <3>1, <1>0, <1>t DEF IBeyond, Beyond
    <3> QED
      BY <3>2, <2>3, <1>m DEF Beyond
  <2>12. Entering(t)'
    BY <1>u, <1>p, <2>1, <2>6 DEF Entering, Building, Listing
  <2> QED
    BY <1>2, <1>3, <1>i, <2>4, <2>10, <2>11, <2>12 DEF IInv, IListing
<1>6. CASE CountMember(t, "mstore", "mlate")
  <2>1. /\ pc[t] = "mstore" /\ pc'[t] = "mlate" /\ children' = children /\ owner' = owner
        /\ child_count' = [child_count EXCEPT ![b] = a + 1]
    BY <1>6, <1>0 DEF CountMember, Goto, ITypes, Owned
  <2>2. /\ a = child_count[b] /\ a < child_cap[b] /\ a < o /\ a \in Place
        /\ Nowhere(o) /\ owner[o] = None
    BY <1>s, <1>o, <1>m, <2>1, RegistryAssumption DEF Entering, Building, Listing, Place
  <2>3. /\ child_count'[b] = a + 1 /\ \A x \in Block : x # b => child_count'[x] = child_count[x]
        /\ \A x \in Block : child_count[x] <= child_count'[x] /\ child_count'[x] \in Nat
        /\ child_count' \in [Block -> Nat]
    BY <2>1, <2>2, <1>0, <1>m, <1>c DEF ITypes
  <2>4. ITypes'
    BY <1>0, <1>u, <2>1, <2>3 DEF ITypes, Label, Building, Listing
  <2>5. \A x \in Obj : Settled(x) => Settled(x)'
    <3> SUFFICES ASSUME NEW x \in Obj, Settled(x) PROVE Settled(x)'
      OBVIOUS
    <3>1. CASE owner[x] = None /\ Nowhere(x)
      BY <3>1, <2>1 DEF Settled, Nowhere
    <3>2. ASSUME owner[x] \in Block,
                 NEW p \in Place, p < child_count[owner[x]], OnlyAt(x, owner[x], p)
          PROVE  Settled(x)'
      <4>1. OnlyAt(x, owner[x], p)'
        BY <3>2, <2>1 DEF OnlyAt
      <4>2. p < child_count'[owner[x]]
        BY <3>2, <2>3, <1>c, <1>n
      <4> QED
        BY <3>2, <4>1, <4>2, <2>1 DEF Settled
    <3> QED
      BY <3>1, <3>2 DEF Settled
  <2>6. \A x \in Obj : Nowhere(x) => Nowhere(x)'
    BY <2>1 DEF Nowhere
  <2>7. \A x \in Block : child_count'[x] <= child_cap[x] /\ child_count'[x] <= MaxCreated
    BY <1>0, <1>c, <1>o, <2>2, <2>3, RegistryAssumption DEF IMembers
  <2>8. \A x \in Block : \A p \in Obj \ used : child_count'[x] < p
    BY <1>0, <1>c, <1>o, <1>p, <2>2, <2>3 DEF IMembers
  <2>9. IMembers'
    BY <1>0, <1>u, <2>1, <2>5, <2>6, <2>7, <2>8 DEF IMembers, ITypes
  <2>10. IBeyond'
    <3> SUFFICES ASSUME NEW x \in Block, NEW i \in Place, Beyond(x, i)' PROVE FALSE
      BY DEF IBeyond
    <3>1. i >= child_count[x] /\ children[x][i] # None
      BY <2>1, <2>3, <1>c, <1>n DEF Beyond
    <3> QED
      BY <3>1, <1>0, <1>t, <2>1 DEF IBeyond, Beyond
  <2>a. children[b][a] = None
    BY <1>0, <1>t, <1>c, <1>m, <2>1, <2>2 DEF IBeyond, Beyond
  <2>11. Entering(t)'
    BY <1>u, <1>p, <2>1, <2>2, <2>3, <2>6, <2>a, <1>o DEF Entering, Building, Listing
  <2> QED
    BY <1>2, <1>3, <1>i, <2>4, <2>9, <2>10, <2>11 DEF IInv, IListing
<1>7. CASE StoreMember(t, "mlate", "finish")
  <2>1. /\ pc[t] = "mlate" /\ pc'[t] = "finish" /\ child_count' = child_count
        /\ children' = [children EXCEPT ![b][a] = o]
        /\ owner' = [owner EXCEPT ![o] = b]
    BY <1>7, <1>0 DEF StoreMember, Goto, ITypes, Owned
  <2>2. /\ child_count[b] = a + 1 /\ a \in Place /\ Nowhere(o) /\ owner[o] = None
        /\ children[b][a] = None
    BY <1>s, <2>1 DEF Entering, Building, Listing
  <2>3. /\ children' \in [Block -> [Place -> Obj \cup {None}]]
        /\ children'[b][a] = o
        /\ \A x \in Block : \A i \in Place : x # b \/ i # a => children'[x][i] = children[x][i]
        /\ owner' \in [Obj -> Block \cup {None}]
        /\ owner'[o] = b /\ \A x \in Obj : x # o => owner'[x] = owner[x]
    BY <2>1, <2>2, <1>0, <1>m, <1>o DEF ITypes
  <2>4. ITypes'
    <3>1. pc' \in [Task -> Label] /\ child_count' \in [Block -> Nat]
      BY <1>0, <1>u, <2>1 DEF ITypes, Label, Building, Listing
    <3> QED
      BY <3>1, <1>0, <1>u, <2>3 DEF ITypes
  <2>5. \A x \in Obj : x # o /\ Nowhere(x) => Nowhere(x)'
    BY <2>3 DEF Nowhere
  <2>6. \A x \in Obj : x # o /\ Settled(x) => Settled(x)'
    <3> SUFFICES ASSUME NEW x \in Obj, x # o, Settled(x) PROVE Settled(x)'
      OBVIOUS
    <3>1. CASE owner[x] = None /\ Nowhere(x)
      BY <3>1, <2>3, <2>5 DEF Settled
    <3>2. ASSUME owner[x] \in Block,
                 NEW p \in Place, p < child_count[owner[x]], OnlyAt(x, owner[x], p)
          PROVE  Settled(x)'
      <4>1. x # None
        BY RegistryAssumption DEF Obj, None
      <4>2. owner[x] # b \/ p # a
        BY <3>2, <4>1, <2>2 DEF OnlyAt
      <4>3. OnlyAt(x, owner[x], p)' /\ owner'[x] = owner[x]
        BY <3>2, <4>2, <2>3 DEF OnlyAt
      <4> QED
        BY <3>2, <4>3, <2>1 DEF Settled
    <3> QED
      BY <3>1, <3>2 DEF Settled
  <2>7. Settled(o)'
    <3>1. OnlyAt(o, b, a)'
      BY <2>2, <2>3, <1>u DEF OnlyAt, Nowhere
    <3>2. owner'[o] = b /\ a < child_count'[b] /\ me' = me
      BY <2>1, <2>2, <2>3, <1>m, <1>u
    <3> QED
      BY <3>1, <3>2, <2>2, <1>m DEF Settled
  <2>8. IMembers'
    BY <1>0, <1>u, <1>o, <1>d, <2>1, <2>3, <2>5, <2>6 DEF IMembers, ITypes
  <2>9. IBeyond'
    <3> SUFFICES ASSUME NEW x \in Block, NEW i \in Place, Beyond(x, i)' PROVE FALSE
      BY DEF IBeyond
    <3>1. x # b \/ i # a
      BY <2>1, <2>2, <1>m DEF Beyond
    <3>2. i >= child_count[x] /\ children[x][i] # None
      BY <3>1, <2>1, <2>3 DEF Beyond
    <3> QED
      BY <3>2, <1>0, <1>t, <2>1 DEF IBeyond, Beyond
  <2>10. Entering(t)'
    BY <1>u, <1>p, <2>1, <2>7 DEF Entering, Building, Listing
  <2> QED
    BY <1>2, <1>3, <1>i, <2>4, <2>8, <2>9, <2>10 DEF IInv, IListing
<1> QED
  BY <1>4, <1>5, <1>6, <1>7 DEF AddMember

LEMMA FinishKeeps ==
  ASSUME IInv, NEW t \in Task, Finish(t)
  PROVE  IInv'
<1> USE RegistryAssumption DEF Finish, Leave, Fresh, Goto, registry, lists, attrs
<1>0. ITypes /\ IMutex /\ IRegistry /\ IRegistering /\ IMembers /\ IBeyond /\ IListing
  BY DEF IInv
<1>t. \A u \in Task : u # t => pc[u] = "idle"
  BY <1>0, TheOthersAreIdle
<1>m. /\ me[t] \in Local
      /\ me[t].ono \in Nat /\ me[t].at \in Nat /\ me[t].block \in Block
      /\ me[t].obj \in Obj \cup {None}
  <2>1. me[t] \in Local
    BY <1>0 DEF ITypes
  <2> QED
    BY <2>1 DEF Local
<1>s. Registering(t) /\ Entering(t)
  BY <1>0 DEF IRegistering, IListing
<1>1. ITypes'
  BY <1>0, <1>m DEF ITypes, IRegistering, Registering, Label, Building, Listing, Local, Task, Block
<1>2. IMutex'
  BY <1>0, <1>t DEF ITypes, IMutex
<1>3. IRegistry'
  BY <1>0, <1>s, <1>m, <1>t DEF ITypes, IRegistry, Registering, Building, Listing
<1>i. \A u \in Task : u # t => Registering(u)' /\ Entering(u)'
  BY <1>0, <1>t DEF ITypes, Registering, Entering, Building, Listing
<1>4. IRegistering'
  <2>1. Registering(t)'
    BY <1>0, <1>s, <1>m, <1>t DEF ITypes, Registering, IRegistry, Building, Listing
  <2> QED
    BY <2>1, <1>i DEF IRegistering
<1>5. IMembers'
  BY <1>0, <1>s, <1>m, <1>t DEF ITypes, IMembers, Entering, Settled, Nowhere, OnlyAt
<1>b. IBeyond'
  BY <1>0, <1>s, <1>m, <1>t DEF ITypes, IBeyond, Beyond, Entering
<1>6. IListing'
  <2>1. Entering(t)'
    BY <1>0, <1>s, <1>m, <1>t DEF ITypes, IMembers, Entering, Settled, Nowhere, OnlyAt, Building, Listing
  <2> QED
    BY <2>1, <1>i DEF IListing
<1> QED
  BY <1>1, <1>2, <1>3, <1>4, <1>5, <1>b, <1>6 DEF IInv

LEMMA WalkKeeps ==
  ASSUME IInv, Enumerate
  PROVE  IInv'
<1>0. ITypes /\ IMutex /\ IRegistry /\ IRegistering /\ IMembers /\ IBeyond /\ IListing
  BY DEF IInv
<1>1. /\ UNCHANGED <<registry, lists, attrs, pc, me, used, returned>>
      /\ \/ lock = Free /\ lock' = Server
         \/ lock' = lock
         \/ lock = Server /\ lock' = Free
  BY DEF Enumerate, StartWalk, Walk, StartEmit, EndWalk, Leave
<1>2. IMutex'
  <2> SUFFICES ASSUME NEW t \in Task, pc[t] # "idle" PROVE t \in AppTask /\ lock' = t
    BY <1>1 DEF IMutex
  <2>1. t \in AppTask /\ lock = t
    BY <1>0 DEF IMutex
  <2> QED
    BY <2>1, <1>1, RegistryAssumption DEF Free
<1>3. ITypes'
  BY <1>0, <1>1 DEF ITypes, registry, lists, attrs, Task
<1>4. IRegistry' /\ IRegistering'
  BY <1>0, <1>1 DEF IRegistry, IRegistering, Registering, registry, lists, attrs
<1>5. IMembers' /\ IBeyond'
  BY <1>0, <1>1 DEF IMembers, IBeyond, Beyond, Settled, Nowhere, OnlyAt, registry, lists, attrs
<1>6. IListing'
  BY <1>0, <1>1 DEF IListing, Entering, Settled, Nowhere, OnlyAt, registry, lists, attrs
<1> QED
  BY <1>2, <1>3, <1>4, <1>5, <1>6, <1>0 DEF IInv

(* A step that changes nothing.                                            *)
LEMMA StutterKeeps ==
  ASSUME IInv, UNCHANGED vars
  PROVE  IInv'
  BY DEF IInv, ITypes, IMutex, IRegistry, IRegistering, Registering, IMembers, IBeyond, Beyond,
         IListing, Entering, Settled, Nowhere, OnlyAt, vars, registry, lists, attrs

LEMMA LockedInvariantStep ==
  ASSUME Locked, IInv, [Next]_vars
  PROVE  IInv'
  <1>1. ASSUME NEW t \in Task, Construct(t) PROVE IInv'
    BY <1>1, EnterKeeps, ReadNumberKeeps, BumpNumberKeeps, RefuseKeeps, AllocateKeeps,
       RegisterKeeps, GrowKeeps, GrowFailsKeeps, UpdateListKeeps, ReadPlaceKeeps, AddMemberKeeps,
       FinishKeeps DEF Construct
  <1>2. QED
    BY <1>1, WalkKeeps, StutterKeeps DEF Next

(* The inductive invariant holds of every reachable state while every      *)
(* constructor in use takes dev->lock (aes70_object.c:382-391).            *)
THEOREM RegistryInvariant ==
  ASSUME Locked
  PROVE  Spec => []IInv
<1>1. Init => IInv
  BY InitEstablishes
<1>2. IInv /\ [Next]_vars => IInv'
  BY LockedInvariantStep
<1> QED
  BY <1>1, <1>2, PTL DEF Spec

(* Tables and lists keep their types and stay inside their bounds.         *)
THEOREM RegistryTypeCorrect ==
  ASSUME Locked
  PROVE  Spec => []TypeOK
<1>1. IInv => TypeOK
  BY RegistryAssumption DEF IInv, ITypes, IMembers, TypeOK
<1> QED
  BY <1>1, RegistryInvariant, PTL

(* Concurrent constructors never give two registered objects one number or *)
(* enter one object twice.                                                 *)
THEOREM NumbersNeverShared ==
  ASSUME Locked
  PROVE  Spec => []OnosUnique
<1>1. IInv => OnosUnique
  BY DEF IInv, IRegistry, OnosUnique, Registered
<1> QED
  BY <1>1, RegistryInvariant, PTL

(* No constructor undoes the registration another one has made.            *)
THEOREM RegistrationLasts ==
  ASSUME Locked
  PROVE  Spec => []ConstructedIsRegistered
<1>1. IInv => ConstructedIsRegistered
  <2> SUFFICES ASSUME IInv, NEW o \in returned
               PROVE  \E i \in Registered : objects[i] = o
    BY DEF ConstructedIsRegistered
  <2>1. PICK i \in Index : i < object_count /\ objects[i] = o
    BY DEF IInv, IRegistry
  <2>2. o # None
    BY RegistryAssumption DEF IInv, ITypes, Obj, None
  <2> QED
    BY <2>1, <2>2 DEF Registered
<1> QED
  BY <1>1, RegistryInvariant, PTL

(* An object that was returned is listed once, in the block whose number   *)
(* it carries, or nowhere when its list could not grow.                    *)
THEOREM MembersListedOnce ==
  ASSUME Locked
  PROVE  Spec => []MemberOfItsOwner
<1>1. IInv => MemberOfItsOwner
  <2> SUFFICES ASSUME IInv, NEW o \in returned
               PROVE  IF owner[o] = None THEN Listings(o) = {}
                      ELSE \E i \in Place : Listings(o) = {<<owner[o], i>>}
    BY DEF MemberOfItsOwner
  <2>1. Settled(o)
    BY DEF IInv, IMembers
  <2>2. CASE owner[o] = None
    <3>1. None \notin Block
      BY RegistryAssumption DEF None, Block, Obj, Root
    <3>2. Nowhere(o)
      BY <2>1, <2>2, <3>1 DEF Settled
    <3> QED
      BY <2>2, <3>2 DEF Listings, Nowhere
  <2>3. CASE owner[o] # None
    <3>1. PICK p \in Place : p < child_count[owner[o]] /\ OnlyAt(o, owner[o], p)
      BY <2>1, <2>3 DEF Settled
    <3>2. owner[o] \in Block
      BY <2>1, <2>3 DEF Settled
    <3>3. Listings(o) = {<<owner[o], p>>}
      BY <3>1, <3>2 DEF Listings, OnlyAt
    <3> QED
      BY <2>3, <3>3
  <2> QED
    BY <2>2, <2>3
<1> QED
  BY <1>1, RegistryInvariant, PTL

-----------------------------------------------------------------------------
(* Why an object found with the lock free is whole.                        *)

(* A place that is counted and not stored is that of a constructor between *)
(* its two stores, an object that is stored and not returned that of one   *)
(* not yet at its end.                                                     *)
IWhole ==
  /\ \A i \in Index : i < object_count /\ objects[i] = None =>
       \E t \in Task : pc[t] = "late" /\ i = me[t].at
  /\ \A i \in Index : objects[i] # None /\ objects[i] \notin returned =>
       \E t \in Task : pc[t] \in Building /\ objects[i] = me[t].obj
  /\ \A o \in returned : ready[o]

(* A step that stores no object, and does not leave a constructor that has *)
(* one.                                                                    *)
LEMMA QuietStep ==
  ASSUME IWhole, NEW t \in Task,
         UNCHANGED <<objects, object_count, ready, returned>>,
         \A u \in Task : u # t => pc'[u] = pc[u] /\ me'[u] = me[u],
         pc[t] # "late",
         pc[t] \in Building => pc'[t] \in Building /\ me'[t].obj = me[t].obj
  PROVE  IWhole'
<1>1. ASSUME NEW i \in Index, i < object_count, objects[i] = None
      PROVE  \E u \in Task : pc'[u] = "late" /\ i = me'[u].at
  <2>1. PICK u \in Task : pc[u] = "late" /\ i = me[u].at
    BY <1>1 DEF IWhole
  <2> QED
    BY <2>1
<1>2. ASSUME NEW i \in Index, objects[i] # None, objects[i] \notin returned
      PROVE  \E u \in Task : pc'[u] \in Building /\ objects[i] = me'[u].obj
  <2>1. PICK u \in Task : pc[u] \in Building /\ objects[i] = me[u].obj
    BY <1>2 DEF IWhole
  <2> QED
    BY <2>1
<1> QED
  BY <1>1, <1>2 DEF IWhole

LEMMA ConstructWhole ==
  ASSUME IInv, IWhole, NEW t \in Task, Construct(t)
  PROVE  IWhole'
<1>0. ITypes /\ IMutex /\ IRegistry /\ IRegistering
  BY DEF IInv
<1>t. pc[t] # "idle" => \A u \in Task : u # t => pc[u] = "idle"
  BY <1>0, TheOthersAreIdle
<1>d. /\ \A l \in Building : l \notin {"idle", "number", "bump", "new"}
      /\ "late" \in Building /\ "count" \in Building /\ "store" \in Building
      /\ Listing \subseteq Building
  BY DEF Building, Listing
<1>1. ASSUME NEW k \in {"plain", "block", "grouper", "group"}, NEW b \in Block, Enter(t, k, b)
      PROVE  IWhole'
  BY <1>0, <1>1, <1>d, QuietStep DEF Enter, Goto, registry, attrs, ITypes
<1>2. CASE ReadNumber(t) \/ BumpNumber(t)
  BY <1>0, <1>2, <1>d, QuietStep DEF ReadNumber, BumpNumber, Goto, registry, attrs, ITypes
<1>3. CASE Refuse(t) \/ Allocate(t)
  BY <1>0, <1>3, <1>d, QuietStep DEF Refuse, Allocate, Goto, registry, attrs, ITypes
<1>4. CASE Grow(t) \/ GrowFails(t) \/ UpdateList(t) \/ ReadPlace(t)
  BY <1>0, <1>4, <1>d, QuietStep
  DEF Grow, GrowFails, UpdateList, ReadPlace, Goto, registry, attrs, ITypes, Local, Building,
      Listing
<1>5. CASE AddMember(t)
  BY <1>0, <1>5, <1>d, QuietStep
  DEF AddMember, StoreMember, CountMember, Goto, registry, attrs, ITypes, Building, Listing
<1>6. CASE Register(t)
  <2>0. /\ pc[t] \in {"store", "count", "late"}
        /\ UNCHANGED <<me, ready, returned>>
        /\ pc'[t] \in Building
        /\ \A u \in Task : u # t => pc[u] = "idle" /\ pc'[u] = "idle"
        /\ me[t].at \in Index /\ me[t].obj # None
    <3>1. pc[t] \in {"store", "count", "late"} /\ UNCHANGED <<me, ready, returned>>
      BY <1>6 DEF Register, StoreObject, CountObject, attrs
    <3>2. pc'[t] \in Building /\ \A u \in Task : u # t => pc'[u] = pc[u]
      BY <1>0, <1>6 DEF Register, StoreObject, CountObject, Goto, Building, Listing, ITypes
    <3>3. Registering(t) /\ me[t] \in Local
      BY <1>0 DEF IRegistering, ITypes
    <3>4. me[t].obj \in Obj /\ me[t].at \in Nat
      BY <1>0, <3>1, <3>3, <1>d DEF Registering, ITypes, Local
    <3>5. me[t].at \in Index
      <4>1. pc[t] \in {"store", "count"} => me[t].at = object_count /\ object_count < MaxObjects
        BY <3>3 DEF Registering
      <4>2. pc[t] = "late" => object_count = me[t].at + 1 /\ object_count \in 0 .. MaxObjects
        BY <1>0, <3>3 DEF Registering, ITypes
      <4> QED
        BY <3>1, <3>4, <4>1, <4>2, RegistryAssumption DEF Index
    <3>6. me[t].obj # None
      BY <3>4, RegistryAssumption DEF Obj, None
    <3> QED
      BY <1>t, <3>1, <3>2, <3>5, <3>6
  <2>1. ASSUME NEW i \in Index, objects'[i] # None, objects'[i] \notin returned
        PROVE  \E u \in Task : pc'[u] \in Building /\ objects'[i] = me'[u].obj
    <3>1. objects'[i] = me[t].obj \/ objects'[i] = objects[i]
      BY <1>0, <1>6, <2>0 DEF Register, StoreObject, CountObject, ITypes
    <3>2. CASE objects'[i] = objects[i]
      <4>1. PICK u \in Task : pc[u] \in Building /\ objects[i] = me[u].obj
        BY <2>1, <3>2 DEF IWhole
      <4>2. u = t
        BY <2>0, <4>1, <1>d
      <4> QED
        BY <2>0, <3>2, <4>1, <4>2
    <3> QED
      BY <2>0, <3>1, <3>2
  <2>2. ASSUME NEW i \in Index, i < object_count', objects'[i] = None
        PROVE  \E u \in Task : pc'[u] = "late" /\ i = me'[u].at
    <3>1. CASE StoreObject(t, "store", "count")
      <4>1. i < object_count /\ objects[i] = None
        BY <1>0, <2>0, <2>2, <3>1 DEF StoreObject, ITypes
      <4>2. PICK u \in Task : pc[u] = "late"
        BY <4>1 DEF IWhole
      <4> QED
        BY <2>0, <3>1, <4>2 DEF StoreObject
    <3>2. CASE CountObject(t, "count", "member")
      <4>1. objects[i] = None /\ object_count = me[t].at /\ objects[me[t].at] # None
        BY <1>0, <2>0, <2>2, <3>2 DEF CountObject, IRegistering, Registering
      <4>2. i < object_count
        BY <1>0, <2>0, <2>2, <3>2, <4>1 DEF CountObject, ITypes, Index
      <4>3. PICK u \in Task : pc[u] = "late"
        BY <4>1, <4>2 DEF IWhole
      <4> QED
        BY <2>0, <3>2, <4>3 DEF CountObject
    <3>3. CASE CountObject(t, "store", "late")
      <4>1. pc'[t] = "late" /\ objects[i] = None /\ object_count = me[t].at
        BY <1>0, <2>2, <3>3 DEF CountObject, Goto, ITypes, IRegistering, Registering
      <4>2. i < object_count => \E u \in Task : pc[u] = "late"
        BY <4>1 DEF IWhole
      <4>3. i = me[t].at
        BY <1>0, <2>0, <2>2, <3>3, <4>1, <4>2 DEF CountObject, ITypes, Index
      <4> QED
        BY <2>0, <4>1, <4>3
    <3>4. CASE StoreObject(t, "late", "member")
      <4>1. i # me[t].at /\ i < object_count /\ objects[i] = None
        BY <1>0, <2>0, <2>2, <3>4 DEF StoreObject, ITypes
      <4>2. PICK u \in Task : pc[u] = "late" /\ i = me[u].at
        BY <4>1 DEF IWhole
      <4> QED
        BY <2>0, <4>1, <4>2
    <3> QED
      BY <1>6, <3>1, <3>2, <3>3, <3>4 DEF Register
  <2> QED
    BY <2>0, <2>1, <2>2 DEF IWhole
<1>7. CASE Finish(t)
  <2>0. /\ pc[t] = "finish" /\ UNCHANGED <<objects, object_count>>
        /\ returned' = returned \cup {me[t].obj}
        /\ \A u \in Task : u # t => pc[u] = "idle"
    BY <1>7, <1>t DEF Finish, registry
  <2>1. ASSUME NEW i \in Index, i < object_count, objects[i] = None PROVE FALSE
    BY <2>0, <2>1 DEF IWhole
  <2>2. ASSUME NEW i \in Index, objects[i] # None PROVE objects[i] \in returned'
    BY <2>0, <2>2, <1>d DEF IWhole
  <2>3. \A o \in returned' : ready'[o]
    <3>1. Registering(t)
      BY <1>0 DEF IRegistering
    <3>2. me[t].obj \in Obj /\ ready \in [Obj -> BOOLEAN]
      BY <1>0, <2>0, <3>1 DEF Registering, Building, Listing, ITypes
    <3>3. ready' = [ready EXCEPT ![me[t].obj] = TRUE]
      BY <1>7 DEF Finish
    <3>4. \A o \in returned : o \in Obj /\ ready[o]
      BY <1>0 DEF IWhole, ITypes
    <3> QED
      BY <2>0, <3>2, <3>3, <3>4
  <2> QED
    BY <2>0, <2>1, <2>2, <2>3 DEF IWhole
<1> QED
  BY <1>1, <1>2, <1>3, <1>4, <1>5, <1>6, <1>7 DEF Construct

LEMMA OthersWhole ==
  ASSUME IWhole, Enumerate \/ UNCHANGED vars
  PROVE  IWhole'
<1>1. ASSUME UNCHANGED <<objects, object_count, ready, returned, pc, me>>
      PROVE  IWhole'
  BY <1>1 DEF IWhole
<1>2. CASE Walk
  BY <1>1, <1>2 DEF Walk, registry, attrs
<1>3. CASE \E b \in Block, deep \in BOOLEAN : StartWalk(b, deep)
  BY <1>1, <1>3 DEF StartWalk, registry, attrs
<1>4. CASE StartEmit \/ EndWalk \/ UNCHANGED vars
  BY <1>1, <1>4 DEF StartEmit, EndWalk, vars, registry, attrs
<1> QED
  BY <1>2, <1>3, <1>4 DEF Enumerate

(* While every constructor takes the lock, who finds it free finds only    *)
(* objects that are set up in the registry.                                *)
THEOREM WholeWhenUnlocked ==
  ASSUME Locked
  PROVE  Spec => []WholeOnceUnlocked
<1>1. Init => IWhole
  BY RegistryAssumption DEF Init, IWhole, Index, None
<1>2. IInv /\ IWhole /\ [Next]_vars => IWhole'
  BY ConstructWhole, OthersWhole DEF Next
<1>3. IInv /\ IWhole => WholeOnceUnlocked
  <2> SUFFICES ASSUME IInv, IWhole, lock = Free, NEW i \in 0 .. object_count - 1
               PROVE  objects[i] # None /\ ready[objects[i]]
    BY DEF WholeOnceUnlocked
  <2>1. \A t \in Task : pc[t] = "idle"
    BY RegistryAssumption DEF IInv, IMutex, Free
  <2>2. i \in Index /\ i < object_count
    BY RegistryAssumption DEF IInv, ITypes, Index
  <2>3. objects[i] # None
    BY <2>1, <2>2 DEF IWhole
  <2>4. objects[i] \in returned
    BY <2>1, <2>2, <2>3 DEF IWhole, Building, Listing
  <2> QED
    BY <2>3, <2>4 DEF IWhole
<1> QED
  BY <1>1, <1>2, <1>3, RegistryInvariant, PTL DEF Spec

-----------------------------------------------------------------------------
-----------------------------------------------------------------------------
(* The tree of blocks.                                                     *)

(* Every object whose memory is handed out is returned or being built; the *)
(* only place of a list that is counted and empty is the one its           *)
(* constructor is about to store into, the only list without memory the    *)
(* one being grown.                                                        *)
IPlaces ==
  /\ \A o \in used \ returned : \E t \in Task : pc[t] \in Building /\ me[t].obj = o
  /\ \A b \in Block : \A i \in Place : i < child_count[b] /\ children[b][i] = None =>
       \E t \in Task : pc[t] = "mlate" /\ me[t].block = b /\ me[t].at = i
  /\ \A b \in moved : \E t \in Task : pc[t] = "grown" /\ me[t].block = b

(* A block that may be a parent.                                           *)
Parent(b) == b = Root \/ (b \in returned /\ kind[b] = "block")

(* Members are younger than the block they are in.                         *)
IAges ==
  /\ \A o \in used : \A p \in Obj \ used : o < p
  /\ \A t \in Task : pc[t] # "idle" => Parent(me[t].block)
  /\ \A t \in Task : pc[t] \in Building => me[t].block < me[t].obj
  /\ \A o \in Obj : owner[o] # None => Parent(owner[o]) /\ owner[o] < o

ITree == IPlaces /\ IAges

LEMMA TreeStart == Init => ITree
  BY RegistryAssumption
     DEF Init, ITree, IPlaces, IAges, Obj, Block, Place, None, Building, Listing

LEMMA TreeEnter ==
  ASSUME IInv, ITree, NEW t \in Task, NEW k \in {"plain", "block", "grouper", "group"},
         NEW b \in Block, Enter(t, k, b)
  PROVE  ITree'
  <1>1. ITypes
    BY DEF IInv
  <1>2. IPlaces'
    <2>1. /\ UNCHANGED <<lists, attrs, used, returned>> /\ pc[t] = "idle"
          /\ \A u \in Task : u # t => pc'[u] = pc[u] /\ me'[u] = me[u]
      BY <1>1 DEF ITypes, Enter, Goto
    <2>2. \A u \in Task : pc[u] # "idle" => pc'[u] = pc[u] /\ me'[u] = me[u]
      BY <2>1
    <2>3. "idle" \notin Building
      BY DEF Building, Listing
    <2>4. QED
      BY <2>1, <2>2, <2>3 DEF ITree, IPlaces, lists
  <1>3. IAges'
    BY <1>1 DEF ITree, IAges, ITypes, Enter, Goto, Building, Listing, registry, lists, attrs, Fresh,
                Parent
  <1>4. QED
    BY <1>2, <1>3 DEF ITree

(* Steps that leave lists and objects alone.                               *)
LEMMA TreeQuiet ==
  ASSUME IInv, ITree, NEW t \in Task,
         ReadNumber(t) \/ BumpNumber(t) \/ Refuse(t) \/ Register(t) \/ GrowFails(t) \/ ReadPlace(t)
  PROVE  ITree'
  <1>1. ITypes
    BY DEF IInv
  <1>2. /\ UNCHANGED <<lists, attrs, used, returned>>
        /\ \A u \in Task : u # t => pc'[u] = pc[u] /\ me'[u] = me[u]
        /\ pc[t] # "mlate" /\ pc[t] # "grown" /\ pc[t] # "idle" /\ pc'[t] \in Label
        /\ me' \in [Task -> Local]
        /\ pc[t] \in Building => pc'[t] \in Building
        /\ pc'[t] # "idle" => me'[t].block = me[t].block
        /\ pc'[t] \in Building => pc[t] \in Building /\ me'[t].obj = me[t].obj
    <2> USE <1>1 DEF ITypes, Goto, Building, Listing, Label
    <2>1. CASE ReadNumber(t)
      BY <2>1 DEF ReadNumber, Local
    <2>2. CASE BumpNumber(t)
      BY <2>2 DEF BumpNumber, lists
    <2>3. CASE Refuse(t)
      BY <2>3, RegistryAssumption DEF Refuse, Local, Fresh, Block, Obj
    <2>4. CASE Register(t)
      BY <2>4 DEF Register, StoreObject, CountObject
    <2>5. CASE GrowFails(t)
      BY <2>5 DEF GrowFails
    <2>6. CASE ReadPlace(t)
      BY <2>6 DEF ReadPlace, Local
    <2>7. QED
      BY <2>1, <2>2, <2>3, <2>4, <2>5, <2>6
  <1>3. IPlaces'
    BY <1>2 DEF ITree, IPlaces, lists
  <1>4. IAges'
    <2>1. \A o \in Obj : owner'[o] # None => Parent(owner[o])' /\ owner'[o] < o
      BY <1>2 DEF ITree, IAges, Parent, attrs
    <2>2. ASSUME NEW u \in Task, pc'[u] # "idle"
          PROVE  Parent(me[u].block)'
      <3>1. pc[u] # "idle" /\ me'[u].block = me[u].block
        BY <1>2, <2>2
      <3>2. QED
        BY <1>2, <3>1 DEF ITree, IAges, Parent, attrs
    <2>3. ASSUME NEW u \in Task, pc'[u] \in Building
          PROVE  me'[u].block < me'[u].obj
      <3>1. pc'[u] # "idle"
        BY <2>3 DEF Building, Listing
      <3>2. pc[u] \in Building /\ me'[u].block = me[u].block /\ me'[u].obj = me[u].obj
        BY <1>2, <2>3, <3>1
      <3>3. QED
        BY <3>2 DEF ITree, IAges
    <2>4. QED
      BY <1>2, <2>1, <2>2, <2>3 DEF ITree, IAges
  <1>5. QED
    BY <1>3, <1>4 DEF ITree

LEMMA TreeAllocate ==
  ASSUME IInv, ITree, NEW t \in Task, Allocate(t)
  PROVE  ITree'
  <1>1. ITypes /\ IMembers
    BY DEF IInv
  <1>2. PICK o \in Obj \ used :
          /\ \A p \in Obj \ used : o <= p
          /\ used' = used \cup {o} /\ kind' = [kind EXCEPT ![o] = me[t].kind]
          /\ me' = [me EXCEPT ![t].obj = o, ![t].at = object_count]
    BY DEF Allocate
  <1>3. /\ pc[t] = "new" /\ pc' = [pc EXCEPT ![t] = "store"]
        /\ UNCHANGED <<lists, owner, returned>>
    BY DEF Allocate, Goto
  <1>4. /\ \A u \in Task : u # t => pc'[u] = pc[u] /\ me'[u] = me[u]
        /\ pc'[t] = "store" /\ me'[t].obj = o /\ me'[t].block = me[t].block
    BY <1>1, <1>2, <1>3 DEF ITypes, Local
  <1>5. IPlaces'
    <2>1. ASSUME NEW p \in used' \ returned'
          PROVE  \E u \in Task : pc'[u] \in Building /\ me'[u].obj = p
      <3>1. CASE p = o
        BY <1>4, <3>1 DEF Building
      <3>2. CASE p # o
        <4>1. PICK u \in Task : pc[u] \in Building /\ me[u].obj = p
          BY <1>2, <1>3, <2>1, <3>2 DEF ITree, IPlaces
        <4>2. u # t
          BY <1>3, <4>1 DEF Building, Listing
        <4>3. QED
          BY <1>4, <4>1, <4>2
      <3>3. QED
        BY <3>1, <3>2
    <2>2. \A u \in Task : pc[u] \in {"mlate", "grown"} => pc'[u] = pc[u] /\ me'[u] = me[u]
      BY <1>3, <1>4
    <2>3. QED
      BY <1>3, <2>1, <2>2 DEF ITree, IPlaces, lists
  <1>6. \A b : Parent(b) => Parent(b)'
    <2>1. o \notin returned
      BY <1>1, <1>2 DEF ITypes
    <2>2. ASSUME NEW b \in returned, kind[b] = "block"
          PROVE  kind'[b] = "block"
      <3>1. b # o
        BY <2>1
      <3>2. QED
        BY <1>2, <2>2, <3>1
    <2>3. QED
      BY <1>3, <2>2 DEF Parent
  <1>7. IAges'
    <2>1. \A q \in used' : \A p \in Obj \ used' : q < p
      <3>1. \A p \in Obj \ used' : p # o /\ o <= p
        BY <1>2
      <3>2. \A q \in used : \A p \in Obj \ used' : q < p
        BY <1>2 DEF ITree, IAges
      <3>3. \A p \in Obj \ used' : o < p
        BY <1>2, <3>1, RegistryAssumption DEF Obj
      <3>4. QED
        BY <1>2, <3>2, <3>3
    <2>2. ASSUME NEW u \in Task, pc'[u] # "idle"
          PROVE  Parent(me[u].block)'
      <3>1. pc[u] # "idle" /\ me'[u].block = me[u].block
        BY <1>3, <1>4, <2>2
      <3>2. Parent(me[u].block)
        BY <3>1 DEF ITree, IAges
      <3>3. QED
        BY <1>6, <3>1, <3>2 DEF Parent
    <2>3. ASSUME NEW u \in Task, pc'[u] \in Building
          PROVE  me'[u].block < me'[u].obj
      <3>1. CASE u = t
        <4>1. Parent(me[t].block)
          BY <1>3 DEF ITree, IAges
        <4>2. me[t].block < o
          BY <1>1, <1>2, <4>1, RegistryAssumption DEF ITypes, Parent, Root, Obj, ITree, IAges
        <4>3. QED
          BY <1>4, <3>1, <4>2
      <3>2. CASE u # t
        BY <1>4, <2>3, <3>2 DEF ITree, IAges
      <3>3. QED
        BY <3>1, <3>2
    <2>4. ASSUME NEW p \in Obj, owner'[p] # None
          PROVE  Parent(owner[p])' /\ owner'[p] < p
      <3>1. Parent(owner[p]) /\ owner[p] < p /\ owner'[p] = owner[p]
        BY <1>3, <2>4 DEF ITree, IAges
      <3>2. QED
        BY <1>6, <3>1 DEF Parent
    <2>5. QED
      BY <2>1, <2>2, <2>3, <2>4 DEF IAges
  <1>8. QED
    BY <1>5, <1>7 DEF ITree

LEMMA TreeGrow ==
  ASSUME IInv, ITree, NEW t \in Task, Grow(t) \/ UpdateList(t)
  PROVE  ITree'
  <1>1. ITypes /\ IMutex
    BY DEF IInv
  <1>2. /\ UNCHANGED <<children, child_count, attrs, used, returned, me>>
        /\ \A u \in Task : u # t => pc'[u] = pc[u] /\ pc[u] = "idle"
        /\ pc[t] \in {"member", "grown"} /\ pc'[t] \in {"member", "grown"}
    BY <1>1, TheOthersAreIdle DEF Grow, UpdateList, Goto, ITypes
  <1>3. \A u \in Task : /\ pc'[u] \in Building <=> pc[u] \in Building
                        /\ pc'[u] # "idle" <=> pc[u] # "idle"
    BY <1>2 DEF Building, Listing
  <1>4. \A u \in Task : pc[u] # "mlate"
    BY <1>2
  <1>5. \A b \in moved' : pc'[t] = "grown" /\ me[t].block = b
    <2>1. CASE Grow(t)
      <3>1. pc'[t] = "grown" /\ pc[t] = "member" /\ moved' = moved \cup {me[t].block}
        BY <1>1, <2>1 DEF Grow, Goto, ITypes
      <3>2. moved = {}
        BY <1>2, <3>1 DEF ITree, IPlaces
      <3>3. QED
        BY <3>1, <3>2
    <2>2. CASE UpdateList(t)
      <3>1. pc[t] = "grown" /\ moved' = moved \ {me[t].block}
        BY <2>2 DEF UpdateList
      <3>2. \A b \in moved : b = me[t].block
        BY <1>2 DEF ITree, IPlaces
      <3>3. QED
        BY <3>1, <3>2
    <2>3. QED
      BY <2>1, <2>2
  <1>6. IPlaces'
    BY <1>2, <1>3, <1>4, <1>5 DEF ITree, IPlaces, attrs
  <1>7. IAges'
    BY <1>2, <1>3 DEF ITree, IAges, Parent, attrs
  <1>8. QED
    BY <1>6, <1>7 DEF ITree

LEMMA TreeAdd ==
  ASSUME IInv, ITree, NEW t \in Task, AddMember(t)
  PROVE  ITree'
  <1>1. ITypes /\ IMutex /\ IListing
    BY DEF IInv
  <1>2. /\ UNCHANGED <<child_cap, moved, ono, kind, ready, used, returned, me>>
        /\ \A u \in Task : u # t => pc'[u] = pc[u] /\ pc[u] = "idle"
        /\ pc[t] \in {"mstore", "mcount", "mlate"} /\ pc'[t] \in {"mcount", "mlate", "finish"}
    BY <1>1, TheOthersAreIdle DEF AddMember, StoreMember, CountMember, Goto, ITypes
  <1>3. \A u \in Task : /\ pc'[u] \in Building <=> pc[u] \in Building
                        /\ pc'[u] # "idle" <=> pc[u] # "idle"
    BY <1>2 DEF Building, Listing
  <1> DEFINE b == me[t].block
             i == me[t].at
             o == me[t].obj
  <1>4. /\ b \in Block /\ i \in Nat /\ o \in Obj
        /\ pc[t] \in Building
    <2>1. me[t] \in Local /\ pc[t] \in Building
      BY <1>1, <1>2 DEF ITypes, Building, Listing
    <2>2. o \in used
      BY <2>1 DEF IInv, IRegistering, Registering
    <2>3. QED
      BY <1>1, <2>1, <2>2 DEF ITypes, Local
  <1>5. owner' = owner \/ owner' = [owner EXCEPT ![o] = b]
    BY DEF AddMember, StoreMember, CountMember, Owned
  <1>6. IAges'
    <2>1. Parent(b) /\ b < o
      BY <1>2, <1>4 DEF ITree, IAges
    <2>2. ASSUME NEW p \in Obj, owner'[p] # None
          PROVE  Parent(owner'[p]) /\ owner'[p] < p
      <3>1. CASE owner'[p] = owner[p]
        BY <2>2, <3>1 DEF ITree, IAges
      <3>2. CASE owner'[p] # owner[p]
        BY <1>1, <1>4, <1>5, <2>1, <3>2 DEF ITypes
      <3>3. QED
        BY <3>1, <3>2
    <2>3. QED
      BY <1>2, <1>3, <2>2 DEF ITree, IAges, Parent
  <1>7. moved' = {}
    BY <1>2 DEF ITree, IPlaces
  <1>8. \A p \in used' \ returned' : \E u \in Task : pc'[u] \in Building /\ me'[u].obj = p
    BY <1>2, <1>3 DEF ITree, IPlaces
  <1>9. ASSUME NEW c \in Block, NEW k \in Place, k < child_count'[c], children'[c][k] = None
        PROVE  pc'[t] = "mlate" /\ me'[t].block = c /\ me'[t].at = k
    <2>1. Entering(t)
      BY <1>1 DEF IListing
    <2>2. ASSUME k < child_count[c], children[c][k] = None
          PROVE  pc[t] = "mlate" /\ c = b /\ k = i
      BY <1>2, <2>2 DEF ITree, IPlaces
    <2>3. CASE StoreMember(t, "mstore", "mcount") \/ StoreMember(t, "mlate", "finish")
      <3>1. children' = [children EXCEPT ![b][i] = o] /\ child_count' = child_count
        BY <2>3 DEF StoreMember
      <3>2. ~(c = b /\ k = i)
        BY <1>1, <1>4, <1>9, <3>1, RegistryAssumption DEF ITypes, Obj, None
      <3>3. children'[c][k] = children[c][k]
        BY <1>1, <1>4, <3>1, <3>2 DEF ITypes
      <3>4. QED
        BY <1>9, <2>2, <3>1, <3>2, <3>3
    <2>4. CASE CountMember(t, "mstore", "mlate") \/ CountMember(t, "mcount", "finish")
      <3>1. /\ child_count' = [child_count EXCEPT ![b] = i + 1] /\ children' = children
            /\ pc[t] \in {"mstore", "mcount"}
        BY <2>4 DEF CountMember
      <3>2. i = child_count[b] /\ (pc[t] = "mcount" => children[b][i] = o)
        BY <2>1, <3>1 DEF Entering, OnlyAt
      <3>3. ~(k < child_count[c])
        BY <1>9, <2>2, <3>1
      <3>4. c = b /\ k = i
        BY <1>1, <1>4, <1>9, <3>1, <3>2, <3>3 DEF ITypes, Place
      <3>5. pc[t] # "mcount"
        BY <1>4, <1>9, <3>1, <3>2, <3>4, RegistryAssumption DEF Obj, None
      <3>6. CountMember(t, "mstore", "mlate")
        BY <2>4, <3>5 DEF CountMember
      <3>7. pc'[t] = "mlate"
        BY <1>1, <3>6 DEF CountMember, Goto, ITypes
      <3>8. QED
        BY <1>2, <3>4, <3>7
    <2>5. QED
      BY <2>3, <2>4 DEF AddMember
  <1>10. IPlaces'
    BY <1>7, <1>8, <1>9 DEF IPlaces
  <1>11. QED
    BY <1>6, <1>10 DEF ITree

LEMMA TreeFinish ==
  ASSUME IInv, ITree, NEW t \in Task, Finish(t)
  PROVE  ITree'
  <1>1. ITypes /\ IMutex
    BY DEF IInv
  <1>2. /\ UNCHANGED <<lists, ono, kind, owner, used>>
        /\ returned' = returned \cup {me[t].obj}
        /\ \A u \in Task : u # t => pc'[u] = pc[u] /\ pc[u] = "idle" /\ me'[u] = me[u]
        /\ pc[t] = "finish" /\ pc'[t] = "idle"
    BY <1>1, TheOthersAreIdle DEF Finish, Goto, ITypes
  <1>3. pc[t] \in Building /\ "idle" \notin Building
    BY <1>2 DEF Building, Listing
  <1>4. IPlaces'
    <2>1. ASSUME NEW p \in used' \ returned'
          PROVE  FALSE
      <3>1. PICK u \in Task : pc[u] \in Building /\ me[u].obj = p
        BY <1>2, <2>1 DEF ITree, IPlaces
      <3>2. u = t
        BY <1>2, <1>3, <3>1
      <3>3. QED
        BY <1>2, <2>1, <3>1, <3>2
    <2>2. QED
      BY <1>2, <2>1 DEF ITree, IPlaces, lists
  <1>5. IAges'
    BY <1>2, <1>3 DEF ITree, IAges, Parent
  <1>6. QED
    BY <1>4, <1>5 DEF ITree

LEMMA TreeStep ==
  ASSUME IInv, ITree, [Next]_vars
  PROVE  ITree'
  <1>1. ASSUME UNCHANGED <<lists, attrs, pc, me, used, returned>>
        PROVE  ITree'
    BY <1>1 DEF ITree, IPlaces, IAges, Parent, lists, attrs
  <1>2. CASE Enumerate
    BY <1>1, <1>2 DEF Enumerate, StartWalk, Walk, StartEmit, EndWalk
  <1>3. CASE UNCHANGED vars
    BY <1>1, <1>3 DEF vars
  <1>4. ASSUME NEW t \in Task, Construct(t)
        PROVE  ITree'
    BY <1>4, TreeEnter, TreeQuiet, TreeAllocate, TreeGrow, TreeAdd, TreeFinish DEF Construct
  <1>5. QED
    BY <1>2, <1>3, <1>4 DEF Next

LEMMA LeastNatural ==
  ASSUME NEW T \in SUBSET Nat, T # {}
  PROVE  \E n \in T : \A m \in T : n <= m
  <1>1. IsWellFoundedOn(OpToRel(<, Nat), Nat)
    BY NatLessThanWellFounded
  <1>2. PICK n \in T : \A m \in T : <<m, n>> \notin OpToRel(<, Nat)
    BY <1>1, WFMin
  <1>3. \A m \in T : ~(m < n)
    BY <1>2 DEF OpToRel
  <1>4. QED
    BY <1>3

IsBelow(in, b) == in = [o \in Obj |-> owner[o] = b \/ (owner[o] \in Obj /\ in[owner[o]])]

LEMMA BelowExists ==
  ASSUME NEW b
  PROVE  \E in : IsBelow(in, b)
  <1> DEFINE Closed(X) == \A p \in Obj : owner[p] = b \/ owner[p] \in X => p \in X
             D == {p \in Obj : \A X \in SUBSET Obj : Closed(X) => p \in X}
             U == {p \in Obj : owner[p] = b \/ owner[p] \in D}
  <1>1. Closed(D)
    OBVIOUS
  <1>2. U \in SUBSET Obj /\ U \subseteq D
    BY <1>1
  <1>3. Closed(U)
    BY <1>2
  <1>4. D \subseteq U
    BY <1>2, <1>3
  <1>5. \A p \in Obj : p \in D <=> owner[p] = b \/ (owner[p] \in Obj /\ owner[p] \in D)
    BY <1>2, <1>4
  <1> HIDE DEF D
  <1> DEFINE f == [o \in Obj |-> o \in D]
  <1>6. \A o \in Obj : f[o] = (o \in D)
    OBVIOUS
  <1>7. \A o \in Obj : f[o] <=> owner[o] = b \/ (owner[o] \in Obj /\ f[owner[o]])
    BY <1>5, <1>6
  <1>8. \A o \in Obj : f[o] \in BOOLEAN
    BY <1>6
  <1> HIDE DEF f
  <1>9. \A o \in Obj : f[o] = (owner[o] = b \/ (owner[o] \in Obj /\ f[owner[o]]))
    BY <1>7, <1>8
  <1>10. f = [o \in Obj |-> f[o]]
    BY DEF f
  <1>11. f = [o \in Obj |-> owner[o] = b \/ (owner[o] \in Obj /\ f[owner[o]])]
    BY <1>9, <1>10
  <1>12. QED
    BY <1>11 DEF IsBelow

LEMMA BelowEquation ==
  ASSUME ITypes, IAges, NEW b, NEW o \in returned
  PROVE  o \in Below(b) <=> owner[o] = b \/ owner[o] \in Below(b)
  <1>1. PICK f : IsBelow(f, b)
    BY BelowExists
  <1>2. PICK in : IsBelow(in, b) /\ Below(b) = {p \in returned : in[p]}
    BY <1>1, Zenon DEF Below, IsBelow
  <1>3. o \in Obj /\ (owner[o] \in Obj => owner[o] \in returned)
    BY RegistryAssumption DEF ITypes, IAges, Parent, Root, Obj, None
  <1>4. in[o] <=> owner[o] = b \/ (owner[o] \in Obj /\ in[owner[o]])
    BY <1>2, <1>3 DEF IsBelow
  <1>5. \A p \in returned : p \in Obj
    BY DEF ITypes
  <1>6. QED
    BY <1>2, <1>3, <1>4, <1>5

-----------------------------------------------------------------------------
(* While an enumeration has the lock nothing is being built: the lists and *)
(* the owners they go by agree.                                            *)
Members(b) == 0 .. child_count[b] - 1

Still ==
  /\ returned \subseteq Obj /\ moved = {} /\ child_count \in [Block -> Nat]
  /\ owner \in [Obj -> Block \cup {None}]
  /\ \A b \in Block : \A i \in Members(b) :
       children[b][i] \in returned /\ owner[children[b][i]] = b
  /\ \A b \in Block : \A i, j \in Members(b) : children[b][i] = children[b][j] => i = j
  /\ \A o \in returned : owner[o] # None =>
       \E i \in Members(owner[o]) : children[owner[o]][i] = o
  /\ \A o \in Obj : owner[o] # None => Parent(owner[o]) /\ owner[o] < o

LEMMA LockedOut ==
  ASSUME IInv, lock = Server
  PROVE  \A t \in Task : pc[t] = "idle"
  BY RegistryAssumption DEF IInv, IMutex, Task

LEMMA StillWhenIdle ==
  ASSUME IInv, ITree, \A t \in Task : pc[t] = "idle"
  PROVE  Still
  <1>1. ITypes /\ IMembers
    BY DEF IInv
  <1>2. used = returned /\ moved = {}
    BY <1>1 DEF ITree, IPlaces, ITypes, Building, Listing
  <1>3. \A b \in Block : \A i \in Members(b) : i \in Place /\ i < child_count[b]
    BY <1>1, RegistryAssumption DEF ITypes, IMembers, Members, Place
  <1>4. ASSUME NEW b \in Block, NEW i \in Members(b)
        PROVE  /\ children[b][i] \in returned /\ owner[children[b][i]] = b
               /\ \A j \in Place : children[b][j] = children[b][i] => i = j
    <2>1. i \in Place /\ i < child_count[b]
      BY <1>3
    <2>2. children[b][i] # None
      BY <2>1 DEF ITree, IPlaces
    <2>3. children[b][i] \in Obj
      BY <1>1, <2>1, <2>2 DEF ITypes
    <2>4. children[b][i] \in returned
      BY <1>1, <1>2, <2>1, <2>3 DEF IMembers, Nowhere
    <2>5. Settled(children[b][i])
      BY <1>1, <2>4 DEF IMembers
    <2>6. QED
      BY <2>1, <2>4, <2>5 DEF Settled, OnlyAt, Nowhere
  <1>5. ASSUME NEW o \in returned, owner[o] # None
        PROVE  \E i \in Members(owner[o]) : children[owner[o]][i] = o
    <2>1. Settled(o)
      BY <1>1 DEF IMembers
    <2>2. PICK p \in Place : p < child_count[owner[o]] /\ OnlyAt(o, owner[o], p)
      BY <1>5, <2>1 DEF Settled
    <2>3. owner[o] \in Block
      BY <1>5, <2>1 DEF Settled
    <2>4. p \in Members(owner[o])
      BY <1>1, <2>2, <2>3, RegistryAssumption DEF ITypes, Members, Place
    <2>5. QED
      BY <2>2, <2>4 DEF OnlyAt
  <1>6. \A o \in Obj : owner[o] # None => Parent(owner[o]) /\ owner[o] < o
    BY DEF ITree, IAges
  <1>7. QED
    BY <1>1, <1>2, <1>3, <1>4, <1>5, <1>6 DEF Still, ITypes

-----------------------------------------------------------------------------
(* The enumeration.  E: the members it has come by.  A block on the stack  *)
(* is told by its place which of its members these are; a block it has     *)
(* come by and that is not on the stack is done with.                      *)
Frame == [block : Block, i : Nat]
Walking == [phase : {"none", "count", "emit"}, root : Block, deep : BOOLEAN,
            stack : Seq(Frame), n : Nat, emitted : Seq(Obj)]

Enters(b, E) == b = walk.root \/ (walk.deep /\ b \in E /\ kind[b] = "block")

Visiting(E) ==
  /\ E \subseteq returned /\ Parent(walk.root)
  /\ \A o \in E : walk.root < o /\ (owner[o] = walk.root \/ (walk.deep /\ owner[o] \in E))
  /\ \A j \in 1 .. Len(walk.stack) :
       LET f == walk.stack[j]
       IN  /\ Enters(f.block, E) /\ f.i <= child_count[f.block]
           /\ \A i \in Members(f.block) : children[f.block][i] \in E <=> i < f.i
  /\ \A j, k \in 1 .. Len(walk.stack) : walk.stack[j].block = walk.stack[k].block => j = k
  /\ \A b \in Block :
       Enters(b, E) /\ (\A j \in 1 .. Len(walk.stack) : walk.stack[j].block # b) =>
         \A i \in Members(b) : children[b][i] \in E

(* The members an enumeration is about: those of its block and, in depth,  *)
(* theirs.  Owners are older than what they own, so only one set is that.  *)
Included(W) ==
  W \subseteq returned /\ \A o \in returned :
    o \in W <=> owner[o] = walk.root \/ (walk.deep /\ owner[o] \in W)

LEMMA OnlyPresentIncluded ==
  ASSUME ITypes, IAges, Still, walk \in Walking, NEW E \in SUBSET Obj, Included(E)
  PROVE  E = Present(walk.root, walk.deep)
  <1> DEFINE r == walk.root
  <1>1. /\ walk.deep \in BOOLEAN /\ E \subseteq returned /\ returned \subseteq Obj
        /\ \A o \in returned : o \in E <=> owner[o] = r \/ (walk.deep /\ owner[o] \in E)
    BY DEF Walking, Included, Still
  <1>2. returned \subseteq Nat
    BY <1>1, RegistryAssumption DEF Obj
  <1>3. CASE ~walk.deep
    BY <1>1, <1>3 DEF Present
  <1>4. CASE walk.deep
    <2> DEFINE B == Below(r)
    <2>1. \A o \in returned : o \in B <=> owner[o] = r \/ owner[o] \in B
      BY BelowEquation
    <2>2. B \subseteq returned
      BY DEF Below
    <2> HIDE DEF B
    <2> DEFINE Wrong == {o \in returned : ~(o \in E <=> o \in B)}
    <2>3. SUFFICES ASSUME Wrong # {} PROVE FALSE
      BY <1>1, <1>4, <2>2 DEF Present, B
    <2>4. Wrong \in SUBSET Nat
      BY <1>2
    <2>5. PICK o \in Wrong : \A p \in Wrong : o <= p
      BY <2>3, <2>4, LeastNatural
    <2>6. o \in returned /\ o \in Obj /\ (o \in E <=> owner[o] = r \/ owner[o] \in E)
      BY <1>1, <1>4, <2>5
    <2>7. owner[o] \in returned => (owner[o] \in E <=> owner[o] \in B)
      <3>1. SUFFICES ASSUME owner[o] \in returned, owner[o] \in Wrong PROVE FALSE
        OBVIOUS
      <3>2. owner[o] < o
        BY <1>1, <2>6, <3>1, RegistryAssumption DEF Still, Obj, None
      <3>3. o <= owner[o]
        BY <2>5, <3>1
      <3>4. o \in Nat /\ owner[o] \in Nat
        BY <1>2, <2>6, <3>1
      <3>5. QED
        BY <3>2, <3>3, <3>4
    <2>8. QED
      BY <1>1, <2>1, <2>2, <2>5, <2>6, <2>7
  <1>5. QED
    BY <1>1, <1>3, <1>4

(* An enumeration that is through has come by what it is about.            *)
LEMMA VisitedAll ==
  ASSUME Still, walk \in Walking, NEW E \in SUBSET Obj, Visiting(E), walk.stack = <<>>
  PROVE  Included(E)
  <1>1. walk.root \in Block /\ E \subseteq returned /\ returned \subseteq Obj
    BY DEF Walking, Visiting, Still
  <1>2. \A b \in Block : Enters(b, E) => \A i \in Members(b) : children[b][i] \in E
    BY DEF Visiting
  <1>3. ASSUME NEW o \in returned, owner[o] = walk.root \/ (walk.deep /\ owner[o] \in E)
        PROVE  o \in E
    <2>1. owner[o] \in Block /\ owner[o] # None
      <3>1. owner[o] \in Block
        BY <1>1, <1>3 DEF Block
      <3>2. \A b \in Block : b # None
        BY RegistryAssumption DEF Block, None, Root, Obj
      <3>3. QED
        BY <3>1, <3>2
    <2>2. Parent(owner[o])
      BY <1>1, <2>1 DEF Still
    <2>3. owner[o] \in E => owner[o] # Root
      BY <1>1, RegistryAssumption DEF Root, Obj
    <2>4. Enters(owner[o], E)
      BY <1>3, <2>2, <2>3 DEF Enters, Parent
    <2>5. PICK i \in Members(owner[o]) : children[owner[o]][i] = o
      BY <2>1 DEF Still
    <2>6. QED
      BY <1>2, <2>1, <2>4, <2>5
  <1>4. \A o \in E : owner[o] = walk.root \/ (walk.deep /\ owner[o] \in E)
    BY DEF Visiting
  <1>5. QED
    BY <1>1, <1>3, <1>4 DEF Included

(* What the operations on the stack do to it.                              *)
LEMMA HeadReplaced ==
  ASSUME NEW S, NEW s \in Seq(S), s # <<>>, NEW x \in S
  PROVE  /\ <<x>> \o Tail(s) \in Seq(S) /\ Len(<<x>> \o Tail(s)) = Len(s)
         /\ (<<x>> \o Tail(s))[1] = x
         /\ \A j \in 2 .. Len(s) : (<<x>> \o Tail(s))[j] = s[j]
  <1>1. /\ Tail(s) \in Seq(S) /\ Len(Tail(s)) = Len(s) - 1
        /\ \A j \in 1 .. Len(s) - 1 : Tail(s)[j] = s[j + 1]
    BY HeadTailProperties
  <1>2. <<x>> \in Seq(S) /\ Len(<<x>>) = 1 /\ <<x>>[1] = x
    OBVIOUS
  <1>3. Len(s) \in Nat
    OBVIOUS
  <1> DEFINE a == <<x>>
             t == Tail(s)
  <1>4. /\ a \o t \in Seq(S) /\ Len(a \o t) = Len(a) + Len(t)
        /\ \A i \in 1 .. Len(a) + Len(t) : (a \o t)[i] = IF i <= Len(a) THEN a[i] ELSE t[i - Len(a)]
    BY <1>1, <1>2, ConcatProperties
  <1> HIDE DEF a, t
  <1>5. Len(a) = 1 /\ a[1] = x /\ Len(t) = Len(s) - 1 /\ Len(s) >= 1
    <2>1. Len(s) # 0
      OBVIOUS
    <2>2. QED
      BY <1>1, <1>2, <1>3, <2>1 DEF a, t
  <1>6. (a \o t)[1] = x /\ Len(a \o t) = Len(s)
    BY <1>3, <1>4, <1>5
  <1>7. ASSUME NEW j \in 2 .. Len(s) PROVE (a \o t)[j] = s[j]
    <2>1. (a \o t)[j] = t[j - 1]
      BY <1>3, <1>4, <1>5
    <2>2. PICK k \in 1 .. Len(s) - 1 : k = j - 1 /\ k + 1 = j
      BY <1>3
    <2>3. t[k] = s[k + 1]
      BY <1>1 DEF t
    <2>4. QED
      BY <2>1, <2>2, <2>3
  <1>8. QED
    BY <1>4, <1>6, <1>7 DEF a, t

LEMMA Pushed ==
  ASSUME NEW S, NEW s \in Seq(S), NEW x \in S
  PROVE  /\ Push(s, x) \in Seq(S) /\ Len(Push(s, x)) = Len(s) + 1
         /\ Push(s, x)[1] = x
         /\ \A j \in 1 .. Len(s) : Push(s, x)[j + 1] = s[j]
  <1>1. <<x>> \in Seq(S) /\ Len(<<x>>) = 1 /\ <<x>>[1] = x
    OBVIOUS
  <1> DEFINE a == <<x>>
  <1>2. /\ a \o s \in Seq(S) /\ Len(a \o s) = Len(a) + Len(s)
        /\ \A i \in 1 .. Len(a) + Len(s) : (a \o s)[i] = IF i <= Len(a) THEN a[i] ELSE s[i - Len(a)]
    BY <1>1, ConcatProperties
  <1>3. Len(a) = 1 /\ a[1] = x /\ Len(s) \in Nat
    BY <1>1
  <1> HIDE DEF a
  <1>4. Len(a \o s) = Len(s) + 1 /\ (a \o s)[1] = x
    BY <1>2, <1>3
  <1>5. ASSUME NEW j \in 1 .. Len(s) PROVE (a \o s)[j + 1] = s[j]
    <2>1. j + 1 \in 1 .. Len(a) + Len(s) /\ ~(j + 1 <= Len(a)) /\ j + 1 - Len(a) = j
      BY <1>3
    <2>2. QED
      BY <1>2, <2>1
  <1>6. QED
    BY <1>2, <1>4, <1>5 DEF a, Push

-----------------------------------------------------------------------------
(* One round of the enumeration.                                           *)
Top  == Head(walk.stack)
Kid  == children[Top.block][Top.i]

LEMMA TopFacts ==
  ASSUME ITypes, Still, walk \in Walking, walk.stack # <<>>,
         NEW E \in SUBSET Obj, Visiting(E)
  PROVE  /\ Top = walk.stack[1] /\ Top \in Frame /\ Len(walk.stack) \in Nat \ {0}
         /\ Enters(Top.block, E) /\ Top.i <= child_count[Top.block]
         /\ child_count[Top.block] \in Nat
         /\ \A i \in Members(Top.block) : children[Top.block][i] \in E <=> i < Top.i
  <1>1. walk.stack \in Seq(Frame)
    BY DEF Walking
  <1>2. Top = walk.stack[1] /\ Len(walk.stack) \in Nat \ {0} /\ walk.stack[1] \in Frame
    BY <1>1 DEF Top
  <1>3. 1 \in 1 .. Len(walk.stack)
    BY <1>2
  <1>4. QED
    BY <1>2, <1>3 DEF Visiting, Still, Frame

LEMMA RoundDone ==
  ASSUME ITypes, Still, walk \in Walking, NEW E \in SUBSET Obj, Visiting(E),
         Walk, Top.i >= child_count[Top.block]
  PROVE  /\ walk' \in Walking /\ Visiting(E)'
         /\ \E s \in Seq(Frame) : walk' = [walk EXCEPT !.stack = s]
  <1>1. walk.stack # <<>> /\ walk' = [walk EXCEPT !.stack = Tail(@)]
        /\ UNCHANGED <<children, child_count, kind, owner, returned>>
    BY DEF Walk, Top, lists, attrs
  <1>2. walk.stack \in Seq(Frame)
    BY DEF Walking
  <1> DEFINE s == walk.stack
             t == Tail(s)
  <1>3. /\ t \in Seq(Frame) /\ Len(t) = Len(s) - 1 /\ \A j \in 1 .. Len(t) : t[j] = s[j + 1]
        /\ Len(t) \in Nat
    BY <1>1, <1>2, HeadTailProperties
  <1>4. /\ Top = s[1] /\ Top \in Frame /\ Enters(Top.block, E)
        /\ Top.i <= child_count[Top.block] /\ child_count[Top.block] \in Nat
        /\ \A i \in Members(Top.block) : children[Top.block][i] \in E <=> i < Top.i
    BY <1>1, TopFacts
  <1> HIDE DEF s, t
  <1>5. walk' \in Walking /\ walk'.stack = t /\ walk'.root = walk.root /\ walk'.deep = walk.deep
    BY <1>1, <1>3 DEF Walking, s, t
  <1>6. \A b : Enters(b, E)' <=> Enters(b, E)
    BY <1>1, <1>5 DEF Enters
  <1>7. \A i \in Members(Top.block) : children[Top.block][i] \in E
    BY <1>4 DEF Members, Frame
  <1>8. \A j \in 1 .. Len(t) : j + 1 \in 1 .. Len(s)
    BY <1>3
  <1>9. \A j \in 1 .. Len(t) :
          LET f == t[j]
          IN  /\ Enters(f.block, E) /\ f.i <= child_count[f.block]
              /\ \A i \in Members(f.block) : children[f.block][i] \in E <=> i < f.i
    BY <1>3, <1>8 DEF Visiting, s
  <1>10. \A j, k \in 1 .. Len(t) : t[j].block = t[k].block => j = k
    <2>1. SUFFICES ASSUME NEW j \in 1 .. Len(t), NEW k \in 1 .. Len(t), t[j].block = t[k].block
                   PROVE  j = k
      OBVIOUS
    <2>2. j + 1 = k + 1
      BY <1>3, <1>8, <2>1 DEF Visiting, s
    <2>3. QED
      BY <2>2
  <1>11. \A b \in Block :
           Enters(b, E) /\ (\A j \in 1 .. Len(t) : t[j].block # b) =>
             \A i \in Members(b) : children[b][i] \in E
    <2>1. SUFFICES ASSUME NEW b \in Block, Enters(b, E), \A j \in 1 .. Len(t) : t[j].block # b,
                          b # Top.block
                   PROVE  \A i \in Members(b) : children[b][i] \in E
      BY <1>7
    <2>2. ASSUME NEW j \in 1 .. Len(s) PROVE s[j].block # b
      <3>1. CASE j = 1
        BY <1>4, <2>1, <3>1
      <3>2. CASE j # 1
        <4>1. PICK k \in 1 .. Len(t) : k + 1 = j
          BY <1>3, <3>2
        <4>2. QED
          BY <1>3, <2>1, <4>1
      <3>3. QED
        BY <3>1, <3>2
    <2>3. QED
      BY <2>1, <2>2 DEF Visiting, s
  <1>12. Visiting(E)'
    <2>1. \A b : Members(b)' = Members(b)
      BY <1>1 DEF Members
    <2>2. /\ E \subseteq returned' /\ Parent(walk.root)'
          /\ \A o \in E :
               walk'.root < o /\ (owner'[o] = walk'.root \/ (walk'.deep /\ owner'[o] \in E))
      BY <1>1, <1>5 DEF Visiting, Parent
    <2>3. QED
      BY <1>1, <1>5, <1>6, <1>9, <1>10, <1>11, <2>1, <2>2 DEF Visiting
  <1>13. QED
    BY <1>1, <1>3, <1>5, <1>12 DEF s, t

(* The member a round comes by.                                            *)
LEMMA KidFacts ==
  ASSUME ITypes, Still, walk \in Walking, walk.stack # <<>>,
         NEW E \in SUBSET Obj, Visiting(E), Top.i < child_count[Top.block]
  PROVE  /\ Top \in Frame /\ Kid \in returned /\ Kid \notin E /\ owner[Kid] = Top.block
         /\ walk.root < Kid /\ Kid \in Obj /\ Top.i \in Members(Top.block)
         /\ owner[Kid] = walk.root \/ (walk.deep /\ owner[Kid] \in E)
         /\ \A b \in Block : \A i \in Members(b) :
              children[b][i] = Kid => b = Top.block /\ i = Top.i
         /\ \A b \in Block : Enters(b, E) => b # Kid
  <1>1. /\ Top \in Frame /\ Enters(Top.block, E) /\ child_count[Top.block] \in Nat
        /\ \A i \in Members(Top.block) : children[Top.block][i] \in E <=> i < Top.i
    BY TopFacts
  <1>2. Top.i \in Members(Top.block) /\ Top.block \in Block /\ Top.i \in Nat
    BY <1>1 DEF Frame, Members
  <1>3. Kid \in returned /\ owner[Kid] = Top.block /\ Kid \notin E
    BY <1>1, <1>2 DEF Kid, Still
  <1>4. Kid \in Obj /\ Top.block # None
    <2>1. Top.block # None
      BY <1>2, RegistryAssumption DEF Block, Root, Obj, None
    <2>2. QED
      BY <1>3, <2>1 DEF Still
  <1>5. Top.block < Kid
    BY <1>3, <1>4 DEF Still
  <1>6. walk.root = Top.block \/ walk.root < Top.block
    BY <1>1 DEF Enters, Visiting
  <1>7. walk.root < Kid
    <2>1. walk.root \in Int /\ Top.block \in Int /\ Kid \in Int
      <3>1. walk.root \in Block
        BY DEF Walking
      <3>2. Block \subseteq Int
        BY RegistryAssumption DEF Block, Obj, Root
      <3>3. QED
        BY <1>2, <1>4, <3>1, <3>2 DEF Block
    <2>2. QED
      BY <1>5, <1>6, <2>1
  <1>8. owner[Kid] = walk.root \/ (walk.deep /\ owner[Kid] \in E)
    BY <1>1, <1>3 DEF Enters
  <1>9. ASSUME NEW b \in Block, NEW i \in Members(b), children[b][i] = Kid
        PROVE  b = Top.block /\ i = Top.i
    <2>1. b = Top.block
      BY <1>3, <1>9 DEF Still
    <2>2. children[Top.block][i] = children[Top.block][Top.i]
      BY <1>9, <2>1 DEF Kid
    <2>3. QED
      BY <1>2, <1>9, <2>1, <2>2 DEF Still
  <1>10. ASSUME NEW b \in Block, Enters(b, E) PROVE b # Kid
    <2>1. walk.root # Kid
      <3>1. walk.root \in Int
        <4>1. walk.root \in Block
          BY DEF Walking
        <4>2. QED
          BY <4>1, RegistryAssumption DEF Block, Obj, Root
      <3>2. QED
        BY <1>7, <3>1
    <2>2. QED
      BY <1>3, <1>10, <2>1 DEF Enters
  <1>11. QED
    BY <1>1, <1>2, <1>3, <1>4, <1>7, <1>8, <1>9, <1>10

(* A stack is in order, but for the blocks in Late, which are not done     *)
(* with and not on it either.                                              *)
InOrder(s, E, Late) ==
  /\ \A j \in 1 .. Len(s) :
       LET f == s[j]
       IN  /\ Enters(f.block, E) /\ f.i <= child_count[f.block]
           /\ \A i \in Members(f.block) : children[f.block][i] \in E <=> i < f.i
  /\ \A j, k \in 1 .. Len(s) : s[j].block = s[k].block => j = k
  /\ \A b \in Block \ Late :
       Enters(b, E) /\ (\A j \in 1 .. Len(s) : s[j].block # b) =>
         \A i \in Members(b) : children[b][i] \in E

Onward == <<[block |-> Top.block, i |-> Top.i + 1]>> \o Tail(walk.stack)

LEMMA OnwardInOrder ==
  ASSUME ITypes, Still, walk \in Walking, walk.stack # <<>>,
         NEW E \in SUBSET Obj, Visiting(E), Top.i < child_count[Top.block]
  PROVE  /\ Onward \in Seq(Frame) /\ InOrder(Onward, E \cup {Kid}, {Kid})
         /\ \A j \in 1 .. Len(Onward) : Onward[j].block # Kid
  <1>1. PICK s \in Seq(Frame) : s = walk.stack
    BY DEF Walking
  <1>2. PICK r : r = Onward
    OBVIOUS
  <1>3. /\ Top = s[1] /\ Top \in Frame /\ Len(s) \in Nat \ {0} /\ child_count[Top.block] \in Nat
        /\ Enters(Top.block, E) /\ Top.i <= child_count[Top.block]
        /\ \A i \in Members(Top.block) : children[Top.block][i] \in E <=> i < Top.i
    BY <1>1, TopFacts
  <1>4. /\ Kid \in returned /\ Kid \notin E
        /\ \A b \in Block : \A i \in Members(b) :
             children[b][i] = Kid => b = Top.block /\ i = Top.i
        /\ \A b \in Block : Enters(b, E) => b # Kid
        /\ Top.i \in Members(Top.block)
    BY KidFacts
  <1>5. PICK x \in Frame : x = [block |-> Top.block, i |-> Top.i + 1]
    <2>1. Top.block \in Block /\ Top.i \in Nat
      BY <1>3 DEF Frame
    <2>2. [block |-> Top.block, i |-> Top.i + 1] \in Frame
      BY <2>1 DEF Frame
    <2>3. QED
      BY <2>2
  <1>6. /\ r \in Seq(Frame) /\ Len(r) = Len(s) /\ r[1] = x
        /\ \A j \in 2 .. Len(s) : r[j] = s[j]
    <2>1. s # <<>>
      BY <1>1
    <2>2. r = <<x>> \o Tail(s)
      BY <1>1, <1>2, <1>5 DEF Onward
    <2>3. QED
      BY <2>1, <2>2, HeadReplaced
  <1>7. x.block = Top.block /\ x.i = Top.i + 1 /\ Top.i \in Nat /\ Top.block \in Block
    BY <1>3, <1>5 DEF Frame
  <1>8. \A j \in 1 .. Len(s) :
          LET f == s[j]
          IN  /\ Enters(f.block, E) /\ f.i <= child_count[f.block]
              /\ \A i \in Members(f.block) : children[f.block][i] \in E <=> i < f.i
    BY <1>1 DEF Visiting
  <1>9. \A j, k \in 1 .. Len(s) : s[j].block = s[k].block => j = k
    BY <1>1 DEF Visiting
  <1>10. \A j \in 1 .. Len(s) : r[j].block = s[j].block /\ s[j].block \in Block
    <2>1. ASSUME NEW j \in 1 .. Len(s) PROVE r[j].block = s[j].block /\ s[j].block \in Block
      <3>1. s[j] \in Frame
        BY <2>1
      <3>2. CASE j = 1
        BY <1>3, <1>6, <1>7, <3>2
      <3>3. CASE j # 1
        BY <1>3, <1>6, <3>1, <3>3 DEF Frame
      <3>4. QED
        BY <3>2, <3>3
    <2>2. QED
      BY <2>1
  <1>11. \A b : Enters(b, E) => Enters(b, E \cup {Kid})
    BY DEF Enters
  <1>12. ASSUME NEW j \in 1 .. Len(r)
         PROVE  LET f == r[j]
                IN  /\ Enters(f.block, E \cup {Kid}) /\ f.i <= child_count[f.block]
                    /\ \A i \in Members(f.block) :
                         children[f.block][i] \in E \cup {Kid} <=> i < f.i
    <2>1. j \in 1 .. Len(s)
      BY <1>6, <1>12
    <2>2. CASE j = 1
      <3>1. x.i <= child_count[x.block]
        BY <1>3, <1>7
      <3>2. ASSUME NEW i \in Members(Top.block)
            PROVE  children[Top.block][i] \in E \cup {Kid} <=> i < Top.i + 1
        <4>1. children[Top.block][i] = Kid <=> i = Top.i
          BY <1>4, <1>7, <3>2 DEF Kid
        <4>2. children[Top.block][i] \in E <=> i < Top.i
          BY <1>3, <3>2
        <4>3. i \in Int /\ Top.i \in Int
          BY <1>3, <1>7, <3>2 DEF Members
        <4>4. i < Top.i + 1 <=> i < Top.i \/ i = Top.i
          BY <4>3
        <4>5. QED
          BY <4>1, <4>2, <4>4
      <3>3. QED
        BY <1>3, <1>6, <1>7, <1>11, <2>2, <3>1, <3>2
    <2>3. CASE j # 1
      <3>1. r[j] = s[j]
        BY <1>3, <1>6, <2>1, <2>3
      <3>2. s[j].block # Top.block
        BY <1>3, <1>9, <2>1, <2>3
      <3>3. \A i \in Members(s[j].block) : children[s[j].block][i] # Kid
        BY <1>4, <1>10, <2>1, <3>2
      <3>4. QED
        BY <1>8, <1>11, <2>1, <3>1, <3>3
    <2>4. QED
      BY <2>2, <2>3
  <1>13. \A j, k \in 1 .. Len(r) : r[j].block = r[k].block => j = k
    BY <1>6, <1>9, <1>10
  <1>14. ASSUME NEW b \in Block \ {Kid}, Enters(b, E \cup {Kid}),
                \A j \in 1 .. Len(r) : r[j].block # b
         PROVE  \A i \in Members(b) : children[b][i] \in E \cup {Kid}
    <2>1. Enters(b, E)
      BY <1>14 DEF Enters
    <2>2. \A j \in 1 .. Len(s) : s[j].block # b
      BY <1>6, <1>10, <1>14
    <2>3. QED
      BY <1>1, <2>1, <2>2 DEF Visiting
  <1>15. \A j \in 1 .. Len(r) : r[j].block # Kid
    BY <1>4, <1>6, <1>8, <1>10
  <1>16. QED
    BY <1>2, <1>6, <1>12, <1>13, <1>14, <1>15 DEF InOrder

(* A round that finds a member comes by one more: it counts it or writes   *)
(* it out, and goes into it if it is a block.                              *)
LEMMA RoundVisits ==
  ASSUME ITypes, Still, walk \in Walking, NEW E \in SUBSET Obj, Visiting(E),
         Walk, Top.i < child_count[Top.block]
  PROVE  \E c \in returned \ E :
           /\ Visiting(E \cup {c})'
           /\ \E s \in Seq(Frame) :
                walk' = [walk EXCEPT
                           !.stack = s,
                           !.n = IF walk.phase = "count" THEN @ + 1 ELSE @,
                           !.emitted = IF walk.phase = "emit" THEN Append(@, c) ELSE @]
  <1>1. walk.stack # <<>> /\ UNCHANGED <<children, child_count, kind, owner, returned>>
    BY DEF Walk, lists, attrs
  <1>2. PICK c : c = Kid
    OBVIOUS
  <1>3. /\ Top \in Frame /\ c \in returned /\ c \notin E /\ owner[c] = Top.block
        /\ walk.root < c /\ c \in Obj /\ Top.i \in Members(Top.block)
        /\ owner[c] = walk.root \/ (walk.deep /\ owner[c] \in E)
        /\ \A b \in Block : Enters(b, E) => b # c
    BY <1>1, <1>2, KidFacts
  <1>4. PICK r : r = Onward
    OBVIOUS
  <1>5. /\ r \in Seq(Frame) /\ InOrder(r, E \cup {c}, {c})
        /\ \A j \in 1 .. Len(r) : r[j].block # c
    BY <1>1, <1>2, <1>4, OnwardInOrder
  <1>6. PICK new \in Frame : new = [block |-> c, i |-> 0]
    BY <1>3 DEF Frame, Block
  <1>7. PICK s : s = IF walk.deep /\ kind[c] = "block" THEN Push(r, new) ELSE r
    OBVIOUS
  <1>8. walk' = [walk EXCEPT
                   !.stack = s,
                   !.n = IF walk.phase = "count" THEN @ + 1 ELSE @,
                   !.emitted = IF walk.phase = "emit" THEN Append(@, c) ELSE @]
    <2>1. /\ Top.block \notin moved /\ children[Top.block][Top.i] = c /\ c # None
          /\ ~(Top.i >= child_count[Top.block])
      <3>1. c # None
        BY <1>3, RegistryAssumption DEF Obj, None
      <3>2. ~(Top.i >= child_count[Top.block])
        <4>1. Top.i \in Nat /\ child_count[Top.block] \in Nat
          BY <1>3 DEF Frame, Still
        <4>2. QED
          BY <4>1
      <3>3. QED
        BY <1>2, <3>1, <3>2 DEF Still, Kid
    <2>2. [Top EXCEPT !.i = @ + 1] = [block |-> Top.block, i |-> Top.i + 1]
      BY <1>3 DEF Frame
    <2>3. r = <<[Top EXCEPT !.i = @ + 1]>> \o Tail(walk.stack)
      BY <1>4, <2>2 DEF Onward
    <2>4. s = IF walk.deep /\ c # None /\ kind[c] = "block"
              THEN Push(r, [block |-> c, i |-> 0]) ELSE r
      BY <1>6, <1>7, <2>1
    <2>5. walk' = [walk EXCEPT
                     !.stack = IF walk.deep /\ c # None /\ kind[c] = "block"
                               THEN Push(r, [block |-> c, i |-> 0]) ELSE r,
                     !.n = IF walk.phase = "count" THEN @ + 1 ELSE @,
                     !.emitted = IF walk.phase = "emit" THEN Append(@, c) ELSE @]
      BY <2>1, <2>3, Zenon DEF Walk, Top
    <2>6. QED
      BY <2>4, <2>5
  <1>13. c # walk.root
    <2>1. walk.root \in Block /\ Enters(walk.root, E)
      BY DEF Walking, Enters
    <2>2. QED
      BY <1>3, <2>1
  <1>9. s \in Seq(Frame) /\ InOrder(s, E \cup {c}, {})
    <2>1. CASE ~(walk.deep /\ kind[c] = "block")
      <3>1. s = r
        BY <1>7, <2>1
      <3>2. c # walk.root
        BY <1>13
      <3>3. ~Enters(c, E \cup {c})
        BY <2>1, <3>2 DEF Enters
      <3>4. QED
        BY <1>5, <3>1, <3>3 DEF InOrder
    <2>2. CASE walk.deep /\ kind[c] = "block"
      <3>1. s = Push(r, new)
        BY <1>7, <2>2
      <3>2. /\ s \in Seq(Frame) /\ Len(s) = Len(r) + 1 /\ s[1] = new
            /\ \A j \in 1 .. Len(r) : s[j + 1] = r[j]
        <4>1. /\ Push(r, new) \in Seq(Frame) /\ Len(Push(r, new)) = Len(r) + 1
              /\ Push(r, new)[1] = new
              /\ \A j \in 1 .. Len(r) : Push(r, new)[j + 1] = r[j]
          <5>1. r \in Seq(Frame) /\ new \in Frame
            BY <1>5, <1>6
          <5>2. QED
            BY <5>1, Pushed
        <4>2. QED
          BY <3>1, <4>1
      <3>3. Len(r) \in Nat /\ new.block = c /\ new.i = 0
        BY <1>5, <1>6
      <3>4. Enters(c, E \cup {c})
        BY <2>2 DEF Enters
      <3>5. c \in Block /\ child_count[c] \in Nat
        BY <1>3 DEF Block, Still
      <3>6. ASSUME NEW i \in Members(c) PROVE children[c][i] \notin E \cup {c}
        <4>1. children[c][i] \in returned /\ owner[children[c][i]] = c
          BY <3>5 DEF Still
        <4>2. c # walk.root
          BY <1>13
        <4>3. children[c][i] \notin E
          BY <1>3, <4>1, <4>2 DEF Visiting
        <4>4. children[c][i] # c
          <5>1. c \in Int /\ c # None
            BY <1>3, RegistryAssumption DEF Obj, None
          <5>2. c < children[c][i]
            BY <3>5, <4>1, <5>1 DEF Still
          <5>3. QED
            BY <5>1, <5>2
        <4>5. QED
          BY <4>3, <4>4
      <3>7. \A i \in Members(c) : ~(i < 0)
        BY DEF Members
      <3>8. \A j \in 1 .. Len(s) : j = 1 \/ \E k \in 1 .. Len(r) : j = k + 1
        <4>1. ASSUME NEW j \in 1 .. Len(s), j # 1 PROVE j - 1 \in 1 .. Len(r) /\ j = (j - 1) + 1
          BY <3>2, <3>3, <4>1
        <4>2. QED
          BY <4>1
      <3>9. ASSUME NEW j \in 1 .. Len(s)
            PROVE  LET f == s[j]
                   IN  /\ Enters(f.block, E \cup {c}) /\ f.i <= child_count[f.block]
                       /\ \A i \in Members(f.block) :
                            children[f.block][i] \in E \cup {c} <=> i < f.i
        <4>1. CASE j = 1
          BY <3>2, <3>3, <3>4, <3>5, <3>6, <3>7, <4>1
        <4>2. CASE j # 1
          <5>1. PICK k \in 1 .. Len(r) : j = k + 1
            BY <3>8, <4>2
          <5>2. s[j] = r[k]
            BY <3>2, <5>1
          <5>3. QED
            BY <1>5, <5>2 DEF InOrder
        <4>3. QED
          BY <4>1, <4>2
      <3>10. ASSUME NEW j \in 1 .. Len(s), NEW k \in 1 .. Len(s), s[j].block = s[k].block
             PROVE  j = k
        <4>1. CASE j = 1 /\ k = 1
          BY <4>1
        <4>2. CASE j = 1 /\ k # 1
          BY <1>5, <3>2, <3>3, <3>8, <3>10, <4>2
        <4>3. CASE j # 1 /\ k = 1
          BY <1>5, <3>2, <3>3, <3>8, <3>10, <4>3
        <4>4. CASE j # 1 /\ k # 1
          <5>1. PICK p \in 1 .. Len(r), q \in 1 .. Len(r) : j = p + 1 /\ k = q + 1
            BY <3>8, <4>4
          <5>2. r[p].block = r[q].block
            BY <3>2, <3>10, <5>1
          <5>3. QED
            BY <1>5, <5>1, <5>2 DEF InOrder
        <4>5. QED
          BY <4>1, <4>2, <4>3, <4>4
      <3>11. ASSUME NEW b \in Block, Enters(b, E \cup {c}), \A j \in 1 .. Len(s) : s[j].block # b
             PROVE  \A i \in Members(b) : children[b][i] \in E \cup {c}
        <4>1. b # c
          BY <3>2, <3>3, <3>11
        <4>2. \A j \in 1 .. Len(r) : r[j].block # b
          <5>1. ASSUME NEW j \in 1 .. Len(r) PROVE r[j].block # b
            <6>1. j + 1 \in 1 .. Len(s) /\ s[j + 1] = r[j]
              BY <3>2, <3>3
            <6>2. QED
              BY <3>11, <6>1
          <5>2. QED
            BY <5>1
        <4>3. QED
          BY <1>5, <3>11, <4>1, <4>2 DEF InOrder
      <3>12. QED
        BY <3>2, <3>9, <3>10, <3>11 DEF InOrder
    <2>3. QED
      BY <2>1, <2>2
  <1>10. walk'.stack = s /\ walk'.root = walk.root /\ walk'.deep = walk.deep
    BY <1>8 DEF Walking
  <1>11. Visiting(E \cup {c})'
    <2>1. PICK F : F = E \cup {c}
      OBVIOUS
    <2>2. \A b : Enters(b, F)' <=> Enters(b, F)
      BY <1>1, <1>10 DEF Enters
    <2>3. \A b : Members(b)' = Members(b)
      BY <1>1 DEF Members
    <2>4. F \subseteq returned /\ Parent(walk.root)
      BY <1>3, <2>1 DEF Visiting
    <2>5. \A o \in F : walk.root < o /\ (owner[o] = walk.root \/ (walk.deep /\ owner[o] \in F))
      BY <1>3, <2>1 DEF Visiting
    <2>6. InOrder(s, F, {})
      BY <1>9, <2>1
    <2>7. Parent(walk.root)'
      BY <1>1, <1>10, <2>4 DEF Parent
    <2>8. Visiting(F)'
      BY <1>1, <1>10, <2>2, <2>3, <2>4, <2>5, <2>6, <2>7 DEF Visiting, InOrder
    <2>9. QED
      BY <2>1, <2>8
  <1>12. QED
    BY <1>3, <1>8, <1>9, <1>11

(* What the enumeration has to show for the members it has come by: their  *)
(* number the first time round, then the members in a row, each once.      *)
Shown(E) ==
  /\ walk.phase = "count" => walk.emitted = <<>> /\ walk.n = Cardinality(E)
  /\ walk.phase = "emit" =>
       /\ \E W \in SUBSET Obj : Included(W) /\ walk.n = Cardinality(W)
       /\ Len(walk.emitted) = Cardinality(E)
       /\ \A o : o \in E <=> \E k \in 1 .. Len(walk.emitted) : walk.emitted[k] = o
       /\ \A k, l \in 1 .. Len(walk.emitted) : walk.emitted[k] = walk.emitted[l] => k = l

IWalk ==
  /\ walk \in Walking
  /\ walk.phase = "none" => walk.stack = <<>>
  /\ walk.phase # "none" =>
       lock = Server /\ \E E \in SUBSET Obj : Visiting(E) /\ Shown(E)

ICoherent == IInv /\ ITree /\ IWhole /\ IWalk

LEMMA FiniteObjects ==
  ASSUME NEW E \in SUBSET Obj
  PROVE  IsFiniteSet(E) /\ Cardinality(E) \in Nat
  <1>1. IsFiniteSet(Obj)
    BY RegistryAssumption, FS_Interval DEF Obj
  <1>2. IsFiniteSet(E)
    BY <1>1, FS_Subset
  <1>3. QED
    BY <1>2, FS_CardinalityType

LEMMA CoherentStart == Init => ICoherent
  <1> SUFFICES ASSUME Init PROVE ICoherent
    OBVIOUS
  <1>1. IInv /\ ITree
    BY InitEstablishes, TreeStart
  <1>2. IWhole
    BY RegistryAssumption DEF Init, IWhole, Index, None
  <1>3. walk = NoWalk
    BY DEF Init
  <1>4. IWalk
    BY <1>3 DEF IWalk, NoWalk, Walking, Block
  <1>5. QED
    BY <1>1, <1>2, <1>4 DEF ICoherent

(* A constructor finds the enumeration with the lock, or not under way.    *)
LEMMA ConstructWalk ==
  ASSUME Locked, IInv, IWalk, NEW t \in Task, Construct(t)
  PROVE  IWalk'
  <1>1. walk' = walk
    BY DEF Construct, Enter, ReadNumber, BumpNumber, Refuse, Allocate, Register, StoreObject,
           CountObject, Grow, GrowFails, UpdateList, ReadPlace, AddMember, StoreMember,
           CountMember, Finish
  <1>2. CASE walk.phase = "none"
    BY <1>1, <1>2 DEF IWalk
  <1>3. CASE walk.phase # "none"
    <2>1. lock = Server
      BY <1>3 DEF IWalk
    <2>2. pc[t] = "idle"
      BY <2>1, LockedOut
    <2>3. \E k \in {"plain", "block", "grouper", "group"}, b \in Block : Enter(t, k, b)
      BY <2>2 DEF Construct, ReadNumber, BumpNumber, Refuse, Allocate, Register, StoreObject,
                  CountObject, Grow, GrowFails, UpdateList, ReadPlace, AddMember, StoreMember,
                  CountMember, Finish
    <2>4. lock = Free
      BY <2>3 DEF Enter, Locked, TakesLock
    <2>5. QED
      BY <2>1, <2>4, RegistryAssumption DEF Free
  <1>4. QED
    BY <1>2, <1>3

LEMMA FromTheTop ==
  ASSUME NEW r \in Block, Parent(r), child_count \in [Block -> Nat],
         UNCHANGED <<child_count, children, kind, owner, returned>>,
         walk'.root = r, walk'.stack = <<[block |-> r, i |-> 0]>>
  PROVE  Visiting({})'
  <1> DEFINE s == <<[block |-> r, i |-> 0]>>
  <1>1. Len(s) = 1 /\ s[1].block = r /\ s[1].i = 0
    OBVIOUS
  <1>2. \A j \in 1 .. Len(s) : j = 1
    BY <1>1
  <1> HIDE DEF s
  <1>3. walk'.stack = s /\ Enters(r, {})' /\ 0 <= child_count[r]
    BY DEF s, Enters
  <1>4. \A i \in Members(r) : ~(i < 0)
    BY DEF Members
  <1>5. \A b : Enters(b, {})' => b = r
    BY DEF Enters
  <1>6. Parent(walk.root)' /\ Members(r)' = Members(r)
    BY DEF Parent, Members
  <1>7. QED
    BY <1>1, <1>2, <1>3, <1>4, <1>5, <1>6 DEF Visiting

LEMMA StartWalkKeeps ==
  ASSUME IInv, IWalk, NEW b \in Block, NEW deep \in BOOLEAN,
         b = Root \/ (b \in returned /\ kind[b] = "block"), StartWalk(b, deep)
  PROVE  IWalk'
  <1>1. /\ lock' = Server /\ UNCHANGED <<children, child_count, kind, owner, returned>>
        /\ walk' = [NoWalk EXCEPT !.phase = "count", !.root = b, !.deep = deep,
                                  !.stack = <<[block |-> b, i |-> 0]>>]
    BY DEF StartWalk, lists, attrs
  <1>2. /\ walk'.phase = "count" /\ walk'.root = b /\ walk'.deep = deep /\ walk'.n = 0
        /\ walk'.stack = <<[block |-> b, i |-> 0]>> /\ walk'.emitted = <<>>
    BY <1>1 DEF NoWalk
  <1>3. walk' \in Walking
    <2>1. [block |-> b, i |-> 0] \in Frame
      BY DEF Frame
    <2>2. <<[block |-> b, i |-> 0]>> \in Seq(Frame) /\ <<>> \in Seq(Obj)
      BY <2>1
    <2>3. QED
      BY <1>1, <2>2 DEF NoWalk, Walking
  <1>4. Visiting({})'
    <2>1. Parent(b) /\ child_count \in [Block -> Nat]
      BY DEF Parent, IInv, ITypes
    <2>2. QED
      BY <1>1, <1>2, <2>1, FromTheTop
  <1>5. Shown({})'
    BY <1>2, FS_EmptySet DEF Shown
  <1>6. QED
    BY <1>1, <1>2, <1>3, <1>4, <1>5 DEF IWalk

LEMMA StartEmitKeeps ==
  ASSUME IInv, Still, IWalk, StartEmit
  PROVE  IWalk'
  <1>1. /\ walk.phase = "count" /\ walk.stack = <<>>
        /\ UNCHANGED <<lock, children, child_count, kind, owner, returned>>
        /\ walk' = [walk EXCEPT !.phase = "emit", !.stack = <<[block |-> walk.root, i |-> 0]>>]
    BY DEF StartEmit, lists, attrs
  <1>2. walk \in Walking /\ lock = Server
    BY <1>1 DEF IWalk
  <1>3. /\ walk'.phase = "emit" /\ walk'.root = walk.root /\ walk'.deep = walk.deep
        /\ walk'.stack = <<[block |-> walk.root, i |-> 0]>>
        /\ walk'.emitted = walk.emitted /\ walk'.n = walk.n
    BY <1>1, <1>2 DEF Walking
  <1>4. PICK E \in SUBSET Obj : Visiting(E) /\ Shown(E)
    BY <1>1 DEF IWalk
  <1>5. Included(E)
    BY <1>1, <1>2, <1>4, VisitedAll
  <1>6. Included(E)'
    BY <1>1, <1>3, <1>5 DEF Included
  <1>7. walk.root \in Block
    BY <1>2 DEF Walking
  <1>8. walk' \in Walking
    <2>1. [block |-> walk.root, i |-> 0] \in Frame
      BY <1>7 DEF Frame
    <2>2. <<[block |-> walk.root, i |-> 0]>> \in Seq(Frame)
      BY <2>1
    <2>3. QED
      BY <1>1, <1>2, <2>2 DEF Walking
  <1>9. Visiting({})'
    <2>1. Parent(walk.root) /\ child_count \in [Block -> Nat]
      BY <1>4 DEF Visiting, IInv, ITypes
    <2>2. QED
      BY <1>1, <1>3, <1>7, <2>1, FromTheTop
  <1>10. Shown({})'
    <2>1. walk.n = Cardinality(E) /\ walk.emitted = <<>>
      BY <1>1, <1>4 DEF Shown
    <2>2. Len(<<>>) = 0 /\ Cardinality({}) = 0
      BY FS_EmptySet
    <2>3. QED
      BY <1>3, <1>6, <2>1, <2>2 DEF Shown
  <1>11. QED
    BY <1>1, <1>2, <1>3, <1>8, <1>9, <1>10 DEF IWalk

LEMMA RoundKeeps ==
  ASSUME IInv, Still, IWalk, Walk
  PROVE  IWalk'
  <1>1. walk.stack # <<>> /\ UNCHANGED <<lock, owner, returned>>
    BY DEF Walk, attrs
  <1>2. walk \in Walking /\ walk.phase # "none" /\ lock = Server /\ ITypes
    BY <1>1 DEF IWalk, IInv
  <1>3. PICK E \in SUBSET Obj : Visiting(E) /\ Shown(E)
    BY <1>1 DEF IWalk
  <1>4. walk.phase \in {"count", "emit"} /\ walk.n \in Nat /\ walk.emitted \in Seq(Obj)
    BY <1>2 DEF Walking
  <1>5. CASE Top.i >= child_count[Top.block]
    <2>1. PICK s \in Seq(Frame) : walk' = [walk EXCEPT !.stack = s]
      BY <1>2, <1>3, <1>5, RoundDone
    <2>2. walk' \in Walking /\ Visiting(E)'
      BY <1>2, <1>3, <1>5, RoundDone
    <2>3. /\ walk'.phase = walk.phase /\ walk'.n = walk.n /\ walk'.emitted = walk.emitted
          /\ walk'.root = walk.root /\ walk'.deep = walk.deep
      BY <1>2, <2>1 DEF Walking
    <2>4. \A W : Included(W)' <=> Included(W)
      BY <1>1, <2>3 DEF Included
    <2>5. Shown(E)'
      BY <1>3, <2>3, <2>4 DEF Shown
    <2>6. QED
      BY <1>1, <1>2, <2>2, <2>3, <2>5 DEF IWalk
  <1>6. CASE ~(Top.i >= child_count[Top.block])
    <2>1. Top.i < child_count[Top.block]
      <3>1. Top \in Frame /\ child_count[Top.block] \in Nat
        BY <1>1, <1>2, <1>3, TopFacts
      <3>2. Top.i \in Nat
        BY <3>1 DEF Frame
      <3>3. QED
        BY <1>6, <3>1, <3>2
    <2>2. PICK c \in returned \ E :
            /\ Visiting(E \cup {c})'
            /\ \E s \in Seq(Frame) :
                 walk' = [walk EXCEPT
                            !.stack = s,
                            !.n = IF walk.phase = "count" THEN @ + 1 ELSE @,
                            !.emitted = IF walk.phase = "emit" THEN Append(@, c) ELSE @]
      BY <1>2, <1>3, <2>1, RoundVisits
    <2>3. PICK s \in Seq(Frame) :
                 walk' = [walk EXCEPT
                            !.stack = s,
                            !.n = IF walk.phase = "count" THEN @ + 1 ELSE @,
                            !.emitted = IF walk.phase = "emit" THEN Append(@, c) ELSE @]
      BY <2>2
    <2>4. /\ walk'.phase = walk.phase /\ walk'.root = walk.root /\ walk'.deep = walk.deep
          /\ walk'.stack = s
          /\ walk'.n = IF walk.phase = "count" THEN walk.n + 1 ELSE walk.n
          /\ walk'.emitted = IF walk.phase = "emit" THEN Append(walk.emitted, c)
                             ELSE walk.emitted
      BY <1>2, <2>3 DEF Walking
    <2>5. c \in Obj /\ c \notin E /\ E \cup {c} \in SUBSET Obj
      BY <2>2 DEF Still
    <2>6. /\ Append(walk.emitted, c) \in Seq(Obj)
          /\ Len(Append(walk.emitted, c)) = Len(walk.emitted) + 1
          /\ \A k \in 1 .. Len(walk.emitted) : Append(walk.emitted, c)[k] = walk.emitted[k]
          /\ Append(walk.emitted, c)[Len(walk.emitted) + 1] = c
      BY <1>4, <2>5, AppendProperties
    <2>7. walk' \in Walking
      <3>1. PICK n, e : /\ n = IF walk.phase = "count" THEN walk.n + 1 ELSE walk.n
                        /\ e = IF walk.phase = "emit" THEN Append(walk.emitted, c)
                               ELSE walk.emitted
        OBVIOUS
      <3>2. n \in Nat /\ e \in Seq(Obj)
        BY <1>4, <2>6, <3>1
      <3>3. walk' = [walk EXCEPT !.stack = s, !.n = n, !.emitted = e]
        BY <2>3, <3>1
      <3>4. QED
        BY <1>2, <3>2, <3>3 DEF Walking
    <2>8. Cardinality(E \cup {c}) = Cardinality(E) + 1 /\ Cardinality(E) \in Nat
      BY <2>5, FiniteObjects, FS_AddElement
    <2>9. Shown(E \cup {c})'
      <3>1. CASE walk.phase = "count"
        BY <1>3, <2>4, <2>8, <3>1 DEF Shown
      <3>2. CASE walk.phase = "emit"
        <4>1. /\ \E W \in SUBSET Obj : Included(W) /\ walk.n = Cardinality(W)
              /\ Len(walk.emitted) = Cardinality(E)
              /\ \A o : o \in E <=> \E k \in 1 .. Len(walk.emitted) : walk.emitted[k] = o
              /\ \A k, l \in 1 .. Len(walk.emitted) :
                   walk.emitted[k] = walk.emitted[l] => k = l
          BY <1>3, <3>2 DEF Shown
        <4>2. PICK e, m : e = walk.emitted /\ m = Len(walk.emitted)
          OBVIOUS
        <4>3. PICK a : a = Append(e, c)
          OBVIOUS
        <4>4. /\ walk'.emitted = a /\ Len(a) = m + 1 /\ m \in Nat /\ a[m + 1] = c
              /\ \A k \in 1 .. m : a[k] = e[k]
          BY <1>4, <2>4, <2>6, <3>2, <4>2, <4>3
        <4>5. \A k \in 1 .. m + 1 : k \in 1 .. m \/ k = m + 1
          BY <4>4
        <4>6. \A k \in 1 .. m : k \in 1 .. m + 1
          BY <4>4
        <4>7. m + 1 \in 1 .. m + 1 /\ m + 1 \notin 1 .. m
          BY <4>4
        <4>8. \A o : o \in E \cup {c} <=> \E k \in 1 .. m + 1 : a[k] = o
          BY <4>1, <4>2, <4>4, <4>5, <4>6, <4>7
        <4>9. \A k, l \in 1 .. m + 1 : a[k] = a[l] => k = l
          <5>1. \A k \in 1 .. m : a[k] # c
            BY <2>5, <4>1, <4>2, <4>4
          <5>2. QED
            BY <4>1, <4>2, <4>4, <4>5, <5>1
        <4>10. m + 1 = Cardinality(E \cup {c})
          BY <2>8, <4>1, <4>2
        <4>11. \E W \in SUBSET Obj : Included(W)' /\ walk'.n = Cardinality(W)
          <5>1. walk'.n = walk.n
            BY <2>4, <3>2
          <5>2. \A W : Included(W)' <=> Included(W)
            BY <1>1, <2>4 DEF Included
          <5>3. QED
            BY <4>1, <5>1, <5>2
        <4>12. walk'.phase # "count"
          BY <2>4, <3>2
        <4>13. QED
          BY <4>4, <4>8, <4>9, <4>10, <4>11, <4>12 DEF Shown
      <3>3. QED
        BY <1>4, <3>1, <3>2
    <2>10. QED
      BY <1>1, <1>2, <2>2, <2>4, <2>5, <2>7, <2>9 DEF IWalk
  <1>7. QED
    BY <1>5, <1>6

LEMMA WalkStep ==
  ASSUME Locked, ICoherent, [Next]_vars
  PROVE  IWalk'
  <1>1. IInv /\ ITree /\ IWalk
    BY DEF ICoherent
  <1>2. CASE UNCHANGED vars
    <2>1. UNCHANGED <<lock, walk, children, child_count, kind, owner, returned>>
      BY <1>2 DEF vars, lists, attrs
    <2>2. \A E : Visiting(E)' <=> Visiting(E)
      BY <2>1 DEF Visiting, Enters, Members, Parent
    <2>3. \A E : Shown(E)' <=> Shown(E)
      BY <2>1 DEF Shown, Included
    <2>4. QED
      BY <1>1, <2>1, <2>2, <2>3 DEF IWalk
  <1>3. ASSUME NEW t \in Task, Construct(t) PROVE IWalk'
    BY <1>1, <1>3, ConstructWalk
  <1>4. CASE \E blk \in Block, deep \in BOOLEAN :
               (blk = Root \/ (blk \in returned /\ kind[blk] = "block")) /\ StartWalk(blk, deep)
    BY <1>1, <1>4, StartWalkKeeps
  <1>5. ASSUME walk.phase # "none" PROVE Still
    BY <1>1, <1>5, LockedOut, StillWhenIdle DEF IWalk
  <1>6. CASE Walk
    BY <1>1, <1>5, <1>6, RoundKeeps DEF IWalk, Walk
  <1>7. CASE StartEmit
    BY <1>1, <1>5, <1>7, StartEmitKeeps DEF StartEmit
  <1>8. CASE EndWalk
    <2>1. walk' = NoWalk
      BY <1>8 DEF EndWalk
    <2>2. QED
      BY <2>1 DEF IWalk, NoWalk, Walking, Block
  <1>9. QED
    BY <1>2, <1>3, <1>4, <1>6, <1>7, <1>8 DEF Next, Enumerate

(* An enumeration that is being answered lists the members that are there, *)
(* each once, as many as it has announced and all of them set up, while    *)
(* any number of tasks build the tree.                                     *)
THEOREM EnumerationsCoherent ==
  ASSUME Locked
  PROVE  Spec => []EnumerationCoherent
<1>1. Init => ICoherent
  BY CoherentStart
<1>2. ICoherent /\ [Next]_vars => ICoherent'
  <2> SUFFICES ASSUME ICoherent, [Next]_vars PROVE ICoherent'
    OBVIOUS
  <2>1. IInv'
    BY LockedInvariantStep DEF ICoherent
  <2>2. ITree'
    BY TreeStep DEF ICoherent
  <2>3. IWhole'
    BY ConstructWhole, OthersWhole DEF ICoherent, Next
  <2>4. IWalk'
    BY WalkStep
  <2> QED
    BY <2>1, <2>2, <2>3, <2>4 DEF ICoherent
<1>3. ICoherent => EnumerationCoherent
  <2> SUFFICES ASSUME ICoherent, walk.phase = "emit", walk.stack = <<>>
               PROVE  LET e == walk.emitted
                      IN  /\ walk.n = Len(e)
                          /\ {e[k] : k \in DOMAIN e} = Present(walk.root, walk.deep)
                          /\ \A k, l \in DOMAIN e : k # l => e[k] # e[l]
                          /\ \A k \in DOMAIN e : e[k] # None /\ ready[e[k]]
    BY DEF EnumerationCoherent
  <2>1. /\ ITypes /\ IAges /\ IWhole /\ walk \in Walking /\ lock = Server /\ IInv /\ ITree
        /\ walk.emitted \in Seq(Obj)
    BY DEF ICoherent, IWalk, Walking, IInv, ITree
  <2>2. Still
    BY <2>1, LockedOut, StillWhenIdle
  <2>3. PICK E \in SUBSET Obj : Visiting(E) /\ Shown(E)
    BY DEF ICoherent, IWalk
  <2>4. E = Present(walk.root, walk.deep)
    BY <2>1, <2>2, <2>3, VisitedAll, OnlyPresentIncluded
  <2>5. PICK W \in SUBSET Obj : Included(W) /\ walk.n = Cardinality(W)
    BY <2>3 DEF Shown
  <2>6. W = E
    BY <2>1, <2>2, <2>4, <2>5, OnlyPresentIncluded
  <2>7. PICK e \in Seq(Obj) : e = walk.emitted
    BY <2>1
  <2>8. /\ Len(e) = Cardinality(E)
        /\ \A o : o \in E <=> \E k \in DOMAIN e : e[k] = o
        /\ \A k, l \in DOMAIN e : e[k] = e[l] => k = l
    BY <2>3, <2>7 DEF Shown
  <2>9. {e[k] : k \in DOMAIN e} = E
    BY <2>8
  <2>10. E \subseteq returned /\ E \subseteq Obj
    BY <2>3 DEF Visiting
  <2>11. \A o \in E : o # None /\ ready[o]
    <3>1. \A o \in Obj : o # None
      BY RegistryAssumption DEF Obj, None
    <3>2. QED
      BY <2>1, <2>10, <3>1 DEF IWhole
  <2>12. \A k \in DOMAIN e : e[k] \in E
    BY <2>9
  <2> QED
    BY <2>4, <2>5, <2>6, <2>7, <2>8, <2>9, <2>11, <2>12
<1> QED
  BY <1>1, <1>2, <1>3, PTL DEF Spec

-----------------------------------------------------------------------------
(* The texts.                                                              *)

USE SharedTextsAssumption DEF SharedTextsAssumption

(* What a setter has loaded is still the text when it stores the new one:  *)
(* this is what the lock is for.                                           *)
LoadedIsText == \A t \in TextTask : call[t].at = "loaded" => call[t].old = text[call[t].text]

(* A setter that is done with its copy has given it away.                  *)
CopyStored == \A t \in TextTask : call[t].at \in {"idle", "stored", "given"} => call[t].copy = Null

(* What is read and was not set again is the text.                         *)
ReadsText ==
  \A t \in TextTask : reading[t] # Null /\ ~replaced[t] => reading[t] = text[ReadBy(t)]

TextsInv == TextsTypeOK /\ OneHolder /\ LoadedIsText /\ CopyStored /\ ReadsText

CallType ==
  [at : {"idle", "copied", "locked", "loaded", "stored", "given"},
   text : Text, copy : HeapBlock \cup {Null}, old : HeapBlock \cup {Null}]

-----------------------------------------------------------------------------
LEMMA HolderKinds ==
  ASSUME NEW b
  PROVE  /\ \A x \in Text : <<"text", x>> \in Holders(b) <=> text[x] = b
         /\ \A t \in TextTask : <<"copy", t>> \in Holders(b) <=> call[t].copy = b
         /\ \A t \in TextTask : <<"old", t>> \in Holders(b)
                              <=> call[t].at \in {"stored", "given"} /\ call[t].old = b
         /\ \A h \in Holders(b) : \/ \E x \in Text : h = <<"text", x>>
                                  \/ \E t \in TextTask : h = <<"copy", t>> \/ h = <<"old", t>>
  BY DEF Holders

LEMMA TextsInitInv == TextsInit => TextsInv
  <1> SUFFICES ASSUME TextsInit PROVE TextsInv
    OBVIOUS
  <1>1. Idle \in CallType
    BY DEF Idle, CallType, Text
  <1>2. TextsTypeOK
    BY <1>1 DEF TextsInit, TextsTypeOK, CallType, Inside, Idle, Text
  <1>3. ASSUME NEW b \in HeapBlock
        PROVE  Holders(b) = IF b \in live THEN {<<"text", "str">>} ELSE {}
    BY DEF TextsInit, Holders, Idle, Text
  <1>4. OneHolder
    BY <1>3 DEF OneHolder
  <1>5. LoadedIsText /\ CopyStored /\ ReadsText
    BY DEF TextsInit, LoadedIsText, CopyStored, ReadsText, Idle, TextTask
  <1>6. QED
    BY <1>2, <1>4, <1>5 DEF TextsInv

-----------------------------------------------------------------------------
(* Types.                                                                  *)
LEMMA TextsTypeStep == TextsTypeOK /\ [TextsNext]_textVars => TextsTypeOK'
  <1> SUFFICES ASSUME TextsTypeOK, [TextsNext]_textVars PROVE TextsTypeOK'
    OBVIOUS
  <1> USE DEF TextsTypeOK, Inside
  <1>1. ASSUME NEW t \in TextTask, NEW x \in Text, Copy(t, x) PROVE TextsTypeOK'
    BY <1>1 DEF Copy
  <1>2. ASSUME NEW t \in TextTask, Take(t) PROVE TextsTypeOK'
    BY <1>2 DEF Take, LockFree
  <1>3. ASSUME NEW t \in TextTask, LoadOld(t) PROVE TextsTypeOK'
    BY <1>3 DEF LoadOld
  <1>4. ASSUME NEW t \in TextTask, StoreNew(t) PROVE TextsTypeOK'
    BY <1>4 DEF StoreNew
  <1>5. ASSUME NEW t \in TextTask, Give(t) PROVE TextsTypeOK'
    BY <1>5 DEF Give
  <1>6. ASSUME NEW t \in TextTask, FreeOld(t) PROVE TextsTypeOK'
    BY <1>6 DEF FreeOld, Idle, Text
  <1>7. ASSUME NEW t \in TextTask, StringGet(t) \/ Done(t) PROVE TextsTypeOK'
    BY <1>7 DEF StringGet, Done, Text
  <1>8. CASE ReadLabel
    BY <1>8 DEF ReadLabel, TextTask, Text
  <1>9. CASE UNCHANGED textVars
    BY <1>9 DEF textVars
  <1>10. QED
    BY <1>1, <1>2, <1>3, <1>4, <1>5, <1>6, <1>7, <1>8, <1>9 DEF TextsNext

-----------------------------------------------------------------------------
(* Each block keeps its one holder.  Where a setter makes, stores or frees *)
(* a block the holder is named; elsewhere the holders do not change.       *)
LEMMA SameHolders ==
  ASSUME OneHolder, UNCHANGED live, \A b \in HeapBlock : Holders(b)' = Holders(b)
  PROVE  OneHolder'
  BY DEF OneHolder

LEMMA OnlyCopy ==
  ASSUME NEW c, NEW t \in TextTask, Holders(c) = {<<"copy", t>>}
  PROVE  /\ \A y \in Text : text[y] # c
         /\ \A u \in TextTask : u # t => call[u].copy # c
         /\ \A u \in TextTask : call[u].at \in {"stored", "given"} => call[u].old # c
  <1>1. ASSUME NEW y \in Text, text[y] = c PROVE FALSE
    <2>1. <<"text", y>> = <<"copy", t>>
      BY <1>1, HolderKinds
    <2>2. QED
      BY <2>1
  <1>2. ASSUME NEW u \in TextTask, call[u].copy = c, u # t PROVE FALSE
    <2>1. <<"copy", u>> = <<"copy", t>>
      BY <1>2, HolderKinds
    <2>2. QED
      BY <1>2, <2>1
  <1>3. ASSUME NEW u \in TextTask, call[u].at \in {"stored", "given"}, call[u].old = c PROVE FALSE
    <2>1. <<"old", u>> = <<"copy", t>>
      BY <1>3, HolderKinds
    <2>2. QED
      BY <2>1
  <1>4. QED
    BY <1>1, <1>2, <1>3

LEMMA OnlyText ==
  ASSUME NEW o, NEW x \in Text, Holders(o) = {<<"text", x>>}
  PROVE  /\ \A y \in Text : y # x => text[y] # o
         /\ \A u \in TextTask : call[u].copy # o
         /\ \A u \in TextTask : call[u].at \in {"stored", "given"} => call[u].old # o
  <1>1. ASSUME NEW y \in Text, text[y] = o, y # x PROVE FALSE
    <2>1. <<"text", y>> = <<"text", x>>
      <3>1. <<"text", y>> \in Holders(o)
        BY <1>1, HolderKinds
      <3>2. QED
        BY <3>1
    <2>2. QED
      BY <1>1, <2>1
  <1>2. ASSUME NEW u \in TextTask, call[u].copy = o PROVE FALSE
    <2>1. <<"copy", u>> = <<"text", x>>
      BY <1>2, HolderKinds
    <2>2. QED
      BY <2>1
  <1>3. ASSUME NEW u \in TextTask, call[u].at \in {"stored", "given"}, call[u].old = o PROVE FALSE
    <2>1. <<"old", u>> = <<"text", x>>
      BY <1>3, HolderKinds
    <2>2. QED
      BY <2>1
  <1>4. QED
    BY <1>1, <1>2, <1>3

LEMMA OnlyOld ==
  ASSUME NEW o, NEW t \in TextTask, Holders(o) = {<<"old", t>>}
  PROVE  /\ \A y \in Text : text[y] # o
         /\ \A u \in TextTask : call[u].copy # o
         /\ \A u \in TextTask : u # t /\ call[u].at \in {"stored", "given"} => call[u].old # o
  <1>1. ASSUME NEW y \in Text, text[y] = o PROVE FALSE
    <2>1. <<"text", y>> = <<"old", t>>
      BY <1>1, HolderKinds
    <2>2. QED
      BY <2>1
  <1>2. ASSUME NEW u \in TextTask, call[u].copy = o PROVE FALSE
    <2>1. <<"copy", u>> = <<"old", t>>
      BY <1>2, HolderKinds
    <2>2. QED
      BY <2>1
  <1>3. ASSUME NEW u \in TextTask, call[u].at \in {"stored", "given"}, call[u].old = o, u # t PROVE FALSE
    <2>1. <<"old", u>> = <<"old", t>>
      BY <1>3, HolderKinds
    <2>2. QED
      BY <1>3, <2>1
  <1>4. QED
    BY <1>1, <1>2, <1>3

LEMMA CopyHolder ==
  ASSUME TextsInv, NEW t \in TextTask, NEW x \in Text, Copy(t, x)
  PROVE  OneHolder'
  <1>1. PICK c \in HeapBlock \ live :
          /\ live' = live \cup {c}
          /\ call' = [call EXCEPT ![t] = [at |-> "copied", text |-> x, copy |-> c, old |-> Null]]
    BY DEF Copy
  <1>2. call[t].at = "idle" /\ call[t].copy = Null /\ UNCHANGED text
    BY DEF Copy, TextsInv, CopyStored
  <1>3. /\ \A u \in TextTask : u # t => call'[u] = call[u]
        /\ call'[t].copy = c /\ call'[t].at = "copied"
    BY <1>1 DEF TextsInv, TextsTypeOK
  <1>4. ASSUME NEW b \in HeapBlock, b # c
        PROVE  Holders(b)' = Holders(b)
    BY <1>2, <1>3, <1>4 DEF Holders
  <1>5. Holders(c) = {}
    BY <1>1 DEF TextsInv, OneHolder
  <1>6. Holders(c)' = {<<"copy", t>>}
    <2>1. \A y \in Text : text[y] # c
      BY <1>5 DEF Holders
    <2>2. \A u \in TextTask : call[u].copy # c /\ ~(call[u].at \in {"stored", "given"} /\ call[u].old = c)
      BY <1>5 DEF Holders
    <2>3. QED
      BY <1>2, <1>3, <2>1, <2>2 DEF Holders
  <1>7. QED
    BY <1>1, <1>4, <1>6 DEF TextsInv, OneHolder

LEMMA StoreHolder ==
  ASSUME TextsInv, NEW t \in TextTask, StoreNew(t)
  PROVE  OneHolder'
  <1>0. PICK x, c, o : x = call[t].text /\ c = call[t].copy /\ o = call[t].old
    OBVIOUS
  <1>1. x \in Text /\ c \in HeapBlock \cup {Null} /\ o = text[x] /\ call[t].at = "loaded"
    BY <1>0 DEF TextsInv, TextsTypeOK, LoadedIsText, StoreNew
  <1>2. /\ text' = [text EXCEPT ![x] = c] /\ UNCHANGED live
        /\ \A u \in TextTask : u # t => call'[u] = call[u]
        /\ call'[t].at = "stored" /\ call'[t].copy = Null /\ call'[t].old = o
    BY <1>0 DEF StoreNew, TextsInv, TextsTypeOK
  <1>3. \A y \in Text : text'[y] = IF y = x THEN c ELSE text[y]
    BY <1>1, <1>2 DEF TextsInv, TextsTypeOK
  <1>4. ASSUME NEW b \in HeapBlock, b # c, b # o
        PROVE  Holders(b)' = Holders(b)
    BY <1>0, <1>1, <1>2, <1>3, <1>4 DEF Holders
  <1>5. c \in HeapBlock => Holders(c) = {<<"copy", t>>}
    <2>1. SUFFICES ASSUME c \in HeapBlock PROVE Holders(c) = {<<"copy", t>>}
      OBVIOUS
    <2>2. <<"copy", t>> \in Holders(c)
      BY <1>0, HolderKinds
    <2>3. QED
      BY <2>1, <2>2 DEF TextsInv, OneHolder
  <1>6. o \in HeapBlock => Holders(o) = {<<"text", x>>}
    <2>1. SUFFICES ASSUME o \in HeapBlock PROVE Holders(o) = {<<"text", x>>}
      OBVIOUS
    <2>2. <<"text", x>> \in Holders(o)
      BY <1>1, HolderKinds
    <2>3. QED
      BY <2>1, <2>2 DEF TextsInv, OneHolder
  <1>7. c \in HeapBlock => c # o
    BY <1>1, <1>5, OnlyCopy
  <1>8. c \in HeapBlock => Holders(c)' = {<<"text", x>>}
    <2>1. SUFFICES ASSUME c \in HeapBlock PROVE Holders(c)' = {<<"text", x>>}
      OBVIOUS
    <2>2. {y \in Text : text'[y] = c} = {x}
      BY <1>1, <1>3, <1>5, <2>1, OnlyCopy
    <2>3. {u \in TextTask : call'[u].copy = c} = {}
      BY <1>2, <1>5, <2>1, OnlyCopy
    <2>4. {u \in TextTask : call'[u].at \in {"stored", "given"} /\ call'[u].old = c} = {}
      BY <1>2, <1>5, <1>7, <2>1, OnlyCopy
    <2>5. QED
      BY <2>2, <2>3, <2>4 DEF Holders
  <1>9. o \in HeapBlock => Holders(o)' = {<<"old", t>>}
    <2>1. SUFFICES ASSUME o \in HeapBlock PROVE Holders(o)' = {<<"old", t>>}
      OBVIOUS
    <2>2. o # c
      BY <1>0, <1>1, <1>6, <2>1, OnlyText
    <2>3. {y \in Text : text'[y] = o} = {}
      BY <1>1, <1>3, <1>6, <2>1, <2>2, OnlyText
    <2>4. {u \in TextTask : call'[u].copy = o} = {}
      BY <1>1, <1>2, <1>6, <2>1, OnlyText
    <2>5. {u \in TextTask : call'[u].at \in {"stored", "given"} /\ call'[u].old = o} = {t}
      BY <1>1, <1>2, <1>6, <2>1, OnlyText
    <2>6. QED
      BY <2>3, <2>4, <2>5 DEF Holders
  <1>10. QED
    <2>2. c \in HeapBlock => c \in live
      BY <1>5 DEF TextsInv, OneHolder
    <2>3. o \in HeapBlock => o \in live
      BY <1>6 DEF TextsInv, OneHolder
    <2>4. QED
      BY <1>2, <1>4, <1>8, <1>9, <2>2, <2>3 DEF TextsInv, OneHolder

LEMMA FreeHolder ==
  ASSUME TextsInv, NEW t \in TextTask, FreeOld(t)
  PROVE  OneHolder'
  <1>0. PICK o : o = call[t].old
    OBVIOUS
  <1>1. call[t].at = "given" /\ call[t].copy = Null /\ o \in HeapBlock \cup {Null}
    BY <1>0 DEF FreeOld, TextsInv, TextsTypeOK, CopyStored
  <1>2. /\ live' = live \ {o} /\ UNCHANGED text
        /\ \A u \in TextTask : u # t => call'[u] = call[u]
        /\ call'[t].at = "idle" /\ call'[t].copy = Null
    BY <1>0 DEF FreeOld, TextsInv, TextsTypeOK, Idle
  <1>3. ASSUME NEW b \in HeapBlock, b # o
        PROVE  Holders(b)' = Holders(b)
    BY <1>0, <1>1, <1>2, <1>3 DEF Holders
  <1>4. o \in HeapBlock => Holders(o) = {<<"old", t>>}
    <2>1. SUFFICES ASSUME o \in HeapBlock PROVE Holders(o) = {<<"old", t>>}
      OBVIOUS
    <2>2. <<"old", t>> \in Holders(o)
      BY <1>0, <1>1, HolderKinds
    <2>3. QED
      BY <2>1, <2>2 DEF TextsInv, OneHolder
  <1>5. o \in HeapBlock => Holders(o)' = {}
    <2>1. SUFFICES ASSUME o \in HeapBlock PROVE Holders(o)' = {}
      OBVIOUS
    <2>2. {y \in Text : text'[y] = o} = {}
      BY <1>0, <1>2, <1>4, <2>1, OnlyOld
    <2>3. {u \in TextTask : call'[u].copy = o} = {}
      BY <1>0, <1>2, <1>4, <2>1, OnlyOld
    <2>4. {u \in TextTask : call'[u].at \in {"stored", "given"} /\ call'[u].old = o} = {}
      BY <1>0, <1>2, <1>4, <2>1, OnlyOld
    <2>5. QED
      BY <2>2, <2>3, <2>4 DEF Holders
  <1>6. QED
    BY <1>2, <1>3, <1>5 DEF TextsInv, OneHolder

LEMMA HolderStep == TextsInv /\ [TextsNext]_textVars => OneHolder'
  <1> SUFFICES ASSUME TextsInv, [TextsNext]_textVars PROVE OneHolder'
    OBVIOUS
  <1>1. ASSUME NEW t \in TextTask, Take(t) \/ LoadOld(t) \/ Give(t)
        PROVE  OneHolder'
    <2>1. /\ UNCHANGED <<live, text>>
          /\ \A u \in TextTask : u # t => call'[u] = call[u]
          /\ call'[t].copy = call[t].copy
          /\ (call'[t].at \in {"stored", "given"}) <=> (call[t].at \in {"stored", "given"})
          /\ call[t].at \in {"stored", "given"} => call'[t].old = call[t].old
      BY <1>1 DEF Take, LoadOld, Give, TextsInv, TextsTypeOK
    <2>2. \A b \in HeapBlock : Holders(b)' = Holders(b)
      BY <2>1 DEF Holders
    <2>3. QED
      BY <2>1, <2>2, SameHolders DEF TextsInv
  <1>2. ASSUME NEW t \in TextTask, StringGet(t) \/ Done(t)
        PROVE  OneHolder'
    BY <1>2 DEF StringGet, Done, TextsInv, OneHolder, Holders
  <1>3. CASE ReadLabel \/ UNCHANGED textVars
    BY <1>3 DEF ReadLabel, textVars, TextsInv, OneHolder, Holders
  <1>4. QED
    BY <1>1, <1>2, <1>3, CopyHolder, StoreHolder, FreeHolder DEF TextsNext

-----------------------------------------------------------------------------
(* The rest of the invariant.                                              *)
LEMMA SetterStep == TextsInv /\ [TextsNext]_textVars => (LoadedIsText /\ CopyStored)'
  <1> SUFFICES ASSUME TextsInv, [TextsNext]_textVars PROVE (LoadedIsText /\ CopyStored)'
    OBVIOUS
  <1> USE DEF TextsInv, TextsTypeOK, LoadedIsText, CopyStored
  <1>1. ASSUME NEW t \in TextTask, NEW x \in Text, Copy(t, x) PROVE (LoadedIsText /\ CopyStored)'
    BY <1>1 DEF Copy
  <1>2. ASSUME NEW t \in TextTask, Take(t) PROVE (LoadedIsText /\ CopyStored)'
    BY <1>2 DEF Take
  <1>3. ASSUME NEW t \in TextTask, LoadOld(t) PROVE (LoadedIsText /\ CopyStored)'
    BY <1>3 DEF LoadOld
  <1>4. ASSUME NEW t \in TextTask, StoreNew(t) PROVE (LoadedIsText /\ CopyStored)'
    <2>1. \A u \in TextTask : u # t => call[u].at # "loaded"
      BY <1>4 DEF StoreNew, Inside
    <2>2. \A u \in TextTask : u # t => call'[u] = call[u]
      BY <1>4 DEF StoreNew
    <2>3. call'[t].at = "stored" /\ call'[t].copy = Null
      BY <1>4 DEF StoreNew
    <2>4. QED
      BY <2>1, <2>2, <2>3
  <1>5. ASSUME NEW t \in TextTask, Give(t) PROVE (LoadedIsText /\ CopyStored)'
    BY <1>5 DEF Give
  <1>6. ASSUME NEW t \in TextTask, FreeOld(t) PROVE (LoadedIsText /\ CopyStored)'
    BY <1>6 DEF FreeOld, Idle
  <1>7. ASSUME NEW t \in TextTask, StringGet(t) \/ Done(t) PROVE (LoadedIsText /\ CopyStored)'
    BY <1>7 DEF StringGet, Done
  <1>8. CASE ReadLabel \/ UNCHANGED textVars
    BY <1>8 DEF ReadLabel, textVars
  <1>9. QED
    BY <1>1, <1>2, <1>3, <1>4, <1>5, <1>6, <1>7, <1>8 DEF TextsNext

LEMMA ReaderStep == TextsInv /\ [TextsNext]_textVars => ReadsText'
  <1> SUFFICES ASSUME TextsInv, [TextsNext]_textVars PROVE ReadsText'
    OBVIOUS
  <1> USE DEF TextsInv, TextsTypeOK, ReadsText
  <1>1. ASSUME NEW t \in TextTask, NEW x \in Text, Copy(t, x) PROVE ReadsText'
    BY <1>1 DEF Copy
  <1>2. ASSUME NEW t \in TextTask, Take(t) \/ LoadOld(t) \/ Give(t) \/ FreeOld(t) PROVE ReadsText'
    BY <1>2 DEF Take, LoadOld, Give, FreeOld
  <1>3. ASSUME NEW t \in TextTask, StoreNew(t) PROVE ReadsText'
    <2>1. \A u \in TextTask : ~replaced'[u] => ~replaced[u] /\ call[t].text # ReadBy(u)
      BY <1>3 DEF StoreNew
    <2>2. \A u \in TextTask : call[t].text # ReadBy(u) => text'[ReadBy(u)] = text[ReadBy(u)]
      BY <1>3 DEF StoreNew, Text, ReadBy
    <2>3. QED
      BY <1>3, <2>1, <2>2 DEF StoreNew
  <1>4. ASSUME NEW t \in TextTask, StringGet(t) PROVE ReadsText'
    BY <1>4 DEF StringGet, ReadBy, TextTask
  <1>5. ASSUME NEW t \in TextTask, Done(t) PROVE ReadsText'
    BY <1>5 DEF Done
  <1>6. CASE ReadLabel
    BY <1>6 DEF ReadLabel, ReadBy, TextTask
  <1>7. CASE UNCHANGED textVars
    BY <1>7 DEF textVars
  <1>8. QED
    BY <1>1, <1>2, <1>3, <1>4, <1>5, <1>6, <1>7 DEF TextsNext

LEMMA TextsNextInv == TextsInv /\ [TextsNext]_textVars => TextsInv'
  BY TextsTypeStep, HolderStep, SetterStep, ReaderStep DEF TextsInv

LEMMA TextsInvHolds == TextsSpec => []TextsInv
  BY TextsInitInv, TextsNextInv, PTL DEF TextsSpec

-----------------------------------------------------------------------------
(* The heap, the texts and the lock keep their types; dev->lock has at     *)
(* most one setter inside.                                                 *)
THEOREM SharedTextsTypeCorrect == TextsSpec => []TextsTypeOK
  <1>1. TextsInv => TextsTypeOK
    BY DEF TextsInv
  <1>2. QED
    BY <1>1, TextsInvHolds, PTL

(* Setters of any number of tasks lose no text, and free none twice or     *)
(* while the object has it (aes70_object.c, aes70_classes.c).              *)
THEOREM NoTextLostOrFreedTwice == TextsSpec => []OneHolder
  <1>1. TextsInv => OneHolder
    BY DEF TextsInv
  <1>2. QED
    BY <1>1, TextsInvHolds, PTL

(* What aes70_string_get returned, and the label the server task reads,    *)
(* are allocated until the text is set again (aes70_object.h:150).         *)
THEOREM ReadStaysValid == TextsSpec => []ReadValidUntilSet
  <1>1. TextsInv => ReadValidUntilSet
    <2>1. SUFFICES ASSUME TextsInv, NEW t \in TextTask, reading[t] # Null, ~replaced[t]
                   PROVE  reading[t] \in live
      BY DEF ReadValidUntilSet
    <2>2. PICK b, x : x = ReadBy(t) /\ b = text[x]
      OBVIOUS
    <2>3. x \in Text /\ reading[t] = b /\ b \in HeapBlock
      BY <2>1, <2>2 DEF TextsInv, ReadsText, TextsTypeOK, ReadBy, Text
    <2>4. <<"text", x>> \in Holders(b)
      BY <2>2, <2>3, HolderKinds
    <2>5. QED
      BY <2>1, <2>3, <2>4 DEF TextsInv, OneHolder
  <1>2. QED
    BY <1>1, TextsInvHolds, PTL
=============================================================================
