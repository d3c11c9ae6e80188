------------------------------ MODULE Registry ------------------------------
(***************************************************************************)
(* The object registry and the member lists of blocks while application    *)
(* tasks create objects beside the running server task (aes70_object.c;    *)
(* enumeration and AddGroup in aes70_managers.c and aes70_grouper.c).      *)
(*                                                                         *)
(* A constructor is cut into the accesses to shared memory another task    *)
(* can fall between.  make_num, aes70_block_create and the other plain     *)
(* constructors hold dev->lock throughout; aes70_grouper_create,           *)
(* aes70_matrix_create and the server task's AddGroup do not take it.      *)
(* "objects[object_count++] = obj" fixes no order between its two stores,  *)
(* so both are taken.                                                      *)
(***************************************************************************)
EXTENDS Integers, Sequences

CONSTANTS
  AppTask,        \* application tasks that create objects
  Server,         \* the server task
  Kinds,          \* constructors the application uses: "plain", "block", "grouper"
  AddsGroups,     \* controllers call AddGroup
  AllocFails,     \* the heap may run out
  MaxObjects,     \* CONFIG_AES70_MAX_OBJECTS, without the managers
  FirstCap,       \* members a block has room for at first (4)
  MaxCreated,     \* bound on the objects created in one behaviour
  MaxCalls        \* bound on the numbers handed out, those of failed calls included

ASSUME RegistryAssumption ==
  /\ Server \notin AppTask /\ "free" \notin AppTask \cup {Server}
  /\ Kinds \subseteq {"plain", "block", "grouper"}
  /\ AddsGroups \in BOOLEAN /\ AllocFails \in BOOLEAN
  /\ MaxObjects \in Nat /\ FirstCap \in Nat \ {0} /\ MaxCreated \in Nat /\ MaxCalls \in Nat

Task  == AppTask \cup {Server}
Free  == "free"
None  == 0               \* a pointer not yet stored
Root  == -1              \* the root block
Index == 0 .. MaxObjects - 1
Place == 0 .. MaxCreated - 1

(* Objects, numbered in the order their memory is handed out.              *)
Obj   == 1 .. MaxCreated
Block == Obj \cup {Root}

VARIABLES
  lock,           \* holder of dev->lock, or Free
  next_ono,       \* dev->next_ono, counted from 1
  objects, object_count,               \* the registry
  children, child_count, child_cap,    \* member list of each block
  moved,          \* blocks whose list realloc has moved, pointer not yet updated
  ono, kind, owner, ready,             \* of each object; owner: the block whose
                                       \* owner_ono it carries; ready: fully set up
  pc, me,         \* per task: place in the constructor, its local state
  walk,           \* the enumeration of the server task
  \* ghosts
  used,           \* objects whose memory is handed out
  returned        \* objects a constructor has returned

registry == <<next_ono, objects, object_count>>
lists    == <<children, child_count, child_cap, moved>>
attrs    == <<ono, kind, owner, ready>>
vars == <<lock, registry, lists, attrs, pc, me, walk, used, returned>>

NoWalk == [phase |-> "none", root |-> Root, deep |-> FALSE, stack |-> <<>>, n |-> 0,
           emitted |-> <<>>]
Fresh  == [kind |-> "plain", block |-> Root, obj |-> None, ono |-> 0, at |-> 0]

Init ==
  /\ lock = Free
  /\ next_ono = 1
  /\ objects = [i \in Index |-> None] /\ object_count = 0
  /\ children = [b \in Block |-> [i \in Place |-> None]]
  /\ child_count = [b \in Block |-> 0]
  /\ child_cap = [b \in Block |-> 0]
  /\ moved = {}
  /\ ono = [o \in Obj |-> 0] /\ kind = [o \in Obj |-> "plain"]
  /\ owner = [o \in Obj |-> None] /\ ready = [o \in Obj |-> FALSE]
  /\ pc = [t \in Task |-> "idle"] /\ me = [t \in Task |-> Fresh]
  /\ walk = NoWalk
  /\ used = {} /\ returned = {}

-----------------------------------------------------------------------------
(* Constructors.                                                           *)
Goto(t, label) == pc' = [pc EXCEPT ![t] = label]

(* Bug: make_num does not take the lock.                                   *)
TakesLockBlocksOnlyBug(k) == k = "block"

TakesLock(k) == k \in {"plain", "block"}

(* A constructor is entered; the parent is the root or a block the         *)
(* application holds.  The server task creates the proxies of AddGroup     *)
(* while it serves a command, never during an enumeration.                 *)
Enter(t, k, b) ==
  /\ pc[t] = "idle" /\ next_ono <= MaxCalls
  /\ IF t = Server THEN AddsGroups /\ k = "group" /\ walk.phase = "none" ELSE k \in Kinds
  /\ b = Root \/ (b \in returned /\ kind[b] = "block")
  /\ IF TakesLock(k) THEN lock = Free /\ lock' = t ELSE UNCHANGED lock
  /\ me' = [me EXCEPT ![t] = [Fresh EXCEPT !.kind = k, !.block = b]]
  /\ Goto(t, "number")
  /\ UNCHANGED <<registry, lists, attrs, walk, used, returned>>

(* dev->next_ono++: read, then written back.                               *)
ReadNumber(t) ==
  /\ pc[t] = "number"
  /\ me' = [me EXCEPT ![t].ono = next_ono]
  /\ Goto(t, "bump")
  /\ UNCHANGED <<lock, registry, lists, attrs, walk, used, returned>>

BumpNumber(t) ==
  /\ pc[t] = "bump"
  /\ next_ono' = me[t].ono + 1
  /\ Goto(t, "new")
  /\ UNCHANGED <<lock, objects, object_count, lists, attrs, me, walk, used, returned>>

Leave(t) == lock' = IF lock = t THEN Free ELSE lock

(* aes70_object_new: the table is full, or there is no memory.             *)
HasNoSlot == object_count >= MaxObjects

Refuse(t) ==
  /\ pc[t] = "new"
  /\ HasNoSlot \/ AllocFails
  /\ me' = [me EXCEPT ![t] = Fresh]
  /\ Goto(t, "idle") /\ Leave(t)
  /\ UNCHANGED <<registry, lists, attrs, walk, used, returned>>

Allocate(t) ==
  /\ pc[t] = "new"
  /\ ~HasNoSlot
  /\ \E o \in Obj \ used :
       /\ \A p \in Obj \ used : o <= p
       /\ used' = used \cup {o}
       /\ ono' = [ono EXCEPT ![o] = me[t].ono]
       /\ kind' = [kind EXCEPT ![o] = me[t].kind]
       /\ me' = [me EXCEPT ![t].obj = o, ![t].at = object_count]
  /\ Goto(t, "store")
  /\ UNCHANGED <<lock, registry, lists, owner, ready, walk, returned>>

(* objects[at] = obj and object_count = at + 1, in either order.           *)
StoreObject(t, label, then) ==
  /\ pc[t] = label
  /\ objects' = [objects EXCEPT ![me[t].at] = me[t].obj]
  /\ Goto(t, then)
  /\ UNCHANGED <<lock, next_ono, object_count, lists, attrs, me, walk, used, returned>>

CountObject(t, label, then) ==
  /\ pc[t] = label
  /\ object_count' = me[t].at + 1
  /\ Goto(t, then)
  /\ UNCHANGED <<lock, next_ono, objects, lists, attrs, me, walk, used, returned>>

Register(t) ==
  \/ StoreObject(t, "store", "count") \/ CountObject(t, "count", "member")
  \/ CountObject(t, "store", "late") \/ StoreObject(t, "late", "member")

(* aes70_block_add_member: a full list is moved to a larger one by         *)
(* realloc, which frees the old memory before block->children is updated.  *)
HasRoom(b) == child_count[b] < child_cap[b]

Grow(t) ==
  /\ pc[t] = "member" /\ ~HasRoom(me[t].block)
  /\ moved' = moved \cup {me[t].block}
  /\ Goto(t, "grown")
  /\ UNCHANGED <<lock, registry, children, child_count, child_cap, attrs, me, walk, used,
                 returned>>

(* Bug: owner_ono is set before there is room.                             *)
GrowFailsOwnedBug(t) ==
  /\ pc[t] = "member" /\ ~HasRoom(me[t].block) /\ AllocFails
  /\ owner' = [owner EXCEPT ![me[t].obj] = me[t].block]
  /\ Goto(t, "finish")
  /\ UNCHANGED <<lock, registry, lists, ono, kind, ready, me, walk, used, returned>>

(* No memory for a longer list: the member is left out, without a word.    *)
GrowFails(t) ==
  /\ pc[t] = "member" /\ ~HasRoom(me[t].block) /\ AllocFails
  /\ Goto(t, "finish")
  /\ UNCHANGED <<lock, registry, lists, attrs, me, walk, used, returned>>

GrownTo(n) == IF n = 0 THEN FirstCap ELSE 2 * n

UpdateList(t) ==
  LET b == me[t].block
  IN  /\ pc[t] = "grown"
      /\ moved' = moved \ {b}
      /\ child_cap' = [child_cap EXCEPT ![b] = GrownTo(@)]
      /\ Goto(t, "member")
      /\ UNCHANGED <<lock, registry, children, child_count, attrs, me, walk, used, returned>>

ReadPlace(t) ==
  /\ pc[t] = "member" /\ HasRoom(me[t].block)
  /\ me' = [me EXCEPT ![t].at = child_count[me[t].block]]
  /\ Goto(t, "mstore")
  /\ UNCHANGED <<lock, registry, lists, attrs, walk, used, returned>>

(* children[child_count++] = child, then owner_ono.                        *)
Owned(t, then) ==
  IF then = "finish" THEN [owner EXCEPT ![me[t].obj] = me[t].block] ELSE owner

StoreMember(t, label, then) ==
  /\ pc[t] = label
  /\ children' = [children EXCEPT ![me[t].block][me[t].at] = me[t].obj]
  /\ owner' = Owned(t, then)
  /\ Goto(t, then)
  /\ UNCHANGED <<lock, registry, child_count, child_cap, moved, ono, kind, ready, me, walk,
                 used, returned>>

CountMember(t, label, then) ==
  /\ pc[t] = label
  /\ child_count' = [child_count EXCEPT ![me[t].block] = me[t].at + 1]
  /\ owner' = Owned(t, then)
  /\ Goto(t, then)
  /\ UNCHANGED <<lock, registry, children, child_cap, moved, ono, kind, ready, me, walk,
                 used, returned>>

AddMember(t) ==
  \/ StoreMember(t, "mstore", "mcount") \/ CountMember(t, "mcount", "finish")
  \/ CountMember(t, "mstore", "mlate") \/ StoreMember(t, "mlate", "finish")

(* Bug: the lock is given back before the limits are set.                  *)
FinishUnlockedBug(t) ==
  LET o == me[t].obj
  IN  /\ pc[t] = "finish"
      /\ IF lock = t
         THEN lock' = Free /\ UNCHANGED <<ready, returned, pc, me>>
         ELSE /\ ready' = [ready EXCEPT ![o] = TRUE]
              /\ returned' = returned \cup {o}
              /\ me' = [me EXCEPT ![t] = Fresh]
              /\ Goto(t, "idle") /\ UNCHANGED lock
      /\ UNCHANGED <<registry, lists, ono, kind, owner, walk, used>>

(* Limits and value (make_num), or the private state (aes70_grouper_init,  *)
(* aes70_dsp_init), are set last.                                          *)
Finish(t) ==
  LET o == me[t].obj
  IN  /\ pc[t] = "finish"
      /\ ready' = [ready EXCEPT ![o] = TRUE]
      /\ returned' = returned \cup {o}
      /\ me' = [me EXCEPT ![t] = Fresh]
      /\ Goto(t, "idle") /\ Leave(t)
      /\ UNCHANGED <<registry, lists, ono, kind, owner, walk, used>>

Construct(t) ==
  \/ \E k \in {"plain", "block", "grouper", "group"}, b \in Block : Enter(t, k, b)
  \/ ReadNumber(t) \/ BumpNumber(t) \/ Refuse(t) \/ Allocate(t) \/ Register(t)
  \/ Grow(t) \/ GrowFails(t) \/ UpdateList(t) \/ ReadPlace(t) \/ AddMember(t) \/ Finish(t)

-----------------------------------------------------------------------------
(* The server task.                                                        *)

(* Bug: the enumeration does not take the lock.                            *)
StartWalkUnlockedBug(b, deep) ==
  /\ pc[Server] = "idle" /\ walk.phase = "none"
  /\ walk' = [NoWalk EXCEPT !.phase = "count", !.root = b, !.deep = deep,
                            !.stack = <<[block |-> b, i |-> 0]>>]
  /\ UNCHANGED <<lock, registry, lists, attrs, pc, me, used, returned>>

(* GetActionObjects (~deep) and GetActionObjectsRecursive (deep) of a      *)
(* block: under the lock, the members are counted, then written out.       *)
StartWalk(b, deep) ==
  /\ pc[Server] = "idle" /\ walk.phase = "none"
  /\ lock = Free /\ lock' = Server
  /\ walk' = [NoWalk EXCEPT !.phase = "count", !.root = b, !.deep = deep,
                            !.stack = <<[block |-> b, i |-> 0]>>]
  /\ UNCHANGED <<registry, lists, attrs, pc, me, used, returned>>

Push(s, f) == <<f>> \o s

(* One round of count_descendants or emit_descendants; list memory that    *)
(* realloc has given back holds anything, here no pointer.                 *)
Walk ==
  LET f == Head(walk.stack)
      c == IF f.block \in moved THEN None ELSE children[f.block][f.i]
      onward == <<[f EXCEPT !.i = @ + 1]>> \o Tail(walk.stack)
  IN  /\ walk.stack # <<>>
      /\ walk' = IF f.i >= child_count[f.block]
                 THEN [walk EXCEPT !.stack = Tail(@)]
                 ELSE [walk EXCEPT
                         !.stack = IF walk.deep /\ c # None /\ kind[c] = "block"
                                   THEN Push(onward, [block |-> c, i |-> 0]) ELSE onward,
                         !.n = IF walk.phase = "count" THEN @ + 1 ELSE @,
                         !.emitted = IF walk.phase = "emit" THEN Append(@, c) ELSE @]
      /\ UNCHANGED <<lock, registry, lists, attrs, pc, me, used, returned>>

StartEmit ==
  /\ walk.phase = "count" /\ walk.stack = <<>>
  /\ walk' = [walk EXCEPT !.phase = "emit", !.stack = <<[block |-> walk.root, i |-> 0]>>]
  /\ UNCHANGED <<lock, registry, lists, attrs, pc, me, used, returned>>

EndWalk ==
  /\ walk.phase = "emit" /\ walk.stack = <<>>
  /\ walk' = NoWalk
  /\ Leave(Server)
  /\ UNCHANGED <<registry, lists, attrs, pc, me, used, returned>>

Enumerate ==
  \/ \E blk \in Block, deep \in BOOLEAN :
       (blk = Root \/ (blk \in returned /\ kind[blk] = "block")) /\ StartWalk(blk, deep)
  \/ Walk \/ StartEmit \/ EndWalk

Next ==
  \/ \E t \in Task : Construct(t)
  \/ Enumerate

Spec == Init /\ [][Next]_vars
-----------------------------------------------------------------------------
(* Properties.                                                             *)

(* Type invariant; tables are written inside their bounds only.            *)
TypeOK ==
  /\ lock \in Task \cup {Free}
  /\ next_ono \in Nat
  /\ objects \in [Index -> Obj \cup {None}] /\ object_count \in 0 .. MaxObjects
  /\ children \in [Block -> [Place -> Obj \cup {None}]]
  /\ child_count \in [Block -> 0 .. MaxCreated]
  /\ child_cap \in [Block -> Nat] /\ \A b \in Block : child_count[b] <= child_cap[b]
  /\ moved \subseteq Block
  /\ ono \in [Obj -> Nat] /\ ready \in [Obj -> BOOLEAN] /\ owner \in [Obj -> Block \cup {None}]
  /\ used \subseteq Obj /\ returned \subseteq Obj

Registered == {i \in Index : i < object_count /\ objects[i] # None}

(* No two objects answer to one object number, and none is registered      *)
(* twice: aes70_device_find can tell them apart.                           *)
OnosUnique ==
  \A i, j \in Registered : i # j => objects[i] # objects[j] /\ ono[objects[i]] # ono[objects[j]]

(* An object whose constructor has returned is in the registry: no task    *)
(* creating at the same time has written over it or taken it out of count. *)
ConstructedIsRegistered ==
  \A o \in returned : \E i \in Registered : objects[i] = o

(* The members of a block are the objects that carry its number as their   *)
(* owner, each listed once, whichever allocation failed on the way.        *)
Listings(o) ==
  {l \in Block \X Place : l[2] < child_count[l[1]] /\ children[l[1]][l[2]] = o}

MemberOfItsOwner ==
  \A o \in returned :
    IF owner[o] = None THEN Listings(o) = {}
    ELSE \E i \in Place : Listings(o) = {<<owner[o], i>>}

(* aes70_object.c:355-357: constructors run under dev->lock, so whoever    *)
(* finds it free finds a registry of whole objects: one in every place     *)
(* that is counted, its limits and its private state set.                  *)
WholeOnceUnlocked ==
  lock = Free =>
    \A i \in 0 .. object_count - 1 : objects[i] # None /\ ready[objects[i]]

(* An enumeration announces as many members as it writes, each once, and   *)
(* they are the objects that are there, all of them set up, whatever is    *)
(* being created beside it.                                                *)
Below(b) ==
  LET in[o \in Obj] == owner[o] = b \/ (owner[o] \in Obj /\ in[owner[o]])
  IN  {o \in returned : in[o]}

Present(b, deep) == IF deep THEN Below(b) ELSE {o \in returned : owner[o] = b}

EnumerationCoherent ==
  (walk.phase = "emit" /\ walk.stack = <<>>) =>
    LET e == walk.emitted
    IN  /\ walk.n = Len(e)
        /\ {e[k] : k \in DOMAIN e} = Present(walk.root, walk.deep)
        /\ \A k, l \in DOMAIN e : k # l => e[k] # e[l]
        /\ \A k \in DOMAIN e : e[k] # None /\ ready[e[k]]
=============================================================================
