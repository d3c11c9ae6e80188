---------------------------- MODULE SharedTexts ----------------------------
(***************************************************************************)
(* The two texts of an object that more than one task reaches: the label,  *)
(* which the application and the server task both set (aes70_object.c,     *)
(* aes70_classes.c), and the value of an OcaStringActuator, which the      *)
(* server task sets and aes70_string_get hands out as a pointer.           *)
(*                                                                         *)
(* A text is a block of the heap.  Every setter copies, takes dev->lock,   *)
(* swaps the pointers, leaves the lock and frees what was there; each of   *)
(* these is a step of its own.  A copy that cannot be made changes nothing *)
(* and is no step.                                                         *)
(***************************************************************************)
CONSTANTS
  ServerTask,     \* the server task
  Application,    \* tasks of the application
  HeapBlock,      \* blocks of the heap
  Null

NoTask   == "none"
TextTask == Application \cup {ServerTask}
Text     == {"label", "str"}

ASSUME SharedTextsAssumption ==
  ServerTask \notin Application /\ NoTask \notin TextTask /\ Null \notin HeapBlock

VARIABLES
  live,       \* blocks that are allocated
  text,       \* obj->label, obj->str
  dev_lock,   \* the task inside dev->lock
  call,       \* the setter each task is in
  reading,    \* the block a task has a pointer to and reads
  replaced    \* ghost: what a task reads was set since it took the pointer

textVars == <<live, text, dev_lock, call, reading, replaced>>

Idle == [at |-> "idle", text |-> "label", copy |-> Null, old |-> Null]

-----------------------------------------------------------------------------
(* calloc, and the string's own copy if it can be made.                    *)
TextsInit ==
  /\ text \in [Text -> HeapBlock \cup {Null}]
  /\ text["label"] = Null
  /\ live = {text["str"]} \ {Null}
  /\ dev_lock = NoTask
  /\ call = [t \in TextTask |-> Idle]
  /\ reading = [t \in TextTask |-> Null]
  /\ replaced = [t \in TextTask |-> FALSE]

(* strdup.  commit_str runs on the server task, whoever asked for it; the  *)
(* server task reads nothing meanwhile.                                    *)
Copy(t, x) ==
  /\ call[t].at = "idle"
  /\ x = "str" => t = ServerTask
  /\ t = ServerTask => reading[t] = Null
  /\ \E b \in HeapBlock \ live :
       /\ live' = live \cup {b}
       /\ call' = [call EXCEPT ![t] = [at |-> "copied", text |-> x, copy |-> b, old |-> Null]]
  /\ UNCHANGED <<text, dev_lock, reading, replaced>>

LockFree == dev_lock = NoTask

Take(t) ==
  /\ call[t].at = "copied"
  /\ LockFree
  /\ dev_lock' = t
  /\ call' = [call EXCEPT ![t].at = "locked"]
  /\ UNCHANGED <<live, text, reading, replaced>>

LoadOld(t) ==
  /\ call[t].at = "locked"
  /\ call' = [call EXCEPT ![t].at = "loaded", ![t].old = text[call[t].text]]
  /\ UNCHANGED <<live, text, dev_lock, reading, replaced>>

(* The server task reads labels, the application strings.                  *)
ReadBy(t) == IF t = ServerTask THEN "label" ELSE "str"

StoreNew(t) ==
  /\ call[t].at = "loaded"
  /\ text' = [text EXCEPT ![call[t].text] = call[t].copy]
  /\ call' = [call EXCEPT ![t].at = "stored", ![t].copy = Null]
  /\ replaced' = [u \in TextTask |-> replaced[u] \/ call[t].text = ReadBy(u)]
  /\ UNCHANGED <<live, dev_lock, reading>>

Give(t) ==
  /\ call[t].at = "stored"
  /\ dev_lock' = NoTask
  /\ call' = [call EXCEPT ![t].at = "given"]
  /\ UNCHANGED <<live, text, reading, replaced>>

(* Bug: the setter frees what it loaded before it has stored the new text. *)
FreeEarlyBug(t) ==
  \/ /\ call[t].at = "loaded" /\ call[t].old \in live
     /\ live' = live \ {call[t].old}
     /\ UNCHANGED <<text, dev_lock, call, reading, replaced>>
  \/ /\ call[t].at = "given"
     /\ call' = [call EXCEPT ![t] = Idle]
     /\ UNCHANGED <<live, text, dev_lock, reading, replaced>>

FreeOld(t) ==
  /\ call[t].at = "given"
  /\ live' = live \ {call[t].old}
  /\ call' = [call EXCEPT ![t] = Idle]
  /\ UNCHANGED <<text, dev_lock, reading, replaced>>

-----------------------------------------------------------------------------
(* Readers.                                                                *)

(* GetLabel, and the label in a notification: the server task takes the    *)
(* pointer without the lock and then walks the bytes.                      *)
ReadLabel ==
  /\ call[ServerTask].at = "idle" /\ reading[ServerTask] = Null /\ text["label"] # Null
  /\ reading' = [reading EXCEPT ![ServerTask] = text["label"]]
  /\ replaced' = [replaced EXCEPT ![ServerTask] = FALSE]
  /\ UNCHANGED <<live, text, dev_lock, call>>

(* aes70_string_get: the pointer is loaded under the lock and kept.        *)
StringGet(t) ==
  /\ t \in Application /\ call[t].at = "idle" /\ reading[t] = Null
  /\ LockFree /\ text["str"] # Null
  /\ reading' = [reading EXCEPT ![t] = text["str"]]
  /\ replaced' = [replaced EXCEPT ![t] = FALSE]
  /\ UNCHANGED <<live, text, dev_lock, call>>

(* The task has read to the end.                                           *)
Done(t) ==
  /\ reading[t] # Null
  /\ reading' = [reading EXCEPT ![t] = Null]
  /\ UNCHANGED <<live, text, dev_lock, call, replaced>>

TextsNext ==
  \/ \E t \in TextTask :
       \/ \E x \in Text : Copy(t, x)
       \/ Take(t) \/ LoadOld(t) \/ StoreNew(t) \/ Give(t) \/ FreeOld(t)
       \/ StringGet(t) \/ Done(t)
  \/ ReadLabel

TextsSpec == TextsInit /\ [][TextsNext]_textVars

-----------------------------------------------------------------------------
(* Properties.                                                             *)

Inside(t) == call[t].at \in {"locked", "loaded", "stored"}

(* Type invariant: the lock is held by the one task inside.                *)
TextsTypeOK ==
  /\ live \subseteq HeapBlock
  /\ text \in [Text -> HeapBlock \cup {Null}]
  /\ dev_lock \in TextTask \cup {NoTask}
  /\ call \in [TextTask -> [at : {"idle", "copied", "locked", "loaded", "stored", "given"},
                        text : Text, copy : HeapBlock \cup {Null}, old : HeapBlock \cup {Null}]]
  /\ reading \in [TextTask -> HeapBlock \cup {Null}]
  /\ replaced \in [TextTask -> BOOLEAN]
  /\ \A t \in TextTask : Inside(t) <=> dev_lock = t

(* Who has to see to it that a block is freed: an object it is the text    *)
(* of, a setter that has not stored it, a setter that has replaced it.     *)
Holders(b) ==
  {<<"text", x>> : x \in {y \in Text : text[y] = b}}
    \cup {<<"copy", t>> : t \in {u \in TextTask : call[u].copy = b}}
    \cup {<<"old", t>> : t \in {u \in TextTask : call[u].at \in {"stored", "given"} /\ call[u].old = b}}

(* Whatever setters meet, no text is lost, and none is freed twice or      *)
(* while the object still has it: each allocated block has one holder, and *)
(* a block that is not allocated has none.                                 *)
OneHolder ==
  \A b \in HeapBlock : IF b \in live THEN \E h \in Holders(b) : Holders(b) = {h} ELSE Holders(b) = {}

(* aes70_object.h:150: what aes70_string_get returns is "valid until the   *)
(* next set or stop"; so is the label the server task writes out without   *)
(* the lock, and no longer: aes70_object_set_label may free it meanwhile.  *)
ReadValidUntilSet ==
  \A t \in TextTask : reading[t] # Null /\ ~replaced[t] => reading[t] \in live
=============================================================================
