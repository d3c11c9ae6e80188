------------------------------ MODULE MCShared ------------------------------
(***************************************************************************)
(* What application tasks and the server task reach at once under          *)
(* dev->lock; the part looked at is chosen at the start:                   *)
(*   "registry"  module Registry: two tasks of the application and the     *)
(*               server task, three objects in a table of three, lists     *)
(*               that start with room for one member: both tasks are in a  *)
(*               constructor at once, a list grows twice, the table fills  *)
(*               up;                                                       *)
(*   "texts"     module SharedTexts: two tasks of the application and the  *)
(*               server task, with a block for each text and each setter.  *)
(* Both keep dev->lock for themselves: no task holds it for a constructor  *)
(* and a text at once, and neither reads what the other writes.            *)
(***************************************************************************)
EXTENDS Registry, SharedTexts, TLC

CONSTANTS t1, t2, a1, a2, b1, b2, b3, b4, b5

MCAppTask == {t1, t2}
MCApplication == {a1, a2}
MCHeapBlock == {b1, b2, b3, b4, b5}

(* Application tasks do not differ, nor do blocks of the heap.             *)
Interchangeable ==
  Permutations(AppTask) \cup Permutations(Application) \cup Permutations(HeapBlock)

VARIABLE part

SharedInit ==
  /\ part \in {"registry", "texts"}
  /\ Init
  /\ TextsInit /\ (part # "texts" => text["str"] = Null)

SharedNext ==
  /\ UNCHANGED part
  /\ \/ part = "registry" /\ Next /\ UNCHANGED textVars
     \/ part = "texts" /\ TextsNext /\ UNCHANGED vars

SharedSpec == SharedInit /\ [][SharedNext]_<<part, vars, textVars>>
=============================================================================
