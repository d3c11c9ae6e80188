----------------------------- MODULE MCSessions -----------------------------
(* A small instance of Sessions: two slots, so that a slot is reused while  *)
(* the other stays connected; three sessions, so that one slot sees a       *)
(* predecessor and a successor.                                             *)
EXTENDS Sessions, TLC
CONSTANTS o1, changed, other

MCObject == {o1}
MCEvent  == {changed, other}
=============================================================================
