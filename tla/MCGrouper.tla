------------------------------ MODULE MCGrouper ------------------------------
(* Two gains of different range, room for two proxies, two group and two    *)
(* citizen slots: every slot is reused, a proxy can be a citizen, an object *)
(* can be enrolled twice.                                                   *)
EXTENDS Grouper
MCTop == <<1, 0>>
=============================================================================
