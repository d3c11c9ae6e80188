------------------------------ MODULE MCFraming ------------------------------
(* Headers of two bytes in a buffer of four: a frame that is only a header, *)
(* one with a body, one that fills the buffer, and three to refuse (too     *)
(* short, too long, out of sync).  Three frames hold every way a segment    *)
(* can straddle a boundary.                                                 *)
EXTENDS Framing
MCFrame ==
  [sync : {TRUE}, claim : {1, 2, 3, 4, 5}] \cup [sync : {FALSE}, claim : {2}]
=============================================================================
