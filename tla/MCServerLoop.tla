---------------------------- MODULE MCServerLoop ----------------------------
(* Two connections, so that one is accepted while the other's descriptor is *)
(* in the set select() reported; intervals of none and one tick.            *)
EXTENDS ServerLoop
=============================================================================
