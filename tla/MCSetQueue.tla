----------------------------- MODULE MCSetQueue -----------------------------
(* Two application tasks, two objects, a queue and a mailbox that fill up    *)
(* within the four requests a behaviour accepts.                            *)
EXTENDS SetQueue
CONSTANTS a1, a2, gain, mute, low, high
MCApp    == {a1, a2}
MCObject == {gain, mute}
MCValue  == {low, high}
=============================================================================
