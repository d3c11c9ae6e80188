---------------------------- MODULE MCLifecycle -----------------------------
(* One device, started and stopped again and again over a network stack     *)
(* with a socket more than a device needs, so that a pair can be lost and   *)
(* the next start still try.                                                *)
EXTENDS Lifecycle
CONSTANT d1
MCDevice == {d1}
=============================================================================
