----------------------------- MODULE FrameStream -----------------------------
(***************************************************************************)
(* What the receive path of a connection promises: the frames a controller *)
(* sends are handled one after the other, whole, in the order sent, and    *)
(* the device ends the connection only over a frame it cannot accept or    *)
(* once the controller is gone.  How the stream is cut into segments or    *)
(* TLS records does not appear.                                            *)
(***************************************************************************)
EXTENDS Naturals, Sequences

CONSTANTS
  Frame,       \* frames a controller may send
  Good(_),     \* the device accepts the frame
  Length(_)    \* the bytes of the frame on the wire

VARIABLES
  sent,        \* frames sent so far
  peer,        \* the controller is "there", has "closed" or was "reset"
  handled,     \* contents of the frames handled so far
  open         \* the device keeps the connection

streamVars == <<sent, peer, handled, open>>

(* A byte is named by its frame's place in the stream and its own in it.   *)
Content(n) == [p \in 1 .. Length(sent[n]) |-> <<n, p>>]

StreamInit == sent = <<>> /\ peer = "there" /\ handled = <<>> /\ open = TRUE

SendFrame(f) ==
  /\ peer = "there"
  /\ sent' = Append(sent, f)
  /\ UNCHANGED <<peer, handled, open>>

(* A controller that closes has its last frames delivered; a reset loses   *)
(* what was not yet received.                                              *)
LeavePeer(how) ==
  /\ peer = "there" \/ (peer = "closed" /\ how = "reset")
  /\ peer' = how
  /\ UNCHANGED <<sent, handled, open>>

HandleNext ==
  LET n == Len(handled) + 1
  IN  /\ open /\ n <= Len(sent) /\ Good(sent[n])
      /\ handled' = Append(handled, Content(n))
      /\ UNCHANGED <<sent, peer, open>>

Drop ==
  LET n == Len(handled) + 1
  IN  /\ open
      /\ \/ n <= Len(sent) /\ ~Good(sent[n])
         \/ peer = "closed" /\ n > Len(sent)
         \/ peer = "reset"
      /\ open' = FALSE
      /\ UNCHANGED <<sent, peer, handled>>

StreamNext ==
  \/ \E f \in Frame : SendFrame(f)
  \/ \E how \in {"closed", "reset"} : LeavePeer(how)
  \/ HandleNext \/ Drop

StreamSpec == StreamInit /\ [][StreamNext]_streamVars
=============================================================================
