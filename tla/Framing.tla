------------------------------- MODULE Framing -------------------------------
(***************************************************************************)
(* The receive path of one connection (aes70_transport.c): the recv in     *)
(* server_task, tls_service_rx and process_rx, which cut the byte stream   *)
(* back into OCP.1 frames however TCP segments or TLS records cut it.      *)
(*                                                                         *)
(* A byte is <<n, p>>, the p-th byte of the n-th frame sent, so that a     *)
(* byte lost, repeated or taken for another frame's shows.  The header is  *)
(* HeaderLen bytes of which the first is the sync value; the claim of a    *)
(* frame is PduSize + 1, its length for any frame that is accepted.        *)
(***************************************************************************)
EXTENDS Integers, Sequences

CONSTANTS
  HeaderLen,  \* OCP1_HEADER_LEN (10)
  RxBuffer,   \* CONFIG_AES70_RX_BUFFER_SIZE
  Frame,      \* [sync : BOOLEAN, claim : Nat]: what a controller may send
  MaxFrames   \* bound on the frames sent in one behaviour

ASSUME FramingAssumption ==
  /\ HeaderLen \in Nat \ {0} /\ RxBuffer \in Nat /\ HeaderLen < RxBuffer
  /\ Frame \subseteq [sync : BOOLEAN, claim : Nat]
  /\ MaxFrames \in Nat

VARIABLES
  sent,      \* ghost: the frames the controller sent
  peer,      \* the controller is "there", has "closed" or was "reset"
  wire,      \* bytes on their way or in the socket, oldest first
  tls,       \* the connection is a TLS session
  record,    \* decrypted bytes the TLS library holds; select() ignores them
  rx,        \* c->rx[0 .. c->rx_len)
  consumed,  \* process_rx: bytes of rx already handled
  pc,        \* "select", "read" (tls_service_rx) or "parse" (process_rx)
  open,      \* c->in_use
  handled    \* ghost: the frames given to handle_frame, header included

peerVars == <<sent, peer>>
vars == <<sent, peer, wire, tls, record, rx, consumed, pc, open, handled>>

Length(f)  == IF f.claim > HeaderLen THEN f.claim ELSE HeaderLen
Good(f)    == f.sync /\ f.claim \in HeaderLen .. RxBuffer
Content(n) == [p \in 1 .. Length(sent[n]) |-> <<n, p>>]

Init ==
  /\ sent = <<>> /\ peer = "there" /\ wire = <<>>
  /\ tls \in BOOLEAN
  /\ record = <<>> /\ rx = <<>> /\ consumed = 0
  /\ pc = "select" /\ open = TRUE /\ handled = <<>>

First(s, k)  == SubSeq(s, 1, k)
Behind(s, k) == SubSeq(s, k + 1, Len(s))

-----------------------------------------------------------------------------
(* The controller and the network.                                         *)

SendFrame(f) ==
  /\ peer = "there" /\ Len(sent) < MaxFrames
  /\ sent' = Append(sent, f)
  /\ wire' = wire \o [p \in 1 .. Length(f) |-> <<Len(sent) + 1, p>>]
  /\ UNCHANGED <<peer, tls, record, rx, consumed, pc, open, handled>>

LeavePeer(how) ==
  /\ peer = "there" \/ (peer = "closed" /\ how = "reset")
  /\ peer' = how
  /\ UNCHANGED <<sent, wire, tls, record, rx, consumed, pc, open, handled>>

-----------------------------------------------------------------------------
(* Reading.                                                                *)

Space == RxBuffer - Len(rx)

(* recv: any number of the bytes waiting, at most what the buffer has room *)
(* for.                                                                    *)
Recv ==
  /\ open /\ pc = "select" /\ ~tls /\ peer # "reset"
  /\ \E k \in 1 .. Len(wire) :
       /\ k <= Space
       /\ rx' = rx \o First(wire, k)
       /\ wire' = Behind(wire, k)
  /\ pc' = "parse"
  /\ UNCHANGED <<peerVars, tls, record, consumed, open, handled>>

(* select() sees a TLS socket readable; tls_service_rx is entered.         *)
TlsReadable ==
  /\ open /\ pc = "select" /\ tls
  /\ wire # <<>> \/ peer # "there"
  /\ pc' = "read"
  /\ UNCHANGED <<peerVars, wire, tls, record, rx, consumed, open, handled>>

(* esp_tls_conn_read with no decrypted bytes left decrypts the next record,*)
(* then hands out what fits.  A record may hold any number of bytes.       *)
TlsRead ==
  /\ open /\ pc = "read" /\ (record # <<>> \/ peer # "reset")
  /\ \E n \in 0 .. Len(wire) :
       LET have == record \o First(wire, n)
           k    == IF Len(have) < Space THEN Len(have) ELSE Space
       IN  /\ (record = <<>>) <=> (n > 0)
           /\ k > 0
           /\ wire' = Behind(wire, n)
           /\ rx' = rx \o First(have, k)
           /\ record' = Behind(have, k)
  /\ pc' = "parse"
  /\ UNCHANGED <<peerVars, tls, consumed, open, handled>>

(* Only part of a record has arrived: WANT_READ ends the loop.             *)
TlsWouldBlock ==
  /\ open /\ pc = "read" /\ record = <<>> /\ peer # "reset"
  /\ wire # <<>>
  /\ pc' = "select"
  /\ UNCHANGED <<peerVars, wire, tls, record, rx, consumed, open, handled>>

(* recv or esp_tls_conn_read returns 0 or an error: the peer closed and    *)
(* everything was read, the connection was reset, or there was no room.    *)
ReadFails ==
  /\ open
  /\ pc = (IF tls THEN "read" ELSE "select")
  /\ \/ Space = 0
     \/ peer = "closed" /\ wire = <<>> /\ record = <<>>
     \/ peer = "reset" /\ record = <<>>
  /\ open' = FALSE
  /\ UNCHANGED <<peerVars, wire, tls, record, rx, consumed, pc, handled>>

-----------------------------------------------------------------------------
(* process_rx.                                                             *)

Unparsed == Len(rx) - consumed
Head1    == rx[consumed + 1]                    \* p[0]
Claim    == sent[Head1[1]].claim                \* frame_total
Synced   == Head1[2] = 1 /\ sent[Head1[1]].sync \* p[0] == OCP1_SYNC_VAL

Parsing    == open /\ pc = "parse"
HaveHeader == Unparsed >= HeaderLen

Acceptable == Synced /\ Claim >= HeaderLen /\ Claim <= RxBuffer

Complete == Claim <= Unparsed

HandleFrame ==
  /\ Parsing /\ HaveHeader /\ Acceptable /\ Complete
  /\ handled' = Append(handled, SubSeq(rx, consumed + 1, consumed + Claim))
  /\ consumed' = consumed + Claim
  /\ UNCHANGED <<peerVars, wire, tls, record, rx, pc, open>>

RefuseFrame ==
  /\ Parsing /\ HaveHeader /\ ~Acceptable
  /\ open' = FALSE
  /\ UNCHANGED <<peerVars, wire, tls, record, rx, consumed, pc, handled>>

(* Bug: the bytes of handled frames stay in the buffer.                    *)
LeftoverBug == rx

(* The partial frame left is moved to the front; a buffer still full drops *)
(* the connection.  tls_service_rx reads on while bytes are decrypted.     *)
Leftover == Behind(rx, consumed)

(* Bug: tls_service_rx reads once per select().                            *)
ReadMoreNeverBug == FALSE

ReadMore == tls /\ Len(Leftover) < RxBuffer /\ record # <<>>

EndParse ==
  /\ Parsing
  /\ HaveHeader => Acceptable /\ ~Complete
  /\ rx' = Leftover
  /\ consumed' = 0
  /\ open' = (Len(Leftover) < RxBuffer)
  /\ pc' = IF ReadMore THEN "read" ELSE "select"
  /\ UNCHANGED <<peerVars, wire, tls, record, handled>>

-----------------------------------------------------------------------------
Receive == \/ Recv \/ TlsReadable \/ TlsRead \/ ReadFails
           \/ HandleFrame \/ RefuseFrame \/ EndParse

Next ==
  \/ \E f \in Frame : SendFrame(f)
  \/ \E how \in {"closed", "reset"} : LeavePeer(how)
  \/ Recv \/ TlsReadable \/ TlsRead \/ TlsWouldBlock \/ ReadFails
  \/ HandleFrame \/ RefuseFrame \/ EndParse

(* select() reports a readable socket and server_task serves it.  A record *)
(* of which a part is there arrives in the end (SF on TlsRead).            *)
Fairness == WF_vars(Receive) /\ SF_vars(TlsRead)

Spec == Init /\ [][Next]_vars /\ Fairness

-----------------------------------------------------------------------------
(* Properties.                                                             *)

Bytes(s) == \A k \in 1 .. Len(s) : s[k][1] \in 1 .. Len(sent) /\ s[k][2] \in Nat

(* Type invariant; the buffer never holds more than RxBuffer bytes and     *)
(* process_rx never consumes more than it holds.                           *)
TypeOK ==
  /\ sent \in Seq(Frame) /\ Len(sent) <= MaxFrames
  /\ peer \in {"there", "closed", "reset"}
  /\ Bytes(wire) /\ Bytes(record) /\ Bytes(rx)
  /\ tls \in BOOLEAN /\ open \in BOOLEAN
  /\ Len(rx) <= RxBuffer
  /\ consumed \in 0 .. Len(rx)
  /\ pc \in {"select", "read", "parse"}

Stream == INSTANCE FrameStream

(* However the stream is segmented, the frames sent are the frames         *)
(* handled: complete, in order, none twice, none merged with its           *)
(* neighbour; and the connection is dropped over a frame the device must   *)
(* refuse and over nothing else the controller sends, so the buffer-full   *)
(* branch of process_rx is never taken and recv never asked for 0 bytes.   *)
ImplementsStream == Stream!StreamSpec

(* A frame that was sent is handled, unless the connection ends: back in   *)
(* select(), nothing waits that only a later read would uncover, neither a *)
(* complete frame in rx nor decrypted bytes in the TLS library, which do   *)
(* not make the socket readable.                                           *)
EveryFrameHandled ==
  \A n \in 1 .. MaxFrames : (Len(sent) >= n) ~> (Len(handled) >= n \/ ~open)
=============================================================================
