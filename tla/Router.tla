------------------------------- MODULE Router -------------------------------
(***************************************************************************)
(* The command router (aes70_device.c: aes70_route_command_pdu,            *)
(* append_response) between handle_frame (aes70_transport.c) and the       *)
(* handlers, with the bounds-checked writer (aes70_ocp1.h) it builds the   *)
(* reply in and the notifications the handlers raise meanwhile.            *)
(*                                                                         *)
(* One action is one round of the router's loop.  A command is a record    *)
(*   [handle, target, method, arg, whole]                                  *)
(* where ~whole stands for a size field that is below 17, or reaches past  *)
(* the end of the PDU; a body that ends early has fewer commands than the  *)
(* PDU announces.  Objects are gains: method "Get" answers with the value  *)
(* and its two limits, "Set" with a status only, an arg of Missing is a    *)
(* parameter that is not there.                                            *)
(***************************************************************************)
EXTENDS Integers, Sequences

CONSTANTS
  Conn,         \* connections of controllers
  Object,       \* object numbers in the registry
  Value,        \* values inside the range of every object
  TooBig,       \* a value outside of it
  Missing,      \* stands for a parameter that is cut off
  Subscribed,   \* connections subscribed to every object
  TxBuffer,     \* CONFIG_AES70_TX_BUFFER_SIZE
  Pdu,          \* command PDUs a controller may send
  Nothing

ASSUME RouterAssumption ==
  /\ Subscribed \subseteq Conn
  /\ -1 \notin Conn
  /\ TxBuffer \in Nat /\ TxBuffer >= 10
  /\ Nothing \notin Pdu
  /\ \A p \in Pdu : /\ p.conn \in Conn /\ p.rrq \in BOOLEAN /\ p.count \in Nat
                    /\ p.body \in Seq([handle : Nat, target : Int, method : {"Get", "Set"},
                                       arg : Int, whole : BOOLEAN])

VARIABLES
  pdu,          \* the command PDU the router works on
  next,         \* commands of it read so far (the loop counter i)
  active_conn,  \* dev->active_conn
  resp,         \* the writer: off and err
  respbuf,      \* messages in dev->respbuf
  txbuf,        \* messages in dev->txbuf
  num,          \* the num field of each object
  \* ghosts
  sent,         \* what went out on each connection since the PDU came
  answers,      \* the answers to the commands run so far
  needed        \* bytes a reply with all of them needs

vars == <<pdu, next, active_conn, resp, respbuf, txbuf, num, sent, answers, needed>>

OCP1_HEADER_LEN == 10     \* sync, version, size, type, count
Fixed == 10               \* of a response: size, handle, status, paramCount

(* ocp1_wr_room: a field that does not fit latches err; with err set, or   *)
(* without room, nothing is written.  A handler writes field after field,  *)
(* so n bytes in all fit exactly when the last of them does.               *)
Written(w, n) ==
  IF w.err \/ w.off + n > TxBuffer THEN [w EXCEPT !.err = TRUE]
                                   ELSE [w EXCEPT !.off = @ + n]

-----------------------------------------------------------------------------
(* A command at its handler.                                               *)

(* aes70_device_find, then gain_dispatch.                                  *)
Status(cmd) ==
  IF cmd.target \notin Object THEN "BadONo"
  ELSE IF cmd.method = "Get" THEN "OK"
  ELSE IF cmd.arg = Missing THEN "BadFormat"
  ELSE IF cmd.arg \notin Value THEN "ParameterOutOfRange"
  ELSE "OK"

Gets(cmd) == cmd.method = "Get" /\ Status(cmd) = "OK"
Sets(cmd) == cmd.method = "Set" /\ Status(cmd) = "OK"

ParamBytes(cmd) == IF Gets(cmd) THEN 12 ELSE 0

Size(cmd) == Fixed + ParamBytes(cmd)

(* The response message of a command, given the values it meets.           *)
Answer(cmd, f) ==
  [handle |-> cmd.handle, status |-> Status(cmd),
   params |-> IF Gets(cmd) THEN <<f[cmd.target]>> ELSE <<>>]

Effect(cmd, f) == IF Sets(cmd) THEN [f EXCEPT ![cmd.target] = cmd.arg] ELSE f

Event(o, v) == [kind |-> "event", emitter |-> o, value |-> v]

Events(cmd) == IF Sets(cmd) THEN <<Event(cmd.target, cmd.arg)>> ELSE <<>>

Send(cs, ms) == [c \in Conn |-> IF c \in cs THEN sent[c] \o ms ELSE sent[c]]

(* Bug: notifications are built in the buffer of the reply.                *)
RespBufferAfterBug(cmd) ==
  IF Sets(cmd) /\ Subscribed # {} THEN Events(cmd) ELSE respbuf

(* send_notification builds in dev->txbuf and leaves dev->respbuf alone.   *)
RespBufferAfter(cmd) == respbuf

TxBufferAfter(cmd) ==
  IF Sets(cmd) /\ Subscribed # {} THEN Events(cmd) ELSE txbuf

-----------------------------------------------------------------------------
Init ==
  /\ pdu = Nothing /\ next = 0
  /\ active_conn = -1
  /\ resp = [off |-> 0, err |-> FALSE]
  /\ respbuf = <<>> /\ txbuf = <<>>
  /\ num \in [Object -> Value]
  /\ sent = [c \in Conn |-> <<>>]
  /\ answers = <<>> /\ needed = 0

(* handle_frame calls the router: it writes the reply's header if          *)
(* responses are wanted.                                                   *)
Route(p) ==
  /\ pdu = Nothing
  /\ pdu' = p /\ next' = 0
  /\ resp' = [off |-> IF p.rrq THEN OCP1_HEADER_LEN ELSE 0, err |-> FALSE]
  /\ respbuf' = <<>>
  /\ sent' = [c \in Conn |-> <<>>]
  /\ answers' = <<>> /\ needed' = OCP1_HEADER_LEN
  /\ UNCHANGED <<active_conn, txbuf, num>>

(* Bug: a reply that has overflowed ends the batch.                        *)
HasCommandStopsBug ==
  /\ pdu # Nothing
  /\ next < pdu.count /\ next < Len(pdu.body)
  /\ pdu.body[next + 1].whole /\ ~resp.err

(* Bug: the loop ends one command early.                                   *)
HasCommandShortBug ==
  /\ pdu # Nothing
  /\ next + 1 < pdu.count /\ next < Len(pdu.body)
  /\ pdu.body[next + 1].whole

(* The loop condition and the checks on the size field.                    *)
HasCommand ==
  /\ pdu # Nothing
  /\ next < pdu.count /\ next < Len(pdu.body)
  /\ pdu.body[next + 1].whole

(* append_response: the fixed part, then what the handler writes; none of  *)
(* the handlers writes a parameter and then refuses.                       *)
Appended(w, cmd) == Written(Written(w, Fixed), ParamBytes(cmd))

(* One round of the loop.  Without a response wanted the handler writes    *)
(* into a scratch buffer that is thrown away, and an unknown object is     *)
(* passed over.                                                            *)
RunCommand ==
  /\ HasCommand
  /\ LET cmd == pdu.body[next + 1]
     IN  /\ num' = Effect(cmd, num)
         /\ sent' = Send(Subscribed, Events(cmd))
         /\ txbuf' = TxBufferAfter(cmd)
         /\ resp' = IF pdu.rrq THEN Appended(resp, cmd) ELSE resp
         /\ respbuf' = IF pdu.rrq /\ ~resp'.err
                       THEN Append(RespBufferAfter(cmd), Answer(cmd, num))
                       ELSE RespBufferAfter(cmd)
         /\ answers' = Append(answers, Answer(cmd, num))
         /\ needed' = needed + Size(cmd)
  /\ next' = next + 1
  /\ active_conn' = pdu.conn
  /\ UNCHANGED pdu

(* Bug: active_conn keeps naming the connection.                           *)
EndPduKeepsConnBug ==
  /\ pdu # Nothing /\ ~HasCommand
  /\ sent' = IF pdu.rrq /\ ~resp.err
             THEN Send({pdu.conn}, <<[kind |-> "reply", announced |-> pdu.count,
                                      messages |-> respbuf]>>)
             ELSE sent
  /\ pdu' = Nothing /\ next' = 0
  /\ answers' = <<>> /\ needed' = 0
  /\ UNCHANGED <<active_conn, resp, respbuf, txbuf, num>>

(* The loop has ended, or broke off.  A reply that overflowed is dropped;  *)
(* handle_frame sends any other.  The header says msg_count whatever the   *)
(* loop did.                                                               *)
EndPdu ==
  /\ pdu # Nothing /\ ~HasCommand
  /\ active_conn' = -1
  /\ sent' = IF pdu.rrq /\ ~resp.err
             THEN Send({pdu.conn}, <<[kind |-> "reply", announced |-> pdu.count,
                                      messages |-> respbuf]>>)
             ELSE sent
  /\ pdu' = Nothing /\ next' = 0
  /\ answers' = <<>> /\ needed' = 0
  /\ UNCHANGED <<resp, respbuf, txbuf, num>>

(* drain_cmd_queue, on the same task between two frames: a set of the      *)
(* application, in range after aes70_object_apply_set's clamp.             *)
ApplySet(o, v) ==
  /\ pdu = Nothing
  /\ num' = [num EXCEPT ![o] = v]
  /\ txbuf' = IF Subscribed # {} THEN <<Event(o, v)>> ELSE txbuf
  /\ sent' = [c \in Conn |-> IF c \in Subscribed THEN <<Event(o, v)>> ELSE <<>>]
  /\ UNCHANGED <<pdu, next, active_conn, resp, respbuf, answers, needed>>

Next ==
  \/ \E p \in Pdu : Route(p)
  \/ RunCommand \/ EndPdu
  \/ \E o \in Object, v \in Value : ApplySet(o, v)

Spec == Init /\ [][Next]_vars
-----------------------------------------------------------------------------
(* Properties.                                                             *)

(* Type invariant; the reply never runs past its buffer.                   *)
TypeOK ==
  /\ pdu \in Pdu \cup {Nothing}
  /\ next \in Nat
  /\ pdu # Nothing => next <= Len(pdu.body) /\ next <= pdu.count
  /\ active_conn \in Conn \cup {-1}
  /\ resp \in [off : 0 .. TxBuffer, err : BOOLEAN]
  /\ num \in [Object -> Value]
  /\ needed \in Nat

(* Locks, privileges and subscriptions of a command are judged by          *)
(* active_conn: while commands run it names the connection they came on,   *)
(* and what the task does between two PDUs is done for nobody.             *)
ActiveConnOfPdu ==
  active_conn = IF pdu = Nothing \/ next = 0 THEN -1 ELSE pdu.conn

(* The reply under construction: unless it has overflowed, the buffer      *)
(* holds the answers of all commands run, nothing a notification left      *)
(* there, and off is their length; it has overflowed exactly if they do    *)
(* not fit.                                                                *)
ReplyComplete ==
  pdu # Nothing /\ pdu.rrq =>
    /\ resp.err <=> needed > TxBuffer
    /\ ~resp.err => respbuf = answers /\ resp.off = needed

(* The promise of CommandService: commands are run in order, once, whether *)
(* or not they are answered and whether or not the answers fit, and the    *)
(* reply holds their answers, after the notifications they caused.         *)
Service == INSTANCE CommandService WITH
  request <- pdu, done <- next, value <- num, told <- sent

ImplementsCommands == Service!ServiceSpec

(* The comment at the header's message count, aes70_device.c:62: "one      *)
(* response per command".  So it is of a batch none of whose commands is   *)
(* malformed and whose answers fit: they come in the order of the handles. *)
(* (A batch that breaks off announces responses that do not follow.)       *)
Whole(p) == p.count <= Len(p.body) /\ \A k \in 1 .. p.count : p.body[k].whole

WholeBatchAnswered ==
  [][pdu # Nothing /\ pdu' = Nothing /\ pdu.rrq /\ Whole(pdu) /\ needed <= TxBuffer =>
       LET reply == sent'[pdu.conn][Len(sent'[pdu.conn])] IN
         /\ reply.kind = "reply" /\ reply.announced = pdu.count
         /\ DOMAIN reply.messages = 1 .. pdu.count
         /\ \A k \in 1 .. pdu.count : reply.messages[k].handle = pdu.body[k].handle]_vars
=============================================================================
