--------------------------- MODULE CommandService ---------------------------
(***************************************************************************)
(* What a controller is promised about a command PDU (aes70_device.c).     *)
(*                                                                         *)
(* The commands of the PDU are carried out in order, each one once, up to  *)
(* the first that is not whole.  If responses were asked for, all answers  *)
(* go back together, in order, after the notifications the commands        *)
(* caused; if they need more than the buffer holds nothing goes back, and  *)
(* the commands stand all the same.                                        *)
(***************************************************************************)
EXTENDS Integers, Sequences

CONSTANTS
  Conn, Object, Value,
  Pdu,                \* the command PDUs a controller may send
  Nothing,            \* no PDU is being handled
  Subscribed,         \* connections subscribed to every object
  TxBuffer,           \* bytes a reply may have
  Status(_),          \* the status a command ends with
  Answer(_, _),       \* the answer of a command, given the values before it
  Size(_),            \* the bytes that answer takes
  Effect(_, _),       \* the values after a command
  Events(_)           \* what subscribers are told of a command

VARIABLES
  request,            \* the PDU being handled, or Nothing
  done,               \* how many of its commands have been carried out
  value,              \* the value of each object
  told,               \* what each connection was sent since the PDU came
  answers,            \* the answers so far
  needed              \* the bytes the reply needs so far

serviceVars == <<request, done, value, told, answers, needed>>

HeaderLength == 10

Tell(cs, ms) == [c \in Conn |-> IF c \in cs THEN told[c] \o ms ELSE told[c]]

(* The command that is to be carried out next, if there is one.            *)
More ==
  /\ request # Nothing
  /\ done < request.count /\ done < Len(request.body)
  /\ request.body[done + 1].whole

ServiceInit ==
  /\ request = Nothing /\ done = 0
  /\ value \in [Object -> Value]
  /\ told = [c \in Conn |-> <<>>]
  /\ answers = <<>> /\ needed = 0

Request ==
  /\ request = Nothing
  /\ request' \in Pdu /\ done' = 0
  /\ told' = [c \in Conn |-> <<>>]
  /\ answers' = <<>> /\ needed' = HeaderLength
  /\ UNCHANGED value

CarryOut ==
  /\ More
  /\ LET cmd == request.body[done + 1]
     IN  /\ value' = Effect(cmd, value)
         /\ told' = Tell(Subscribed, Events(cmd))
         /\ answers' = Append(answers, Answer(cmd, value))
         /\ needed' = needed + Size(cmd)
  /\ done' = done + 1
  /\ UNCHANGED request

Reply ==
  /\ request # Nothing /\ ~More
  /\ told' = IF request.rrq /\ needed <= TxBuffer
             THEN Tell({request.conn},
                       <<[kind |-> "reply", announced |-> request.count, messages |-> answers]>>)
             ELSE told
  /\ request' = Nothing
  /\ done' = 0 /\ answers' = <<>> /\ needed' = 0
  /\ UNCHANGED value

(* Between two PDUs the application's own sets are applied.                *)
ApplicationSet(o, v) ==
  /\ request = Nothing
  /\ value' = [value EXCEPT ![o] = v]
  /\ told' = [c \in Conn |-> IF c \in Subscribed
                             THEN <<[kind |-> "event", emitter |-> o, value |-> v]>>
                             ELSE <<>>]
  /\ UNCHANGED <<request, done, answers, needed>>

ServiceNext ==
  \/ Request \/ CarryOut \/ Reply
  \/ \E o \in Object, v \in Value : ApplicationSet(o, v)

ServiceSpec == ServiceInit /\ [][ServiceNext]_serviceVars
=============================================================================
