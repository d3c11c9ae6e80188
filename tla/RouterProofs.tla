---------------------------- MODULE RouterProofs ----------------------------
(***************************************************************************)
(* Proofs about Router.  The inductive invariant ties the writer to the    *)
(* ghost count of bytes: the reply has overflowed exactly when the answers *)
(* need more than the buffer, and until then the buffer holds all of them. *)
(* From it, RouterImplementsCommands maps each round of the loop to one    *)
(* command carried out.                                                    *)
(***************************************************************************)
EXTENDS Router, TLAPS

Idle == pdu = Nothing => next = 0 /\ answers = <<>> /\ needed = 0

IInv == TypeOK /\ ActiveConnOfPdu /\ ReplyComplete /\ Idle

Command == [handle : Nat, target : Int, method : {"Get", "Set"}, arg : Int, whole : BOOLEAN]

(* A PDU the router works on has fields of the right types.                *)
LEMMA PduFields ==
  ASSUME TypeOK, pdu # Nothing
  PROVE  /\ pdu \in Pdu /\ pdu.conn \in Conn /\ pdu.conn # -1
         /\ pdu.rrq \in BOOLEAN /\ pdu.count \in Nat
         /\ pdu.body \in Seq(Command)
  BY RouterAssumption DEF TypeOK, Command

LEMMA NextCommand ==
  ASSUME TypeOK, HasCommand
  PROVE  pdu.body[next + 1] \in Command
  BY PduFields DEF TypeOK, HasCommand

(* The bytes of an answer.                                                 *)
LEMMA SizeFacts ==
  ASSUME NEW cmd \in Command
  PROVE  /\ ParamBytes(cmd) \in Nat
         /\ Size(cmd) = 10 + ParamBytes(cmd)
         /\ Size(cmd) \in Nat
  BY DEF ParamBytes, Size, Fixed

Writer == [off : 0 .. TxBuffer, err : BOOLEAN]

LEMMA WrittenFacts ==
  ASSUME NEW w \in Writer, NEW n \in Nat
  PROVE  /\ Written(w, n) \in Writer
         /\ Written(w, n).err <=> w.err \/ w.off + n > TxBuffer
         /\ ~Written(w, n).err => Written(w, n).off = w.off + n
<1>1. TxBuffer \in Nat /\ w.off \in 0 .. TxBuffer /\ w.err \in BOOLEAN
  BY RouterAssumption DEF Writer
<1>2. CASE w.err \/ w.off + n > TxBuffer
  <2>1. Written(w, n) = [w EXCEPT !.err = TRUE]
    BY <1>2 DEF Written
  <2> QED
    BY <1>2, <2>1 DEF Writer
<1>3. CASE ~(w.err \/ w.off + n > TxBuffer)
  <2>1. Written(w, n) = [w EXCEPT !.off = w.off + n]
    BY <1>3 DEF Written
  <2>2. w.off + n \in 0 .. TxBuffer
    BY <1>1, <1>3
  <2> QED
    BY <1>3, <2>1, <2>2 DEF Writer
<1> QED
  BY <1>2, <1>3

(* Appending an answer: the writer fails exactly when it does not fit.     *)
LEMMA AppendFacts ==
  ASSUME NEW w \in Writer, NEW cmd \in Command
  PROVE  /\ Appended(w, cmd) \in Writer
         /\ Appended(w, cmd).err <=> w.err \/ w.off + Size(cmd) > TxBuffer
         /\ ~Appended(w, cmd).err => Appended(w, cmd).off = w.off + Size(cmd)
<1> DEFINE v == Written(w, Fixed)
<1>1. /\ v \in Writer
      /\ v.err <=> w.err \/ w.off + 10 > TxBuffer
      /\ ~v.err => v.off = w.off + 10
  BY WrittenFacts DEF Fixed
<1>2. Appended(w, cmd) = Written(v, ParamBytes(cmd))
  BY DEF Appended
<1> HIDE DEF v
<1>3. /\ Appended(w, cmd) \in Writer
      /\ Appended(w, cmd).err <=> v.err \/ v.off + ParamBytes(cmd) > TxBuffer
      /\ ~Appended(w, cmd).err => Appended(w, cmd).off = v.off + ParamBytes(cmd)
  <2>1. v \in Writer /\ ParamBytes(cmd) \in Nat
    BY <1>1, SizeFacts
  <2>2. /\ Written(v, ParamBytes(cmd)) \in Writer
        /\ Written(v, ParamBytes(cmd)).err <=> v.err \/ v.off + ParamBytes(cmd) > TxBuffer
        /\ ~Written(v, ParamBytes(cmd)).err
             => Written(v, ParamBytes(cmd)).off = v.off + ParamBytes(cmd)
    BY <2>1, WrittenFacts
  <2> QED
    BY <1>2, <2>2
<1>4. TxBuffer \in Nat /\ w.off \in Nat
  BY RouterAssumption DEF Writer
<1> QED
  BY <1>1, <1>3, <1>4, SizeFacts

LEMMA EffectType ==
  ASSUME NEW f \in [Object -> Value], NEW cmd \in Command
  PROVE  Effect(cmd, f) \in [Object -> Value]
  BY DEF Effect, Sets, Status

LEMMA InitInv == Init => IInv
  BY RouterAssumption DEF Init, IInv, TypeOK, ActiveConnOfPdu, ReplyComplete, Idle

LEMMA RouteInv ==
  ASSUME IInv, NEW p \in Pdu, Route(p)
  PROVE  IInv'
<1>1. /\ pdu' = p /\ next' = 0 /\ p # Nothing /\ p.rrq \in BOOLEAN /\ p.count \in Nat
      /\ Len(p.body) \in Nat
  BY RouterAssumption DEF Route
<1>2. active_conn = -1
  BY DEF IInv, ActiveConnOfPdu, Route
<1>3. /\ resp' = [off |-> IF p.rrq THEN 10 ELSE 0, err |-> FALSE]
      /\ needed' = 10 /\ respbuf' = <<>> /\ answers' = <<>> /\ UNCHANGED <<active_conn, num>>
  BY DEF Route, OCP1_HEADER_LEN
<1>4. TypeOK'
  BY <1>1, <1>3, RouterAssumption DEF IInv, TypeOK
<1>5. ActiveConnOfPdu'
  BY <1>1, <1>2, <1>3 DEF ActiveConnOfPdu
<1>6. ReplyComplete'
  BY <1>1, <1>3, RouterAssumption DEF ReplyComplete
<1>7. Idle'
  BY <1>1 DEF Idle
<1> QED
  BY <1>4, <1>5, <1>6, <1>7 DEF IInv

LEMMA RunCommandInv ==
  ASSUME IInv, RunCommand
  PROVE  IInv'
<1> DEFINE cmd == pdu.body[next + 1]
<1>1. /\ HasCommand /\ pdu # Nothing /\ pdu' = pdu /\ next' = next + 1
      /\ active_conn' = pdu.conn
  BY DEF RunCommand, HasCommand
<1>2. cmd \in Command /\ TypeOK
  BY <1>1, NextCommand DEF IInv
<1>3. /\ num' = Effect(cmd, num)
      /\ resp' = IF pdu.rrq THEN Appended(resp, cmd) ELSE resp
      /\ respbuf' = IF pdu.rrq /\ ~resp'.err THEN Append(respbuf, Answer(cmd, num)) ELSE respbuf
      /\ answers' = Append(answers, Answer(cmd, num))
      /\ needed' = needed + Size(cmd)
  BY DEF RunCommand, RespBufferAfter
<1>4. /\ pdu.conn \in Conn /\ pdu.conn # -1 /\ pdu.rrq \in BOOLEAN
      /\ pdu.count \in Nat /\ Len(pdu.body) \in Nat
  BY <1>1, <1>2, PduFields
<1> HIDE DEF cmd
<1>9. resp \in Writer /\ next \in Nat /\ needed \in Nat /\ num \in [Object -> Value]
  BY <1>2 DEF TypeOK, Writer
<1>10. resp' \in Writer /\ needed' \in Nat /\ num' \in [Object -> Value]
  BY <1>2, <1>3, <1>9, SizeFacts, AppendFacts, EffectType
<1>5. TypeOK'
  BY <1>1, <1>2, <1>4, <1>9, <1>10 DEF TypeOK, HasCommand, Writer
<1>6. ActiveConnOfPdu'
  BY <1>1, <1>2, <1>4 DEF ActiveConnOfPdu, TypeOK
<1>7. ReplyComplete'
  <2>1. SUFFICES ASSUME pdu.rrq
                 PROVE  /\ resp'.err <=> needed' > TxBuffer
                        /\ ~resp'.err => respbuf' = answers' /\ resp'.off = needed'
    BY <1>1 DEF ReplyComplete
  <2>2. /\ resp.err <=> needed > TxBuffer
        /\ ~resp.err => respbuf = answers /\ resp.off = needed
    BY <1>1, <2>1 DEF IInv, ReplyComplete
  <2>3. /\ resp'.err <=> resp.err \/ resp.off + Size(cmd) > TxBuffer
        /\ ~resp'.err => resp'.off = resp.off + Size(cmd)
    BY <1>2, <1>3, <1>9, <2>1, AppendFacts
  <2>4. TxBuffer \in Nat /\ resp.off \in Nat /\ Size(cmd) \in Nat
    BY <1>2, <1>9, SizeFacts, RouterAssumption DEF Writer
  <2>5. resp'.err <=> needed' > TxBuffer
    BY <1>3, <1>9, <2>2, <2>3, <2>4
  <2>6. ~resp'.err => respbuf' = answers' /\ resp'.off = needed'
    BY <1>3, <2>1, <2>2, <2>3
  <2> QED
    BY <2>5, <2>6
<1>8. Idle'
  BY <1>1 DEF Idle
<1> QED
  BY <1>5, <1>6, <1>7, <1>8 DEF IInv

LEMMA EndPduInv ==
  ASSUME IInv, EndPdu
  PROVE  IInv'
  BY RouterAssumption DEF IInv, TypeOK, ActiveConnOfPdu, ReplyComplete, Idle, EndPdu

LEMMA ApplySetInv ==
  ASSUME IInv, NEW o \in Object, NEW v \in Value, ApplySet(o, v)
  PROVE  IInv'
  BY RouterAssumption DEF IInv, TypeOK, ActiveConnOfPdu, ReplyComplete, Idle, ApplySet

LEMMA NextInv == IInv /\ [Next]_vars => IInv'
<1> SUFFICES ASSUME IInv, [Next]_vars PROVE IInv'
  OBVIOUS
<1>1. CASE UNCHANGED vars
  BY <1>1 DEF vars, IInv, TypeOK, ActiveConnOfPdu, ReplyComplete, Idle
<1>2. CASE Next
  BY <1>2, RouteInv, RunCommandInv, EndPduInv, ApplySetInv DEF Next
<1> QED
  BY <1>1, <1>2

(* The inductive invariant of the router.                                  *)
THEOREM RouterInvariant == Spec => []IInv
  BY InitInv, NextInv, PTL DEF Spec

(* The reply never runs past its buffer, the reader never past the PDU.    *)
THEOREM RouterTypeCorrect == Spec => []TypeOK
<1>1. IInv => TypeOK
  BY DEF IInv
<1> QED
  BY <1>1, RouterInvariant, PTL

(* Commands run for the connection they came on, and nothing else does.    *)
THEOREM RunsForItsConnection == Spec => []ActiveConnOfPdu
<1>1. IInv => ActiveConnOfPdu
  BY DEF IInv
<1> QED
  BY <1>1, RouterInvariant, PTL

(* For a buffer of any size and PDUs of any length, the reply holds every  *)
(* answer, or has overflowed because they do not fit.                      *)
THEOREM ReplyHoldsAnswers == Spec => []ReplyComplete
<1>1. IInv => ReplyComplete
  BY DEF IInv
<1> QED
  BY <1>1, RouterInvariant, PTL

-----------------------------------------------------------------------------
LEMMA InitImplements == Init => Service!ServiceInit
  BY DEF Init, Service!ServiceInit

LEMMA StepImplements ==
  ASSUME IInv, [Next]_vars
  PROVE  [Service!ServiceNext]_(Service!serviceVars)
<1>1. ASSUME NEW p \in Pdu, Route(p) PROVE Service!Request
  BY <1>1 DEF Route, Service!Request, Service!HeaderLength, OCP1_HEADER_LEN
<1>2. CASE RunCommand
  <2>1. Service!More
    BY <1>2 DEF RunCommand, HasCommand, Service!More
  <2>2. Service!CarryOut
    BY <1>2, <2>1 DEF RunCommand, Service!CarryOut, Service!Tell, Send
  <2> QED
    BY <2>2 DEF Service!ServiceNext
<1>3. CASE EndPdu
  <2>1. pdu # Nothing /\ ~Service!More
    BY <1>3 DEF EndPdu, HasCommand, Service!More
  <2>2. pdu.rrq /\ ~resp.err <=> pdu.rrq /\ needed <= TxBuffer
    BY <2>1, RouterAssumption DEF IInv, ReplyComplete, TypeOK
  <2>3. pdu.rrq /\ ~resp.err => respbuf = answers
    BY <2>1 DEF IInv, ReplyComplete
  <2>4. sent' = IF pdu.rrq /\ needed <= TxBuffer
                THEN Service!Tell({pdu.conn}, <<[kind |-> "reply", announced |-> pdu.count,
                                                 messages |-> answers]>>)
                ELSE sent
    <3>1. CASE pdu.rrq /\ ~resp.err
      BY <1>3, <2>2, <2>3, <3>1 DEF EndPdu, Send, Service!Tell
    <3>2. CASE ~(pdu.rrq /\ ~resp.err)
      BY <1>3, <2>2, <3>2 DEF EndPdu
    <3> QED
      BY <3>1, <3>2
  <2>5. Service!Reply
    BY <1>3, <2>1, <2>4 DEF EndPdu, Service!Reply
  <2> QED
    BY <2>5 DEF Service!ServiceNext
<1>4. ASSUME NEW o \in Object, NEW v \in Value, ApplySet(o, v)
      PROVE  Service!ApplicationSet(o, v)
  BY <1>4 DEF ApplySet, Event, Service!ApplicationSet
<1>5. CASE UNCHANGED vars
  BY <1>5 DEF vars, Service!serviceVars
<1> QED
  BY <1>1, <1>2, <1>3, <1>4, <1>5 DEF Next, Service!ServiceNext

(* The router keeps the promise of CommandService for every buffer size,   *)
(* PDU and set of subscribers.                                             *)
THEOREM RouterImplementsCommands == Spec => ImplementsCommands
<1>1. Spec => Service!ServiceInit
  BY InitImplements DEF Spec
<1>2. IInv /\ [Next]_vars => [Service!ServiceNext]_(Service!serviceVars)
  BY StepImplements
<1> QED
  BY <1>1, <1>2, RouterInvariant, PTL DEF Spec, ImplementsCommands, Service!ServiceSpec

-----------------------------------------------------------------------------
(* What a whole batch is answered.                                         *)
Response == [handle : Nat, status : {"OK", "BadONo", "BadFormat", "ParameterOutOfRange"},
             params : Seq(Value)]
Message  == [kind : {"event"}, emitter : Object, value : Value]
            \cup [kind : {"reply"}, announced : Nat, messages : Seq(Response)]

(* One answer to each command run, in their order.                         *)
IAnswers ==
  /\ answers \in Seq(Response) /\ respbuf \in Seq(Response)
  /\ sent \in [Conn -> Seq(Message)]
  /\ pdu # Nothing =>
       Len(answers) = next /\ \A k \in 1 .. next : answers[k].handle = pdu.body[k].handle

LEMMA AnswerType ==
  ASSUME NEW f \in [Object -> Value], NEW cmd \in Command
  PROVE  Answer(cmd, f) \in Response /\ Answer(cmd, f).handle = cmd.handle
<1>1. Status(cmd) \in {"OK", "BadONo", "BadFormat", "ParameterOutOfRange"}
  BY DEF Status
<1>2. Gets(cmd) => cmd.target \in Object
  BY DEF Gets, Status
<1>3. (IF Gets(cmd) THEN <<f[cmd.target]>> ELSE <<>>) \in Seq(Value)
  BY <1>2
<1>4. cmd.handle \in Nat
  BY DEF Command
<1> QED
  BY <1>1, <1>3, <1>4 DEF Answer, Response

LEMMA EventsType ==
  ASSUME NEW cmd \in Command
  PROVE  Events(cmd) \in Seq(Message)
<1>1. Sets(cmd) => cmd.target \in Object /\ cmd.arg \in Value
  BY DEF Sets, Status, Command
<1>2. CASE Sets(cmd)
  <2>1. Event(cmd.target, cmd.arg) \in Message
    BY <1>1, <1>2 DEF Event, Message
  <2>2. Events(cmd) = <<Event(cmd.target, cmd.arg)>>
    BY <1>2 DEF Events
  <2> QED
    BY <2>1, <2>2
<1>3. CASE ~Sets(cmd)
  BY <1>3 DEF Events
<1> QED
  BY <1>2, <1>3

LEMMA SendType ==
  ASSUME sent \in [Conn -> Seq(Message)], NEW cs \in SUBSET Conn, NEW ms \in Seq(Message)
  PROVE  Send(cs, ms) \in [Conn -> Seq(Message)]
  BY DEF Send

LEMMA RunCommandAnswers ==
  ASSUME IInv, IAnswers, RunCommand
  PROVE  IAnswers'
<1> DEFINE cmd == pdu.body[next + 1]
<1>1. /\ HasCommand /\ pdu # Nothing /\ pdu' = pdu /\ next' = next + 1 /\ next \in Nat
      /\ cmd \in Command /\ num \in [Object -> Value]
  BY NextCommand DEF RunCommand, HasCommand, IInv, TypeOK
<1>2. /\ answers' = Append(answers, Answer(cmd, num))
      /\ respbuf' \in {respbuf, Append(respbuf, Answer(cmd, num))}
      /\ sent' = Send(Subscribed, Events(cmd))
  BY DEF RunCommand, RespBufferAfter
<1>3. Answer(cmd, num) \in Response /\ Answer(cmd, num).handle = cmd.handle
  BY <1>1, AnswerType
<1>4. sent' \in [Conn -> Seq(Message)]
  BY <1>1, <1>2, EventsType, SendType, RouterAssumption DEF IAnswers
<1>5. answers' \in Seq(Response) /\ respbuf' \in Seq(Response)
  <2> DEFINE a == Answer(cmd, num)
  <2>1. a \in Response /\ answers \in Seq(Response) /\ respbuf \in Seq(Response)
    BY <1>3 DEF IAnswers
  <2> HIDE DEF a
  <2>2. Append(answers, a) \in Seq(Response) /\ Append(respbuf, a) \in Seq(Response)
    BY <2>1
  <2> QED
    BY <1>2, <2>1, <2>2 DEF a
<1>6. Len(answers') = next + 1
  BY <1>1, <1>2 DEF IAnswers
<1>7. ASSUME NEW k \in 1 .. next + 1 PROVE answers'[k].handle = pdu.body[k].handle
  <2>1. CASE k = next + 1
    BY <1>1, <1>2, <1>3, <2>1 DEF IAnswers
  <2>2. CASE k \in 1 .. next
    BY <1>1, <1>2, <1>3, <2>2 DEF IAnswers
  <2> QED
    BY <1>1, <2>1, <2>2
<1> QED
  BY <1>1, <1>4, <1>5, <1>6, <1>7 DEF IAnswers

LEMMA EndPduAnswers ==
  ASSUME IInv, IAnswers, EndPdu
  PROVE  IAnswers'
<1> DEFINE r == [kind |-> "reply", announced |-> pdu.count, messages |-> respbuf]
<1>1. <<r>> \in Seq(Message) /\ pdu.conn \in Conn
  BY PduFields DEF EndPdu, IAnswers, IInv, Message
<1>2. sent' \in {Send({pdu.conn}, <<r>>), sent}
  BY DEF EndPdu
<1> HIDE DEF r
<1>3. sent' \in [Conn -> Seq(Message)]
  <2>1. {pdu.conn} \in SUBSET Conn /\ sent \in [Conn -> Seq(Message)]
    BY <1>1 DEF IAnswers
  <2>2. Send({pdu.conn}, <<r>>) \in [Conn -> Seq(Message)]
    BY <1>1, <2>1, SendType
  <2> QED
    BY <1>2, <2>1, <2>2
<1>4. answers' = <<>> /\ respbuf' = respbuf /\ pdu' = Nothing
  BY DEF EndPdu
<1>5. respbuf \in Seq(Response)
  BY DEF IAnswers
<1> QED
  BY <1>3, <1>4, <1>5 DEF IAnswers

LEMMA NextAnswers == IInv /\ IAnswers /\ [Next]_vars => IAnswers'
<1> SUFFICES ASSUME IInv, IAnswers, [Next]_vars PROVE IAnswers'
  OBVIOUS
<1>1. ASSUME NEW p \in Pdu, Route(p) PROVE IAnswers'
  BY <1>1 DEF Route, IAnswers
<1>2. ASSUME NEW o \in Object, NEW v \in Value, ApplySet(o, v) PROVE IAnswers'
  <2>1. <<Event(o, v)>> \in Seq(Message)
    BY DEF Event, Message
  <2> QED
    BY <1>2, <2>1 DEF ApplySet, IAnswers
<1>3. CASE UNCHANGED vars
  BY <1>3 DEF vars, IAnswers
<1> QED
  BY <1>1, <1>2, <1>3, RunCommandAnswers, EndPduAnswers DEF Next

(* A batch without a malformed command is run to its end.                  *)
LEMMA WholeIsRun ==
  ASSUME TypeOK, pdu # Nothing, Whole(pdu), ~HasCommand
  PROVE  next = pdu.count
<1>1. next \in Nat /\ pdu.count \in Nat /\ Len(pdu.body) \in Nat /\ next <= pdu.count
  BY PduFields DEF TypeOK
<1>2. ASSUME next < pdu.count PROVE FALSE
  <2>1. next + 1 \in 1 .. pdu.count /\ next < Len(pdu.body)
    BY <1>1, <1>2 DEF Whole
  <2> QED
    BY <1>2, <2>1 DEF Whole, HasCommand
<1> QED
  BY <1>1, <1>2

LEMMA WholeStep ==
  ASSUME IInv, IAnswers, [Next]_vars, pdu # Nothing, pdu' = Nothing, pdu.rrq, Whole(pdu),
         needed <= TxBuffer
  PROVE  LET reply == sent'[pdu.conn][Len(sent'[pdu.conn])] IN
           /\ reply.kind = "reply" /\ reply.announced = pdu.count
           /\ DOMAIN reply.messages = 1 .. pdu.count
           /\ \A k \in 1 .. pdu.count : reply.messages[k].handle = pdu.body[k].handle
<1> DEFINE r == [kind |-> "reply", announced |-> pdu.count, messages |-> respbuf]
<1>1. EndPdu
  BY DEF Next, Route, RunCommand, ApplySet, vars
<1>2. next = pdu.count /\ pdu.conn \in Conn /\ next \in Nat
  BY <1>1, WholeIsRun, PduFields DEF EndPdu, IInv, TypeOK
<1>3. ~resp.err /\ respbuf = answers
  BY RouterAssumption DEF IInv, ReplyComplete, TypeOK
<1>4. sent' = Send({pdu.conn}, <<r>>)
  BY <1>1, <1>3 DEF EndPdu
<1>5. sent'[pdu.conn] = sent[pdu.conn] \o <<r>>
  BY <1>2, <1>4 DEF Send
<1>6. sent[pdu.conn] \in Seq(Message) /\ <<r>> \in Seq(Message)
  BY <1>2 DEF IAnswers, Message, IInv, TypeOK
<1>7. sent'[pdu.conn][Len(sent'[pdu.conn])] = r
  BY <1>5, <1>6
<1>8. /\ DOMAIN answers = 1 .. pdu.count
      /\ \A k \in 1 .. pdu.count : answers[k].handle = pdu.body[k].handle
  BY <1>2 DEF IAnswers
<1> QED
  BY <1>3, <1>7, <1>8

(* A batch without a malformed command whose answers fit is answered       *)
(* command by command, whatever its length.                                *)
THEOREM WholeBatchesAnswered == Spec => WholeBatchAnswered
<1>1. Init => IAnswers
  BY DEF Init, IAnswers
<1>2. IInv /\ IAnswers /\ [Next]_vars =>
        [pdu # Nothing /\ pdu' = Nothing /\ pdu.rrq /\ Whole(pdu) /\ needed <= TxBuffer =>
           LET reply == sent'[pdu.conn][Len(sent'[pdu.conn])] IN
             /\ reply.kind = "reply" /\ reply.announced = pdu.count
             /\ DOMAIN reply.messages = 1 .. pdu.count
             /\ \A k \in 1 .. pdu.count : reply.messages[k].handle = pdu.body[k].handle]_vars
  BY WholeStep
<1>3. IInv /\ IAnswers /\ [Next]_vars => IAnswers'
  BY NextAnswers
<1> QED
  BY <1>1, <1>2, <1>3, RouterInvariant, PTL DEF Spec, WholeBatchAnswered
=============================================================================
