--------------------------- MODULE SetQueueProofs ---------------------------
(***************************************************************************)
(* Safety of SetQueue for every queue length, mailbox size and set of      *)
(* application tasks: types, no lost wake-up, first-in first-out, and what *)
(* stop frees behind the server task.                                      *)
(***************************************************************************)
EXTENDS SetQueue, SequenceTheorems, TLAPS

(* What an application request and the queue are made of.                  *)
LEMMA RequestFields ==
  ASSUME NEW r \in Request
  PROVE  r.obj \in Object /\ r.val \in Value
BY DEF Request

(* One more datagram, unless the mailbox is full or there is no wake pipe. *)
LEMMA WakeBounds ==
  ASSUME NEW n \in 0 .. MailboxLen
  PROVE  Wake(n) \in 0 .. MailboxLen /\ Wake(n) >= n
<1>1. CASE WakePipe /\ n < MailboxLen
  <2>1. Wake(n) = n + 1
    BY <1>1 DEF Wake
  <2> QED
    BY <1>1, <2>1, SetQueueAssumption
<1>2. CASE ~(WakePipe /\ n < MailboxLen)
  <2>1. Wake(n) = n
    BY <1>2 DEF Wake
  <2> QED
    BY <2>1
<1> QED
  BY <1>1, <1>2

(* Appending to a sequence and to a suffix of it leaves a suffix.          *)
LEMMA AppendBoth ==
  ASSUME NEW T, NEW p \in Seq(T), NEW q \in Seq(T), NEW r \in T,
         NEW n \in 0 .. Len(p), IsRest(q, p, n)
  PROVE  IsRest(Append(q, r), Append(p, r), n)
<1>1. /\ Len(p) \in Nat /\ Len(q) \in Nat
      /\ Len(Append(p, r)) = Len(p) + 1
      /\ \A i \in 1 .. Len(p) : Append(p, r)[i] = p[i]
      /\ Append(p, r)[Len(p) + 1] = r
      /\ Len(Append(q, r)) = Len(q) + 1
      /\ \A i \in 1 .. Len(q) : Append(q, r)[i] = q[i]
      /\ Append(q, r)[Len(q) + 1] = r
  BY AppendProperties, LenProperties
<1>2. ASSUME NEW k \in 1 .. Len(q) + 1 PROVE Append(q, r)[k] = Append(p, r)[n + k]
  <2>1. CASE k = Len(q) + 1
    <3>1. n + k = Len(p) + 1
      BY <2>1, <1>1 DEF IsRest
    <3> QED
      BY <2>1, <3>1, <1>1
  <2>2. CASE k # Len(q) + 1
    <3>1. k \in 1 .. Len(q) /\ n + k \in 1 .. Len(p)
      BY <2>2, <1>1 DEF IsRest
    <3> QED
      BY <3>1, <1>1 DEF IsRest
  <2> QED
    BY <2>1, <2>2
<1>3. Len(Append(q, r)) = Len(Append(p, r)) - n
  BY <1>1 DEF IsRest
<1>4. 1 .. Len(Append(q, r)) = 1 .. Len(q) + 1
  BY <1>1
<1>5. \A k \in 1 .. Len(Append(q, r)) : Append(q, r)[k] = Append(p, r)[n + k]
  BY <1>2, <1>4, Zenon
<1> QED
  BY <1>3, <1>5, Zenon DEF IsRest

-----------------------------------------------------------------------------
(* Types.                                                                  *)

(* Every action keeps the type invariant.  A wake datagram taken is one    *)
(* that select() saw, which needs the second conjunct.                     *)
TypeInv == TypeOK /\ (server = "wake" => mailbox > 0) /\ QueueIsRest

(* The type invariant holds at the start.                                  *)
LEMMA TypeInit == Init => TypeInv
<1> SUFFICES ASSUME Init PROVE TypeInv
  OBVIOUS
<1>1. <<>> \in Seq(Request) /\ Len(<<>>) = 0
  OBVIOUS
<1>2. QueueIsRest
  BY <1>1 DEF Init, QueueIsRest, IsRest
<1>3. /\ posting \in [App -> {"idle", "queued"}]
      /\ value \in [Object -> Value \cup {Unset}]
  BY DEF Init
<1>4. /\ cmd_q \in Seq(Request) /\ Len(cmd_q) <= QueueLen
      /\ posted \in Seq(Request) /\ applied \in 0 .. Len(posted)
      /\ mailbox \in 0 .. MailboxLen
  BY <1>1, SetQueueAssumption DEF Init
<1>5. TypeOK
  BY <1>3, <1>4 DEF Init, TypeOK
<1> QED
  BY <1>2, <1>5 DEF Init, TypeInv

(* Every step keeps the type invariant.                                    *)
LEMMA TypeNext == TypeInv /\ [Next]_vars => TypeInv'
<1> SUFFICES ASSUME TypeInv, [Next]_vars PROVE TypeInv'
  OBVIOUS
<1> USE SetQueueAssumption
<1>1. ASSUME NEW a \in App, NEW r \in Request, PostSet(a, r) PROVE TypeInv'
  <2>1. /\ cmd_q' \in Seq(Request) /\ Len(cmd_q') = Len(cmd_q) + 1
        /\ posted' \in Seq(Request) /\ Len(posted') = Len(posted) + 1
    BY <1>1 DEF TypeInv, TypeOK, PostSet
  <2>2. posting' \in [App -> {"idle", "queued"}]
    BY <1>1 DEF TypeInv, TypeOK, PostSet
  <2>3. TypeOK'
    BY <1>1, <2>1, <2>2 DEF TypeInv, TypeOK, PostSet
  <2>4. QueueIsRest'
    <3>1. cmd_q \in Seq(Request) /\ posted \in Seq(Request) /\ applied \in 0 .. Len(posted)
      BY DEF TypeInv, TypeOK
    <3>2. cmd_q' = Append(cmd_q, r) /\ posted' = Append(posted, r) /\ applied' = applied
      BY <1>1 DEF PostSet
    <3>3. IsRest(Append(cmd_q, r), Append(posted, r), applied)
      BY <3>1, AppendBoth DEF TypeInv, QueueIsRest
    <3> QED
      BY <3>2, <3>3 DEF QueueIsRest
  <2> QED
    BY <1>1, <2>3, <2>4 DEF TypeInv, PostSet
<1>2. ASSUME NEW a \in App, NudgeServer(a) PROVE TypeInv'
  <2>1. posting' \in [App -> {"idle", "queued"}]
    BY <1>2 DEF TypeInv, TypeOK, NudgeServer
  <2>2. mailbox' \in 0 .. MailboxLen /\ mailbox' >= mailbox
    BY <1>2, WakeBounds DEF TypeInv, TypeOK, NudgeServer
  <2>3. TypeOK'
    BY <1>2, <2>1, <2>2 DEF TypeInv, TypeOK, NudgeServer
  <2>4. QueueIsRest'
    BY <1>2 DEF TypeInv, QueueIsRest, NudgeServer
  <2>5. (server = "wake" => mailbox > 0)'
    BY <1>2, <2>2 DEF TypeInv, TypeOK, NudgeServer
  <2> QED
    BY <2>3, <2>4, <2>5 DEF TypeInv
<1>3. CASE SelectReturns
  BY <1>3 DEF TypeInv, TypeOK, QueueIsRest, SelectReturns
<1>4. CASE WakeRecv
  BY <1>4 DEF TypeInv, TypeOK, QueueIsRest, WakeRecv
<1>5. CASE DrainOne
  <2>1. Head(cmd_q) \in Request /\ Tail(cmd_q) \in Seq(Request)
        /\ Len(Tail(cmd_q)) = Len(cmd_q) - 1
        /\ \A k \in 1 .. Len(Tail(cmd_q)) : Tail(cmd_q)[k] = cmd_q[k + 1]
    BY <1>5 DEF TypeInv, TypeOK, DrainOne
  <2>2. value' \in [Object -> Value \cup {Unset}]
    BY <1>5, <2>1, RequestFields DEF TypeInv, TypeOK, DrainOne
  <2>3. applied + 1 \in 0 .. Len(posted)
    BY <1>5 DEF TypeInv, TypeOK, QueueIsRest, IsRest, DrainOne
  <2>4. TypeOK'
    BY <1>5, <2>1, <2>2, <2>3 DEF TypeInv, TypeOK, DrainOne
  <2>5. QueueIsRest'
    BY <1>5, <2>1 DEF TypeInv, TypeOK, QueueIsRest, IsRest, DrainOne
  <2> QED
    BY <1>5, <2>4, <2>5 DEF TypeInv, DrainOne
<1>6. CASE DrainDone
  BY <1>6 DEF TypeInv, TypeOK, QueueIsRest, DrainDone
<1>7. CASE ServeConnections
  BY <1>7 DEF TypeInv, TypeOK, QueueIsRest, ServeConnections
<1>8. CASE Unstall
  BY <1>8 DEF TypeInv, TypeOK, QueueIsRest, Unstall
<1>9. CASE ExitTask
  BY <1>9 DEF TypeInv, TypeOK, QueueIsRest, ExitTask
<1>10. CASE StopRequest
  <2>1. mailbox' \in 0 .. MailboxLen /\ mailbox' >= mailbox
    BY <1>10, WakeBounds DEF TypeInv, TypeOK, StopRequest
  <2>2. TypeOK'
    BY <1>10, <2>1 DEF TypeInv, TypeOK, StopRequest
  <2>3. QueueIsRest'
    BY <1>10 DEF TypeInv, QueueIsRest, StopRequest
  <2>4. (server = "wake" => mailbox > 0)'
    BY <1>10, <2>1 DEF TypeInv, TypeOK, StopRequest
  <2> QED
    BY <2>2, <2>3, <2>4 DEF TypeInv
<1>11. CASE StopFrees
  BY <1>11 DEF TypeInv, TypeOK, QueueIsRest, StopFrees
<1>12. CASE UNCHANGED vars
  BY <1>12 DEF TypeInv, TypeOK, QueueIsRest, vars
<1> QED
  BY <1>1, <1>2, <1>3, <1>4, <1>5, <1>6, <1>7, <1>8, <1>9, <1>10, <1>11, <1>12
  DEF Next

(* The type invariant always holds.                                        *)
LEMMA TypeAlways == Spec => []TypeInv
BY TypeInit, TypeNext, PTL DEF Spec

(* The variables keep their types; in particular the queue never holds     *)
(* more than QueueLen requests and no more is applied than was accepted.   *)
THEOREM SetQueueTypeCorrect == Spec => []TypeOK
<1>1. TypeInv => TypeOK
  BY DEF TypeInv
<1> QED
  BY <1>1, TypeAlways, PTL

-----------------------------------------------------------------------------
(* No lost wake-up.                                                        *)

(* A step keeps WakeUpPending: the only step that takes a datagram moves   *)
(* the server to the draining of the queue, which it leaves empty.         *)
LEMMA WakeNext ==
  ASSUME WakePipe
  PROVE  TypeInv /\ WakeUpPending /\ [Next]_vars => WakeUpPending'
<1> SUFFICES ASSUME TypeInv, WakeUpPending, [Next]_vars PROVE WakeUpPending'
  OBVIOUS
<1> USE SetQueueAssumption
<1>1. ASSUME NEW a \in App, NEW r \in Request, PostSet(a, r) PROVE WakeUpPending'
  <2>1. posting'[a] = "queued"
    BY <1>1 DEF TypeInv, TypeOK, PostSet
  <2> QED
    BY <2>1 DEF WakeUpPending
<1>2. ASSUME NEW a \in App, NudgeServer(a) PROVE WakeUpPending'
  BY <1>2 DEF TypeInv, TypeOK, WakeUpPending, NudgeServer, Wake
<1>3. CASE SelectReturns
  BY <1>3 DEF WakeUpPending, SelectReturns
<1>4. CASE WakeRecv
  BY <1>4 DEF WakeUpPending, WakeRecv
<1>5. CASE DrainOne
  BY <1>5 DEF WakeUpPending, DrainOne
<1>6. CASE DrainDone
  BY <1>6 DEF WakeUpPending, DrainDone
<1>7. CASE ServeConnections
  BY <1>7 DEF WakeUpPending, ServeConnections
<1>8. CASE Unstall
  BY <1>8 DEF WakeUpPending, Unstall
<1>9. CASE ExitTask
  BY <1>9 DEF WakeUpPending, ExitTask
<1>10. CASE StopRequest
  BY <1>10 DEF TypeInv, TypeOK, WakeUpPending, StopRequest, Wake
<1>11. CASE StopFrees
  BY <1>11 DEF WakeUpPending, StopFrees
<1>12. CASE UNCHANGED vars
  BY <1>12 DEF WakeUpPending, vars
<1> QED
  BY <1>1, <1>2, <1>3, <1>4, <1>5, <1>6, <1>7, <1>8, <1>9, <1>10, <1>11, <1>12
  DEF Next

(* With the wake socket open, a queued request always has a wake-up on its *)
(* way, however many datagrams the full mailbox drops.                     *)
THEOREM NoLostWakeUp == ASSUME WakePipe PROVE Spec => []WakeUpPending
<1>1. Init => WakeUpPending
  BY DEF Init, WakeUpPending
<1>2. TypeInv /\ WakeUpPending /\ [Next]_vars => WakeUpPending'
  BY WakeNext
<1> QED
  BY <1>1, <1>2, TypeAlways, PTL DEF Spec

-----------------------------------------------------------------------------
(* First in, first out.                                                    *)

(* Steps other than PostSet and DrainOne leave what HoldsLastSet is about. *)
LEMMA HoldsKept ==
  ASSUME NEW o \in Object, HoldsLastSet(o), UNCHANGED <<value, posted, applied>>
  PROVE  HoldsLastSet(o)'
BY DEF HoldsLastSet, NotSetSince

(* Appending to posted leaves its applied prefix alone.                    *)
LEMMA HoldsPost ==
  ASSUME TypeInv, NEW o \in Object, HoldsLastSet(o), NEW a \in App,
         NEW r \in Request, PostSet(a, r)
  PROVE  HoldsLastSet(o)'
<1>1. /\ value' = value /\ applied' = applied
      /\ \A k \in 1 .. applied : posted'[k] = posted[k]
  BY DEF PostSet, TypeInv, TypeOK
<1>2. applied \in Nat
  BY DEF TypeInv, TypeOK
<1> QED
  BY <1>1, <1>2 DEF HoldsLastSet, NotSetSince

(* Applying the head of the queue: its object now holds it, and nothing    *)
(* else has been set since.                                                *)
LEMMA HoldsDrain ==
  ASSUME TypeInv, NEW o \in Object, HoldsLastSet(o), DrainOne
  PROVE  HoldsLastSet(o)'
<1> DEFINE r == Head(cmd_q)
<1>1. /\ r = posted[applied + 1] /\ r \in Request
      /\ applied \in Nat /\ applied' = applied + 1
      /\ posted' = posted
      /\ value \in [Object -> Value \cup {Unset}]
      /\ value' = [value EXCEPT ![r.obj] = r.val]
  <2>1. /\ cmd_q \in Seq(Request) /\ cmd_q # <<>> /\ Len(cmd_q) \in Nat
        /\ applied \in Nat /\ value \in [Object -> Value \cup {Unset}]
    BY DEF DrainOne, TypeInv, TypeOK
  <2>2. r = cmd_q[1] /\ r \in Request /\ 1 \in 1 .. Len(cmd_q)
    BY <2>1
  <2>3. cmd_q[1] = posted[applied + 1]
    BY <2>1, <2>2 DEF TypeInv, QueueIsRest, IsRest
  <2>4. applied' = applied + 1 /\ posted' = posted /\ value' = [value EXCEPT ![r.obj] = r.val]
    BY DEF DrainOne
  <2> QED
    BY <2>1, <2>2, <2>3, <2>4
<1> HIDE DEF r
<1>2. CASE o = r.obj
  <2>1. r = [obj |-> o, val |-> value'[o]]
    BY <1>1, <1>2 DEF Request
  <2>2. \A j \in applied' + 1 .. applied' : FALSE
    BY <1>1
  <2>3. applied' \in 1 .. applied'
    BY <1>1
  <2> QED
    BY <1>1, <2>1, <2>2, <2>3 DEF HoldsLastSet, NotSetSince
<1>3. CASE o # r.obj
  <2>1. value'[o] = value[o]
    BY <1>1, <1>3
  <2>2. \A k \in Nat : NotSetSince(o, k) => NotSetSince(o, k)'
    <3> SUFFICES ASSUME NEW k \in Nat, NotSetSince(o, k),
                        NEW j \in k + 1 .. applied + 1
                 PROVE  posted[j].obj # o
      BY <1>1 DEF NotSetSince
    <3>1. CASE j = applied + 1
      BY <3>1, <1>1, <1>3
    <3>2. CASE j # applied + 1
      BY <3>2, <1>1 DEF NotSetSince
    <3> QED
      BY <3>1, <3>2
  <2> QED
    BY <1>1, <2>1, <2>2 DEF HoldsLastSet
<1> QED
  BY <1>2, <1>3

(* Requests of all tasks are applied once each, in the order they were     *)
(* accepted, and an object holds the last one applied to it.               *)
THEOREM FirstInFirstOut == Spec => []AppliedInOrder
<1>1. Init => \A o \in Object : HoldsLastSet(o)
  BY DEF Init, HoldsLastSet, NotSetSince
<1>2. TypeInv /\ (\A o \in Object : HoldsLastSet(o)) /\ [Next]_vars
      => (\A o \in Object : HoldsLastSet(o))'
  <2> SUFFICES ASSUME TypeInv, [Next]_vars, NEW o \in Object, HoldsLastSet(o)
               PROVE  HoldsLastSet(o)'
    OBVIOUS
  <2>1. CASE \E a \in App, r \in Request : PostSet(a, r)
    BY <2>1, HoldsPost
  <2>2. CASE DrainOne
    BY <2>2, HoldsDrain
  <2>3. CASE UNCHANGED <<value, posted, applied>>
    BY <2>3, HoldsKept
  <2> QED
    BY <2>1, <2>2, <2>3 DEF Next, vars, NudgeServer, SelectReturns, WakeRecv,
       DrainDone, ServeConnections, Unstall, ExitTask, StopRequest, StopFrees
<1>3. TypeInv /\ (\A o \in Object : HoldsLastSet(o)) => AppliedInOrder
  BY DEF TypeInv, AppliedInOrder
<1> QED
  BY <1>1, <1>2, <1>3, TypeAlways, PTL DEF Spec

(* The device is freed behind a running server task only if a send of that *)
(* task has blocked: the polls of aes70_transport_stop outlast all else,   *)
(* and the task that was deleted does not come back.                       *)
THEOREM FreedBehindServer == Spec => FreedAfterExitUnlessStalled
<1>1. Init => (stopper = "freed" => server = "exited")
  BY DEF Init
<1>2. /\ stopper = "freed" => server = "exited"
      /\ ~stalled /\ [Next]_vars
      => (stopper = "freed" => server = "exited")'
  <2> SUFFICES ASSUME stopper = "freed" => server = "exited", ~stalled, [Next]_vars
               PROVE  stopper' = "freed" => server' = "exited"
    OBVIOUS
  <2>1. CASE StopFrees
    BY <2>1 DEF StopFrees, PollsEnd
  <2>2. CASE StopRequest
    BY <2>2 DEF StopRequest
  <2>3. CASE UNCHANGED <<stopper, server>>
    BY <2>3
  <2>4. CASE UNCHANGED stopper /\ server # "exited"
    BY <2>4
  <2> QED
    BY <2>1, <2>2, <2>3, <2>4 DEF Next, vars, PostSet, NudgeServer, SelectReturns, WakeRecv,
       DrainOne, DrainDone, ServeConnections, Unstall, ExitTask
<1> QED
  BY <1>1, <1>2, PTL DEF Spec, FreedAfterExitUnlessStalled
=============================================================================
