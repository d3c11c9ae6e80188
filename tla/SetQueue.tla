------------------------------ MODULE SetQueue ------------------------------
(***************************************************************************)
(* Application value changes on their way to the object tree, and the end  *)
(* of the server task: aes70_post_set (aes70_object.c), drain_cmd_queue,   *)
(* the select loop of server_task, make_wake_pipe and aes70_transport_stop *)
(* (aes70_transport.c).                                                    *)
(*                                                                         *)
(* Application tasks append to dev->cmd_q and send a datagram to a         *)
(* loopback UDP socket; the server task sleeps in select() and empties the *)
(* queue only in an iteration in which that socket is readable.            *)
(*                                                                         *)
(* A send to a controller that does not read may block the server task     *)
(* (aes70_conn_send loops over a blocking send); "stalled" marks that, and *)
(* how long it lasts is the controller's choice.                           *)
(***************************************************************************)
EXTENDS Integers, Sequences

CONSTANTS
  App,         \* application tasks that set values
  Object,      \* objects they set
  Value,       \* values they set
  QueueLen,    \* items dev->cmd_q holds (16)
  MailboxLen,  \* datagrams the wake socket holds; lwIP drops the rest
  MaxPosts,    \* bound on the requests accepted in one behaviour
  WakePipe     \* make_wake_pipe succeeded

ASSUME SetQueueAssumption ==
  /\ QueueLen \in Nat \ {0}
  /\ MailboxLen \in Nat \ {0}
  /\ MaxPosts \in Nat
  /\ WakePipe \in BOOLEAN

Request == [obj : Object, val : Value]
Unset   == "unset"

VARIABLES
  running,   \* dev->running
  cmd_q,     \* dev->cmd_q
  mailbox,   \* datagrams waiting on the wake socket
  posting,   \* per application task: "idle", or "queued" inside aes70_post_set
  server,    \* where the server task is
  stalled,   \* the server task is inside a send that blocks
  stopper,   \* where aes70_device_stop is
  value,     \* the value of each object
  \* ghosts
  posted,    \* the requests aes70_post_set accepted, oldest first
  applied    \* how many of them have been applied

vars == <<running, cmd_q, mailbox, posting, server, stalled, stopper, value,
          posted, applied>>

Init ==
  /\ running = TRUE
  /\ cmd_q = <<>>
  /\ mailbox = 0
  /\ posting = [a \in App |-> "idle"]
  /\ server = "select"
  /\ stalled = FALSE
  /\ stopper = "none"
  /\ value = [o \in Object |-> Unset]
  /\ posted = <<>>
  /\ applied = 0

-----------------------------------------------------------------------------
(* Application tasks: aes70_post_set.                                      *)

Wake(n) == IF WakePipe /\ n < MailboxLen THEN n + 1 ELSE n

(* xQueueSend with no wait.  On a full queue the caller gets ESP_ERR_NO_MEM*)
(* and nothing changes; so does a call after dev->running is cleared.      *)
PostSet(a, r) ==
  /\ posting[a] = "idle" /\ running
  /\ Len(posted) < MaxPosts
  /\ Len(cmd_q) < QueueLen
  /\ cmd_q' = Append(cmd_q, r)
  /\ posted' = Append(posted, r)
  /\ posting' = [posting EXCEPT ![a] = "queued"]
  /\ UNCHANGED <<running, mailbox, server, stalled, stopper, value, applied>>

(* The datagram that wakes select().                                       *)
NudgeServer(a) ==
  /\ posting[a] = "queued"
  /\ posting' = [posting EXCEPT ![a] = "idle"]
  /\ mailbox' = Wake(mailbox)
  /\ UNCHANGED <<running, cmd_q, server, stalled, stopper, value, posted, applied>>

-----------------------------------------------------------------------------
(* The server task.                                                        *)

(* select() returns: the wake socket or another one is readable, or the    *)
(* 500 ms timeout passed.  dev->running is tested first, here and by the   *)
(* loop.                                                                   *)
SelectReturns ==
  /\ server = "select" /\ ~stalled
  /\ server' = IF ~running THEN "closing" ELSE IF mailbox > 0 THEN "wake" ELSE "io"
  /\ UNCHANGED <<running, cmd_q, mailbox, posting, stalled, stopper, value, posted, applied>>

(* One recv takes one datagram; the queue is emptied next.                 *)
WakeRecv ==
  /\ server = "wake"
  /\ mailbox' = mailbox - 1
  /\ server' = "drain"
  /\ UNCHANGED <<running, cmd_q, posting, stalled, stopper, value, posted, applied>>

(* Bug: one request is applied per wake-up.                                 *)
DrainOncePerWakeBug ==
  /\ server = "drain" /\ ~stalled
  /\ cmd_q # <<>>
  /\ value' = [value EXCEPT ![Head(cmd_q).obj] = Head(cmd_q).val]
  /\ cmd_q' = Tail(cmd_q)
  /\ applied' = applied + 1
  /\ server' = "io"
  /\ stalled' \in BOOLEAN
  /\ UNCHANGED <<running, mailbox, posting, stopper, posted>>

(* Bug: the newest request is applied first.                                *)
DrainNewestBug ==
  /\ server = "drain" /\ ~stalled
  /\ cmd_q # <<>>
  /\ LET r == cmd_q[Len(cmd_q)]
     IN  value' = [value EXCEPT ![r.obj] = r.val]
  /\ cmd_q' = SubSeq(cmd_q, 1, Len(cmd_q) - 1)
  /\ applied' = applied + 1
  /\ stalled' \in BOOLEAN
  /\ UNCHANGED <<running, mailbox, posting, server, stopper, posted>>

(* drain_cmd_queue takes the oldest request and applies it, which notifies *)
(* subscribers and so may stall.                                           *)
DrainOne ==
  /\ server = "drain" /\ ~stalled
  /\ cmd_q # <<>>
  /\ value' = [value EXCEPT ![Head(cmd_q).obj] = Head(cmd_q).val]
  /\ cmd_q' = Tail(cmd_q)
  /\ applied' = applied + 1
  /\ stalled' \in BOOLEAN
  /\ UNCHANGED <<running, mailbox, posting, server, stopper, posted>>

DrainDone ==
  /\ server = "drain" /\ ~stalled
  /\ cmd_q = <<>>
  /\ server' = "io"
  /\ UNCHANGED <<running, cmd_q, mailbox, posting, stalled, stopper, value, posted, applied>>

(* The rest of an iteration: accepts, handshakes, frames, keep-alives; one *)
(* of its sends may stall.                                                 *)
ServeConnections ==
  /\ server = "io" /\ ~stalled
  /\ stalled' \in BOOLEAN
  /\ server' = "select"
  /\ UNCHANGED <<running, cmd_q, mailbox, posting, stopper, value, posted, applied>>

(* The controller reads again, or its connection fails.                    *)
Unstall ==
  /\ stalled
  /\ stalled' = FALSE
  /\ UNCHANGED <<running, cmd_q, mailbox, posting, server, stopper, value, posted, applied>>

(* Every connection is closed and the task deletes itself.                 *)
ExitTask ==
  /\ server = "closing"
  /\ server' = "exited"
  /\ UNCHANGED <<running, cmd_q, mailbox, posting, stalled, stopper, value, posted, applied>>

-----------------------------------------------------------------------------
(* aes70_device_stop.                                                      *)

StopRequest ==
  /\ stopper = "none"
  /\ running' = FALSE
  /\ mailbox' = Wake(mailbox)
  /\ stopper' = "waiting"
  /\ UNCHANGED <<cmd_q, posting, server, stalled, value, posted, applied>>

(* 200 polls, 10 ms apart, see the task deleted or give up.  Two seconds   *)
(* are four select() timeouts, so only a stalled send outlasts them.  Then *)
(* the sockets are closed and the tree, the queue and the device are       *)
(* freed.  The application has no aes70_post_set under way by then.        *)
PollsUnboundedBug == server = "exited"  \* Bug: polls without a limit
PollOnceBug == TRUE                     \* Bug: gives up at once

PollsEnd == server = "exited" \/ stalled

StopFrees ==
  /\ stopper = "waiting" /\ PollsEnd
  /\ \A a \in App : posting[a] = "idle"
  /\ stopper' = "freed"
  /\ UNCHANGED <<running, cmd_q, mailbox, posting, server, stalled, value, posted, applied>>

-----------------------------------------------------------------------------
Server == SelectReturns \/ WakeRecv \/ DrainOne \/ DrainDone \/ ServeConnections \/ ExitTask

Next ==
  \/ \E a \in App :
       \/ \E r \in Request : PostSet(a, r)
       \/ NudgeServer(a)
  \/ SelectReturns \/ WakeRecv \/ DrainOne \/ DrainDone \/ ServeConnections \/ Unstall
  \/ ExitTask
  \/ StopRequest \/ StopFrees

(* The scheduler runs the server task and every application task that has  *)
(* work; select() always returns, at the latest after its timeout, and the *)
(* polling of aes70_transport_stop ends.  Nothing makes a controller read. *)
Fairness ==
  /\ WF_vars(Server)
  /\ \A a \in App : WF_vars(NudgeServer(a))
  /\ WF_vars(StopFrees)

Spec == Init /\ [][Next]_vars /\ Fairness

-----------------------------------------------------------------------------
(* Type invariant.                                                         *)
TypeOK ==
  /\ running \in BOOLEAN
  /\ cmd_q \in Seq(Request) /\ Len(cmd_q) <= QueueLen
  /\ mailbox \in 0 .. MailboxLen
  /\ posting \in [App -> {"idle", "queued"}]
  /\ server \in {"select", "wake", "drain", "io", "closing", "exited"}
  /\ stalled \in BOOLEAN
  /\ stopper \in {"none", "waiting", "freed"}
  /\ value \in [Object -> Value \cup {Unset}]
  /\ posted \in Seq(Request)
  /\ applied \in 0 .. Len(posted)

(* No accepted request is lost, repeated or overtaken: what is queued is   *)
(* what was accepted and not yet applied, in the order of the xQueueSend   *)
(* calls of all tasks, and each object holds the last value set by the     *)
(* requests applied so far.                                                *)
IsRest(q, p, n) ==
  /\ Len(q) = Len(p) - n
  /\ \A k \in 1 .. Len(q) : q[k] = p[n + k]

QueueIsRest == IsRest(cmd_q, posted, applied)

NotSetSince(o, k) == \A j \in k + 1 .. applied : posted[j].obj # o

HoldsLastSet(o) ==
  \/ value[o] = Unset /\ NotSetSince(o, 0)
  \/ \E k \in 1 .. applied :
       posted[k] = [obj |-> o, val |-> value[o]] /\ NotSetSince(o, k)

AppliedInOrder == QueueIsRest /\ \A o \in Object : HoldsLastSet(o)

(* The wake-up of a queued request is never lost: while something is       *)
(* queued, a datagram is waiting, its sender is about to send one, or the  *)
(* server is already emptying the queue.                                   *)
WakeUpPending ==
  cmd_q # <<>> =>
    \/ mailbox > 0
    \/ \E a \in App : posting[a] = "queued"
    \/ server = "drain"

(* An accepted set is applied, unless the device is stopped, as long as no *)
(* send blocks for ever.                                                   *)
EverySetApplied ==
  []<>~stalled =>
    \A n \in 1 .. MaxPosts : (Len(posted) >= n) ~> (applied >= n \/ ~running)

(* aes70_device_stop returns, whatever the controllers do.                 *)
StopReturns == (stopper = "waiting") ~> (stopper = "freed")

(* As long as no send blocks, the device is freed after the server task    *)
(* has left it.                                                            *)
FreedAfterExitUnlessStalled ==
  [](~stalled) => [](stopper = "freed" => server = "exited")
=============================================================================
