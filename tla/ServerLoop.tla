----------------------------- MODULE ServerLoop -----------------------------
(***************************************************************************)
(* One iteration after another of server_task (aes70_transport.c): the     *)
(* descriptors select() reported, the accepts, the pass over the           *)
(* connection table and service_keepalive, in the order the code runs them,*)
(* while controllers connect, send and fall silent at any moment.          *)
(*                                                                         *)
(* Time advances while the server is in select() and stands still while it *)
(* works (module SetQueue is about sends that take long).  A tick is the   *)
(* 500 ms timeout of select().  Ages are counted instead of dates, up to   *)
(* AgeCap, beyond which every comparison the code makes comes out alike.   *)
(* Descriptors are numbered as the socket layer numbers them: the lowest   *)
(* free one is handed out next.                                            *)
(***************************************************************************)
EXTENDS Integers

CONSTANTS
  MaxConns,          \* CONFIG_AES70_MAX_CONNECTIONS
  Heartbeats,        \* intervals a KeepAlive may ask for, in ticks; 0 = none
  Factor,            \* CONFIG_AES70_KEEPALIVE_TIMEOUT_FACTOR
  HandshakeTimeout,  \* CONFIG_AES70_TLS_HANDSHAKE_TIMEOUT_MS, in ticks
  AgeCap             \* bound on the ages

ASSUME ServerLoopAssumption ==
  /\ MaxConns \in Nat \ {0}
  /\ Heartbeats \subseteq Nat /\ 0 \in Heartbeats
  /\ Factor \in 2 .. 10
  /\ HandshakeTimeout \in Nat
  /\ AgeCap \in Nat
  /\ \A h \in Heartbeats : AgeCap > h * Factor + 1
  /\ AgeCap > HandshakeTimeout + 1

Slot == 0 .. MaxConns - 1
Fd   == 1 .. MaxConns + 1     \* one to spare for the connection being accepted
None == 0
Listeners == {"plain", "tls"}

VARIABLES
  pc,           \* "select", "accept", "serve" or "keepalive"
  slot,         \* the slot the running loop is at
  waited,       \* this select() has waited its full timeout
  rfds,         \* descriptors of connections select() reported
  rlisten,      \* listening sockets it reported
  knocking,     \* listening sockets with a connection to accept
  in_use, tls, handshaking, fd, heartbeat,  \* fields of dev->conns[i]
  since_rx,     \* age of last_rx_us; of the connection, while handshaking
  since_tx,     \* age of last_tx_us
  data,         \* what waits in the socket: "none", "part" of a record, "data"
  broken,       \* sends to this controller fail
  blocked       \* ghost: recv was called on a blocking socket with no data

loopVars == <<pc, slot, waited, rfds, rlisten>>
connVars == <<in_use, tls, handshaking, fd, heartbeat>>
ageVars  == <<since_rx, since_tx>>
vars == <<loopVars, knocking, connVars, ageVars, data, broken, blocked>>

Init ==
  /\ pc = "select" /\ slot = 0 /\ waited = FALSE /\ rfds = {} /\ rlisten = {}
  /\ knocking = {}
  /\ in_use = [i \in Slot |-> FALSE]
  /\ tls = [i \in Slot |-> FALSE]
  /\ handshaking = [i \in Slot |-> FALSE]
  /\ fd = [i \in Slot |-> None]
  /\ heartbeat = [i \in Slot |-> 0]
  /\ since_rx = [i \in Slot |-> 0]
  /\ since_tx = [i \in Slot |-> 0]
  /\ data = [i \in Slot |-> "none"]
  /\ broken = [i \in Slot |-> FALSE]
  /\ blocked = FALSE

-----------------------------------------------------------------------------
(* Controllers and time.                                                   *)

Knock(l) ==
  /\ l \notin knocking
  /\ knocking' = knocking \cup {l}
  /\ UNCHANGED <<loopVars, connVars, ageVars, data, broken, blocked>>

(* Bytes arrive, a FIN counting as such; a TLS record may arrive in parts. *)
PeerSends(i) ==
  /\ in_use[i]
  /\ \E d \in {"part", "data"} :
       /\ d = "part" => tls[i] /\ data[i] = "none"
       /\ data[i] # "data"
       /\ data' = [data EXCEPT ![i] = d]
  /\ UNCHANGED <<loopVars, knocking, connVars, ageVars, broken, blocked>>

(* The connection fails in the sending direction.                          *)
PeerBreaks(i) ==
  /\ in_use[i] /\ ~broken[i]
  /\ broken' = [broken EXCEPT ![i] = TRUE]
  /\ UNCHANGED <<loopVars, knocking, connVars, ageVars, data, blocked>>

(* Ages nothing compares (no handshake, no heartbeat asked for) stand      *)
(* still; both start again when a KeepAlive is answered.                   *)
Judged(i) == handshaking[i] \/ heartbeat[i] # 0
Older(age) == [i \in Slot |-> IF Judged(i) /\ age[i] < AgeCap THEN age[i] + 1 ELSE age[i]]

Tick ==
  /\ pc = "select" /\ ~waited
  /\ waited' = TRUE
  /\ since_rx' = Older(since_rx)
  /\ since_tx' = Older(since_tx)
  /\ UNCHANGED <<pc, slot, rfds, rlisten, knocking, connVars, data, broken, blocked>>

-----------------------------------------------------------------------------
(* select().                                                               *)

SelectReturns ==
  /\ pc = "select"
  /\ rfds' = {fd[i] : i \in {j \in Slot : in_use[j] /\ data[j] # "none"}}
  /\ rlisten' = knocking
  /\ waited \/ rfds' # {} \/ rlisten' # {}
  /\ pc' = "accept" /\ slot' = 0
  /\ UNCHANGED <<waited, knocking, connVars, ageVars, data, broken, blocked>>

(* A slot that is free again, in the state memset leaves it in.            *)
Freed(i) ==
  /\ in_use' = [in_use EXCEPT ![i] = FALSE]
  /\ tls' = [tls EXCEPT ![i] = FALSE]
  /\ handshaking' = [handshaking EXCEPT ![i] = FALSE]
  /\ fd' = [fd EXCEPT ![i] = None]
  /\ heartbeat' = [heartbeat EXCEPT ![i] = 0]
  /\ since_rx' = [since_rx EXCEPT ![i] = 0]
  /\ since_tx' = [since_tx EXCEPT ![i] = 0]
  /\ data' = [data EXCEPT ![i] = "none"]
  /\ broken' = [broken EXCEPT ![i] = FALSE]

LowestFd(f) == /\ \A i \in Slot : fd[i] # f
               /\ \A g \in 1 .. f - 1 : \E i \in Slot : fd[i] = g

(* accept_conn and accept_tls_conn: the lowest free slot, or the           *)
(* connection is closed at once.  A TLS session whose set-up fails is too. *)
AcceptConn(l) ==
  /\ pc = "accept" /\ l \in rlisten
  /\ l = "tls" => "plain" \notin rlisten
  /\ rlisten' = rlisten \ {l}
  /\ knocking' = knocking \ {l}
  /\ \/ \E i \in Slot :
          /\ ~in_use[i] /\ \A j \in Slot : j < i => in_use[j]
          /\ in_use' = [in_use EXCEPT ![i] = TRUE]
          /\ tls' = [tls EXCEPT ![i] = (l = "tls")]
          /\ handshaking' = [handshaking EXCEPT ![i] = (l = "tls")]
          /\ \E f \in Fd : LowestFd(f) /\ fd' = [fd EXCEPT ![i] = f]
     \/ /\ l = "tls" \/ \A i \in Slot : in_use[i]
        /\ UNCHANGED <<in_use, tls, handshaking, fd>>
  /\ UNCHANGED <<pc, slot, waited, rfds, heartbeat, ageVars, data, broken, blocked>>

AcceptsDone ==
  /\ pc = "accept" /\ rlisten = {}
  /\ pc' = "serve"
  /\ UNCHANGED <<slot, waited, rfds, rlisten, knocking, connVars, ageVars, data, broken, blocked>>

-----------------------------------------------------------------------------
(* The pass over the connections.                                          *)

Reported(i) == fd[i] \in rfds

NextSlot ==
  /\ slot' = IF slot + 1 < MaxConns THEN slot + 1 ELSE 0
  /\ pc' = IF slot + 1 < MaxConns THEN pc
           ELSE IF pc = "serve" THEN "keepalive" ELSE "select"
  /\ waited' = (waited /\ pc' # "select")
  /\ UNCHANGED <<rfds, rlisten, knocking>>

At(p, i) == pc = p /\ slot = i

(* A slot not in use, or a connection with nothing to read.                *)
ServeNothing(i) ==
  /\ At("serve", i)
  /\ ~in_use[i] \/ (~handshaking[i] /\ ~Reported(i))
  /\ NextSlot
  /\ UNCHANGED <<connVars, ageVars, data, broken, blocked>>

(* tls_drive_handshake, in every iteration: the deadline passed or the     *)
(* handshake failed; or it goes on; or it is done.                         *)
HandshakeExpired(i) == since_rx[i] > HandshakeTimeout

(* Bug: a silent peer's handshake is not driven.                           *)
ServeHandshakeIfReadableBug(i) ==
  /\ At("serve", i) /\ in_use[i] /\ handshaking[i]
  /\ \/ Reported(i) /\ Freed(i)
     \/ /\ ~HandshakeExpired(i) \/ ~Reported(i)
        /\ \E more \in IF Reported(i) THEN BOOLEAN ELSE {TRUE} :
             /\ handshaking' = [handshaking EXCEPT ![i] = more]
             /\ since_rx' = IF more THEN since_rx ELSE [since_rx EXCEPT ![i] = 0]
        /\ data' = IF Reported(i) THEN [data EXCEPT ![i] = "none"] ELSE data
        /\ UNCHANGED <<in_use, tls, fd, heartbeat, since_tx, broken>>
  /\ NextSlot
  /\ UNCHANGED blocked

ServeHandshake(i) ==
  /\ At("serve", i) /\ in_use[i] /\ handshaking[i]
  /\ \/ Freed(i)
     \/ /\ ~HandshakeExpired(i)
        /\ \E more \in BOOLEAN :
             /\ handshaking' = [handshaking EXCEPT ![i] = more]
             /\ since_rx' = IF more THEN since_rx ELSE [since_rx EXCEPT ![i] = 0]
        /\ data' \in {data, [data EXCEPT ![i] = "none"]}
        /\ UNCHANGED <<in_use, tls, fd, heartbeat, since_tx, broken>>
  /\ NextSlot
  /\ UNCHANGED blocked

(* aes70_conn_send: only a send that succeeds sets last_tx_us.              *)
Sent(i) == [since_tx EXCEPT ![i] = IF broken[i] THEN @ ELSE 0]

(* Bug: only a KeepAlive counts as a sign of life.                          *)
HandleRxKeepAliveOnlyBug(i) ==
  \/ Freed(i)
  \/ \E h \in Heartbeats :
       /\ heartbeat' = [heartbeat EXCEPT ![i] = h]
       /\ since_rx' = [since_rx EXCEPT ![i] = 0]
       /\ since_tx' = Sent(i)
       /\ data' = [data EXCEPT ![i] = "none"]
       /\ UNCHANGED <<in_use, tls, handshaking, fd, broken>>
  \/ /\ data' = [data EXCEPT ![i] = "none"]
     /\ UNCHANGED <<connVars, ageVars, broken>>

(* What process_rx makes of the bytes: a refused frame or an end of stream *)
(* closes; a KeepAlive sets the interval and is answered; a command may be *)
(* answered; anything else changes nothing here.                           *)
HandleRx(i) ==
  \/ Freed(i)
  \/ \E h \in Heartbeats :
       /\ heartbeat' = [heartbeat EXCEPT ![i] = h]
       /\ since_rx' = [since_rx EXCEPT ![i] = 0]
       /\ since_tx' = Sent(i)
       /\ data' = [data EXCEPT ![i] = "none"]
       /\ UNCHANGED <<in_use, tls, handshaking, fd, broken>>
  \/ /\ since_rx' = [since_rx EXCEPT ![i] = 0]
     /\ since_tx' \in {since_tx, Sent(i)}
     /\ data' = [data EXCEPT ![i] = "none"]
     /\ UNCHANGED <<connVars, broken>>

(* tls_service_rx: part of a record is not data yet and sets no time.      *)
ServeTls(i) ==
  /\ At("serve", i) /\ in_use[i] /\ tls[i] /\ ~handshaking[i] /\ Reported(i)
  /\ \/ data[i] = "data" /\ HandleRx(i)
     \/ data[i] # "data" /\ UNCHANGED <<connVars, ageVars, data, broken>>
  /\ NextSlot
  /\ UNCHANGED blocked

(* Bug: recv without FD_ISSET.                                              *)
ServePlainUnaskedBug(i) ==
  /\ At("serve", i) /\ in_use[i] /\ ~tls[i]
  /\ \/ data[i] = "data" /\ HandleRx(i) /\ blocked' = blocked
     \/ data[i] = "none" /\ blocked' = TRUE /\ UNCHANGED <<connVars, ageVars, data, broken>>
  /\ NextSlot

(* recv on a plaintext socket, which is blocking.                          *)
ServePlain(i) ==
  /\ At("serve", i) /\ in_use[i] /\ ~tls[i] /\ Reported(i)
  /\ \/ data[i] = "data" /\ HandleRx(i) /\ blocked' = blocked
     \/ data[i] = "none" /\ blocked' = TRUE /\ UNCHANGED <<connVars, ageVars, data, broken>>
  /\ NextSlot

-----------------------------------------------------------------------------
(* service_keepalive.                                                      *)

(* Bug: an interval too many is waited for.                                 *)
ExpiredLateBug(i) == since_rx[i] > heartbeat[i] * (Factor + 1)
DueLateBug(i)     == since_tx[i] > heartbeat[i] + 1

Expired(i) == since_rx[i] > heartbeat[i] * Factor

Due(i) == since_tx[i] >= heartbeat[i]

KeepAlive(i) ==
  /\ At("keepalive", i)
  /\ LET on == in_use[i] /\ heartbeat[i] # 0 IN
       \/ on /\ Expired(i) /\ Freed(i)
       \/ /\ on /\ ~Expired(i) /\ Due(i)
          /\ since_tx' = Sent(i)
          /\ UNCHANGED <<connVars, since_rx, data, broken>>
       \/ /\ on => ~Expired(i) /\ ~Due(i)
          /\ UNCHANGED <<connVars, ageVars, data, broken>>
  /\ NextSlot
  /\ UNCHANGED blocked

(* A notification raised by the drained sets or by another connection's    *)
(* command.                                                                *)
Notify(i) ==
  /\ pc \in {"accept", "serve"} /\ in_use[i] /\ ~handshaking[i]
  /\ since_tx' = Sent(i)
  /\ UNCHANGED <<loopVars, knocking, connVars, since_rx, data,
                 broken, blocked>>

-----------------------------------------------------------------------------
Next ==
  \/ \E l \in Listeners : Knock(l) \/ AcceptConn(l)
  \/ \E i \in Slot :
       \/ PeerSends(i) \/ PeerBreaks(i) \/ Notify(i)
       \/ ServeNothing(i) \/ ServeHandshake(i) \/ ServeTls(i) \/ ServePlain(i)
       \/ KeepAlive(i)
  \/ Tick \/ SelectReturns \/ AcceptsDone

Spec == Init /\ [][Next]_vars

-----------------------------------------------------------------------------
(* Properties.                                                             *)

(* Type invariant; connections have descriptors of their own.              *)
TypeOK ==
  /\ pc \in {"select", "accept", "serve", "keepalive"} /\ slot \in Slot
  /\ waited \in BOOLEAN /\ blocked \in BOOLEAN
  /\ rfds \subseteq Fd /\ rlisten \subseteq Listeners /\ knocking \subseteq Listeners
  /\ in_use \in [Slot -> BOOLEAN] /\ tls \in [Slot -> BOOLEAN]
  /\ handshaking \in [Slot -> BOOLEAN] /\ broken \in [Slot -> BOOLEAN]
  /\ heartbeat \in [Slot -> Heartbeats]
  /\ fd \in [Slot -> Fd \cup {None}]
  /\ \A i \in Slot : in_use[i] <=> fd[i] # None
  /\ \A i, j \in Slot : in_use[i] /\ fd[i] = fd[j] => i = j
  /\ since_rx \in [Slot -> 0 .. AgeCap] /\ since_tx \in [Slot -> 0 .. AgeCap]
  /\ data \in [Slot -> {"none", "part", "data"}]

(* The server never sits in recv: a descriptor select() reported still     *)
(* belongs to the connection it was reported for, although connections are *)
(* accepted and closed between select() and recv and numbers are reused.   *)
NeverBlocks == ~blocked

(* A controller that asked for keep-alives and went silent is dropped      *)
(* within one select() timeout of Factor intervals, whatever the others do.*)
SilentControllerDropped ==
  \A i \in Slot : in_use[i] /\ heartbeat[i] # 0 =>
    since_rx[i] <= heartbeat[i] * Factor + 1

(* A controller whose data was there when select() returned is not taken   *)
(* for silent in that iteration: it is read before its age is judged.      *)
HeardBeforeJudged ==
  \A i \in Slot :
    pc = "keepalive" /\ in_use[i] /\ ~tls[i] /\ Reported(i) => since_rx[i] = 0

(* A controller that asked for keep-alives hears from the device at least  *)
(* once per interval, counted in select() timeouts.                        *)
ControllerHearsUs ==
  \A i \in Slot : in_use[i] /\ heartbeat[i] # 0 /\ ~broken[i] =>
    since_tx[i] <= heartbeat[i]

(* A handshake holds a connection slot no longer than its timeout and one  *)
(* select() timeout, even if the peer sends nothing at all.                *)
HandshakeBounded ==
  \A i \in Slot : handshaking[i] => since_rx[i] <= HandshakeTimeout + 1
=============================================================================
