--------------------------- MODULE TransportProofs ---------------------------
(***************************************************************************)
(* Proofs about the two modules of aes70_transport.c.                      *)
(*                                                                         *)
(* ServerLoop (server_task), for any number of connections, any intervals  *)
(* and any factor: recv never blocks, nobody who spoke is taken for        *)
(* silent, and the KeepAlive and handshake deadlines are kept.             *)
(*                                                                         *)
(* Lifecycle (start and stop), for any number of devices and sockets and   *)
(* any failures: a started device serves, a stopped one has given back     *)
(* what it held.                                                           *)
(***************************************************************************)
EXTENDS ServerLoop, Lifecycle, FiniteSetTheorems, TLAPS

USE ServerLoopAssumption DEF ServerLoopAssumption

(* Where the running iteration is with a slot: it will still be read,      *)
(* it has been read, its timers need no more looking at.                   *)
Unread(j)  == pc = "accept" \/ (pc = "serve" /\ slot <= j)
Served(j)  == pc = "keepalive" \/ (pc = "serve" /\ j < slot)
LookedAt(j) == ~waited \/ (pc = "keepalive" /\ j < slot)
Driven(j)  == ~waited \/ Served(j)

(* A slot not in use is what memset left; only TLS has partial records and *)
(* handshakes.                                                             *)
SlotShape(i) ==
  /\ ~in_use[i] => /\ ~tls[i] /\ ~handshaking[i] /\ ~broken[i]
                   /\ heartbeat[i] = 0 /\ since_rx[i] = 0 /\ since_tx[i] = 0
                   /\ data[i] = "none"
  /\ handshaking[i] => tls[i] /\ heartbeat[i] = 0
  /\ data[i] = "part" => tls[i]

(* What select() reported is there until it is read, and counts once read. *)
SlotRead(i) ==
  in_use[i] /\ Reported(i) =>
    /\ Unread(i) => data[i] # "none"
    /\ Served(i) /\ ~tls[i] => since_rx[i] = 0

(* One tick is what a deadline can be missed by, until it is looked at.    *)
SlotTimers(i) ==
  /\ heartbeat[i] # 0 =>
       /\ since_rx[i] <= heartbeat[i] * Factor + 1
       /\ LookedAt(i) => since_rx[i] <= heartbeat[i] * Factor
       /\ ~broken[i] => /\ since_tx[i] <= heartbeat[i]
                        /\ LookedAt(i) => since_tx[i] < heartbeat[i]
  /\ handshaking[i] =>
       /\ since_rx[i] <= HandshakeTimeout + 1
       /\ Driven(i) => since_rx[i] <= HandshakeTimeout

(* A descriptor reported is that of a connection, so none that is accepted *)
(* gets it; the loops start at the first slot.                             *)
LoopInv ==
  /\ ~blocked
  /\ pc \in {"select", "accept"} => slot = 0
  /\ pc = "accept" => \A f \in rfds : \E j \in Slot : fd[j] = f

SlotInv(i) == SlotShape(i) /\ SlotRead(i) /\ SlotTimers(i)

IInv == TypeOK /\ LoopInv /\ \A i \in Slot : SlotInv(i)

(* The two halves of the type invariant.                                   *)
LoopOK ==
  /\ pc \in {"select", "accept", "serve", "keepalive"} /\ slot \in Slot
  /\ waited \in BOOLEAN /\ blocked \in BOOLEAN
  /\ rfds \subseteq Fd /\ rlisten \subseteq Listeners /\ knocking \subseteq Listeners

ConnOK ==
  /\ in_use \in [Slot -> BOOLEAN] /\ tls \in [Slot -> BOOLEAN]
  /\ handshaking \in [Slot -> BOOLEAN] /\ broken \in [Slot -> BOOLEAN]
  /\ heartbeat \in [Slot -> Heartbeats]
  /\ fd \in [Slot -> Fd \cup {None}]
  /\ \A i \in Slot : in_use[i] <=> fd[i] # None
  /\ \A i, j \in Slot : in_use[i] /\ fd[i] = fd[j] => i = j
  /\ since_rx \in [Slot -> 0 .. AgeCap] /\ since_tx \in [Slot -> 0 .. AgeCap]
  /\ data \in [Slot -> {"none", "part", "data"}]

LEMMA TypeHalves == TypeOK <=> LoopOK /\ ConnOK
  BY DEF TypeOK, LoopOK, ConnOK

(* A step that leaves a slot alone.                                        *)
SameSlot(k) ==
  /\ in_use'[k] = in_use[k] /\ tls'[k] = tls[k] /\ handshaking'[k] = handshaking[k]
  /\ fd'[k] = fd[k] /\ heartbeat'[k] = heartbeat[k] /\ broken'[k] = broken[k]
  /\ since_rx'[k] = since_rx[k] /\ since_tx'[k] = since_tx[k] /\ data'[k] = data[k]

LEMMA InitInv == Init => IInv
  <1> SUFFICES ASSUME Init PROVE IInv
    OBVIOUS
  <1>1. TypeOK
    <2>1. LoopOK
      <3>1. 0 \in Slot
        BY DEF Slot
      <3>2. QED
        BY <3>1 DEF Init, LoopOK
    <2>2. ConnOK
      BY DEF Init, ConnOK, None
    <2>3. QED
      BY <2>1, <2>2, TypeHalves
  <1>2. LoopInv
    BY DEF Init, LoopInv
  <1>3. ASSUME NEW i \in Slot PROVE SlotInv(i)
    BY DEF Init, SlotInv, SlotShape, SlotRead, SlotTimers
  <1>4. QED
    BY <1>1, <1>2, <1>3 DEF IInv

-----------------------------------------------------------------------------
(* The pass over the slots.                                                *)

(* Going on to the next slot opens none of the questions the invariant     *)
(* asks, except about the slot just done.                                  *)
LEMMA NextSlotFacts ==
  ASSUME LoopOK, NextSlot, pc \in {"serve", "keepalive"}, blocked' = blocked
  PROVE  /\ LoopOK'
         /\ rfds' = rfds /\ pc' # "accept" /\ (pc' = "select" => slot' = 0)
         /\ \A k \in Slot : Unread(k)' => Unread(k) /\ k # slot
         /\ \A k \in Slot : Served(k)' => Served(k) \/ k = slot
         /\ \A k \in Slot : LookedAt(k)' => LookedAt(k) \/ (k = slot /\ pc = "keepalive")
         /\ \A k \in Slot : Driven(k)' => Driven(k) \/ (k = slot /\ pc = "serve")
  <1>1. CASE slot + 1 < MaxConns
    <2>1. slot' = slot + 1 /\ pc' = pc /\ waited' = waited
      BY <1>1 DEF NextSlot, LoopOK
    <2>2. LoopOK'
      BY <1>1, <2>1 DEF NextSlot, LoopOK, Slot
    <2>3. QED
      BY <1>1, <2>1, <2>2 DEF NextSlot, LoopOK, Slot, Unread, Served, LookedAt, Driven
  <1>2. CASE ~(slot + 1 < MaxConns)
    <2>1. slot' = 0 /\ slot = MaxConns - 1
      BY <1>2 DEF NextSlot, LoopOK, Slot
    <2>2. \A k \in Slot : k < slot \/ k = slot
      BY <2>1 DEF Slot
    <2>3. CASE pc = "serve"
      <3>1. pc' = "keepalive" /\ waited' = waited
        BY <1>2, <2>3 DEF NextSlot, LoopOK
      <3>2. LoopOK'
        BY <2>1, <3>1 DEF NextSlot, LoopOK, Slot
      <3>3. QED
        BY <2>1, <2>2, <2>3, <3>1, <3>2
           DEF NextSlot, LoopOK, Slot, Unread, Served, LookedAt, Driven
    <2>4. CASE pc = "keepalive"
      <3>1. pc' = "select" /\ waited' = FALSE
        BY <1>2, <2>4 DEF NextSlot, LoopOK
      <3>2. LoopOK'
        BY <2>1, <3>1 DEF NextSlot, LoopOK, Slot
      <3>3. QED
        BY <2>1, <2>2, <2>4, <3>1, <3>2
           DEF NextSlot, LoopOK, Slot, Unread, Served, LookedAt, Driven
    <2>5. QED
      BY <2>3, <2>4
  <1>3. QED
    BY <1>1, <1>2

(* A slot left alone keeps its invariant as long as no question is opened. *)
LEMMA SlotKept ==
  ASSUME NEW k \in Slot, SlotInv(k), SameSlot(k), rfds' = rfds,
         Unread(k)' => Unread(k), Served(k)' => Served(k),
         LookedAt(k)' => LookedAt(k), Driven(k)' => Driven(k)
  PROVE  SlotInv(k)'
  <1>1. SlotShape(k)'
    BY DEF SlotInv, SlotShape, SameSlot
  <1>2. SlotRead(k)'
    BY DEF SlotInv, SlotRead, SameSlot, Reported
  <1>3. SlotTimers(k)'
    BY DEF SlotInv, SlotTimers, SameSlot
  <1>4. QED
    BY <1>1, <1>2, <1>3 DEF SlotInv

(* What an action of the pass has to show: the slot it is at.              *)
LEMMA PassStep ==
  ASSUME IInv, NEW i \in Slot, At("serve", i) \/ At("keepalive", i), NextSlot,
         ConnOK', blocked' = FALSE, SlotInv(i)',
         \A k \in Slot \ {i} : SameSlot(k)
  PROVE  IInv'
  <1>1. LoopOK /\ pc \in {"serve", "keepalive"} /\ slot = i /\ blocked' = blocked
    BY TypeHalves DEF IInv, LoopInv, At, LoopOK
  <1>2. LoopOK' /\ rfds' = rfds /\ pc' # "accept" /\ (pc' = "select" => slot' = 0)
    BY <1>1, NextSlotFacts
  <1>3. TypeOK'
    BY <1>2 DEF TypeOK, LoopOK, ConnOK
  <1>4. LoopInv'
    BY <1>2 DEF LoopInv
  <1>5. ASSUME NEW k \in Slot, k # i PROVE SlotInv(k)'
    <2>1. /\ Unread(k)' => Unread(k)
          /\ Served(k)' => Served(k)
          /\ LookedAt(k)' => LookedAt(k)
          /\ Driven(k)' => Driven(k)
      BY <1>1, <1>5, NextSlotFacts
    <2>2. SlotInv(k) /\ SameSlot(k)
      BY <1>5 DEF IInv
    <2>3. QED
      BY <1>2, <2>1, <2>2, SlotKept
  <1>6. QED
    BY <1>3, <1>4, <1>5 DEF IInv

(* close_conn leaves the slot cleared and the others alone.                *)
LEMMA FreedSlot ==
  ASSUME ConnOK, NEW i \in Slot, Freed(i)
  PROVE  ConnOK' /\ SlotInv(i)' /\ \A k \in Slot \ {i} : SameSlot(k)
  <1>1. ConnOK'
    BY DEF ConnOK, Freed, None
  <1>2. SlotInv(i)'
    BY DEF ConnOK, Freed, SlotInv, SlotShape, SlotRead, SlotTimers
  <1>3. \A k \in Slot \ {i} : SameSlot(k)
    BY DEF ConnOK, Freed, SameSlot
  <1>4. QED
    BY <1>1, <1>2, <1>3

-----------------------------------------------------------------------------
(* The actions of the pass.                                                *)
LEMMA ServeNothingStep ==
  ASSUME IInv, NEW i \in Slot, ServeNothing(i) PROVE IInv'
  <1>1. LoopOK /\ ConnOK /\ SlotInv(i) /\ At("serve", i) /\ NextSlot
    BY TypeHalves DEF IInv, ServeNothing
  <1>2. ConnOK' /\ blocked' = FALSE
    BY <1>1 DEF ServeNothing, ConnOK, connVars, ageVars, IInv, LoopInv
  <1>3. \A k \in Slot : SameSlot(k)
    BY DEF ServeNothing, SameSlot, connVars, ageVars
  <1>4. SlotInv(i)'
    <2>1. pc = "serve" /\ slot = i /\ rfds' = rfds
      BY <1>1 DEF At, NextSlot
    <2>2. ~Unread(i)' /\ (LookedAt(i)' => LookedAt(i))
      BY <1>1, <2>1, NextSlotFacts DEF ServeNothing
    <2>3. SlotShape(i)'
      BY <1>1, <1>3 DEF SlotInv, SlotShape, SameSlot
    <2>4. ~in_use[i] \/ (~handshaking[i] /\ ~Reported(i))
      BY DEF ServeNothing
    <2>5. ~in_use[i] => ~handshaking[i]
      BY <1>1 DEF SlotInv, SlotShape
    <2>6. SlotRead(i)'
      BY <1>3, <2>1, <2>4 DEF SlotRead, SameSlot, Reported
    <2>7. SlotTimers(i)'
      BY <1>1, <1>3, <2>2, <2>4, <2>5 DEF SlotInv, SlotTimers, SameSlot
    <2>8. QED
      BY <2>3, <2>6, <2>7 DEF SlotInv
  <1>5. QED
    BY <1>1, <1>2, <1>3, <1>4, PassStep

LEMMA ServeHandshakeStep ==
  ASSUME IInv, NEW i \in Slot, ServeHandshake(i) PROVE IInv'
  <1>1. /\ LoopOK /\ ConnOK /\ SlotInv(i) /\ At("serve", i) /\ NextSlot
        /\ blocked' = FALSE /\ in_use[i] /\ handshaking[i] /\ pc = "serve" /\ slot = i
    BY TypeHalves DEF IInv, LoopInv, ServeHandshake, At
  <1>2. CASE Freed(i)
    BY <1>1, <1>2, FreedSlot, PassStep
  <1>3. CASE /\ ~HandshakeExpired(i)
             /\ \E more \in BOOLEAN :
                  /\ handshaking' = [handshaking EXCEPT ![i] = more]
                  /\ since_rx' = IF more THEN since_rx ELSE [since_rx EXCEPT ![i] = 0]
             /\ data' \in {data, [data EXCEPT ![i] = "none"]}
             /\ UNCHANGED <<in_use, tls, fd, heartbeat, since_tx, broken>>
    <2>1. PICK more \in BOOLEAN :
            /\ handshaking' = [handshaking EXCEPT ![i] = more]
            /\ since_rx' = IF more THEN since_rx ELSE [since_rx EXCEPT ![i] = 0]
      BY <1>3
    <2>2. since_rx' \in [Slot -> 0 .. AgeCap] /\ since_rx'[i] \in {0, since_rx[i]}
      BY <1>1, <2>1 DEF ConnOK
    <2>3. data' \in [Slot -> {"none", "part", "data"}] /\ data'[i] \in {"none", data[i]}
      BY <1>1, <1>3 DEF ConnOK
    <2>4. handshaking' \in [Slot -> BOOLEAN]
      BY <1>1, <2>1 DEF ConnOK
    <2>5. ConnOK'
      BY <1>1, <1>3, <2>2, <2>3, <2>4 DEF ConnOK
    <2>6. \A k \in Slot \ {i} : SameSlot(k)
      BY <1>1, <1>3, <2>1 DEF ConnOK, SameSlot
    <2>7. rfds' = rfds /\ ~Unread(i)'
      BY <1>1, NextSlotFacts DEF ServeHandshake
    <2>8. tls[i] /\ heartbeat[i] = 0
      BY <1>1 DEF SlotInv, SlotShape
    <2>9. SlotShape(i)' /\ SlotRead(i)'
      BY <1>1, <1>3, <2>3, <2>7, <2>8 DEF SlotShape, SlotRead
    <2>10. since_rx[i] <= HandshakeTimeout
      BY <1>1, <1>3 DEF HandshakeExpired, ConnOK
    <2>11. since_rx'[i] <= HandshakeTimeout
      BY <2>2, <2>10
    <2>12. since_rx'[i] <= HandshakeTimeout + 1
      BY <1>1, <2>2, <2>11 DEF ConnOK
    <2>13. SlotTimers(i)'
      BY <1>3, <2>8, <2>11, <2>12 DEF SlotTimers
    <2>14. QED
      BY <1>1, <2>5, <2>6, <2>9, <2>13, PassStep DEF SlotInv
  <1>4. QED
    BY <1>2, <1>3 DEF ServeHandshake


LEMMA IntervalFacts == ASSUME NEW h \in Heartbeats PROVE h \in Nat /\ h * Factor \in Nat
  OBVIOUS

(* Every outcome of HandleRx leaves a slot whose timers were set anew.     *)
LEMMA SentFacts ==
  ASSUME ConnOK, NEW i \in Slot
  PROVE  /\ Sent(i) \in [Slot -> 0 .. AgeCap]
         /\ Sent(i)[i] = IF broken[i] THEN since_tx[i] ELSE 0
         /\ \A k \in Slot \ {i} : Sent(i)[k] = since_tx[k]
  BY DEF ConnOK, Sent

LEMMA HandleRxSlot ==
  ASSUME IInv, NEW i \in Slot, At("serve", i), NextSlot, blocked' = blocked,
         in_use[i], ~handshaking[i], HandleRx(i)
  PROVE  IInv'
  <1>1. /\ LoopOK /\ ConnOK /\ SlotInv(i) /\ blocked' = FALSE /\ pc = "serve" /\ slot = i
    BY TypeHalves DEF IInv, LoopInv, At
  <1>2. rfds' = rfds /\ ~Unread(i)' /\ (LookedAt(i)' => LookedAt(i))
    BY <1>1, NextSlotFacts
  <1>3. CASE Freed(i)
    BY <1>1, <1>3, FreedSlot, PassStep
  <1>4. ASSUME NEW h \in Heartbeats,
               /\ heartbeat' = [heartbeat EXCEPT ![i] = h]
               /\ since_rx' = [since_rx EXCEPT ![i] = 0]
               /\ since_tx' = Sent(i)
               /\ data' = [data EXCEPT ![i] = "none"]
               /\ UNCHANGED <<in_use, tls, handshaking, fd, broken>>
        PROVE  IInv'
    <2>1. ConnOK'
      BY <1>1, <1>4, SentFacts DEF ConnOK
    <2>2. \A k \in Slot \ {i} : SameSlot(k)
      BY <1>1, <1>4, SentFacts DEF ConnOK, SameSlot
    <2>3. /\ heartbeat'[i] = h /\ since_rx'[i] = 0 /\ data'[i] = "none"
          /\ since_tx'[i] = IF broken[i] THEN since_tx[i] ELSE 0
      BY <1>1, <1>4, SentFacts DEF ConnOK
    <2>4. h \in Nat /\ h * Factor \in Nat
      BY IntervalFacts
    <2>5. SlotShape(i)' /\ SlotRead(i)'
      BY <1>1, <1>2, <1>4, <2>3 DEF SlotShape, SlotRead, Reported
    <2>6. SlotTimers(i)'
      BY <1>1, <1>4, <2>3, <2>4 DEF SlotTimers
    <2>7. QED
      BY <1>1, <2>1, <2>2, <2>5, <2>6, PassStep DEF SlotInv
  <1>5. CASE /\ since_rx' = [since_rx EXCEPT ![i] = 0]
             /\ since_tx' \in {since_tx, Sent(i)}
             /\ data' = [data EXCEPT ![i] = "none"]
             /\ UNCHANGED <<connVars, broken>>
    <2>1. ConnOK'
      BY <1>1, <1>5, SentFacts DEF ConnOK, connVars
    <2>2. \A k \in Slot \ {i} : SameSlot(k)
      BY <1>1, <1>5, SentFacts DEF ConnOK, SameSlot, connVars
    <2>3. /\ heartbeat'[i] = heartbeat[i] /\ since_rx'[i] = 0 /\ data'[i] = "none"
          /\ handshaking'[i] = handshaking[i] /\ broken'[i] = broken[i]
          /\ since_tx'[i] = since_tx[i] \/ (~broken[i] /\ since_tx'[i] = 0)
      BY <1>1, <1>5, SentFacts DEF ConnOK, connVars
    <2>4. heartbeat[i] \in Nat /\ heartbeat[i] * Factor \in Nat
      <3>1. heartbeat[i] \in Heartbeats
        BY <1>1 DEF ConnOK
      <3>2. QED
        BY <3>1, IntervalFacts
    <2>5. SlotShape(i)' /\ SlotRead(i)'
      BY <1>1, <1>2, <1>5, <2>3 DEF SlotShape, SlotRead, Reported, connVars
    <2>6. SlotTimers(i)'
      BY <1>1, <1>2, <2>3, <2>4 DEF SlotInv, SlotTimers
    <2>7. QED
      BY <1>1, <2>1, <2>2, <2>5, <2>6, PassStep DEF SlotInv
  <1>6. QED
    BY <1>3, <1>4, <1>5 DEF HandleRx

(* recv on a blocking socket finds data: the descriptor is still the       *)
(* connection's and what select() saw there was not read yet.              *)
LEMMA ReadableSlot ==
  ASSUME IInv, NEW i \in Slot, At("serve", i), in_use[i], Reported(i)
  PROVE  data[i] # "none"
  <1>1. SlotRead(i) /\ Unread(i)
    BY DEF IInv, SlotInv, At, Unread, Slot
  <1>2. QED
    BY <1>1 DEF SlotRead

LEMMA ServeTlsStep ==
  ASSUME IInv, NEW i \in Slot, ServeTls(i) PROVE IInv'
  <1>1. /\ LoopOK /\ ConnOK /\ SlotInv(i) /\ At("serve", i) /\ NextSlot
        /\ in_use[i] /\ tls[i] /\ ~handshaking[i] /\ pc = "serve" /\ slot = i
        /\ blocked' = blocked /\ blocked' = FALSE
    BY TypeHalves DEF IInv, LoopInv, ServeTls, At
  <1>2. CASE HandleRx(i)
    BY <1>1, <1>2, HandleRxSlot
  <1>3. CASE UNCHANGED <<connVars, ageVars, data, broken>>
    <2>1. ConnOK' /\ \A k \in Slot : SameSlot(k)
      BY <1>1, <1>3 DEF ConnOK, SameSlot, connVars, ageVars
    <2>2. rfds' = rfds /\ ~Unread(i)' /\ (LookedAt(i)' => LookedAt(i))
      BY <1>1, NextSlotFacts
    <2>3. SlotShape(i)' /\ SlotRead(i)'
      BY <1>1, <2>1, <2>2 DEF SlotInv, SlotShape, SlotRead, SameSlot
    <2>4. SlotTimers(i)'
      BY <1>1, <2>1, <2>2 DEF SlotInv, SlotTimers, SameSlot
    <2>5. QED
      BY <1>1, <2>1, <2>3, <2>4, PassStep DEF SlotInv
  <1>4. QED
    BY <1>2, <1>3 DEF ServeTls

LEMMA ServePlainStep ==
  ASSUME IInv, NEW i \in Slot, ServePlain(i) PROVE IInv'
  <1>1. /\ SlotInv(i) /\ At("serve", i) /\ NextSlot /\ in_use[i] /\ ~tls[i]
        /\ data[i] # "none"
    BY ReadableSlot DEF IInv, ServePlain
  <1>2. ~handshaking[i]
    BY <1>1 DEF SlotInv, SlotShape
  <1>3. HandleRx(i) /\ blocked' = blocked
    BY <1>1 DEF ServePlain
  <1>4. QED
    BY <1>1, <1>2, <1>3, HandleRxSlot

LEMMA KeepAliveStep ==
  ASSUME IInv, NEW i \in Slot, KeepAlive(i) PROVE IInv'
  <1>1. /\ LoopOK /\ ConnOK /\ SlotInv(i) /\ At("keepalive", i) /\ NextSlot
        /\ pc = "keepalive" /\ slot = i /\ blocked' = blocked /\ blocked' = FALSE
    BY TypeHalves DEF IInv, LoopInv, KeepAlive, At
  <1>2. /\ rfds' = rfds /\ ~Unread(i)' /\ (Served(i)' => Served(i)) /\ Driven(i)
        /\ (Driven(i)' => Driven(i))
    BY <1>1, NextSlotFacts DEF Served, Driven
  <1>3. heartbeat[i] \in Nat /\ heartbeat[i] * Factor \in Nat /\ since_rx[i] \in Nat
        /\ since_tx[i] \in Nat
    <2>1. heartbeat[i] \in Heartbeats /\ since_rx[i] \in Nat /\ since_tx[i] \in Nat
      BY <1>1 DEF ConnOK
    <2>2. QED
      BY <2>1, IntervalFacts
  <1>4. CASE Freed(i)
    BY <1>1, <1>4, FreedSlot, PassStep
  <1>5. ASSUME UNCHANGED <<connVars, since_rx, data, broken>>, ConnOK',
               \A k \in Slot \ {i} : SameSlot(k),
               in_use[i] /\ heartbeat[i] # 0 => ~Expired(i),
               \/ since_tx' = since_tx /\ (in_use[i] /\ heartbeat[i] # 0 => ~Due(i))
               \/ since_tx' = Sent(i) /\ in_use[i] /\ heartbeat[i] # 0
        PROVE  IInv'
    <2>1. /\ in_use' = in_use /\ tls' = tls /\ handshaking' = handshaking /\ fd' = fd
          /\ heartbeat' = heartbeat /\ since_rx' = since_rx /\ data' = data
          /\ broken' = broken
      BY <1>5 DEF connVars
    <2>2. since_tx'[i] = since_tx[i] \/ in_use[i]
      BY <1>5
    <2>3. SlotShape(i)' /\ SlotRead(i)'
      BY <1>1, <1>2, <2>1, <2>2 DEF SlotInv, SlotShape, SlotRead, Reported
    <2>4. ASSUME heartbeat[i] # 0
          PROVE  /\ since_rx[i] <= heartbeat[i] * Factor
                 /\ ~broken[i] => since_tx'[i] < heartbeat[i]
      <3>1. in_use[i]
        BY <1>1, <2>4 DEF SlotInv, SlotShape
      <3>2. since_rx[i] <= heartbeat[i] * Factor
        BY <1>3, <1>5, <2>4, <3>1 DEF Expired
      <3>3. ASSUME ~broken[i] PROVE since_tx'[i] < heartbeat[i]
        BY <1>1, <1>3, <1>5, <2>4, <3>1, <3>3, SentFacts DEF Due
      <3>4. QED
        BY <3>2, <3>3
    <2>5. since_tx'[i] \in Nat
      BY <1>5 DEF ConnOK
    <2>6. ASSUME heartbeat'[i] # 0
          PROVE  /\ since_rx'[i] <= heartbeat'[i] * Factor + 1
                 /\ since_rx'[i] <= heartbeat'[i] * Factor
                 /\ ~broken'[i] => /\ since_tx'[i] <= heartbeat'[i]
                                   /\ since_tx'[i] < heartbeat'[i]
      BY <1>3, <2>1, <2>4, <2>5, <2>6
    <2>7. SlotTimers(i)'
      BY <1>1, <1>2, <2>1, <2>6 DEF SlotInv, SlotTimers
    <2>8. QED
      BY <1>1, <1>5, <2>3, <2>7, PassStep DEF SlotInv
  <1>6. CASE /\ in_use[i] /\ heartbeat[i] # 0 /\ ~Expired(i) /\ Due(i)
             /\ since_tx' = Sent(i)
             /\ UNCHANGED <<connVars, since_rx, data, broken>>
    <2>1. ConnOK' /\ \A k \in Slot \ {i} : SameSlot(k)
      BY <1>1, <1>6, SentFacts DEF ConnOK, SameSlot, connVars
    <2>2. QED
      BY <1>5, <1>6, <2>1
  <1>7. CASE /\ in_use[i] /\ heartbeat[i] # 0 => ~Expired(i) /\ ~Due(i)
             /\ UNCHANGED <<connVars, ageVars, data, broken>>
    <2>1. ConnOK' /\ \A k \in Slot \ {i} : SameSlot(k)
      BY <1>1, <1>7 DEF ConnOK, SameSlot, connVars, ageVars
    <2>2. QED
      BY <1>5, <1>7, <2>1 DEF ageVars
  <1>8. QED
    BY <1>4, <1>6, <1>7 DEF KeepAlive


-----------------------------------------------------------------------------
(* The other actions.                                                      *)

(* An action that touches one slot while the loop stands still.            *)
LEMMA StandStill ==
  ASSUME IInv, NEW i \in Slot, UNCHANGED <<loopVars, knocking, blocked>>,
         ConnOK', fd' = fd, SlotInv(i)', \A k \in Slot \ {i} : SameSlot(k)
  PROVE  IInv'
  <1>1. LoopOK'
    BY TypeHalves DEF IInv, LoopOK, loopVars
  <1>2. TypeOK'
    BY <1>1 DEF TypeOK, LoopOK, ConnOK
  <1>3. LoopInv'
    BY DEF IInv, LoopInv, loopVars
  <1>4. ASSUME NEW k \in Slot, k # i PROVE SlotInv(k)'
    <2>1. /\ rfds' = rfds
          /\ Unread(k)' => Unread(k)
          /\ Served(k)' => Served(k)
          /\ LookedAt(k)' => LookedAt(k)
          /\ Driven(k)' => Driven(k)
      BY DEF loopVars, Unread, Served, LookedAt, Driven
    <2>2. SlotInv(k) /\ SameSlot(k)
      BY <1>4 DEF IInv
    <2>3. QED
      BY <2>1, <2>2, SlotKept
  <1>5. QED
    BY <1>2, <1>3, <1>4 DEF IInv

LEMMA PeerSendsStep ==
  ASSUME IInv, NEW i \in Slot, PeerSends(i) PROVE IInv'
  <1>1. ConnOK /\ SlotInv(i) /\ in_use[i]
    BY TypeHalves DEF IInv, PeerSends
  <1>2. PICK d \in {"part", "data"} :
          /\ d = "part" => tls[i] /\ data[i] = "none"
          /\ data' = [data EXCEPT ![i] = d]
    BY DEF PeerSends
  <1>3. ConnOK' /\ \A k \in Slot \ {i} : SameSlot(k)
    BY <1>1, <1>2 DEF PeerSends, ConnOK, SameSlot, connVars, ageVars
  <1>4. data'[i] = d
    BY <1>1, <1>2 DEF ConnOK
  <1>5. SlotShape(i)'
    BY <1>1, <1>2, <1>4 DEF PeerSends, SlotInv, SlotShape, connVars, ageVars
  <1>6. SlotRead(i)'
    BY <1>1, <1>2, <1>4
       DEF PeerSends, SlotInv, SlotRead, Unread, Served, Reported, connVars, ageVars, loopVars
  <1>7. SlotTimers(i)'
    BY <1>1
       DEF PeerSends, SlotInv, SlotTimers, LookedAt, Driven, Served, connVars, ageVars, loopVars
  <1>8. QED
    BY <1>3, <1>5, <1>6, <1>7, StandStill DEF PeerSends, SlotInv, connVars

LEMMA PeerBreaksStep ==
  ASSUME IInv, NEW i \in Slot, PeerBreaks(i) PROVE IInv'
  <1>1. ConnOK /\ SlotInv(i) /\ in_use[i]
    BY TypeHalves DEF IInv, PeerBreaks
  <1>2. ConnOK' /\ (\A k \in Slot \ {i} : SameSlot(k)) /\ broken'[i]
    BY <1>1 DEF PeerBreaks, ConnOK, SameSlot, connVars, ageVars
  <1>3. SlotShape(i)'
    BY <1>1 DEF PeerBreaks, SlotInv, SlotShape, connVars, ageVars
  <1>4. SlotRead(i)'
    BY <1>1
       DEF PeerBreaks, SlotInv, SlotRead, Unread, Served, Reported, connVars, ageVars, loopVars
  <1>5. SlotTimers(i)'
    BY <1>1, <1>2
       DEF PeerBreaks, SlotInv, SlotTimers, LookedAt, Driven, Served, connVars, ageVars, loopVars
  <1>6. QED
    BY <1>2, <1>3, <1>4, <1>5, StandStill DEF PeerBreaks, SlotInv, connVars

LEMMA NotifyStep ==
  ASSUME IInv, NEW i \in Slot, Notify(i) PROVE IInv'
  <1>1. ConnOK /\ SlotInv(i) /\ in_use[i] /\ ~handshaking[i]
    BY TypeHalves DEF IInv, Notify
  <1>2. ConnOK' /\ \A k \in Slot \ {i} : SameSlot(k)
    BY <1>1, SentFacts DEF Notify, ConnOK, SameSlot, connVars, ageVars
  <1>3. since_tx'[i] = IF broken[i] THEN since_tx[i] ELSE 0
    BY <1>1, SentFacts DEF Notify
  <1>4. SlotShape(i)' /\ SlotRead(i)'
    BY <1>1
       DEF Notify, SlotInv, SlotShape, SlotRead, Unread, Served, Reported, connVars, loopVars
  <1>5. SlotTimers(i)'
    <2>1. heartbeat[i] \in Nat
      BY <1>1 DEF ConnOK
    <2>2. QED
      BY <1>1, <1>3, <2>1
         DEF Notify, SlotInv, SlotTimers, LookedAt, Driven, Served, connVars, loopVars
  <1>6. QED
    BY <1>2, <1>4, <1>5, StandStill DEF Notify, SlotInv, connVars

(* A tick: the timers that run were settled, so they had one to spare.     *)
LEMMA TickStep == IInv /\ Tick => IInv'
  <1> SUFFICES ASSUME IInv, Tick PROVE IInv'
    OBVIOUS
  <1>1. LoopOK /\ ConnOK /\ pc = "select" /\ ~waited
    BY TypeHalves DEF IInv, Tick
  <1>2. ASSUME NEW age, age \in [Slot -> 0 .. AgeCap]
        PROVE  /\ Older(age) \in [Slot -> 0 .. AgeCap]
               /\ \A k \in Slot : Older(age)[k] \in {age[k], age[k] + 1}
               /\ \A k \in Slot : Older(age)[k] # age[k] => Judged(k)
    BY <1>2 DEF Older
  <1>3. ConnOK'
    BY <1>1, <1>2 DEF Tick, ConnOK, connVars
  <1>4. LoopOK'
    BY <1>1 DEF Tick, LoopOK
  <1>5. LoopInv'
    BY <1>1 DEF Tick, IInv, LoopInv
  <1>6. ASSUME NEW k \in Slot PROVE SlotInv(k)'
    <2>1. /\ SlotInv(k) /\ LookedAt(k) /\ Driven(k) /\ ~Unread(k)' /\ ~Served(k)'
          /\ ~LookedAt(k)' /\ ~Driven(k)'
      BY <1>1 DEF IInv, Tick, LookedAt, Driven, Unread, Served
    <2>2. /\ in_use' = in_use /\ tls' = tls /\ handshaking' = handshaking /\ fd' = fd
          /\ heartbeat' = heartbeat /\ data' = data /\ broken' = broken
      BY DEF Tick, connVars
    <2>3. /\ since_rx'[k] \in {since_rx[k], since_rx[k] + 1}
          /\ since_tx'[k] \in {since_tx[k], since_tx[k] + 1}
          /\ since_rx'[k] # since_rx[k] \/ since_tx'[k] # since_tx[k] => Judged(k)
      BY <1>1, <1>2 DEF Tick, ConnOK
    <2>4. SlotShape(k)'
      BY <2>1, <2>2, <2>3 DEF SlotInv, SlotShape, Judged
    <2>5. SlotRead(k)'
      BY <2>1 DEF SlotRead
    <2>6. heartbeat[k] \in Heartbeats /\ since_rx[k] \in Nat /\ since_tx[k] \in Nat
      BY <1>1 DEF ConnOK
    <2>7. heartbeat[k] \in Nat /\ heartbeat[k] * Factor \in Nat
      BY <2>6, IntervalFacts
    <2>8. ASSUME heartbeat[k] # 0
          PROVE  /\ since_rx'[k] <= heartbeat[k] * Factor + 1
                 /\ ~broken[k] => since_tx'[k] <= heartbeat[k]
      <3>1. /\ since_rx[k] <= heartbeat[k] * Factor
            /\ ~broken[k] => since_tx[k] < heartbeat[k]
        BY <2>1, <2>8 DEF SlotInv, SlotTimers
      <3>2. QED
        BY <2>3, <2>6, <2>7, <3>1
    <2>9. ASSUME handshaking[k] PROVE since_rx'[k] <= HandshakeTimeout + 1
      <3>1. since_rx[k] <= HandshakeTimeout
        BY <2>1, <2>9 DEF SlotInv, SlotTimers
      <3>2. QED
        BY <2>3, <2>6, <3>1
    <2>10. SlotTimers(k)'
      BY <2>1, <2>2, <2>8, <2>9 DEF SlotTimers
    <2>11. QED
      BY <2>4, <2>5, <2>10 DEF SlotInv
  <1>7. QED
    BY <1>3, <1>4, <1>5, <1>6 DEF IInv, TypeOK, LoopOK, ConnOK

(* select() reports descriptors of connections with something to read.     *)
LEMMA SelectReturnsStep == IInv /\ SelectReturns => IInv'
  <1> SUFFICES ASSUME IInv, SelectReturns PROVE IInv'
    OBVIOUS
  <1>1. LoopOK /\ ConnOK /\ pc = "select" /\ pc' = "accept" /\ slot' = 0
    BY TypeHalves DEF IInv, SelectReturns
  <1>2. /\ in_use' = in_use /\ tls' = tls /\ handshaking' = handshaking /\ fd' = fd
        /\ heartbeat' = heartbeat /\ since_rx' = since_rx /\ since_tx' = since_tx
        /\ data' = data /\ broken' = broken /\ waited' = waited /\ blocked' = blocked
    BY DEF SelectReturns, connVars, ageVars
  <1>3. rfds' = {fd[i] : i \in {j \in Slot : in_use[j] /\ data[j] # "none"}}
    BY DEF SelectReturns
  <1>4. rfds' \subseteq Fd
    BY <1>1, <1>3 DEF ConnOK
  <1>5. ConnOK'
    BY <1>1, <1>2 DEF ConnOK
  <1>6. LoopOK'
    BY <1>1, <1>2, <1>4 DEF SelectReturns, LoopOK, Slot
  <1>7. LoopInv'
    BY <1>1, <1>2, <1>3 DEF IInv, LoopInv
  <1>8. ASSUME NEW k \in Slot PROVE SlotInv(k)'
    <2>1. SlotInv(k) /\ ~Served(k)' /\ (LookedAt(k)' => LookedAt(k)) /\ (Driven(k)' => Driven(k))
      BY <1>1, <1>2 DEF IInv, Served, LookedAt, Driven
    <2>2. SlotShape(k)' /\ SlotTimers(k)'
      BY <1>2, <2>1 DEF SlotInv, SlotShape, SlotTimers
    <2>3. ASSUME in_use[k], fd[k] \in rfds' PROVE data[k] # "none"
      <3>1. PICK j \in Slot : in_use[j] /\ data[j] # "none" /\ fd[k] = fd[j]
        BY <1>3, <2>3
      <3>2. j = k
        BY <1>1, <2>3, <3>1 DEF ConnOK
      <3>3. QED
        BY <3>1, <3>2
    <2>4. SlotRead(k)'
      BY <1>2, <2>1, <2>3 DEF SlotRead, Reported
    <2>5. QED
      BY <2>2, <2>4 DEF SlotInv
  <1>9. QED
    BY <1>5, <1>6, <1>7, <1>8 DEF IInv, TypeOK, LoopOK, ConnOK

(* A connection accepted gets a descriptor nobody has, hence one that was  *)
(* not reported, and a slot in which nothing waits.                        *)
LEMMA AcceptConnStep ==
  ASSUME IInv, NEW l \in Listeners, AcceptConn(l) PROVE IInv'
  <1>1. LoopOK /\ ConnOK /\ pc = "accept"
    BY TypeHalves DEF IInv, AcceptConn
  <1>2. /\ heartbeat' = heartbeat /\ since_rx' = since_rx /\ since_tx' = since_tx
        /\ data' = data /\ broken' = broken /\ waited' = waited /\ blocked' = blocked
        /\ pc' = pc /\ slot' = slot /\ rfds' = rfds
    BY DEF AcceptConn, ageVars
  <1>3. LoopOK'
    BY <1>1, <1>2 DEF AcceptConn, LoopOK
  <1>4. /\ \A k \in Slot : Unread(k)' => Unread(k)
        /\ \A k \in Slot : Served(k)' => Served(k)
        /\ \A k \in Slot : LookedAt(k)' => LookedAt(k)
        /\ \A k \in Slot : Driven(k)' => Driven(k)
    BY <1>2 DEF Unread, Served, LookedAt, Driven
  <1>5. ASSUME NEW i \in Slot, ~in_use[i], NEW f \in Fd, LowestFd(f),
               in_use' = [in_use EXCEPT ![i] = TRUE],
               tls' = [tls EXCEPT ![i] = (l = "tls")],
               handshaking' = [handshaking EXCEPT ![i] = (l = "tls")],
               fd' = [fd EXCEPT ![i] = f]
        PROVE  IInv'
    <2>1. \A k \in Slot : fd[k] # f
      BY <1>5 DEF LowestFd
    <2>2. f # None
      BY DEF Fd, None
    <2>3. ConnOK'
      BY <1>1, <1>2, <1>5, <2>1, <2>2 DEF ConnOK
    <2>4. f \notin rfds
      BY <1>1, <2>1 DEF IInv, LoopInv
    <2>5. \A k \in Slot \ {i} : SameSlot(k)
      BY <1>1, <1>2, <1>5 DEF ConnOK, SameSlot
    <2>6. \A g \in rfds : \E k \in Slot \ {i} : fd[k] = g
      <3>1. \A g \in rfds : \E k \in Slot : fd[k] = g
        BY <1>1 DEF IInv, LoopInv
      <3>2. fd[i] = None
        BY <1>1, <1>5 DEF ConnOK, None
      <3>3. None \notin rfds
        BY <1>1 DEF LoopOK, Fd, None
      <3>4. QED
        BY <3>1, <3>2, <3>3
    <2>7. LoopInv'
      BY <1>1, <1>2, <2>5, <2>6 DEF IInv, LoopInv, SameSlot
    <2>8. SlotInv(i)'
      <3>1. /\ heartbeat[i] = 0 /\ since_rx[i] = 0 /\ since_tx[i] = 0 /\ data[i] = "none"
        BY <1>5 DEF IInv, SlotInv, SlotShape
      <3>2. in_use'[i] /\ tls'[i] = handshaking'[i] /\ fd'[i] = f
        BY <1>1, <1>5 DEF ConnOK
      <3>3. SlotShape(i)' /\ SlotRead(i)' /\ SlotTimers(i)'
        BY <1>2, <2>4, <3>1, <3>2 DEF SlotShape, SlotRead, SlotTimers, Reported
      <3>4. QED
        BY <3>3 DEF SlotInv
    <2>9. ASSUME NEW k \in Slot, k # i PROVE SlotInv(k)'
      <3>1. SlotInv(k) /\ SameSlot(k)
        BY <2>5, <2>9 DEF IInv
      <3>2. QED
        BY <1>2, <1>4, <3>1, SlotKept
    <2>10. QED
      BY <1>3, <2>3, <2>7, <2>8, <2>9 DEF IInv, TypeOK, LoopOK, ConnOK
  <1>6. CASE UNCHANGED <<in_use, tls, handshaking, fd>>
    <2>1. ConnOK' /\ LoopInv'
      BY <1>1, <1>2, <1>6 DEF IInv, LoopInv, ConnOK
    <2>2. ASSUME NEW k \in Slot PROVE SlotInv(k)'
      <3>1. SlotInv(k) /\ SameSlot(k)
        BY <1>2, <1>6 DEF IInv, SameSlot
      <3>2. QED
        BY <1>2, <1>4, <3>1, SlotKept
    <2>3. QED
      BY <1>3, <2>1, <2>2 DEF IInv, TypeOK, LoopOK, ConnOK
  <1>7. QED
    BY <1>5, <1>6 DEF AcceptConn

LEMMA AcceptsDoneStep == IInv /\ AcceptsDone => IInv'
  <1> SUFFICES ASSUME IInv, AcceptsDone PROVE IInv'
    OBVIOUS
  <1>1. LoopOK /\ ConnOK /\ LoopInv /\ pc = "accept" /\ pc' = "serve" /\ slot = 0
    BY TypeHalves DEF IInv, LoopInv, AcceptsDone
  <1>2. UNCHANGED <<slot, waited, rfds, rlisten, knocking, connVars, ageVars, data,
                    broken, blocked>>
    BY DEF AcceptsDone
  <1>3. LoopOK' /\ ConnOK' /\ LoopInv'
    BY <1>1, <1>2 DEF LoopOK, ConnOK, LoopInv, connVars, ageVars
  <1>4. ASSUME NEW k \in Slot PROVE SlotInv(k)'
    <2>1. SlotInv(k) /\ SameSlot(k) /\ rfds' = rfds
      BY <1>2 DEF IInv, SameSlot, connVars, ageVars
    <2>2. Unread(k) /\ ~Served(k)' /\ (LookedAt(k)' => LookedAt(k)) /\ (Driven(k)' => Driven(k))
      BY <1>1, <1>2 DEF Unread, Served, LookedAt, Driven, Slot
    <2>3. QED
      BY <2>1, <2>2, SlotKept
  <1>5. QED
    BY <1>3, <1>4 DEF IInv, TypeOK, LoopOK, ConnOK

LEMMA KnockStep ==
  ASSUME IInv, NEW l \in Listeners, Knock(l) PROVE IInv'
  <1>1. LoopOK /\ ConnOK /\ LoopInv
    BY TypeHalves DEF IInv
  <1>2. UNCHANGED <<loopVars, connVars, ageVars, data, broken, blocked>>
    BY DEF Knock
  <1>3. LoopOK' /\ ConnOK' /\ LoopInv'
    BY <1>1, <1>2 DEF Knock, LoopOK, ConnOK, LoopInv, loopVars, connVars, ageVars
  <1>4. ASSUME NEW k \in Slot PROVE SlotInv(k)'
    <2>1. SlotInv(k) /\ SameSlot(k) /\ rfds' = rfds
      BY <1>2 DEF IInv, SameSlot, loopVars, connVars, ageVars
    <2>2. /\ Unread(k)' => Unread(k)
          /\ Served(k)' => Served(k)
          /\ LookedAt(k)' => LookedAt(k)
          /\ Driven(k)' => Driven(k)
      BY <1>2 DEF Unread, Served, LookedAt, Driven, loopVars
    <2>3. QED
      BY <2>1, <2>2, SlotKept
  <1>5. QED
    BY <1>3, <1>4 DEF IInv, TypeOK, LoopOK, ConnOK

LEMMA StutterStep == IInv /\ UNCHANGED vars => IInv'
  BY DEF IInv, TypeOK, LoopInv, SlotInv, SlotShape, SlotRead, SlotTimers, Unread, Served,
         LookedAt, Driven, Reported, vars, loopVars, connVars, ageVars

-----------------------------------------------------------------------------
LEMMA Inductive == IInv /\ [Next]_vars => IInv'
  <1> SUFFICES ASSUME IInv, [Next]_vars PROVE IInv'
    OBVIOUS
  <1>1. ASSUME NEW l \in Listeners, Knock(l) \/ AcceptConn(l) PROVE IInv'
    BY <1>1, KnockStep, AcceptConnStep
  <1>2. ASSUME NEW i \in Slot, PeerSends(i) \/ PeerBreaks(i) \/ Notify(i) PROVE IInv'
    BY <1>2, PeerSendsStep, PeerBreaksStep, NotifyStep
  <1>3. ASSUME NEW i \in Slot, ServeNothing(i) \/ ServeHandshake(i) PROVE IInv'
    BY <1>3, ServeNothingStep, ServeHandshakeStep
  <1>4. ASSUME NEW i \in Slot, ServeTls(i) \/ ServePlain(i) \/ KeepAlive(i) PROVE IInv'
    BY <1>4, ServeTlsStep, ServePlainStep, KeepAliveStep
  <1>5. CASE Tick \/ SelectReturns \/ AcceptsDone
    BY <1>5, TickStep, SelectReturnsStep, AcceptsDoneStep
  <1>6. CASE UNCHANGED vars
    BY <1>6, StutterStep
  <1>7. QED
    BY <1>1, <1>2, <1>3, <1>4, <1>5, <1>6 DEF Next

(* The inductive invariant holds of server_task at every step.             *)
THEOREM ServerLoopInvariant == Spec => []IInv
  BY InitInv, Inductive, PTL DEF Spec

(* Types; no two connections share a descriptor.                           *)
THEOREM ServerLoopType == Spec => []TypeOK
  <1>1. IInv => TypeOK
    BY DEF IInv
  <1>2. QED
    BY <1>1, ServerLoopInvariant, PTL

(* The server never sits in recv on a blocking socket, although            *)
(* descriptors are closed and handed out again between select() and recv.  *)
THEOREM ServerNeverBlocks == Spec => []NeverBlocks
  <1>1. IInv => NeverBlocks
    BY DEF IInv, LoopInv, NeverBlocks
  <1>2. QED
    BY <1>1, ServerLoopInvariant, PTL

(* A controller that asked for keep-alives and fell silent is dropped      *)
(* within one select() timeout of Factor intervals.                        *)
THEOREM SilenceIsNoticed == Spec => []SilentControllerDropped
  <1>1. IInv => SilentControllerDropped
    BY DEF IInv, SlotInv, SlotTimers, SilentControllerDropped
  <1>2. QED
    BY <1>1, ServerLoopInvariant, PTL

(* What select() reported is read before service_keepalive judges its      *)
(* sender's age.                                                           *)
THEOREM SpeakerNotTakenForSilent == Spec => []HeardBeforeJudged
  <1>1. IInv => HeardBeforeJudged
    BY DEF IInv, SlotInv, SlotRead, Served, HeardBeforeJudged
  <1>2. QED
    BY <1>1, ServerLoopInvariant, PTL

(* A controller that asked for keep-alives hears from the device at least  *)
(* once per interval.                                                      *)
THEOREM KeepAlivesOnTime == Spec => []ControllerHearsUs
  <1>1. IInv => ControllerHearsUs
    BY DEF IInv, SlotInv, SlotTimers, ControllerHearsUs
  <1>2. QED
    BY <1>1, ServerLoopInvariant, PTL

(* A silent handshake gives its slot back.                                 *)
THEOREM HandshakesEnd == Spec => []HandshakeBounded
  <1>1. IInv => HandshakeBounded
    BY DEF IInv, SlotInv, SlotTimers, HandshakeBounded
  <1>2. QED
    BY <1>1, ServerLoopInvariant, PTL

-----------------------------------------------------------------------------
(* The life of a device.                                                   *)

(* The descriptors that are out, of any device.                            *)
Out == {p \in Device \X Field : sock[p[1]][p[2]] = "open"}

Accounted ==
  /\ IsFiniteSet(Out) /\ pool + Cardinality(Out) <= MaxSockets
  /\ "task" \notin mishaps => pool + Cardinality(Out) = MaxSockets

(* Each socket is opened once, at its place in the walk.                   *)
ToOpen(d) ==
  /\ step[d] \in {"objects", "tls"} => sock[d]["tls_listen_sock"] # "open"
  /\ step[d] \in {"objects", "tls", "tls6"} => sock[d]["tls_listen_sock6"] # "open"
  /\ step[d] \in {"objects", "tls", "tls6", "plain"} => sock[d]["listen_sock"] # "open"
  /\ step[d] \in {"objects", "tls", "tls6", "plain", "plain6"} => sock[d]["listen_sock6"] # "open"
  /\ step[d] \in {"objects", "tls", "tls6", "plain", "plain6", "wake"} =>
       \A f \in Wake : sock[d][f] # "open"

(* A device that is off holds no descriptor, and one that stops without a  *)
(* task has no wake pair, unless a task could not be created.              *)
GivenBack(d) ==
  "task" \notin mishaps =>
    /\ step[d] = "off" => \A f \in Field : sock[d][f] # "open"
    /\ step[d] \in {"unpublish", "stop_task"} /\ ~running[d] /\ task[d] = "none" =>
         \A f \in Wake : sock[d][f] # "open"

(* What calloc left in a descriptor is gone before anything is closed,     *)
(* unless the start fails before the transport.                            *)
NoZero(d) ==
  /\ \A f \in Wake : sock[d][f] # "zero"
  /\ "early" \notin mishaps /\ step[d] # "objects" => \A f \in Field : sock[d][f] # "zero"

Serves(d) ==
  /\ step[d] \in {"publish", "publish_secure", "up"} => running[d] /\ Alive(d)
  /\ step[d] \in {"plain6", "wake", "task", "publish", "publish_secure", "up"} /\
     ~cfg[d].disable_plaintext => sock[d]["listen_sock"] = "open"
  /\ step[d] \in {"tls6", "plain", "plain6", "wake", "task", "publish", "publish_secure", "up"} /\
     cfg[d].tls => sock[d]["tls_listen_sock"] = "open"

OnItsWay(d) == ToOpen(d) /\ GivenBack(d) /\ NoZero(d) /\ Serves(d)
Walk == \A d \in Device : OnItsWay(d)

(* With one device the flags say what is advertised.                       *)
Flagged ==
  Cardinality(Device) = 1 =>
    /\ services = published
    /\ service_added = {s[2] : s \in services}
    /\ \A s \in services : /\ step[s[1]] \in {"publish_secure", "up", "unpublish"}
                           /\ cfg[s[1]].enable_mdns

LifeInv ==
  /\ LifeTypeOK /\ Accounted /\ Walk /\ Flagged
  /\ console \/ "early" \in mishaps

(* Sets of descriptors are finite.                                         *)
LEMMA FieldIsFinite == IsFiniteSet(Field)
  <1>1. \A f : IsFiniteSet({f})
    BY FS_Singleton
  <1>2. IsFiniteSet({"listen_sock"} \cup {"listen_sock6"})
    BY <1>1, FS_Union
  <1>3. IsFiniteSet({"tls_listen_sock"} \cup {"tls_listen_sock6"})
    BY <1>1, FS_Union
  <1>4. IsFiniteSet({"wake_recv_sock"} \cup {"wake_send_sock"})
    BY <1>1, FS_Union
  <1>5. IsFiniteSet(({"listen_sock"} \cup {"listen_sock6"})
                    \cup ({"tls_listen_sock"} \cup {"tls_listen_sock6"}))
    BY <1>2, <1>3, FS_Union
  <1>6. IsFiniteSet((({"listen_sock"} \cup {"listen_sock6"})
                     \cup ({"tls_listen_sock"} \cup {"tls_listen_sock6"}))
                    \cup ({"wake_recv_sock"} \cup {"wake_send_sock"}))
    BY <1>4, <1>5, FS_Union
  <1>7. Field = (({"listen_sock"} \cup {"listen_sock6"})
                 \cup ({"tls_listen_sock"} \cup {"tls_listen_sock6"}))
                \cup ({"wake_recv_sock"} \cup {"wake_send_sock"})
    BY DEF Field, Listener, Wake
  <1>8. QED
    BY <1>6, <1>7

LEMMA DescriptorsAreFinite ==
  ASSUME NEW S \in SUBSET (Device \X Field)
  PROVE  IsFiniteSet(S) /\ Cardinality(S) \in Nat
  <1>1. IsFiniteSet(Device \X Field)
    BY FieldIsFinite, FS_Product, LifecycleAssumption DEF LifecycleAssumption
  <1>2. IsFiniteSet(S)
    BY <1>1, FS_Subset
  <1>3. QED
    BY <1>2, FS_CardinalityType

(* One device's fields count as many as the fields.                        *)
LEMMA OneDevicesFields ==
  ASSUME NEW d \in Device, NEW F \in SUBSET Field
  PROVE  /\ IsFiniteSet(F) /\ Cardinality(F) \in Nat
         /\ Cardinality({d} \X F) = Cardinality(F)
         /\ {d} \X F \in SUBSET (Device \X Field)
  <1>1. IsFiniteSet(F) /\ Cardinality(F) \in Nat
    BY FieldIsFinite, FS_Subset, FS_CardinalityType
  <1>2. IsFiniteSet({d}) /\ Cardinality({d}) = 1
    BY FS_Singleton
  <1>3. Cardinality({d} \X F) = Cardinality({d}) * Cardinality(F)
    BY <1>1, <1>2, FS_Product
  <1>4. QED
    BY <1>1, <1>2, <1>3

LEMMA OutIsFinite ==
  /\ Out \in SUBSET (Device \X Field) /\ IsFiniteSet(Out) /\ Cardinality(Out) \in Nat
  /\ Out' \in SUBSET (Device \X Field) /\ IsFiniteSet(Out') /\ Cardinality(Out') \in Nat
  <1>1. Out \in SUBSET (Device \X Field) /\ Out' \in SUBSET (Device \X Field)
    BY DEF Out
  <1>2. QED
    BY <1>1, DescriptorsAreFinite

(* Sockets move between the stack and the descriptors.                     *)
Kept == pool' \in Nat /\ pool' + Cardinality(Out') = pool + Cardinality(Out)

LEMMA OpenKeeps ==
  ASSUME LifeTypeOK, NEW d \in Device, NEW F \in SUBSET Field, Open(d, F),
         \A f \in F : sock[d][f] # "open"
  PROVE  Kept
  <1>1. Out' = Out \cup ({d} \X F)
    BY DEF Out, Open, LifeTypeOK
  <1>2. Out \cap ({d} \X F) = {}
    BY DEF Out
  <1>3. Cardinality(Out') = Cardinality(Out) + Cardinality(F)
    <2>1. IsFiniteSet({d} \X F) /\ Cardinality({d} \X F) = Cardinality(F)
      BY OneDevicesFields, DescriptorsAreFinite
    <2>2. Cardinality(Out') = Cardinality(Out) + Cardinality({d} \X F) - Cardinality({})
      BY <1>1, <1>2, <2>1, OutIsFinite, FS_Union
    <2>3. Cardinality({}) = 0 /\ Cardinality(F) \in Nat /\ Cardinality(Out) \in Nat
      BY FS_EmptySet, OutIsFinite, OneDevicesFields
    <2>4. QED
      BY <2>1, <2>2, <2>3
  <1>4. pool >= Cardinality(F) /\ pool' = pool - Cardinality(F)
    BY DEF Open
  <1>5. Cardinality(F) \in Nat /\ Cardinality(Out) \in Nat
    BY OutIsFinite, OneDevicesFields
  <1>6. pool \in Nat
    BY LifecycleAssumption DEF LifecycleAssumption, LifeTypeOK
  <1>7. QED
    BY <1>3, <1>4, <1>5, <1>6 DEF Kept

LEMMA CloseKeeps ==
  ASSUME LifeTypeOK, NEW d \in Device, NEW F \in SUBSET Field, Close(d, F)
  PROVE  Kept
  <1> DEFINE Gone == Opened(d) \cap F
  <1>0. Gone \in SUBSET Field
    BY DEF Opened
  <1>1. Out' = Out \ ({d} \X Gone)
    BY DEF Out, Close, Opened, LifeTypeOK
  <1>2. Out \cap ({d} \X Gone) = {d} \X Gone
    BY DEF Out, Opened
  <1>3. Cardinality(Out') = Cardinality(Out) - Cardinality(Gone)
    <2>1. IsFiniteSet({d} \X Gone) /\ Cardinality({d} \X Gone) = Cardinality(Gone)
      BY <1>0, OneDevicesFields, DescriptorsAreFinite
    <2>2. Cardinality(Out') = Cardinality(Out) - Cardinality({d} \X Gone)
      <3>1. IsFiniteSet(Out)
        BY OutIsFinite
      <3>2. Cardinality(Out \ ({d} \X Gone)) =
              Cardinality(Out) - Cardinality(Out \cap ({d} \X Gone))
        BY <3>1, FS_Difference
      <3>3. QED
        BY <1>1, <1>2, <3>2
    <2>3. QED
      BY <2>1, <2>2
  <1>4. pool' = pool + Cardinality(Gone)
    BY DEF Close
  <1>5. Cardinality(Gone) \in Nat /\ Cardinality(Out) \in Nat
    BY <1>0, OutIsFinite, OneDevicesFields
  <1>6. pool \in Nat
    BY LifecycleAssumption DEF LifecycleAssumption, LifeTypeOK
  <1>7. QED
    BY <1>3, <1>4, <1>5, <1>6 DEF Kept

LEMMA SameSocketsKeep ==
  ASSUME LifeTypeOK, UNCHANGED <<sock, pool>>
  PROVE  Kept
  <1>1. Out' = Out
    BY DEF Out
  <1>2. QED
    BY <1>1, OutIsFinite DEF Kept, LifeTypeOK

(* A call and the server task's steps lose no socket.                      *)
LEMMA CallKeeps ==
  ASSUME LifeInv, NEW d \in Device,
         NoMemory(d) \/ Call(d) \/ Stop(d) \/ Stall(d) \/ Resume(d) \/ Exit(d)
  PROVE  Kept
  <1>0. LifeTypeOK /\ ToOpen(d)
    BY DEF LifeInv, Walk, OnItsWay
  <1>1. ASSUME MakeObjects(d) PROVE Kept
    <2>1. \A f \in Listener : sock[d][f] # "open"
      BY <1>0, <1>1 DEF MakeObjects, ToOpen, Listener
    <2>2. Out' = Out
      BY <1>0, <1>1, <2>1 DEF Out, MakeObjects, LifeTypeOK
    <2>3. QED
      BY <1>0, <1>1, <2>2, OutIsFinite DEF Kept, LifeTypeOK, MakeObjects
  <1>2. ASSUME TlsStep(d) PROVE Kept
    <2>1. CASE UNCHANGED <<sock, pool>>
      BY <1>0, <2>1, SameSocketsKeep
    <2>2. CASE step[d] = "tls" /\ Open(d, {"tls_listen_sock"})
      BY <1>0, <2>2, OpenKeeps DEF ToOpen, Field, Listener
    <2>3. CASE step[d] = "tls6" /\ Open(d, {"tls_listen_sock6"})
      BY <1>0, <2>3, OpenKeeps DEF ToOpen, Field, Listener
    <2>4. QED
      BY <1>2, <2>1, <2>2, <2>3 DEF TlsStep
  <1>3. ASSUME PlainStep(d) PROVE Kept
    <2>1. CASE UNCHANGED <<sock, pool>>
      BY <1>0, <2>1, SameSocketsKeep
    <2>2. CASE NoPlainListener(d)
      BY <1>0, <2>2, CloseKeeps DEF NoPlainListener, Field, Listener
    <2>3. CASE step[d] = "plain" /\ Open(d, {"listen_sock"})
      BY <1>0, <2>3, OpenKeeps DEF ToOpen, Field, Listener
    <2>4. CASE step[d] = "plain6" /\ Open(d, {"listen_sock6"})
      BY <1>0, <2>4, OpenKeeps DEF ToOpen, Field, Listener
    <2>5. QED
      BY <1>3, <2>1, <2>2, <2>3, <2>4 DEF PlainStep
  <1>4. ASSUME WakeStep(d) PROVE Kept
    <2>1. CASE UNCHANGED <<sock, pool>>
      BY <1>0, <2>1, SameSocketsKeep
    <2>2. CASE step[d] = "wake" /\ Open(d, Wake)
      BY <1>0, <2>2, OpenKeeps DEF ToOpen, Field
    <2>3. QED
      BY <1>4, <2>1, <2>2 DEF WakeStep
  <1>5. ASSUME TaskStep(d) PROVE Kept
    <2>1. CASE UNCHANGED <<sock, pool>>
      BY <1>0, <2>1, SameSocketsKeep
    <2>2. CASE Close(d, Listener)
      BY <1>0, <2>2, CloseKeeps DEF Field
    <2>3. QED
      BY <1>5, <2>1, <2>2 DEF TaskStep
  <1>6. ASSUME StopTask(d) PROVE Kept
    <2>1. CASE UNCHANGED <<sock, pool>>
      BY <1>0, <2>1, SameSocketsKeep
    <2>2. CASE Close(d, Listener)
      BY <1>0, <2>2, CloseKeeps DEF Field
    <2>3. QED
      BY <1>6, <2>1, <2>2 DEF StopTask
  <1>7. ASSUME SeenGone(d) \/ GiveUp(d) PROVE Kept
    BY <1>0, <1>7, CloseKeeps DEF SeenGone, GiveUp, TearDown
  <1>8. ASSUME NoMemory(d) \/ PublishStep(d) \/ Unpublish(d) \/ Stop(d) \/ Stall(d)
               \/ Resume(d) \/ Exit(d)
        PROVE  Kept
    <2>1. UNCHANGED <<sock, pool>>
      BY <1>8 DEF NoMemory, PublishStep, Unpublish, Stop, Stall, Resume, Exit
    <2>2. QED
      BY <1>0, <2>1, SameSocketsKeep
  <1>9. QED
    BY <1>1, <1>2, <1>3, <1>4, <1>5, <1>6, <1>7, <1>8 DEF Call

(* A start forgets what its device still had open, which is nothing unless *)
(* an earlier start could not create its task.                             *)
LEMMA StartForgets ==
  ASSUME LifeInv, NEW d \in Device, NEW c \in Config, Start(d, c)
  PROVE  /\ Out' \subseteq Out
         /\ "task" \notin mishaps => Out' = Out
         /\ UNCHANGED <<pool, mishaps>>
  <1>1. LifeTypeOK /\ GivenBack(d)
    BY DEF LifeInv, Walk, OnItsWay
  <1>2. \A p \in Out' : p \in Out /\ p[1] # d
    BY <1>1 DEF Out, Start, LifeTypeOK
  <1>3. \A p \in Out : p[1] # d => p \in Out'
    BY <1>1 DEF Out, Start, LifeTypeOK
  <1>4. "task" \notin mishaps => \A p \in Out : p[1] # d
    BY <1>1 DEF Out, GivenBack, Start
  <1>5. UNCHANGED <<pool, mishaps>>
    BY DEF Start
  <1>6. Out' \subseteq Out /\ ("task" \notin mishaps => Out' = Out)
    BY <1>2, <1>3, <1>4
  <1>7. QED
    BY <1>5, <1>6

LEMMA AccountedStep ==
  ASSUME LifeInv, LifeNext
  PROVE  Accounted' /\ pool' \in 0 .. MaxSockets
  <1>0. LifeTypeOK /\ Accounted /\ MaxSockets \in Nat
    BY LifecycleAssumption DEF LifeInv, LifecycleAssumption
  <1>1. CASE \E d \in Device, c \in Config : Start(d, c)
    <2>1. PICK d \in Device, c \in Config : Start(d, c)
      BY <1>1
    <2>2. /\ Out' \in SUBSET Out
          /\ "task" \notin mishaps => Out' = Out
          /\ UNCHANGED <<pool, mishaps>>
      BY <2>1, StartForgets
    <2>3. IsFiniteSet(Out)
      BY OutIsFinite
    <2>4. Cardinality(Out') <= Cardinality(Out)
      BY <2>2, <2>3, FS_Subset
    <2>5. Cardinality(Out) \in Nat /\ Cardinality(Out') \in Nat /\ IsFiniteSet(Out')
      BY OutIsFinite
    <2>6. QED
      BY <1>0, <2>2, <2>4, <2>5 DEF Accounted, LifeTypeOK
  <1>2. CASE \E d \in Device : NoMemory(d) \/ Call(d) \/ Stop(d) \/ Stall(d) \/ Resume(d)
                               \/ Exit(d)
    <2>1. Kept
      BY <1>2, CallKeeps
    <2>2. mishaps \subseteq mishaps'
      BY <1>2 DEF NoMemory, Call, MakeObjects, TlsStep, PlainStep, NoPlainListener, WakeStep,
         TaskStep, PublishStep, Unpublish, StopTask, SeenGone, GiveUp, Stop, Stall, Resume,
         Exit, Blame, other
    <2>3. QED
      BY <1>0, <2>1, <2>2, OutIsFinite DEF Accounted, LifeTypeOK, Kept
  <1>3. QED
    BY <1>1, <1>2 DEF LifeNext

(* An action is one device's: of the others only the mishaps may change.   *)
LEMMA OthersStay ==
  ASSUME NEW e \in Device, OnItsWay(e), mishaps \subseteq mishaps',
         step'[e] = step[e], cfg'[e] = cfg[e], sock'[e] = sock[e],
         running'[e] = running[e], task'[e] = task[e]
  PROVE  OnItsWay(e)'
  BY DEF OnItsWay, ToOpen, GivenBack, NoZero, Serves, Alive

LEMMA TypeStep ==
  ASSUME LifeTypeOK, pool' \in 0 .. MaxSockets, LifeNext
  PROVE  LifeTypeOK'
  <1> USE DEF LifeTypeOK, Goto, Blame
  <1>1. ASSUME NEW d \in Device, NEW c \in Config, Start(d, c)
        PROVE  LifeTypeOK'
    <2>1. sock' \in [Device -> [Field -> {"none", "zero", "open"}]]
      BY <1>1 DEF Start
    <2>2. QED
      BY <1>1, <2>1 DEF Start, Step
  <1>2. ASSUME NEW d \in Device, NoMemory(d) \/ MakeObjects(d)
        PROVE  LifeTypeOK'
    <2>1. CASE NoMemory(d)
      BY <2>1 DEF NoMemory, Step
    <2>2. CASE MakeObjects(d)
      <3>1. sock' \in [Device -> [Field -> {"none", "zero", "open"}]]
        BY <2>2 DEF MakeObjects
      <3>2. QED
        BY <2>2, <3>1 DEF MakeObjects, Step
    <2>3. QED
      BY <1>2, <2>1, <2>2
  <1>3. ASSUME NEW d \in Device, NEW F \in SUBSET Field, Open(d, F) \/ Close(d, F)
        PROVE  sock' \in [Device -> [Field -> {"none", "zero", "open"}]]
    BY <1>3 DEF Open, Close
  <1>4. ASSUME NEW d \in Device, TlsStep(d)
        PROVE  LifeTypeOK'
    <2>1. sock' \in [Device -> [Field -> {"none", "zero", "open"}]]
      BY <1>3, <1>4 DEF TlsStep, Field, Listener
    <2>2. step' \in [Device -> Step]
      BY <1>4 DEF TlsStep, Step
    <2>3. UNCHANGED <<console, other>>
      BY <1>4 DEF TlsStep
    <2>4. QED
      BY <2>1, <2>2, <2>3 DEF other
  <1>5. ASSUME NEW d \in Device, PlainStep(d)
        PROVE  LifeTypeOK'
    <2>1. sock' \in [Device -> [Field -> {"none", "zero", "open"}]]
      BY <1>3, <1>5 DEF PlainStep, NoPlainListener, Field, Listener
    <2>2. step' \in [Device -> Step]
      BY <1>5 DEF PlainStep, NoPlainListener, Step
    <2>3. UNCHANGED other /\ console' \in BOOLEAN
      BY <1>5 DEF PlainStep, NoPlainListener, Close
    <2>4. QED
      BY <2>1, <2>2, <2>3 DEF other
  <1>6. ASSUME NEW d \in Device, WakeStep(d)
        PROVE  LifeTypeOK'
    <2>1. sock' \in [Device -> [Field -> {"none", "zero", "open"}]]
      BY <1>3, <1>6 DEF WakeStep, Field
    <2>2. step' \in [Device -> Step] /\ UNCHANGED <<console, other>>
      BY <1>6 DEF WakeStep, Step
    <2>3. QED
      BY <2>1, <2>2 DEF other
  <1>7. ASSUME NEW d \in Device, TaskStep(d)
        PROVE  LifeTypeOK'
    <2>1. sock' \in [Device -> [Field -> {"none", "zero", "open"}]]
      BY <1>3, <1>7 DEF TaskStep, Field
    <2>2. step' \in [Device -> Step] /\ console' \in BOOLEAN
      BY <1>7 DEF TaskStep, Step, Close
    <2>3. QED
      BY <1>7, <2>1, <2>2 DEF TaskStep
  <1>8. ASSUME NEW d \in Device, PublishStep(d)
        PROVE  LifeTypeOK'
    <2>1. step' \in [Device -> Step] /\ UNCHANGED <<cfg, sock, running, task, console>>
      BY <1>8 DEF PublishStep, Step
    <2>2. /\ service_added' \subseteq Service
          /\ services' \subseteq Device \X Service /\ published' \subseteq Device \X Service
      <3>1. CASE UNCHANGED <<services, published, service_added>>
        BY <3>1
      <3>2. ASSUME NEW type \in Service, Publish(d, type)
            PROVE  /\ service_added' \subseteq Service
                   /\ services' \subseteq Device \X Service
                   /\ published' \subseteq Device \X Service
        BY <3>2 DEF Publish
      <3>3. QED
        BY <1>8, <3>1, <3>2 DEF PublishStep, Service
    <2>3. QED
      BY <2>1, <2>2
  <1>9. ASSUME NEW d \in Device, Unpublish(d)
        PROVE  LifeTypeOK'
    <2>1. step' \in [Device -> Step] /\ UNCHANGED <<cfg, sock, running, task, console>>
      BY <1>9 DEF Unpublish, Step
    <2>2. services' \subseteq services /\ published' \subseteq published
      BY <1>9 DEF Unpublish
    <2>3. service_added' \subseteq Service
      BY <1>9 DEF Unpublish
    <2>4. QED
      BY <2>1, <2>2, <2>3
  <1>10. ASSUME NEW d \in Device, StopTask(d) \/ SeenGone(d) \/ GiveUp(d)
         PROVE  LifeTypeOK'
    <2>1. sock' \in [Device -> [Field -> {"none", "zero", "open"}]]
      BY <1>3, <1>10 DEF StopTask, SeenGone, GiveUp, TearDown, Field
    <2>2. step' \in [Device -> Step] /\ console' \in BOOLEAN
      BY <1>10 DEF StopTask, SeenGone, GiveUp, TearDown, Close, Step
    <2>3. running' \in [Device -> BOOLEAN]
      BY <1>10 DEF StopTask, SeenGone, GiveUp, TearDown
    <2>4. QED
      BY <1>10, <2>1, <2>2, <2>3 DEF StopTask, SeenGone, GiveUp, TearDown
  <1>11. ASSUME NEW d \in Device, Stop(d) \/ Stall(d) \/ Resume(d) \/ Exit(d)
         PROVE  LifeTypeOK'
    BY <1>11 DEF Stop, Stall, Resume, Exit, Step
  <1>12. QED
    BY <1>1, <1>2, <1>4, <1>5, <1>6, <1>7, <1>8, <1>9, <1>10, <1>11 DEF LifeNext, Call

LEMMA OthersKept ==
  ASSUME LifeTypeOK, NEW d \in Device, NEW e \in Device, e # d,
         \/ \E c \in Config : Start(d, c)
         \/ NoMemory(d) \/ Call(d) \/ Stop(d) \/ Stall(d) \/ Resume(d) \/ Exit(d)
  PROVE  /\ step'[e] = step[e] /\ cfg'[e] = cfg[e] /\ sock'[e] = sock[e]
         /\ running'[e] = running[e] /\ task'[e] = task[e]
         /\ mishaps \subseteq mishaps'
  <1> USE DEF LifeTypeOK, Goto, Blame, other, Open, Close
  <1>1. CASE \E c \in Config : Start(d, c)
    BY <1>1 DEF Start
  <1>2. CASE NoMemory(d) \/ MakeObjects(d) \/ TlsStep(d) \/ Stop(d)
    BY <1>2 DEF NoMemory, MakeObjects, TlsStep, Stop
  <1>3. CASE PlainStep(d) \/ WakeStep(d)
    BY <1>3 DEF PlainStep, NoPlainListener, WakeStep
  <1>4. CASE TaskStep(d) \/ PublishStep(d) \/ Unpublish(d)
    BY <1>4 DEF TaskStep, PublishStep, Unpublish
  <1>5. CASE StopTask(d) \/ SeenGone(d) \/ GiveUp(d)
    BY <1>5 DEF StopTask, SeenGone, GiveUp, TearDown
  <1>6. CASE Stall(d) \/ Resume(d) \/ Exit(d)
    BY <1>6 DEF Stall, Resume, Exit
  <1>7. QED
    BY <1>1, <1>2, <1>3, <1>4, <1>5, <1>6 DEF Call

(* The device that acts goes on its way.                                   *)
LEMMA ActorOnItsWay ==
  ASSUME LifeInv, NEW d \in Device,
         \/ \E c \in Config : Start(d, c)
         \/ NoMemory(d) \/ Call(d) \/ Stop(d) \/ Stall(d) \/ Resume(d) \/ Exit(d)
  PROVE  OnItsWay(d)'
  <1>0. LifeTypeOK /\ ToOpen(d) /\ GivenBack(d) /\ NoZero(d) /\ Serves(d)
    BY DEF LifeInv, Walk, OnItsWay
  <1> USE DEF LifeTypeOK, Goto, Blame, other, OnItsWay, ToOpen, GivenBack, NoZero, Serves,
              Alive, Field, Listener, Wake
  <1>1. CASE \E c \in Config : Start(d, c)
    BY <1>0, <1>1 DEF Start
  <1>2. CASE NoMemory(d)
    BY <1>0, <1>2 DEF NoMemory
  <1>3. CASE MakeObjects(d)
    BY <1>0, <1>3 DEF MakeObjects
  <1>4. CASE TlsStep(d)
    BY <1>0, <1>4 DEF TlsStep, Open
  <1>5. CASE PlainStep(d)
    <2>1. CASE NoPlainListener(d)
      BY <1>0, <2>1 DEF NoPlainListener, Close
    <2>2. CASE ~NoPlainListener(d)
      BY <1>0, <1>5, <2>2 DEF PlainStep, Open
    <2>3. QED
      BY <2>1, <2>2
  <1>6. CASE WakeStep(d)
    BY <1>0, <1>6 DEF WakeStep, Open
  <1>7. CASE TaskStep(d)
    BY <1>0, <1>7 DEF TaskStep, Close
  <1>8. CASE PublishStep(d)
    BY <1>0, <1>8 DEF PublishStep
  <1>9. CASE Unpublish(d)
    BY <1>0, <1>9 DEF Unpublish
  <1>10. CASE StopTask(d)
    BY <1>0, <1>10 DEF StopTask, Close
  <1>11. CASE SeenGone(d) \/ GiveUp(d)
    BY <1>0, <1>11 DEF SeenGone, GiveUp, TearDown, Close
  <1>12. CASE Stop(d)
    BY <1>0, <1>12 DEF Stop
  <1>13. CASE Stall(d) \/ Resume(d) \/ Exit(d)
    BY <1>0, <1>13 DEF Stall, Resume, Exit
  <1>14. QED
    BY <1>1, <1>2, <1>3, <1>4, <1>5, <1>6, <1>7, <1>8, <1>9, <1>10, <1>11, <1>12, <1>13 DEF Call

LEMMA WalkStep ==
  ASSUME LifeInv, LifeNext
  PROVE  Walk'
  <1>1. PICK d \in Device :
          \/ \E c \in Config : Start(d, c)
          \/ NoMemory(d) \/ Call(d) \/ Stop(d) \/ Stall(d) \/ Resume(d) \/ Exit(d)
    BY DEF LifeNext
  <1>2. ASSUME NEW e \in Device
        PROVE  OnItsWay(e)'
    <2>1. LifeTypeOK /\ OnItsWay(e)
      BY DEF LifeInv, Walk
    <2>2. CASE e = d
      BY <1>1, <2>2, ActorOnItsWay
    <2>3. CASE e # d
      BY <1>1, <2>1, <2>3, OthersKept, OthersStay
    <2>4. QED
      BY <2>2, <2>3
  <1>3. QED
    BY <1>2 DEF Walk

(* The console outlives every start that reached the transport.            *)
LEMMA ConsoleStep ==
  ASSUME LifeInv, LifeNext
  PROVE  console' \/ "early" \in mishaps'
  <1>1. ASSUME NEW d \in Device, NEW F \in SUBSET Field, Close(d, F), console,
               step[d] # "objects", "early" \notin mishaps
        PROVE  console'
    BY <1>1 DEF LifeInv, Walk, OnItsWay, NoZero, Close
  <1>2. PICK d \in Device :
          \/ \E c \in Config : Start(d, c)
          \/ NoMemory(d) \/ Call(d) \/ Stop(d) \/ Stall(d) \/ Resume(d) \/ Exit(d)
    BY DEF LifeNext
  <1>3. \/ UNCHANGED console
        \/ step[d] # "objects" /\ \E F \in SUBSET Field : Close(d, F)
    <2> USE DEF other, Field, Listener
    <2>1. CASE \E c \in Config : Start(d, c)
      BY <2>1 DEF Start
    <2>2. CASE NoMemory(d) \/ MakeObjects(d) \/ TlsStep(d) \/ Stop(d) \/ WakeStep(d)
      BY <2>2 DEF NoMemory, MakeObjects, TlsStep, Stop, WakeStep
    <2>3. CASE PlainStep(d)
      BY <2>3 DEF PlainStep, NoPlainListener
    <2>4. CASE TaskStep(d) \/ PublishStep(d) \/ Unpublish(d)
      BY <2>4 DEF TaskStep, PublishStep, Unpublish
    <2>5. CASE StopTask(d) \/ SeenGone(d) \/ GiveUp(d)
      BY <2>5 DEF StopTask, SeenGone, GiveUp, TearDown
    <2>6. CASE Stall(d) \/ Resume(d) \/ Exit(d)
      BY <2>6 DEF Stall, Resume, Exit
    <2>7. QED
      BY <1>2, <2>1, <2>2, <2>3, <2>4, <2>5, <2>6 DEF Call
  <1>4. mishaps \subseteq mishaps'
    BY <1>2 DEF Start, NoMemory, Call, MakeObjects, TlsStep, PlainStep, NoPlainListener,
       WakeStep, TaskStep, PublishStep, Unpublish, StopTask, SeenGone, GiveUp, Stop, Stall,
       Resume, Exit, Blame, other
  <1>5. console \/ "early" \in mishaps
    BY DEF LifeInv
  <1>6. QED
    BY <1>1, <1>3, <1>4, <1>5

(* One device: what it takes back is what is there.                        *)
LEMMA TakenBack ==
  ASSUME LifeTypeOK, NEW d \in Device, Device = {d}, NEW gone \in SUBSET services,
         service_added = {s[2] : s \in services},
         \A type \in Service :
           LET there == {s \in services : s[2] = type}
           IN  Cardinality(gone \cap there) =
                 IF type \in service_added /\ there # {} THEN 1 ELSE 0
  PROVE  gone = services
  <1>1. \A s \in services : s = <<d, s[2]>> /\ s[2] \in Service
    BY DEF LifeTypeOK
  <1>2. ASSUME NEW s \in services
        PROVE  s \in gone
    <2> DEFINE there == {t \in services : t[2] = s[2]}
    <2>1. there = {s}
      BY <1>1, <1>2
    <2>2. s[2] \in service_added /\ s[2] \in Service
      BY <1>1, <1>2
    <2>3. Cardinality(gone \cap there) = 1
      BY <2>1, <2>2
    <2>4. gone \cap there # {}
      <3>1. Cardinality({}) = 0
        BY FS_EmptySet
      <3>2. QED
        BY <2>3, <3>1
    <2>5. QED
      BY <2>1, <2>4
  <1>3. QED
    BY <1>2

LEMMA FlaggedStep ==
  ASSUME LifeInv, LifeNext
  PROVE  Flagged'
  <1> SUFFICES ASSUME Cardinality(Device) = 1
               PROVE  Flagged'
    BY DEF Flagged
  <1>1. PICK d : Device = {d}
    BY FS_Singleton, LifecycleAssumption DEF LifecycleAssumption
  <1>2. d \in Device /\ LifeTypeOK
    BY <1>1 DEF LifeInv
  <1>3. /\ services = published
        /\ service_added = {s[2] : s \in services}
        /\ \A s \in services : /\ step[s[1]] \in {"publish_secure", "up", "unpublish"}
                               /\ cfg[s[1]].enable_mdns
    BY DEF LifeInv, Flagged
  <1>4. \A s \in services : s[1] = d
    BY <1>1, <1>2 DEF LifeTypeOK
  <1> USE DEF Flagged
  <1>5. ASSUME PublishStep(d)
        PROVE  Flagged'
    <2>1. step' = [step EXCEPT ![d] = IF step[d] = "publish" THEN "publish_secure" ELSE "up"]
          /\ UNCHANGED cfg
      BY <1>5 DEF PublishStep, Goto
    <2>2. CASE UNCHANGED <<services, published, service_added>>
      BY <1>2, <1>3, <1>4, <2>1, <2>2 DEF LifeTypeOK
    <2>3. ASSUME NEW type \in Service, Publish(d, type), cfg[d].enable_mdns
          PROVE  Flagged'
      <3>1. CASE UNCHANGED <<services, published, service_added>>
        BY <2>2, <3>1
      <3>2. CASE /\ services' = services \cup {<<d, type>>}
                 /\ published' = published \cup {<<d, type>>}
                 /\ service_added' = service_added \cup {type}
        <4>1. service_added' = {s[2] : s \in services'}
          <5>1. ASSUME NEW t \in service_added'
                PROVE  \E s \in services' : t = s[2]
            <6>1. CASE t = type
              <7>1. <<d, type>> \in services' /\ <<d, type>>[2] = type
                BY <3>2
              <7>2. QED
                BY <6>1, <7>1
            <6>2. CASE t # type
              BY <1>3, <3>2, <5>1, <6>2
            <6>3. QED
              BY <6>1, <6>2
          <5>2. ASSUME NEW s \in services'
                PROVE  s[2] \in service_added'
            BY <1>3, <3>2, <5>2
          <5>3. QED
            BY <5>1, <5>2
        <4>2. \A s \in services' : s[1] = d
          BY <1>4, <3>2
        <4>3. step'[d] \in {"publish_secure", "up", "unpublish"} /\ cfg'[d].enable_mdns
          BY <1>2, <2>1, <2>3 DEF LifeTypeOK
        <4>4. services' = published'
          BY <1>3, <3>2
        <4>5. QED
          BY <4>1, <4>2, <4>3, <4>4
      <3>3. QED
        BY <2>3, <3>1, <3>2 DEF Publish
    <2>4. QED
      BY <1>5, <2>2, <2>3 DEF PublishStep, Service
  <1>6. ASSUME Unpublish(d)
        PROVE  Flagged'
    <2>1. published' = {}
      BY <1>3, <1>4, <1>6 DEF Unpublish
    <2>2. CASE cfg[d].enable_mdns
      <3>1. services' = {} /\ service_added' = {}
        BY <1>1, <1>2, <1>3, <1>6, <2>2, TakenBack DEF Unpublish
      <3>2. QED
        BY <2>1, <3>1
    <2>3. CASE ~cfg[d].enable_mdns
      <3>1. services = {} /\ UNCHANGED <<services, service_added>>
        BY <1>3, <1>4, <1>6, <2>3 DEF Unpublish
      <3>2. QED
        BY <1>3, <2>1, <3>1
    <2>4. QED
      BY <2>2, <2>3
  <1>7. ASSUME UNCHANGED <<services, published, service_added>>, services = {}
        PROVE  Flagged'
    BY <1>3, <1>7
  <1>8. ASSUME UNCHANGED <<cfg, services, published, service_added>>,
               step'[d] = step[d] \/ step'[d] = "unpublish"
        PROVE  Flagged'
    BY <1>3, <1>4, <1>8
  <1>9. step[d] \notin {"publish_secure", "up", "unpublish"} => services = {}
    BY <1>3, <1>4
  <1>10. PICK e \in Device :
           \/ \E c \in Config : Start(e, c)
           \/ NoMemory(e) \/ Call(e) \/ Stop(e) \/ Stall(e) \/ Resume(e) \/ Exit(e)
    BY DEF LifeNext
  <1>11. e = d
    BY <1>1, <1>10
  <1>12. CASE \E c \in Config : Start(d, c)
    BY <1>7, <1>9, <1>12 DEF Start
  <1>13. CASE NoMemory(d) \/ MakeObjects(d) \/ TlsStep(d)
    BY <1>7, <1>9, <1>13 DEF NoMemory, MakeObjects, TlsStep, other
  <1>14. CASE PlainStep(d) \/ WakeStep(d) \/ TaskStep(d)
    BY <1>7, <1>9, <1>14 DEF PlainStep, NoPlainListener, WakeStep, TaskStep, other
  <1>15. CASE StopTask(d) \/ SeenGone(d) \/ GiveUp(d)
    BY <1>7, <1>9, <1>15 DEF StopTask, SeenGone, GiveUp, TearDown
  <1>16. CASE Stop(d)
    BY <1>2, <1>8, <1>16 DEF Stop, Goto, LifeTypeOK
  <1>17. CASE Stall(d) \/ Resume(d) \/ Exit(d)
    BY <1>8, <1>17 DEF Stall, Resume, Exit
  <1>18. QED
    BY <1>5, <1>6, <1>10, <1>11, <1>12, <1>13, <1>14, <1>15, <1>16, <1>17 DEF Call

LEMMA LifeInitInv == LifeInit => LifeInv
  <1> SUFFICES ASSUME LifeInit
               PROVE  LifeInv
    OBVIOUS
  <1>1. Out = {}
    BY DEF LifeInit, Out
  <1>2. Accounted
    <2>1. IsFiniteSet(Out) /\ Cardinality(Out) = 0
      BY <1>1, FS_EmptySet
    <2>2. QED
      BY <2>1, LifecycleAssumption DEF Accounted, LifeInit, LifecycleAssumption
  <1>3. cfg \in [Device -> Config]
    <2>1. [tls |-> FALSE, keys |-> FALSE, disable_plaintext |-> FALSE, enable_mdns |-> FALSE]
            \in {c \in Config : ~c.tls /\ ~c.disable_plaintext}
      BY DEF Config
    <2>2. (CHOOSE c \in Config : ~c.tls /\ ~c.disable_plaintext) \in Config
      BY <2>1
    <2>3. QED
      BY <2>2 DEF LifeInit
  <1>4. LifeTypeOK
    BY <1>3, LifecycleAssumption DEF LifeTypeOK, LifeInit, Step, LifecycleAssumption
  <1>5. Walk
    BY DEF Walk, OnItsWay, ToOpen, GivenBack, NoZero, Serves, LifeInit, Wake, Field, Listener
  <1>6. Flagged
    BY DEF Flagged, LifeInit
  <1>7. QED
    BY <1>2, <1>4, <1>5, <1>6 DEF LifeInv, LifeInit

LEMMA LifeStutter ==
  ASSUME LifeInv, UNCHANGED lifeVars
  PROVE  LifeInv'
  <1>1. Accounted' /\ Walk' /\ Flagged'
    BY DEF LifeInv, lifeVars, Accounted, Out, Walk, OnItsWay, ToOpen, GivenBack, NoZero,
       Serves, Alive, Flagged
  <1>2. QED
    BY <1>1 DEF LifeInv, LifeTypeOK, lifeVars

(* What a device holds is known at every step of its life.                 *)
THEOREM LifecycleInvariant == LifeSpec => []LifeInv
  <1>1. LifeInv /\ [LifeNext]_lifeVars => LifeInv'
    <2>1. ASSUME LifeInv, LifeNext
          PROVE  LifeInv'
      <3>1. LifeTypeOK'
        BY <2>1, AccountedStep, TypeStep DEF LifeInv
      <3>2. QED
        BY <2>1, <3>1, AccountedStep, WalkStep, FlaggedStep, ConsoleStep DEF LifeInv
    <2>2. QED
      BY <2>1, LifeStutter
  <1>2. QED
    BY <1>1, LifeInitInv, PTL DEF LifeSpec

(* Types of aes70_device_start and _stop: no device has more sockets than  *)
(* it has fields for, and the pool never runs below zero.                  *)
THEOREM LifecycleTypeCorrect == LifeSpec => []LifeTypeOK
  <1>1. LifeInv => LifeTypeOK
    BY DEF LifeInv
  <1>2. QED
    BY <1>1, LifecycleInvariant, PTL

(* aes70_device_start returned 0: the task runs and every transport asked  *)
(* for has its listener, whatever could not be had on the way.             *)
THEOREM StartedDeviceServes == LifeSpec => []UpServes
  <1>1. LifeInv => UpServes
    BY DEF LifeInv, Walk, OnItsWay, Serves, UpServes
  <1>2. QED
    BY <1>1, LifecycleInvariant, PTL

(* However many times devices are started and stopped, sockets are lost    *)
(* only where a task could not be created, and descriptor 0 only where the *)
(* start fails before the transport.                                       *)
THEOREM StopsGiveBack == LifeSpec => []SocketsAccountedFor
  <1>1. LifeInv => SocketsAccountedFor
    <2>1. ASSUME LifeInv, AtRest, "task" \notin mishaps
          PROVE  pool = MaxSockets
      <3>1. Out = {}
        BY <2>1 DEF LifeInv, Walk, OnItsWay, GivenBack, AtRest, Out
      <3>2. Cardinality(Out) = 0
        BY <3>1, FS_EmptySet
      <3>3. pool \in Nat /\ pool + Cardinality(Out) = MaxSockets
        BY <2>1, LifecycleAssumption DEF LifeInv, LifeTypeOK, Accounted, LifecycleAssumption
      <3>4. QED
        BY <3>2, <3>3
    <2>2. ASSUME LifeInv, pool < MaxSockets
          PROVE  pool # MaxSockets
      BY <2>2, LifecycleAssumption DEF LifeInv, LifeTypeOK, LifecycleAssumption
    <2>3. QED
      BY <2>1, <2>2 DEF LifeInv, SocketsAccountedFor
  <1>2. QED
    BY <1>1, LifecycleInvariant, PTL

(* The service flags of a program with one device are the truth about what *)
(* is advertised, through any number of starts and stops.                  *)
THEOREM AdvertisingFollowsDevice == LifeSpec => []AdvertisedWhileUp
  <1>1. LifeInv => AdvertisedWhileUp
    BY DEF LifeInv, Flagged, AdvertisedWhileUp
  <1>2. QED
    BY <1>1, LifecycleInvariant, PTL
=============================================================================
