--------------------------- MODULE SessionsProofs ---------------------------
(***************************************************************************)
(* Proofs about module Sessions, for every number of connection and        *)
(* subscription slots, of sessions, objects and events.                    *)
(***************************************************************************)
EXTENDS Sessions, TLAPS

USE SessionsAssumption DEF SessionsAssumption

(* The inductive invariant: the properties of Sessions, with the fact that *)
(* live slots hold distinct sessions numbered below nextSession.           *)
IInv ==
  /\ TypeOK
  /\ SlotsHoldSessions
  /\ SubsOfLiveSessions
  /\ LocksOfLiveSessions
  /\ SubsUnique
  /\ CallbacksPaired
  /\ PrivilegeOfSession

(* The inductive invariant holds at the start.                             *)
LEMMA InitInv == Init => IInv
  <1> SUFFICES ASSUME Init PROVE IInv
    OBVIOUS
  <1> USE DEF Init, Slot, SubSlot, Session, NoConn, NoSession, NoSub, LockModes
  <1>0. 0 \in Slot
    OBVIOUS
  <1>1. TypeOK
    <2>1. NoSub \in [in_use : BOOLEAN, conn : Slot, emitter : Object \cup {NoSession},
                     event : Event, sid : Session \cup {NoSession}]
      BY <1>0
    <2>2. opened \in [Session -> 0 .. 1] /\ closed \in [Session -> 0 .. 1]
      OBVIOUS
    <2>3. QED
      BY <2>1, <2>2 DEF TypeOK
  <1>2. SlotsHoldSessions /\ SubsOfLiveSessions /\ SubsUnique
    BY DEF SlotsHoldSessions, SubsOfLiveSessions, SubsUnique
  <1>3. LocksOfLiveSessions
    BY DEF LocksOfLiveSessions
  <1>4. CallbacksPaired /\ PrivilegeOfSession
    BY DEF CallbacksPaired, PrivilegeOfSession, Open
  <1>5. QED
    BY <1>1, <1>2, <1>3, <1>4 DEF IInv

(* A plain connection is one more live slot, announced.                    *)
LEMMA AcceptInv ==
  ASSUME IInv, NEW i \in Slot, Accept(i) PROVE IInv'
  <1> USE DEF IInv, Accept, connVars, lockVars
  <1>1. TypeOK'
    <2>1. PICK p \in BOOLEAN :
            /\ privileged' = [privileged EXCEPT ![i] = p]
            /\ granted' = IF p THEN granted \cup {nextSession} ELSE granted
      BY DEF Decision
    <2>2. nextSession \in Session /\ opened[nextSession] = 0
      BY DEF CallbacksPaired, TypeOK
    <2>3. opened' \in [Session -> 0 .. 1]
      BY <2>2 DEF TypeOK, Announce
    <2>4. granted' \subseteq Session
      BY <2>1, <2>2 DEF TypeOK
    <2>5. QED
      BY <2>1, <2>2, <2>3, <2>4 DEF TypeOK, Session
  <1>2. SlotsHoldSessions'
    BY DEF SlotsHoldSessions, TypeOK, FirstFree, Session, NoSession
  <1>3. SubsOfLiveSessions'
    BY DEF SubsOfLiveSessions, TypeOK, Open, FirstFree
  <1>4. LocksOfLiveSessions'
    BY DEF LocksOfLiveSessions, TypeOK, Open, FirstFree
  <1>5. SubsUnique'
    BY DEF SubsUnique
  <1>6. CallbacksPaired'
    BY DEF CallbacksPaired, TypeOK, Announce, SlotsHoldSessions, FirstFree, Session, NoSession
  <1>7. PrivilegeOfSession'
    BY DEF PrivilegeOfSession, TypeOK, Announce, SlotsHoldSessions, CallbacksPaired, Open, Session, NoSession, FirstFree, Decision
  <1>8. QED
    BY <1>1, <1>2, <1>3, <1>4, <1>5, <1>6, <1>7

(* A TLS connection is live but neither announced nor privileged yet.      *)
LEMMA AcceptTlsInv ==
  ASSUME IInv, NEW i \in Slot, AcceptTls(i) PROVE IInv'
  <1> USE DEF IInv, AcceptTls, connVars, lockVars
  <1>1. TypeOK'
    BY DEF TypeOK, Session
  <1>2. SlotsHoldSessions'
    BY DEF SlotsHoldSessions, TypeOK, FirstFree, Session, NoSession
  <1>3. SubsOfLiveSessions'
    BY DEF SubsOfLiveSessions, TypeOK, Open, FirstFree
  <1>4. LocksOfLiveSessions'
    BY DEF LocksOfLiveSessions, TypeOK, Open, FirstFree
  <1>5. SubsUnique'
    BY DEF SubsUnique
  <1>6. CallbacksPaired'
    BY DEF CallbacksPaired, TypeOK, SlotsHoldSessions, FirstFree, Session, NoSession
  <1>7. PrivilegeOfSession'
    BY DEF PrivilegeOfSession, TypeOK, SlotsHoldSessions, Open, Session, NoSession, FirstFree
  <1>8. QED
    BY <1>1, <1>2, <1>3, <1>4, <1>5, <1>6, <1>7

(* The end of the handshake announces it and decides its privilege.        *)
LEMMA HandshakeDoneInv ==
  ASSUME IInv, NEW i \in Slot, HandshakeDone(i) PROVE IInv'
  <1> USE DEF IInv, HandshakeDone, connVars, lockVars
  <1>0. PICK p \in BOOLEAN :
          /\ privileged' = [privileged EXCEPT ![i] = p]
          /\ granted' = IF p THEN granted \cup {sid[i]} ELSE granted
    BY DEF Decision
  <1>s. sid[i] \in Session /\ opened[sid[i]] = 0
    BY DEF SlotsHoldSessions, CallbacksPaired, TypeOK
  <1>1. TypeOK'
    <2>1. opened' \in [Session -> 0 .. 1]
      BY <1>s DEF TypeOK, Announce
    <2>2. granted' \subseteq Session
      BY <1>0, <1>s DEF TypeOK
    <2>3. QED
      BY <1>0, <2>1, <2>2 DEF TypeOK
  <1>2. SlotsHoldSessions'
    BY DEF SlotsHoldSessions
  <1>3. SubsOfLiveSessions'
    BY DEF SubsOfLiveSessions, TypeOK, Open
  <1>4. LocksOfLiveSessions'
    BY DEF LocksOfLiveSessions, TypeOK, Open
  <1>5. SubsUnique'
    BY DEF SubsUnique
  <1>6. CallbacksPaired'
    BY <1>s DEF CallbacksPaired, TypeOK, Announce, SlotsHoldSessions, Session, NoSession
  <1>7. PrivilegeOfSession'
    BY <1>0, <1>s DEF PrivilegeOfSession, TypeOK, Announce, SlotsHoldSessions, CallbacksPaired,
                Open, Session, NoSession
  <1>8. QED
    BY <1>1, <1>2, <1>3, <1>4, <1>5, <1>6, <1>7

(* Closing a slot takes its subscriptions and locks with it.               *)
LEMMA CloseConnInv ==
  ASSUME IInv, NEW i \in Slot, CloseConn(i) PROVE IInv'
  <1> USE DEF IInv, CloseConn, connVars, lockVars
  <1>s. sid[i] \in Session /\ closed[sid[i]] = 0 /\ NoSession \notin Session
    BY DEF SlotsHoldSessions, CallbacksPaired, TypeOK, Session, NoSession
  <1>1. TypeOK'
    <2>1. closed' \in [Session -> 0 .. 1]
      BY <1>s DEF TypeOK, Announce, AnnounceClosed
    <2>2. subs' \in [SubSlot -> [in_use : BOOLEAN, conn : Slot,
                           emitter : Object \cup {NoSession}, event : Event,
                           sid : Session \cup {NoSession}]]
      <3>1. 0 \in Slot
        BY DEF Slot
      <3>2. QED
        BY <3>1 DEF TypeOK, SubsWithout, NoSub
    <2>3. /\ lock_state' \in [Object -> LockModes \cup {"None"}]
          /\ lock_owner' \in [Object -> Slot \cup {NoConn}]
          /\ lock_sid' \in [Object -> Session \cup {NoSession}]
      BY DEF TypeOK, Unowned
    <2>4. QED
      BY <2>1, <2>2, <2>3 DEF TypeOK
  <1>2. SlotsHoldSessions'
    BY DEF SlotsHoldSessions, TypeOK, Session, NoSession
  <1>3. SubsOfLiveSessions'
    BY DEF SubsOfLiveSessions, TypeOK, Open, SubsWithout, NoSub
  <1>4. LocksOfLiveSessions'
    BY DEF LocksOfLiveSessions, TypeOK, Open, Unowned, Slot, NoConn, LockModes
  <1>5. SubsUnique'
    BY DEF SubsUnique, SubsWithout, NoSub
  <1>6. CallbacksPaired'
    BY <1>s DEF CallbacksPaired, TypeOK, Announce, AnnounceClosed, SlotsHoldSessions
  <1>7. PrivilegeOfSession'
    BY <1>s DEF PrivilegeOfSession, TypeOK, Open, SlotsHoldSessions
  <1>8. QED
    BY <1>1, <1>2, <1>3, <1>4, <1>5, <1>6, <1>7

(* A step that leaves the connections and the logs alone keeps everything  *)
(* but what it does to subscriptions and locks.                            *)
LEMMA ConnsUntouched ==
  ASSUME IInv, UNCHANGED <<connVars, logVars>>
  PROVE  SlotsHoldSessions' /\ CallbacksPaired' /\ PrivilegeOfSession'
  BY DEF IInv, connVars, logVars, SlotsHoldSessions, CallbacksPaired, PrivilegeOfSession, Open

(* A subscription is entered for a live session, once.                     *)
LEMMA AddSubscriptionInv ==
  ASSUME IInv, NEW i \in Slot, NEW o \in Object, NEW ev \in Event, AddSubscription(i, o, ev)
  PROVE  IInv'
  <1> USE DEF IInv, AddSubscription, connVars, lockVars, logVars
  <1>0. PICK k \in SubSlot :
          subs' = [subs EXCEPT ![k] = [in_use |-> TRUE, conn |-> i, emitter |-> o,
                                       event |-> ev, sid |-> sid[i]]]
    OBVIOUS
  <1>1. TypeOK'
    BY <1>0 DEF TypeOK
  <1>2. SubsOfLiveSessions'
    BY <1>0 DEF SubsOfLiveSessions, TypeOK, Open, Serving
  <1>3. LocksOfLiveSessions'
    BY DEF LocksOfLiveSessions, Open
  <1>4. SubsUnique'
    BY <1>0 DEF SubsUnique, SameSub, TypeOK
  <1>5. QED
    BY <1>1, <1>2, <1>3, <1>4, ConnsUntouched

(* Removing one leaves the others as they are.                             *)
LEMMA RemoveSubscriptionInv ==
  ASSUME IInv, NEW i \in Slot, NEW o \in Object, NEW ev \in Event, RemoveSubscription(i, o, ev)
  PROVE  IInv'
  <1> USE DEF IInv, RemoveSubscription, connVars, lockVars, logVars
  <1>1. TypeOK'
    <2>1. 0 \in Slot
      BY DEF Slot
    <2>2. subs' \in [SubSlot -> [in_use : BOOLEAN, conn : Slot,
                           emitter : Object \cup {NoSession}, event : Event,
                           sid : Session \cup {NoSession}]]
      BY <2>1 DEF TypeOK, NoSub
    <2>3. QED
      BY <2>2 DEF TypeOK
  <1>2. SubsOfLiveSessions'
    BY DEF SubsOfLiveSessions, TypeOK, Open, NoSub
  <1>3. LocksOfLiveSessions'
    BY DEF LocksOfLiveSessions, Open
  <1>4. SubsUnique'
    BY DEF SubsUnique, NoSub
  <1>5. QED
    BY <1>1, <1>2, <1>3, <1>4, ConnsUntouched

(* A lock is taken or released by a live session.                          *)
LEMMA LockInv ==
  ASSUME IInv, NEW i \in Slot, NEW o \in Object,
         UnlockObject(i, o) \/ \E m \in LockModes : LockObject(i, o, m)
  PROVE  IInv'
  <1> USE DEF IInv, connVars, lockVars, logVars
  <1>1. CASE UnlockObject(i, o)
    <2> USE <1>1 DEF UnlockObject
    <2>1. TypeOK'
      BY DEF TypeOK
    <2>2. SubsOfLiveSessions' /\ SubsUnique'
      BY DEF SubsOfLiveSessions, SubsUnique, Open
    <2>3. LocksOfLiveSessions'
      BY DEF LocksOfLiveSessions, TypeOK, Open
    <2>4. QED
      BY <2>1, <2>2, <2>3, ConnsUntouched
  <1>2. CASE \E m \in LockModes : LockObject(i, o, m)
    <2>0. PICK m \in LockModes : LockObject(i, o, m)
      BY <1>2
    <2> USE <2>0 DEF LockObject
    <2>1. TypeOK'
      BY DEF TypeOK
    <2>2. SubsOfLiveSessions' /\ SubsUnique'
      BY DEF SubsOfLiveSessions, SubsUnique, Open
    <2>3. LocksOfLiveSessions'
      BY DEF LocksOfLiveSessions, TypeOK, Open, Serving, LockModes
    <2>4. QED
      BY <2>1, <2>2, <2>3, ConnsUntouched
  <1>3. QED
    BY <1>1, <1>2

(* Value changes, the mute flag, the secured flag, the stop request and    *)
(* stuttering touch neither subscriptions nor locks.                       *)
LEMMA TablesUntouched ==
  ASSUME IInv, UNCHANGED <<connVars, subs, lockVars, logVars>>,
         running' \in BOOLEAN, notifications_disabled' \in BOOLEAN,
         secured' \in [Object -> BOOLEAN]
  PROVE  IInv'
  <1> USE DEF IInv, connVars, lockVars, logVars
  <1>1. TypeOK'
    BY DEF TypeOK
  <1>2. SubsOfLiveSessions' /\ SubsUnique' /\ LocksOfLiveSessions'
    BY DEF SubsOfLiveSessions, SubsUnique, LocksOfLiveSessions, Open
  <1>3. QED
    BY <1>1, <1>2, ConnsUntouched

(* Every step keeps the inductive invariant.                               *)
LEMMA NextInv == IInv /\ [Next]_vars => IInv'
  <1> SUFFICES ASSUME IInv, [Next]_vars PROVE IInv'
    OBVIOUS
  <1>1. ASSUME NEW i \in Slot, Accept(i) \/ AcceptTls(i) \/ HandshakeDone(i) \/ CloseConn(i)
        PROVE  IInv'
    BY <1>1, AcceptInv, AcceptTlsInv, HandshakeDoneInv, CloseConnInv
  <1>2. ASSUME NEW i \in Slot, NEW b \in BOOLEAN, SetNotificationsDisabled(i, b)
        PROVE  IInv'
    BY <1>2, TablesUntouched DEF SetNotificationsDisabled, IInv, TypeOK
  <1>3. ASSUME NEW i \in Slot, NEW o \in Object, NEW ev \in Event,
               AddSubscription(i, o, ev) \/ RemoveSubscription(i, o, ev)
        PROVE  IInv'
    BY <1>3, AddSubscriptionInv, RemoveSubscriptionInv
  <1>4. ASSUME NEW i \in Slot, NEW o \in Object,
               UnlockObject(i, o) \/ \E m \in LockModes : LockObject(i, o, m)
        PROVE  IInv'
    BY <1>4, LockInv
  <1>5. ASSUME NEW o \in Object, (\E i \in Slot : SetValue(i, o)) \/ ApplySet(o)
        PROVE  IInv'
    BY <1>5, TablesUntouched DEF SetValue, ApplySet, CommitValue, IInv, TypeOK
  <1>6. ASSUME NEW o \in Object, NEW b \in BOOLEAN, SetSecured(o, b)
        PROVE  IInv'
    BY <1>6, TablesUntouched DEF SetSecured, IInv, TypeOK
  <1>7. CASE Stop
    BY <1>7, TablesUntouched DEF Stop, IInv, TypeOK
  <1>8. CASE UNCHANGED vars
    BY <1>8, TablesUntouched DEF vars, IInv, TypeOK
  <1>9. QED
    BY <1>1, <1>2, <1>3, <1>4, <1>5, <1>6, <1>7, <1>8 DEF Next

(* The strengthened invariant holds in every reachable state.              *)
THEOREM SessionsInvariant == Spec => []IInv
  BY InitInv, NextInv, PTL DEF Spec

(* Type correctness of the three tables and of the callback logs.          *)
THEOREM TypeCorrect == Spec => []TypeOK
  BY SessionsInvariant, PTL DEF IInv

(* No subscription and no OcaLock outlives the session that made it,       *)
(* whatever the reuse of connection slots (close_conn,                     *)
(* aes70_subscriptions_drop_conn, aes70_locks_drop_conn).                  *)
THEOREM RecordsEndWithSession == Spec => []NothingOutlivesItsSession
<1>1. IInv => NothingOutlivesItsSession
  BY DEF IInv, NothingOutlivesItsSession
<1> QED
  BY <1>1, SessionsInvariant, PTL

(* A session holds at most one subscription per object and event.          *)
THEOREM SubscriptionsUnique == Spec => []SubsUnique
  BY SessionsInvariant, PTL DEF IInv

(* CONN_OPENED and CONN_CLOSED come in pairs, one pair per session that    *)
(* got past its handshake.                                                 *)
THEOREM CallbacksMatch == Spec => []CallbacksPaired
  BY SessionsInvariant, PTL DEF IInv

(* A slot's privilege is the authorisation of the session in it.           *)
THEOREM PrivilegeMatches == Spec => []PrivilegeOfSession
  BY SessionsInvariant, PTL DEF IInv

-----------------------------------------------------------------------------
(* Sessions implements SessionService: initial states map to initial       *)
(* states, every step to a step of the service or to a stutter.            *)

(* The device starts as the abstract service does.                         *)
LEMMA ServiceInitial == Init => Service!ServiceInit
  <1> SUFFICES ASSUME Init PROVE Service!ServiceInit
    OBVIOUS
  <1>1. LiveSessions = {}
    BY DEF LiveSessions, Open, Init
  <1>2. EndedSessions = {}
    BY DEF EndedSessions, Init
  <1>3. Wanted = {}
    BY DEF Wanted, Init, NoSub
  <1>4. QED
    BY <1>1, <1>2, <1>3 DEF Service!ServiceInit, Service!NoEffect, Init, NoEffect

(* The view of the tables the service has depends on these variables only. *)
LEMMA ViewUnchanged ==
  ASSUME UNCHANGED <<connVars, subs, closed>>
  PROVE  UNCHANGED <<LiveSessions, EndedSessions, Wanted>>
  BY DEF connVars, LiveSessions, EndedSessions, Wanted, Open

(* A session that becomes live is one the service opens.                   *)
LEMMA OpenMaps ==
  ASSUME IInv, NEW i \in Slot, Accept(i) \/ HandshakeDone(i)
  PROVE  \E s \in Session : Service!Open(s)
  <1> DEFINE s == IF in_use[i] THEN sid[i] ELSE nextSession
  <1>1. /\ s \in Session
        /\ in_use' = [in_use EXCEPT ![i] = TRUE]
        /\ sid' = [sid EXCEPT ![i] = s]
        /\ handshaking' = [handshaking EXCEPT ![i] = FALSE]
        /\ granted' \in {granted, granted \cup {s}}
        /\ ~Open(i)
    <2>1. CASE Accept(i)
      <3>1. ~in_use[i] /\ s = nextSession
        BY <2>1 DEF Accept, FirstFree
      <3>2. QED
        BY <2>1, <3>1 DEF Accept, Open
    <2>2. CASE HandshakeDone(i)
      <3>1. in_use[i] /\ handshaking[i] /\ s = sid[i] /\ s \in Session
        BY <2>2 DEF HandshakeDone, IInv, SlotsHoldSessions
      <3>2. in_use' = [in_use EXCEPT ![i] = TRUE] /\ sid' = [sid EXCEPT ![i] = s]
        BY <2>2, <3>1 DEF HandshakeDone, IInv, TypeOK
      <3>3. QED
        BY <2>2, <3>1, <3>2 DEF HandshakeDone, Open
    <2>3. QED
      BY <2>1, <2>2
  <1>2. s \notin LiveSessions
    <2>1. ASSUME NEW j \in Slot, Open(j) PROVE sid[j] # s
      BY <1>1, <2>1 DEF Accept, HandshakeDone, IInv, TypeOK, SlotsHoldSessions, Open, Session
    <2>2. QED
      BY <2>1 DEF LiveSessions
  <1>3. s \notin EndedSessions
    <2>1. closed[s] = 0
      BY <1>1 DEF IInv, TypeOK, CallbacksPaired
    <2>2. QED
      BY <2>1 DEF EndedSessions
  <1>4. LiveSessions' = LiveSessions \cup {s}
    BY <1>1 DEF IInv, TypeOK, LiveSessions, Open, Session
  <1>5. UNCHANGED <<EndedSessions, Wanted>>
    BY DEF Accept, HandshakeDone, EndedSessions, Wanted
  <1>6. Service!Open(s)
    BY <1>1, <1>2, <1>3, <1>4, <1>5
       DEF Service!Open, Accept, HandshakeDone, lockVars, NoEffect, Service!NoEffect
  <1>7. QED
    BY <1>1, <1>6

(* Closing a slot ends exactly the session it held.                        *)
LEMMA CloseMaps ==
  ASSUME IInv, NEW i \in Slot, CloseConn(i), ~handshaking[i]
  PROVE  \E s \in Session : Service!Close(s)
  <1> USE DEF CloseConn, IInv
  <1>1. sid[i] \in LiveSessions /\ sid[i] \in Session
    BY DEF SlotsHoldSessions, LiveSessions, Open
  <1>2. LiveSessions' = LiveSessions \ {sid[i]}
    BY DEF LiveSessions, Open, SlotsHoldSessions, TypeOK, Session, NoSession
  <1>3. EndedSessions' = EndedSessions \cup {sid[i]}
    BY <1>1 DEF EndedSessions, AnnounceClosed, Announce, CallbacksPaired, TypeOK
  <1>4. Wanted' = {w \in Wanted : w[1] # sid[i]}
    <2>1. ASSUME NEW k \in SubSlot
          PROVE  /\ subs'[k].in_use <=> subs[k].in_use /\ subs[k].sid # sid[i]
                 /\ subs'[k].in_use => subs'[k] = subs[k]
      BY DEF SubsWithout, NoSub, SubsOfLiveSessions, SlotsHoldSessions, TypeOK, Open
    <2>2. QED
      BY <2>1 DEF Wanted
  <1>5. ASSUME NEW o \in Object
        PROVE  lock_owner[o] = i <=> lock_sid[o] = sid[i]
    BY <1>1 DEF LocksOfLiveSessions, SlotsHoldSessions, Open, TypeOK, Slot, NoConn, Session, NoSession
  <1>6. /\ lock_sid' = [o \in Object |-> IF lock_sid[o] = sid[i] THEN NoSession ELSE lock_sid[o]]
        /\ lock_state' = [o \in Object |-> IF lock_sid[o] = sid[i] THEN "None" ELSE lock_state[o]]
    BY <1>5 DEF Unowned
  <1>7. Service!Close(sid[i])
    BY <1>1, <1>2, <1>3, <1>4, <1>6 DEF Service!Close, NoEffect, Service!NoEffect
  <1>8. QED
    BY <1>1, <1>7

(* A connection dropped while handshaking, and one that starts to, leave   *)
(* the service as it is.                                                   *)
LEMMA HandshakeMaps ==
  ASSUME IInv, NEW i \in Slot, AcceptTls(i) \/ (CloseConn(i) /\ handshaking[i])
  PROVE  UNCHANGED Service!serviceVars
  <1>1. CASE AcceptTls(i)
    <2>1. LiveSessions' = LiveSessions
      BY <1>1 DEF AcceptTls, LiveSessions, Open, FirstFree, IInv, TypeOK
    <2>2. QED
      BY <1>1, <2>1 DEF AcceptTls, EndedSessions, Wanted, lockVars, Service!serviceVars
  <1>2. CASE CloseConn(i) /\ handshaking[i]
    <2> USE <1>2 DEF CloseConn, IInv
    <2>1. LiveSessions' = LiveSessions
      BY DEF LiveSessions, Open, TypeOK
    <2>2. subs' = subs
      BY DEF SubsWithout, SubsOfLiveSessions, Open, TypeOK
    <2>3. \A o \in Object : lock_owner[o] # i
      BY DEF LocksOfLiveSessions, Open, Slot, NoConn
    <2>4. lock_sid' = lock_sid /\ lock_state' = lock_state
      BY <2>3 DEF Unowned, TypeOK
    <2>5. QED
      BY <2>1, <2>2, <2>4 DEF AnnounceClosed, EndedSessions, Wanted, Service!serviceVars
  <1>3. QED
    BY <1>1, <1>2

(* A slot that is served holds a live session.                             *)
LEMMA ServingIsLive ==
  ASSUME IInv, NEW i \in Slot, Serving(i)
  PROVE  sid[i] \in Session /\ sid[i] \in LiveSessions
  BY DEF Serving, IInv, SlotsHoldSessions, LiveSessions, Open

(* AddSubscription is Subscribe, whatever the table looks like.            *)
LEMMA SubscribeMaps ==
  ASSUME IInv, NEW i \in Slot, NEW o \in Object, NEW ev \in Event, AddSubscription(i, o, ev)
  PROVE  Service!Subscribe(sid[i], o, ev)
  <1>1. PICK k \in SubSlot :
          /\ ~subs[k].in_use
          /\ subs' = [subs EXCEPT ![k] = [in_use |-> TRUE, conn |-> i, emitter |-> o,
                                          event |-> ev, sid |-> sid[i]]]
    BY DEF AddSubscription
  <1>2. Wanted' = Wanted \cup {<<sid[i], o, ev>>}
    BY <1>1 DEF Wanted, IInv, TypeOK
  <1>3. UNCHANGED <<LiveSessions, EndedSessions>>
    BY DEF AddSubscription, connVars, logVars, LiveSessions, EndedSessions, Open
  <1>4. sid[i] \in LiveSessions
    BY ServingIsLive DEF AddSubscription
  <1>5. QED
    BY <1>2, <1>3, <1>4 DEF Service!Subscribe, AddSubscription, logVars, lockVars, Done, Service!Done

(* RemoveSubscription is Unsubscribe.                                      *)
LEMMA UnsubscribeMaps ==
  ASSUME IInv, NEW i \in Slot, NEW o \in Object, NEW ev \in Event, RemoveSubscription(i, o, ev)
  PROVE  Service!Unsubscribe(sid[i], o, ev)
  <1> USE DEF RemoveSubscription
  <1>1. sid[i] \in LiveSessions
    BY ServingIsLive
  <1>2. UNCHANGED <<LiveSessions, EndedSessions>>
    BY DEF connVars, logVars, LiveSessions, EndedSessions, Open
  <1>3. ASSUME NEW k \in SubSlot
        PROVE  /\ subs'[k].in_use <=> /\ subs[k].in_use
                                     /\ <<subs[k].sid, subs[k].emitter, subs[k].event>>
                                          # <<sid[i], o, ev>>
               /\ subs'[k].in_use => subs'[k] = subs[k]
    BY DEF SameSub, NoSub, IInv, TypeOK, SubsOfLiveSessions, SlotsHoldSessions, Serving, Open
  <1>4. Wanted' = Wanted \ {<<sid[i], o, ev>>}
    BY <1>3 DEF Wanted
  <1>5. QED
    BY <1>1, <1>2, <1>4 DEF Service!Unsubscribe, logVars, lockVars, Done, Service!Done

(* The access check on the slot is the access check on its session.        *)
LEMMA AccessMaps ==
  ASSUME IInv, NEW i \in Slot, NEW o \in Object, Serving(i), WriteAllowed(i, o)
  PROVE  Service!MayWrite(sid[i], o)
  BY DEF IInv, Serving, WriteAllowed, Service!MayWrite, PrivilegeOfSession, LocksOfLiveSessions,
         Open, TypeOK, LockModes

(* The slots a change is sent to hold exactly the sessions that want it.   *)
LEMMA AudienceMaps ==
  ASSUME IInv, NEW o \in Object
  PROVE  {sid[subs[k].conn] : k \in Notified(o)} = Service!Audience(o)
  <1>1. ASSUME NEW k \in SubSlot, subs[k].in_use
        PROVE  /\ in_use[subs[k].conn]
               /\ sid[subs[k].conn] = subs[k].sid
               /\ subs[k].sid \in Session
    BY <1>1 DEF IInv, TypeOK, SubsOfLiveSessions, SlotsHoldSessions, Open
  <1>2. QED
    BY <1>1 DEF Notified, Service!Audience, Wanted, IInv, TypeOK

(* A commit notifies the audience the service promises.                    *)
LEMMA CommitMaps ==
  ASSUME IInv, NEW o \in Object, NEW s, CommitValue(o, s)
  PROVE  Service!Change(o, s)
  BY AudienceMaps, ViewUnchanged DEF CommitValue, Service!Change, connVars, lockVars, logVars

(* Every step of the module is a step of the abstract one or a stutter.    *)
LEMMA StepMaps == IInv /\ [Next]_vars => [Service!ServiceNext]_Service!serviceVars
  <1> SUFFICES ASSUME IInv, [Next]_vars
               PROVE  Service!ServiceNext \/ UNCHANGED Service!serviceVars
    OBVIOUS
  <1> USE DEF Service!ServiceNext
  <1>1. ASSUME NEW i \in Slot, Accept(i) \/ HandshakeDone(i) PROVE Service!ServiceNext
    BY <1>1, OpenMaps
  <1>2. ASSUME NEW i \in Slot, AcceptTls(i) PROVE UNCHANGED Service!serviceVars
    BY <1>2, HandshakeMaps
  <1>3. ASSUME NEW i \in Slot, CloseConn(i)
        PROVE  Service!ServiceNext \/ UNCHANGED Service!serviceVars
    BY <1>3, HandshakeMaps, CloseMaps
  <1>4. ASSUME NEW i \in Slot, NEW b \in BOOLEAN, SetNotificationsDisabled(i, b)
        PROVE  Service!ServiceNext
    <2>1. Service!Mute(sid[i], b)
      BY <1>4, ServingIsLive, ViewUnchanged
         DEF SetNotificationsDisabled, Service!Mute, lockVars, logVars, Done, Service!Done
    <2>2. QED
      BY <1>4, <2>1, ServingIsLive DEF SetNotificationsDisabled
  <1>5. ASSUME NEW i \in Slot, NEW o \in Object, NEW ev \in Event,
               AddSubscription(i, o, ev) \/ RemoveSubscription(i, o, ev)
        PROVE  Service!ServiceNext
    BY <1>5, SubscribeMaps, UnsubscribeMaps, ServingIsLive DEF AddSubscription, RemoveSubscription
  <1>6. ASSUME NEW i \in Slot, NEW o \in Object, NEW m \in LockModes, LockObject(i, o, m)
        PROVE  Service!ServiceNext
    <2>1. Service!Lock(sid[i], o, m)
      BY <1>6, ServingIsLive, AccessMaps, ViewUnchanged
         DEF LockObject, Service!Lock, logVars, Done, Service!Done
    <2>2. m \in Service!LockModes
      BY DEF LockModes, Service!LockModes
    <2>3. QED
      BY <1>6, <2>1, <2>2, ServingIsLive DEF LockObject
  <1>7. ASSUME NEW i \in Slot, NEW o \in Object, UnlockObject(i, o)
        PROVE  Service!ServiceNext
    <2>1. Service!Unlock(sid[i], o)
      BY <1>7, ServingIsLive, AccessMaps, ViewUnchanged
         DEF UnlockObject, Service!Unlock, logVars, Done, Service!Done
    <2>2. QED
      BY <1>7, <2>1, ServingIsLive DEF UnlockObject
  <1>8. ASSUME NEW i \in Slot, NEW o \in Object, SetValue(i, o)
        PROVE  Service!ServiceNext
    <2>1. Service!Write(sid[i], o)
      BY <1>8, ServingIsLive, AccessMaps, CommitMaps DEF SetValue, Service!Write
    <2>2. QED
      BY <1>8, <2>1, ServingIsLive DEF SetValue
  <1>9. ASSUME NEW o \in Object, ApplySet(o) PROVE Service!ServiceNext
    BY <1>9, CommitMaps DEF ApplySet, Service!ApplicationWrite
  <1>10. ASSUME NEW o \in Object, NEW b \in BOOLEAN, SetSecured(o, b) PROVE Service!ServiceNext
    <2>1. Service!Guard(o, b)
      BY <1>10, ViewUnchanged DEF SetSecured, Service!Guard, lockVars, logVars, NoEffect, Service!NoEffect
    <2>2. QED
      BY <2>1
  <1>11. CASE Stop \/ UNCHANGED vars
    BY <1>11, ViewUnchanged DEF Stop, vars, lockVars, logVars, Service!serviceVars
  <1>12. QED
    BY <1>1, <1>2, <1>3, <1>4, <1>5, <1>6, <1>7, <1>8, <1>9, <1>10, <1>11 DEF Next

(* Every behaviour of the slot-indexed tables is one of the session        *)
(* service: the detailed specification implements the abstract one.        *)
THEOREM ServiceImplemented == Spec => ImplementsService
  BY InitInv, NextInv, ServiceInitial, StepMaps, PTL DEF Spec, ImplementsService, Service!ServiceSpec
=============================================================================
