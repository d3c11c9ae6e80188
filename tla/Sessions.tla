------------------------------ MODULE Sessions ------------------------------
(***************************************************************************)
(* The connection table, the subscription table and the OcaLock fields of  *)
(* the object tree, as the server task keeps them (aes70_transport.c,      *)
(* aes70_subscription.c, aes70_object.c, aes70_classes.c).                 *)
(*                                                                         *)
(* Subscriptions, locks and privileges are keyed on the index of a slot    *)
(* of dev->conns, and accept_conn reuses the lowest free slot.  Ghost      *)
(* variables number the sessions, so that "the session that subscribed"    *)
(* can be told from "the session now in that slot".                        *)
(*                                                                         *)
(* Each action is one handler run to its end by the server task: these     *)
(* tables are touched by no other task (the secured flag is, and is a      *)
(* single bool).  MaxSessions bounds the ghost numbering, nothing else.    *)
(***************************************************************************)
EXTENDS Integers

CONSTANTS
  MaxConns,         \* CONFIG_AES70_MAX_CONNECTIONS
  MaxSubs,          \* CONFIG_AES70_MAX_SUBSCRIPTIONS
  MaxSessions,      \* bound on the connections accepted in one behaviour
  Object,           \* control objects of the tree
  Event,            \* event identifiers a controller may name
  PropertyChanged,  \* (1,1), the event aes70_notify_property_changed raises
  HasAuthorize,     \* dev->cfg.authorize is set
  ClientCA          \* dev->cfg.tls.client_ca_pem is set

ASSUME SessionsAssumption ==
  /\ MaxConns \in Nat \ {0}
  /\ MaxSubs \in Nat \ {0}
  /\ MaxSessions \in Nat
  /\ PropertyChanged \in Event
  /\ HasAuthorize \in BOOLEAN
  /\ ClientCA \in BOOLEAN

Slot    == 0 .. MaxConns - 1
SubSlot == 1 .. MaxSubs
Session == 1 .. MaxSessions

NoConn    == -1
NoSession == 0

LockModes == {"NoWrite", "NoReadWrite"}

VARIABLES
  running,                 \* dev->running
  in_use, handshaking,     \* fields of dev->conns[i]
  privileged,
  subs,                    \* dev->subs[k]
  notifications_disabled,  \* dev->notifications_disabled
  lock_state, lock_owner,  \* fields of each object
  secured,
  \* ghosts
  nextSession,             \* number the next accepted connection gets
  sid,                     \* the session now in a slot
  lock_sid,                \* the session that set an object's lock
  granted,                 \* sessions the authorisation step approved
  opened, closed,          \* CONN_OPENED / CONN_CLOSED callbacks per session
  effect                   \* object last written, whose command, who was notified

connVars == <<in_use, handshaking, privileged, sid>>
lockVars == <<lock_state, lock_owner, lock_sid>>
logVars  == <<nextSession, granted, opened, closed>>
vars == <<running, connVars, subs, notifications_disabled, lockVars, secured,
          logVars, effect>>

(* An entry not in use; what else it held is never read again.             *)
NoSub    == [in_use |-> FALSE, conn |-> 0, emitter |-> NoSession,
             event |-> PropertyChanged, sid |-> NoSession]
NoEffect == [obj |-> NoSession, by |-> NoSession, to |-> {}]
Done(s)  == [obj |-> NoSession, by |-> s, to |-> {}]   \* a command of s, no value changed

Init ==
  /\ running = TRUE
  /\ in_use = [i \in Slot |-> FALSE]
  /\ handshaking = [i \in Slot |-> FALSE]
  /\ privileged = [i \in Slot |-> FALSE]
  /\ subs = [k \in SubSlot |-> NoSub]
  /\ notifications_disabled = FALSE
  /\ lock_state = [o \in Object |-> "None"]
  /\ lock_owner = [o \in Object |-> NoConn]
  /\ secured = [o \in Object |-> FALSE]
  /\ nextSession = 1
  /\ sid = [i \in Slot |-> NoSession]
  /\ lock_sid = [o \in Object |-> NoSession]
  /\ granted = {}
  /\ opened = [s \in Session |-> 0]
  /\ closed = [s \in Session |-> 0]
  /\ effect = NoEffect

-----------------------------------------------------------------------------
(* Connections.                                                            *)

(* accept_conn and accept_tls_conn take the lowest free slot; with none    *)
(* free they close the new socket and change nothing.                      *)
FirstFree(i) == ~in_use[i] /\ \A j \in Slot : j < i => in_use[j]

(* Privilege of a session: the authorize callback's answer, or the default *)
(* policy without one.                                                     *)
Decision(default) == IF HasAuthorize THEN BOOLEAN ELSE {default}

Announce(log, s) == [log EXCEPT ![s] = @ + 1]

Accept(i) ==
  /\ running /\ nextSession \in Session /\ FirstFree(i)
  /\ in_use' = [in_use EXCEPT ![i] = TRUE]
  /\ sid' = [sid EXCEPT ![i] = nextSession]
  /\ nextSession' = nextSession + 1
  /\ handshaking' = [handshaking EXCEPT ![i] = FALSE]
  /\ \E p \in Decision(FALSE) :
       /\ privileged' = [privileged EXCEPT ![i] = p]
       /\ granted' = IF p THEN granted \cup {nextSession} ELSE granted
  /\ opened' = Announce(opened, nextSession)
  /\ effect' = NoEffect
  /\ UNCHANGED <<running, subs, notifications_disabled, lockVars, secured, closed>>

(* Mutants (operators whose name ends in Bug, here and in the other         *)
(* modules) are plausible errors of the definition they precede; no         *)
(* specification uses them.                                                 *)

(* Bug: a configured client CA is taken for an authenticated client before  *)
(* the handshake has verified one.                                          *)
AcceptTlsTrustsBug(i) ==
  /\ running /\ nextSession \in Session /\ FirstFree(i)
  /\ in_use' = [in_use EXCEPT ![i] = TRUE]
  /\ sid' = [sid EXCEPT ![i] = nextSession]
  /\ nextSession' = nextSession + 1
  /\ handshaking' = [handshaking EXCEPT ![i] = TRUE]
  /\ privileged' = [privileged EXCEPT ![i] = ClientCA]
  /\ UNCHANGED <<running, subs, notifications_disabled, lockVars, secured,
                 granted, opened, closed, effect>>

AcceptTls(i) ==
  /\ running /\ nextSession \in Session /\ FirstFree(i)
  /\ in_use' = [in_use EXCEPT ![i] = TRUE]
  /\ sid' = [sid EXCEPT ![i] = nextSession]
  /\ nextSession' = nextSession + 1
  /\ handshaking' = [handshaking EXCEPT ![i] = TRUE]
  /\ privileged' = [privileged EXCEPT ![i] = FALSE]
  /\ UNCHANGED <<running, subs, notifications_disabled, lockVars, secured,
                 granted, opened, closed, effect>>

HandshakeDone(i) ==
  /\ running /\ in_use[i] /\ handshaking[i]
  /\ handshaking' = [handshaking EXCEPT ![i] = FALSE]
  /\ \E p \in Decision(ClientCA) :
       /\ privileged' = [privileged EXCEPT ![i] = p]
       /\ granted' = IF p THEN granted \cup {sid[i]} ELSE granted
  /\ opened' = Announce(opened, sid[i])
  /\ effect' = NoEffect
  /\ UNCHANGED <<running, in_use, sid, subs, notifications_disabled, lockVars,
                 secured, nextSession, closed>>

(* Bug: the subscriptions of a closed connection stay in the table.         *)
SubsKeptBug(i) == subs

(* Bug: the locks of a closed connection stay in place.                     *)
LocksKeptBug(i, f, none) == f

(* aes70_subscriptions_drop_conn and aes70_locks_drop_conn.                *)
SubsWithout(i) ==
  [k \in SubSlot |-> IF subs[k].in_use /\ subs[k].conn = i
                     THEN NoSub ELSE subs[k]]

Unowned(i, f, none) == [o \in Object |-> IF lock_owner[o] = i THEN none ELSE f[o]]

(* CONN_CLOSED is suppressed for a connection still handshaking.            *)
AnnounceClosedBug(i) == Announce(closed, sid[i])

AnnounceClosed(i) == IF handshaking[i] THEN closed ELSE Announce(closed, sid[i])

(* close_conn: the peer left, a frame was refused, the handshake or the    *)
(* keep-alive expired; once dev->running is off, the exit loop of          *)
(* server_task closes what is left in index order.                         *)
CloseConn(i) ==
  /\ in_use[i]
  /\ running \/ \A j \in Slot : j < i => ~in_use[j]
  /\ subs' = SubsWithout(i)
  /\ lock_state' = Unowned(i, lock_state, "None")
  /\ lock_sid' = Unowned(i, lock_sid, NoSession)
  /\ lock_owner' = Unowned(i, lock_owner, NoConn)
  /\ closed' = AnnounceClosed(i)
  /\ effect' = IF handshaking[i] THEN effect ELSE NoEffect
  /\ in_use' = [in_use EXCEPT ![i] = FALSE]
  /\ handshaking' = [handshaking EXCEPT ![i] = FALSE]
  /\ privileged' = [privileged EXCEPT ![i] = FALSE]
  /\ sid' = [sid EXCEPT ![i] = NoSession]
  /\ UNCHANGED <<running, notifications_disabled, secured, nextSession, granted, opened>>

(* aes70_transport_stop clears dev->running; the task leaves its loop.     *)
Stop ==
  /\ running
  /\ running' = FALSE
  /\ UNCHANGED <<connVars, subs, notifications_disabled, lockVars, secured,
                 logVars, effect>>

-----------------------------------------------------------------------------
(* Commands.  A command is dispatched with active_conn = i, the slot whose *)
(* socket it arrived on; server_task reads no slot still handshaking.      *)
Serving(i) == running /\ in_use[i] /\ ~handshaking[i]

(* Bug: a subscription is found by object and event alone, so RemoveSub-    *)
(* scription takes away the other controllers' too.                         *)
SameSubAnyConnBug(k, i, o, ev) ==
  subs[k].in_use /\ subs[k].emitter = o /\ subs[k].event = ev

SameSub(k, i, o, ev) ==
  /\ subs[k].in_use /\ subs[k].conn = i
  /\ subs[k].emitter = o /\ subs[k].event = ev

(* AddSubscription: identical ones are a no-op success, a full table is    *)
(* OUT_OF_MEMORY; neither changes the table.                               *)
AddSubscription(i, o, ev) ==
  /\ Serving(i)
  /\ \A k \in SubSlot : ~SameSub(k, i, o, ev)
  /\ \E k \in SubSlot :
       /\ ~subs[k].in_use /\ \A j \in SubSlot : j < k => subs[j].in_use
       /\ subs' = [subs EXCEPT ![k] = [in_use |-> TRUE, conn |-> i, emitter |-> o,
                                       event |-> ev, sid |-> sid[i]]]
  /\ effect' = Done(sid[i])
  /\ UNCHANGED <<running, connVars, notifications_disabled, lockVars, secured, logVars>>

RemoveSubscription(i, o, ev) ==
  /\ Serving(i)
  /\ subs' = [k \in SubSlot |-> IF SameSub(k, i, o, ev)
                                THEN NoSub ELSE subs[k]]
  /\ effect' = Done(sid[i])
  /\ UNCHANGED <<running, connVars, notifications_disabled, lockVars, secured, logVars>>

(* DisableNotifications (TRUE) and ReEnableNotifications (FALSE).          *)
SetNotificationsDisabled(i, b) ==
  /\ Serving(i)
  /\ notifications_disabled' = b
  /\ effect' = Done(sid[i])
  /\ UNCHANGED <<running, connVars, subs, lockVars, secured, logVars>>

(* The access check of aes70_object_dispatch, for a method that            *)
(* aes70_method_is_write names.                                            *)
WriteAllowed(i, o) ==
  /\ secured[o] => privileged[i]
  /\ lock_state[o] \in LockModes => lock_owner[o] = i

(* SetLockNoReadWrite and SetLockNoWrite (OcaRoot 1.3 and 1.6).            *)
LockObject(i, o, m) ==
  /\ Serving(i) /\ WriteAllowed(i, o)
  /\ lock_state' = [lock_state EXCEPT ![o] = m]
  /\ lock_owner' = [lock_owner EXCEPT ![o] = i]
  /\ lock_sid' = [lock_sid EXCEPT ![o] = sid[i]]
  /\ effect' = Done(sid[i])
  /\ UNCHANGED <<running, connVars, subs, notifications_disabled, secured, logVars>>

UnlockObject(i, o) ==
  /\ Serving(i) /\ WriteAllowed(i, o)
  /\ lock_state' = [lock_state EXCEPT ![o] = "None"]
  /\ lock_owner' = [lock_owner EXCEPT ![o] = NoConn]
  /\ lock_sid' = [lock_sid EXCEPT ![o] = NoSession]
  /\ effect' = Done(sid[i])
  /\ UNCHANGED <<running, connVars, subs, notifications_disabled, secured, logVars>>

-----------------------------------------------------------------------------
(* Values.                                                                 *)

(* aes70_notify_property_changed sends to the slot each subscription       *)
(* names; aes70_conn_send refuses a slot that is not in use.               *)
Notified(o) ==
  {k \in SubSlot : /\ ~notifications_disabled
                   /\ subs[k].in_use /\ subs[k].emitter = o
                   /\ subs[k].event = PropertyChanged
                   /\ in_use[subs[k].conn]}

CommitValue(o, s) ==
  /\ effect' = [obj |-> o, by |-> s, to |-> {sid[subs[k].conn] : k \in Notified(o)}]
  /\ UNCHANGED <<running, connVars, subs, notifications_disabled, lockVars,
                 secured, logVars>>

(* A value setter from a controller.                                       *)
SetValue(i, o) == Serving(i) /\ WriteAllowed(i, o) /\ CommitValue(o, sid[i])

(* A set posted by the application, applied by drain_cmd_queue.            *)
ApplySet(o) == running /\ CommitValue(o, NoSession)

(* aes70_object_set_secured, called by an application task.                *)
SetSecured(o, b) ==
  /\ secured' = [secured EXCEPT ![o] = b]
  /\ effect' = NoEffect
  /\ UNCHANGED <<running, connVars, subs, notifications_disabled, lockVars, logVars>>

-----------------------------------------------------------------------------
Next ==
  \/ \E i \in Slot :
       \/ Accept(i)
       \/ AcceptTls(i)
       \/ HandshakeDone(i)
       \/ CloseConn(i)
       \/ \E b \in BOOLEAN : SetNotificationsDisabled(i, b)
       \/ \E o \in Object :
            \/ \E ev \in Event : AddSubscription(i, o, ev) \/ RemoveSubscription(i, o, ev)
            \/ \E m \in LockModes : LockObject(i, o, m)
            \/ UnlockObject(i, o)
            \/ SetValue(i, o)
  \/ \E o \in Object :
       \/ ApplySet(o)
       \/ \E b \in BOOLEAN : SetSecured(o, b)
  \/ Stop

Spec == Init /\ [][Next]_vars
-----------------------------------------------------------------------------
(* Properties.                                                             *)

(* Type invariant.  The logs stay in 0..1: no callback is made twice for   *)
(* one session.                                                            *)
TypeOK ==
  /\ running \in BOOLEAN
  /\ in_use \in [Slot -> BOOLEAN]
  /\ handshaking \in [Slot -> BOOLEAN]
  /\ privileged \in [Slot -> BOOLEAN]
  /\ sid \in [Slot -> Session \cup {NoSession}]
  /\ subs \in [SubSlot -> [in_use : BOOLEAN, conn : Slot,
                           emitter : Object \cup {NoSession}, event : Event,
                           sid : Session \cup {NoSession}]]
  /\ notifications_disabled \in BOOLEAN
  /\ lock_state \in [Object -> LockModes \cup {"None"}]
  /\ lock_owner \in [Object -> Slot \cup {NoConn}]
  /\ lock_sid \in [Object -> Session \cup {NoSession}]
  /\ secured \in [Object -> BOOLEAN]
  /\ nextSession \in Nat
  /\ granted \subseteq Session
  /\ opened \in [Session -> 0 .. 1]
  /\ closed \in [Session -> 0 .. 1]

(* A slot in use holds a session of its own, numbered before the next.     *)
SlotsHoldSessions ==
  /\ \A i \in Slot : IF in_use[i] THEN sid[i] \in Session /\ sid[i] < nextSession
                                  ELSE sid[i] = NoSession
  /\ \A i, j \in Slot : in_use[i] /\ in_use[j] /\ sid[i] = sid[j] => i = j

Open(i) == in_use[i] /\ ~handshaking[i]

(* Every subscription in the table was made by the session now in its      *)
(* slot, which is past its handshake: close_conn leaves none behind for    *)
(* the controller that is given the slot next, and none leaks.             *)
SubsOfLiveSessions ==
  \A k \in SubSlot : subs[k].in_use =>
    /\ Open(subs[k].conn)
    /\ subs[k].sid = sid[subs[k].conn]
    /\ subs[k].emitter \in Object

(* A locked object is owned by the session that locked it and that session *)
(* is still connected: no lock outlives its session, none is inherited by  *)
(* the next user of the slot, and an owner is recorded exactly while the   *)
(* object is locked.                                                       *)
LocksOfLiveSessions ==
  \A o \in Object :
    IF lock_state[o] = "None"
    THEN lock_owner[o] = NoConn /\ lock_sid[o] = NoSession
    ELSE lock_owner[o] \in Slot /\ Open(lock_owner[o]) /\ lock_sid[o] = sid[lock_owner[o]]

(* Nothing of a session outlives it: neither its subscriptions nor its     *)
(* locks are found by the next session on its slot.                        *)
NothingOutlivesItsSession == SubsOfLiveSessions /\ LocksOfLiveSessions

(* A session is subscribed at most once to an event of an object, so one   *)
(* change sends it one notification.                                       *)
SubsUnique ==
  \A k, l \in SubSlot :
    /\ subs[k].in_use /\ subs[l].in_use
    /\ subs[k].conn = subs[l].conn
    /\ subs[k].emitter = subs[l].emitter /\ subs[k].event = subs[l].event
    => k = l

(* on_connection: a session is reported closed exactly when it was reported*)
(* open and has left its slot; a connection that never finished its TLS    *)
(* handshake is reported neither way.                                      *)
CallbacksPaired ==
  /\ \A i \in Slot : in_use[i] =>
       /\ opened[sid[i]] = IF handshaking[i] THEN 0 ELSE 1
       /\ closed[sid[i]] = 0
  /\ \A s \in Session : (\A i \in Slot : sid[i] # s) => opened[s] = closed[s]
  /\ \A s \in Session : s >= nextSession => opened[s] = 0 /\ closed[s] = 0

(* The privileged flag of a slot is the authorisation of the session in it,*)
(* never that of an earlier one, and is off until the handshake is done.   *)
PrivilegeOfSession ==
  /\ \A i \in Slot : privileged[i] <=> Open(i) /\ sid[i] \in granted
  /\ \A s \in granted : s < nextSession /\ opened[s] = 1

(* Sessions implements the service promised to controllers: what the       *)
(* service keeps per session, read off the slots.                          *)
LiveSessions  == {s \in Session : \E i \in Slot : Open(i) /\ sid[i] = s}
EndedSessions == {s \in Session : closed[s] = 1}
Wanted == {<<subs[k].sid, subs[k].emitter, subs[k].event>> :
             k \in {l \in SubSlot : subs[l].in_use}}

Service == INSTANCE SessionService WITH
  live    <- LiveSessions,
  ended   <- EndedSessions,
  wants   <- Wanted,
  holder  <- lock_sid,
  mode    <- lock_state,
  guarded <- secured,
  muted   <- notifications_disabled

(* Through slot reuse, closes and handshakes, a controller sees the        *)
(* service of SessionService: nothing it did outlives its session, and no  *)
(* write passes a lock or privilege check meant for another session.       *)
ImplementsService == Service!ServiceSpec
=============================================================================
