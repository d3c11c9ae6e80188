--------------------------- MODULE SessionService ---------------------------
(***************************************************************************)
(* What the device promises a controller session, with no connection       *)
(* slots, no subscription slots and no slot indices: a session opens once  *)
(* and closes once, a subscription and an OcaLock belong to the session    *)
(* that made them and end with it, a write to an object locked by another  *)
(* session or secured against an unprivileged one has no effect, and a     *)
(* change is notified to the sessions that want it and to nobody else.     *)
(*                                                                         *)
(* The device keys all of this on a connection slot index that is reused.  *)
(* Module Sessions models that code and implements this specification.     *)
(***************************************************************************)
EXTENDS Naturals

CONSTANTS
  Session,         \* the sessions that may ever exist
  NoSession,       \* no member of Session: "no session", and the application
  Object,          \* the control objects
  Event,           \* the events a controller may subscribe to
  PropertyChanged  \* the one event of Event the device raises

LockModes == {"NoWrite", "NoReadWrite"}

VARIABLES
  live,     \* sessions announced as open and not yet as closed
  ended,    \* sessions that are over
  granted,  \* sessions given the privilege to write secured objects
  wants,    \* <<session, object, event>>: the subscriptions in force
  holder,   \* object -> the session that locked it, or NoSession
  mode,     \* object -> "None" or how it is locked
  guarded,  \* object -> whether the application secured it
  muted,    \* DisableNotifications is in force
  effect    \* the last change: object written, whose command, sessions notified

serviceVars ==
  <<live, ended, granted, wants, holder, mode, guarded, muted, effect>>

NoEffect == [obj |-> NoSession, by |-> NoSession, to |-> {}]
Done(s)  == [obj |-> NoSession, by |-> s, to |-> {}]   \* a command of s, no value changed

ServiceInit ==
  /\ live = {} /\ ended = {} /\ granted = {} /\ wants = {}
  /\ holder = [o \in Object |-> NoSession]
  /\ mode = [o \in Object |-> "None"]
  /\ guarded = [o \in Object |-> FALSE]
  /\ muted = FALSE
  /\ effect = NoEffect

-----------------------------------------------------------------------------
(* The sessions a change of o is notified to.                              *)
Audience(o) ==
  IF muted THEN {} ELSE {s \in Session : <<s, o, PropertyChanged>> \in wants}

(* A session may change o's state.                                         *)
MayWrite(s, o) ==
  /\ guarded[o] => s \in granted
  /\ holder[o] \in {NoSession, s}

Change(o, s) ==
  /\ effect' = [obj |-> o, by |-> s, to |-> Audience(o)]
  /\ UNCHANGED <<live, ended, granted, wants, holder, mode, guarded, muted>>

-----------------------------------------------------------------------------
Open(s) ==
  /\ s \notin live \cup ended
  /\ live' = live \cup {s}
  /\ granted' \in {granted, granted \cup {s}}
  /\ effect' = NoEffect
  /\ UNCHANGED <<ended, wants, holder, mode, guarded, muted>>

Close(s) ==
  /\ s \in live
  /\ live' = live \ {s}
  /\ ended' = ended \cup {s}
  /\ wants' = {w \in wants : w[1] # s}
  /\ holder' = [o \in Object |-> IF holder[o] = s THEN NoSession ELSE holder[o]]
  /\ mode' = [o \in Object |-> IF holder[o] = s THEN "None" ELSE mode[o]]
  /\ effect' = NoEffect
  /\ UNCHANGED <<granted, guarded, muted>>

Subscribe(s, o, ev) ==
  /\ s \in live
  /\ wants' = wants \cup {<<s, o, ev>>}
  /\ effect' = Done(s)
  /\ UNCHANGED <<live, ended, granted, holder, mode, guarded, muted>>

Unsubscribe(s, o, ev) ==
  /\ s \in live
  /\ wants' = wants \ {<<s, o, ev>>}
  /\ effect' = Done(s)
  /\ UNCHANGED <<live, ended, granted, holder, mode, guarded, muted>>

Mute(s, b) ==
  /\ s \in live
  /\ muted' = b
  /\ effect' = Done(s)
  /\ UNCHANGED <<live, ended, granted, wants, holder, mode, guarded>>

Lock(s, o, m) ==
  /\ s \in live /\ MayWrite(s, o)
  /\ holder' = [holder EXCEPT ![o] = s]
  /\ mode' = [mode EXCEPT ![o] = m]
  /\ effect' = Done(s)
  /\ UNCHANGED <<live, ended, granted, wants, guarded, muted>>

Unlock(s, o) ==
  /\ s \in live /\ MayWrite(s, o)
  /\ holder' = [holder EXCEPT ![o] = NoSession]
  /\ mode' = [mode EXCEPT ![o] = "None"]
  /\ effect' = Done(s)
  /\ UNCHANGED <<live, ended, granted, wants, guarded, muted>>

Write(s, o) == s \in live /\ MayWrite(s, o) /\ Change(o, s)

(* The application writes its own objects, whatever locks there are.       *)
ApplicationWrite(o) == Change(o, NoSession)

Guard(o, b) ==
  /\ guarded' = [guarded EXCEPT ![o] = b]
  /\ effect' = NoEffect
  /\ UNCHANGED <<live, ended, granted, wants, holder, mode, muted>>

ServiceNext ==
  \/ \E s \in Session :
       \/ Open(s) \/ Close(s)
       \/ \E b \in BOOLEAN : Mute(s, b)
       \/ \E o \in Object :
            \/ \E ev \in Event : Subscribe(s, o, ev) \/ Unsubscribe(s, o, ev)
            \/ \E m \in LockModes : Lock(s, o, m)
            \/ Unlock(s, o) \/ Write(s, o)
  \/ \E o \in Object :
       \/ ApplicationWrite(o)
       \/ \E b \in BOOLEAN : Guard(o, b)

ServiceSpec == ServiceInit /\ [][ServiceNext]_serviceVars
=============================================================================
