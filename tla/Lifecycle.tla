----------------------------- MODULE Lifecycle ------------------------------
(* Starting and stopping devices: aes70_device_start and aes70_device_stop   *)
(* (aes70_device.c), aes70_transport_start and aes70_transport_stop          *)
(* (aes70_transport.c) and the DNS-SD advertising (aes70_mdns.c), with every *)
(* failure of memory, sockets and tasks.  One application task makes the     *)
(* calls, one after the other; each device has its server task.              *)
(*                                                                           *)
(* A descriptor field is "none" (-1), "open", or "zero": what calloc leaves. *)
(* Descriptor 0 is not the device's: it is the console of the application.   *)
EXTENDS Integers, FiniteSets

CONSTANTS
  Device,
  MaxSockets,     \* sockets of the network stack
  Faults          \* failures that may happen, of "memory", "socket", "task"; "stall": the
                  \* server task may be stuck for longer than a stop waits for it

ASSUME LifecycleAssumption ==
  /\ MaxSockets \in Nat /\ IsFiniteSet(Device)
  /\ Faults \subseteq {"memory", "socket", "task", "stall"}

Listener == {"listen_sock", "listen_sock6", "tls_listen_sock", "tls_listen_sock6"}
Wake     == {"wake_recv_sock", "wake_send_sock"}
Field    == Listener \cup Wake
Service  == {"_oca", "_ocasec"}
Config   == [tls : BOOLEAN, keys : BOOLEAN, disable_plaintext : BOOLEAN, enable_mdns : BOOLEAN]

VARIABLES
  step,           \* per device: how far the call under way has come; "off", "up"
  cfg,            \* per device: what the application asked for
  sock,           \* per device: the descriptor fields
  running,        \* dev->running
  task,           \* the server task: "none", "running", "stalled" in a send, "exited"
  pool,           \* sockets the network stack has left
  console,        \* descriptor 0 is open
  service_added,  \* s_service_added and s_secure_added, shared by all devices
  services,       \* what the mDNS responder advertises, with the device it is for
  \* ghosts
  published,      \* services a device that is up has been granted by the responder
  mishaps         \* the ways a start has gone wrong so far: "early", "task"

lifeVars == <<step, cfg, sock, running, task, pool, console, service_added, services,
              published, mishaps>>

Settled(d) == step[d] \in {"off", "up"}
Alive(d)   == task[d] \in {"running", "stalled"}
Opened(d)  == {f \in Field : sock[d][f] = "open"}

LifeInit ==
  /\ step = [d \in Device |-> "off"]
  /\ cfg \in [Device -> {CHOOSE c \in Config : ~c.tls /\ ~c.disable_plaintext}]
  /\ sock = [d \in Device |-> [f \in Field |-> "none"]]
  /\ running = [d \in Device |-> FALSE] /\ task = [d \in Device |-> "none"]
  /\ pool = MaxSockets /\ console = TRUE
  /\ service_added = {} /\ services = {}
  /\ published = {} /\ mishaps = {}

Goto(d, label) == step' = [step EXCEPT ![d] = label]
Blame(what) == mishaps' = mishaps \cup {what}

-----------------------------------------------------------------------------
(* aes70_device_start, up to the transport.  A device whose task has       *)
(* outlived it is not started again: its memory has been given back.       *)
Start(d, c) ==
  /\ \A e \in Device : Settled(e)
  /\ step[d] = "off" /\ ~Alive(d)
  /\ cfg' = [cfg EXCEPT ![d] = c]
  /\ sock' = [sock EXCEPT ![d] = [f \in Field |->
                IF f \in Wake \cup {"listen_sock"} THEN "none" ELSE "zero"]]
  /\ task' = [task EXCEPT ![d] = "none"]
  /\ Goto(d, "objects")
  /\ UNCHANGED <<running, pool, console, service_added, services, published, mishaps>>

(* The lock, the queue, the managers and the root block.                   *)
NoMemory(d) ==
  /\ step[d] = "objects" /\ "memory" \in Faults
  /\ Goto(d, "unpublish") /\ Blame("early")
  /\ UNCHANGED <<cfg, sock, running, task, pool, console, service_added, services, published>>

(* Bug: a listener keeps the value calloc gave it.                         *)
MakeObjectsBug(d) ==
  /\ step[d] = "objects"
  /\ sock' = [sock EXCEPT ![d] = [f \in Field |->
                IF f \in Listener \ {"tls_listen_sock6"} THEN "none" ELSE @[f]]]
  /\ Goto(d, "tls")
  /\ UNCHANGED <<cfg, running, task, pool, console, service_added, services, published,
                 mishaps>>

(* They are there; aes70_transport_start begins.                           *)
MakeObjects(d) ==
  /\ step[d] = "objects"
  /\ sock' = [sock EXCEPT ![d] = [f \in Field |-> IF f \in Listener THEN "none" ELSE @[f]]]
  /\ Goto(d, "tls")
  /\ UNCHANGED <<cfg, running, task, pool, console, service_added, services, published,
                 mishaps>>

(* Socket and listener n fields at a time: opened, or not to be had.       *)
Open(d, fields) ==
  /\ pool >= Cardinality(fields)
  /\ sock' = [sock EXCEPT ![d] = [f \in Field |-> IF f \in fields THEN "open" ELSE @[f]]]
  /\ pool' = pool - Cardinality(fields)

Unavailable(fields) == pool < Cardinality(fields) \/ "socket" \in Faults

(* Close those of the fields that hold a descriptor; a field that holds 0  *)
(* closes descriptor 0.                                                    *)
Close(d, fields) ==
  /\ sock' = [sock EXCEPT ![d] = [f \in Field |-> IF f \in fields THEN "none" ELSE @[f]]]
  /\ pool' = pool + Cardinality(Opened(d) \cap fields)
  /\ console' = (console /\ \A f \in fields : sock[d][f] # "zero")

other == <<cfg, running, task, service_added, services, published, mishaps>>

(* The secure listener: keys, IPv4, and IPv6 if it can be had.             *)
TlsStep(d) ==
  \/ /\ step[d] = "tls" /\ ~cfg[d].tls
     /\ Goto(d, "plain") /\ UNCHANGED <<sock, pool, console, other>>
  \/ /\ step[d] = "tls" /\ cfg[d].tls
     /\ ~cfg[d].keys \/ Unavailable({"tls_listen_sock"})
     /\ Goto(d, "unpublish") /\ UNCHANGED <<sock, pool, console, other>>
  \/ /\ step[d] = "tls" /\ cfg[d].tls /\ cfg[d].keys
     /\ Open(d, {"tls_listen_sock"})
     /\ Goto(d, "tls6") /\ UNCHANGED <<console, other>>
  \/ /\ step[d] = "tls6" /\ Open(d, {"tls_listen_sock6"})
     /\ Goto(d, "plain") /\ UNCHANGED <<console, other>>
  \/ /\ step[d] = "tls6" /\ Unavailable({"tls_listen_sock6"})
     /\ Goto(d, "plain") /\ UNCHANGED <<sock, pool, console, other>>

(* Bug: no plaintext listener is taken for as good as an IPv6 one.         *)
NoPlainListenerBug(d) ==
  /\ step[d] = "plain" /\ ~cfg[d].disable_plaintext
  /\ Unavailable({"listen_sock"})
  /\ Goto(d, "plain6") /\ UNCHANGED <<sock, pool, console, other>>

(* No plaintext listener: the secure ones are closed.                      *)
NoPlainListener(d) ==
  /\ step[d] = "plain" /\ ~cfg[d].disable_plaintext
  /\ Unavailable({"listen_sock"})
  /\ Close(d, {"tls_listen_sock", "tls_listen_sock6"})
  /\ Goto(d, "unpublish") /\ UNCHANGED other

PlainStep(d) ==
  \/ NoPlainListener(d)
  \/ /\ step[d] = "plain" /\ ~cfg[d].disable_plaintext
     /\ Open(d, {"listen_sock"})
     /\ Goto(d, "plain6") /\ UNCHANGED <<console, other>>
  \/ /\ step[d] = "plain" /\ cfg[d].disable_plaintext
     /\ Goto(d, IF sock[d]["tls_listen_sock"] = "open" THEN "wake" ELSE "unpublish")
     /\ UNCHANGED <<sock, pool, console, other>>
  \/ /\ step[d] = "plain6" /\ Open(d, {"listen_sock6"})
     /\ Goto(d, "wake") /\ UNCHANGED <<console, other>>
  \/ /\ step[d] = "plain6" /\ Unavailable({"listen_sock6"})
     /\ Goto(d, "wake") /\ UNCHANGED <<sock, pool, console, other>>

(* make_wake_pipe: both ends or neither, and no matter which.              *)
WakeStep(d) ==
  \/ /\ step[d] = "wake" /\ Open(d, Wake)
     /\ Goto(d, "task") /\ UNCHANGED <<console, other>>
  \/ /\ step[d] = "wake" /\ Unavailable(Wake)
     /\ Goto(d, "task") /\ UNCHANGED <<sock, pool, console, other>>

TaskStep(d) ==
  \/ /\ step[d] = "task"
     /\ running' = [running EXCEPT ![d] = TRUE] /\ task' = [task EXCEPT ![d] = "running"]
     /\ Goto(d, "publish")
     /\ UNCHANGED <<cfg, sock, pool, console, service_added, services, published, mishaps>>
  \/ /\ step[d] = "task" /\ "task" \in Faults          \* close_listeners, not the wake pair
     /\ Close(d, Listener)
     /\ Goto(d, "unpublish") /\ Blame("task")
     /\ UNCHANGED <<cfg, running, task, service_added, services, published>>

-----------------------------------------------------------------------------
(* aes70_mdns_start and aes70_mdns_add_secure; a failure is ignored.       *)
Publish(d, type) ==
  \/ /\ services' = services \cup {<<d, type>>} /\ published' = published \cup {<<d, type>>}
     /\ service_added' = service_added \cup {type}
  \/ UNCHANGED <<services, published, service_added>>

PublishStep(d) ==
  \/ /\ step[d] = "publish"
     /\ IF cfg[d].enable_mdns /\ ~cfg[d].disable_plaintext THEN Publish(d, "_oca")
        ELSE UNCHANGED <<services, published, service_added>>
     /\ Goto(d, "publish_secure")
     /\ UNCHANGED <<cfg, sock, running, task, pool, console, mishaps>>
  \/ /\ step[d] = "publish_secure"
     /\ IF cfg[d].enable_mdns /\ cfg[d].tls THEN Publish(d, "_ocasec")
        ELSE UNCHANGED <<services, published, service_added>>
     /\ Goto(d, "up")
     /\ UNCHANGED <<cfg, sock, running, task, pool, console, mishaps>>

(* aes70_device_stop, called by the application or by a start that failed. *)
Stop(d) ==
  /\ \A e \in Device : Settled(e)
  /\ step[d] = "up"
  /\ Goto(d, "unpublish")
  /\ UNCHANGED <<cfg, sock, running, task, pool, console, service_added, services, published,
                 mishaps>>

(* Bug: the services stay.                                                 *)
UnpublishBug(d) ==
  /\ step[d] = "unpublish"
  /\ published' = {p \in published : p[1] # d}
  /\ Goto(d, "stop_task")
  /\ UNCHANGED <<cfg, sock, running, task, pool, console, services, service_added, mishaps>>

(* aes70_mdns_stop: for each type the flag says was added, the responder   *)
(* is told to remove one; with two of a type it is not said which.         *)
Unpublish(d) ==
  /\ step[d] = "unpublish"
  /\ published' = {p \in published : p[1] # d}
  /\ IF cfg[d].enable_mdns
     THEN /\ \E gone \in SUBSET services :
               /\ \A type \in Service :
                    LET there == {s \in services : s[2] = type}
                    IN  Cardinality(gone \cap there) =
                          IF type \in service_added /\ there # {} THEN 1 ELSE 0
               /\ services' = services \ gone
          /\ service_added' = {}
     ELSE UNCHANGED <<services, service_added>>
  /\ Goto(d, "stop_task")
  /\ UNCHANGED <<cfg, sock, running, task, pool, console, mishaps>>

(* aes70_transport_stop: without a task only the listeners are closed.     *)
StopTask(d) ==
  /\ step[d] = "stop_task"
  /\ IF ~running[d] /\ task[d] = "none"
     THEN /\ Close(d, Listener) /\ Goto(d, "off")
          /\ UNCHANGED running
     ELSE /\ running' = [running EXCEPT ![d] = FALSE] /\ Goto(d, "waiting")
          /\ UNCHANGED <<sock, pool, console>>
  /\ UNCHANGED <<cfg, task, service_added, services, published, mishaps>>

(* Bug: the wake pair is forgotten.                                        *)
TearDownBug(d) ==
  /\ Close(d, Listener) /\ Goto(d, "off")
  /\ UNCHANGED <<cfg, running, task, service_added, services, published>>

(* Everything is closed and freed.                                         *)
TearDown(d) ==
  /\ Close(d, Field) /\ Goto(d, "off")
  /\ UNCHANGED <<cfg, running, task, service_added, services, published>>

(* Two hundred polls of 10 ms for the task to exit ...                     *)
SeenGone(d) ==
  /\ step[d] = "waiting" /\ task[d] = "exited"
  /\ TearDown(d) /\ UNCHANGED mishaps

(* ... and no longer: a task that has been stalled that long, or has gone  *)
(* without its handle showing it, is not waited for.                       *)
GiveUp(d) ==
  /\ step[d] = "waiting" /\ "stall" \in Faults
  /\ TearDown(d) /\ UNCHANGED mishaps

-----------------------------------------------------------------------------
(* The server task: it is stuck in a send to a controller that does not    *)
(* read, until the controller does, or finds dev->running false and exits. *)
Stall(d) ==
  /\ "stall" \in Faults /\ task[d] = "running"
  /\ task' = [task EXCEPT ![d] = "stalled"]
  /\ UNCHANGED <<step, cfg, sock, running, pool, console, service_added, services, published,
                 mishaps>>

Resume(d) ==
  /\ task[d] = "stalled"
  /\ task' = [task EXCEPT ![d] = "running"]
  /\ UNCHANGED <<step, cfg, sock, running, pool, console, service_added, services, published,
                 mishaps>>

Exit(d) ==
  /\ task[d] = "running" /\ ~running[d]
  /\ task' = [task EXCEPT ![d] = "exited"]
  /\ UNCHANGED <<step, cfg, sock, running, pool, console, service_added, services, published,
                 mishaps>>

Call(d) ==
  \/ MakeObjects(d) \/ TlsStep(d) \/ PlainStep(d) \/ WakeStep(d) \/ TaskStep(d)
  \/ PublishStep(d) \/ Unpublish(d) \/ StopTask(d) \/ SeenGone(d) \/ GiveUp(d)

LifeNext ==
  \/ \E d \in Device, c \in Config : Start(d, c)
  \/ \E d \in Device : NoMemory(d) \/ Call(d) \/ Stop(d) \/ Stall(d) \/ Resume(d) \/ Exit(d)

LifeSpec == LifeInit /\ [][LifeNext]_lifeVars
-----------------------------------------------------------------------------
(* Properties.                                                             *)
Step == {"off", "objects", "tls", "tls6", "plain", "plain6", "wake", "task", "publish",
         "publish_secure", "up", "unpublish", "stop_task", "waiting"}

LifeTypeOK ==
  /\ step \in [Device -> Step] /\ cfg \in [Device -> Config]
  /\ sock \in [Device -> [Field -> {"none", "zero", "open"}]]
  /\ running \in [Device -> BOOLEAN]
  /\ task \in [Device -> {"none", "running", "stalled", "exited"}]
  /\ pool \in 0 .. MaxSockets /\ console \in BOOLEAN
  /\ service_added \subseteq Service
  /\ services \subseteq Device \X Service /\ published \subseteq Device \X Service

(* A device that was started serves what was asked for: its task runs and  *)
(* every transport that was not switched off has its listener.             *)
UpServes ==
  \A d \in Device : step[d] = "up" =>
    /\ running[d] /\ Alive(d)
    /\ ~cfg[d].disable_plaintext => sock[d]["listen_sock"] = "open"
    /\ cfg[d].tls => sock[d]["tls_listen_sock"] = "open"

AtRest == \A d \in Device : step[d] = "off"

(* Sockets are lost only to a start whose task could not be created, and a *)
(* descriptor that is not the device's is closed only by a start that      *)
(* failed before the transport.                                            *)
SocketsAccountedFor ==
  /\ AtRest /\ pool < MaxSockets => "task" \in mishaps
  /\ ~console => "early" \in mishaps

(* aes70_mdns.c:7-8: stopping removes "only our own service".  What a      *)
(* device has published is advertised until it stops and no longer, so     *)
(* that no controller is sent to a device that is off.  The flags are kept *)
(* once for the program, so this holds of a device that is alone in it.    *)
AdvertisedWhileUp ==
  Cardinality(Device) = 1 =>
    services = published /\ \A s \in services : step[s[1]] # "off"
=============================================================================
