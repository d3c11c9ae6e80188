# TLA+ models of the AES70 (OCA) device component

This directory holds TLA+ modules, TLC configurations and TLAPS proofs for the
ESP-IDF component `components/aes70`: an AES70 device that audio controllers
reach over TCP or TLS with the OCP.1 protocol. Every module is translated from
the C source; the comment at the head of a module names the files. Paths below
are relative to `components/aes70/` unless they say otherwise.

Contents: [the system](#the-system), [modules](#modules-and-the-code),
[runs](#runs), [fairness](#fairness), [proofs](#proofs),
[disagreements found](#where-the-code-and-its-texts-disagree),
[what is left out](#not-modelled), [plan](#plan), [how to run](#running).

## The system

One FreeRTOS task, `server_task` in `src/aes70_transport.c`, does all network
work. Application tasks read meters and encoders, post value changes with
`aes70_post_set`, create objects, and start and stop the device.

| Component | State | Operations |
|---|---|---|
| Connections and sessions (`aes70_transport.c`) | `dev->conns[]`: in_use, sock, tls, handshaking, privileged | accept_conn, accept_tls_conn, tls_drive_handshake, close_conn, the CONN_OPENED / CONN_CLOSED callbacks |
| Receive path (`aes70_transport.c`) | `rx`, `rx_len` per connection | recv in server_task, tls_service_rx, process_rx |
| Server loop and KeepAlive | descriptor set, `last_rx_us`, `last_tx_us`, heartbeat | select, accepts, the pass over the table, service_keepalive |
| Application set queue (`aes70_object.c`, `aes70_transport.c`) | `cmd_q`, loopback UDP wake sockets, `running` | aes70_post_set, drain_cmd_queue, aes70_transport_stop |
| Subscriptions (`aes70_subscription.c`) | `dev->subs[]`, notifications_disabled | Add/Remove/DropConn, Disable and ReEnable, notify |
| Access control (`aes70_object.c`, `aes70_classes.c`) | secured, lock_state, lock_owner | the gate in aes70_object_dispatch, SetLock..., Unlock |
| OcaGrouper (`aes70_grouper.c`) | groups, citizens, enrollment bit map | Add/Delete Group/Citizen, SetEnrollment, fan-out |
| OcaBlock scenes (`aes70_managers.c`) | a blob the controller keeps | Fetch/ApplyParameterData |
| Multi-parameter classes (`aes70_dsp.c`) | float parameters of dynamics, filter, PEQ, panner, generator | setter methods, aes70_*_set, Start/Stop |
| Single-value classes, OcaWorker (`aes70_classes.c`, `aes70_object.c`) | value, Enabled, range, label | Get/Set, aes70_object_apply_set, aes70_object_set_label, aes70_string_get |
| Object registry (`aes70_object.c`) | `dev->objects[]`, `next_ono`, member lists of blocks | constructors, aes70_device_find, block enumeration |
| Command router (`aes70_device.c`) | response buffer, `active_conn` | aes70_route_command_pdu, append_response |
| Life cycle (`aes70_device.c`, `aes70_transport.c`) | the device, its sockets, its task | start, its failures, stop |
| OcaMatrix (`aes70_matrix.c`) | grid of members, selection and its lock | SetMembers, SetSize, SetCurrentXY(Lock), aes70_matrix_set_member |
| OcaDeviceManager (`aes70_managers.c`) | name and role | SetDeviceName, SetDeviceRole, getters over constants |
| OCP.1 codec (`aes70_ocp1.c`) | a cursor and a sticky error | read and write of fields and OcaString |
| mDNS (`aes70_mdns.c`) | two flags for the program | publish, withdraw |

How they interact. Everything a controller does runs inside the server task:
receive path, router, dispatch gate, class handler, subscriptions, send. Tables
of the server task (connections, subscriptions, locks, groups) therefore change
one handler at a time. What crosses tasks is the set queue with its wake-up
socket, `running`, the secured flag, the object registry, labels and strings.
A blocked `send` holds up everything.

Where it is hard:

- **Reuse of indices.** Subscriptions, locks and privilege hang on the index of
  a connection slot, enrollments on the index of a group and a citizen slot.
  All are reused, and what the last holder left must be gone by then.
- **Wake-up without acknowledgement.** A queued request is announced by a UDP
  datagram that the loopback mailbox may drop, or that is read before the queue
  is emptied.
- **Segmentation.** TCP cuts frames anywhere; TLS hides decrypted bytes from
  `select`.
- **Stale descriptor sets and time.** The set `select` filled is used after
  accepts and closes of the same iteration; data and KeepAlive deadlines race.
- **Several roads to one value.** A gain is written by its setter, the grouper's
  fan-out, a recalled scene or the application, and locks do not stand on every
  road.
- **Stop against a busy task**, and start failing part-way.
- **Objects created while the tree is in use**, under a lock that some
  constructors take, and some readers do not.
- **Replies cut short**: by a malformed command or by the end of the buffer,
  after commands have been carried out.
- **Texts replaced under a reader**, counted in characters and cut at bytes.
- **Tables kept by hand** (methods, properties, setters, write methods).

What makes each part correct is stated as the properties in the table of
[runs](#runs); `PROJECT.json` lists each hazard at its line.

## Modules and the code

| Module | Models | State and actions |
|---|---|---|
| `SessionService` | the promise made to a session | sessions open and close once; subscriptions and locks belong to sessions, never to slots |
| `Sessions` | accept_conn, accept_tls_conn, tls_drive_handshake, close_conn, `aes70_subscription.c`, lock methods, dispatch gate | one action per handler; `in_use`, `subs`, `lock_owner` are the C fields; the session numbers (`sid`, `lock_sid`, `subs[k].sid`) are ghosts |
| `SetQueue` | aes70_post_set, server loop as far as it touches the queue, drain_cmd_queue, aes70_transport_stop | `PostSet` is xQueueSend and `NudgeServer` the datagram after it, so another task can run between them; `stalled` is a blocked send |
| `FrameStream` | the promise: frames are handled whole, in order, until one must be refused | |
| `Framing` | recv in server_task, tls_service_rx, process_rx, handle_frame | bytes are pairs (frame, position); `Recv` and `TlsRead` take any number that fits; `record` is what the TLS library holds decrypted |
| `ServerLoop` | server_task, handshake deadline, service_keepalive | `pc` walks select, accept, serve, keepalive as the task does; time advances only in select |
| `GroupService` | the promise: a group is a set of members, named by identity | |
| `Grouper` | `aes70_grouper.c`, the ranged value setter and aes70_object_apply_set | `group`, `citizen`, `enroll` are the arrays of the C struct; `num` the values; `raised` the objects a change event was raised for |
| `Scenes` | Grouper with the lock gate and the two scene methods | EXTENDS Grouper; each grouper method and setter behind the gate of its object |
| `Parameters` | the five classes of `aes70_dsp.c` and the list of write methods | the C tables are functions; one object, whose class is chosen at the start; `mirror` is what a controller that subscribed at the start knows |
| `CommandService` | the promise: a batch of commands is one request, carried out in order and answered to its connection or not at all | |
| `Router` | aes70_route_command_pdu, append_response, the notification a command raises | the batch under way is a sequence of commands; `RunCommand` is dispatch and answer of one command; `needed` counts the bytes all answers take, `resp` what the writer wrote |
| `Registry` | aes70_object_new, aes70_block_add_member, the constructors, aes70_device_find, GetActionObjects and GetActionObjectsRecursive | each read and write of the shared tables is a step, and a compiler may order the two stores of a registration either way; `TakesLock` says which constructors take dev->lock |
| `Matrix` | `aes70_matrix.c` | one action per method; aes70_matrix_set_member is a check and a store |
| `Lifecycle` | aes70_device_start and stop, aes70_transport_start and stop, make_wake_pipe, close_listeners, `aes70_mdns.c` | start is a walk in which every call may fail; descriptors are those of the process, 0 being the console's |
| `Values` | the eighteen classes with one value, blocks, managers and the grouper: setters, gate, range checks, application path, recall | the tables of classes are functions; one object of one class per behaviour; `known` is what a subscriber knows |
| `Strings` | ocp1_rd_string, ocp1_wr_string and the string setter | a text is a sequence of lead and continuation bytes; the field after it is one byte that must stay its own |
| `SharedTexts` | aes70_object_set_label, SetLabel, the string setter, aes70_string_get | a text is a block of the heap; copy, lock, load, store, unlock and free are steps |
| `SessionsProofs`, `SetQueueProofs`, `FramingProofs`, `RouterProofs` | | theorems and proofs about the module named |
| `TransportProofs` | | about `ServerLoop` and `Lifecycle` |
| `GrouperProofs` | | about `Grouper` and `Scenes` |
| `SharedProofs` | | about `Registry` and `SharedTexts` |
| `ClassesProofs` | | about `Matrix`, and about `Values`, `Parameters` and `Strings` as `MCClasses` puts them together |
| `MC*` | | instances for TLC |

Composition: `Scenes` composes groups, locks and scenes. `Sessions` composes the
connection table with subscriptions, locks and the secured flag; it covers
writes made to an object directly, while writes that reach it through a group or
a scene are in `Scenes`. The refinements are `Sessions` to `SessionService`,
`Framing` to `FrameStream`, `Grouper` to `GroupService` and `Router` to
`CommandService`, each with `INSTANCE ... WITH`. `MCClasses` and `MCShared` put
components side by side that share no state: a variable chosen in the initial
state (`family`, `part`) says which of them a behaviour is about, the others
stay where they are. Nothing is lost by that, since no step of one reads what
another writes, and the run is the sum of the runs of its parts instead of their
product.

Abstractions made throughout: values are small integers or model values; an
event carries no bytes; the two notification encodings (EV1 and EV2) are one
kind; the two write locks differ only for reads. Ghost variables only record.
A definition whose name ends in `Bug` is a plausible slip of the code. No
specification uses one; they are there to show that each property can be broken.

## Runs

| Run | Shows | Bounds and why they suffice |
|---|---|---|
| `MCSessions` | nothing of a session outlives it (`NothingOutlivesItsSession`), callbacks and privilege are those of the session (`CallbacksPaired`, `PrivilegeOfSession`), and the tables implement `SessionService` | 2 slots, 3 sessions, 2 subscriptions, 1 object, 2 events: a slot is reused beside a live neighbour, the subscription table fills up, holes appear in it. `MaxSessions` bounds only the ghost numbering |
| `MCSetQueue` | accepted requests are applied in order (`AppliedInOrder`), a wake-up is never lost (`WakeUpPending`), every set is applied, stop returns and frees after the task has exited unless a send is stalled | 2 tasks, 2 objects, queue 2, mailbox 1, 4 posts: both queue and mailbox overflow |
| `MCSetQueueNoWake` | expected violation of `EverySetApplied` | as above without the wake pipe |
| `MCFraming` | frames handled are those sent (`ImplementsStream`), and every frame is handled, none stays in a buffer `select` does not see (`EveryFrameHandled`) | header 2, buffer 4, 3 frames of lengths 1 to 5 and one out of sync: header-only, buffer-filling, too short, too long, every split |
| `MCServerLoop` | no receive blocks the task (`NeverBlocks`), a silent controller is dropped in time (`SilentControllerDropped`), none is judged before its data is read (`HeardBeforeJudged`), the controller hears from the device in every interval (`ControllerHearsUs`), a handshake is bounded (`HandshakeBounded`) | 2 connections, intervals 0 and 1 tick, factor 2: a descriptor is reused within one iteration. Ages are capped where all comparisons agree |
| `MCGrouper` | no enrollment outlives its ends (`EnrollmentOfLiveSlots`), slots and bit map implement `GroupService` | 2 gains of different range, 2 proxies, 2 group and 2 citizen slots, 3 additions: slots are reused, a proxy is a citizen, an object is enrolled twice |
| `MCScenes` | which locks protect a value (`LocksProtect`), which scenes come back exactly (`CoherentSceneRestored`) | 1 gain, 1 proxy of wider range, 1 group, 2 citizens, 2 controllers under symmetry; the VIEW hides ghosts no action reads |
| `MCRouter` | the reply holds the answers to the commands run (`ReplyComplete`), commands run for the connection of their batch (`ActiveConnOfPdu`), a whole batch gets an answer to each command (`WholeBatchAnswered`), and the router implements `CommandService` | 2 connections, one subscribed, batches of up to 3 commands that announce up to one more, a buffer that some batches fill to the byte and others overflow, malformed commands at each place. The VIEW forgets the last reply once it is out: only the values are read again |
| `MCLifecycle` | a device that is up serves (`UpServes`), sockets are lost and foreign ones closed only by two kinds of failed start (`SocketsAccountedFor`), what is published is advertised while the device is up and no longer (`AdvertisedWhileUp`) | 1 device over all combinations of TLS, plaintext and mDNS, every failure of start, started over and over; 7 sockets, one more than a device needs, so that one start can lose a pair and the next still try |
| `MCClasses` | what strands a selection (`OnlySetMembersStrands`), what moves a locked one (`LockedSelectionHeld`), that a member list reads back (`MembersReadBack`); subscribers know value, Enabled and every parameter (`SubscribersKnow`); a value is out of its range only in the ways listed (`ValueOutsideOnlyKnownWays`); locks and secured objects hold against the setters (`GateHolds`); texts are read whole, nothing is read past an end, an answer can be decoded (`TextsIntact`); types of the four modules (`ClassesTypeOK`) | a 2 by 2 member table, requests one past it, 1 member and none, lists of every length; each of the 18 single-value and manager classes with values inside, outside, on the edge and not a number; all 34 parameters of the 5 classes, any 2 touched in one behaviour, which is how many share a field; a buffer of 4 bytes and its terminator for up to 3 characters of 1 to 3 bytes, right and wrong counts |
| `MCShared` | nothing constructed is lost (`ConstructedIsRegistered`), a block lists what it owns (`MemberOfItsOwner`), the table is whole when the lock is free (`WholeOnceUnlocked`), an enumeration is of one state (`EnumerationCoherent`); a string a task has got stays allocated until it is set again (`ReadValidUntilSet`) | 2 application tasks under symmetry and the server task; a table of 3, lists that start with room for 1: both tasks are in a constructor at once, a list grows twice, the table fills up; a heap block for each text and each setter |
| `MCSharedUnlocked` | expected violation of `ConstructedIsRegistered` | as above, with groupers, whose constructor takes no lock |

`ServerLoop` counts half-second ticks, so its deadlines are exact up to one
`select` timeout, which the properties allow. `LocksProtect` is weaker than the
documentation because the code is: a session has to hold the locks of the
object, of the proxies the object follows, and of the block.
`CoherentSceneRestored` is about scenes in which members agree with their proxy
and values are in range. Others come back differently: the recall runs in tree
order and each write fans out, so a proxy, which comes after its members,
overwrites them. `EnumerationCoherent` is about what one GetActionObjects
writes, not about two of them.

Every module has a type invariant, and it is a theorem of that module: no run
repeats those of `Sessions`, `SetQueue`, `Framing`, `ServerLoop`, `Grouper`,
`Scenes`, `Router`, `Registry`, `Lifecycle` and `SharedTexts`, and `MCClasses`
checks those of `Matrix`, `Values`, `Parameters` and `Strings` together.

Deadlock is checked in `MCRouter` and `MCLifecycle`, which never end. In the
others a device that was stopped, a connection that closed, or a bounded supply
of posts, frames, objects and additions ends a behaviour rightly.

## Fairness

Safety runs assume none. `SetQueue` and `Framing` have liveness properties:

- `SetQueue`: weak fairness of the server task's own steps, of a task that has
  queued a request and is about to send its datagram, and of the end of the
  polling in `aes70_transport_stop`. FreeRTOS runs ready tasks, `select` has a
  500 ms timeout, the polling loop is bounded. Nothing makes a controller read:
  `Unstall` is not fair, and `EverySetApplied` has the premise that sends do not
  stall for ever.
- `Framing`: weak fairness of the receive path, strong fairness of `TlsRead`,
  because a record that is half there disables it until the rest arrives, and
  TCP delivers the rest.

The deadlines of `ServerLoop` are stated as bounds on ages, which are safety
properties: they need no fairness, only that time passes in `select` alone.

## Proofs

All proofs are checked by TLAPS for every value of the constants the modules'
assumptions allow. The argument of each:

- **Sessions.** `IInv` is the conjunction of the six safety properties and
  `SlotsHoldSessions`: slots in use hold different sessions, numbered below the
  next one. Without it a new session could share a number with one that still
  has subscriptions. `NextInv` has a lemma per action. `ServiceImplemented`
  then shows step by step that the tables implement `SessionService`; accept
  over TLS is a stutter, the end of the handshake is `Open`, a notification
  reaches exactly the sessions that want it.
- **SetQueue.** `SetQueueTypeCorrect`, `FirstInFirstOut`, `NoLostWakeUp` and
  `FreedBehindServer` (which is safety: it assumes that no send blocks, and no
  fairness).
  The first-in-first-out invariant relates the queue to the history: the queue
  is the part of `posted` behind `applied` (`IsRest`), and lemmas say that this
  survives appending and removing. `NoLostWakeUp` assumes that the wake pipe
  exists (`WakePipe`); the mailbox is at least one datagram long by
  `SetQueueAssumption`.
- **Grouper.** `IInv` adds `SlotsDistinct` (two groups never share a proxy, two
  citizens never a number) to the enrollment invariant; it is what lets a slot
  stand for an identity. `GroupsImplemented` maps each action to the action of
  `GroupService` on identities; `ReachedMaps` shows that the loop over the
  bit map reaches the members and no further level.
- **Scenes.** `LocksHold`: `LocksProtect` for any numbers of controllers,
  controls, groups and citizens. The invariant is that only existing objects are
  locked, which is needed because a proxy made later is written at its creation.
  `CoherentScenesComeBack`: `CoherentSceneRestored` for scenes of any length. What a
  recall does is a recursive function over the entries; `RecallExists` shows that
  there is such a function, `EntryRecalled` what an entry does, `CoherentRecalled`,
  entry by entry, that no later one takes back what an earlier one has restored.
  `SceneInv` (with `ScenesTypeCorrect`) says that a scene is of existing objects,
  because the registry only grows.
- **Router.** `IInv` ties the writer to the ghost count of bytes: it has latched
  its error exactly when the answers need more than the buffer, and until then
  the buffer holds the answers of all commands run (`ReplyComplete`).
  `AppendFacts` says this of one answer. `RouterImplementsCommands` maps each
  round of the loop to one command of `CommandService`. `WholeBatchesAnswered`
  adds `IAnswers`, that the k-th answer has the handle of the k-th command.
- **Registry.** Every theorem has the assumption `Locked`: only constructors that
  take dev->lock are used. (Without it the run `MCSharedUnlocked` shows the first
  property broken.) `IMutex` says that a task inside a constructor is alone;
  `IRegistering` and `IListing` say, for each line of a constructor, what is
  stored and what is counted so far, so that a place that is read is the place
  that is written. `NumbersNeverShared`, `RegistrationLasts` and
  `MembersListedOnce` follow. `WholeWhenUnlocked` adds `IWhole`: a hole in the
  table is that of a task between its two stores, an object not yet set up is
  that of a task not yet at its end; with the lock free there is no such task.
  `EnumerationsCoherent` is proved from two more invariants. `ITree`: members are
  younger than their block, and a counted place without a pointer is that of a
  constructor between two stores; with the lock held nothing is in between
  (`Still`). `IWalk`: the members an enumeration has come by, called E, are closed
  upwards; each frame on its stack tells by its place which of its block's members
  are in E; a block in E that is off the stack has all its members in E
  (`Visiting`). When the stack is empty, E is therefore closed downwards too, and
  because owners are older than members only one set is (`OnlyPresentIncluded`,
  by the least object that is wrong). Neither needs an induction over the tree.
- **Matrix.** `TypeOK` is inductive by itself: a checked write names a cell of
  the member table, whose size never changes, whatever the grid does between
  check and store. `StrandedBySetMembersOnly` and `LockHoldsSelection` are proved
  per method from it. `ListsComeBack` shows for tables of any size that the
  rows and columns of GetMembers and SetMembers count the same places
  (`RowAndColumn`, `PlaceInList`).
- **Values.** `ValueInv` adds `MayHold` to the types and to what the subscriber
  knows: what the value may be given who wrote it last, a case per class. The
  lemmas `SetterStores`, `RecallStores` and `ApplicationStores` say that each of
  the three roads to a value writes such a one; `Announced` that the property
  announced is encoded from the field written. `ValueGate` goes through the
  methods and the list of write methods.
- **Parameters.** The four tables of `aes70_dsp.c` agree row by row
  (`TablesAgree`: a selector announces a property that is read from the field it
  writes); `DspInv` follows for every sequence of writes, and `DspGate` from the
  list of write methods. `MCClasses` composes the four objects, and the theorems
  are about its specification: `SubscriberHearsEveryChange`, `ValuesStayInRange`,
  `GateHoldsForEveryClass`, `ClassesTypeCorrect` and `TextsSurvive`. They assume
  (`ClassesAssumption`) that the two sessions are two and neither is the
  application or a recall, and that a buffer has room for the terminator.
- **Strings.** Bytes of a text and the walk of ocp1_rd_string are recursive
  functions. `Induction` is induction over the naturals without an operator to
  instantiate: a set of naturals that has a member has a least one
  (`LeastNatural`, from the well-foundedness theorems of the library). With it
  `WalkExists` and `PrefixesExist` show that the recursive definitions define,
  `WalkOverText` that the walk over a text ends where the text does, whatever
  follows it, and `TextCodepoints` that a text has as many leads as characters.
  `TextInv` is what holds between two calls, for buffers and texts of any length.
- **Framing.** `StreamImplemented`: `Framing` implements `FrameStream` for headers,
  buffers and frames of any lengths and every cut. The invariant `StreamIntact`
  reads the bytes on their way to process_rx (left in `rx`, held by the TLS
  library, on the wire) as one stream and says that it is the frames not yet
  handled, whole and in order: there is a place where each begins (`Layout`).
  Receiving moves bytes along the stream and leaves it as it is; handling a frame
  takes it off the front. `Parsed` says that outside process_rx the buffer holds
  no whole frame and has room, `OnlyTls` that a plaintext socket has no record.
- **ServerLoop.** `IInv` says of each slot where the running pass is with it
  (`Unread`, `Served`, `LookedAt`, `Driven`), and what follows for its data and
  its clocks. The heart is `LoopInv`: until the accepts are done, every descriptor
  `select` reported is that of a connection, so a connection accepted in between
  is never given one of them, and one that is closed is not read again.
  `ServerNeverBlocks`, `SpeakerNotTakenForSilent`, `SilenceIsNoticed`,
  `KeepAlivesOnTime` and `HandshakesEnd` hold for any number of connections, any
  intervals and any factor.
- **Lifecycle.** `OnItsWay` says for each place in aes70_device_start which
  sockets the device has, by the stages before it (`ToOpen`, `Serves`), and what
  it has given back when it is down (`GivenBack`). `Accounted` counts sockets: those
  in the pool and those held are all there are, but for the ones lost by the two
  mishaps named. It assumes finitely many devices, so that sockets held can be
  counted (`IsFiniteSet(Device)` in `LifecycleAssumption`).
- **SharedTexts.** `IInv` adds `LoadedIsText` (what a setter has loaded is still
  the text when it stores the new one, which is what the lock is for),
  `CopyStored` and `ReadsText` to `OneHolder`: a block belongs to one object, one
  setter or the heap. `ReadStaysValid` follows, for any number of tasks.

Only model-checked: liveness (`EverySetApplied`, `StopReturns`,
`EveryFrameHandled`). The proof system does not handle fairness here.

## Where the code and its texts disagree

Two runs show a disagreement as a violation of the very property the text
states:

1. `aes70_transport.c:541` says that without the wake pipe sets apply on the
   next 500 ms tick. `drain_cmd_queue` is called only when the wake socket is
   readable, so they are never applied (`MCSetQueueNoWake`).
2. `aes70_object.c:355-357` says that constructors run under dev->lock so that
   the tables stay coherent. `aes70_grouper_create`, `aes70_matrix_create` and
   AddGroup do not take it, and two of them lose an object
   (`MCSharedUnlocked`).

The others are where a checked property stops short of the text, and the
exception in the property says by how much:

3. `include/aes70.h:129-130`: stop stops the task and frees the tree. After two
   seconds it frees the tree although the task may be inside a send
   (`aes70_transport.c:568`; `FreedAfterExitUnlessStalled`).
4. `CHANGELOG.md:56-58`, at the top of the repository: a lock blocks writes from
   all other sessions. A recalled scene, and a write to a proxy, change a locked
   object (`LocksProtect`).
5. `aes70_object.c:110`: an unprivileged session may read but not write a
   secured object. Start and Stop of a signal generator, and the setters of
   OcaDeviceManager (`:157`), are not in the list of write methods (`GateHolds`).
6. `aes70_device.c:62`: one response per command. A malformed command ends the
   batch, and the count in the header stays (`WholeBatchAnswered` is about whole
   batches).
7. `aes70_object.c:355-357` again: `aes70_device_find` takes no lock and may meet
   an object whose limits are not set (`WholeOnceUnlocked` says nothing of a
   reader that does not wait for the lock).
8. `include/aes70_object.h:4-7`: a constructor inserts its object as a member of
   the parent block. When the list cannot grow the object exists and no block shows it
   (`MemberOfItsOwner` allows an object without an owner).
9. `aes70_matrix.c:24`: the selection names a cell or a whole line of the grid.
   SetMembers (`:102`) leaves it where it was (`OnlySetMembersStrands`).
10. `aes70_transport.c:550`: when the task cannot be created the wake pipe and
    the listeners stay open (`SocketsAccountedFor`).
11. `aes70_internal.h:200-202`: -1 is a listener that is not open. A start that fails
    before the transport leaves 0 there (`aes70_device.c:145-149`), and stop
    closes it (`SocketsAccountedFor`).
12. `aes70_mdns.c:7-8`: stop removes only our own service. With two devices it
    removes the other's (`AdvertisedWhileUp` is about a device that is alone).
13. `aes70_object.c:327`: values of the application are clamped. A float that is
    not a number is stored (`ValueOutsideOnlyKnownWays`).
14. `include/aes70_object.h:10-11`: a setter changes the value and announces it. A
    label set by the application, or on an agent, is not announced (`SubscribersKnow` leaves labels out).
15. `aes70_ocp1.c:11-13`: the count is of characters and the bytes are found
    from them. A text cut inside a character is answered with a count its reader
    cannot follow; and `aes70_ocp1.h:129` calls the count a byte length (`TextsIntact` is about
    whole characters).
16. `include/aes70.h:17-21`: the object tree "is never touched concurrently".
    A label set by an application task is freed while the server task writes it out (`ReadValidUntilSet` says until
    when a text may be read).

## Not modelled

- **Example, tools, host tests**: users of the component, none of its logic.
- **SetActuatorOrSensor and SetMode of the grouper**: store what nothing reads.
- **SetMultiple** of the DSP classes: not implemented in the code.
- **Ranges of the DSP parameters**: inside and outside, where a setter checks;
  several setters and the application path check nothing.
- **Bytes of a notification**, and EV1 against EV2: an event is its property and
  value.
- **Fixed-width fields, blobs and class ids of the codec**: no decision is taken
  in them. OcaString is in `Strings`, the writer's sticky error in `Router`.
- **The pair of requests of `aes70_dynamics_report_gain`**: it needs the queue
  with one place left and a multi-parameter object in one model.
- **Host name and TXT records of mDNS**: constants.
- **Service under a stalled send**: the one task waits; there is nothing the
  code promises meanwhile.
- **A controller that never sent a KeepAlive and vanishes** keeps its slot
  (`aes70_transport.c:342`), and **DeleteGroup leaves its proxy in the registry**
  (`aes70_grouper.c:136`): both are in the models as they are in the code, and no
  property says otherwise.

## Plan

Built in the order of what controllers rely on: Sessions, SetQueue, Framing,
ServerLoop, Grouper, Scenes, Parameters; then Router, Registry, Lifecycle,
Matrix, Values, Strings, SharedTexts.

What is left: the composition of `SetQueue` with `Parameters`, for report_gain.

## Running

    tlc -workers 2 -config MCSessions.cfg MCSessions
    tlapm SessionsProofs.tla

`MCServerLoop` has 3.2 million distinct states, the other runs between 7 and 395
thousand; each takes less than two minutes on two workers.
