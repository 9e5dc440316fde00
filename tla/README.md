# SoldierOfGoons: models, checks and proofs

SoldierOfGoons is a multiplayer shooter for Unreal Engine 5. The repository holds the game
(`Source/SoldierOfGoons`), a plugin with the main menu and the online sessions
(`Plugins/SupergoonOnline`), and the editor plugin RiderLink with its protocol library RD
(`Plugins/Developer/RiderLink`), through which the Unreal editor talks to the Rider IDE.
This directory holds TLA+ modules of the parts where order, failure or distance matter,
TLC configurations that check them on small instances, and proofs that TLAPS checks.

The engine, the online subsystem (Steam), TCP and the IDE are not in the repository. They are
modelled from how the code uses them, as freely as that allows: they may delay, fail, refuse and
lose what their interface lets them.

## 1. Inventory

### The game

| part | state | operations | what is hard |
|---|---|---|---|
| Aiming: `UCombatComponent`, `ASupergoonCharacter` | `bIsAiming` and the walking speed of a character on every machine | Aim key down and up, `ServerSetAiming`, replication | the owner predicts, and the server's answer writes the same variable; answers are late, lost, resent |
| Pickup: `AWeapon`, `ASupergoonCharacter`, `UCombatComponent` | overlaps, `OverlappedWeapon`, `WeaponState`, `EquippedWeapon`, owner, prompts | walk in and out of a sphere, Equip key, `ServerEquipButtonPressed`, three RepNotifies | players compete; the equip call names no weapon; disabling a sphere ends overlaps from inside the equip; notifies come in any order |
| Aim offset: `ASupergoonCharacter` | twist, pitch, turning state | one computation a frame | angles wrap; frames are of any length; turns start, reverse and end |
| Menu and sessions: `UMenuUi`, `USupergoonSessionsSubsystem` | buttons, delegate handles, the named session, calls in progress | Host, Join, four completions, travel and return | asynchronous completions, refused calls, handles overwritten, destroy-then-create |
| Lobby: `ALobbyGameMode` | number of players | a login makes the server travel | logins while travelling |
| Movement, camera, animation instance, overhead widget | none that decides anything | | |

A player's client calls the server with reliable RPCs; the server writes replicated properties, and
the engine carries them to the clients, each on its own and only its latest value, and runs their
RepNotify. The menu calls the subsystem, the subsystem the session interface; completions come back
through multicast delegates, the subsystem's first, then the menu's.

### RD and RiderLink

| part | state | operations | what is hard |
|---|---|---|---|
| Asynchronous sender: `ByteBufferAsyncProcessor` | three buffers, three sequence numbers, a balance of interruptions, a state | `put`, the async thread, `pause`, `resume`, `acknowledge`, `stop` | four locks, two threads and callers, connections that break between any two steps |
| Socket wire: `SocketWire`, `PkgInputStream` | sockets, numbers received, message being read, timestamps | accept or connect, send, read, acknowledge, ping | resends and duplicates, framing, blocking sends |
| Replicated property: `RdProperty` | value and version at each end | `set`, `on_wire_received` | changes at both ends cross |
| Message broker: `MessageBroker` | handlers per id, messages without one | `dispatch`, `advise_on`, end of a lifetime | half of it without the lock, on two threads |
| Calls: `RdCall`, `RdEndpoint`, tasks | tasks in progress, the id of a synchronous call, tasks at the endpoint | `sync`, `start`, answer, cancellation | timeouts and late answers, tasks known by raw pointers, three threads that set one result |
| Replicated map: `RdMap`, `ViewableMap` | entries, versions, changes not acknowledged | `set`, `remove`, `clear`, `on_wire_received` | changes of one key at both ends cross; pointers to keys that are gone |
| Model handshake: `RdExtBase`, `ExtWire` | connected, messages queued until then | Ready, ReceivedCounterpart, Disconnected | order of what was queued and what is not |
| Lifetimes: `LifetimeImpl`, `LifetimeDefinition`, `SequentialLifetimes` | actions, nested lifetimes, terminated | add, remove, bracket, nest, terminate, next | termination against another thread's add; one erase is not locked |
| Model connection: `RiderLink.cpp` | the model, whether it is alive | connect, disconnect, view, queue, fire | the model is replaced under its users |
| Game control: `RiderGameControl.cpp` | play mode, delegates | editor events, IDE's requests | two threads change one setting, and so does the IDE |
| Logging, Blueprint, shader links | little | send a line, open a blueprint | they use the model connection |
| Lists, sets, signals, schedulers, interning, buffers | | | libraries the rest stands on |

What the editor sends goes through `ExtWire` to `SocketWire::send`, which writes one package and puts
it into the sender; the async thread sends it. At the other end the wire thread reads packages,
acknowledges them, puts messages together and gives them to the broker, which runs handlers on the
scheduler's thread.

`PROJECT.json` lists every part with what is modelled of it, and under `hazards` the places where the
code is hard to test, each with the properties that would show it go wrong.

## 2. Modules

| module | models | extends or instantiates |
|---|---|---|
| `Aiming` | one character's aiming on all machines | |
| `WeaponOwnership` | abstract: a weapon is taken once | |
| `WeaponPickup` | spheres, equip, replication on all machines | implements `WeaponOwnership` |
| `AimOffset` | one character on one machine, frame by frame | |
| `MenuSessions` | menu, subsystem and session interface | |
| `AsyncProcessor` | the sender and the two threads that drive it; it is also the abstract specification of a wire | |
| `SocketWire` | the wire in one direction: `AsyncProcessor`, a connection that loses what is on it, and the reading end | extends `AsyncProcessor` and implements it |
| `RdProperty` | a property at both ends | |
| `RdMap` | a map at both ends | |
| `ExtWire` | a model's wire: the queue until the counterpart is ready | |
| `ModelLink` | the editor's model on one connection after the other: `RiderLink.cpp`, `RdExtBase`, `MessageBroker` | extends `ExtWire` and uses it as its wire |
| `RdCall` | calls at one end, the endpoint at the other, tasks at both | |
| `GameControl` | play settings, session and requests between the editor's two threads and the IDE, on one connection after the other | |
| `ViewContract` | abstract: what a view of a property promises its handler | |
| `Lifetimes` | lifetimes under the view of a property, with three threads | implements `ViewContract` |
| `*Proofs` | theorems on the module of the same name; `SoldierOfGoonsProofs` on `Aiming`, `AimOffset` and `MenuSessions`, `RdPropertyCallProofs` on `RdProperty` and `RdCall` | extend it |
| `MC*` | what TLC runs; the instances are in the `.cfg` files | extend it |

### How state and actions correspond to the code

Names are the source's where TLA+ allows. `PROJECT.json` maps each definition to its lines.

**Aiming.** `aiming` and `speed` are `bIsAiming` and `MaxWalkSpeed` per machine. `SetAiming` is the
owner's part, run by `AimButtonPressed` and `AimButtonReleased`; `ServerSetAiming` is the RPC's body at
its arrival. `rpc` is the reliable channel. `repl`, `shadow` and `dirty` are the engine's property
replication: what is in flight to a client, what was sent last, and whether it was acknowledged. A
client stores an update and runs no notify, because the property is `Replicated` and not
`ReplicatedUsing`. So the walking speed does not follow an update, and `SpeedFollowsInput` says what it
does follow. The host is the case `Owner = Server`: the RPC runs in place. The proofs cover it, the run
has a remote owner, where something can go wrong.

**WeaponPickup.** The server has the physics (`inside`, `sphereOn`) and `overlapped`; a client has
`prompt`, the copy of its own character's `OverlappedWeapon`, and `widget`, what is on the screen.
`SetWeaponState` is one step with the overlaps it ends, as the engine calls `OnSphereEndOverlap` before
`SetCollisionEnabled` returns. A net update is modelled at its arrival with the server's value of then,
per property and client, which yields every order and every skipped value.

**AimOffset.** A step is a frame with any camera direction, any pitch, standing or not. `FInterpTo`
goes any part of the way but not nowhere, whatever the length of the frame is. Angles are multiples of
`Grid`; comparisons against 90 and 15 keep their sides.

**MenuSessions.** The subsystem's delegates of one kind are all alike, so a delegate list is its length
and whether the handle names an entry. A completion sets `running` and runs its delegates one by one,
with nothing in between. `session` is what `GetNamedSession` returns. The interface may refuse or accept
where the code asks it, and complete with success or failure.

**AsyncProcessor.** One action per locked section of the async thread (`TakeData`, `ProcessBegin`,
`ProcessSend`, `ProcessMove`, `ProcessEnd`) and of the wire thread (`ResumeLock`, `Resume`,
`Acknowledge`, `PauseLock`, `PauseEnd`), and `Stop`, `Cleanup`, `CloseSockets` for the end of the wire's
lifetime. `lock`, `queue_lock` and `processing_lock` are read off the positions of the two threads that
hold them for longer than a step. Between `TakeData` and `ProcessBegin` no lock is held, as in the code.
Packages are numbered in the order of `put`.

**SocketWire.** `line` is what was sent on the connection and is not acknowledged: first what the reader
has read (`returning`), then what is under way. A break keeps any prefix of either. `stray` counts the
bytes that a duplicate leaves in the reader's stream (`read_package` returns `true`, which
`PkgInputStream` takes for a length of 1), `in_step` whether messages still begin where packages do.

**RdProperty.** Both ends run the same code; the end with `is_master` counts versions. Nothing under
`src/` sets `is_master`, the IDE's end does. The wire delivers in order and once.

**ExtWire, ModelLink.** Three kinds of threads. The wire thread (`WireThread`) dispatches messages and
begins and ends the lifetime of a connection; the scheduler's thread (`SchedulerThread`) binds models and
handles messages that were dispatched without a handler; senders call `FireAsyncAction`. A step is what
runs under one lock, or one access to what the code shares without: the task of `MessageBroker::dispatch`
is `StartDispatched` (67, unlocked), `TakeMessage` (69-77), `Invoke` and `RunHandler` (the test of
`invoke` is locked, the handler is not), `TestEmpty` (90), `MoveOut` (92), `Erase` (93) and the loop,
`Invoke` again. `advise_on` is `Subscribe` and `AddUnsubscribe`, since a lifetime can end between its
lines 138 and 143. `AddAction` throws on a lifetime that has ended and the task ends there. `setting`
has the threads between setting `connected` and the end of its listener, `passed` the senders between
the locked part of `ExtWire::send` and the real wire's `send`. `raced` remembers that a message came
while an entry of the broker was being taken away.

Taken in one step though the code has two: the parent and the id of a model with the action that takes
them back (`RdBindableBase::bind`), and `extProtocol` with its own. An access to one of the broker's maps
while another thread changes it is taken to come before or after; a handler of a model that is gone, and
an iterator to an entry that is gone, to do nothing, if the program goes on. Line 96 without a handler
ends the thread (`crashed`). The broker is modelled for the model's id, which is the same on every
connection; members of the model have ids and handlers of their own. Messages arrive once and in order.

**RdMap.** `map` is the entries per end, `pendingForAck` the master's changes that are not acknowledged,
`incoming` the messages on their way. Changes are `Set`, `RemoveKey` and `Clear`, which sends one removal
per key in the order the map has them in; `OnWireReceived` is the whole handler with its acknowledgement.
`pendingForAck` is keyed by a pointer to a key: the map's own copy, or the caller's for a removal. `Void`
marks those whose key is gone, and `Find` lets a lookup then find the entry or not. `emplace`
(`RdMap.h:116`) keeps the version a key has already, as `std::map` does. `loose` remembers the keys that
went one of these two ways. `init`'s own first messages are changes like others: the model starts empty.

**RdCall.** Four threads: the scheduler's makes calls, waits in `sync` and runs what answers to `start`
queue; the wire thread brings answers; the terminator ends `bind_lifetime`; the endpoint answers.
`StartInternal`, `AddUnsubscribe`, `AddCancel` and `Send` are the pieces of `start_internal` between which
the lifetime can end; `Refuse` and `Throw` the two ways out that leave `sync_task_id` set. The broker and
the queue have a task by its raw pointer, so `subscriptions` and `queued` may name one that is not in
`held`. `set_if_empty` is two steps, `SetIfEmpty` and `Store`, and `Fire` notifies; `setting` has the
threads in between. A late answer to a task that has its result is dropped, and unwrapped for the log, which
throws unless it is a success (`Throws`). The response scheduler of `start` logs that; for `sync` the loop
of the wire thread ends in the middle of a message (`SocketWire.cpp:62`) and the rest of it is taken from
what the next connection brings, so `reading` is false and no answer is read any more. An endpoint answers
in place, later, more than once, with an equal result again (`operator==` of results compares addresses), or
never; an endpoint without a handler throws and never answers, which is `HandleLater` without a `Complete`.
The listener of an endpoint's task refers to a local that is gone when the result comes later: the process
goes on or ends (`endpoint_up`).

**GameControl.** Two threads. The scheduler's runs `queue`: a model that comes alive (`Construct`,
`Subscribe`, `Retrieve`, `Sync`), its end (`Reset`), actions queued by the game thread, and what the IDE
sends (`Receive`). What it queues itself runs in place, as `invoke_or_queue` does (`ScheduleModelAction`).
The game thread has the user's changes, the session's events and the commands. Both threads run
`OnObjectPropertyChanged`: `ReadSettings`, `Compare`, `SendMode`. `playMode` is not initialised by the
constructor and is anything the memory had, the constant `Uninitialized`: any integers in the proofs, in the
run the mode of any of the settings or of none. A queued action keeps the pointer of its control: after
`Reset` it does nothing, or speaks for the control that has its memory. `PackToMode` and `UnpackFromMode`
are the packing of the settings into the bits of an integer; more than four clients spill over. `met`
remembers that a change at one end was handled while one of the editor's own was not sent yet, `told` that
the IDE heard of the session on this connection.

**Lifetimes.** `todo` is what each of three threads has left to do, the innermost call first, so that
actions run from inside `terminate` are steps of their own. `Terminate` and `Take` are `terminate` up to and with
the lock, `Attach` and `AttachBack` the halves of `attach_nested`, `Swap` and `WriteCurrent` those of
`set_current_lifetime`, `Return` the end of `next`. The action that takes a nested lifetime out of its
parent erases without the lock (`LifetimeImpl.cpp:56`): `Erase`, or `Tear` when another thread is inside
the parent's lock, which may lose any of the parent's actions. The view is set up in `Init`, and the value
it finds comes as a first change.

## 3. Runs

Every run finishes in about two minutes or less. The instances are the smallest with the competition that
matters.

| run | instance | question |
|---|---|---|
| `aiming` | a remote owner, a watching client, the server; 3 calls and 2 updates in flight | Does what the player holds down arrive everywhere, and stay? |
| `pickup` | host and two remote players, two weapons, one call in flight each | Is each weapon taken once, do machines agree, do prompts tell the truth? |
| `menu` | at most two delegates of a kind in a list | Is any completion lost, does any button stay off? |
| `aim_offset` | a grid of 30 degrees, five pitches | Does the upper body snap, do turns end, is the pitch right for all? |
| `property` | three values, five changes | Do the ends agree, who wins? |
| `map` | two keys, two values, four changes | Do the ends agree, and does the master know what is not acknowledged? |
| `wire` | three packages, three connections | Is anything lost, doubled, renumbered or stuck, inside the sender and end to end? |
| `wire_lost` | three packages, three connections | *violation*, see below |
| `link` | two connections, two models of Rider's, one sender with two sends a model | Do both ends find each other however they come and go, and does what is sent keep its order? |
| `call` | two calls, three results of tasks set later or twice | Does each task get its own, first result, keep it, and is nobody left waiting? |
| `play` | two connections, three changes, one request, two settings at the editor and one mode at the IDE | Does the IDE show what the editor has, and is each request answered once? |
| `lifetime` | three changes of the property | Is every action run once and in reverse, and does nothing outlive the wire? |

Why the bounds are enough:

- **aiming.** Three calls let press, release and press cross with an update; two updates in flight let an
  old one overwrite the prediction while a new one is behind it. The player may go on for ever: nothing
  counts presses.
- **pickup.** Three players and two weapons give two spheres that intersect, a rival in each, and a
  character that takes a second weapon. A second call in flight from one player would find what the first
  left, which the first call of a player who already has a weapon does too.
- **menu.** Two entries are a list with one stale delegate besides the current one, the case the handles
  can go wrong in. The proof of `MenuCompletionIsHeard` has no such bound.
- **aim_offset.** With 30 degrees there are angles on both sides of 90 and below 15 (0); the other side of
  15 is 30. Finer grids run longer and find nothing else.
- **property.** Five changes allow two at each end to cross and one after them.
- **wire.** Three packages are one acknowledged, one pending and one queued; three connections are a
  break with resends on their way to the next break. The liveness part has the same instance.
- **link.** Two connections let the first's messages meet the second's model, two models of Rider's the
  same at its end. Three of either were run too and hold. One sender is enough for a send to cross the
  listener of `connected`; more senders and sends are the proof's.

- **map.** Two keys make `clear` send two removals; four changes allow two at each end to cross on one
  key, and a second change of a key before the first is acknowledged.
- **call.** Two calls let the late answer to the first meet the second, synchronous or not; three results
  let one task be set twice and another once.
- **play.** Two connections let an action of the first control run when the second is there, with a change
  on either side and one more; settings with five clients spill over in the mode, those with four do not,
  and the mode 0 of the IDE is neither. A second request would be handled as the first.
- **lifetime.** Three changes are a lifetime that ended, one that ends, and one made meanwhile; four were
  run too and hold.

### Properties worth knowing

- `QuiescentAgreement`: on a machine nothing is in flight for, `bIsAiming` is the player's button.
- `OverlapIsFree`: whenever an equip call arrives, what it takes is in reach and nobody's.
- `PromptIsOwnOverlap`: a machine prompts for its player's overlap unless it knows the weapon to be taken,
  whichever update came first.
- `OwnershipPromise`: `WeaponPickup` implements `WeaponOwnership`, `owner` being mapped to itself.
- `CompletionIsHeard`: handles are overwritten and cleared by refused calls, yet every accepted call finds
  a delegate at its end.
- `ButtonsReturn`: neither button stays off for good, but for a search that finds sessions and none of the
  menu's match type, which the code leaves so (`MenuUi.cpp:128`).
- `AnglesRight` (`TwistIsTurnable`, `PitchIsSeen`), `TurnSettles` (`UnwindsOnly`, `TurnEnds`): no snap of the
  upper body, the player's pitch on every machine, and no turn for ever.
- `SenderSafe` joins four statements of the sender. `Conserved`: its three buffers are, one after the other,
  exactly the packages from `current_seqn` on, in order, so a number always carries the same package;
  `KeepsUnacknowledged`; `PopsWhatItHas`; `ResentOnTheLine`: on a living connection everything sent and not
  acknowledged is on it. `SenderLive`: it sends what is put while connected, and its thread ends.
- `ReaderSafe` (`FirstConnectionExact`, `TwiceOnlyFromStart`): what the reader dispatches, on the first
  connection and after. `AllAcknowledged`: on a connection that lasts everything is acknowledged in the end.
- `SenderPromise`: the counterpart acknowledges as `AsyncProcessor` expects. `line` and the other
  variables are mapped to themselves; the reader's steps are stutters or acknowledgements.
- `SendSafe` (`SentInOrder`, `NothingStuck`): the queue of `ExtWire` neither loses nor reorders nor keeps
  anything.
- `Handshake`: when all is handled, two models that are there know each other, whether the first messages
  found a handler or waited in the broker.
- `Agreement`, `LastWord` of `RdProperty`: both ends agree when all is received; the master's last change
  beats what it crossed.
- `Agreement`, `Bookkeeping` of `RdMap`: the same for the entries of a map, and a key is pending exactly
  while its change or the answer to it is on its way, so that no key stays closed to the other end.
- `ResultsHold`: a task's result is the first its own request was given, or a cancellation, whichever calls
  timed out before (`FirstResultCounts`); and while the lifetime lasts nothing new comes for a task that was
  let go with its result, if the endpoint answered once: nothing on its way to its pointer, nothing queued with
  it, no thread about to store in it (`NothingComes`). That does not make letting go safe, see `GoneIsUntouched`.
  `ResultFinal`: three threads test and store in two steps, and still do not overwrite one another while the
  lifetime lasts; when it ends meanwhile, only a cancellation and an answer may replace one another.
  `RefusesOnlyAfterFailure`: a success leaves the call usable; that a failed call does not is what
  `RdCall.h:83` does. `TaskEnds`: nobody waits for good, unless a late answer made the wire thread throw.
- `Agreement`, `IdeInStep`, `EveryRequestAnswered` of `GameControl`: with nothing under way the IDE shows the
  editor's mode and session; each request is answered, and once.
- `ActionsAccounted`, `EndsWithRoot`, `EverythingEnds`: an action is run once, in reverse order, or was
  removed; the wire's lifetime ends everything under it. `ViewPromise`: `Lifetimes` implements `ViewContract`,
  with `given` mapped to the lifetimes handed to the handler, `ended` to those of them that are terminated, and
  `over` to the end of the view's own.

Four properties except what the code does not keep, by a variable that is set where it bites;
without the exception TLC finds a violation:

- `raced` in `Handshake`: a message came between the test of line 90 of `MessageBroker.cpp` and the end of
  line 94's loop. It is lost, and both ends wait for ever.
- `met` in `GameControl`'s `Agreement`: a change of the IDE's, or the first mode, was sent in place while a
  change of the user's waited in the queue. The IDE is then sent the older last.
- `loose` in `RdMap`: a key the master removed, or changed again before the answer, has an entry in
  `pendingForAck` with the first version, or one that cannot be found; the ends may then differ for good.
- `reading` in `TaskEnds`: a second answer to a `sync` that has its result, or one that follows the result of
  a cancelled lifetime, made the wire thread throw. Answers behind it are not read.

The unlocked erase of `Lifetimes` needs no exception: `Tear` loses actions of the view's only when it has no
second nested lifetime, and those it loses do nothing any more. What else a broken map may do is not
modelled.

### What the code does not keep

One run ends with a violation:

- `wire_lost` (`ForgottenWasRead`). The async thread may send a new package on a connection before `resume`
  has sent the pending ones. If its acknowledgement arrives and the connection then breaks, packages nobody
  has read count as acknowledged. The same race contradicts the comment in `acknowledge` that the next number
  must be greater than the last.

Five more statements are written down in the modules and are not kept. Put one of them in the run's
configuration to see the counterexample. The first four are what the repository says or its code is for; the
last is what a holder of a task would need, and nothing in the repository promises it:

- `InReachCanPickUp` (`WeaponPickup`, run `pickup`). `OnSphereEndOverlap` clears the overlap whichever weapon
  it is with. Walk into a second sphere and out of the first: in reach, with nothing to pick up, until one
  walks out and in again.
- `NothingStranded` (`AsyncProcessor`, run `wire`, as a property). If sending fails the package stays in
  `queue`. `resume` sends `pending_queue` again, and the async thread sleeps while `data` is empty: on the new
  connection the package waits for the next `send`.
- `MessagesAreWhole` (`SocketWire`, run `wire`). A package that was read and whose acknowledgement was lost
  comes again. It is recognised, but a byte of it enters the stream of messages, and the next message is read
  with a wrong length.
- `HandlerRemoved` (`ModelLink`, run `link`). `advise_on` tests the lifetime, subscribes, and adds the action
  that unsubscribes. If the connection ends between, `add_action` throws and the subscription stays, to a
  model that the next connection destroys.
- `GoneIsUntouched` (`RdCall`, run `call`). `sync` times out while the wire thread is between the test and the
  assignment of `set_if_empty`, or sees the result before the wire thread has come back from `change.fire`
  (`WiredRdTaskImpl.h:57`, `RdCall.h:76`). The task is let go, and the wire thread stores in it or runs its
  listeners. What that does is undefined; the module takes it to do nothing.

The properties of the wire state what holds in spite of these: `Conserved` is about the sender,
`AllAcknowledged` about numbers, and `ReaderSafe` about what is dispatched while the reader is in step.
No run is spent on what is plain from one line: `OnSessionCreateComplete` broadcasts `true` whatever it
was told, so the menu reports success and travels after a failed creation.

### Fairness

- `aiming`, `pickup`: reliable RPCs arrive, net updates recur (weak fairness); of infinitely many packets
  to a client one arrives (strong fairness, in `Aiming`, where losing is a step). Players owe nothing.
- `menu`: a started completion runs its delegates; the session interface completes every call it accepted,
  in any order. No two complete at once, so this is strong fairness. The player may click or not.
- `aim_offset`: frames keep coming.
- `property`: what is sent is received.
- `map`: what is sent is received.
- `wire`: threads that can run do, and what arrives is read. `Put`, connecting, breaking and stopping have
  none. Sends are taken to return. With both directions full and both ends sending they would not: that
  deadlock is listed under `hazards` and is not modelled.
- `call`: each thread goes on with what it is in, and a request is handled. Nobody has to make a call, let a
  task go, end the lifetime, or complete a task that a handler returned without a result.
- `play`: both threads of the editor and the IDE go on with what they have. Users and connections owe nothing.
- `lifetime`: a thread goes on with its calls, and the scheduler with its queue. Nobody has to set the property
  or to shut down.
- `link` states safety only.

Weak fairness is enough for threads: none of their steps is disabled again by another thread for ever.
Deadlock is checked in `aiming`, `pickup`, `menu` and `aim_offset`, which go on for ever. In the other runs the
bounds on packages, connections, calls and changes end a behaviour, and a stopped wire, an ended lifetime and
an endpoint that is gone really stop.

## 4. Proofs

The theorems hold for every value of the constants that the named assumptions allow: disjoint names of
machines, positive bounds, a grid of angles that divides 180, a finite set of keys (`clear` sends one removal
for each), and modes of the IDE below 112. A mode is a word of bits with the type from bit 4 on. The IDE offers
the seven types `PlayModeFromInt` names; a word of an eighth type would be read as the default and, as the
settings it yields are packed without that type, the two ends would differ. Each invariant is proved from an
inductive one, which is checked the usual way: initially, through every action, and implying what is claimed.

| module | theorems | the invariant and why it is needed |
|---|---|---|
| `SoldierOfGoonsProofs`, of `Aiming` | types, speed, `QuiescentAgreement` | `IInv`: the youngest call in flight, or else the server, has the button's state; the youngest update in flight is what the server remembers; with nothing in flight a client has what was sent last or is the owner with its own prediction. Agreement alone says nothing of channels that are not empty. |
| `SoldierOfGoonsProofs`, of `AimOffset` | `AnglesRight`, `UnwindsOnly` | between turns the twist is the distance from where the aim started, or a turn has just ended; differences and parts of multiples of the grid are multiples. |
| `SoldierOfGoonsProofs`, of `MenuSessions` | types, `CompletionIsHeard` | `HInv`: while two calls of a kind are unanswered the list has an entry besides the one the handle can remove. |
| `WeaponPickupProofs` | types, `OverlapIsFree`, `SingleHolder`, `PromptIsOwnOverlap`, `OwnershipPromise` | `IInv`: an enabled sphere is a free weapon's; what a machine shows in a hand belongs to that character. `PInv` adds that the server's equipped weapons are those without a sphere and that no client knows of one first. The refinement uses `OverlapIsFree` for the guard of `Take`. |
| `SocketWireProofs` | of `AsyncProcessor`: types, `SenderSafe` and its four parts; of the wire: `WireImplementsSender`, types, `ReaderSafe` and its two parts, `SenderSafe` | for the sender, the buffers' contents with the positions of the two threads: what is in `sent` is the front of the queue, what is on the line has been sent, what is acknowledged was on the line. Every wire step is a sender step or a stutter, so the sender's theorems hold of the wire. `TwiceOnlyFromStart` needs that between two dispatches of the first package numbers grow. |
| `RdPropertyCallProofs`, of `RdProperty` | types, `KnowsNoMore`, `LastWord`, `Agreement` | versions in each direction never fall, answers never know more than the slave, and the last message to the slave is the master's value; with nothing on its way these leave one value. |
| `RdMapProofs` | `Agreement`, `Bookkeeping` | `IInv` follows one key at a time (`Course`): the master waits for at most one answer about it, which is on its way in one place and has the pending version (`OneWaits`, `Answers`); what the slave will be told is what the master has (`News`); and when it will be told nothing, its last message, or without one its entry, is what both will have (`Decides`). A change or a message leaves the course of other keys alone, and `clear` is as many removals as there are keys. |
| `ModelLinkProofs` | `LinkUsesExtWire`, types, `SendSafe` and its two parts | every step of the link is one of `ExtWire` or leaves it alone. `ExtInv`: what was accepted, sent or queued, grows by sender, has every send that is done (`Done`) and no other, and a sender between the halves of a send has nothing queued; so its message may go ahead of the queue, which has only others'. `LinkTypes` adds to the types that a handler that is about to run has a message. |
| `ModelLinkProofs` | `Handshake` | `HandshakeInv`: models are bound in the order of their connections, the last one's is bound or going to be (`Bindings`); the model of a connection that stands is subscribed, or on its way to be (`Subscribed`); until a message raced, each message in the broker without a handler has a task that will take it, in the order it came (`Entry`); and what is still to be heard at both ends, read in order, brings each model to know the other (`Conversation`). A property of what is left when all is handled says nothing of what is under way, which is what these do. |
| `RdPropertyCallProofs`, of `RdCall` | types, `RefusesOnlyAfterFailure`, `ResultFinal`, `ResultsHold` | `IInv`: which thread sets which tasks, so that what a thread is about to store finds the task as it tested it; a call that is not sent has no answer; the task of a synchronous call that did not succeed is gone. `RInv` follows one call through the wire, the broker and the queue: its messages keep their order, the first one a waiting task can get is the first result its request was given, and a request given one result has its message in one place. |
| `GameControlProofs` | `Agreement`, `IdeInStep` | `IInv`: the queue of a new connection has the ends of the old ones, then its model's coming alive, and before that nothing of its own (`Links`); the last mode in the queue, or without one the last mode on its way, or without one the mode the IDE shows, is the editor's, unless a thread is in the handler (`ModesInv`); the same for the session's state (`StatesInv`); and a request, a command or an answer for it is in one place at most (`RequestsInv`). That packing and unpacking settings come back to the same mode is proved of all settings. |
| `LifetimesProofs` | `EndsWithRoot`, `ViewPromise` | `LifetimeInv` says where the three threads are: only the lifetime made last can be alive, and then the wire is about to attach or to end it, or the view has the action that ends it, or the game thread has taken that (`MadeInv`); what the game thread has left to do once `Root` has ended takes the view's actions before it is done (`GameInv`); and while `next` runs `current_def` is its own or, once the view is over, the eternal one (`WireInv`). The two properties speak of the lifetimes that were handed out, and say nothing of one that is still being made. From the same invariant every step is one of `ViewContract` or a stutter. |
| `LifetimesProofs` | `ActionsAccounted` | `AccountInv`: an accepted action is in one lifetime, on one thread, run or removed (`PlaceInv`), and in no lifetime but the one it was added to (`HomeInv`); in that lifetime a bracket is before the plain action, on a thread behind it, and where the plain one is and the bracket was accepted the bracket is too, until it is run (`OrderInv`). `terminate` reverses the one order into the other. Most steps move none of these actions (`Quiet`), and those that do are looked at one by one. |

Only model-checked: liveness (`Convergence`, `EventualAgreement`, `ButtonsReturn`, `TurnSettles`, `SenderLive`,
`AllAcknowledged`, `TaskEnds`, `EveryRequestAnswered`, `EverythingEnds`), since the prover does not reason about
fairness and `ENABLED`. Every safety property of a passing run is a theorem.

## 5. What is not modelled

- **Heartbeat.** Pings, the three timestamps and `heartbeatAlive` (`SocketWire.cpp:374`): nothing under `src/`
  but a log line depends on them.
- **Full socket buffers.** Two ends that both send before they read block each other (`SocketWire.cpp:140`).
  What a full buffer does is the socket library's and the peer's.
- **The broker** with several ids at once and with handlers that have a scheduler of their own; and what an
  unlocked access to a map that is being changed may do beyond reading it before or after.
- **`RdList`, `RdSet`, `RdSignal`.** A list counts versions in one direction, a set has none, a signal is one
  send and one fire: nothing can cross in them that does not in `RdMap`.
- **Logging, Blueprint and shader links.** They fire lines and requests through `FireAsyncAction`, which
  `ModelLink` has, and keep nothing between messages.
- **Schedulers.** A queue that one thread runs, or a call in place; the modules take the first as first in,
  first out.
- **Interning and identities.** No type of the editor's model is interned; identities are two disjoint
  counters, hashed.
- **The lobby.** Three lines without state: a login that finds two players or more makes the server travel.
- **Movement, camera input, animation, the overhead widget, start and shutdown of the modules, byte buffers
  and serializers, the containers of rd_core, generated and third-party code, assets, configuration and build
  output.** They keep no state a property depends on, or are not this program's. Third-party and generated
  code is by far the most of the repository's lines.

In modelled parts, left out: attachment to the hand socket and the mesh's physics, texts and timers of screen
messages, the empty `StartSession`, session settings but the match type, a missing session interface, nested
entities in properties and maps, exceptions thrown by handlers other than an endpoint's and a late
answer's, `terminate()` of the sender, which has no caller, the reconnection delay of `SocketWire::Client`, the port file of
`ProtocolFactory`, and the cache of commands of `RiderGameControl.cpp` (a command is registered or not).
