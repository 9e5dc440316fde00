----------------------------- MODULE ModelLink -----------------------------
(***************************************************************************)
(* The editor's end of the model: RiderLink.cpp makes one for every        *)
(* connection, RdExtBase binds it and shakes hands with Rider's, and       *)
(* MessageBroker brings it the counterpart's messages.                     *)
(*                                                                         *)
(* Three kinds of threads: the wire thread dispatches messages, and begins *)
(* and ends the lifetime of a connection; the scheduler's thread runs      *)
(* tasks, which bind the model and handle messages that found no handler;  *)
(* the senders call FireAsyncAction.  A step is what runs under one lock,  *)
(* or one access to what is shared without.  MessageBroker::lock is the    *)
(* wire thread's while it handles a message, and the scheduler's inside    *)
(* advise_on.  The model has the same id on every connection, and the      *)
(* broker is modelled for that id.                                         *)
(*                                                                         *)
(* Messages of both directions arrive once and in order (SocketWire).      *)
(* Rider's end answers like this one but has no threads to tell apart.     *)
(***************************************************************************)
EXTENDS ExtWire, SequencesExt

CONSTANTS
  MaxConnections,  \* bound: connections of the wire
  MaxBindings      \* bound: models Rider's end makes

ASSUME ModelLinkAssumption ==
  MaxConnections \in Nat /\ MaxBindings \in Nat /\ Threads = {"wire", "main"}

VARIABLES
  connection,    \* connections so far
  link,          \* whether the last of them stands: "up", "ending", "down"
  actions,       \* its lifetime's actions, in the order they were added
  subscription,  \* the model subscribed for the id, by its connection; 0: none
  listed,        \* the broker has an entry for the id, with these two lists
  default_scheduler_messages,
  custom_scheduler_messages,
  tasks,         \* the scheduler's queue
  main,          \* what the scheduler's thread is about to do
  handler,       \* the subscription a dispatched task has read
  batch,         \* the messages it is to invoke the handler for
  orphans,       \* dispatched tasks whose list is gone
  model,         \* EditorModel, by its connection; 0: none
  bound,         \* whether it has its parent and id
  alive,         \* RdIsModelAlive
  toEditor, toRider,  \* messages on their way
  rider,         \* Rider's end
  raced          \* a message came while an entry was taken away

lifetimeVars == <<connection, link, actions>>
brokerVars == <<subscription, listed, default_scheduler_messages, custom_scheduler_messages>>
mainVars == <<tasks, main, handler, batch, orphans>>
modelVars == <<model, bound, alive>>
riderVars == <<toEditor, toRider, rider>>
vars == <<extVars, lifetimeVars, brokerVars, mainVars, modelVars, riderVars, raced>>

States == {"Ready", "ReceivedCounterpart", "Disconnected"}

Task(kind, c) == [kind |-> kind, connection |-> c]

\* Mutant: the task binds for the connection after its own.
Bind_Next(c) == Task("bind", c + 1)

Bind(c) == Task("bind", c)

Dispatched == Task("dispatched", 0)
Ended == Task("ended", 0)

Init ==
  /\ NewExtWire
  /\ connection = 0 /\ link = "down" /\ actions = <<>>
  /\ subscription = 0 /\ listed = FALSE
  /\ default_scheduler_messages = <<>> /\ custom_scheduler_messages = <<>>
  /\ tasks = <<>> /\ main = "idle" /\ handler = 0 /\ batch = <<>> /\ orphans = 0
  /\ model = 0 /\ bound = FALSE /\ alive = FALSE
  /\ toEditor = <<>> /\ toRider = <<>>
  /\ rider = [bound |-> FALSE, connected |-> FALSE, bindings |-> 0]
  /\ raced = FALSE

\* lifetime->is_terminated(), of the connection c.
Terminated(c) == link # "up" \/ connection # c

\* lifetime->add_action(a): throws on a lifetime that has ended, and the task
\* that runs ends with the exception (PoolTask logs it).
AddAction(c, a, next) ==
  IF Terminated(c)
    THEN main' = "idle" /\ UNCHANGED actions
    ELSE main' = next /\ actions' = Append(actions, a)

\* RdExtBase::on_wire_received on thread t.  A model that is not bound has no
\* id to answer under.
Handle(t, state) ==
  /\ toRider' = IF state = "Ready" /\ bound THEN Append(toRider, "ReceivedCounterpart") ELSE toRider
  /\ SetConnected(t, state # "Disconnected")

\* The wire thread keeps the broker's lock while it handles a message.
Unlocked == "wire" \notin setting

-----------------------------------------------------------------------------
(* The wire thread.                                                        *)

Connect ==
  /\ link = "down" /\ connection < MaxConnections
  /\ connection' = connection + 1
  /\ link' = "up" /\ actions' = <<>>
  /\ tasks' = Append(tasks, Bind(connection + 1))
  /\ UNCHANGED <<extVars, brokerVars, main, handler, batch, orphans, modelVars, riderVars, raced>>

\* An entry is taken away between the test of line 90 and the end of the loop
\* of line 94, which is not under the lock.
TakingAway == main \in {"moving", "erasing", "customs", "run customs"}

\* MessageBroker::dispatch when the id has no handler.
Enlist(state) ==
  /\ listed' = TRUE
  /\ default_scheduler_messages' = Append(default_scheduler_messages, state)
  /\ tasks' = Append(tasks, Dispatched)
  /\ UNCHANGED <<extVars, custom_scheduler_messages, toRider>>

\* Mutant: a message does not wait for those without a handler before it.
Deliver_AtOnce(state) ==
  /\ IF subscription = model THEN Handle("wire", state) ELSE UNCHANGED <<extVars, toRider>>
  /\ UNCHANGED <<tasks, listed, default_scheduler_messages, custom_scheduler_messages>>

\* dispatch when it has one: RdExtBase's scheduler is the synchronous one.  A
\* model that is gone may do nothing, if the program does not end here.
Deliver(state) ==
  /\ IF listed
       THEN /\ custom_scheduler_messages' = Append(custom_scheduler_messages, state)
            /\ UNCHANGED <<extVars, toRider>>
       ELSE /\ IF subscription = model THEN Handle("wire", state) ELSE UNCHANGED <<extVars, toRider>>
            /\ UNCHANGED custom_scheduler_messages
  /\ UNCHANGED <<tasks, listed, default_scheduler_messages>>

Dispatch ==
  /\ link = "up" /\ Unlocked /\ main # "subscribed" /\ toEditor # <<>>
  /\ toEditor' = Tail(toEditor)
  /\ IF subscription = 0 THEN Enlist(Head(toEditor)) ELSE Deliver(Head(toEditor))
  /\ raced' = (raced \/ TakingAway)
  /\ UNCHANGED <<lifetimeVars, subscription, main, handler, batch, orphans, modelVars, rider>>

\* The connection breaks, connected is set to false and its lifetime ends.
Disconnect ==
  /\ link = "up" /\ Unlocked
  /\ link' = "ending"
  /\ UNCHANGED <<extVars, connection, actions, brokerVars, mainVars, modelVars, riderVars, raced>>

\* The lifetime's actions run, the last one first.
RunAction ==
  /\ link = "ending" /\ actions # <<>>
  /\ actions' = Front(actions)
  /\ toRider' = IF Last(actions) = "disconnect" THEN Append(toRider, "Disconnected") ELSE toRider
  /\ subscription' = IF Last(actions) = "unsubscribe" THEN 0 ELSE subscription
  /\ bound' = IF Last(actions) = "unbind" THEN FALSE ELSE bound
  /\ tasks' = IF Last(actions) = "end" THEN Append(tasks, Ended) ELSE tasks
  /\ UNCHANGED <<extVars, connection, link, listed, default_scheduler_messages, custom_scheduler_messages,
                 main, handler, batch, orphans, model, alive, toEditor, rider, raced>>

Disconnected ==
  /\ link = "ending" /\ actions = <<>>
  /\ link' = "down"
  /\ UNCHANGED <<extVars, connection, actions, brokerVars, mainVars, modelVars, riderVars, raced>>

-----------------------------------------------------------------------------
(* The scheduler's thread: a model is bound.                               *)

TakeTask(kind) ==
  /\ main = "idle" /\ tasks # <<>> /\ Head(tasks).kind = kind
  /\ tasks' = Tail(tasks)

Binding == {"advising", "subscribed", "readying", "ready sent", "announcing"}

\* The old model is destroyed and a new one bound, unless the lifetime it is
\* for has ended already: then get_protocol throws.  ModelLock waits for the
\* senders.
BindModel ==
  LET c == Head(tasks).connection IN
  /\ TakeTask("bind")
  /\ Renew
  /\ model' = c
  /\ AddAction(c, "unbind", "advising")
  /\ bound' = ~Terminated(c)
  /\ UNCHANGED <<connection, link, brokerVars, handler, batch, orphans, alive, riderVars, raced>>

\* MessageBroker::advise_on, up to the subscription ...
Subscribe ==
  /\ main = "advising" /\ Unlocked
  /\ IF Terminated(model)
       THEN main' = "readying" /\ UNCHANGED subscription
       ELSE main' = "subscribed" /\ subscription' = model
  /\ UNCHANGED <<extVars, lifetimeVars, listed, default_scheduler_messages, custom_scheduler_messages,
                 tasks, handler, batch, orphans, modelVars, riderVars, raced>>

\* ... and the action that takes it back.
AddUnsubscribe ==
  /\ main = "subscribed"
  /\ AddAction(model, "unsubscribe", "readying")
  /\ UNCHANGED <<extVars, connection, link, brokerVars, tasks, handler, batch, orphans,
                 modelVars, riderVars, raced>>

\* The bracket with sendState(Ready), and with Disconnected at the end.
SendReady ==
  /\ main = "readying"
  /\ IF Terminated(model)
       THEN main' = "announcing" /\ UNCHANGED toRider
       ELSE main' = "ready sent" /\ toRider' = Append(toRider, "Ready")
  /\ UNCHANGED <<extVars, lifetimeVars, brokerVars, tasks, handler, batch, orphans,
                 modelVars, toEditor, rider, raced>>

AddDisconnect ==
  /\ main = "ready sent"
  /\ AddAction(model, "disconnect", "announcing")
  /\ UNCHANGED <<extVars, connection, link, brokerVars, tasks, handler, batch, orphans,
                 modelVars, riderVars, raced>>

\* The action that announces the end is added, then RdIsModelAlive is set.
Announce ==
  /\ main = "announcing"
  /\ AddAction(model, "end", "idle")
  /\ alive' = (alive \/ ~Terminated(model))
  /\ UNCHANGED <<extVars, connection, link, brokerVars, tasks, handler, batch, orphans,
                 model, bound, riderVars, raced>>

EndModel ==
  /\ TakeTask("ended") /\ passed = {}
  /\ alive' = FALSE
  /\ UNCHANGED <<extVars, lifetimeVars, brokerVars, main, handler, batch, orphans,
                 model, bound, riderVars, raced>>

-----------------------------------------------------------------------------
(* The scheduler's thread: a message that was dispatched without a handler *)
(* (the action of MessageBroker::dispatch).                                *)

\* The handler is read without the lock.  An action whose list was taken away
\* has an iterator to nothing; it may find nothing, if the program goes on.
StartDispatched ==
  /\ TakeTask("dispatched")
  /\ IF orphans > 0
       THEN orphans' = orphans - 1 /\ UNCHANGED <<main, handler>>
       ELSE main' = "taking" /\ handler' = subscription /\ UNCHANGED orphans
  /\ UNCHANGED <<extVars, lifetimeVars, brokerVars, batch, modelVars, riderVars, raced>>

TakeMessage ==
  /\ main = "taking" /\ Unlocked
  /\ main' = "message"
  /\ IF default_scheduler_messages = <<>>
       THEN batch' = <<>> /\ UNCHANGED default_scheduler_messages
       ELSE /\ batch' = IF handler # 0 THEN <<Head(default_scheduler_messages)>> ELSE <<>>
            /\ default_scheduler_messages' = Tail(default_scheduler_messages)
  /\ UNCHANGED <<extVars, lifetimeVars, subscription, listed, custom_scheduler_messages,
                 tasks, handler, orphans, modelVars, riderVars, raced>>

Running == [message |-> "run message", customs |-> "run customs"]

\* invoke: the handler is asked for only if the id still has one.  A model that
\* is not bound has lost the id, one that is gone may do nothing.
Invoke ==
  /\ main \in DOMAIN Running /\ "main" \notin setting /\ Unlocked /\ batch # <<>>
  /\ IF subscription # 0 /\ handler = model /\ bound
       THEN main' = Running[main] /\ UNCHANGED batch
       ELSE batch' = Tail(batch) /\ UNCHANGED main
  /\ UNCHANGED <<extVars, lifetimeVars, brokerVars, tasks, handler, orphans, modelVars, riderVars, raced>>

\* ... but it runs without the lock.
RunHandler ==
  /\ \E stage \in DOMAIN Running : main = Running[stage] /\ main' = stage
  /\ Handle("main", Head(batch))
  /\ batch' = Tail(batch)
  /\ UNCHANGED <<lifetimeVars, brokerVars, tasks, handler, orphans, modelVars, toEditor, rider, raced>>

\* The entry goes when it has no more messages without a handler: a test, a
\* move, an erase and a loop over what came since it had one, all unlocked.
TestEmpty ==
  /\ main = "message" /\ "main" \notin setting /\ batch = <<>>
  /\ main' = IF default_scheduler_messages = <<>> THEN "moving" ELSE "idle"
  /\ UNCHANGED <<extVars, lifetimeVars, brokerVars, tasks, handler, batch, orphans,
                 modelVars, riderVars, raced>>

MoveOut ==
  /\ main = "moving"
  /\ main' = "erasing"
  /\ batch' = custom_scheduler_messages
  /\ default_scheduler_messages' = <<>> /\ custom_scheduler_messages' = <<>>
  /\ UNCHANGED <<extVars, lifetimeVars, subscription, listed, tasks, handler, orphans,
                 modelVars, riderVars, raced>>

\* The loop asks the handler for its scheduler, also when there is no handler:
\* the thread does not come back, the others run until the process ends.
Erase ==
  /\ main = "erasing"
  /\ main' = IF batch # <<>> /\ handler = 0 THEN "crashed" ELSE "customs"
  /\ listed' = FALSE
  /\ default_scheduler_messages' = <<>> /\ custom_scheduler_messages' = <<>>
  /\ orphans' = Cardinality({i \in DOMAIN tasks : tasks[i] = Dispatched})
  /\ UNCHANGED <<extVars, lifetimeVars, subscription, tasks, handler, batch, modelVars, riderVars, raced>>

FinishDispatched ==
  /\ main = "customs" /\ "main" \notin setting /\ batch = <<>>
  /\ main' = "idle"
  /\ UNCHANGED <<extVars, lifetimeVars, brokerVars, tasks, handler, batch, orphans,
                 modelVars, riderVars, raced>>

-----------------------------------------------------------------------------
(* The senders and both directions' rest.                                  *)

linkVars == <<lifetimeVars, brokerVars, mainVars, modelVars, riderVars, raced>>

\* connected's listener on either thread.
RunListener == \E t \in Threads : SendQueued(t) /\ UNCHANGED linkVars

\* FireAsyncAction with a signal: under ModelLock, if there is a model.  An
\* asynchronous signal of a model that is not bound does nothing.
FireAsyncAction == \E s \in Senders :
  /\ alive /\ bound /\ main \notin Binding
  /\ Send(s) /\ UNCHANGED linkVars

FinishSend == \E s \in Senders : SendOn(s) /\ UNCHANGED linkVars

RiderBinds ==
  /\ ~rider.bound /\ rider.bindings < MaxBindings
  /\ rider' = [bound |-> TRUE, connected |-> FALSE, bindings |-> rider.bindings + 1]
  /\ toEditor' = Append(toEditor, "Ready")
  /\ UNCHANGED <<extVars, lifetimeVars, brokerVars, mainVars, modelVars, toRider, raced>>

RiderEnds ==
  /\ rider.bound
  /\ rider' = [rider EXCEPT !.bound = FALSE, !.connected = FALSE]
  /\ toEditor' = Append(toEditor, "Disconnected")
  /\ UNCHANGED <<extVars, lifetimeVars, brokerVars, mainVars, modelVars, toRider, raced>>

\* Without a model at Rider's end messages are dropped.
RiderReceives ==
  /\ link = "up" /\ toRider # <<>>
  /\ toRider' = Tail(toRider)
  /\ rider' = [rider EXCEPT !.connected = rider.bound /\ Head(toRider) # "Disconnected"]
  /\ toEditor' = IF rider.bound /\ Head(toRider) = "Ready"
                   THEN Append(toEditor, "ReceivedCounterpart") ELSE toEditor
  /\ UNCHANGED <<extVars, lifetimeVars, brokerVars, mainVars, modelVars, raced>>

WireThread == Connect \/ Dispatch \/ Disconnect \/ RunAction \/ Disconnected

SchedulerThread ==
  \/ BindModel \/ Subscribe \/ AddUnsubscribe \/ SendReady \/ AddDisconnect \/ Announce \/ EndModel
  \/ StartDispatched \/ TakeMessage \/ Invoke \/ RunHandler
  \/ TestEmpty \/ MoveOut \/ Erase \/ FinishDispatched

Next ==
  \/ WireThread \/ SchedulerThread
  \/ RunListener \/ FireAsyncAction \/ FinishSend
  \/ RiderBinds \/ RiderEnds \/ RiderReceives

Spec == Init /\ [][Next]_vars

-----------------------------------------------------------------------------
(* Properties.                                                             *)

TypeOK ==
  /\ ExtTypeOK
  /\ connection \in Nat /\ link \in {"up", "ending", "down"}
  /\ actions \in Seq({"unbind", "unsubscribe", "disconnect", "end"})
  /\ subscription \in 0..connection /\ model \in 0..connection
  /\ listed \in BOOLEAN /\ bound \in BOOLEAN /\ alive \in BOOLEAN /\ raced \in BOOLEAN
  /\ default_scheduler_messages \in Seq(States) /\ custom_scheduler_messages \in Seq(States)
  /\ tasks \in Seq([kind : {"bind", "dispatched", "ended"}, connection : 0..connection])
  /\ main \in Binding \union DOMAIN Running \union {Running[stage] : stage \in DOMAIN Running}
                \union {"idle", "taking", "moving", "erasing", "crashed"}
  /\ handler \in 0..connection /\ batch \in Seq(States) /\ orphans \in Nat
  /\ toEditor \in Seq(States) /\ toRider \in Seq(States)
  /\ rider \in [bound : BOOLEAN, connected : BOOLEAN, bindings : Nat]

Quiet ==
  /\ link = "up" /\ toEditor = <<>> /\ toRider = <<>>
  /\ tasks = <<>> /\ main = "idle" /\ setting = {}

\* The handshake: when all messages have been handled and both ends have their
\* model, both know that the other has, however often either end came and went,
\* and whether the messages found a handler or waited in the broker for one;
\* unless one came while the broker took an entry away without its lock.
Handshake == Quiet /\ alive /\ bound /\ rider.bound /\ ~raced => connected /\ rider.connected

\* "The handler is removed when the given lifetime is terminated" (IWire.h).
HandlerRemoved == link = "down" => subscription = 0

=============================================================================
