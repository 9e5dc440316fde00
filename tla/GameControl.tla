----------------------------- MODULE GameControl -----------------------------
(***************************************************************************)
(* Game control (RiderGameControl.cpp): the IDE's play mode and buttons    *)
(* and the editor's play settings and play session, on one connection      *)
(* after the other.                                                        *)
(*                                                                         *)
(* Two threads of the editor.  The scheduler's runs what is queued: it     *)
(* makes an FRiderGameControl when a model comes alive and resets it when  *)
(* the model's lifetime ends, handles what the IDE sends, and sends; what  *)
(* it queues itself is run in place (invoke_or_queue).  The game thread    *)
(* has the user's changes, the session's events and the IDE's commands,    *)
(* and queues what is to be sent.  Both run the handler of                 *)
(* OnObjectPropertyChanged, which is one step for each access to what they *)
(* share.  A queued action has the pointer of its FRiderGameControl; after *)
(* the reset the memory is nobody's, or the next one's.                    *)
(*                                                                         *)
(* The IDE is external: it shows the mode it was sent last or its user     *)
(* chose, and sends requests once it was told that the module is           *)
(* initialized.  Messages arrive once and in order while the connection    *)
(* lasts (SocketWire, ModelLink).                                          *)
(***************************************************************************)
EXTENDS Integers, Sequences, SequencesExt

CONSTANTS
  Settings,        \* play settings the user of the editor chooses
  Modes,           \* modes the user of the IDE chooses
  Uninitialized,   \* what playMode may be before it is assigned
  MaxConnections,  \* bound: connections
  MaxChanges,      \* bound: changes of settings, mode and session, in all
  MaxRequests      \* bound: requests

VARIABLES
  settings,    \* ULevelEditorPlaySettings
  session,     \* the play session: "Idle", "Play", "Pause"
  connection,  \* connections so far
  up,          \* whether the last of them stands
  queue,       \* the scheduler's
  control,     \* the FRiderGameControl there is, by its connection; 0: none
  registered,  \* its delegates are added
  subscribed,  \* its handlers of the IDE's signals are
  playMode,
  at,          \* per thread: what it is about to do
  seen,        \* per thread: the settings it has read
  commands,    \* AsyncTasks of the game thread
  toIde, toEditor,  \* messages on their way
  ide,         \* what the IDE shows
  asked,       \* requests so far
  changes,     \* counted
  met,         \* changes at both ends met inside the editor, on this connection
  told         \* an event of the session came on this connection

editorVars == <<settings, session>>
linkVars == <<connection, up>>
controlVars == <<control, registered, subscribed, playMode>>
threadVars == <<at, seen>>
counters == <<asked, changes>>
historyVars == <<met, told>>
vars == <<editorVars, linkVars, queue, controlVars, threadVars, commands, toIde, toEditor, ide,
          counters, historyVars>>

-----------------------------------------------------------------------------
(* Modes.                                                                  *)

PlayModeTypes == {"InViewPort", "InEditorFloating", "InMobilePreview", "InTargetedMobilePreview",
  "InVulkanPreview", "InNewProcess", "InVR", "Simulate", "QuickLaunch"}

\* FPlaySettings.
FPlaySettings == [PlayMode : PlayModeTypes, NumberOfClients : Nat \ {0}, bNetDedicated : BOOLEAN,
                  bSpawnAtPlayerStart : BOOLEAN]

\* The IDE has the seven play modes that PlayModeFromInt names: a mode of
\* type 7 would be read as type 0 and not be sent back.
ASSUME GameControlAssumption ==
  /\ Settings \subseteq FPlaySettings /\ Settings # {}
  /\ Modes \subseteq 0..111
  /\ Uninitialized \subseteq Int
  /\ MaxConnections \in Nat /\ MaxChanges \in Nat /\ MaxRequests \in Nat

PlayModeFromInt(n) ==
  CASE n = 1 -> "InMobilePreview" [] n = 2 -> "InEditorFloating" [] n = 3 -> "InVR"
    [] n = 4 -> "InNewProcess" [] n = 5 -> "Simulate" [] n = 6 -> "InVulkanPreview"
    [] OTHER -> "InViewPort"

PlayModeToInt(t) ==
  CASE t \in {"InTargetedMobilePreview", "InMobilePreview"} -> 1 [] t = "InEditorFloating" -> 2
    [] t = "InVR" -> 3 [] t = "InNewProcess" -> 4 [] t = "Simulate" -> 5
    [] t = "InVulkanPreview" -> 6 [] OTHER -> 0

Bit(b, n) == IF b THEN n ELSE 0

UnpackFromMode(mode) ==
  [PlayMode |-> PlayModeFromInt((mode \div 16) % 8),
   NumberOfClients |-> (mode % 4) + 1,
   bNetDedicated |-> (mode \div 8) % 2 = 1,
   bSpawnAtPlayerStart |-> (mode \div 4) % 2 = 1]

\* More than four clients run over into the next bits.
PackToMode(s) ==
  (s.NumberOfClients - 1) + Bit(s.bSpawnAtPlayerStart, 4) + Bit(s.bNetDedicated, 8)
    + PlayModeToInt(s.PlayMode) * 16

-----------------------------------------------------------------------------
Threads == {"game", "scheduler"}

\* Messages to the IDE, and to the editor.
ModeMsg(m) == [kind |-> "mode", value |-> m]
StateMsg(s) == [kind |-> "state", value |-> s]
Initialized == [kind |-> "initialized", value |-> 0]
Reply(r) == [kind |-> "reply", value |-> r]
Request(r) == [kind |-> "request", value |-> r]

\* What the scheduler's queue holds.
Alive(c) == [does |-> "alive", control |-> c, msgs |-> <<>>]
Dead == [does |-> "dead", control |-> 0, msgs |-> <<>>]
Action(c, msgs) == [does |-> "action", control |-> c, msgs |-> msgs]

NewIde == [mode |-> 0, state |-> "Idle", initialized |-> FALSE, replies |-> [r \in 1..MaxRequests |-> 0]]

Init ==
  /\ settings \in Settings /\ session = "Idle"
  /\ connection = 0 /\ up = FALSE
  /\ queue = <<>>
  /\ control = 0 /\ registered = FALSE /\ subscribed = FALSE /\ playMode = 0
  /\ at = [t \in Threads |-> "idle"] /\ seen = [t \in Threads |-> settings]
  /\ commands = <<>>
  /\ toIde = <<>> /\ toEditor = <<>>
  /\ ide = NewIde
  /\ asked = 0 /\ changes = 0
  /\ met = FALSE /\ told = FALSE

\* ScheduleModelAction on thread t: the scheduler runs it in place.
ScheduleModelAction(t, c, msgs) ==
  IF t = "scheduler"
    THEN /\ toIde' = IF up /\ connection = c THEN toIde \o msgs ELSE toIde
         /\ UNCHANGED queue
    ELSE queue' = Append(queue, Action(c, msgs)) /\ UNCHANGED toIde

\* A change of the editor's own is not sent yet, or not even handled.
ModePending ==
  \/ at["game"] # "idle"
  \/ \E i \in 1..Len(queue) : \E j \in 1..Len(queue[i].msgs) : queue[i].msgs[j].kind = "mode"

-----------------------------------------------------------------------------
(* The connection.                                                         *)

Connect ==
  /\ ~up /\ connection < MaxConnections
  /\ up' = TRUE /\ connection' = connection + 1
  /\ queue' = Append(queue, Alive(connection + 1))
  /\ ide' = NewIde
  /\ met' = FALSE /\ told' = FALSE
  /\ UNCHANGED <<editorVars, controlVars, threadVars, commands, toIde, toEditor, counters>>

\* Its end is queued by the action that RiderLink.cpp has added, if it has.
Disconnect ==
  /\ up
  /\ up' = FALSE
  /\ queue' = Append(queue, Dead)
  /\ toIde' = <<>> /\ toEditor' = <<>>
  /\ UNCHANGED <<editorVars, connection, controlVars, threadVars, commands, ide, counters, historyVars>>

-----------------------------------------------------------------------------
(* The scheduler's thread.                                                 *)

Take(does) ==
  /\ at["scheduler"] = "idle" /\ queue # <<>> /\ Head(queue).does = does

\* The model comes alive, and FRiderGameControl's constructor adds the
\* delegates; playMode is what the memory had.  A connection that has ended makes
\* the task end before.
Construct ==
  /\ Take("alive")
  /\ queue' = Tail(queue)
  /\ IF up /\ Head(queue).control = connection
       THEN /\ control' = connection /\ registered' = TRUE /\ UNCHANGED subscribed
            /\ playMode' \in Uninitialized
            /\ at' = [at EXCEPT !["scheduler"] = "subscribe"]
       ELSE UNCHANGED <<controlVars, at>>
  /\ met' = (met \/ at["game"] # "idle")
  /\ UNCHANGED <<editorVars, linkVars, seen, commands, toIde, toEditor, ide, counters, told>>

\* "Subscribe to model", in place.
Subscribe ==
  /\ at["scheduler"] = "subscribe"
  /\ subscribed' = TRUE
  /\ at' = [at EXCEPT !["scheduler"] = "retrieve"]
  /\ UNCHANGED <<editorVars, linkVars, queue, control, registered, playMode, seen, commands,
                 toIde, toEditor, ide, counters, historyVars>>

\* "Initial sync": the settings are read ...
Retrieve ==
  /\ at["scheduler"] = "retrieve"
  /\ seen' = [seen EXCEPT !["scheduler"] = settings]
  /\ at' = [at EXCEPT !["scheduler"] = "sync"]
  /\ UNCHANGED <<editorVars, linkVars, queue, controlVars, commands, toIde, toEditor, ide,
                 counters, historyVars>>

\* ... and sent, and isGameControlModuleInitialized is set.
Sync ==
  /\ at["scheduler"] = "sync"
  /\ playMode' = PackToMode(seen["scheduler"])
  /\ ScheduleModelAction("scheduler", control, <<ModeMsg(playMode'), Initialized>>)
  /\ at' = [at EXCEPT !["scheduler"] = "idle"]
  /\ UNCHANGED <<editorVars, linkVars, control, registered, subscribed, seen, commands, toEditor,
                 ide, counters, historyVars>>

\* The model's lifetime ends: the delegates are removed, the control is reset.
Reset ==
  /\ Take("dead")
  /\ queue' = Tail(queue)
  /\ control' = 0 /\ registered' = FALSE /\ subscribed' = FALSE
  /\ UNCHANGED <<editorVars, linkVars, playMode, threadVars, commands, toIde, toEditor, ide,
                 counters, historyVars>>

\* A queued action.  That of a control that is gone does nothing, or speaks
\* for the one that has its memory now.
RunAction ==
  /\ Take("action")
  /\ queue' = Tail(queue)
  /\ LET a == Head(queue) IN
       \/ /\ a.control = control
          /\ toIde' = IF up /\ connection = control THEN toIde \o a.msgs ELSE toIde
          /\ UNCHANGED met
       \/ a.control # control /\ UNCHANGED <<toIde, met>>
       \/ /\ a.control # control /\ control # 0
          /\ toIde' = IF up /\ connection = control THEN toIde \o a.msgs ELSE toIde
          /\ met' = TRUE
  /\ UNCHANGED <<editorVars, linkVars, controlVars, threadVars, commands, toEditor, ide, counters, told>>

\* playModeFromRider: UpdateSettings; PostEditChange runs the delegate in place.
OnMode(m) ==
  /\ settings' = UnpackFromMode(m)
  /\ at' = [at EXCEPT !["scheduler"] = "read"]
  /\ met' = (met \/ ModePending)
  /\ UNCHANGED <<commands, toIde>>

\* A request, RequestPlayWorldCommand: a command that is not registered is
\* refused in place, any other executed on the game thread.
OnRequest(r) ==
  /\ \/ commands' = Append(commands, [request |-> r, control |-> control]) /\ UNCHANGED toIde
     \/ /\ toIde' = IF up /\ connection = control THEN Append(toIde, Reply(r)) ELSE toIde
        /\ UNCHANGED commands
  /\ UNCHANGED <<settings, at, met>>

\* A message of the IDE's; without a handler it is lost.
Receive ==
  /\ at["scheduler"] = "idle" /\ toEditor # <<>>
  /\ control = connection \/ ~\E i \in 1..Len(queue) : queue[i] = Alive(connection)
  /\ LET m == Head(toEditor) IN
       IF ~subscribed THEN UNCHANGED <<settings, at, commands, toIde, met>>
       ELSE IF m.kind = "mode" THEN OnMode(m.value) ELSE OnRequest(m.value)
  /\ toEditor' = Tail(toEditor)
  /\ UNCHANGED <<session, linkVars, queue, controlVars, seen, ide, counters, told>>

-----------------------------------------------------------------------------
(* OnObjectPropertyChanged, on either thread.                              *)

ReadSettings(t) ==
  /\ at[t] = "read"
  /\ seen' = [seen EXCEPT ![t] = settings]
  /\ at' = [at EXCEPT ![t] = IF control = 0 THEN "idle" ELSE "compare"]
  /\ UNCHANGED <<editorVars, linkVars, queue, controlVars, commands, toIde, toEditor, ide,
                 counters, historyVars>>

\* Mutant of Compare: playMode is not assigned.
Compare_Forget(t) ==
  /\ at[t] = "compare"
  /\ at' = [at EXCEPT ![t] = IF control = 0 \/ PackToMode(seen[t]) = playMode THEN "idle" ELSE "send"]
  /\ UNCHANGED <<editorVars, linkVars, queue, controlVars, seen, commands, toIde, toEditor,
                 ide, counters, historyVars>>

\* A mode that is not new is not sent.
Compare(t) ==
  /\ at[t] = "compare"
  /\ IF control = 0 \/ PackToMode(seen[t]) = playMode
       THEN at' = [at EXCEPT ![t] = "idle"] /\ UNCHANGED playMode
       ELSE at' = [at EXCEPT ![t] = "send"] /\ playMode' = PackToMode(seen[t])
  /\ UNCHANGED <<editorVars, linkVars, queue, control, registered, subscribed, seen, commands,
                 toIde, toEditor, ide, counters, historyVars>>

SendMode(t) ==
  /\ at[t] = "send"
  /\ at' = [at EXCEPT ![t] = "idle"]
  /\ ScheduleModelAction(t, control, <<ModeMsg(PackToMode(seen[t]))>>)
  /\ UNCHANGED <<editorVars, linkVars, controlVars, seen, commands, toEditor, ide, counters, historyVars>>

-----------------------------------------------------------------------------
(* The game thread.                                                        *)

\* The user changes the settings.
Change(s) ==
  /\ at["game"] = "idle" /\ changes < MaxChanges /\ s # settings
  /\ settings' = s
  /\ at' = [at EXCEPT !["game"] = IF registered THEN "read" ELSE "idle"]
  /\ met' = (met \/ at["scheduler"] # "idle")
  /\ changes' = changes + 1
  /\ UNCHANGED <<session, linkVars, queue, controlVars, seen, commands, toIde, toEditor, ide,
                 asked, told>>

\* The session goes on to what, and the IDE is sent msgs.
Event(from, to, msgs) ==
  /\ at["game"] = "idle" /\ changes < MaxChanges /\ session \in from
  /\ session' = to
  /\ IF registered
       THEN ScheduleModelAction("game", control, msgs) /\ told' = (told \/ control = connection)
       ELSE UNCHANGED <<toIde, queue, told>>
  /\ changes' = changes + 1
  /\ UNCHANGED <<settings, linkVars, controlVars, threadVars, commands, toEditor, ide, asked, met>>

BeginPIE == Event({"Idle"}, "Play", <<StateMsg("Play")>>)
EndPIE == Event({"Play", "Pause"}, "Idle", <<StateMsg("Idle")>>)
PausePIE == Event({"Play"}, "Pause", <<StateMsg("Pause")>>)
ResumePIE == Event({"Pause"}, "Play", <<StateMsg("Play")>>)

\* Mutant of SingleStepPIE: the two states the wrong way round.
SingleStepPIE_Swapped == Event({"Pause"}, "Pause", <<StateMsg("Pause"), StateMsg("Play")>>)

SingleStepPIE == Event({"Pause"}, "Pause", <<StateMsg("Play"), StateMsg("Pause")>>)

\* Mutant of Execute: a command the engine rejects is not answered.
Execute_Silent ==
  /\ at["game"] = "idle" /\ commands # <<>>
  /\ \/ ScheduleModelAction("game", Head(commands).control, <<Reply(Head(commands).request)>>)
     \/ UNCHANGED <<queue, toIde>>
  /\ commands' = Tail(commands)
  /\ UNCHANGED <<editorVars, linkVars, controlVars, threadVars, toEditor, ide, counters, historyVars>>

\* TryExecuteAction; it succeeds or not, and the IDE is told.
Execute ==
  /\ at["game"] = "idle" /\ commands # <<>>
  /\ ScheduleModelAction("game", Head(commands).control, <<Reply(Head(commands).request)>>)
  /\ commands' = Tail(commands)
  /\ UNCHANGED <<editorVars, linkVars, controlVars, threadVars, toEditor, ide, counters, historyVars>>

-----------------------------------------------------------------------------
(* The IDE.                                                                *)

IdeReceive ==
  /\ up /\ toIde # <<>>
  /\ LET m == Head(toIde) IN
       ide' = CASE m.kind = "mode" -> [ide EXCEPT !.mode = m.value]
                [] m.kind = "state" -> [ide EXCEPT !.state = m.value]
                [] m.kind = "initialized" -> [ide EXCEPT !.initialized = TRUE]
                [] m.kind = "reply" -> [ide EXCEPT !.replies[m.value] = @ + 1]
  /\ toIde' = Tail(toIde)
  /\ UNCHANGED <<editorVars, linkVars, queue, controlVars, threadVars, commands, toEditor,
                 counters, historyVars>>

IdeChange(m) ==
  /\ up /\ ide.initialized /\ changes < MaxChanges /\ m # ide.mode
  /\ ide' = [ide EXCEPT !.mode = m]
  /\ toEditor' = Append(toEditor, ModeMsg(m))
  /\ changes' = changes + 1
  /\ UNCHANGED <<editorVars, linkVars, queue, controlVars, threadVars, commands, toIde, asked,
                 historyVars>>

IdeRequest ==
  /\ up /\ ide.initialized /\ asked < MaxRequests
  /\ asked' = asked + 1
  /\ toEditor' = Append(toEditor, Request(asked + 1))
  /\ UNCHANGED <<editorVars, linkVars, queue, controlVars, threadVars, commands, toIde, ide,
                 changes, historyVars>>

SchedulerThread ==
  \/ Construct \/ Subscribe \/ Retrieve \/ Sync \/ Reset \/ RunAction \/ Receive
  \/ ReadSettings("scheduler") \/ Compare("scheduler") \/ SendMode("scheduler")

GameThread == Execute \/ ReadSettings("game") \/ Compare("game") \/ SendMode("game")

User ==
  \/ \E s \in Settings : Change(s)
  \/ BeginPIE \/ EndPIE \/ PausePIE \/ ResumePIE \/ SingleStepPIE
  \/ \E m \in Modes : IdeChange(m)
  \/ IdeRequest

Next == SchedulerThread \/ GameThread \/ User \/ IdeReceive \/ Connect \/ Disconnect

Spec == Init /\ [][Next]_vars

\* The threads and the IDE go on with what they have; nobody has to change
\* anything, and a connection need not come or go.
FairSpec == Spec /\ WF_vars(SchedulerThread) /\ WF_vars(GameThread) /\ WF_vars(IdeReceive)

-----------------------------------------------------------------------------
(* Properties.                                                             *)

Sessions == {"Idle", "Play", "Pause"}

\* What is on its way: messages, and what the scheduler's queue holds for the
\* controls in C.
ModeMsgs == [kind : {"mode"}, value : Nat]
StateMsgs == [kind : {"state"}, value : Sessions]
Replies == {Reply(r) : r \in 1..MaxRequests}
Requests == {Request(r) : r \in 1..MaxRequests}
ModeActions(C) == [does : {"action"}, control : C, msgs : Seq(ModeMsgs) \ {<<>>}]
StateActions(C) == [does : {"action"}, control : C, msgs : Seq(StateMsgs) \ {<<>>}]
ReplyActions(C) == [does : {"action"}, control : C, msgs : {<<m>> : m \in Replies}]
Lives(C) == {Alive(c) : c \in C}
IdeMsgs == ModeMsgs \cup StateMsgs \cup Replies \cup {Initialized}
EditorMsgs == {ModeMsg(m) : m \in Modes} \cup Requests
ActionsOf(C) == ModeActions(C) \cup StateActions(C) \cup ReplyActions(C)
Commands(n) == [request : 1..MaxRequests, control : 0..n]
Queued(n) == ActionsOf(0..n) \cup Lives(1..n) \cup {Dead}

\* Types of all variables.
TypeOK ==
  /\ settings \in FPlaySettings /\ session \in Sessions
  /\ connection \in 0..MaxConnections /\ up \in BOOLEAN
  /\ control \in 0..connection /\ registered \in BOOLEAN /\ subscribed \in BOOLEAN
  /\ playMode \in Int
  /\ at \in [Threads -> {"idle", "read", "compare", "send", "subscribe", "retrieve", "sync"}]
  /\ at["game"] \in {"idle", "read", "compare", "send"}
  /\ seen \in [Threads -> FPlaySettings]
  /\ queue \in Seq(Queued(connection))
  /\ commands \in Seq(Commands(connection))
  /\ toIde \in Seq(IdeMsgs)
  /\ toEditor \in Seq(EditorMsgs)
  /\ ide \in [mode : Nat, state : Sessions, initialized : BOOLEAN, replies : [1..MaxRequests -> Nat]]
  /\ asked \in 0..MaxRequests /\ changes \in 0..MaxChanges
  /\ met \in BOOLEAN /\ told \in BOOLEAN

\* The connection is set up and nothing is under way.
Quiet ==
  /\ up /\ control = connection /\ ide.initialized
  /\ queue = <<>> /\ commands = <<>> /\ toIde = <<>> /\ toEditor = <<>>
  /\ \A t \in Threads : at[t] = "idle"

\* Settings a mode can express.
Expressible(s) ==
  s.NumberOfClients \in 1..4 /\ s.PlayMode \notin {"InTargetedMobilePreview", "QuickLaunch"}

\* Whenever nothing is under way the IDE shows the mode of the editor's
\* settings, whatever crossed between the two; and reads the same settings out
\* of it, if a mode can express them.  Except when changes met inside the
\* editor: one was sent in place while the other waited in the queue.
Agreement ==
  Quiet /\ ~met =>
    /\ ide.mode = PackToMode(settings) /\ playMode = ide.mode
    /\ Expressible(settings) => UnpackFromMode(ide.mode) = settings

\* The IDE shows the state of the session after the last event it was told of,
\* also when actions of an earlier control are run late.
SessionShown == Quiet /\ told => ide.state = session

\* No request is answered twice, though it may be refused in place or run on
\* the game thread, and its answer may be sent by a control that is gone.
AnsweredOnce ==
  \A r \in 1..MaxRequests : ide.replies[r] <= 1

\* What the IDE is shown and told of the session and of its requests is in step
\* with the editor (the delegates of RiderGameControl and SendRequest).
IdeInStep == TypeOK /\ SessionShown /\ AnsweredOnce

\* Once the IDE is told that the module is initialized, each of its requests is
\* answered as long as the connection lasts.
EveryRequestAnswered ==
  \A r \in 1..MaxRequests :
    Contains(toEditor, Request(r)) ~> ide.replies[r] > 0 \/ ~up

=============================================================================
