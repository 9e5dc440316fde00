------------------------------- MODULE RdCall -------------------------------
(***************************************************************************)
(* A call (RdCall.h) at one end, its endpoint (RdEndpoint.h) at the other, *)
(* and the tasks both work with (WiredRdTaskImpl.h, RdTask.h).             *)
(*                                                                         *)
(* Four threads.  The scheduler's thread makes calls, waits in sync, and   *)
(* runs what answers to start have queued.  The wire thread brings answers.*)
(* The terminator ends bind_lifetime, which may be a third thread (the     *)
(* game's, at shutdown).  The endpoint's end handles requests.             *)
(*                                                                         *)
(* A task is WiredRdTaskImpl, registered by its raw pointer: the broker,   *)
(* the queued actions and the thread that sets its result keep the pointer *)
(* when the holder lets the task go.  What they do with it then is         *)
(* undefined; here it is nothing.  NothingComes says what no longer        *)
(* happens to such a task, GoneIsUntouched what still may.                 *)
(*                                                                         *)
(* Messages arrive once and in order (SocketWire) as long as the wire      *)
(* thread does not throw.  A step is what runs under one lock, or one      *)
(* access to what is shared without.                                       *)
(***************************************************************************)
EXTENDS Naturals, Sequences, SequencesExt

CONSTANTS
  MaxCalls,    \* bound: calls made
  Later,       \* what handlers that return before they have a result set in the end
  MaxAnswers   \* bound: results the endpoint's tasks are given in all


Ids == 1..MaxCalls    \* get_identity()->next(rdid)
Success == "success"
Cancelled == "cancelled"
Fault == "fault"
Empty == "empty"
Results == {Success, Cancelled, Fault}

ASSUME RdCallAssumption == MaxCalls \in Nat /\ MaxAnswers \in Nat /\ Later \subseteq Results

None == [id |-> 0, result |-> Empty]
Threads == {"scheduler", "wire", "terminator"}

VARIABLES
  made,          \* calls made so far
  kind,          \* per call: "sync", "start", or "none" before it
  step,          \* what the scheduler's thread is about to do for the last call
  sync_task_id,  \* 0: none
  result,        \* per call: its task's result
  held,          \* tasks that exist
  subscriptions, \* the broker's: tasks it has a pointer to
  queued,        \* the response scheduler's actions, with the result they carry
  setting,       \* per thread: the task whose result it sets, with what it will
                 \* store, or Empty once it has
  is_terminated, \* bind_lifetime
  actions,       \* its actions, in the order they were added
  ending,        \* those the terminator has taken and not run
  requests, answers,  \* messages on their way
  reading,       \* the wire thread reads them in step
  task,          \* per request: the results its endpoint's task was given; the
                 \* last is the one it has
  pending,       \* requests whose handler has not completed in place
  endpoint_up    \* the endpoint's process lives

callerVars == <<made, kind, step, sync_task_id>>
taskVars == <<result, held, setting>>
lifetimeVars == <<is_terminated, actions, ending>>
endpointVars == <<task, pending, endpoint_up>>
vars == <<callerVars, taskVars, subscriptions, queued, lifetimeVars, requests, answers,
          reading, endpointVars>>

Unbind == [does |-> "unbind", id |-> 0]
Unsubscribe(c) == [does |-> "unsubscribe", id |-> c]
Cancel(c) == [does |-> "cancel", id |-> c]
Answer(c, r) == [id |-> c, result |-> r]

Init ==
  /\ made = 0 /\ kind = [c \in Ids |-> "none"] /\ step = "idle" /\ sync_task_id = 0
  /\ result = [c \in Ids |-> Empty] /\ held = {} /\ setting = [t \in Threads |-> None]
  /\ subscriptions = {} /\ queued = <<>>
  /\ is_terminated = FALSE /\ actions = <<Unbind>> /\ ending = <<>>
  /\ requests = <<>> /\ answers = <<>> /\ reading = TRUE
  /\ task = [c \in Ids |-> <<>>] /\ pending = {} /\ endpoint_up = TRUE

\* The call is bound until the first of the lifetime's actions has run, as the last.
IsBound == actions # <<>> \/ ending # <<>>

-----------------------------------------------------------------------------
(* Tasks.                                                                  *)

\* Mutant of SetIfEmpty: set, whatever there is.
SetIfEmpty_Always(t, c, r) ==
  setting' = [setting EXCEPT ![t] = IF c \in held THEN Answer(c, r) ELSE None]

\* result->set_if_empty(r), its test.
SetIfEmpty(t, c, r) ==
  setting' = [setting EXCEPT ![t] = IF c \in held /\ result[c] = Empty THEN Answer(c, r) ELSE None]

\* set_if_empty, its assignment.  The task's listeners are notified after it.
Store(t) ==
  /\ setting[t].result # Empty
  /\ LET s == setting[t] IN
       result' = IF s.id \in held THEN [result EXCEPT ![s.id] = s.result] ELSE result
  /\ setting' = [setting EXCEPT ![t].result = Empty]
  /\ UNCHANGED <<callerVars, held, subscriptions, queued, lifetimeVars, requests, answers,
                 reading, endpointVars>>

\* Property::set, change.fire.
Fire(t) ==
  /\ setting[t] # None /\ setting[t].result = Empty
  /\ setting' = [setting EXCEPT ![t] = None]
  /\ UNCHANGED <<callerVars, result, held, subscriptions, queued, lifetimeVars, requests, answers,
                 reading, endpointVars>>

\* s without one a.
Without(s, a) ==
  IF Contains(s, a) THEN RemoveAt(s, CHOOSE i \in 1..Len(s) : s[i] = a) ELSE s

\* ~WiredRdTaskImpl: the action that cancels it goes, its subscription stays.
Release(c) ==
  /\ held' = held \ {c}
  /\ actions' = Without(actions, Cancel(c))

-----------------------------------------------------------------------------
(* The scheduler's thread: RdCall.                                         *)

\* It does one thing at a time, and nothing while it is inside set_if_empty.
At(s) == step = s /\ setting["scheduler"] = None

\* start_internal, up to the task's constructor and in it get_wire()->advise,
\* which keeps the broker's lock until the subscription's end is added; a
\* lifetime that has ended is not subscribed for.
StartInternal(k) ==
  /\ At("idle") /\ made < MaxCalls /\ IsBound /\ setting["wire"] = None
  /\ made' = made + 1
  /\ kind' = [kind EXCEPT ![made + 1] = k]
  /\ held' = held \cup {made + 1}
  /\ IF is_terminated
       THEN step' = "add" /\ UNCHANGED subscriptions
       ELSE step' = "advised" /\ subscriptions' = subscriptions \cup {made + 1}
  /\ UNCHANGED <<sync_task_id, result, setting, queued, lifetimeVars, requests, answers,
                 reading, endpointVars>>

\* Mutant of AddAction: a lifetime that has ended takes it.
AddAction_Late(a, next) ==
  /\ actions' = Append(actions, a)
  /\ step' = next
  /\ UNCHANGED held

\* add_action, on a lifetime that has not ended; it throws on one that has, and
\* the task that is being constructed is gone.
AddAction(a, next) ==
  IF is_terminated
    THEN /\ step' = "idle"
         /\ held' = held \ {made}
         /\ UNCHANGED actions
    ELSE /\ actions' = Append(actions, a)
         /\ step' = next
         /\ UNCHANGED held

AddUnsubscribe ==
  /\ At("advised")
  /\ AddAction(Unsubscribe(made), "add")
  /\ UNCHANGED <<made, kind, sync_task_id, result, setting, subscriptions, queued, is_terminated,
                 ending, requests, answers, reading, endpointVars>>

AddCancel ==
  /\ At("add")
  /\ AddAction(Cancel(made), "send")
  /\ UNCHANGED <<made, kind, sync_task_id, result, setting, subscriptions, queued, is_terminated,
                 ending, requests, answers, reading, endpointVars>>

\* start_internal, the rest: another sync call is refused, and its task gone.
Refuse ==
  /\ At("send") /\ kind[made] = "sync" /\ sync_task_id # 0
  /\ step' = "idle"
  /\ Release(made)
  /\ UNCHANGED <<made, kind, sync_task_id, result, setting, subscriptions, queued, is_terminated,
                 ending, requests, answers, reading, endpointVars>>

\* sync_task_id is set before get_wire() throws when the call has been unbound.
Send ==
  /\ At("send") /\ (kind[made] = "sync" => sync_task_id = 0)
  /\ sync_task_id' = IF kind[made] = "sync" THEN made ELSE sync_task_id
  /\ IF IsBound
       THEN /\ step' = IF kind[made] = "sync" THEN "wait" ELSE "idle"
            /\ requests' = Append(requests, made)
            /\ UNCHANGED <<held, actions>>
       ELSE step' = "idle" /\ Release(made) /\ UNCHANGED requests
  /\ UNCHANGED <<made, kind, result, setting, subscriptions, queued, is_terminated, ending, answers,
                 reading, endpointVars>>

\* Mutant of Succeed: sync_task_id is not reset.
Succeed_Keep ==
  /\ At("wait") /\ result[made] = Success
  /\ step' = "idle"
  /\ UNCHANGED <<made, kind, sync_task_id, taskVars, subscriptions, queued, lifetimeVars, requests,
                 answers, reading, endpointVars>>

\* sync returns the task; the caller has it until Drop.
Succeed ==
  /\ At("wait") /\ result[made] = Success
  /\ sync_task_id' = 0
  /\ step' = "idle"
  /\ UNCHANGED <<made, kind, taskVars, subscriptions, queued, lifetimeVars, requests, answers,
                 reading, endpointVars>>

\* Out of the loop without a success: by a result, the end of the lifetime or
\* the timeout, which may be now.  value_or_throw or unwrap throws, so that
\* sync_task_id stays.
Throw ==
  /\ At("wait") /\ result[made] # Success
  /\ step' = "idle"
  /\ Release(made)
  /\ UNCHANGED <<made, kind, sync_task_id, result, setting, subscriptions, queued, is_terminated,
                 ending, requests, answers, reading, endpointVars>>

\* The holder of a task lets it go, on whatever thread.
Drop(c) ==
  /\ c \in held /\ (c = made => step = "idle")
  /\ Release(c)
  /\ UNCHANGED <<callerVars, result, setting, subscriptions, queued, is_terminated, ending,
                 requests, answers, reading, endpointVars>>

\* The action an answer to start has queued.  What it throws the scheduler logs.
RunQueued ==
  /\ At("idle") /\ queued # <<>>
  /\ SetIfEmpty("scheduler", Head(queued).id, Head(queued).result)
  /\ queued' = Tail(queued)
  /\ UNCHANGED <<callerVars, result, held, subscriptions, lifetimeVars, requests, answers,
                 reading, endpointVars>>

-----------------------------------------------------------------------------
(* The wire thread.                                                        *)

\* Mutant of Addressee: the answer is given to the call that is being waited for.
Addressee_Waiting(m) == IF step = "wait" THEN made ELSE m.id

\* Mutant of Addressee: of the next call's task.
Addressee_Next(m) == m.id + 1

\* The task an answer is for: it was sent under the task's id.
Addressee(m) == m.id

\* An answer to a task that has its result is dropped, and unwrapped for the log:
\* unless it is a success that throws.
Throws(m) == m.id \in held /\ result[m.id] # Empty /\ m.result # Success

\* WiredRdTaskImpl::on_wire_received, if the broker has the task.  A sync call's
\* scheduler is the SynchronousScheduler, which runs the action at once; what it
\* throws ends the loop of the wire thread in the middle of a message, and on
\* the next connection the rest of it is taken from what comes first.
OnAnswer ==
  /\ reading /\ answers # <<>> /\ setting["wire"] = None /\ step # "advised"
  /\ LET m == Head(answers)
         c == Addressee(m)
     IN  IF m.id \notin subscriptions THEN UNCHANGED <<setting, queued, reading>>
         ELSE IF kind[m.id] = "sync"
                THEN SetIfEmpty("wire", c, m.result) /\ reading' = ~Throws(m) /\ UNCHANGED queued
                ELSE /\ queued' = IF m.id \in held THEN Append(queued, Answer(c, m.result))
                                                  ELSE queued
                     /\ UNCHANGED <<setting, reading>>
  /\ answers' = Tail(answers)
  /\ UNCHANGED <<callerVars, result, held, subscriptions, lifetimeVars, requests, endpointVars>>

-----------------------------------------------------------------------------
(* The terminator: LifetimeImpl::terminate.                                *)

Terminate ==
  /\ ~is_terminated
  /\ is_terminated' = TRUE
  /\ UNCHANGED <<callerVars, taskVars, subscriptions, queued, actions, ending, requests, answers,
                 reading, endpointVars>>

\* Once: what is there is moved out under the lock.
TakeActions ==
  /\ is_terminated /\ Contains(actions, Unbind)
  /\ ending' = actions
  /\ actions' = <<>>
  /\ UNCHANGED <<callerVars, taskVars, subscriptions, queued, is_terminated, requests, answers,
                 reading, endpointVars>>

\* The last is run first.
RunAction ==
  /\ ending # <<>> /\ setting["terminator"] = None
  /\ LET a == Last(ending) IN
       IF a.does = "unsubscribe"
         THEN subscriptions' = subscriptions \ {a.id} /\ UNCHANGED setting
         ELSE IF a.does = "cancel"
           THEN SetIfEmpty("terminator", a.id, Cancelled) /\ UNCHANGED subscriptions
           ELSE UNCHANGED <<subscriptions, setting>>
  /\ ending' = Front(ending)
  /\ UNCHANGED <<callerVars, result, held, queued, is_terminated, actions, requests, answers,
                 reading, endpointVars>>

-----------------------------------------------------------------------------
(* The endpoint.                                                           *)

Given == FoldFunction(LAMBDA s, n : Len(s) + n, 0, task)

\* The result of the endpoint's task is set, and sent, also one that it had
\* before: operator== of results compares addresses.
Give(c, r) ==
  /\ task' = [task EXCEPT ![c] = Append(@, r)]
  /\ answers' = Append(answers, Answer(c, r))

\* RdEndpoint::on_wire_received: the handler returns a task with a result, or
\* throws, which makes a fault.
HandleInPlace ==
  /\ endpoint_up /\ requests # <<>>
  /\ \E r \in {Success, Fault} : Give(Head(requests), r)
  /\ requests' = Tail(requests)
  /\ UNCHANGED <<callerVars, taskVars, subscriptions, queued, lifetimeVars, reading, pending,
                 endpoint_up>>

\* The handler returns a task that has no result yet, and may be set later.
HandleLater ==
  /\ endpoint_up /\ requests # <<>>
  /\ pending' = pending \cup {Head(requests)}
  /\ requests' = Tail(requests)
  /\ UNCHANGED <<callerVars, taskVars, subscriptions, queued, lifetimeVars, answers, reading,
                 task, endpoint_up>>

\* The handler's task is set to a result.  The listener logs by a reference
\* to a local that is gone: it goes on, or the process ends.
Complete(c, r) ==
  /\ endpoint_up /\ c \in pending /\ Given < MaxAnswers
  /\ \/ Give(c, r) /\ UNCHANGED endpoint_up
     \/ endpoint_up' = FALSE /\ UNCHANGED <<task, answers>>
  /\ UNCHANGED <<callerVars, taskVars, subscriptions, queued, lifetimeVars, requests, reading,
                 pending>>

-----------------------------------------------------------------------------
SchedulerThread ==
  \/ \E k \in {"sync", "start"} : StartInternal(k)
  \/ AddUnsubscribe \/ AddCancel \/ Refuse \/ Send
  \/ Succeed \/ Throw \/ RunQueued \/ Store("scheduler") \/ Fire("scheduler")
  \/ \E c \in Ids : Drop(c)

WireThread == OnAnswer \/ Store("wire") \/ Fire("wire")

Terminator == Terminate \/ TakeActions \/ RunAction \/ Store("terminator") \/ Fire("terminator")

Endpoint ==
  \/ HandleInPlace \/ HandleLater
  \/ \E c \in Ids, r \in Later : Complete(c, r)

Next == SchedulerThread \/ WireThread \/ Terminator \/ Endpoint

Spec == Init /\ [][Next]_vars

\* Threads go on; nobody has to make a call, to let a task go, to end the
\* lifetime or to complete a handler's task.
Fairness ==
  /\ WF_vars(AddUnsubscribe \/ AddCancel \/ Refuse \/ Send \/ Succeed \/ Throw
             \/ RunQueued \/ Store("scheduler") \/ Fire("scheduler"))
  /\ WF_vars(WireThread)
  /\ WF_vars(TakeActions \/ RunAction \/ Store("terminator")
             \/ Fire("terminator"))
  /\ WF_vars(HandleInPlace \/ HandleLater)

FairSpec == Spec /\ Fairness

-----------------------------------------------------------------------------
(* Properties.                                                             *)

ActionRecords == [does : {"unbind", "unsubscribe", "cancel"}, id : 0..made]
AnswerRecords == [id : 1..made, result : Results]

\* Types of all variables.
TypeOK ==
  /\ made \in 0..MaxCalls
  /\ kind \in [Ids -> {"none", "sync", "start"}]
  /\ step \in {"idle", "advised", "add", "send", "wait"}
  /\ sync_task_id \in 0..made
  /\ result \in [Ids -> Results \cup {Empty}]
  /\ setting \in [Threads -> [id : 0..made, result : Results \cup {Empty}]]
  /\ held \subseteq 1..made /\ subscriptions \subseteq 1..made
  /\ queued \in Seq(AnswerRecords)
  /\ answers \in Seq(AnswerRecords)
  /\ requests \in Seq(1..made)
  /\ actions \in Seq(ActionRecords)
  /\ ending \in Seq(ActionRecords)
  /\ is_terminated \in BOOLEAN /\ endpoint_up \in BOOLEAN /\ reading \in BOOLEAN
  /\ task \in [Ids -> Seq(Results)]
  /\ pending \subseteq 1..made

\* What a task's result is: the first one its own request was given at the
\* endpoint, whichever calls timed out before, whatever the endpoint's task was
\* set to later; or a cancellation, by the end of the lifetime.
FirstResultCounts ==
  \A c \in Ids :
    \/ result[c] = Empty
    \/ result[c] = Cancelled /\ is_terminated
    \/ task[c] # <<>> /\ result[c] = Head(task[c])

\* A result that is there is not replaced, though set_if_empty tests and stores
\* in two steps on three threads; except when the lifetime ends while an answer
\* is being stored, and then only an answer and the cancellation by each other.
ResultFinal ==
  [][\A c \in Ids : result[c] # Empty /\ result'[c] # result[c] =>
       is_terminated /\ Cancelled \in {result[c], result'[c]}]_vars

\* While the lifetime lasts, nothing new reaches a task that was let go after it
\* had its result, if its endpoint answered once: no answer is on its way to its
\* pointer, none is queued with it, and no thread is about to store in it.  This
\* does not make it safe to let the task go: the thread that stored the result
\* may still be inside Property::set of it.
NothingComes ==
  \A c \in 1..made :
    c \notin held /\ result[c] # Empty /\ Len(task[c]) = 1 /\ ~is_terminated =>
      /\ \A i \in 1..Len(answers \o queued) : (answers \o queued)[i].id # c
      /\ \A t \in Threads : setting[t].id = c => setting[t].result = Empty

\* Nobody is inside set_if_empty of a task that was let go.  The code does not
\* keep this: sync times out between the test and Store of the wire thread, or
\* sees the result between Store and Fire; the task is let go, and the wire
\* thread stores in it or fires its listeners.
GoneIsUntouched ==
  \A t \in Threads : setting[t] # None => setting[t].id \in held

\* A result a task has is the one it was asked for, and once it is there and the
\* task let go nothing new reaches it (on_wire_received, RdTaskResult, set_if_empty).
ResultsHold == FirstResultCounts /\ NothingComes

\* A call refuses sync only while a sync call is waiting or after one that did
\* not succeed; a success leaves it usable.
RefusesOnlyAfterFailure ==
  sync_task_id # 0 =>
    /\ kind[sync_task_id] = "sync"
    /\ (step = "wait" /\ sync_task_id = made) \/ result[sync_task_id] # Success

\* Nobody waits for good: a task whose request was given a result, or whose
\* lifetime has ended, gets a result unless its holder lets it go; or unless a
\* late answer has made the wire thread throw.
TaskEnds ==
  \A c \in Ids :
    c \in held /\ (task[c] # <<>> \/ is_terminated)
      ~> result[c] # Empty \/ c \notin held \/ ~reading

=============================================================================
