------------------------------ MODULE Lifetimes ------------------------------
(***************************************************************************)
(* Lifetimes (LifetimeImpl, LifetimeDefinition, SequentialLifetimes) where *)
(* threads meet in them: the view of a property (IPropertyBase::view), as  *)
(* RiderLink.cpp has one of the wire's connected.                          *)
(*                                                                         *)
(* Root is the wire's lifetime; View, nested in it, is the view's own; one *)
(* more, nested in View, is made by SequentialLifetimes::next for every    *)
(* value and handed to the handler, which queues it for the scheduler.     *)
(* Three threads: the wire sets the property, the scheduler adds actions   *)
(* to the lifetimes it is handed, the game thread ends Root.  A thread is  *)
(* what it has left to do, the innermost call first; a step is one locked  *)
(* region, or one access to what is shared without a lock.  The view is    *)
(* set up in Init; the value it finds comes as a first change.             *)
(***************************************************************************)
EXTENDS Naturals, Sequences, FiniteSets, SequencesExt

CONSTANTS MaxChanges  \* bound: changes of the property

ASSUME LifetimesAssumption == MaxChanges \in Nat

Eternal == 0
Root == 1
View == 2

VARIABLES
  terminated,  \* per lifetime
  actions,     \* per lifetime, in the order they were added
  created,     \* lifetimes so far
  current_def, \* of the view's SequentialLifetimes
  todo,        \* per thread: its calls
  handed,      \* the lifetimes the handler was given and queued
  used,        \* how many of them the scheduler has taken
  changes,     \* counted
  opened, accepted, removed,  \* history: what became of the scheduler's actions
  ran          \* history: the actions that were run, in order

lifetimeVars == <<terminated, actions, created, current_def>>
historyVars == <<opened, accepted, removed, ran>>
vars == <<lifetimeVars, todo, handed, used, changes, historyVars>>

Threads == {"wire", "scheduler", "game"}
Lifetime == 0..(MaxChanges + View)
Parent(n) == IF n = View THEN Root ELSE View

\* The two actions for a value: a bracket's closing, and a plain one.
Bracket(i) == 2 * i
Plain(i) == 2 * i + 1

\* A call: what it does, the lifetime or action it is about, and a second lifetime.
Do(does, x) == [does |-> does, of |-> x, was |-> Eternal]
Write(n, was) == [does |-> "write", of |-> n, was |-> was]

\* What attach_nested, SequentialLifetimes and the scheduler add as actions.
Ends(n) == Do("terminate", n)
Detach(n) == Do("detach", n)
Reset == Do("swap", Eternal)
Closing(k) == Do("close", k)

Init ==
  /\ terminated = [l \in Lifetime |-> FALSE]
  /\ actions = [l \in Lifetime |->
       CASE l = Root -> <<Ends(View)>> [] l = View -> <<Detach(View), Reset>> [] OTHER -> <<>>]
  /\ created = View
  /\ current_def = Eternal
  /\ todo = [t \in Threads |-> <<>>]
  /\ handed = <<>> /\ used = 0
  /\ changes = 0
  /\ opened = {} /\ accepted = {} /\ removed = {}
  /\ ran = <<>>

-----------------------------------------------------------------------------
\* Thread t is at a call of this kind.
At(t, does) == todo[t] # <<>> /\ Head(todo[t]).does = does
Of(t) == Head(todo[t]).of

\* It makes these calls in its place.
Calls(t, calls) == todo' = [todo EXCEPT ![t] = calls \o Tail(@)]

\* What is left of a call that throws: the thread does these and no more.
Throws(t, calls) == todo' = [todo EXCEPT ![t] = calls]

-----------------------------------------------------------------------------
(* LifetimeImpl.                                                           *)

\* terminate, up to the lock.
Terminate(t) ==
  /\ At(t, "terminate")
  /\ IF Of(t) = Eternal
       THEN Calls(t, <<>>) /\ UNCHANGED terminated
       ELSE Calls(t, <<Do("take", Of(t))>>) /\ terminated' = [terminated EXCEPT ![Of(t)] = TRUE]
  /\ UNCHANGED <<actions, created, current_def, handed, used, changes, historyVars>>

\* Mutant of Take: the actions are run in the order they were added.
Take_Forward(t) ==
  /\ At(t, "take")
  /\ actions' = [actions EXCEPT ![Of(t)] = <<>>]
  /\ Calls(t, actions[Of(t)])
  /\ UNCHANGED <<terminated, created, current_def, handed, used, changes, historyVars>>

\* The actions are taken under the lock, and run in reverse order without it.
Take(t) ==
  /\ At(t, "take")
  /\ actions' = [actions EXCEPT ![Of(t)] = <<>>]
  /\ Calls(t, Reverse(actions[Of(t)]))
  /\ UNCHANGED <<terminated, created, current_def, handed, used, changes, historyVars>>

\* s without a, which it has at most once.
Without(s, a) ==
  IF Contains(s, a) THEN RemoveAt(s, CHOOSE i \in 1..Len(s) : s[i] = a) ELSE s

\* The end of a nested lifetime erases it from the parent, without the lock.
Erase(t) ==
  /\ At(t, "detach")
  /\ actions' = [actions EXCEPT ![Parent(Of(t))] = Without(@, Ends(Of(t)))]
  /\ Calls(t, <<>>)
  /\ UNCHANGED <<terminated, created, current_def, handed, used, changes, historyVars>>

\* What may be left of s: some of its actions, which are all different, in order.
Torn(s) ==
  {rest \in SeqOf(ToSet(s), Len(s)) :
     \A i, j \in 1..Len(rest) : i < j => \E g, h \in 1..Len(s) : g < h /\ s[g] = rest[i] /\ s[h] = rest[j]}

\* Meanwhile another thread is inside the parent's lock: any of its actions
\* may be lost.
Tear(t) ==
  /\ At(t, "detach")
  /\ LET p == Parent(Of(t)) IN
       /\ \E u \in Threads \ {t} :
            (At(u, "take") /\ Of(u) = p) \/ (At(u, "attach") /\ Parent(Of(u)) = p)
       /\ \E rest \in Torn(actions[p]) :
            Ends(Of(t)) \notin ToSet(rest) /\ actions' = [actions EXCEPT ![p] = rest]
  /\ Calls(t, <<>>)
  /\ UNCHANGED <<terminated, created, current_def, handed, used, changes, historyVars>>

\* An action of the scheduler's is run.
Close(t) ==
  /\ At(t, "close")
  /\ ran' = Append(ran, Of(t))
  /\ Calls(t, <<>>)
  /\ UNCHANGED <<lifetimeVars, handed, used, changes, opened, accepted, removed>>

\* Mutant of Attach: a parent that has ended takes the action.
Attach_Late(t) ==
  /\ At(t, "attach")
  /\ actions' = [actions EXCEPT ![Parent(Of(t))] = Append(@, Ends(Of(t)))]
  /\ Calls(t, <<>>)
  /\ UNCHANGED <<terminated, created, current_def, handed, used, changes, historyVars>>

\* attach_nested: the parent is told how to end the nested lifetime ...  One
\* that has ended throws, and ~LifetimeDefinition ends the nested one.
Attach(t) ==
  /\ At(t, "attach")
  /\ IF terminated[Parent(Of(t))]
       THEN Throws(t, <<Ends(Of(t))>>) /\ UNCHANGED actions
       ELSE /\ actions' = [actions EXCEPT ![Parent(Of(t))] = Append(@, Ends(Of(t)))]
            /\ Calls(t, <<>>)
  /\ UNCHANGED <<terminated, created, current_def, handed, used, changes, historyVars>>

\* ... and the nested one to take that back; it may have been ended meanwhile.
AttachBack(t) ==
  /\ At(t, "attach_back")
  /\ IF terminated[Of(t)]
       THEN Throws(t, <<>>) /\ UNCHANGED actions
       ELSE actions' = [actions EXCEPT ![Of(t)] = Append(@, Detach(Of(t)))] /\ Calls(t, <<>>)
  /\ UNCHANGED <<terminated, created, current_def, handed, used, changes, historyVars>>

-----------------------------------------------------------------------------
(* SequentialLifetimes.                                                    *)

\* set_current_lifetime: what is current is read ...
Swap(t) ==
  /\ At(t, "swap")
  /\ Calls(t, <<Write(Of(t), current_def)>>)
  /\ UNCHANGED <<lifetimeVars, handed, used, changes, historyVars>>

\* Another thread is still inside next for lifetime n, and has its definition.
Kept(n) == \E t \in Threads : \E i \in 1..Len(todo[t]) : todo[t][i] = Do("return", n)

\* Mutant of WriteCurrent: what was current is not ended.
WriteCurrent_Forget(t) ==
  /\ At(t, "write")
  /\ current_def' = Of(t)
  /\ Calls(t, <<>>)
  /\ UNCHANGED <<terminated, actions, created, handed, used, changes, historyVars>>

\* ... and replaced, and ended.  What another thread has put there in between
\* is dropped: ~LifetimeDefinition ends it, unless next has it still.
WriteCurrent(t) ==
  /\ At(t, "write")
  /\ current_def' = Of(t)
  /\ LET was == Head(todo[t]).was IN
       Calls(t, (IF current_def \in {was, Eternal} \/ Kept(current_def)
                   THEN <<>> ELSE <<Ends(current_def)>>) \o <<Ends(was)>>)
  /\ UNCHANGED <<terminated, actions, created, handed, used, changes, historyVars>>

\* next returns what is current by then, and drops its definition; the handler
\* queues the lifetime.
Return(t) ==
  /\ At(t, "return")
  /\ handed' = Append(handed, current_def)
  /\ Calls(t, IF current_def = Of(t) THEN <<>> ELSE <<Ends(Of(t))>>)
  /\ UNCHANGED <<lifetimeVars, used, changes, historyVars>>

-----------------------------------------------------------------------------
(* IPropertyBase::view and the threads.                                    *)

\* The property is set: the handlers of before_change, and of change.
Set ==
  /\ todo["wire"] = <<>> /\ changes < MaxChanges
  /\ changes' = changes + 1
  /\ todo' = [todo EXCEPT !["wire"] = <<Do("before", View), Do("change", View)>>]
  /\ UNCHANGED <<lifetimeVars, handed, used, historyVars>>

Before(t) ==
  /\ At(t, "before")
  /\ Calls(t, IF terminated[View] THEN <<>> ELSE <<Reset>>)
  /\ UNCHANGED <<lifetimeVars, handed, used, changes, historyVars>>

Change(t) ==
  /\ At(t, "change")
  /\ LET n == created + 1 IN
       IF terminated[View] THEN Calls(t, <<>>) /\ UNCHANGED created
       ELSE /\ created' = n
            /\ Calls(t, <<Do("attach", n), Do("attach_back", n), Do("swap", n), Do("return", n)>>)
  /\ UNCHANGED <<terminated, actions, current_def, handed, used, changes, historyVars>>

\* The scheduler's thread is handed a lifetime: a bracket, a plain action, and
\* perhaps remove_action of that.
Use ==
  /\ todo["scheduler"] = <<>> /\ used < Len(handed)
  /\ used' = used + 1
  /\ \E more \in {<<>>, <<Do("remove", used + 1)>>} :
       todo' = [todo EXCEPT !["scheduler"] = <<Do("bracket", used + 1), Do("plain", used + 1)>> \o more]
  /\ UNCHANGED <<lifetimeVars, handed, changes, historyVars>>

\* bracket opens, if the lifetime has not ended ...
Open(t) ==
  /\ At(t, "bracket")
  /\ IF terminated[handed[Of(t)]]
       THEN Calls(t, <<>>) /\ UNCHANGED opened
       ELSE opened' = opened \cup {Bracket(Of(t))} /\ Calls(t, <<Do("closing", Of(t))>>)
  /\ UNCHANGED <<lifetimeVars, handed, used, changes, accepted, removed, ran>>

\* add_action, of the bracket's closing or of the plain action.  The eternal
\* lifetime takes none; one that has ended throws.
Add(t) ==
  /\ At(t, "closing") \/ At(t, "plain")
  /\ LET l == handed[Of(t)]
         k == IF At(t, "closing") THEN Bracket(Of(t)) ELSE Plain(Of(t)) IN
       IF terminated[l] THEN Throws(t, <<>>) /\ UNCHANGED <<actions, accepted>>
       ELSE /\ Calls(t, <<>>)
            /\ IF l = Eternal THEN UNCHANGED <<actions, accepted>>
               ELSE /\ actions' = [actions EXCEPT ![l] = Append(@, Closing(k))]
                    /\ accepted' = accepted \cup {k}
  /\ UNCHANGED <<terminated, created, current_def, handed, used, changes, opened, removed, ran>>

\* remove_action; an action that was taken already is run all the same.
RemoveAction(t) ==
  /\ At(t, "remove")
  /\ LET l == handed[Of(t)]
         a == Closing(Plain(Of(t))) IN
       /\ actions' = [actions EXCEPT ![l] = Without(@, a)]
       /\ removed' = removed \cup {k \in {Plain(Of(t))} : Contains(actions[l], a)}
  /\ Calls(t, <<>>)
  /\ UNCHANGED <<terminated, created, current_def, handed, used, changes, opened, accepted, ran>>

\* The game thread ends the wire's lifetime.
Shutdown ==
  /\ todo["game"] = <<>> /\ ~terminated[Root]
  /\ todo' = [todo EXCEPT !["game"] = <<Ends(Root)>>]
  /\ UNCHANGED <<lifetimeVars, handed, used, changes, historyVars>>

Step(t) ==
  \/ Terminate(t) \/ Take(t) \/ Erase(t) \/ Tear(t) \/ Close(t) \/ Attach(t) \/ AttachBack(t)
  \/ Swap(t) \/ WriteCurrent(t) \/ Return(t) \/ Before(t) \/ Change(t)
  \/ Open(t) \/ Add(t) \/ RemoveAction(t)

Next == Set \/ Use \/ Shutdown \/ \E t \in Threads : Step(t)

Spec == Init /\ [][Next]_vars

\* A thread goes on with its calls, and the scheduler with its queue; nobody
\* has to set the property or to shut down.
FairSpec == Spec /\ WF_vars(Use) /\ \A t \in Threads : WF_vars(Step(t))

-----------------------------------------------------------------------------
(* Properties.                                                             *)

\* Types of all variables.
TypeOK ==
  /\ terminated \in [Lifetime -> BOOLEAN] /\ ~terminated[Eternal]
  /\ \A l \in Lifetime : \A i \in 1..Len(actions[l]) :
       actions[l][i].does \in {"terminate", "detach", "swap", "close"}
  /\ created \in View..(MaxChanges + View)
  /\ current_def \in {Eternal} \cup (View + 1)..created
  /\ handed \in Seq({Eternal} \cup (View + 1)..created)
  /\ used \in 0..Len(handed) /\ changes \in 0..MaxChanges

\* An action that is still to be run.
Pending(k) ==
  \/ \E l \in Lifetime : Contains(actions[l], Closing(k))
  \/ \E t \in Threads : Contains(todo[t], Closing(k))

\* An action that add_action accepted is in its lifetime or on a thread that
\* ends it, or was run, or removed, and only one of these; never run twice
\* and never forgotten, whoever ends the lifetime, and however often.
RunOnce ==
  /\ \A k \in accepted :
       Cardinality({c \in {"pending", "ran", "removed"} :
         \/ c = "pending" /\ Pending(k)
         \/ c = "ran" /\ Contains(ran, k)
         \/ c = "removed" /\ k \in removed}) = 1
  /\ IsInjective(ran) /\ ToSet(ran) \subseteq accepted

\* The actions of a lifetime are run last added first.
ReverseOrder ==
  \A i \in 1..Len(handed) :
    (Contains(ran, Bracket(i)) /\ Plain(i) \in accepted \ removed) =>
      \E j, k \in 1..Len(ran) : j < k /\ ran[j] = Plain(i) /\ ran[k] = Bracket(i)

\* Every action added is accounted for, and run in its turn (add_action,
\* remove_action, terminate).
ActionsAccounted == TypeOK /\ RunOnce /\ ReverseOrder

\* When the end of the wire's lifetime returns, every lifetime the handler was
\* given, and every one it is given later, has ended; also when the erase without
\* the lock has lost actions of the view's.
EndsWithRoot ==
  (terminated[Root] /\ todo["game"] = <<>>) =>
    \A l \in ToSet(handed) \ {Eternal} : terminated[l]

\* The detailed view keeps its promise: the lifetimes it gives out end one after
\* the other, and the eternal one, which runs no action, comes only from a view
\* that is over, when the game thread has made it current inside next.
Contract == INSTANCE ViewContract WITH
  Lifetime <- Lifetime, Eternal <- Eternal,
  given <- ToSet(handed),
  ended <- {l \in ToSet(handed) \ {Eternal} : terminated[l]},
  over <- terminated[View]
ViewPromise == Contract!Spec

\* Once the wire's lifetime is ended, every lifetime made for a value ends, and
\* every bracket that opened is closed: but for one add_action threw at, after
\* it had opened, and one on the eternal lifetime.
EverythingEnds ==
  terminated[Root] ~>
    /\ \A l \in (View + 1)..created : terminated[l]
    /\ \A k \in opened \cap accepted : Contains(ran, k)

=============================================================================
