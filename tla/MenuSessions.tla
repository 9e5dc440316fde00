---------------------------- MODULE MenuSessions ----------------------------
(***************************************************************************)
(* Hosting and joining from the main menu: UMenuUi (MenuUi.cpp) on top of  *)
(* USupergoonSessionsSubsystem (SupergoonSessionsSubsystem.cpp) on top of  *)
(* the online subsystem's session interface (external, asynchronous).      *)
(*                                                                         *)
(* The subsystem adds its delegate to the interface's list before each     *)
(* call and remembers one handle per kind; a second Add overwrites the     *)
(* handle and leaves the first delegate in the list.  Its delegates of one *)
(* kind are all alike, so a list is a length and whether the handle still  *)
(* names its newest entry.  A completion runs every delegate of the list,  *)
(* newest first; nothing else runs in between.                             *)
(***************************************************************************)
EXTENDS Naturals

CONSTANT MaxDelegates   \* bound: delegates of one kind left in the list

ASSUME MenuAssumption == MaxDelegates \in Nat \ {0}

Kinds == {"create", "find", "join", "destroy"}

VARIABLES
  place,       \* "menu" while the menu is on the screen, "away" after a travel
  enabled,     \* which of the two buttons can be clicked
  message,     \* the last "Session ... Created Successfully" on the screen
  bCreateSessionOnDestroy,
  delegates,   \* per kind: the length of the list, does the handle name an entry
  session,     \* the named session: "None", "Pending", "Active" or "Destroying"
  pending,     \* calls the interface accepted and has not completed, per kind
  running      \* the completion whose delegates are being run

menuVars == <<place, enabled, message>>
ossVars == <<session, pending>>
allVars == <<menuVars, bCreateSessionOnDestroy, delegates, ossVars, running>>

Idle == [kind |-> "none", left |-> 0, ok |-> FALSE, found |-> "empty"]

MenuInit ==
  /\ place = "menu"
  /\ enabled = [host |-> TRUE, join |-> TRUE]
  /\ message = "none"
  /\ bCreateSessionOnDestroy = FALSE
  /\ delegates = [k \in Kinds |-> [size |-> 0, held |-> FALSE]]
  /\ session = "None"
  /\ pending = [k \in Kinds |-> 0]
  /\ running = Idle

-----------------------------------------------------------------------------
(* The delegate lists.                                                     *)

\* AddOn...CompleteDelegate_Handle, its result kept in the member.
AddHandle(D, k) == [D EXCEPT ![k] = [size |-> @.size + 1, held |-> TRUE]]

\* Mutant of ClearHandle: the handle is not reset and takes another entry along.
ClearHandle_NotReset(D, k) ==
  IF D[k].size > 0 THEN [D EXCEPT ![k] = [size |-> @.size - 1, held |-> @.held]] ELSE D

\* ClearOn...CompleteDelegate_Handle removes what the handle names and resets it.
ClearHandle(D, k) ==
  IF D[k].held THEN [D EXCEPT ![k] = [size |-> @.size - 1, held |-> FALSE]] ELSE D

\* A call the interface refuses: the delegate is added and cleared again.
AddAndClear(D, k) == ClearHandle(AddHandle(D, k), k)

Issue(P, k) == [P EXCEPT ![k] = @ + 1]

-----------------------------------------------------------------------------
(* The menu's handlers, run by the subsystem's broadcasts.                 *)

\* OnCreateSession: travel to the lobby, or let the player try again.
OnCreateSession(bWasSuccessful) ==
  IF place # "menu" THEN UNCHANGED menuVars
  ELSE IF bWasSuccessful
       THEN place' = "away" /\ message' = "created" /\ UNCHANGED enabled
       ELSE /\ message' = "notCreated"
            /\ enabled' = [enabled EXCEPT !.host = TRUE]
            /\ UNCHANGED place

\* OnJoinSession travels to the session's address whatever the result is; a
\* travel to no address may leave the player where it is.
OnJoinSession(success) ==
  IF place # "menu" THEN UNCHANGED menuVars
  ELSE /\ place' \in IF success THEN {"away"} ELSE {"menu", "away"}
       /\ enabled' = IF success THEN enabled ELSE [enabled EXCEPT !.join = TRUE]
       /\ UNCHANGED message

-----------------------------------------------------------------------------
(* The subsystem's operations.  D and P are the delegate lists and pending *)
(* calls when they start.                                                  *)

\* Mutant of CreateNew: a refusal is not broadcast.
CreateNew_Silent(host, D, P) ==
  /\ \/ /\ delegates' = AddHandle(D, "create")
        /\ pending' = Issue(P, "create")
        /\ session' = "Pending"
     \/ /\ delegates' = AddAndClear(D, "create")
        /\ pending' = P
        /\ session' = "None"
  /\ enabled' = [enabled EXCEPT !.host = host]
  /\ UNCHANGED <<place, message>>

\* CreateSession with no session about, host being the state of the Host
\* button meanwhile: the interface accepts the call or refuses it.
CreateNew(host, D, P) ==
  \/ /\ delegates' = AddHandle(D, "create")
     /\ pending' = Issue(P, "create")
     /\ session' = "Pending"
     /\ enabled' = [enabled EXCEPT !.host = host]
     /\ UNCHANGED <<place, message>>
  \/ /\ delegates' = AddAndClear(D, "create")
     /\ pending' = P
     /\ session' = "None"
     /\ OnCreateSession(FALSE)

\* CreateSession with a session about: DestroySession, to create one when it is
\* gone, and then on to create one at once, which the interface refuses.
CreateOverExisting ==
  /\ bCreateSessionOnDestroy' = TRUE
  /\ \/ /\ session # "Destroying"
        /\ delegates' = AddAndClear(AddHandle(delegates, "destroy"), "create")
        /\ pending' = Issue(pending, "destroy")
        /\ session' = "Destroying"
     \/ /\ delegates' = AddAndClear(AddAndClear(delegates, "destroy"), "create")
        /\ UNCHANGED <<pending, session>>
  /\ OnCreateSession(FALSE)

\* UMenuUi::HostButtonClicked: the button is off unless CreateSession failed.
HostButtonClicked ==
  /\ running = Idle /\ place = "menu" /\ enabled.host
  /\ delegates["create"].size < MaxDelegates /\ delegates["destroy"].size < MaxDelegates
  /\ IF session = "None"
     THEN CreateNew(FALSE, delegates, pending) /\ UNCHANGED bCreateSessionOnDestroy
     ELSE CreateOverExisting
  /\ UNCHANGED running

\* UMenuUi::JoinButtonClicked and FindSessions: refused while one is running.
JoinButtonClicked ==
  /\ running = Idle /\ place = "menu" /\ enabled.join
  /\ delegates["find"].size < MaxDelegates /\ delegates["join"].size < MaxDelegates
  /\ \/ /\ pending["find"] = 0
        /\ delegates' = AddHandle(delegates, "find")
        /\ pending' = Issue(pending, "find")
        /\ enabled' = [enabled EXCEPT !.join = FALSE]
     \/ /\ delegates' = AddAndClear(delegates, "find")
        /\ UNCHANGED <<pending, enabled>>
  /\ UNCHANGED <<place, message, bCreateSessionOnDestroy, session, running>>

\* JoinSession, from OnFindSession: refused when there is a session already.
JoinSession(D) ==
  \/ /\ session = "None"
     /\ delegates' = AddHandle(D, "join")
     /\ pending' = Issue(pending, "join")
     /\ session' = "Pending"
     /\ UNCHANGED menuVars
  \/ /\ delegates' = AddAndClear(D, "join")
     /\ OnJoinSession(FALSE)
     /\ UNCHANGED <<pending, session>>

-----------------------------------------------------------------------------
(* The interface completes a call and runs the delegates of its kind.      *)

Complete(k, ok, found) ==
  /\ running = Idle
  /\ pending[k] > 0
  /\ pending' = [pending EXCEPT ![k] = @ - 1]
  /\ session' = CASE k = "find" -> session
                  [] k = "destroy" -> IF ok THEN "None" ELSE "Active"
                  [] OTHER -> IF session # "Pending" THEN session
                              ELSE IF ok THEN "Active" ELSE "None"
  /\ running' = IF delegates[k].size = 0 THEN Idle
                ELSE [kind |-> k, left |-> delegates[k].size, ok |-> ok, found |-> found]
  /\ UNCHANGED <<menuVars, bCreateSessionOnDestroy, delegates>>

Running(k) ==
  /\ running.kind = k
  /\ running' = IF running.left = 1 THEN Idle ELSE [running EXCEPT !.left = @ - 1]

\* OnSessionCreateComplete passes TRUE on, whatever it was told.
OnSessionCreateComplete ==
  /\ Running("create")
  /\ delegates' = ClearHandle(delegates, "create")
  /\ OnCreateSession(TRUE)
  /\ UNCHANGED <<bCreateSessionOnDestroy, ossVars>>

\* OnFindSessionsComplete and OnFindSession: join the first session of the
\* menu's match type; without any the button comes back, unless there were
\* sessions of other types only.
OnFindSessionsComplete ==
  /\ Running("find")
  /\ LET D == ClearHandle(delegates, "find") IN
     IF place = "menu" /\ running.found = "match"
     THEN JoinSession(D)
     ELSE /\ delegates' = D
          /\ enabled' = IF place = "menu" /\ (~running.ok \/ running.found = "empty")
                        THEN [enabled EXCEPT !.join = TRUE] ELSE enabled
          /\ UNCHANGED <<place, message, pending, session>>
  /\ UNCHANGED bCreateSessionOnDestroy

OnJoinSessionComplete ==
  /\ Running("join")
  /\ delegates' = ClearHandle(delegates, "join")
  /\ OnJoinSession(running.ok)
  /\ UNCHANGED <<bCreateSessionOnDestroy, ossVars>>

\* The session CreateOverExisting wanted out of the way is gone: create.
OnDestroySessionComplete ==
  /\ Running("destroy")
  /\ LET D == ClearHandle(delegates, "destroy") IN
     IF running.ok /\ bCreateSessionOnDestroy
     THEN /\ bCreateSessionOnDestroy' = FALSE
          /\ CreateNew(enabled.host, D, pending)
     ELSE /\ delegates' = D
          /\ UNCHANGED <<menuVars, bCreateSessionOnDestroy, ossVars>>

\* Mutant of MenuSetup: only one of the two buttons is bound.
MenuSetup_HostOnly ==
  /\ running = Idle /\ place = "away"
  /\ place' = "menu"
  /\ enabled' = [host |-> TRUE]
  /\ message' = "none"
  /\ UNCHANGED <<bCreateSessionOnDestroy, delegates, ossVars, running>>

\* The player is back at the main menu, with a new widget (Initialize,
\* MenuSetup); the subsystem and the session are those of the game instance.
MenuSetup ==
  /\ running = Idle /\ place = "away"
  /\ place' = "menu"
  /\ enabled' = [host |-> TRUE, join |-> TRUE]
  /\ message' = "none"
  /\ UNCHANGED <<bCreateSessionOnDestroy, delegates, ossVars, running>>

-----------------------------------------------------------------------------
RunDelegate ==
  \/ OnSessionCreateComplete \/ OnFindSessionsComplete
  \/ OnJoinSessionComplete \/ OnDestroySessionComplete

SomeCompletion(k) ==
  \E ok \in BOOLEAN, found \in {"empty", "match", "other"} :
    (k # "find" => found = "empty") /\ Complete(k, ok, found)

MenuNext ==
  \/ HostButtonClicked \/ JoinButtonClicked \/ MenuSetup
  \/ \E k \in Kinds : SomeCompletion(k)
  \/ RunDelegate

MenuSpec == MenuInit /\ [][MenuNext]_allVars

\* The interface completes every call it accepted, though others may complete
\* first (no two at once: hence the strong fairness).  The player clicks or not.
MenuFairSpec == MenuSpec /\ WF_allVars(RunDelegate) /\ \A k \in Kinds : SF_allVars(SomeCompletion(k))

-----------------------------------------------------------------------------
MenuTypeOK ==
  /\ place \in {"menu", "away"}
  /\ enabled \in [host : BOOLEAN, join : BOOLEAN]
  /\ message \in {"none", "created", "notCreated"}
  /\ bCreateSessionOnDestroy \in BOOLEAN
  /\ delegates \in [Kinds -> [size : Nat, held : BOOLEAN]]
  /\ session \in {"None", "Pending", "Active", "Destroying"}
  /\ pending \in [Kinds -> Nat]
  /\ running \in [kind : Kinds \cup {"none"}, left : Nat, ok : BOOLEAN,
                  found : {"empty", "match", "other"}]

\* Handles are overwritten by calls the interface refuses and then cleared;
\* still every call in progress finds a delegate when it completes, so that
\* no answer is lost (the Add and Clear pairs of the four operations).
CompletionIsHeard == \A k \in Kinds : pending[k] > 0 => delegates[k].size > 0

\* Its inductive strengthening, for lists D, calls P and the kind whose
\* completion is being run: while two calls of a kind are unanswered the list
\* has an entry besides the one a handle can remove.
ListsKeepUp(D, P, kind) ==
  \A k \in Kinds :
    /\ D[k].held => D[k].size > 0
    /\ P[k] > 0 => D[k].size > 0
    /\ P[k] + (IF kind = k THEN 1 ELSE 0) > 1 => D[k].size > (IF D[k].held THEN 1 ELSE 0)

HInv ==
  /\ MenuTypeOK
  /\ running.kind # "none" => running.left > 0
  /\ ListsKeepUp(delegates, pending, running.kind)

\* A Host button that was switched off comes back, or the game has travelled:
\* HostButtonClicked never leaves the menu dead.
HostButtonReturns ==
  (place = "menu" /\ ~enabled.host) ~> (place = "away" \/ enabled.host)

\* A search or a join in progress gives the Join button back or travels, unless
\* the search finds sessions of other match types only: then OnFindSession does
\* neither, and the button stays off.
JoinButtonReturns ==
  (place = "menu" /\ ~enabled.join /\ (pending["find"] > 0 \/ pending["join"] > 0))
    ~> (place = "away" \/ enabled.join \/ (running.kind = "find" /\ running.found = "other"))

\* Both buttons: no order of clicks, calls and completions (HostButtonClicked,
\* JoinButtonClicked and the menu's callbacks) leaves one off for good.
ButtonsReturn == HostButtonReturns /\ JoinButtonReturns
=============================================================================
