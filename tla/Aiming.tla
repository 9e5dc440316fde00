------------------------------- MODULE Aiming -------------------------------
(***************************************************************************)
(* bIsAiming of UCombatComponent (CombatComponent.cpp): set at once on the *)
(* machine of the player who holds the Aim button, sent to the server with *)
(* the reliable RPC ServerSetAiming, and replicated by the server to every *)
(* client, the owner included (DOREPLIFETIME without a condition).  The    *)
(* owner's prediction and the server's answer therefore write the same     *)
(* variable, and an answer may be older than the button.                   *)
(*                                                                         *)
(* Characters share no aiming state, so the module follows one character.  *)
(***************************************************************************)
EXTENDS Naturals, Sequences

CONSTANTS
  Clients,      \* the remote machines
  Server,       \* the machine with authority (a listen or dedicated server)
  Owner,        \* the machine whose player controls the character
  MaxRpc,       \* bound: RPCs the reliable channel holds at once
  MaxInFlight   \* bound: property updates in flight to one client

ASSUME AimingAssumption ==
  /\ Server \notin Clients
  /\ Owner \in Clients \cup {Server}
  /\ MaxRpc \in Nat \ {0}
  /\ MaxInFlight \in Nat \ {0}

Machines == Clients \cup {Server}

VARIABLES
  button,   \* is the Aim key held down on Owner
  aiming,   \* bIsAiming on each machine
  speed,    \* MaxWalkSpeed of the movement component on each machine
  rpc,      \* ServerSetAiming calls on their way from Owner to Server
  repl,     \* updates of bIsAiming on their way to each client
  shadow,   \* the value the server sent last to each client
  dirty     \* clients that did not acknowledge the value sent last

vars == <<button, aiming, speed, rpc, repl, shadow, dirty>>

-----------------------------------------------------------------------------
\* Mutant of WalkSpeed: the base speed is a member nobody initialised.
WalkSpeed_BaseUnset(b) == IF b THEN "aimWalkSpeed" ELSE "unset"

\* bIsAiming ? aimWalkSpeed : baseWalkSpeed
WalkSpeed(b) == IF b THEN "aimWalkSpeed" ELSE "baseWalkSpeed"

\* BeginPlay gives every machine the base speed; a UObject starts zeroed.
Init ==
  /\ button = FALSE
  /\ aiming = [m \in Machines |-> FALSE]
  /\ speed = [m \in Machines |-> WalkSpeed(FALSE)]
  /\ rpc = <<>>
  /\ repl = [m \in Clients |-> <<>>]
  /\ shadow = [m \in Clients |-> FALSE]
  /\ dirty = {}

\* The body SetAiming and ServerSetAiming_Implementation have in common.
ApplyAiming(m, b) ==
  /\ aiming' = [aiming EXCEPT ![m] = b]
  /\ speed' = [speed EXCEPT ![m] = WalkSpeed(b)]

\* Mutant of SetAiming: a release is predicted and never sent.
SetAiming_PressOnly(b) ==
  /\ ApplyAiming(Owner, b)
  /\ rpc' = IF Owner = Server \/ ~b THEN rpc ELSE Append(rpc, b)
  /\ UNCHANGED <<repl, shadow, dirty>>

\* UCombatComponent::SetAiming on the owner.  A Server RPC called with
\* authority runs in place, so the host sends nothing.
SetAiming(b) ==
  /\ ApplyAiming(Owner, b)
  /\ rpc' = IF Owner = Server THEN rpc ELSE Append(rpc, b)
  /\ UNCHANGED <<repl, shadow, dirty>>

\* AimButtonPressed and AimButtonReleased: a key goes down, then up.
AimButtonPressed ==
  /\ ~button
  /\ Len(rpc) < MaxRpc
  /\ button' = TRUE
  /\ SetAiming(TRUE)

AimButtonReleased ==
  /\ button
  /\ Len(rpc) < MaxRpc
  /\ button' = FALSE
  /\ SetAiming(FALSE)

\* Mutant of ServerSetAiming: the argument is ignored when it is false.
ServerSetAiming_AimOnly ==
  /\ rpc # <<>>
  /\ IF Head(rpc) THEN ApplyAiming(Server, TRUE) ELSE UNCHANGED <<aiming, speed>>
  /\ rpc' = Tail(rpc)
  /\ UNCHANGED <<button, repl, shadow, dirty>>

\* The reliable RPC arrives, in the order of the calls.
ServerSetAiming ==
  /\ rpc # <<>>
  /\ ApplyAiming(Server, Head(rpc))
  /\ rpc' = Tail(rpc)
  /\ UNCHANGED <<button, repl, shadow, dirty>>

-----------------------------------------------------------------------------
(* Replication of the registered property bIsAiming (engine).              *)

NeedsUpdate(m) == m \in dirty \/ shadow[m] # aiming[Server]

\* A net update: the server sends the current value to one client.
SendUpdate(m) ==
  /\ NeedsUpdate(m)
  /\ Len(repl[m]) < MaxInFlight
  /\ repl' = [repl EXCEPT ![m] = Append(@, aiming[Server])]
  /\ shadow' = [shadow EXCEPT ![m] = aiming[Server]]
  /\ dirty' = dirty \ {m}
  /\ UNCHANGED <<button, aiming, speed, rpc>>

\* The property is Replicated, not ReplicatedUsing: the value is stored and
\* no notify runs, so MaxWalkSpeed stays what it was.
ReceiveUpdate(m) ==
  /\ repl[m] # <<>>
  /\ aiming' = [aiming EXCEPT ![m] = Head(repl[m])]
  /\ repl' = [repl EXCEPT ![m] = Tail(@)]
  /\ UNCHANGED <<button, speed, rpc, shadow, dirty>>

\* A packet is lost (or overtaken and dropped); its negative acknowledgement
\* makes the server send the value it has by then.
LoseUpdate(m) ==
  /\ repl[m] # <<>>
  /\ repl' = [repl EXCEPT ![m] = Tail(@)]
  /\ dirty' = dirty \cup {m}
  /\ UNCHANGED <<button, aiming, speed, rpc, shadow>>

-----------------------------------------------------------------------------
Next ==
  \/ AimButtonPressed
  \/ AimButtonReleased
  \/ ServerSetAiming
  \/ \E m \in Clients : SendUpdate(m) \/ ReceiveUpdate(m) \/ LoseUpdate(m)

Spec == Init /\ [][Next]_vars

\* Reliable RPCs arrive; net updates recur; of infinitely many packets one
\* gets through.  The player owes nothing.
Fairness ==
  /\ WF_vars(ServerSetAiming)
  /\ \A m \in Clients : WF_vars(SendUpdate(m)) /\ SF_vars(ReceiveUpdate(m))

FairSpec == Spec /\ Fairness

-----------------------------------------------------------------------------
TypeOK ==
  /\ button \in BOOLEAN
  /\ aiming \in [Machines -> BOOLEAN]
  /\ speed \in [Machines -> {"aimWalkSpeed", "baseWalkSpeed"}]
  /\ rpc \in Seq(BOOLEAN)
  /\ repl \in [Clients -> Seq(BOOLEAN)]
  /\ shadow \in [Clients -> BOOLEAN]
  /\ dirty \in SUBSET Clients

\* Nothing is on its way to m and the server owes m nothing.
Settled(m) == rpc = <<>> /\ (m = Server \/ (repl[m] = <<>> /\ ~NeedsUpdate(m)))

\* Whatever was predicted, overwritten, lost and resent on the way
\* (SetAiming against ReceiveUpdate): on a machine nothing is in flight for,
\* bIsAiming is the state of the owner's Aim button.
QuiescentAgreement == \A m \in Machines : Settled(m) => (aiming[m] = button)

\* The walking speed of the owner follows the button, and that of the server
\* follows its bIsAiming, even while a stale update has changed the owner's
\* bIsAiming back (SetAiming and ServerSetAiming_Implementation are the only
\* writers of MaxWalkSpeed).
SpeedFollowsInput ==
  /\ speed[Owner] = WalkSpeed(button)
  /\ speed[Server] = WalkSpeed(aiming[Server])

-----------------------------------------------------------------------------
(* The inductive strengthening of QuiescentAgreement.                      *)

Last(s) == s[Len(s)]

\* The youngest call on its way, or else the server, knows the button.
RpcCarriesButton ==
  IF rpc = <<>> THEN aiming[Server] = button
                ELSE Owner # Server /\ Last(rpc) = button

\* The youngest update in flight is the one the server remembers.
UpdateCarriesShadow == \A m \in Clients : repl[m] # <<>> => Last(repl[m]) = shadow[m]

\* With nothing in flight a client has the value sent last, unless it is the
\* owner and has since set its own.
LandedOrPredicted ==
  \A m \in Clients :
    (repl[m] = <<>> /\ m \notin dirty)
      => (aiming[m] = shadow[m] \/ (m = Owner /\ aiming[m] = button))

IInv ==
  /\ TypeOK
  /\ SpeedFollowsInput
  /\ RpcCarriesButton
  /\ UpdateCarriesShadow
  /\ LandedOrPredicted

-----------------------------------------------------------------------------
\* Once the player leaves the key alone every machine ends up with its state,
\* for good, although packets were lost and the owner's own value was
\* overwritten by old updates.
Convergence ==
  \A b \in BOOLEAN :
    <>[](button = b) => <>[](\A m \in Machines : aiming[m] = b)
=============================================================================
