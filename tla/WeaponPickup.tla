---------------------------- MODULE WeaponPickup ----------------------------
(***************************************************************************)
(* Picking up a weapon: AWeapon (Weapon.cpp), the overlap and equip        *)
(* handlers of ASupergoonCharacter (SupergoonCharacter.cpp) and            *)
(* UCombatComponent::EquipWeapon (CombatComponent.cpp), on the server and  *)
(* on every client.                                                        *)
(*                                                                         *)
(* A player's character bears the name of the machine its player sits at;  *)
(* the machine where it is IsLocallyControlled.  The server has a          *)
(* character of its own when it is a listen server.                        *)
(*                                                                         *)
(* A net update is modelled at its arrival: the client stores the value    *)
(* the server has and runs the RepNotify.  Each property is updated on its *)
(* own, so that what a client has of several may stem from different       *)
(* moments, and values the server had in between are skipped.  A client    *)
(* that has received nothing yet is one that has just joined.              *)
(***************************************************************************)
EXTENDS Naturals, FiniteSets

CONSTANTS
  Clients,   \* the remote machines
  Server,    \* the machine with authority
  Players,   \* the machines with a character
  Weapons,   \* the weapons placed in the level
  None,      \* nullptr
  MaxRpc     \* bound: equip calls a client has on their way

Machines == Clients \cup {Server}

ASSUME PickupAssumption ==
  /\ Server \notin Clients
  /\ Players \subseteq Machines
  /\ None \notin Players \cup Weapons
  /\ MaxRpc \in Nat \ {0}

\* The characters controlled from a client.
Remote == Players \ {Server}

VARIABLES
  inside,        \* the area spheres each character is in (physics, server)
  sphereOn,      \* the weapons whose AreaSphere has collision enabled
  overlapped,    \* OverlappedWeapon of each character on the server
  prompt,        \* OverlappedWeapon of a remote character on its own client
  weaponState,   \* WeaponState of each weapon on each machine
  equipped,      \* EquippedWeapon of each character on each machine
  owner,         \* the weapon's owner, set on the server
  widget,        \* the weapons whose PickupWidget is visible, per machine
  strafing,      \* characters that turn with the controller, per machine
  rpc            \* ServerEquipButtonPressed calls on their way, per player

serverVars == <<inside, sphereOn, overlapped, owner>>
clientVars == <<prompt, weaponState, equipped, widget, strafing>>
vars == <<inside, sphereOn, overlapped, prompt, weaponState, equipped, owner,
          widget, strafing, rpc>>

-----------------------------------------------------------------------------
\* BeginPlay of the weapons enables the spheres on the server only and hides
\* the widgets; characters orient themselves to their movement.
Init ==
  /\ inside = [c \in Players |-> {}]
  /\ sphereOn = Weapons
  /\ overlapped = [c \in Players |-> None]
  /\ prompt = [c \in Remote |-> None]
  /\ weaponState = [m \in Machines |-> [w \in Weapons |-> "Initial"]]
  /\ equipped = [m \in Machines |-> [c \in Players |-> None]]
  /\ owner = [w \in Weapons |-> None]
  /\ widget = [m \in Machines |-> {}]
  /\ strafing = [m \in Machines |-> {}]
  /\ rpc = [c \in Remote |-> 0]

\* ASupergoonCharacter::SetOverlappingWeapon, for every character of the set
\* C at once.  Only the host's own character is locally controlled here.
SetOverlappingWeapon(C, w) ==
  /\ overlapped' = [c \in Players |-> IF c \in C THEN w ELSE overlapped[c]]
  /\ widget' = IF Server \notin C THEN widget
               ELSE [widget EXCEPT ![Server] =
                       (@ \ {overlapped[Server]}) \cup ({w} \ {None})]

\* AWeapon::OnSphereOverlap: a character walks into an enabled sphere.
BeginOverlap(c, w) ==
  /\ w \in sphereOn \ inside[c]
  /\ inside' = [inside EXCEPT ![c] = @ \cup {w}]
  /\ SetOverlappingWeapon({c}, w)
  /\ UNCHANGED <<sphereOn, prompt, weaponState, equipped, owner, strafing, rpc>>

\* AWeapon::OnSphereEndOverlap: it walks out.  The handler does not ask which
\* weapon the character overlaps by now.
EndOverlap(c, w) ==
  /\ w \in inside[c]
  /\ inside' = [inside EXCEPT ![c] = @ \ {w}]
  /\ SetOverlappingWeapon({c}, None)
  /\ UNCHANGED <<sphereOn, prompt, weaponState, equipped, owner, strafing, rpc>>

\* Mutant of SetWeaponState: the sphere keeps its collision.
SetWeaponState_CollisionKept(w) ==
  /\ weaponState' = [weaponState EXCEPT ![Server][w] = "Equipped"]
  /\ widget' = [widget EXCEPT ![Server] = @ \ {w}]
  /\ UNCHANGED <<sphereOn, inside, overlapped>>

\* AWeapon::SetWeaponState(EWS_Equipped) on the server: the widget is hidden,
\* and disabling the collision ends the overlap of everyone in the sphere
\* before it returns.
SetWeaponState(w) ==
  LET left == {c \in Players : w \in inside[c]} IN
  /\ weaponState' = [weaponState EXCEPT ![Server][w] = "Equipped"]
  /\ sphereOn' = sphereOn \ {w}
  /\ inside' = [c \in Players |-> inside[c] \ {w}]
  /\ overlapped' = [c \in Players |-> IF c \in left THEN None ELSE overlapped[c]]
  /\ widget' = [widget EXCEPT ![Server] =
                  @ \ ({w} \cup {overlapped[c] : c \in left \cap {Server}})]

\* UCombatComponent::EquipWeapon(OverlappedWeapon) with authority.
EquipWeapon(c) ==
  \/ /\ overlapped[c] = None
     /\ UNCHANGED <<serverVars, clientVars>>
  \/ /\ overlapped[c] # None
     /\ equipped' = [equipped EXCEPT ![Server][c] = overlapped[c]]
     /\ SetWeaponState(overlapped[c])
     /\ owner' = [owner EXCEPT ![overlapped[c]] = c]
     /\ strafing' = [strafing EXCEPT ![Server] = @ \cup {c}]
     /\ UNCHANGED prompt

\* ASupergoonCharacter::EquipButtonPressed, on the server and on a client.
EquipButtonPressed(c) ==
  \/ /\ c = Server
     /\ EquipWeapon(c)
     /\ UNCHANGED rpc
  \/ /\ c # Server
     /\ rpc[c] < MaxRpc
     /\ rpc' = [rpc EXCEPT ![c] = @ + 1]
     /\ UNCHANGED <<serverVars, clientVars>>

\* ServerEquipButtonPressed_Implementation: the call has no parameter, the
\* server looks up what the character overlaps when it arrives.
ServerEquipButtonPressed(c) ==
  /\ rpc[c] > 0
  /\ rpc' = [rpc EXCEPT ![c] = @ - 1]
  /\ EquipWeapon(c)

-----------------------------------------------------------------------------
\* Mutant of OnRep_OverlappingWeapon: nullptr is not told from a weapon.
OnRep_OverlappingWeapon_Unchecked(c) ==
  /\ prompt[c] # overlapped[c]
  /\ prompt' = [prompt EXCEPT ![c] = overlapped[c]]
  /\ widget' = [widget EXCEPT ![c] = (@ \cup {overlapped[c]}) \ {prompt[c]}]
  /\ UNCHANGED <<serverVars, weaponState, equipped, strafing, rpc>>

\* Mutant of OnRep_OverlappingWeapon: the last weapon's widget stays.
OnRep_OverlappingWeapon_ShowOnly(c) ==
  /\ prompt[c] # overlapped[c]
  /\ prompt' = [prompt EXCEPT ![c] = overlapped[c]]
  /\ widget' = [widget EXCEPT ![c] = @ \cup ({overlapped[c]} \ {None})]
  /\ UNCHANGED <<serverVars, weaponState, equipped, strafing, rpc>>

\* OverlappedWeapon is COND_OwnerOnly: only the player's own client gets it.
\* OnRep_OverlappingWeapon shows the new weapon's widget and hides the last's.
OnRep_OverlappingWeapon(c) ==
  /\ prompt[c] # overlapped[c]
  /\ prompt' = [prompt EXCEPT ![c] = overlapped[c]]
  /\ widget' = [widget EXCEPT ![c] =
                  (@ \cup ({overlapped[c]} \ {None})) \ {prompt[c]}]
  /\ UNCHANGED <<serverVars, weaponState, equipped, strafing, rpc>>

OnRep_WeaponState(m, w) ==
  /\ weaponState[m][w] # weaponState[Server][w]
  /\ weaponState' = [weaponState EXCEPT ![m][w] = weaponState[Server][w]]
  /\ widget' = IF weaponState[Server][w] = "Equipped"
               THEN [widget EXCEPT ![m] = @ \ {w}] ELSE widget
  /\ UNCHANGED <<serverVars, prompt, equipped, strafing, rpc>>

\* Mutant of OnRep_EquippedWeapon: the notify is not registered.
OnRep_EquippedWeapon_NoNotify(m, c) ==
  /\ equipped[m][c] # equipped[Server][c]
  /\ equipped' = [equipped EXCEPT ![m][c] = equipped[Server][c]]
  /\ UNCHANGED <<serverVars, prompt, weaponState, widget, strafing, rpc>>

OnRep_EquippedWeapon(m, c) ==
  /\ equipped[m][c] # equipped[Server][c]
  /\ equipped' = [equipped EXCEPT ![m][c] = equipped[Server][c]]
  /\ strafing' = IF equipped[Server][c] = None THEN strafing
                 ELSE [strafing EXCEPT ![m] = @ \cup {c}]
  /\ UNCHANGED <<serverVars, prompt, weaponState, widget, rpc>>

-----------------------------------------------------------------------------
Next ==
  \/ \E c \in Players, w \in Weapons : BeginOverlap(c, w) \/ EndOverlap(c, w)
  \/ \E c \in Players : EquipButtonPressed(c)
  \/ \E c \in Remote : ServerEquipButtonPressed(c) \/ OnRep_OverlappingWeapon(c)
  \/ \E m \in Clients, w \in Weapons : OnRep_WeaponState(m, w)
  \/ \E m \in Clients, c \in Players : OnRep_EquippedWeapon(m, c)

Spec == Init /\ [][Next]_vars

\* Reliable calls arrive and net updates recur.  Nobody has to walk or press.
Fairness ==
  /\ \A c \in Remote : WF_vars(ServerEquipButtonPressed(c))
  /\ \A m \in Clients, w \in Weapons : WF_vars(OnRep_WeaponState(m, w))
  /\ \A m \in Clients, c \in Players : WF_vars(OnRep_EquippedWeapon(m, c))

FairSpec == Spec /\ Fairness

-----------------------------------------------------------------------------
TypeOK ==
  /\ inside \in [Players -> SUBSET Weapons]
  /\ sphereOn \in SUBSET Weapons
  /\ overlapped \in [Players -> Weapons \cup {None}]
  /\ prompt \in [Remote -> Weapons \cup {None}]
  /\ weaponState \in [Machines -> [Weapons -> {"Initial", "Equipped"}]]
  /\ equipped \in [Machines -> [Players -> Weapons \cup {None}]]
  /\ owner \in [Weapons -> Players \cup {None}]
  /\ widget \in [Machines -> SUBSET Weapons]
  /\ strafing \in [Machines -> SUBSET Players]
  /\ rpc \in [Remote -> 0 .. MaxRpc]

\* OverlappedWeapon is what Equip takes, whenever the call arrives: it is a
\* weapon the character is in reach of and nobody has taken, although
\* everyone in the sphere overlaps the same weapon and calls cross
\* (OnSphereEndOverlap from within SetWeaponState clears it for all).
OverlapIsFree ==
  \A c \in Players :
    overlapped[c] # None => /\ overlapped[c] \in inside[c] \cap sphereOn
                            /\ owner[overlapped[c]] = None

\* No machine ever shows one weapon in the hands of two characters, not even
\* from updates of different moments.
SingleHolder ==
  \A m \in Machines : \A c, d \in Players :
    (equipped[m][c] # None /\ equipped[m][c] = equipped[m][d]) => c = d

\* The inductive strengthening of OverlapIsFree and SingleHolder: an enabled
\* sphere is that of a weapon nobody owns, and what a machine shows in a hand
\* belongs to that character.
SphereIsFree == \A w \in sphereOn : owner[w] = None

HolderOwns ==
  \A m \in Machines : \A c \in Players :
    equipped[m][c] # None => owner[equipped[m][c]] = c

IInv == TypeOK /\ SphereIsFree /\ OverlapIsFree /\ HolderOwns

\* A machine prompts for exactly the weapon its own player overlaps, unless it
\* knows that weapon to be taken; the prompt of a held weapon never shows,
\* whichever of the two updates comes first (SetOverlappingWeapon on the host,
\* OnRep_OverlappingWeapon and OnRep_WeaponState on a client).
OwnOverlap(m) ==
  IF m \notin Players THEN None ELSE IF m = Server THEN overlapped[m] ELSE prompt[m]

PromptIsOwnOverlap ==
  \A m \in Machines, w \in Weapons :
    w \in widget[m] <=> (OwnOverlap(m) = w /\ weaponState[m][w] # "Equipped")

\* What PromptIsOwnOverlap rests on: the server's equipped weapons are those
\* without a sphere, and no client knows of one before the server.
StateIsKnown ==
  /\ \A w \in Weapons : weaponState[Server][w] = "Equipped" <=> w \notin sphereOn
  /\ \A m \in Machines, w \in Weapons :
       weaponState[m][w] = "Equipped" => weaponState[Server][w] = "Equipped"

PInv == IInv /\ StateIsKnown /\ PromptIsOwnOverlap

\* The detailed system keeps the promise: weapons change hands once.
Ownership == INSTANCE WeaponOwnership
  WITH Weapons <- Weapons, Players <- Players, None <- None, owner <- owner
OwnershipPromise == Ownership!Spec

\* Every client ends up, for good, with the server's weapons, holders and way
\* of turning, however its updates were ordered.
Agreement(m) ==
  /\ weaponState[m] = weaponState[Server]
  /\ equipped[m] = equipped[Server]
  /\ strafing[m] = {c \in Players : equipped[Server][c] # None}
EventualAgreement == <>[](\A m \in Machines : Agreement(m))

\* Weapon.h says of the area sphere: "Detect overlap with characters so that
\* they can pick it up".  A character in an enabled sphere should then have a
\* weapon to pick up.
InReachCanPickUp ==
  \A c \in Players : inside[c] # {} => overlapped[c] # None
=============================================================================
