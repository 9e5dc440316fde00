------------------------- MODULE WeaponPickupProofs -------------------------
(* For every number of machines, players and weapons: types, what a        *)
(* character overlaps, who holds a weapon, and the abstract promise.       *)
EXTENDS WeaponPickup, TLAPS

LEMMA SetFacts ==
  /\ Server \in Machines /\ Clients \subseteq Machines /\ Server \notin Clients
  /\ Remote \subseteq Players /\ Players \subseteq Machines
  /\ Server \notin Remote
  /\ None \notin Players /\ None \notin Weapons
BY PickupAssumption DEF Machines, Remote

LEMMA InitIInv == Init => IInv
<1> SUFFICES ASSUME Init PROVE IInv
  OBVIOUS
<1> USE SetFacts
<1>1. TypeOK
  BY PickupAssumption DEF Init, TypeOK
<1>2. SphereIsFree /\ OverlapIsFree /\ HolderOwns
  BY DEF Init, SphereIsFree, OverlapIsFree, HolderOwns
<1>3. QED
  BY <1>1, <1>2 DEF IInv

\* Walking into an enabled sphere.
LEMMA BeginKeepsIInv ==
  ASSUME IInv, NEW c \in Players, NEW w \in Weapons, BeginOverlap(c, w)
  PROVE  IInv'
<1> USE SetFacts
<1>1. TypeOK'
  BY DEF IInv, TypeOK, BeginOverlap, SetOverlappingWeapon
<1>2. SphereIsFree' /\ HolderOwns'
  BY DEF IInv, BeginOverlap, SphereIsFree, HolderOwns
<1>3. OverlapIsFree'
  BY DEF IInv, TypeOK, BeginOverlap, SetOverlappingWeapon, SphereIsFree, OverlapIsFree
<1>4. QED
  BY <1>1, <1>2, <1>3 DEF IInv

LEMMA EndKeepsIInv ==
  ASSUME IInv, NEW c \in Players, NEW w \in Weapons, EndOverlap(c, w)
  PROVE  IInv'
<1> USE SetFacts
<1>1. TypeOK'
  BY DEF IInv, TypeOK, EndOverlap, SetOverlappingWeapon
<1>2. SphereIsFree' /\ HolderOwns'
  BY DEF IInv, EndOverlap, SphereIsFree, HolderOwns
<1>3. OverlapIsFree'
  BY DEF IInv, TypeOK, EndOverlap, SetOverlappingWeapon, OverlapIsFree
<1>4. QED
  BY <1>1, <1>2, <1>3 DEF IInv

\* The weapon somebody takes is free, and nobody overlaps it afterwards.
LEMMA EquipFacts ==
  ASSUME IInv, NEW c \in Players, overlapped[c] # None
  PROVE  overlapped[c] \in Weapons /\ owner[overlapped[c]] = None
BY DEF IInv, TypeOK, OverlapIsFree

LEMMA EquipKeepsIInv ==
  ASSUME IInv, NEW c \in Players, EquipWeapon(c), rpc' \in [Remote -> 0 .. MaxRpc]
  PROVE  IInv'
<1> USE SetFacts
<1>1. CASE overlapped[c] = None /\ UNCHANGED <<serverVars, clientVars>>
  BY <1>1
  DEF IInv, TypeOK, SphereIsFree, OverlapIsFree, HolderOwns, serverVars, clientVars
<1>2. CASE overlapped[c] # None
  <2> DEFINE w == overlapped[c]
  <2>1. w \in Weapons /\ owner[w] = None
    BY <1>2, EquipFacts
  <2>2. /\ equipped' = [equipped EXCEPT ![Server][c] = w]
        /\ SetWeaponState(w)
        /\ owner' = [owner EXCEPT ![w] = c]
        /\ strafing' = [strafing EXCEPT ![Server] = @ \cup {c}]
        /\ UNCHANGED prompt
    BY <1>2 DEF EquipWeapon
  <2> HIDE DEF w
  <2>3. TypeOK'
    BY <2>1, <2>2 DEF IInv, TypeOK, SetWeaponState
  <2>4. SphereIsFree'
    BY <2>1, <2>2 DEF IInv, TypeOK, SetWeaponState, SphereIsFree
  <2>5. OverlapIsFree'
    BY <2>1, <2>2 DEF IInv, TypeOK, SetWeaponState, OverlapIsFree
  <2>6. HolderOwns'
    BY <2>1, <2>2 DEF IInv, TypeOK, HolderOwns
  <2>7. QED
    BY <2>3, <2>4, <2>5, <2>6 DEF IInv
<1>3. QED
  BY <1>1, <1>2 DEF EquipWeapon

LEMMA PressKeepsIInv ==
  ASSUME IInv, NEW c \in Players, EquipButtonPressed(c)
  PROVE  IInv'
<1> USE SetFacts
<1>1. CASE c = Server /\ EquipWeapon(c) /\ UNCHANGED rpc
  <2>1. rpc' \in [Remote -> 0 .. MaxRpc]
    BY <1>1 DEF IInv, TypeOK
  <2>2. QED
    BY <1>1, <2>1, EquipKeepsIInv
<1>2. CASE c # Server
  <2>1. /\ rpc[c] < MaxRpc
        /\ rpc' = [rpc EXCEPT ![c] = @ + 1]
        /\ UNCHANGED <<serverVars, clientVars>>
    BY <1>2 DEF EquipButtonPressed
  <2>2. rpc' \in [Remote -> 0 .. MaxRpc]
    BY <1>2, <2>1, PickupAssumption DEF IInv, TypeOK, Remote
  <2>3. QED
    BY <2>1, <2>2
    DEF IInv, TypeOK, SphereIsFree, OverlapIsFree, HolderOwns, serverVars, clientVars
<1>3. QED
  BY <1>1, <1>2 DEF EquipButtonPressed

LEMMA CallKeepsIInv ==
  ASSUME IInv, NEW c \in Remote, ServerEquipButtonPressed(c)
  PROVE  IInv'
<1>1. rpc' \in [Remote -> 0 .. MaxRpc]
  BY PickupAssumption DEF IInv, TypeOK, ServerEquipButtonPressed
<1>2. QED
  BY <1>1, SetFacts, EquipKeepsIInv DEF ServerEquipButtonPressed

\* Net updates change only what clients have.
LEMMA UpdateKeepsIInv ==
  ASSUME IInv,
         \/ \E c \in Remote : OnRep_OverlappingWeapon(c)
         \/ \E m \in Clients, w \in Weapons : OnRep_WeaponState(m, w)
         \/ \E m \in Clients, c \in Players : OnRep_EquippedWeapon(m, c)
  PROVE  IInv'
<1> USE SetFacts
<1>1. ASSUME NEW c \in Remote, OnRep_OverlappingWeapon(c) PROVE IInv'
  <2>1. TypeOK'
    BY <1>1 DEF IInv, TypeOK, OnRep_OverlappingWeapon, serverVars
  <2>2. QED
    BY <1>1, <2>1
    DEF IInv, OnRep_OverlappingWeapon, SphereIsFree, OverlapIsFree, HolderOwns, serverVars
<1>2. ASSUME NEW m \in Clients, NEW w \in Weapons, OnRep_WeaponState(m, w) PROVE IInv'
  <2>1. TypeOK'
    BY <1>2 DEF IInv, TypeOK, OnRep_WeaponState, serverVars
  <2>2. QED
    BY <1>2, <2>1
    DEF IInv, OnRep_WeaponState, SphereIsFree, OverlapIsFree, HolderOwns, serverVars
<1>3. ASSUME NEW m \in Clients, NEW c \in Players, OnRep_EquippedWeapon(m, c) PROVE IInv'
  <2>1. TypeOK'
    BY <1>3 DEF IInv, TypeOK, OnRep_EquippedWeapon, serverVars
  <2>2. SphereIsFree' /\ OverlapIsFree'
    BY <1>3 DEF IInv, OnRep_EquippedWeapon, SphereIsFree, OverlapIsFree, serverVars
  <2>3. HolderOwns'
    BY <1>3 DEF IInv, TypeOK, OnRep_EquippedWeapon, HolderOwns, serverVars
  <2>4. QED
    BY <2>1, <2>2, <2>3 DEF IInv
<1>4. QED
  BY <1>1, <1>2, <1>3

LEMMA StepKeepsIInv == IInv /\ [Next]_vars => IInv'
<1> SUFFICES ASSUME IInv, [Next]_vars PROVE IInv'
  OBVIOUS
<1>1. ASSUME NEW c \in Players, NEW w \in Weapons, BeginOverlap(c, w) \/ EndOverlap(c, w)
      PROVE  IInv'
  BY <1>1, BeginKeepsIInv, EndKeepsIInv
<1>2. ASSUME NEW c \in Players, EquipButtonPressed(c) PROVE IInv'
  BY <1>2, PressKeepsIInv
<1>3. ASSUME NEW c \in Remote, ServerEquipButtonPressed(c) PROVE IInv'
  BY <1>3, CallKeepsIInv
<1>4. CASE UNCHANGED vars
  BY <1>4 DEF IInv, vars, TypeOK, SphereIsFree, OverlapIsFree, HolderOwns
<1>5. QED
  BY <1>1, <1>2, <1>3, <1>4, UpdateKeepsIInv DEF Next

LEMMA IInvInvariant == Spec => []IInv
BY InitIInv, StepKeepsIInv, PTL DEF Spec

-----------------------------------------------------------------------------
LEMMA KnownStep == IInv /\ StateIsKnown /\ [Next]_vars => StateIsKnown'
<1> SUFFICES ASSUME IInv, StateIsKnown, [Next]_vars PROVE StateIsKnown'
  OBVIOUS
<1> USE SetFacts
<1>1. ASSUME NEW c \in Players, EquipWeapon(c) PROVE StateIsKnown'
  <2>1. CASE UNCHANGED <<serverVars, clientVars>>
    BY <2>1 DEF StateIsKnown, serverVars, clientVars
  <2>2. CASE overlapped[c] # None /\ SetWeaponState(overlapped[c])
    BY <2>2, EquipFacts DEF IInv, TypeOK, StateIsKnown, SetWeaponState
  <2>3. QED
    BY <1>1, <2>1, <2>2 DEF EquipWeapon
<1>2. ASSUME NEW c \in Players, EquipButtonPressed(c) PROVE StateIsKnown'
  BY <1>1, <1>2 DEF EquipButtonPressed, StateIsKnown, serverVars, clientVars
<1>3. ASSUME NEW c \in Remote, ServerEquipButtonPressed(c) PROVE StateIsKnown'
  BY <1>1, <1>3 DEF ServerEquipButtonPressed
<1>4. ASSUME NEW m \in Clients, NEW w \in Weapons, OnRep_WeaponState(m, w)
      PROVE  StateIsKnown'
  BY <1>4 DEF IInv, TypeOK, StateIsKnown, OnRep_WeaponState, serverVars
<1>5. CASE UNCHANGED <<weaponState, sphereOn>>
  BY <1>5 DEF StateIsKnown
<1>6. QED
  BY <1>2, <1>3, <1>4, <1>5
  DEF Next, BeginOverlap, EndOverlap, OnRep_OverlappingWeapon, OnRep_EquippedWeapon,
      serverVars, vars

\* What a character overlaps on the server is not equipped there, and so on no
\* machine.
LEMMA OverlappedIsKnownFree ==
  ASSUME IInv, StateIsKnown, NEW c \in Players, overlapped[c] # None, NEW m \in Machines
  PROVE  overlapped[c] \in Weapons /\ weaponState[m][overlapped[c]] # "Equipped"
<1>1. overlapped[c] \in Weapons /\ overlapped[c] \in sphereOn
  BY DEF IInv, TypeOK, OverlapIsFree
<1>2. QED
  BY <1>1 DEF StateIsKnown

LEMMA PromptStep == PInv /\ [Next]_vars => PromptIsOwnOverlap'
<1> SUFFICES ASSUME PInv, [Next]_vars PROVE PromptIsOwnOverlap'
  OBVIOUS
<1> USE SetFacts
<1>0. IInv /\ StateIsKnown /\ PromptIsOwnOverlap /\ IInv' /\ StateIsKnown' /\ TypeOK /\ TypeOK'
  BY StepKeepsIInv, KnownStep DEF PInv, IInv
<1>1. ASSUME NEW c \in Players, NEW w \in Weapons, BeginOverlap(c, w)
      PROVE  PromptIsOwnOverlap'
  <2>1. weaponState[Server][w] # "Equipped"
    BY <1>0, <1>1 DEF StateIsKnown, BeginOverlap
  <2>2. QED
    BY <1>0, <1>1, <2>1
    DEF TypeOK, BeginOverlap, SetOverlappingWeapon, PromptIsOwnOverlap, OwnOverlap
<1>2. ASSUME NEW c \in Players, NEW w \in Weapons, EndOverlap(c, w)
      PROVE  PromptIsOwnOverlap'
  BY <1>0, <1>2
  DEF TypeOK, EndOverlap, SetOverlappingWeapon, PromptIsOwnOverlap, OwnOverlap
<1>3. ASSUME NEW c \in Players, EquipWeapon(c) PROVE PromptIsOwnOverlap'
  <2>1. CASE UNCHANGED <<serverVars, clientVars>>
    BY <1>0, <2>1 DEF PromptIsOwnOverlap, OwnOverlap, serverVars, clientVars
  <2>2. CASE overlapped[c] # None /\ SetWeaponState(overlapped[c]) /\ UNCHANGED prompt
    <3>1. overlapped[c] \in Weapons
      BY <1>0, <2>2, EquipFacts
    <3>2. Server \in Players /\ overlapped[Server] = overlapped[c]
            => overlapped[c] \in inside[Server]
      BY <1>0, <2>2 DEF IInv, OverlapIsFree
    <3>3. QED
      BY <1>0, <2>2, <3>1, <3>2
      DEF TypeOK, SetWeaponState, PromptIsOwnOverlap, OwnOverlap
  <2>3. QED
    BY <1>3, <2>1, <2>2 DEF EquipWeapon
<1>4. ASSUME NEW c \in Players, EquipButtonPressed(c) PROVE PromptIsOwnOverlap'
  BY <1>0, <1>3, <1>4
  DEF EquipButtonPressed, PromptIsOwnOverlap, OwnOverlap, serverVars, clientVars
<1>5. ASSUME NEW c \in Remote, ServerEquipButtonPressed(c) PROVE PromptIsOwnOverlap'
  BY <1>3, <1>5 DEF ServerEquipButtonPressed
<1>6. ASSUME NEW c \in Remote, OnRep_OverlappingWeapon(c) PROVE PromptIsOwnOverlap'
  <2>1. c \in Machines /\ c \in Players /\ c # Server
    BY DEF Remote
  <2>2. overlapped[c] # None => weaponState[c][overlapped[c]] # "Equipped"
    BY <1>0, <2>1, OverlappedIsKnownFree
  <2>3. QED
    BY <1>0, <1>6, <2>1, <2>2
    DEF TypeOK, OnRep_OverlappingWeapon, PromptIsOwnOverlap, OwnOverlap, serverVars
<1>7. ASSUME NEW m \in Clients, NEW w \in Weapons, OnRep_WeaponState(m, w)
      PROVE  PromptIsOwnOverlap'
  <2>1. weaponState[Server][w] = "Equipped"
    BY <1>0, <1>7 DEF TypeOK, StateIsKnown, OnRep_WeaponState
  <2>2. QED
    BY <1>0, <1>7, <2>1
    DEF TypeOK, OnRep_WeaponState, PromptIsOwnOverlap, OwnOverlap, serverVars
<1>8. CASE UNCHANGED <<widget, overlapped, prompt, weaponState>>
  BY <1>0, <1>8 DEF PromptIsOwnOverlap, OwnOverlap
<1>9. QED
  BY <1>1, <1>2, <1>4, <1>5, <1>6, <1>7, <1>8
  DEF Next, OnRep_EquippedWeapon, serverVars, vars

LEMMA InitPInv == Init => PInv
<1> SUFFICES ASSUME Init PROVE PInv
  OBVIOUS
<1>1. StateIsKnown /\ PromptIsOwnOverlap
  BY SetFacts DEF Init, StateIsKnown, PromptIsOwnOverlap, OwnOverlap, Remote
<1>2. QED
  BY <1>1, InitIInv DEF PInv

LEMMA PInvInvariant == Spec => []PInv
<1>1. PInv /\ [Next]_vars => PInv'
  BY StepKeepsIInv, KnownStep, PromptStep DEF PInv
<1>2. QED
  BY <1>1, InitPInv, PTL DEF Spec

-----------------------------------------------------------------------------
\* Every variable keeps its type.
THEOREM PickupTypeCorrect == Spec => []TypeOK
<1>1. IInv => TypeOK
  BY DEF IInv
<1>2. QED
  BY <1>1, IInvInvariant, PTL

\* Whenever an equip call arrives, the weapon its character overlaps is in
\* reach and nobody's.
THEOREM PickupOverlapIsFree == Spec => []OverlapIsFree
<1>1. IInv => OverlapIsFree
  BY DEF IInv
<1>2. QED
  BY <1>1, IInvInvariant, PTL

\* No machine shows a weapon in the hands of two characters.
THEOREM PickupSingleHolder == Spec => []SingleHolder
<1>1. IInv => SingleHolder
  BY DEF IInv, HolderOwns, SingleHolder
<1>2. QED
  BY <1>1, IInvInvariant, PTL

\* A machine prompts for exactly what its own player overlaps and it does not
\* know to be taken.
THEOREM PickupPrompt == Spec => []PromptIsOwnOverlap
<1>1. PInv => PromptIsOwnOverlap
  BY DEF PInv
<1>2. QED
  BY <1>1, PInvInvariant, PTL

\* The detailed system implements WeaponOwnership: a weapon changes hands
\* once, from nobody to a player.
THEOREM PickupImplementsOwnership == Spec => OwnershipPromise
<1>1. Init => Ownership!Init
  BY DEF Init, Ownership!Init
<1>2. ASSUME IInv, NEW c \in Players, EquipWeapon(c)
      PROVE  [Ownership!Next]_owner
  <2>1. CASE UNCHANGED <<serverVars, clientVars>>
    BY <2>1 DEF serverVars
  <2>2. CASE overlapped[c] # None /\ owner' = [owner EXCEPT ![overlapped[c]] = c]
    BY <1>2, <2>2, EquipFacts DEF Ownership!Next, Ownership!Take
  <2>3. QED
    BY <1>2, <2>1, <2>2 DEF EquipWeapon
<1>3. IInv /\ [Next]_vars => [Ownership!Next]_owner
  <2> SUFFICES ASSUME IInv, [Next]_vars PROVE [Ownership!Next]_owner
    OBVIOUS
  <2>1. ASSUME NEW c \in Players, EquipButtonPressed(c) PROVE [Ownership!Next]_owner
    BY <1>2, <2>1 DEF EquipButtonPressed, serverVars
  <2>2. ASSUME NEW c \in Remote, ServerEquipButtonPressed(c) PROVE [Ownership!Next]_owner
    BY <1>2, <2>2, SetFacts DEF ServerEquipButtonPressed
  <2>3. CASE owner' = owner
    BY <2>3
  <2>4. QED
    BY <2>1, <2>2, <2>3
    DEF Next, BeginOverlap, EndOverlap, OnRep_OverlappingWeapon, OnRep_WeaponState,
        OnRep_EquippedWeapon, serverVars, vars
<1>4. QED
  BY <1>1, <1>3, IInvInvariant, PTL DEF Spec, OwnershipPromise, Ownership!Spec
=============================================================================
