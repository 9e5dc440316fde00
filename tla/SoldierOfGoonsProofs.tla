------------------------ MODULE SoldierOfGoonsProofs ------------------------
(***************************************************************************)
(* The proofs about the game module, src/Source/SoldierOfGoons, but for the*)
(* weapon (WeaponPickupProofs):                                            *)
(*   - Aiming, for every set of clients, either kind of owner and every    *)
(*     bound on the channels;                                              *)
(*   - AimOffset, for every grid of angles: a twist the animation blueprint*)
(*     can turn, the pitch of the player, and from frame to frame no twist *)
(*     that grows while the player does not aim elsewhere;                 *)
(*   - MenuSessions: no answer of the online subsystem is lost, however    *)
(*     many delegates the refused calls leave in the lists.                *)
(***************************************************************************)
EXTENDS Aiming, AimOffset, MenuSessions, TLAPS

-----------------------------------------------------------------------------
(* Aiming.                                                                 *)

LEMMA MachineFacts ==
  /\ Owner \in Machines /\ Server \in Machines /\ Clients \subseteq Machines
  /\ \A m \in Clients : m # Server
BY AimingAssumption DEF Machines

LEMMA EmptyQueue == <<>> \in Seq(BOOLEAN) /\ Len(<<>>) = 0
OBVIOUS

\* What Head, Tail and Append do to a sequence of booleans and its last element.
LEMMA QueueFacts ==
  ASSUME NEW s \in Seq(BOOLEAN), NEW b \in BOOLEAN
  PROVE  /\ Append(s, b) \in Seq(BOOLEAN)
         /\ Append(s, b) # <<>>
         /\ Last(Append(s, b)) = b
         /\ s # <<>> => /\ Head(s) \in BOOLEAN
                        /\ Tail(s) \in Seq(BOOLEAN)
                        /\ Tail(s) # <<>> => Last(Tail(s)) = Last(s)
                        /\ Tail(s) = <<>> => Head(s) = Last(s)
<1>1. Append(s, b) \in Seq(BOOLEAN) /\ Append(s, b) # <<>>
  OBVIOUS
<1>2. Last(Append(s, b)) = b
  BY DEF Last
<1>3. ASSUME s # <<>>
      PROVE  /\ Head(s) \in BOOLEAN
             /\ Tail(s) \in Seq(BOOLEAN)
             /\ Tail(s) # <<>> => Last(Tail(s)) = Last(s)
             /\ Tail(s) = <<>> => Head(s) = Last(s)
  <2>1. Head(s) \in BOOLEAN /\ Tail(s) \in Seq(BOOLEAN)
    BY <1>3
  <2>2. Len(Tail(s)) = Len(s) - 1 /\ Len(s) \in Nat /\ Len(s) >= 1
    BY <1>3
  <2>3. ASSUME Tail(s) # <<>> PROVE Last(Tail(s)) = Last(s)
    BY <1>3, <2>1, <2>2, <2>3 DEF Last
  <2>4. ASSUME Tail(s) = <<>> PROVE Head(s) = Last(s)
    <3>1. Len(Tail(s)) = 0
      BY <2>4, EmptyQueue
    <3>2. Len(s) = 1
      BY <2>2, <3>1
    <3>3. Head(s) = s[1]
      BY <1>3
    <3>4. QED
      BY <3>2, <3>3 DEF Last
  <2>5. QED
    BY <2>1, <2>3, <2>4
<1>4. QED
  BY <1>1, <1>2, <1>3

LEMMA InitIInv == Init => IInv
<1> SUFFICES ASSUME Init PROVE IInv
  OBVIOUS
<1> USE MachineFacts
<1>1. TypeOK
  BY EmptyQueue DEF Init, TypeOK, WalkSpeed
<1>2. SpeedFollowsInput
  BY DEF Init, SpeedFollowsInput
<1>3. RpcCarriesButton
  BY DEF Init, RpcCarriesButton
<1>4. UpdateCarriesShadow
  BY DEF Init, UpdateCarriesShadow
<1>5. LandedOrPredicted
  BY DEF Init, LandedOrPredicted
<1>6. QED
  BY <1>1, <1>2, <1>3, <1>4, <1>5 DEF IInv

\* The Aim key changes: the button, the owner's prediction and the youngest
\* call change together.
LEMMA InputKeepsIInv ==
  ASSUME IInv, NEW b \in BOOLEAN, button' = b, SetAiming(b)
  PROVE  IInv'
<1> USE MachineFacts
<1>1. TypeOK'
  BY QueueFacts DEF IInv, TypeOK, SetAiming, ApplyAiming, WalkSpeed
<1>2. SpeedFollowsInput'
  BY DEF IInv, TypeOK, SetAiming, ApplyAiming, SpeedFollowsInput
<1>3. RpcCarriesButton'
  BY QueueFacts DEF IInv, TypeOK, SetAiming, ApplyAiming, RpcCarriesButton
<1>4. UpdateCarriesShadow'
  BY DEF IInv, SetAiming, UpdateCarriesShadow
<1>5. LandedOrPredicted'
  BY DEF IInv, TypeOK, SetAiming, ApplyAiming, LandedOrPredicted
<1>6. QED
  BY <1>1, <1>2, <1>3, <1>4, <1>5 DEF IInv

LEMMA ServerKeepsIInv ==
  ASSUME IInv, ServerSetAiming
  PROVE  IInv'
<1> USE MachineFacts
<1>1. TypeOK'
  BY QueueFacts DEF IInv, TypeOK, ServerSetAiming, ApplyAiming, WalkSpeed
<1>2. SpeedFollowsInput'
  BY DEF IInv, TypeOK, ServerSetAiming, ApplyAiming, SpeedFollowsInput, RpcCarriesButton
<1>3. RpcCarriesButton'
  BY QueueFacts DEF IInv, TypeOK, ServerSetAiming, ApplyAiming, RpcCarriesButton
<1>4. UpdateCarriesShadow'
  BY DEF IInv, ServerSetAiming, UpdateCarriesShadow
<1>5. LandedOrPredicted'
  BY DEF IInv, TypeOK, ServerSetAiming, ApplyAiming, LandedOrPredicted
<1>6. QED
  BY <1>1, <1>2, <1>3, <1>4, <1>5 DEF IInv

LEMMA SendKeepsIInv ==
  ASSUME IInv, NEW m \in Clients, SendUpdate(m)
  PROVE  IInv'
<1> USE MachineFacts
<1>1. TypeOK'
  BY QueueFacts DEF IInv, TypeOK, SendUpdate
<1>2. SpeedFollowsInput' /\ RpcCarriesButton'
  BY DEF IInv, SendUpdate, SpeedFollowsInput, RpcCarriesButton
<1>3. UpdateCarriesShadow'
  BY QueueFacts DEF IInv, TypeOK, SendUpdate, UpdateCarriesShadow
<1>4. LandedOrPredicted'
  BY QueueFacts DEF IInv, TypeOK, SendUpdate, LandedOrPredicted
<1>5. QED
  BY <1>1, <1>2, <1>3, <1>4 DEF IInv

LEMMA ReceiveKeepsIInv ==
  ASSUME IInv, NEW m \in Clients, ReceiveUpdate(m)
  PROVE  IInv'
<1> USE MachineFacts
<1>1. TypeOK'
  BY QueueFacts DEF IInv, TypeOK, ReceiveUpdate
<1>2. SpeedFollowsInput' /\ RpcCarriesButton'
  BY DEF IInv, TypeOK, ReceiveUpdate, SpeedFollowsInput, RpcCarriesButton
<1>3. UpdateCarriesShadow'
  BY QueueFacts DEF IInv, TypeOK, ReceiveUpdate, UpdateCarriesShadow
<1>4. LandedOrPredicted'
  BY QueueFacts DEF IInv, TypeOK, ReceiveUpdate, LandedOrPredicted, UpdateCarriesShadow
<1>5. QED
  BY <1>1, <1>2, <1>3, <1>4 DEF IInv

LEMMA LoseKeepsIInv ==
  ASSUME IInv, NEW m \in Clients, LoseUpdate(m)
  PROVE  IInv'
<1> USE MachineFacts
<1>1. TypeOK'
  BY QueueFacts DEF IInv, TypeOK, LoseUpdate
<1>2. SpeedFollowsInput' /\ RpcCarriesButton'
  BY DEF IInv, LoseUpdate, SpeedFollowsInput, RpcCarriesButton
<1>3. UpdateCarriesShadow'
  BY QueueFacts DEF IInv, TypeOK, LoseUpdate, UpdateCarriesShadow
<1>4. LandedOrPredicted'
  BY DEF IInv, TypeOK, LoseUpdate, LandedOrPredicted
<1>5. QED
  BY <1>1, <1>2, <1>3, <1>4 DEF IInv

LEMMA StepKeepsIInv == IInv /\ [Next]_vars => IInv'
<1> SUFFICES ASSUME IInv, [Next]_vars PROVE IInv'
  OBVIOUS
<1>1. CASE AimButtonPressed
  BY <1>1, InputKeepsIInv DEF AimButtonPressed
<1>2. CASE AimButtonReleased
  BY <1>2, InputKeepsIInv DEF AimButtonReleased
<1>3. CASE ServerSetAiming
  BY <1>3, ServerKeepsIInv
<1>4. ASSUME NEW m \in Clients, SendUpdate(m) PROVE IInv'
  BY <1>4, SendKeepsIInv
<1>5. ASSUME NEW m \in Clients, ReceiveUpdate(m) PROVE IInv'
  BY <1>5, ReceiveKeepsIInv
<1>6. ASSUME NEW m \in Clients, LoseUpdate(m) PROVE IInv'
  BY <1>6, LoseKeepsIInv
<1>7. CASE UNCHANGED vars
  BY <1>7
  DEF IInv, vars, TypeOK, SpeedFollowsInput, RpcCarriesButton,
      UpdateCarriesShadow, LandedOrPredicted
<1>8. QED
  BY <1>1, <1>2, <1>3, <1>4, <1>5, <1>6, <1>7 DEF Next

LEMMA IInvInvariant == Spec => []IInv
BY InitIInv, StepKeepsIInv, PTL DEF Spec

\* Every variable keeps its type, whatever the number of clients and the
\* sizes of the channels.
THEOREM AimingTypeCorrect == Spec => []TypeOK
<1>1. IInv => TypeOK
  BY DEF IInv
<1>2. QED
  BY <1>1, IInvInvariant, PTL

\* The speed of the owner is that of the button and the server's that of its
\* bIsAiming, also while a stale update has overwritten the owner's bIsAiming.
THEOREM AimingSpeed == Spec => []SpeedFollowsInput
<1>1. IInv => SpeedFollowsInput
  BY DEF IInv
<1>2. QED
  BY <1>1, IInvInvariant, PTL

\* A machine nothing is in flight for has the state of the button, for every
\* interleaving of presses, calls, updates and losses.
THEOREM AimingAgreement == Spec => []QuiescentAgreement
<1>1. IInv => QuiescentAgreement
  <2> SUFFICES ASSUME IInv, NEW m \in Machines, Settled(m)
               PROVE  aiming[m] = button
    BY DEF QuiescentAgreement
  <2>1. aiming[Server] = button
    BY DEF IInv, RpcCarriesButton, Settled
  <2>2. CASE m = Server
    BY <2>1, <2>2
  <2>3. CASE m \in Clients
    BY <2>1, <2>3, MachineFacts
    DEF IInv, LandedOrPredicted, Settled, NeedsUpdate
  <2>4. QED
    BY <2>2, <2>3 DEF Machines
<1>2. QED
  BY <1>1, IInvInvariant, PTL

-----------------------------------------------------------------------------
(* AimOffset.                                                              *)

\* Between turns the twist of a character that stands is how far it aims from
\* where it started, or a turn has just ended.
TwistIsAim ==
  armed /\ standing /\ TurningInPlace = "NotTurning" =>
    AO_Yaw = NormalizedDelta(aim, StartingAimRotation) \/ StartingAimRotation = aim

OffsetIInv == AnglesRight /\ TwistIsAim

-----------------------------------------------------------------------------
(* Angles.                                                                 *)

\* Multiples of the grid.
LEMMA Multiple ==
  ASSUME NEW a \in Int
  PROVE  a % Grid = 0 <=> \E k \in Int : a = k * Grid
<1>1. Grid \in Nat \ {0}
  BY GridAssumption
<1> DEFINE G == Grid
<1>2. G \in Nat \ {0}
  BY <1>1
<1> HIDE DEF G
<1>3. a % G = 0 => a = (a \div G) * G /\ a \div G \in Int
  BY <1>2
<1>4. \A k \in Int : (k * G) % G = 0
  BY <1>2
<1> QED BY <1>3, <1>4 DEF G

LEMMA ZeroOffset == 0 \in Offsets /\ 0 \in Yaws
<1>1. 0 = 0 * Grid
  BY GridAssumption
<1> QED BY <1>1, Multiple DEF Offsets, Yaws

\* The difference of two directions is a normalized angle.
LEMMA DeltaIsOffset ==
  ASSUME NEW a \in Yaws, NEW b \in Yaws
  PROVE  NormalizedDelta(a, b) \in Offsets /\ (a = b => NormalizedDelta(a, b) = 0)
<1>1. a \in Int /\ b \in Int /\ a % Grid = 0 /\ b % Grid = 0 /\ Grid \in Int /\ 180 % Grid = 0
  BY GridAssumption DEF Yaws
<1>2. PICK i \in Int : a = i * Grid
  BY <1>1, Multiple
<1>3. PICK j \in Int : b = j * Grid
  BY <1>1, Multiple
<1>4. PICK h \in Int : 180 = h * Grid
  BY <1>1, Multiple
<1> DEFINE d == (a - b) % 360
<1>5. PICK k \in Int : a - b = 360 * k + d /\ d \in 0..359
  BY <1>1
<1> HIDE DEF d
<1>6. d = (i - j - 2 * h * k) * Grid /\ d - 360 = (i - j - 2 * h * k - 2 * h) * Grid
  BY <1>1, <1>2, <1>3, <1>4, <1>5
<1>7. d % Grid = 0 /\ (d - 360) % Grid = 0
  <2>1. d \in Int /\ d - 360 \in Int /\ i - j - 2 * h * k \in Int /\ i - j - 2 * h * k - 2 * h \in Int
    BY <1>5
  <2> QED BY <1>6, <2>1, Multiple
<1>8. NormalizedDelta(a, b) = IF d > 180 THEN d - 360 ELSE d
  BY DEF NormalizedDelta, d
<1>9. a = b => d = 0
  BY <1>1 DEF d
<1> QED BY <1>5, <1>7, <1>8, <1>9 DEF Offsets

\* FInterpTo stays between a twist and none.
LEMMA InterpFacts ==
  ASSUME NEW a \in Offsets, NEW x \in FInterpTo(a)
  PROVE  x \in Offsets /\ x \in -179..180 /\ a \in -179..180 /\ Between(x, 0, a)
  BY ZeroOffset DEF FInterpTo, Offsets, Between

LEMMA UnsignedPitch ==
  ASSUME NEW p \in -90..90 PROVE p % 360 = IF p < 0 THEN p + 360 ELSE p
  OBVIOUS

\* A remote player's pitch comes through the unsigned angle.
LEMMA PitchFacts ==
  ASSUME OffsetIInv, Tick, AimOffsetPitch
  PROVE  AO_Pitch' = pitch' /\ AO_Pitch' \in -90..90
<1>1. pitch' \in -90..90 /\ pitch' \in Int /\ local \in BOOLEAN
  BY GridAssumption DEF Tick, Pitches, OffsetIInv, AnglesRight, OffsetTypeOK
<1>2. pitch' % 360 = IF pitch' < 0 THEN pitch' + 360 ELSE pitch'
  BY <1>1, UnsignedPitch
<1>3. AO_Pitch' = IF local THEN pitch' ELSE IF pitch' % 360 > 90 THEN MapPitch(pitch' % 360) ELSE pitch' % 360
  BY <1>1 DEF AimOffsetPitch, BasePitch
<1>4. \A p \in -90..90 : (IF p < 0 THEN p + 360 ELSE p) > 90 <=> p < 0
  OBVIOUS
<1>5. \A p \in -90..90 : p < 0 => MapPitch(p + 360) = p
  BY DEF MapPitch
<1>6. CASE pitch' < 0
  <2>1. pitch' % 360 = pitch' + 360 /\ pitch' % 360 > 90
    BY <1>1, <1>2, <1>4, <1>6
  <2>2. MapPitch(pitch' % 360) = pitch'
    BY <1>1, <1>5, <1>6, <2>1
  <2>3. AO_Pitch' = pitch'
    BY <1>3, <2>1, <2>2
  <2> QED BY <1>1, <2>3
<1>7. CASE ~(pitch' < 0)
  <2>1. pitch' % 360 = pitch' /\ ~(pitch' % 360 > 90)
    BY <1>1, <1>2, <1>4, <1>7
  <2> QED BY <1>1, <1>3, <2>1
<1> QED BY <1>6, <1>7

-----------------------------------------------------------------------------
\* A frame of a character that stands: how the turn goes on.
LEMMA TurnStep ==
  ASSUME NEW twist \in Offsets, NEW interp \in Offsets, TurnInPlace(twist, interp),
         TurningInPlace \in {"NotTurning", "Left", "Right"}, aim' \in Yaws, StartingAimRotation \in Yaws
  PROVE  /\ AO_Yaw' \in Offsets /\ InterpAO_Yaw' \in Offsets /\ StartingAimRotation' \in Yaws
         /\ TurningInPlace' \in {"NotTurning", "Left", "Right"}
         /\ TurningInPlace' = "NotTurning" =>
              /\ Abs(AO_Yaw') <= 90
              /\ StartingAimRotation' = aim' \/ (AO_Yaw' = twist /\ StartingAimRotation' = StartingAimRotation)
         /\ TurningInPlace' # "NotTurning" => AO_Yaw' = InterpAO_Yaw' /\ Abs(AO_Yaw') >= 15
         /\ IF Direction(twist) = "NotTurning" THEN AO_Yaw' = twist ELSE Between(AO_Yaw', 0, interp)
<1>1. twist \in -179..180 /\ Direction(twist) \in {"NotTurning", "Left", "Right"}
  BY DEF Offsets, Direction
<1>2. CASE Direction(twist) = "NotTurning"
  <2>1. AO_Yaw' = twist /\ InterpAO_Yaw' = interp /\ UNCHANGED <<TurningInPlace, StartingAimRotation>>
    BY <1>2 DEF TurnInPlace
  <2>2. Abs(twist) <= 90 /\ TurningInPlace = "NotTurning"
    BY <1>1, <1>2 DEF Direction, Abs
  <2> QED BY <1>2, <2>1, <2>2
<1>3. CASE Direction(twist) # "NotTurning"
  <2>1. /\ InterpAO_Yaw' \in FInterpTo(interp) /\ AO_Yaw' = InterpAO_Yaw'
        /\ IF Abs(AO_Yaw') < 15
           THEN TurningInPlace' = "NotTurning" /\ StartingAimRotation' = aim'
           ELSE TurningInPlace' = Direction(twist) /\ UNCHANGED StartingAimRotation
    BY <1>3 DEF TurnInPlace
  <2>2. AO_Yaw' \in Offsets /\ AO_Yaw' \in -179..180 /\ Between(AO_Yaw', 0, interp)
    BY <2>1, InterpFacts
  <2>3. Abs(AO_Yaw') \in Int
    BY <2>2 DEF Abs
  <2> QED BY <1>1, <1>3, <2>1, <2>2, <2>3
<1> QED BY <1>2, <1>3

\* A frame keeps the invariant.
LEMMA FrameStep == ASSUME OffsetIInv, [OffsetNext]_offsetVars PROVE OffsetIInv'
<1> USE DEF OffsetIInv, AnglesRight
<1>1. CASE UNCHANGED offsetVars
  BY <1>1 DEF offsetVars, yawVars, OffsetTypeOK, TwistIsTurnable, PitchIsSeen, TwistIsAim
<1>2. CASE Tick
  <2>1. /\ armed' \in BOOLEAN /\ standing' \in BOOLEAN /\ aim' \in Yaws /\ pitch' \in Pitches
        /\ local' \in BOOLEAN /\ (armed => armed')
    BY <1>2 DEF Tick, OffsetTypeOK
  <2>2. CASE ~armed' /\ UNCHANGED <<yawVars, AO_Pitch>>
    BY <2>1, <2>2 DEF yawVars, OffsetTypeOK, TwistIsTurnable, PitchIsSeen, TwistIsAim
  <2>3. CASE armed' /\ AimOffsetYaw /\ AimOffsetPitch
    <3>1. AO_Pitch' = pitch' /\ AO_Pitch' \in -90..90
      BY <1>2, <2>3, PitchFacts
    <3>2. CASE standing'
      <4> DEFINE twist == NormalizedDelta(aim', StartingAimRotation)
      <4> DEFINE interp == IF TurningInPlace = "NotTurning" THEN twist ELSE InterpAO_Yaw
      <4>1. twist \in Offsets /\ interp \in Offsets /\ TurnInPlace(twist, interp)
        BY <2>1, <2>3, <3>2, DeltaIsOffset DEF AimOffsetYaw, OffsetTypeOK
      <4> HIDE DEF interp
      <4>2. /\ AO_Yaw' \in Offsets /\ InterpAO_Yaw' \in Offsets /\ StartingAimRotation' \in Yaws
            /\ TurningInPlace' \in {"NotTurning", "Left", "Right"}
            /\ TurningInPlace' = "NotTurning" =>
                 /\ Abs(AO_Yaw') <= 90
                 /\ StartingAimRotation' = aim' \/ (AO_Yaw' = twist /\ StartingAimRotation' = StartingAimRotation)
            /\ TurningInPlace' # "NotTurning" => AO_Yaw' = InterpAO_Yaw' /\ Abs(AO_Yaw') >= 15
        BY <2>1, <4>1, TurnStep DEF OffsetTypeOK
      <4>3. OffsetTypeOK' /\ PitchIsSeen'
        BY <2>1, <3>1, <4>2 DEF OffsetTypeOK, PitchIsSeen
      <4>4. TwistIsTurnable'
        BY <2>3, <3>2, <4>2 DEF TwistIsTurnable, Abs
      <4>5. TwistIsAim'
        BY <4>2 DEF TwistIsAim
      <4> QED BY <4>3, <4>4, <4>5
    <3>3. CASE ~standing'
      <4>1. /\ StartingAimRotation' = aim' /\ AO_Yaw' = 0 /\ TurningInPlace' = "NotTurning"
            /\ InterpAO_Yaw' = InterpAO_Yaw
        BY <2>3, <3>3 DEF AimOffsetYaw
      <4>2. OffsetTypeOK' /\ PitchIsSeen'
        BY <2>1, <3>1, <4>1, ZeroOffset DEF OffsetTypeOK, PitchIsSeen
      <4>3. TwistIsTurnable' /\ TwistIsAim'
        BY <3>3, <4>1 DEF TwistIsTurnable, TwistIsAim, Abs
      <4> QED BY <4>2, <4>3
    <3> QED BY <2>1, <3>2, <3>3
  <2> QED BY <1>2, <2>2, <2>3 DEF Tick, AimOffset
<1> QED BY <1>1, <1>2 DEF OffsetNext

LEMMA AlwaysIInv == OffsetSpec => []OffsetIInv
<1>1. OffsetInit => OffsetIInv
  <2>1. OffsetInit => OffsetTypeOK
    <3>1. OffsetInit => StartingAimRotation \in Yaws /\ AO_Yaw \in Offsets /\ InterpAO_Yaw \in Offsets
      BY ZeroOffset DEF OffsetInit
    <3>2. OffsetInit => AO_Pitch \in -90..90
      BY DEF OffsetInit
    <3> QED BY <3>1, <3>2, Zenon DEF OffsetInit, OffsetTypeOK
  <2>2. OffsetInit => TwistIsTurnable /\ PitchIsSeen /\ TwistIsAim
    BY DEF OffsetInit, TwistIsTurnable, PitchIsSeen, TwistIsAim, Abs
  <2> QED BY <2>1, <2>2 DEF OffsetIInv, AnglesRight
<1>2. OffsetIInv /\ [OffsetNext]_offsetVars => OffsetIInv'
  BY FrameStep
<1> QED BY <1>1, <1>2, PTL DEF OffsetSpec

\* In every frame the twist is one the animation can show or turn, and the pitch
\* is the player's, on any grid of angles and for frames of any length.
THEOREM AimAnglesRight == OffsetSpec => []AnglesRight
BY AlwaysIInv, PTL DEF OffsetIInv

\* While the player aims at one place the body only unwinds, also in the frames
\* in which a turn begins, changes its direction or ends.
THEOREM AimUnwindsOnly == OffsetSpec => UnwindsOnly
<1>1. ASSUME OffsetIInv, [OffsetNext]_offsetVars, armed, standing, standing', aim' = aim
      PROVE  Between(AO_Yaw', 0, AO_Yaw)
  <2> USE DEF OffsetIInv, AnglesRight
  <2>1. AO_Yaw \in -179..180 /\ AO_Yaw \in Offsets
    BY <1>1 DEF OffsetTypeOK, Offsets
  <2>2. CASE UNCHANGED offsetVars
    BY <1>1, <2>1, <2>2 DEF offsetVars, yawVars, Between
  <2>3. CASE Tick
    <3> DEFINE twist == NormalizedDelta(aim, StartingAimRotation)
    <3> DEFINE interp == IF TurningInPlace = "NotTurning" THEN twist ELSE InterpAO_Yaw
    <3>1. twist \in Offsets /\ twist \in -179..180 /\ interp \in Offsets /\ (StartingAimRotation = aim => twist = 0)
      BY <1>1, DeltaIsOffset DEF OffsetTypeOK, Offsets
    <3>2. TurnInPlace(twist, interp)
      BY <1>1, <2>3 DEF Tick, AimOffset, AimOffsetYaw
    <3> HIDE DEF twist, interp
    <3>3. IF Direction(twist) = "NotTurning" THEN AO_Yaw' = twist ELSE Between(AO_Yaw', 0, interp)
      BY <1>1, <2>3, <3>1, <3>2, TurnStep DEF Tick, OffsetTypeOK
    <3>4. CASE TurningInPlace = "NotTurning"
      <4>1. twist = AO_Yaw \/ twist = 0
        BY <1>1, <3>1, <3>4 DEF TwistIsAim, twist
      <4>2. Direction(twist) = "NotTurning"
        BY <1>1, <2>1, <3>4, <4>1 DEF TwistIsTurnable, Direction, Abs
      <4> QED BY <2>1, <3>3, <4>1, <4>2 DEF Between
    <3>5. CASE TurningInPlace # "NotTurning"
      <4>1. interp = AO_Yaw /\ Direction(twist) # "NotTurning"
        BY <1>1, <3>1, <3>5 DEF TwistIsTurnable, interp, Direction
      <4> QED BY <3>3, <4>1
    <3> QED BY <3>4, <3>5
  <2> QED BY <1>1, <2>2, <2>3 DEF OffsetNext
<1>2. OffsetIInv /\ [OffsetNext]_offsetVars =>
        [(armed /\ standing /\ standing' /\ aim' = aim) => Between(AO_Yaw', 0, AO_Yaw)]_offsetVars
  BY <1>1
<1> QED BY <1>2, AlwaysIInv, PTL DEF OffsetSpec, UnwindsOnly

-----------------------------------------------------------------------------
(* MenuSessions.                                                           *)

Lists == [Kinds -> [size : Nat, held : BOOLEAN]]
Calls == [Kinds -> Nat]

\* The four list operations keep the lists' type.
LEMMA ListTypes ==
  ASSUME NEW D \in Lists, NEW P \in Calls, NEW k \in Kinds,
         D[k].held => D[k].size > 0
  PROVE  /\ AddHandle(D, k) \in Lists
         /\ ClearHandle(D, k) \in Lists
         /\ AddAndClear(D, k) \in Lists
         /\ Issue(P, k) \in Calls
<1>1. AddHandle(D, k) \in Lists /\ Issue(P, k) \in Calls
  BY DEF AddHandle, Issue, Lists, Calls
<1>2. ClearHandle(D, k) \in Lists
  BY DEF ClearHandle, Lists
<1>3. AddAndClear(D, k) = [D EXCEPT ![k] = [size |-> D[k].size, held |-> FALSE]]
  BY DEF AddAndClear, AddHandle, ClearHandle, Lists
<1>4. AddAndClear(D, k) \in Lists
  BY <1>3 DEF Lists
<1>5. QED
  BY <1>1, <1>2, <1>4

\* An accepted call: its delegate is in the list before it can be answered.
LEMMA AddKeepsUp ==
  ASSUME NEW D \in Lists, NEW P \in Calls, NEW k \in Kinds, NEW kind,
         ListsKeepUp(D, P, kind), kind # k
  PROVE  ListsKeepUp(AddHandle(D, k), Issue(P, k), kind)
BY DEF ListsKeepUp, AddHandle, Issue, Lists, Calls

\* A refused call removes the delegate it added.
LEMMA AddAndClearKeepsUp ==
  ASSUME NEW D \in Lists, NEW P \in Calls, NEW k \in Kinds, NEW kind,
         ListsKeepUp(D, P, kind)
  PROVE  ListsKeepUp(AddAndClear(D, k), P, kind)
<1>1. AddAndClear(D, k) = [D EXCEPT ![k] = [size |-> D[k].size, held |-> FALSE]]
  BY DEF AddAndClear, AddHandle, ClearHandle, Lists
<1>2. QED
  BY <1>1 DEF ListsKeepUp, Lists, Calls

\* A callback clears its handle: an unanswered call keeps another entry.
LEMMA ClearKeepsUp ==
  ASSUME NEW D \in Lists, NEW P \in Calls, NEW k \in Kinds,
         ListsKeepUp(D, P, k)
  PROVE  ListsKeepUp(ClearHandle(D, k), P, k)
BY DEF ListsKeepUp, ClearHandle, Lists, Calls

\* A call completes, and later its last delegate has run.
LEMMA CompleteKeepsUp ==
  ASSUME NEW D \in Lists, NEW P \in Calls, NEW k \in Kinds,
         ListsKeepUp(D, P, "none"), P[k] > 0
  PROVE  /\ [P EXCEPT ![k] = @ - 1] \in Calls
         /\ ListsKeepUp(D, [P EXCEPT ![k] = @ - 1], k)
BY DEF ListsKeepUp, Lists, Calls, Kinds

LEMMA EndKeepsUp ==
  ASSUME NEW D \in Lists, NEW P \in Calls, NEW kind, ListsKeepUp(D, P, kind)
  PROVE  ListsKeepUp(D, P, "none")
BY DEF ListsKeepUp, Lists, Calls, Kinds

-----------------------------------------------------------------------------
LEMMA ListsOf == MenuTypeOK => delegates \in Lists /\ pending \in Calls
BY DEF MenuTypeOK, Lists, Calls

LEMMA HeldOf == HInv => \A k \in Kinds : delegates[k].held => delegates[k].size > 0
BY DEF HInv, ListsKeepUp

LEMMA KindFacts ==
  /\ "create" \in Kinds /\ "find" \in Kinds /\ "join" \in Kinds /\ "destroy" \in Kinds
  /\ Idle.kind = "none" /\ "none" \notin Kinds
  /\ Idle \in [kind : Kinds \cup {"none"}, left : Nat, ok : BOOLEAN,
               found : {"empty", "match", "other"}]
BY DEF Kinds, Idle

LEMMA InitHInv == MenuInit => HInv
<1> SUFFICES ASSUME MenuInit PROVE HInv
  OBVIOUS
<1> USE KindFacts
<1>1. MenuTypeOK
  BY DEF MenuInit, MenuTypeOK
<1>2. ListsKeepUp(delegates, pending, running.kind)
  BY DEF MenuInit, ListsKeepUp
<1>3. QED
  BY <1>1, <1>2 DEF HInv, MenuInit

\* The menu's handlers change only what is on the screen.
LEMMA MenuTypes ==
  ASSUME MenuTypeOK, NEW b \in BOOLEAN, OnCreateSession(b) \/ OnJoinSession(b)
  PROVE  /\ place' \in {"menu", "away"}
         /\ enabled' \in [host : BOOLEAN, join : BOOLEAN]
         /\ message' \in {"none", "created", "notCreated"}
BY DEF MenuTypeOK, OnCreateSession, OnJoinSession, menuVars

\* Creating a session, from the menu or when the old one is gone.
LEMMA CreateKeepsUp ==
  ASSUME MenuTypeOK, NEW host \in BOOLEAN, NEW D \in Lists, NEW kind,
         kind # "create", ListsKeepUp(D, pending, kind), CreateNew(host, D, pending)
  PROVE  /\ delegates' \in Lists /\ pending' \in Calls
         /\ ListsKeepUp(delegates', pending', kind)
         /\ place' \in {"menu", "away"}
         /\ enabled' \in [host : BOOLEAN, join : BOOLEAN]
         /\ message' \in {"none", "created", "notCreated"}
         /\ session' \in {"None", "Pending", "Active", "Destroying"}
<1> USE KindFacts, ListsOf
<1>1. D["create"].held => D["create"].size > 0
  BY DEF ListsKeepUp
<1>2. CASE /\ delegates' = AddHandle(D, "create")
           /\ pending' = Issue(pending, "create")
           /\ session' = "Pending"
           /\ enabled' = [enabled EXCEPT !.host = host]
           /\ UNCHANGED <<place, message>>
  <2>1. delegates' \in Lists /\ pending' \in Calls
    BY <1>1, <1>2, ListTypes
  <2>2. ListsKeepUp(delegates', pending', kind)
    BY <1>2, AddKeepsUp
  <2>3. QED
    BY <1>2, <2>1, <2>2 DEF MenuTypeOK
<1>3. CASE /\ delegates' = AddAndClear(D, "create")
           /\ pending' = pending
           /\ session' = "None"
           /\ OnCreateSession(FALSE)
  <2>1. delegates' \in Lists
    BY <1>1, <1>3, ListTypes
  <2>2. ListsKeepUp(delegates', pending', kind)
    BY <1>3, AddAndClearKeepsUp
  <2>3. QED
    BY <1>3, <2>1, <2>2, MenuTypes
<1>4. QED
  BY <1>2, <1>3 DEF CreateNew

LEMMA HostKeepsHInv == HInv /\ HostButtonClicked => HInv'
<1> SUFFICES ASSUME HInv, HostButtonClicked PROVE HInv'
  OBVIOUS
<1> USE KindFacts, ListsOf
<1>1. /\ MenuTypeOK /\ running = Idle /\ running' = running
      /\ ListsKeepUp(delegates, pending, "none")
  BY DEF HInv, HostButtonClicked
<1>2. CASE CreateNew(FALSE, delegates, pending) /\ UNCHANGED bCreateSessionOnDestroy
  <2>1. /\ delegates' \in Lists /\ pending' \in Calls
        /\ ListsKeepUp(delegates', pending', "none")
        /\ place' \in {"menu", "away"}
        /\ enabled' \in [host : BOOLEAN, join : BOOLEAN]
        /\ message' \in {"none", "created", "notCreated"}
        /\ session' \in {"None", "Pending", "Active", "Destroying"}
    BY <1>1, <1>2, CreateKeepsUp
  <2>2. MenuTypeOK'
    BY <1>1, <1>2, <2>1 DEF MenuTypeOK, Lists, Calls
  <2>3. QED
    BY <1>1, <2>1, <2>2 DEF HInv
<1>3. CASE CreateOverExisting
  <2>1. \A k \in Kinds : delegates[k].held => delegates[k].size > 0
    BY HeldOf
  <2>2. /\ bCreateSessionOnDestroy' = TRUE
        /\ OnCreateSession(FALSE)
    BY <1>3 DEF CreateOverExisting
  <2>3. CASE /\ delegates' = AddAndClear(AddHandle(delegates, "destroy"), "create")
             /\ pending' = Issue(pending, "destroy")
             /\ session' = "Destroying"
    <3> DEFINE D == AddHandle(delegates, "destroy")
    <3>1. D \in Lists /\ pending' \in Calls
      BY <1>1, <2>1, <2>3, ListTypes
    <3>2. ListsKeepUp(D, pending', "none")
      BY <1>1, <2>3, AddKeepsUp
    <3>3. D["create"].held => D["create"].size > 0
      BY <3>2 DEF ListsKeepUp
    <3> HIDE DEF D
    <3>4. delegates' \in Lists /\ ListsKeepUp(delegates', pending', "none")
      BY <2>3, <3>1, <3>2, <3>3, ListTypes, AddAndClearKeepsUp DEF D
    <3>5. MenuTypeOK'
      BY <1>1, <2>2, <2>3, <3>1, <3>4, MenuTypes DEF MenuTypeOK, Lists, Calls
    <3>6. QED
      BY <1>1, <3>4, <3>5 DEF HInv
  <2>4. CASE /\ delegates' = AddAndClear(AddAndClear(delegates, "destroy"), "create")
             /\ UNCHANGED <<pending, session>>
    <3> DEFINE D == AddAndClear(delegates, "destroy")
    <3>1. D \in Lists
      BY <1>1, <2>1, ListTypes
    <3>2. ListsKeepUp(D, pending, "none")
      BY <1>1, AddAndClearKeepsUp
    <3>3. D["create"].held => D["create"].size > 0
      BY <3>2 DEF ListsKeepUp
    <3> HIDE DEF D
    <3>4. delegates' \in Lists /\ ListsKeepUp(delegates', pending', "none")
      BY <1>1, <2>4, <3>1, <3>2, <3>3, ListTypes, AddAndClearKeepsUp DEF D
    <3>5. MenuTypeOK'
      BY <1>1, <2>2, <2>4, <3>4, MenuTypes DEF MenuTypeOK, Lists, Calls
    <3>6. QED
      BY <1>1, <3>4, <3>5 DEF HInv
  <2>5. QED
    BY <1>3, <2>3, <2>4 DEF CreateOverExisting
<1>4. QED
  BY <1>2, <1>3 DEF HostButtonClicked

LEMMA JoinKeepsHInv == HInv /\ JoinButtonClicked => HInv'
<1> SUFFICES ASSUME HInv, JoinButtonClicked PROVE HInv'
  OBVIOUS
<1> USE KindFacts, ListsOf
<1>1. /\ MenuTypeOK /\ running = Idle /\ running' = running
      /\ ListsKeepUp(delegates, pending, "none")
      /\ delegates["find"].held => delegates["find"].size > 0
  BY HeldOf DEF HInv, JoinButtonClicked
<1>2. CASE delegates' = AddHandle(delegates, "find") /\ pending' = Issue(pending, "find")
  BY <1>1, <1>2, ListTypes, AddKeepsUp
  DEF HInv, MenuTypeOK, JoinButtonClicked, Lists, Calls
<1>3. CASE delegates' = AddAndClear(delegates, "find") /\ UNCHANGED <<pending, enabled>>
  BY <1>1, <1>3, ListTypes, AddAndClearKeepsUp
  DEF HInv, MenuTypeOK, JoinButtonClicked, Lists, Calls
<1>4. QED
  BY <1>2, <1>3 DEF JoinButtonClicked

LEMMA CompletionKeepsHInv ==
  ASSUME HInv, NEW k \in Kinds, NEW ok \in BOOLEAN,
         NEW found \in {"empty", "match", "other"}, Complete(k, ok, found)
  PROVE  HInv'
<1> USE KindFacts, ListsOf
<1>1. MenuTypeOK /\ running = Idle /\ ListsKeepUp(delegates, pending, "none")
  BY DEF HInv, Complete
<1>2. pending' \in Calls /\ ListsKeepUp(delegates, pending', k)
  BY <1>1, CompleteKeepsUp DEF Complete
<1>3. ListsKeepUp(delegates, pending', "none")
  BY <1>1, <1>2, EndKeepsUp
<1>4. delegates' = delegates
  BY DEF Complete
<1>5. MenuTypeOK'
  <2>1. session' \in {"None", "Pending", "Active", "Destroying"}
    BY <1>1 DEF Complete, MenuTypeOK, Kinds
  <2>2. running' \in [kind : Kinds \cup {"none"}, left : Nat, ok : BOOLEAN,
                      found : {"empty", "match", "other"}]
    BY <1>1 DEF Complete, MenuTypeOK
  <2>3. QED
    BY <1>1, <1>2, <2>1, <2>2 DEF Complete, MenuTypeOK, menuVars, Calls
<1>6. running'.kind # "none" => running'.left > 0
  BY <1>1 DEF Complete, MenuTypeOK
<1>7. ListsKeepUp(delegates', pending', running'.kind)
  BY <1>2, <1>3, <1>4 DEF Complete
<1>8. QED
  BY <1>5, <1>6, <1>7 DEF HInv

\* A callback runs: the kind stays or the completion is over.
LEMMA AfterRun ==
  ASSUME HInv, NEW k \in Kinds, Running(k),
         delegates' \in Lists, pending' \in Calls, ListsKeepUp(delegates', pending', k)
  PROVE  /\ ListsKeepUp(delegates', pending', running'.kind)
         /\ running'.kind # "none" => running'.left > 0
         /\ running' \in [kind : Kinds \cup {"none"}, left : Nat, ok : BOOLEAN,
                          found : {"empty", "match", "other"}]
<1> USE KindFacts
<1>1. ListsKeepUp(delegates', pending', "none")
  BY EndKeepsUp
<1>2. running \in [kind : Kinds \cup {"none"}, left : Nat, ok : BOOLEAN,
                   found : {"empty", "match", "other"}]
      /\ running.left > 0 /\ running.kind = k
  BY DEF HInv, MenuTypeOK, Running
<1>3. CASE running.left = 1
  BY <1>1, <1>3 DEF Running
<1>4. CASE running.left # 1
  <2>1. running' = [running EXCEPT !.left = @ - 1]
    BY <1>4 DEF Running
  <2>2. running'.kind = k /\ running'.left = running.left - 1 /\ running.left - 1 \in Nat
    BY <1>2, <1>4, <2>1
  <2>3. QED
    BY <1>2, <1>4, <2>1, <2>2
<1>5. QED
  BY <1>3, <1>4

\* The list after the callback's Clear.
LEMMA Cleared ==
  ASSUME HInv, NEW k \in Kinds, Running(k)
  PROVE  /\ ClearHandle(delegates, k) \in Lists
         /\ ListsKeepUp(ClearHandle(delegates, k), pending, k)
<1>1. /\ delegates \in Lists /\ pending \in Calls
      /\ ListsKeepUp(delegates, pending, k)
      /\ delegates[k].held => delegates[k].size > 0
  BY ListsOf, HeldOf DEF HInv, Running
<1>2. QED
  BY <1>1, ListTypes, ClearKeepsUp

LEMMA RunKeepsHInv == HInv /\ RunDelegate => HInv'
<1> SUFFICES ASSUME HInv, RunDelegate PROVE HInv'
  OBVIOUS
<1> USE KindFacts
<1>0. MenuTypeOK /\ delegates \in Lists /\ pending \in Calls
  BY ListsOf DEF HInv
<1>1. CASE OnSessionCreateComplete
  <2>1. /\ delegates' \in Lists /\ pending' \in Calls
        /\ ListsKeepUp(delegates', pending', "create") /\ Running("create")
    BY <1>0, <1>1, Cleared DEF OnSessionCreateComplete, ossVars
  <2>2. MenuTypeOK'
    BY <1>0, <1>1, <2>1, AfterRun, MenuTypes
    DEF OnSessionCreateComplete, MenuTypeOK, ossVars, Lists, Calls
  <2>3. QED
    BY <2>1, <2>2, AfterRun DEF HInv
<1>2. CASE OnFindSessionsComplete
  <2> DEFINE D == ClearHandle(delegates, "find")
  <2>1. Running("find") /\ D \in Lists /\ ListsKeepUp(D, pending, "find")
    BY <1>2, Cleared DEF OnFindSessionsComplete
  <2>2. D["join"].held => D["join"].size > 0
    BY <2>1 DEF ListsKeepUp
  <2>3. CASE JoinSession(D)
    <3> HIDE DEF D
    <3>1. /\ delegates' \in Lists /\ pending' \in Calls
          /\ ListsKeepUp(delegates', pending', "find")
      <4>1. CASE delegates' = AddHandle(D, "join") /\ pending' = Issue(pending, "join")
        BY <1>0, <2>1, <2>2, <4>1, ListTypes, AddKeepsUp
      <4>2. CASE delegates' = AddAndClear(D, "join") /\ pending' = pending
        BY <1>0, <2>1, <2>2, <4>2, ListTypes, AddAndClearKeepsUp
      <4>3. QED
        BY <2>3, <4>1, <4>2 DEF JoinSession
    <3>2. MenuTypeOK'
      BY <1>0, <1>2, <2>1, <2>3, <3>1, AfterRun, MenuTypes
      DEF OnFindSessionsComplete, JoinSession, MenuTypeOK, menuVars, Lists, Calls
    <3>3. QED
      BY <2>1, <3>1, <3>2, AfterRun DEF HInv
  <2>4. CASE /\ delegates' = D
             /\ enabled' = IF place = "menu" /\ (~running.ok \/ running.found = "empty")
                           THEN [enabled EXCEPT !.join = TRUE] ELSE enabled
             /\ UNCHANGED <<place, message, pending, session>>
    <3> HIDE DEF D
    <3>1. /\ delegates' \in Lists /\ pending' \in Calls
          /\ ListsKeepUp(delegates', pending', "find")
      BY <1>0, <2>1, <2>4
    <3>2. MenuTypeOK'
      BY <1>0, <1>2, <2>1, <2>4, <3>1, AfterRun
      DEF OnFindSessionsComplete, MenuTypeOK, Lists, Calls
    <3>3. QED
      BY <2>1, <3>1, <3>2, AfterRun DEF HInv
  <2>5. QED
    BY <1>2, <2>3, <2>4 DEF OnFindSessionsComplete
<1>3. CASE OnJoinSessionComplete
  <2>1. /\ delegates' \in Lists /\ pending' \in Calls
        /\ ListsKeepUp(delegates', pending', "join") /\ Running("join")
    BY <1>0, <1>3, Cleared DEF OnJoinSessionComplete, ossVars
  <2>2. running.ok \in BOOLEAN
    BY <1>0 DEF MenuTypeOK
  <2>3. MenuTypeOK'
    BY <1>0, <1>3, <2>1, <2>2, AfterRun, MenuTypes
    DEF OnJoinSessionComplete, MenuTypeOK, ossVars, Lists, Calls
  <2>4. QED
    BY <2>1, <2>3, AfterRun DEF HInv
<1>4. CASE OnDestroySessionComplete
  <2> DEFINE D == ClearHandle(delegates, "destroy")
  <2>1. Running("destroy") /\ D \in Lists /\ ListsKeepUp(D, pending, "destroy")
    BY <1>4, Cleared DEF OnDestroySessionComplete
  <2>2. CASE bCreateSessionOnDestroy' = FALSE /\ CreateNew(enabled.host, D, pending)
    <3>1. enabled.host \in BOOLEAN
      BY <1>0 DEF MenuTypeOK
    <3> HIDE DEF D
    <3>2. /\ delegates' \in Lists /\ pending' \in Calls
          /\ ListsKeepUp(delegates', pending', "destroy")
          /\ place' \in {"menu", "away"}
          /\ enabled' \in [host : BOOLEAN, join : BOOLEAN]
          /\ message' \in {"none", "created", "notCreated"}
          /\ session' \in {"None", "Pending", "Active", "Destroying"}
      BY <1>0, <2>1, <2>2, <3>1, CreateKeepsUp
    <3>3. MenuTypeOK'
      BY <1>0, <2>1, <2>2, <3>2, AfterRun DEF MenuTypeOK, Lists, Calls
    <3>4. QED
      BY <2>1, <3>2, <3>3, AfterRun DEF HInv
  <2>3. CASE delegates' = D /\ UNCHANGED <<menuVars, bCreateSessionOnDestroy, ossVars>>
    <3> HIDE DEF D
    <3>1. /\ delegates' \in Lists /\ pending' \in Calls
          /\ ListsKeepUp(delegates', pending', "destroy")
      BY <1>0, <2>1, <2>3 DEF ossVars
    <3>2. MenuTypeOK'
      BY <1>0, <2>1, <2>3, <3>1, AfterRun DEF MenuTypeOK, menuVars, ossVars, Lists, Calls
    <3>3. QED
      BY <2>1, <3>1, <3>2, AfterRun DEF HInv
  <2>4. QED
    BY <1>4, <2>2, <2>3 DEF OnDestroySessionComplete
<1>5. QED
  BY <1>1, <1>2, <1>3, <1>4 DEF RunDelegate

LEMMA StepKeepsHInv == HInv /\ [MenuNext]_allVars => HInv'
<1> SUFFICES ASSUME HInv, [MenuNext]_allVars PROVE HInv'
  OBVIOUS
<1>1. ASSUME NEW k \in Kinds, SomeCompletion(k) PROVE HInv'
  BY <1>1, CompletionKeepsHInv DEF SomeCompletion
<1>2. CASE MenuSetup
  BY <1>2, KindFacts DEF MenuSetup, HInv, MenuTypeOK, ossVars
<1>3. CASE UNCHANGED allVars
  BY <1>3 DEF HInv, MenuTypeOK, allVars, menuVars, ossVars
<1>4. QED
  BY <1>1, <1>2, <1>3, HostKeepsHInv, JoinKeepsHInv, RunKeepsHInv DEF MenuNext

LEMMA HInvInvariant == MenuSpec => []HInv
BY InitHInv, StepKeepsHInv, PTL DEF MenuSpec

\* Types, whatever the bound on the lists.
THEOREM MenuTypeCorrect == MenuSpec => []MenuTypeOK
<1>1. HInv => MenuTypeOK
  BY DEF HInv
<1>2. QED
  BY <1>1, HInvInvariant, PTL

\* Every call the interface has accepted finds a delegate when it completes.
THEOREM MenuCompletionIsHeard == MenuSpec => []CompletionIsHeard
<1>1. HInv => CompletionIsHeard
  BY DEF HInv, ListsKeepUp, CompletionIsHeard
<1>2. QED
  BY <1>1, HInvInvariant, PTL
=============================================================================
