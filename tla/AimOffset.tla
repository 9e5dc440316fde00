----------------------------- MODULE AimOffset -----------------------------
(***************************************************************************)
(* ASupergoonCharacter::AimOffset and TurnInPlace (SupergoonCharacter.cpp):*)
(* how far an armed character that stands still twists its upper body      *)
(* after the camera, and when it turns on the spot.  Every machine         *)
(* computes this for every character from what it has of it, frame by      *)
(* frame; the module follows one of them.                                  *)
(*                                                                         *)
(* A step is a frame: the input of the frame is what the engine has of the *)
(* character then (where it aims, whether it stands, whether it is armed). *)
(* The pitch of a character controlled elsewhere arrives as an unsigned    *)
(* angle; the loss of precision on the way is left out.                    *)
(* Angles are degrees on a grid of Grid; frames take any time, so that     *)
(* FInterpTo brings a value any part of the way to its target.             *)
(***************************************************************************)
EXTENDS Integers

CONSTANTS
  Grid   \* the angles of the model are the multiples of Grid, a divisor of 180

ASSUME GridAssumption == Grid \in 1 .. 90 /\ 180 % Grid = 0

Yaws == {a \in 0 .. 359 : a % Grid = 0}                 \* a world direction
Offsets == {a \in -179 .. 180 : a % Grid = 0}           \* a normalized angle
Pitches == {-90, -Grid, 0, Grid, 90}                    \* how far up the player looks

VARIABLES
  armed,                 \* CombatComponent->EquippedWeapon != nullptr
  standing,              \* speed == 0 and not in the air
  aim,                   \* GetBaseAimRotation().Yaw of the last frame
  StartingAimRotation,   \* its yaw
  AO_Yaw, InterpAO_Yaw,
  TurningInPlace,
  local,                 \* IsLocallyControlled
  pitch,                 \* where the player looked, up or down, in the last frame
  AO_Pitch

yawVars == <<StartingAimRotation, AO_Yaw, InterpAO_Yaw, TurningInPlace>>
offsetVars == <<armed, standing, aim, yawVars, local, pitch, AO_Pitch>>

OffsetInit ==
  /\ armed = FALSE /\ standing \in BOOLEAN /\ aim \in Yaws
  /\ StartingAimRotation = 0 /\ AO_Yaw = 0 /\ InterpAO_Yaw = 0
  /\ TurningInPlace = "NotTurning"
  /\ local \in BOOLEAN /\ pitch \in Pitches /\ AO_Pitch = 0

-----------------------------------------------------------------------------
\* UKismetMathLibrary::NormalizedDeltaRotator, in yaw.
NormalizedDelta(a, b) == LET d == (a - b) % 360 IN IF d > 180 THEN d - 360 ELSE d

Between(x, a, b) == (a <= x /\ x <= b) \/ (b <= x /\ x <= a)

\* FMath::FInterpTo(a, 0, deltaTime, 6): some way from a to 0, but not nowhere.
FInterpTo(a) ==
  IF a = 0 THEN {0} ELSE {x \in Offsets : Between(x, 0, a) /\ x # a}

Abs(a) == IF a < 0 THEN -a ELSE a

\* The direction the twist of this frame asks for: past a right angle a turn
\* starts, in whichever direction, also while another is under way.
Direction(twist) ==
  IF twist > 90 THEN "Right" ELSE IF twist < -90 THEN "Left" ELSE TurningInPlace

\* Mutant of TurnInPlace: the end of a turn leaves StartingAimRotation alone.
TurnInPlace_StartKept(twist, interp) ==
  IF Direction(twist) = "NotTurning"
  THEN /\ AO_Yaw' = twist /\ InterpAO_Yaw' = interp
       /\ UNCHANGED <<TurningInPlace, StartingAimRotation>>
  ELSE /\ InterpAO_Yaw' \in FInterpTo(interp)
       /\ AO_Yaw' = InterpAO_Yaw'
       /\ TurningInPlace' = IF Abs(AO_Yaw') < 15 THEN "NotTurning" ELSE Direction(twist)
       /\ UNCHANGED StartingAimRotation

\* TurnInPlace with AO_Yaw = twist and InterpAO_Yaw = interp on entry: a turn
\* unwinds the twist, and ends when less than 15 degrees are left of it.
TurnInPlace(twist, interp) ==
  IF Direction(twist) = "NotTurning"
  THEN /\ AO_Yaw' = twist /\ InterpAO_Yaw' = interp
       /\ UNCHANGED <<TurningInPlace, StartingAimRotation>>
  ELSE /\ InterpAO_Yaw' \in FInterpTo(interp)
       /\ AO_Yaw' = InterpAO_Yaw'
       /\ IF Abs(AO_Yaw') < 15
          THEN TurningInPlace' = "NotTurning" /\ StartingAimRotation' = aim'
          ELSE TurningInPlace' = Direction(twist) /\ UNCHANGED StartingAimRotation

\* Mutant of AimOffsetYaw: moving off does not end the turn.
AimOffsetYaw_TurnKept ==
  \/ /\ standing'
     /\ LET twist == NormalizedDelta(aim', StartingAimRotation) IN
        TurnInPlace(twist, IF TurningInPlace = "NotTurning" THEN twist ELSE InterpAO_Yaw)
  \/ /\ ~standing'
     /\ StartingAimRotation' = aim'
     /\ AO_Yaw' = 0
     /\ UNCHANGED <<InterpAO_Yaw, TurningInPlace>>

\* The yaw of a character that stands, and of one that moves or falls.
AimOffsetYaw ==
  \/ /\ standing'
     /\ LET twist == NormalizedDelta(aim', StartingAimRotation) IN
        TurnInPlace(twist, IF TurningInPlace = "NotTurning" THEN twist ELSE InterpAO_Yaw)
  \/ /\ ~standing'
     /\ StartingAimRotation' = aim'
     /\ AO_Yaw' = 0
     /\ TurningInPlace' = "NotTurning"
     /\ UNCHANGED InterpAO_Yaw

\* GetBaseAimRotation().Pitch: a remote player's is in 0 .. 359.
BasePitch(p) == IF local THEN p ELSE p % 360

\* GetMappedRangeValueClamped from 270 .. 360 to -90 .. 0.
MapPitch(p) == IF p < 270 THEN -90 ELSE IF p > 360 THEN 0 ELSE p - 360

AimOffsetPitch ==
  LET p == BasePitch(pitch') IN
  AO_Pitch' = IF p > 90 /\ ~local THEN MapPitch(p) ELSE p

\* AimOffset: nothing happens before the character is armed.
AimOffset ==
  \/ ~armed' /\ UNCHANGED <<yawVars, AO_Pitch>>
  \/ armed' /\ AimOffsetYaw /\ AimOffsetPitch

\* A frame.  A weapon once equipped is never put down.
Tick ==
  /\ aim' \in Yaws /\ standing' \in BOOLEAN /\ pitch' \in Pitches
  /\ armed' \in BOOLEAN /\ (armed => armed')
  /\ UNCHANGED local
  /\ AimOffset

OffsetNext == Tick
OffsetSpec == OffsetInit /\ [][OffsetNext]_offsetVars

\* Frames keep coming.
OffsetFairSpec == OffsetSpec /\ WF_offsetVars(OffsetNext)

-----------------------------------------------------------------------------
OffsetTypeOK ==
  /\ armed \in BOOLEAN /\ standing \in BOOLEAN /\ aim \in Yaws
  /\ StartingAimRotation \in Yaws
  /\ AO_Yaw \in Offsets /\ InterpAO_Yaw \in Offsets
  /\ TurningInPlace \in {"NotTurning", "Left", "Right"}
  /\ local \in BOOLEAN /\ pitch \in Pitches /\ AO_Pitch \in -90 .. 90

\* The animation blueprint is given a twist within a right angle, or is told to
\* turn, and then the twist left is that of the turn and worth turning for.
TwistIsTurnable ==
  /\ TurningInPlace = "NotTurning" => Abs(AO_Yaw) <= 90
  /\ TurningInPlace # "NotTurning" =>
       armed /\ standing /\ AO_Yaw = InterpAO_Yaw /\ Abs(AO_Yaw) >= 15

\* Every machine sees an armed character look where its player looks, although
\* the angle arrives unsigned on all but one.
PitchIsSeen == armed => AO_Pitch = pitch

\* What the animation blueprint gets in a frame (AimOffset): variables of the
\* types it expects, a twist it can turn and the pitch of the player.
AnglesRight == OffsetTypeOK /\ TwistIsTurnable /\ PitchIsSeen

\* As long as the player does not aim elsewhere the body only unwinds: from
\* frame to frame the twist moves towards none and never past it, also where a
\* turn begins and where it ends and StartingAimRotation is reset.
UnwindsOnly ==
  [][(armed /\ standing /\ standing' /\ aim' = aim) => Between(AO_Yaw', 0, AO_Yaw)]_offsetVars

\* A turn ends, even if the player never stops moving the mouse.
TurnEnds == TurningInPlace # "NotTurning" ~> TurningInPlace = "NotTurning"

\* TurnInPlace: from frame to frame the body settles, and is done in the end.
TurnSettles == UnwindsOnly /\ TurnEnds
=============================================================================
