-------------------------- MODULE WeaponOwnership --------------------------
(* What picking up weapons promises: a weapon lies about until one player  *)
(* takes it, and from then on it is that player's for good.                *)
EXTENDS Naturals

CONSTANTS
  Weapons,   \* the weapons placed in the level
  Players,   \* the players' characters
  None       \* nobody

VARIABLE owner   \* the player each weapon belongs to

Init == owner = [w \in Weapons |-> None]

Take(p, w) ==
  /\ owner[w] = None
  /\ owner' = [owner EXCEPT ![w] = p]

Next == \E p \in Players, w \in Weapons : Take(p, w)

Spec == Init /\ [][Next]_owner
=============================================================================
