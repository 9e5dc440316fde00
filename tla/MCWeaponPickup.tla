--------------------------- MODULE MCWeaponPickup ---------------------------
(* A host with a character, a player on a client and two weapons.          *)
EXTENDS WeaponPickup
=============================================================================
