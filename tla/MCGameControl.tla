--------------------------- MODULE MCGameControl ---------------------------
(* Settings that a mode can express, and settings with more clients than   *)
(* the mode has room for.                                                  *)
EXTENDS GameControl

S(type, clients, spawn) ==
  [PlayMode |-> type, NumberOfClients |-> clients, bNetDedicated |-> FALSE, bSpawnAtPlayerStart |-> spawn]

SomeSettings == {S("InViewPort", 5, FALSE), S("InVR", 4, TRUE)}

\* playMode is by chance the mode of one of the settings, or of none.
SomeMemory == {PackToMode(s) : s \in SomeSettings} \cup {-1}
=============================================================================
