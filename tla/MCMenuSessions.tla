--------------------------- MODULE MCMenuSessions ---------------------------
(* One player at the main menu.                                            *)
EXTENDS MenuSessions
=============================================================================
