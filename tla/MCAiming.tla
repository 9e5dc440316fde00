------------------------------ MODULE MCAiming ------------------------------
(* A remote owner, one more client that watches, and the server.           *)
EXTENDS Aiming
=============================================================================
