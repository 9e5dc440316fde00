------------------------------ MODULE MCRdMap ------------------------------
(* Two keys, so that clear sends two removals; two values.                 *)
EXTENDS RdMap
=============================================================================
