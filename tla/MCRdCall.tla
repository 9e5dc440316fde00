------------------------------ MODULE MCRdCall ------------------------------
(* Two calls, so that a late answer to the first meets the second, and two *)
(* results for each.                                                       *)
EXTENDS RdCall
=============================================================================
