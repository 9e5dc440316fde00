---------------------------- MODULE MCLifetimes ----------------------------
(* The bounds are in the configuration.                                    *)
EXTENDS Lifetimes
=============================================================================
