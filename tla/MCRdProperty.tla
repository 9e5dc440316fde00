---------------------------- MODULE MCRdProperty ----------------------------
(* Three values, so that crossing changes can all differ.                  *)
EXTENDS RdProperty
=============================================================================
