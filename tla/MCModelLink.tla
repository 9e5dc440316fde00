---------------------------- MODULE MCModelLink ----------------------------
(* A connection and another one, with a model of Rider's before and after, *)
(* and one sender: enough for messages of either end's first model to meet *)
(* the second.                                                             *)
EXTENDS ModelLink
=============================================================================
