---------------------------- MODULE ViewContract ----------------------------
(* What a view of a property promises its handler: with every value a      *)
(* lifetime of its own, when those of the values before have ended; one    *)
(* that never ends, or that has ended, only when the view is over.         *)
EXTENDS Naturals

CONSTANTS
  Lifetime,  \* the lifetimes there may be
  Eternal    \* the one that never ends

VARIABLES
  given,  \* lifetimes the handler was given
  ended,  \* those of them that have ended
  over    \* whether the view is

Init == given = {} /\ ended = {} /\ over = FALSE

Give(l) ==
  /\ given \ {Eternal} = ended
  /\ l \notin given
  /\ given' = given \cup {l}
  /\ IF l = Eternal THEN over /\ ended' = ended
     ELSE ended' \in {ended} \cup {e \in {ended \cup {l}} : over}
  /\ UNCHANGED over

End(l) ==
  /\ l \in given \ (ended \cup {Eternal})
  /\ ended' = ended \cup {l}
  /\ UNCHANGED <<given, over>>

Finish == over' = TRUE /\ UNCHANGED <<given, ended>>

Next == Finish \/ \E l \in Lifetime : Give(l) \/ End(l)

Spec == Init /\ [][Next]_<<given, ended, over>>
=============================================================================
