----------------------------- MODULE RdProperty -----------------------------
(***************************************************************************)
(* One RdProperty (RdPropertyBase.h over Property.h) at its two ends, the  *)
(* editor and the IDE.  Either end may set it at any moment; the end with  *)
(* is_master counts its own changes in master_version, sends the count     *)
(* with every value, and rejects what was sent before the counterpart      *)
(* had heard of its last change.                                           *)
(*                                                                         *)
(* Both ends run the code of RdPropertyBase; the wire between them is      *)
(* external, and delivers in order and once (AsyncProcessor keeps its      *)
(* side of that).  on_wire_received and set run on one scheduler per end,  *)
(* so each is one step.                                                    *)
(***************************************************************************)
EXTENDS Naturals, Sequences

CONSTANTS
  Values,    \* what the property can hold
  Default,   \* what both ends hold at first
  MaxSets    \* bound: changes made, at both ends together

ASSUME PropertyAssumption == Default \in Values /\ MaxSets \in Nat

End == {"master", "slave"}
Other(e) == IF e = "master" THEN "slave" ELSE "master"

VARIABLES
  value,           \* per end: the value
  master_version,  \* per end: the highest version known
  incoming,        \* per end: messages on their way to it
  sets             \* changes made so far

propertyVars == <<value, master_version, incoming, sets>>

Messages == [version : Nat, value : Values]

PropertyInit ==
  /\ value = [master |-> Default, slave |-> Default]
  /\ master_version = [master |-> 0, slave |-> 0]
  /\ incoming = [master |-> <<>>, slave |-> <<>>]
  /\ sets = 0

-----------------------------------------------------------------------------
\* The version a change at e is sent with: a master counts its own.
NewVersion(e) == IF e = "master" THEN master_version[e] + 1 ELSE master_version[e]

\* Mutant of Rejected: nothing is.
Rejected_Never(e, version) == FALSE

\* Mutant of Rejected: the slave's answer to the last change is, too.
Rejected_Current(e, version) == e = "master" /\ version <= master_version[e]

\* A master does not take what was sent before its last change arrived.
Rejected(e, version) == e = "master" /\ version < master_version[e]

\* set: a value that is not new changes nothing and is not sent.
Set(e) ==
  /\ sets < MaxSets
  /\ \E v \in Values :
       /\ v # value[e]
       /\ value' = [value EXCEPT ![e] = v]
       /\ master_version' = [master_version EXCEPT ![e] = NewVersion(e)]
       /\ incoming' = [incoming EXCEPT ![Other(e)] =
                         Append(@, [version |-> NewVersion(e), value |-> v])]
  /\ sets' = sets + 1

\* Mutant of Adopt: the value is read before the version.
Adopt_Swapped(e, m) ==
  /\ master_version' = [master_version EXCEPT ![e] = m.value]
  /\ value' = [value EXCEPT ![e] = m.version]

\* The value and its version are taken over; nothing is sent back.
Adopt(e, m) ==
  /\ master_version' = [master_version EXCEPT ![e] = m.version]
  /\ value' = [value EXCEPT ![e] = m.value]

\* on_wire_received.
OnWireReceived(e) ==
  /\ incoming[e] # <<>>
  /\ LET m == Head(incoming[e])
     IN  IF Rejected(e, m.version) THEN UNCHANGED <<value, master_version>> ELSE Adopt(e, m)
  /\ incoming' = [incoming EXCEPT ![e] = Tail(@)]
  /\ UNCHANGED sets

PropertyNext == \E e \in End : Set(e) \/ OnWireReceived(e)

PropertySpec == PropertyInit /\ [][PropertyNext]_propertyVars

\* What was sent arrives and is handled.
PropertyFairSpec == PropertySpec /\ \A e \in End : WF_propertyVars(OnWireReceived(e))

-----------------------------------------------------------------------------
(* Properties.                                                             *)

\* Types of all variables.
PropertyTypeOK ==
  /\ value \in [master : Values, slave : Values]
  /\ master_version \in [master : Nat, slave : Nat]
  /\ incoming \in [master : Seq(Messages), slave : Seq(Messages)]
  /\ sets \in 0..MaxSets

\* Whenever nothing is on its way the two ends hold the same value, whatever
\* changes crossed each other on the wire.
Agreement ==
  incoming.master = <<>> /\ incoming.slave = <<>> => value.master = value.slave

\* The slave never claims to know a change the master has not made, so an
\* answer the master takes is one to its last change and leaves its count.
KnowsNoMore ==
  /\ master_version.slave <= master_version.master
  /\ \A i \in 1..Len(incoming.master) : incoming.master[i].version <= master_version.slave

\* The master's last change is lost at neither end before the slave has heard
\* of it: while it is on its way it stays the master's value.
LastWord ==
  incoming.slave # <<>> =>
    incoming.slave[Len(incoming.slave)] = [version |-> master_version.master, value |-> value.master]

\* Once the two ends stop changing it they come to agree for good.
Convergence == <>[](value.master = value.slave)

=============================================================================
