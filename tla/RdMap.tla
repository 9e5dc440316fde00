------------------------------- MODULE RdMap -------------------------------
(***************************************************************************)
(* One RdMap (RdMap.h over ViewableMap.h) at its two ends.  Either end may *)
(* put and remove at any moment.  The end with is_master sends a version   *)
(* with every change of its own, keeps it in pendingForAck until the other *)
(* end has acknowledged it, and meanwhile rejects what the other end sends *)
(* about the same key: that was sent before it knew.                       *)
(*                                                                         *)
(* pendingForAck is keyed by a pointer to the key, which is the map's copy *)
(* or, for a removal, the caller's.  When that is gone the entry is still  *)
(* there, and looking its key up reads what is left of it: it is found or  *)
(* not.                                                                    *)
(*                                                                         *)
(* The wire delivers in order and once (SocketWire); changes and           *)
(* on_wire_received run on one scheduler per end, so each is one step.     *)
(* Nothing under src/ sets is_master, the IDE's end does.                  *)
(***************************************************************************)
EXTENDS Naturals, Sequences, FiniteSets, SequencesExt

CONSTANTS
  Keys, Values,
  Absent,     \* what a key without an entry has
  MaxChanges  \* bound: changes made, at both ends together

ASSUME RdMapAssumption == IsFiniteSet(Keys) /\ Absent \notin Values /\ MaxChanges \in Nat

End == {"master", "slave"}
Other(e) == IF e = "master" THEN "slave" ELSE "master"

VARIABLES
  map,            \* per end: its entries
  next_version,   \* the master's
  pendingForAck,  \* the master's: keys with a version, live while the pointer is
  incoming,       \* per end: messages on their way to it
  changes,        \* changes made so far
  loose           \* keys the master removed, or changed again before an answer

vars == <<map, next_version, pendingForAck, incoming, changes, loose>>

Pending == [key : Keys, version : Nat, live : BOOLEAN]
NotFound == [version |-> 0]
Messages == [op : {"put", "remove", "ack"}, key : Keys, value : Values \cup {Absent}, version : Nat]

Init ==
  /\ map = [e \in End |-> [k \in Keys |-> Absent]]
  /\ next_version = 0 /\ pendingForAck = {}
  /\ incoming = [e \in End |-> <<>>]
  /\ changes = 0 /\ loose = {}

-----------------------------------------------------------------------------
(* pendingForAck.                                                          *)

\* What looking k up in P may find.
Find(P, k) ==
  LET same == {p \in P : p.key = k}
  IN  same \cup (IF \E p \in same : p.live THEN {} ELSE {NotFound})

\* Those of the positions in ks whose key may not be found in P.
Missed(P, ks) ==
  {missed \in SUBSET (1..Len(ks)) :
     \A i \in 1..Len(ks) :
       IF i \in missed THEN NotFound \in Find(P, ks[i]) ELSE Find(P, ks[i]) # {NotFound}}

\* Mutant of Emplace: the version before the change's own.
Emplace_Before(P, ks, n) ==
  {P \cup {[key |-> ks[i], version |-> n + i - 1, live |-> TRUE] : i \in missed} : missed \in Missed(P, ks)}

\* emplace for the keys ks, the first of them with the version n + 1: what P may
\* be after it.  A key that is found keeps its version.
Emplace(P, ks, n) ==
  {P \cup {[key |-> ks[i], version |-> n + i, live |-> TRUE] : i \in missed} : missed \in Missed(P, ks)}

\* The pointers to keys that are removed are void.
Void(P, removed) == {IF p.key \in removed THEN [p EXCEPT !.live = FALSE] ELSE p : p \in P}

-----------------------------------------------------------------------------
(* Changes at an end: RdMap::set, remove, clear and the handler of init.   *)

\* The keys ks, which are different and have another value, get the value v, and
\* the other end a message for each.  A removal fires all its events before the
\* map frees a key.
Change(e, op, ks, v) ==
  LET version(i) == IF e = "master" THEN next_version + i ELSE 0
      message(i) == [op |-> op, key |-> ks[i], value |-> v, version |-> version(i)]
      changed == ToSet(ks)
      removed == IF op = "remove" THEN changed ELSE {}
  IN  /\ changes < MaxChanges
      /\ map' = [map EXCEPT ![e] = [k \in Keys |-> IF k \in changed THEN v ELSE @[k]]]
      /\ incoming' = [incoming EXCEPT ![Other(e)] = @ \o [i \in 1..Len(ks) |-> message(i)]]
      /\ changes' = changes + 1
      /\ IF e = "master"
           THEN /\ next_version' = next_version + Len(ks)
                /\ \E P \in Emplace(pendingForAck, ks, next_version) : pendingForAck' = Void(P, removed)
                /\ loose' = loose \cup removed \cup {p.key : p \in {q \in pendingForAck : q.key \in changed}}
           ELSE UNCHANGED <<next_version, pendingForAck, loose>>

Set(e, k, v) == v # map[e][k] /\ Change(e, "put", <<k>>, v)

RemoveKey(e, k) == map[e][k] # Absent /\ Change(e, "remove", <<k>>, Absent)

Clear(e) ==
  LET present == {k \in Keys : map[e][k] # Absent}
  IN  /\ present # {}
      /\ \E ks \in {s \in [1..Cardinality(present) -> present] : IsInjective(s)} :
           Change(e, "remove", ks, Absent)

-----------------------------------------------------------------------------
(* on_wire_received.                                                       *)

\* ACK: what is pending with its version is no longer; an error otherwise.
Acknowledged(m, f) ==
  pendingForAck' = IF f # NotFound /\ f.version = m.version THEN pendingForAck \ {f} ELSE pendingForAck

\* Mutant of Rejected: nothing is.
Rejected_Never(e, m, f) == FALSE

\* A change without a version, of a key that is pending.
Rejected(e, m, f) == e = "master" /\ m.version = 0 /\ f # NotFound

\* Mutant of Reply: an acknowledgement for what is new only.
Reply_New(e, m) ==
  IF m.version > 0 /\ map[e][m.key] # m.value
    THEN <<[op |-> "ack", key |-> m.key, value |-> Absent, version |-> m.version]>> ELSE <<>>

\* A change with a version is acknowledged, whatever it did.
Reply(e, m) ==
  IF m.version > 0
    THEN <<[op |-> "ack", key |-> m.key, value |-> Absent, version |-> m.version]>> ELSE <<>>

OnWireReceived(e) ==
  /\ incoming[e] # <<>>
  /\ LET m == Head(incoming[e]) IN
       \E f \in Find(pendingForAck, m.key) :
         IF m.op = "ack"
           THEN /\ Acknowledged(m, f)
                /\ incoming' = [incoming EXCEPT ![e] = Tail(@)]
                /\ UNCHANGED map
           ELSE /\ map' = IF Rejected(e, m, f) THEN map ELSE [map EXCEPT ![e][m.key] = m.value]
                /\ incoming' = [incoming EXCEPT ![e] = Tail(@), ![Other(e)] = @ \o Reply(e, m)]
                /\ pendingForAck' =
                     IF e = "master" /\ m.op = "remove" /\ ~Rejected(e, m, f)
                       THEN Void(pendingForAck, {m.key}) ELSE pendingForAck
  /\ UNCHANGED <<next_version, changes, loose>>

Next ==
  \E e \in End :
    \/ \E k \in Keys, v \in Values : Set(e, k, v)
    \/ \E k \in Keys : RemoveKey(e, k)
    \/ Clear(e)
    \/ OnWireReceived(e)

Spec == Init /\ [][Next]_vars

\* What was sent arrives and is handled.
FairSpec == Spec /\ \A e \in End : WF_vars(OnWireReceived(e))

-----------------------------------------------------------------------------
(* Properties.                                                             *)

\* Types of all variables.
TypeOK ==
  /\ map \in [End -> [Keys -> Values \cup {Absent}]]
  /\ next_version \in Nat /\ pendingForAck \subseteq Pending
  /\ incoming \in [End -> Seq(Messages)]
  /\ changes \in 0..MaxChanges /\ loose \subseteq Keys

Quiet == \A e \in End : incoming[e] = <<>>

\* Whenever nothing is on its way the ends have the same entry for a key,
\* whatever crossed on the wire; except for keys the master removed or changed
\* again before an answer, whose place in pendingForAck is not that of the last
\* change.
Agreement == Quiet => \A k \in Keys \ loose : map["master"][k] = map["slave"][k]

\* The master waits for an answer to exactly what is not answered: a key is
\* pending with its version while that change or its acknowledgement is on its
\* way, and no longer.  So no key stays closed to the other end.
PendingExact ==
  \A k \in Keys \ loose, n \in 1..next_version :
    [key |-> k, version |-> n, live |-> TRUE] \in pendingForAck <=>
      \E e \in End : \E i \in 1..Len(incoming[e]) :
        incoming[e][i].key = k /\ incoming[e][i].version = n

\* While a change of the master's is on its way it stays what the master has:
\* the slave does not overrule what it has not seen.
LastWord ==
  \A i \in 1..Len(incoming["slave"]) :
    LET m == incoming["slave"][i]
    IN  m.version > 0 /\ m.key \notin loose => map["master"][m.key] = m.value

\* The books the two ends keep of versions and pending changes (init and
\* on_wire_received) are right: of the types the code gives them, exact, and
\* the master has the last word.
Bookkeeping == TypeOK /\ PendingExact /\ LastWord

\* Once the ends stop changing it they come to agree for good.
Convergence == <>[](\A k \in Keys \ loose : map["master"][k] = map["slave"][k])

=============================================================================
