------------------------ MODULE RdPropertyCallProofs ------------------------
(***************************************************************************)
(* The proofs about two entities of a model (rd_framework): a property at  *)
(* its two ends, and a call with its tasks.                                *)
(***************************************************************************)
EXTENDS RdProperty, RdCall, TLAPS

-----------------------------------------------------------------------------
(***************************************************************************)
(* The safety of RdProperty for any values and any number of changes.      *)
(* Agreement is not inductive: it says nothing while messages are on their *)
(* way.  The inductive invariant says which of them will decide: as long   *)
(* as the master's last change has not arrived it will, and everything the *)
(* slave says is rejected; after that the slave's last answer to that      *)
(* change will, and there is nothing to decide without one.                *)
(***************************************************************************)
\* What the slave is yet to hear of it does not know, and hears in order.
NewsInOrder ==
  /\ \A i \in 1..Len(incoming.slave) :
       /\ master_version.slave < incoming.slave[i].version
       /\ incoming.slave[i].version <= master_version.master
  /\ \A i, j \in 1..Len(incoming.slave) :
       i < j => incoming.slave[i].version < incoming.slave[j].version

\* A slave with nothing to hear knows the last change.
UpToDate == incoming.slave = <<>> => master_version.slave = master_version.master

\* The slave's answers are in order, too.
AnswersInOrder ==
  \A i, j \in 1..Len(incoming.master) :
    i <= j => incoming.master[i].version <= incoming.master[j].version

\* The last message to the master is an answer to its last change.
Answered ==
  /\ incoming.master # <<>>
  /\ incoming.master[Len(incoming.master)].version = master_version.master

\* When the slave has heard everything its last answer decides, if there is one.
AnswerDecides ==
  incoming.slave = <<>> =>
    IF Answered THEN incoming.master[Len(incoming.master)].value = value.slave
                ELSE value.slave = value.master

PropertyInv ==
  /\ PropertyTypeOK /\ KnowsNoMore /\ LastWord
  /\ NewsInOrder /\ UpToDate /\ AnswersInOrder /\ AnswerDecides

-----------------------------------------------------------------------------
(* Sequences of messages.                                                  *)

LEMMA ElementFacts ==
  ASSUME NEW q \in Seq(Messages)
  PROVE  /\ Len(q) \in Nat /\ (q = <<>> <=> Len(q) = 0)
         /\ \A i \in 1..Len(q) : q[i] \in Messages /\ q[i].version \in Nat /\ q[i].value \in Values
<1>1. \A m \in Messages : m.version \in Nat /\ m.value \in Values
  BY DEF Messages
<1> QED BY <1>1

LEMMA AppendFacts ==
  ASSUME NEW q \in Seq(Messages), NEW x \in Messages
  PROVE  /\ Append(q, x) \in Seq(Messages) /\ Len(Append(q, x)) = Len(q) + 1
         /\ Append(q, x) # <<>>
         /\ Append(q, x)[Len(q) + 1] = x
         /\ \A i \in 1..Len(q) : Append(q, x)[i] = q[i]
  OBVIOUS

LEMMA TailFacts ==
  ASSUME NEW q \in Seq(Messages), q # <<>>
  PROVE  /\ Len(q) \in Nat \ {0} /\ Head(q) = q[1] /\ q[1] \in Messages
         /\ Tail(q) \in Seq(Messages) /\ Len(Tail(q)) = Len(q) - 1
         /\ \A i \in 1..Len(Tail(q)) : Tail(q)[i] = q[i + 1]
         /\ (Tail(q) = <<>> <=> Len(q) = 1)
<1>1. /\ Len(q) \in Nat \ {0} /\ Head(q) = q[1] /\ q[1] \in Messages
      /\ Tail(q) \in Seq(Messages) /\ Len(Tail(q)) = Len(q) - 1
      /\ \A i \in 1..Len(Tail(q)) : Tail(q)[i] = q[i + 1]
  OBVIOUS
<1>2. Tail(q) = <<>> <=> Len(Tail(q)) = 0
  BY <1>1, ElementFacts
<1> QED BY <1>1, <1>2

-----------------------------------------------------------------------------
LEMMA InitPropertyInv == PropertyInit => PropertyInv
  BY PropertyAssumption
     DEF PropertyInit, PropertyInv, PropertyTypeOK, KnowsNoMore, LastWord, NewsInOrder, UpToDate, AnswersInOrder,
         AnswerDecides, Answered

-----------------------------------------------------------------------------
(* A change at the master: it is the last word, and not answered.          *)

LEMMA SetMasterPropertyInv == ASSUME PropertyInv, Set("master") PROVE PropertyInv'
<1> DEFINE V == master_version.master
           q == incoming.slave
<1>1. PICK v \in Values :
        /\ value' = [value EXCEPT !.master = v]
        /\ master_version' = [master_version EXCEPT !.master = V + 1]
        /\ incoming' = [incoming EXCEPT !.slave = Append(q, [version |-> V + 1, value |-> v])]
        /\ sets' = sets + 1 /\ sets < MaxSets
  BY DEF Set, NewVersion, Other
<1> DEFINE m == [version |-> V + 1, value |-> v]
<1>2. /\ V \in Nat /\ master_version.slave \in Nat /\ q \in Seq(Messages)
      /\ incoming.master \in Seq(Messages) /\ sets \in 0..MaxSets
      /\ value.master \in Values /\ value.slave \in Values
  BY DEF PropertyInv, PropertyTypeOK
<1>3. m \in Messages /\ m.version = V + 1 /\ m.value = v
  BY <1>2 DEF Messages
<1>4. /\ value'.master = v /\ value'.slave = value.slave
      /\ master_version'.master = V + 1 /\ master_version'.slave = master_version.slave
      /\ incoming'.slave = Append(q, m) /\ incoming'.master = incoming.master
  BY <1>1 DEF PropertyInv, PropertyTypeOK
<1>5. /\ Append(q, m) \in Seq(Messages) /\ Len(Append(q, m)) = Len(q) + 1
      /\ Append(q, m) # <<>> /\ Append(q, m)[Len(q) + 1] = m
      /\ \A i \in 1..Len(q) : Append(q, m)[i] = q[i]
  BY <1>2, <1>3, AppendFacts
<1>6. PropertyTypeOK'
  <2>1. incoming' = [master |-> incoming.master,
                     slave |-> Append(q, m)]
    BY <1>1 DEF PropertyInv, PropertyTypeOK
  <2>2. incoming' \in [master : Seq(Messages), slave : Seq(Messages)]
    BY <1>2, <1>5, <2>1
  <2>3. value' \in [master : Values, slave : Values]
    BY <1>1 DEF PropertyInv, PropertyTypeOK
  <2>4. master_version' \in [master : Nat, slave : Nat]
    <3>1. master_version \in [master : Nat, slave : Nat] /\ V + 1 \in Nat
      BY <1>2 DEF PropertyInv, PropertyTypeOK
    <3>2. master_version' = [master_version EXCEPT !.master = V + 1]
      BY <1>1
    <3> DEFINE n == V + 1
    <3> HIDE DEF n
    <3>3. n \in Nat /\ master_version' = [master_version EXCEPT !.master = n]
      BY <3>1, <3>2 DEF n
    <3> QED BY <3>1, <3>3
  <2>5. sets' \in 0..MaxSets
    BY <1>1, <1>2, PropertyAssumption
  <2> QED BY <2>2, <2>3, <2>4, <2>5 DEF PropertyTypeOK
<1>7. Len(q) \in Nat /\ \A i \in 1..Len(q) : q[i].version \in Nat
  BY <1>2, ElementFacts
<1>8. KnowsNoMore'
  <2>1. master_version.slave <= V + 1
    BY <1>2 DEF PropertyInv, KnowsNoMore
  <2> QED BY <1>4, <2>1 DEF PropertyInv, KnowsNoMore
<1>9. LastWord'
  BY <1>4, <1>5, <1>7 DEF LastWord
<1>10. NewsInOrder'
  <2> HIDE DEF m
  <2>1. \A i \in 1..Len(q) : master_version.slave < q[i].version /\ q[i].version <= V
    BY DEF PropertyInv, NewsInOrder
  <2>2. ASSUME NEW i \in 1..Len(Append(q, m))
        PROVE  /\ master_version.slave < Append(q, m)[i].version
               /\ Append(q, m)[i].version <= V + 1
    <3>1. CASE i = Len(q) + 1
      <4>1. master_version.slave <= V
        BY DEF PropertyInv, KnowsNoMore
      <4> QED BY <1>2, <1>3, <1>5, <3>1, <4>1
    <3>2. CASE i \in 1..Len(q)
      BY <1>2, <1>5, <1>7, <2>1, <3>2
    <3> QED BY <1>5, <1>7, <3>1, <3>2
  <2>3. ASSUME NEW i \in 1..Len(Append(q, m)), NEW j \in 1..Len(Append(q, m)), i < j
        PROVE  Append(q, m)[i].version < Append(q, m)[j].version
    <3>1. i \in 1..Len(q)
      BY <1>5, <1>7, <2>3
    <3>2. CASE j = Len(q) + 1
      BY <1>2, <1>3, <1>5, <1>7, <2>1, <3>1, <3>2
    <3>3. CASE j \in 1..Len(q)
      <4>1. q[i].version < q[j].version
        BY <2>3, <3>1, <3>3 DEF PropertyInv, NewsInOrder
      <4> QED BY <1>5, <3>1, <3>3, <4>1
    <3> QED BY <1>5, <1>7, <3>2, <3>3
  <2> QED BY <1>4, <2>2, <2>3 DEF NewsInOrder
<1>11. UpToDate' /\ AnswerDecides'
  BY <1>4, <1>5 DEF UpToDate, AnswerDecides
<1>12. AnswersInOrder'
  BY <1>4 DEF PropertyInv, AnswersInOrder
<1> QED BY <1>6, <1>8, <1>9, <1>10, <1>11, <1>12 DEF PropertyInv

-----------------------------------------------------------------------------
(* A change at the slave: it is an answer to the last change it knows.     *)

LEMMA SetSlavePropertyInv == ASSUME PropertyInv, Set("slave") PROVE PropertyInv'
<1> DEFINE n == master_version.slave
           q == incoming.master
<1>1. PICK v \in Values :
        /\ value' = [value EXCEPT !.slave = v]
        /\ master_version' = [master_version EXCEPT !.slave = n]
        /\ incoming' = [incoming EXCEPT !.master = Append(q, [version |-> n, value |-> v])]
        /\ sets' = sets + 1 /\ sets < MaxSets
  BY DEF Set, NewVersion, Other
<1> DEFINE m == [version |-> n, value |-> v]
<1>2. /\ n \in Nat /\ master_version.master \in Nat /\ q \in Seq(Messages)
      /\ incoming.slave \in Seq(Messages) /\ sets \in 0..MaxSets
      /\ value.master \in Values /\ value.slave \in Values
  BY DEF PropertyInv, PropertyTypeOK
<1>3. m \in Messages /\ m.version = n /\ m.value = v
  BY <1>2 DEF Messages
<1>4. /\ value'.slave = v /\ value'.master = value.master
      /\ master_version'.slave = n /\ master_version'.master = master_version.master
      /\ incoming'.master = Append(q, m) /\ incoming'.slave = incoming.slave
  BY <1>1 DEF PropertyInv, PropertyTypeOK
<1>5. /\ Append(q, m) \in Seq(Messages) /\ Len(Append(q, m)) = Len(q) + 1
      /\ Append(q, m) # <<>> /\ Append(q, m)[Len(q) + 1] = m
      /\ \A i \in 1..Len(q) : Append(q, m)[i] = q[i]
  BY <1>2, <1>3, AppendFacts
<1>6. PropertyTypeOK'
  <2>1. incoming' = [master |-> Append(q, m),
                     slave |-> incoming.slave]
    BY <1>1 DEF PropertyInv, PropertyTypeOK
  <2>2. incoming' \in [master : Seq(Messages), slave : Seq(Messages)]
    BY <1>2, <1>5, <2>1
  <2>3. value' \in [master : Values, slave : Values]
    BY <1>1 DEF PropertyInv, PropertyTypeOK
  <2>4. master_version' \in [master : Nat, slave : Nat]
    BY <1>1, <1>2 DEF PropertyInv, PropertyTypeOK
  <2>5. sets' \in 0..MaxSets
    BY <1>1, <1>2, PropertyAssumption
  <2> QED BY <2>2, <2>3, <2>4, <2>5 DEF PropertyTypeOK
<1>7. Len(q) \in Nat /\ \A i \in 1..Len(q) : q[i].version \in Nat
  BY <1>2, ElementFacts
<1>8. \A i \in 1..Len(q) : q[i].version <= n
  BY DEF PropertyInv, KnowsNoMore
<1> HIDE DEF m
<1>9. KnowsNoMore'
  <2>1. ASSUME NEW i \in 1..Len(Append(q, m)) PROVE Append(q, m)[i].version <= n
    <3>1. CASE i = Len(q) + 1
      BY <1>2, <1>3, <1>5, <3>1
    <3>2. CASE i \in 1..Len(q)
      BY <1>5, <1>8, <3>2
    <3> QED BY <1>5, <1>7, <3>1, <3>2
  <2>2. n <= master_version.master
    BY DEF PropertyInv, KnowsNoMore
  <2> QED BY <1>4, <2>1, <2>2 DEF KnowsNoMore
<1>10. LastWord' /\ NewsInOrder' /\ UpToDate'
  BY <1>4 DEF PropertyInv, LastWord, NewsInOrder, UpToDate
<1>11. AnswersInOrder'
  <2>1. ASSUME NEW i \in 1..Len(Append(q, m)), NEW j \in 1..Len(Append(q, m)), i <= j
        PROVE  Append(q, m)[i].version <= Append(q, m)[j].version
    <3>1. CASE i = Len(q) + 1
      <4>1. j = i
        BY <1>5, <1>7, <2>1, <3>1
      <4> QED BY <1>2, <1>3, <1>5, <3>1, <4>1
    <3>2. CASE i \in 1..Len(q) /\ j = Len(q) + 1
      BY <1>3, <1>5, <1>8, <3>2
    <3>3. CASE i \in 1..Len(q) /\ j \in 1..Len(q)
      <4>1. q[i].version <= q[j].version
        BY <2>1, <3>3 DEF PropertyInv, AnswersInOrder
      <4> QED BY <1>5, <3>3, <4>1
    <3> QED BY <1>5, <1>7, <3>1, <3>2, <3>3
  <2> QED BY <1>4, <2>1 DEF AnswersInOrder
<1>12. AnswerDecides'
  <2>1. CASE incoming.slave = <<>>
    <3>1. n = master_version.master
      BY <2>1 DEF PropertyInv, UpToDate
    <3> QED BY <1>3, <1>4, <1>5, <3>1 DEF AnswerDecides, Answered
  <2>2. CASE incoming.slave # <<>>
    BY <1>4, <2>2 DEF AnswerDecides
  <2> QED BY <2>1, <2>2
<1> QED BY <1>6, <1>9, <1>10, <1>11, <1>12 DEF PropertyInv
-----------------------------------------------------------------------------
(* The slave hears of a change.                                            *)

LEMMA SlaveReceivesPropertyInv == ASSUME PropertyInv, OnWireReceived("slave") PROVE PropertyInv'
<1> DEFINE q == incoming.slave
           m == q[1]
           V == master_version.master
<1>1. /\ V \in Nat /\ master_version.slave \in Nat /\ q \in Seq(Messages) /\ q # <<>>
      /\ incoming.master \in Seq(Messages) /\ sets \in 0..MaxSets
      /\ value.master \in Values /\ value.slave \in Values
  BY DEF PropertyInv, PropertyTypeOK, OnWireReceived
<1>2. /\ Len(q) \in Nat \ {0} /\ Head(q) = m /\ m \in Messages
      /\ Tail(q) \in Seq(Messages) /\ Len(Tail(q)) = Len(q) - 1
      /\ \A i \in 1..Len(Tail(q)) : Tail(q)[i] = q[i + 1]
      /\ (Tail(q) = <<>> <=> Len(q) = 1)
  BY <1>1, TailFacts
<1>3. m.version \in Nat /\ m.value \in Values
  BY <1>2 DEF Messages
<1>4. /\ value' = [value EXCEPT !.slave = m.value]
      /\ master_version' = [master_version EXCEPT !.slave = m.version]
      /\ incoming' = [incoming EXCEPT !.slave = Tail(q)]
      /\ sets' = sets
  BY <1>2 DEF OnWireReceived, Rejected, Adopt
<1>5. /\ value' = [master |-> value.master, slave |-> m.value]
      /\ master_version' = [master |-> V, slave |-> m.version]
      /\ incoming' = [master |-> incoming.master, slave |-> Tail(q)]
  BY <1>4 DEF PropertyInv, PropertyTypeOK
<1>6. /\ value'.slave = m.value /\ value'.master = value.master
      /\ master_version'.slave = m.version /\ master_version'.master = V
      /\ incoming'.slave = Tail(q) /\ incoming'.master = incoming.master
  BY <1>5
<1>7. PropertyTypeOK'
  BY <1>1, <1>2, <1>3, <1>4, <1>5 DEF PropertyTypeOK
<1>8. \A i \in 1..Len(q) : q[i].version \in Nat
  BY <1>1, ElementFacts
<1>9. master_version.slave < m.version /\ m.version <= V
  BY <1>2 DEF PropertyInv, NewsInOrder
<1>10. \A i \in 1..Len(incoming.master) :
         incoming.master[i].version \in Nat /\ incoming.master[i].version <= master_version.slave
  BY <1>1, ElementFacts DEF PropertyInv, KnowsNoMore
<1>11. q[Len(q)] = [version |-> V, value |-> value.master]
  BY <1>1 DEF PropertyInv, LastWord
<1> HIDE DEF m
<1>12. KnowsNoMore'
  <2>1. \A i \in 1..Len(incoming.master) : incoming.master[i].version <= m.version
    BY <1>1, <1>3, <1>9, <1>10
  <2> QED BY <1>6, <1>9, <2>1 DEF KnowsNoMore
<1>13. LastWord'
  <2>1. ASSUME Tail(q) # <<>> PROVE Tail(q)[Len(Tail(q))] = q[Len(q)]
    BY <1>2, <2>1
  <2> QED BY <1>6, <1>11, <2>1 DEF LastWord
<1>14. NewsInOrder'
  <2>1. ASSUME NEW i \in 1..Len(Tail(q))
        PROVE  /\ m.version < Tail(q)[i].version
               /\ Tail(q)[i].version <= V
    <3>1. 1 \in 1..Len(q) /\ i + 1 \in 1..Len(q) /\ 1 < i + 1
      BY <1>2
    <3>2. q[1].version < q[i + 1].version /\ q[i + 1].version <= V
      BY <3>1 DEF PropertyInv, NewsInOrder
    <3> QED BY <1>2, <3>2 DEF m
  <2>2. ASSUME NEW i \in 1..Len(Tail(q)), NEW j \in 1..Len(Tail(q)), i < j
        PROVE  Tail(q)[i].version < Tail(q)[j].version
    <3>1. i + 1 \in 1..Len(q) /\ j + 1 \in 1..Len(q) /\ i + 1 < j + 1
      BY <1>2, <2>2
    <3>2. q[i + 1].version < q[j + 1].version
      BY <3>1 DEF PropertyInv, NewsInOrder
    <3> QED BY <1>2, <3>2
  <2> QED BY <1>6, <2>1, <2>2 DEF NewsInOrder
<1>15. ASSUME Tail(q) = <<>> PROVE m = [version |-> V, value |-> value.master]
  BY <1>2, <1>11, <1>15 DEF m
<1>16. UpToDate'
  <2>1. ASSUME Tail(q) = <<>> PROVE m.version = V
    BY <1>15, <2>1
  <2> QED BY <1>6, <2>1 DEF UpToDate
<1>17. AnswersInOrder'
  BY <1>6 DEF PropertyInv, AnswersInOrder
<1>18. AnswerDecides'
  <2>1. ASSUME incoming.master # <<>>
        PROVE  incoming.master[Len(incoming.master)].version # V
    <3>1. Len(incoming.master) \in 1..Len(incoming.master)
      BY <1>1, <2>1, ElementFacts
    <3> QED BY <1>1, <1>3, <1>9, <1>10, <3>1
  <2>2. ~ Answered'
    BY <1>6, <2>1 DEF Answered
  <2>3. ASSUME Tail(q) = <<>> PROVE m.value = value.master
    BY <1>15, <2>3
  <2> QED BY <1>6, <2>2, <2>3 DEF AnswerDecides
<1> QED BY <1>7, <1>12, <1>13, <1>14, <1>16, <1>17, <1>18 DEF PropertyInv

-----------------------------------------------------------------------------
(* The master hears of a change: unless it is an answer to its last one it *)
(* is rejected.                                                            *)

LEMMA MasterReceivesPropertyInv == ASSUME PropertyInv, OnWireReceived("master") PROVE PropertyInv'
<1> DEFINE q == incoming.master
           m == q[1]
           V == master_version.master
<1>1. /\ V \in Nat /\ master_version.slave \in Nat /\ q \in Seq(Messages) /\ q # <<>>
      /\ incoming.slave \in Seq(Messages) /\ sets \in 0..MaxSets
      /\ value.master \in Values /\ value.slave \in Values
  BY DEF PropertyInv, PropertyTypeOK, OnWireReceived
<1>2. /\ Len(q) \in Nat \ {0} /\ Head(q) = m /\ m \in Messages
      /\ Tail(q) \in Seq(Messages) /\ Len(Tail(q)) = Len(q) - 1
      /\ \A i \in 1..Len(Tail(q)) : Tail(q)[i] = q[i + 1]
      /\ (Tail(q) = <<>> <=> Len(q) = 1)
  BY <1>1, TailFacts
<1>3. m.version \in Nat /\ m.value \in Values
  BY <1>2 DEF Messages
<1>4. m.version <= master_version.slave /\ master_version.slave <= V
  BY <1>2 DEF PropertyInv, KnowsNoMore
<1> DEFINE kept == IF m.version = V THEN m.value ELSE value.master
<1>5. /\ value' = [value EXCEPT !.master = kept]
      /\ master_version' = master_version
      /\ incoming' = [incoming EXCEPT !.master = Tail(q)]
      /\ sets' = sets
  <2>1. /\ incoming' = [incoming EXCEPT !.master = Tail(q)]
        /\ sets' = sets
    BY DEF OnWireReceived
  <2>2. CASE m.version < V
    <3>1. value' = value /\ master_version' = master_version
      BY <1>2, <2>2 DEF OnWireReceived, Rejected
    <3>2. kept = value.master
      BY <1>1, <1>3, <2>2
    <3>3. value = [value EXCEPT !.master = value.master]
      BY DEF PropertyInv, PropertyTypeOK
    <3> QED BY <2>1, <3>1, <3>2, <3>3
  <2>3. CASE m.version = V
    <3>1. ~ Rejected("master", m.version)
      BY <1>1, <2>3 DEF Rejected
    <3>2. /\ master_version' = [master_version EXCEPT !.master = V]
          /\ value' = [value EXCEPT !.master = m.value]
      BY <1>2, <2>3, <3>1 DEF OnWireReceived, Adopt
    <3>3. master_version = [master_version EXCEPT !.master = V]
      BY DEF PropertyInv, PropertyTypeOK
    <3> QED BY <2>1, <2>3, <3>2, <3>3
  <2> QED BY <1>1, <1>3, <1>4, <2>2, <2>3
<1>6. kept \in Values
  BY <1>1, <1>3
<1> HIDE DEF kept
<1>7. /\ value' = [master |-> kept, slave |-> value.slave]
      /\ incoming' = [master |-> Tail(q), slave |-> incoming.slave]
  BY <1>5 DEF PropertyInv, PropertyTypeOK
<1>8. /\ value'.master = kept /\ value'.slave = value.slave
      /\ incoming'.master = Tail(q) /\ incoming'.slave = incoming.slave
  BY <1>7
<1>9. PropertyTypeOK'
  <2>1. master_version \in [master : Nat, slave : Nat]
    BY DEF PropertyInv, PropertyTypeOK
  <2> QED BY <1>1, <1>2, <1>5, <1>6, <1>7, <2>1 DEF PropertyTypeOK
<1> HIDE DEF m
<1>10. ASSUME incoming.slave # <<>> PROVE kept = value.master
  <2>1. 1 \in 1..Len(incoming.slave)
    BY <1>1, <1>10, ElementFacts
  <2>2. /\ master_version.slave < incoming.slave[1].version /\ incoming.slave[1].version <= V
        /\ incoming.slave[1].version \in Nat
    BY <1>1, <2>1, ElementFacts DEF PropertyInv, NewsInOrder
  <2>3. m.version # V
    BY <1>1, <1>3, <1>4, <2>2
  <2> QED BY <2>3 DEF kept
<1>11. KnowsNoMore'
  <2>1. ASSUME NEW i \in 1..Len(Tail(q)) PROVE Tail(q)[i].version <= master_version.slave
    <3>1. i + 1 \in 1..Len(q)
      BY <1>2
    <3> QED BY <1>2, <3>1 DEF PropertyInv, KnowsNoMore
  <2> QED BY <1>4, <1>5, <1>8, <2>1 DEF KnowsNoMore
<1>12. LastWord' /\ NewsInOrder' /\ UpToDate'
  BY <1>5, <1>8, <1>10 DEF PropertyInv, LastWord, NewsInOrder, UpToDate
<1>13. AnswersInOrder'
  <2>1. ASSUME NEW i \in 1..Len(Tail(q)), NEW j \in 1..Len(Tail(q)), i <= j
        PROVE  Tail(q)[i].version <= Tail(q)[j].version
    <3>1. i + 1 \in 1..Len(q) /\ j + 1 \in 1..Len(q) /\ i + 1 <= j + 1
      BY <1>2, <2>1
    <3>2. q[i + 1].version <= q[j + 1].version
      BY <3>1 DEF PropertyInv, AnswersInOrder
    <3> QED BY <1>2, <3>2
  <2> QED BY <1>8, <2>1 DEF AnswersInOrder
<1>14. ASSUME incoming.slave = <<>>
       PROVE  IF Answered' THEN Tail(q)[Len(Tail(q))].value = value.slave
                           ELSE value.slave = kept
  <2>1. IF q[Len(q)].version = V THEN q[Len(q)].value = value.slave
                                 ELSE value.slave = value.master
    BY <1>1, <1>14 DEF PropertyInv, AnswerDecides, Answered
  <2>2. CASE Tail(q) = <<>>
    <3>1. q[Len(q)] = m
      BY <1>2, <2>2 DEF m
    <3>2. ~ Answered'
      BY <1>8, <2>2 DEF Answered
    <3> QED BY <2>1, <3>1, <3>2 DEF kept
  <2>3. CASE Tail(q) # <<>>
    <3>1. Tail(q)[Len(Tail(q))] = q[Len(q)]
      BY <1>2, <2>3
    <3>2. Answered' <=> q[Len(q)].version = V
      BY <1>5, <1>8, <2>3, <3>1 DEF Answered
    <3>3. ASSUME q[Len(q)].version # V PROVE kept = value.master
      <4>1. 1 \in 1..Len(q) /\ Len(q) \in 1..Len(q) /\ 1 <= Len(q)
        BY <1>2
      <4>2. m.version <= q[Len(q)].version
        BY <4>1 DEF PropertyInv, AnswersInOrder, m
      <4>3. q[Len(q)].version \in Nat /\ q[Len(q)].version <= master_version.slave
        BY <1>1, <4>1, ElementFacts DEF PropertyInv, KnowsNoMore
      <4>4. m.version # V
        BY <1>1, <1>3, <1>4, <3>3, <4>2, <4>3
      <4> QED BY <4>4 DEF kept
    <3> QED BY <2>1, <3>1, <3>2, <3>3
  <2> QED BY <2>2, <2>3
<1>15. AnswerDecides'
  BY <1>8, <1>14 DEF AnswerDecides
<1> QED BY <1>9, <1>11, <1>12, <1>13, <1>15 DEF PropertyInv

-----------------------------------------------------------------------------
LEMMA StepPropertyInv == PropertyInv /\ [PropertyNext]_propertyVars => PropertyInv'
<1> SUFFICES ASSUME PropertyInv, [PropertyNext]_propertyVars PROVE PropertyInv'
  OBVIOUS
<1>1. CASE Set("master")
  BY <1>1, SetMasterPropertyInv
<1>2. CASE Set("slave")
  BY <1>2, SetSlavePropertyInv
<1>3. CASE OnWireReceived("master")
  BY <1>3, MasterReceivesPropertyInv
<1>4. CASE OnWireReceived("slave")
  BY <1>4, SlaveReceivesPropertyInv
<1>5. CASE UNCHANGED propertyVars
  BY <1>5 DEF propertyVars, PropertyInv, PropertyTypeOK, KnowsNoMore, LastWord, NewsInOrder, UpToDate, AnswersInOrder,
              AnswerDecides, Answered
<1> QED BY <1>1, <1>2, <1>3, <1>4, <1>5 DEF PropertyNext, End

LEMMA Invariance == PropertySpec => []PropertyInv
BY InitPropertyInv, StepPropertyInv, PTL DEF PropertySpec

\* Types: init, set and on_wire_received of RdPropertyBase.
THEOREM PropertyTypeCorrect == PropertySpec => []PropertyTypeOK
<1>1. PropertyInv => PropertyTypeOK
  BY DEF PropertyInv
<1> QED BY Invariance, <1>1, PTL

\* The slave never answers a change the master has not made: the version that
\* set sends is one that on_wire_received got from the master.
THEOREM PropertyKnowsNoMore == PropertySpec => []KnowsNoMore
<1>1. PropertyInv => KnowsNoMore
  BY DEF PropertyInv
<1> QED BY Invariance, <1>1, PTL

\* What the master set last stays its value while it is on its way: whatever
\* the slave sends meanwhile, on_wire_received rejects.
THEOREM PropertyLastWord == PropertySpec => []LastWord
<1>1. PropertyInv => LastWord
  BY DEF PropertyInv
<1> QED BY Invariance, <1>1, PTL

\* However many changes cross on the wire, when all of them have been received
\* both ends hold the same value.
THEOREM PropertyAgreement == PropertySpec => []Agreement
<1>1. PropertyInv => Agreement
  BY DEF PropertyInv, AnswerDecides, Answered, Agreement
<1> QED BY Invariance, <1>1, PTL

-----------------------------------------------------------------------------
(***************************************************************************)
(* The safety of RdCall, for any number of calls and answers.  A result is *)
(* stored in two steps by one of three threads.  That none overwrites      *)
(* another's rests on which tasks a thread sets: the wire those of sync,   *)
(* the scheduler those of start, the terminator any, but after             *)
(* is_terminated.  That a success leaves the call usable rests on a call   *)
(* that is not sent having no answer, and on a task that was let go        *)
(* getting none.  That the first result counts rests on the order the      *)
(* messages of a call keep on their way.                                   *)
(***************************************************************************)
\* Which thread sets which tasks.
SetterOf ==
  /\ \A t \in Threads : setting[t] # None => setting[t].id \in 1..made
  /\ setting["wire"] # None => kind[setting["wire"].id] = "sync"
  /\ setting["scheduler"] # None => kind[setting["scheduler"].id] = "start"
  /\ setting["terminator"] # None => is_terminated
  /\ setting["terminator"].result \in {Empty, Cancelled}
  /\ \A i \in 1..Len(queued) : kind[queued[i].id] = "start"
  /\ ending # <<>> => is_terminated

\* A task is of a call that was made.
Made == \A c \in held : kind[c] \in {"sync", "start"}

\* What a thread is about to store finds the task as it was tested.
StoresIntoEmpty ==
  \A t \in Threads :
    setting[t].result # Empty => result[setting[t].id] = Empty \/ is_terminated

\* A call that is not made has no result, and one that is not sent no answer.
NotMade == \A c \in Ids : c > made => result[c] = Empty

NotSent ==
  step \in {"advised", "add", "send"} =>
    /\ made \in Ids
    /\ \A i \in 1..Len(requests) : requests[i] # made
    /\ made \notin pending
    /\ \A i \in 1..Len(answers) : answers[i].id # made
    /\ \A i \in 1..Len(queued) : queued[i].id # made
    /\ setting["wire"].id # made /\ setting["scheduler"].id # made
    /\ result[made] # Success

\* The task of a sync call that did not succeed is gone.
SyncGone ==
  sync_task_id # 0 =>
    /\ kind[sync_task_id] = "sync"
    /\ \/ step = "wait" /\ sync_task_id = made
       \/ sync_task_id \notin held /\ result[sync_task_id] # Success

IInv == TypeOK /\ Made /\ SetterOf /\ StoresIntoEmpty /\ NotMade /\ NotSent /\ SyncGone

-----------------------------------------------------------------------------
(* Sequences.                                                              *)

LEMMA SeqFacts ==
  ASSUME NEW S, NEW s \in Seq(S)
  PROVE  /\ Len(s) \in Nat /\ \A i \in 1..Len(s) : s[i] \in S
         /\ \A x \in S : /\ Append(s, x) \in Seq(S) /\ Len(Append(s, x)) = Len(s) + 1
                         /\ \A i \in 1..Len(s) : Append(s, x)[i] = s[i]
                         /\ Append(s, x)[Len(s) + 1] = x
         /\ s # <<>> => /\ Head(s) \in S /\ Head(s) = s[1] /\ 1 \in 1..Len(s)
                        /\ Tail(s) \in Seq(S) /\ Len(Tail(s)) = Len(s) - 1
                        /\ \A i \in 1..Len(Tail(s)) : i + 1 \in 1..Len(s) /\ Tail(s)[i] = s[i + 1]
  OBVIOUS

LEMMA AppendType ==
  ASSUME NEW S, NEW s \in Seq(S), NEW x \in S
  PROVE  Append(s, x) \in Seq(S)
  OBVIOUS

LEMMA SeqWider ==
  ASSUME NEW S, NEW T, S \subseteq T, NEW s \in Seq(S)
  PROVE  s \in Seq(T)
  OBVIOUS

LEMMA LastFacts ==
  ASSUME NEW S, NEW s \in Seq(S), s # <<>>
  PROVE  Last(s) \in S /\ Front(s) \in Seq(S)
  BY DEF Last, Front

\* Taking an element out leaves a sequence of the same set.
LEMMA WithoutType ==
  ASSUME NEW S, NEW s \in Seq(S), NEW a
  PROVE  Without(s, a) \in Seq(S)
<1>1. CASE Contains(s, a)
  <2> DEFINE i == CHOOSE i \in 1..Len(s) : s[i] = a
  <2>1. i \in 1..Len(s)
    BY <1>1 DEF Contains
  <2> HIDE DEF i
  <2>2. SubSeq(s, 1, i - 1) \in Seq(S) /\ SubSeq(s, i + 1, Len(s)) \in Seq(S)
    BY <2>1
  <2>3. SubSeq(s, 1, i - 1) \o SubSeq(s, i + 1, Len(s)) \in Seq(S)
    BY <2>2
  <2> QED BY <1>1, <2>3 DEF Without, RemoveAt, i
<1>2. CASE ~Contains(s, a)
  BY <1>2 DEF Without
<1> QED BY <1>1, <1>2

-----------------------------------------------------------------------------
LEMMA CallInit == Init => IInv
<1> SUFFICES ASSUME Init PROVE IInv
  OBVIOUS
<1> USE RdCallAssumption DEF Init, Ids, Empty, Success, Cancelled, Fault, Results, Threads, None, Unbind
<1>a. Unbind \in ActionRecords
  BY DEF ActionRecords
<1>b. \A S : \A x \in S : <<x>> \in Seq(S)
  OBVIOUS
<1>c. actions \in Seq(ActionRecords)
  BY <1>a, <1>b
<1>d. setting \in [Threads -> [id : 0..made, result : Results \cup {Empty}]]
  OBVIOUS
<1>e. \A S : <<>> \in Seq(S)
  OBVIOUS
<1>f. queued \in Seq(AnswerRecords) /\ answers \in Seq(AnswerRecords) /\ ending \in Seq(ActionRecords)
  BY <1>e
<1>g. task \in [Ids -> Seq(Results)] /\ requests \in Seq(1..made)
  BY <1>e
<1>1. TypeOK
  <2>1. made \in 0..MaxCalls /\ kind \in [Ids -> {"none", "sync", "start"}]
        /\ result \in [Ids -> Results \cup {Empty}]
    OBVIOUS
  <2>2. step \in {"idle", "advised", "add", "send", "wait"} /\ sync_task_id \in 0..made
    OBVIOUS
  <2>4. is_terminated \in BOOLEAN /\ endpoint_up \in BOOLEAN /\ reading \in BOOLEAN
    OBVIOUS
  <2>3. held \subseteq 1..made /\ subscriptions \subseteq 1..made /\ pending \subseteq 1..made
    OBVIOUS
  <2> QED
    BY <1>c, <1>d, <1>f, <1>g, <2>1, <2>2, <2>3, <2>4
       DEF TypeOK
<1>2. SetterOf /\ StoresIntoEmpty /\ Made
  BY DEF SetterOf, StoresIntoEmpty, Made
<1>3. NotMade /\ NotSent /\ SyncGone
  BY DEF NotMade, NotSent, SyncGone
<1> QED BY <1>1, <1>2, <1>3 DEF IInv

-----------------------------------------------------------------------------
(* Every step keeps the types.                                             *)

\* The records of a step that makes no call are those before it.
LEMMA SameRecords ==
  ASSUME made' = made
  PROVE  ActionRecords' = ActionRecords /\ AnswerRecords' = AnswerRecords
  BY DEF ActionRecords, AnswerRecords

\* What set_if_empty is about to store is of the right type.
LEMMA SetIfEmptyType ==
  ASSUME TypeOK, NEW t \in Threads, NEW c, NEW r \in Results, SetIfEmpty(t, c, r)
  PROVE  setting' \in [Threads -> [id : 0..made, result : Results \cup {Empty}]]
<1>1. c \in held => Answer(c, r) \in [id : 0..made, result : Results \cup {Empty}]
  BY DEF TypeOK, Answer
<1>2. None \in [id : 0..made, result : Results \cup {Empty}]
  BY DEF TypeOK, None
<1> QED BY <1>1, <1>2 DEF TypeOK, SetIfEmpty

LEMMA ReleaseType ==
  ASSUME TypeOK, NEW c, Release(c)
  PROVE  held' \subseteq held /\ c \notin held' /\ actions' \in Seq(ActionRecords)
  BY WithoutType DEF TypeOK, Release

LEMMA GiveType ==
  ASSUME TypeOK, NEW c \in 1..made, NEW r \in Results, Give(c, r)
  PROVE  task' \in [Ids -> Seq(Results)] /\ answers' \in Seq(AnswerRecords)
<1>1. Answer(c, r) \in AnswerRecords
  BY DEF AnswerRecords, Answer
<1>2. answers' \in Seq(AnswerRecords)
  BY <1>1, SeqFacts DEF TypeOK, Give
<1>3. c \in Ids /\ Append(task[c], r) \in Seq(Results)
  BY RdCallAssumption, SeqFacts DEF TypeOK, Ids
<1> QED BY <1>2, <1>3 DEF TypeOK, Give

LEMMA TypeStep == ASSUME IInv, [Next]_vars PROVE TypeOK'
<1> USE DEF IInv
<1>1. ASSUME NEW k \in {"sync", "start"}, StartInternal(k) PROVE TypeOK'
  <2> USE <1>1 DEF StartInternal
  <2>1. made \in 0..MaxCalls /\ made + 1 \in Ids /\ made' = made + 1
    BY RdCallAssumption DEF TypeOK, Ids
  <2>2. ActionRecords \subseteq ActionRecords' /\ AnswerRecords \subseteq AnswerRecords'
        /\ 1..made \subseteq 1..made' /\ 0..made \subseteq 0..made'
    BY <2>1 DEF ActionRecords, AnswerRecords
  <2>3. queued' \in Seq(AnswerRecords') /\ answers' \in Seq(AnswerRecords')
        /\ actions' \in Seq(ActionRecords') /\ ending' \in Seq(ActionRecords')
        /\ requests' \in Seq(1..made')
    BY <2>2, SeqWider DEF TypeOK, lifetimeVars
  <2>4. [id : 0..made, result : Results \cup {Empty}] \subseteq [id : 0..made', result : Results \cup {Empty}]
    BY <2>2
  <2>5. setting' \in [Threads -> [id : 0..made', result : Results \cup {Empty}]]
    BY <2>4 DEF TypeOK
  <2>6. made' \in 0..MaxCalls /\ sync_task_id' \in 0..made'
    BY <2>1, <2>2 DEF TypeOK, Ids
  <2>9. held' \subseteq 1..made' /\ subscriptions' \subseteq 1..made' /\ pending' \subseteq 1..made'
    <3>1. made + 1 \in 1..made'
      BY <2>1
    <3>2. held \subseteq 1..made /\ subscriptions \subseteq 1..made /\ pending \subseteq 1..made
      BY DEF TypeOK
    <3>3. held' = held \cup {made + 1} /\ pending' = pending
          /\ subscriptions' \subseteq subscriptions \cup {made + 1}
      BY DEF endpointVars
    <3> QED BY <2>2, <3>1, <3>2, <3>3
  <2>7. kind' \in [Ids -> {"none", "sync", "start"}] /\ step' \in {"idle", "advised", "add", "send", "wait"}
    BY <2>1 DEF TypeOK
  <2>8. result' = result /\ task' = task /\ is_terminated' = is_terminated /\ endpoint_up' = endpoint_up
        /\ reading' = reading
    BY DEF lifetimeVars, endpointVars
  <2> QED
    BY <2>3, <2>5, <2>6, <2>7, <2>8, <2>9 DEF TypeOK
<1>2. CASE AddUnsubscribe
  <2> USE <1>2 DEF AddUnsubscribe, AddAction
  <2>1. Unsubscribe(made) \in ActionRecords /\ made' = made
    BY DEF TypeOK, Unsubscribe, ActionRecords
  <2>2. actions' \in Seq(ActionRecords)
    <3>1. actions \in Seq(ActionRecords)
      BY DEF TypeOK
    <3> QED BY <2>1, <3>1, AppendType
  <2> QED
    BY <2>1, <2>2, SameRecords DEF TypeOK, endpointVars
<1>3. CASE AddCancel
  <2> USE <1>3 DEF AddCancel, AddAction
  <2>1. Cancel(made) \in ActionRecords /\ made' = made
    BY DEF TypeOK, Cancel, ActionRecords
  <2>2. actions' \in Seq(ActionRecords)
    <3>1. actions \in Seq(ActionRecords)
      BY DEF TypeOK
    <3> QED BY <2>1, <3>1, AppendType
  <2> QED
    BY <2>1, <2>2, SameRecords DEF TypeOK, endpointVars
<1>4. CASE Refuse
  BY <1>4, SameRecords, ReleaseType DEF TypeOK, Refuse, endpointVars
<1>5. CASE Send
  <2> USE <1>5 DEF Send
  <2>1. made \in 1..made
    BY DEF At, Send, IInv, NotSent, Ids
  <2>2. requests' \in Seq(1..made) /\ actions' \in Seq(ActionRecords) /\ held' \subseteq held /\ made' = made
    <3>1. Append(requests, made) \in Seq(1..made) /\ requests \in Seq(1..made)
      BY <2>1, AppendType DEF TypeOK
    <3>2. actions \in Seq(ActionRecords)
      BY DEF TypeOK
    <3> QED BY <3>1, <3>2, ReleaseType
  <2>3. sync_task_id' \in 0..made /\ step' \in {"idle", "wait"}
    BY <2>1 DEF TypeOK
  <2> QED
    BY <2>2, <2>3, SameRecords DEF TypeOK, endpointVars
<1>6. CASE Succeed
  BY <1>6, SameRecords DEF TypeOK, Succeed, taskVars, lifetimeVars, endpointVars
<1>7. CASE Throw
  BY <1>7, SameRecords, ReleaseType DEF TypeOK, Throw, endpointVars
<1>8. ASSUME NEW c \in Ids, Drop(c) PROVE TypeOK'
  BY <1>8, SameRecords, ReleaseType DEF TypeOK, Drop, callerVars, endpointVars
<1>9. CASE RunQueued
  <2> USE <1>9 DEF RunQueued
  <2>1. made' = made /\ Head(queued) \in AnswerRecords /\ queued' \in Seq(AnswerRecords)
    BY SeqFacts DEF TypeOK, callerVars
  <2>2. Head(queued).result \in Results
    BY <2>1 DEF AnswerRecords
  <2>3. setting' \in [Threads -> [id : 0..made, result : Results \cup {Empty}]]
    BY <2>2, SetIfEmptyType DEF Threads
  <2> QED
    BY <2>1, <2>3, SameRecords DEF TypeOK, callerVars, lifetimeVars, endpointVars
<1>10. ASSUME NEW t \in Threads, Store(t) PROVE TypeOK'
  BY <1>10, SameRecords DEF TypeOK, Store, callerVars, lifetimeVars, endpointVars
<1>11. ASSUME NEW t \in Threads, Fire(t) PROVE TypeOK'
  BY <1>11, SameRecords DEF TypeOK, Fire, None, callerVars, lifetimeVars, endpointVars
<1>12. CASE OnAnswer
  <2> USE <1>12 DEF OnAnswer
  <2> DEFINE m == Head(answers)
  <2>1. made' = made /\ m \in AnswerRecords /\ answers' \in Seq(AnswerRecords)
    BY SeqFacts DEF TypeOK, callerVars
  <2>2. m.result \in Results /\ Answer(Addressee(m), m.result) \in AnswerRecords
    BY <2>1 DEF AnswerRecords, Answer, Addressee
  <2>3. setting' \in [Threads -> [id : 0..made, result : Results \cup {Empty}]]
    BY <2>2, SetIfEmptyType DEF Threads, TypeOK
  <2>4. queued' \in Seq(AnswerRecords)
    <3>1. queued \in Seq(AnswerRecords)
      BY DEF TypeOK
    <3> QED BY <2>2, <3>1, AppendType
  <2>5. reading' \in BOOLEAN
    BY DEF TypeOK
  <2> QED
    BY <2>1, <2>3, <2>4, <2>5, SameRecords DEF TypeOK, callerVars, lifetimeVars, endpointVars
<1>13. CASE Terminate
  BY <1>13, SameRecords DEF TypeOK, Terminate, callerVars, taskVars, endpointVars
<1>14. CASE TakeActions
  BY <1>14, SameRecords DEF TypeOK, TakeActions, callerVars, taskVars, endpointVars
<1>15. CASE RunAction
  <2> USE <1>15 DEF RunAction
  <2>1. made' = made /\ ending' \in Seq(ActionRecords)
    BY LastFacts DEF TypeOK, callerVars
  <2>2. setting' \in [Threads -> [id : 0..made, result : Results \cup {Empty}]]
    BY SetIfEmptyType DEF Threads, TypeOK, Results, Cancelled
  <2>3. subscriptions' \subseteq 1..made
    BY DEF TypeOK
  <2> QED
    BY <2>1, <2>2, <2>3, SameRecords DEF TypeOK, callerVars, endpointVars
<1>16. CASE HandleInPlace
  <2> USE <1>16 DEF HandleInPlace
  <2>1. made' = made /\ Head(requests) \in 1..made /\ requests' \in Seq(1..made)
    BY SeqFacts DEF TypeOK, callerVars
  <2>2. PICK r \in {Success, Fault} : Give(Head(requests), r)
    OBVIOUS
  <2>3. task' \in [Ids -> Seq(Results)] /\ answers' \in Seq(AnswerRecords)
    BY <2>1, <2>2, GiveType DEF Results
  <2> QED
    BY <2>1, <2>3, SameRecords DEF TypeOK, callerVars, taskVars, lifetimeVars
<1>17. CASE HandleLater
  <2> USE <1>17 DEF HandleLater
  <2>1. made' = made /\ Head(requests) \in 1..made /\ requests' \in Seq(1..made)
    BY SeqFacts DEF TypeOK, callerVars
  <2> QED
    BY <2>1, SameRecords DEF TypeOK, callerVars, taskVars, lifetimeVars
<1>18. ASSUME NEW c \in Ids, NEW r \in Later, Complete(c, r) PROVE TypeOK'
  <2> USE <1>18 DEF Complete
  <2>1. made' = made /\ c \in 1..made /\ r \in Results
    BY RdCallAssumption DEF TypeOK, callerVars
  <2>2. task' \in [Ids -> Seq(Results)] /\ answers' \in Seq(AnswerRecords)
    BY <2>1, GiveType DEF TypeOK
  <2>3. endpoint_up' \in BOOLEAN
    BY DEF TypeOK
  <2> QED
    BY <2>1, <2>2, <2>3, SameRecords DEF TypeOK, callerVars, taskVars, lifetimeVars
<1>19. CASE UNCHANGED vars
  BY <1>19, SameRecords DEF TypeOK, vars, callerVars, taskVars, lifetimeVars, endpointVars
<1> QED
  BY <1>1, <1>2, <1>3, <1>4, <1>5, <1>6, <1>7, <1>8, <1>9, <1>10, <1>11, <1>12, <1>13, <1>14, <1>15,
     <1>16, <1>17, <1>18, <1>19 DEF Next, SchedulerThread, WireThread, Terminator, Endpoint, Threads

-----------------------------------------------------------------------------
\* What is on its way is about calls that were made.
LEMMA RecordFacts ==
  ASSUME TypeOK
  PROVE  /\ \A i \in 1..Len(queued) : queued[i].id \in 1..made /\ queued[i].result \in Results
         /\ \A i \in 1..Len(answers) : answers[i].id \in 1..made /\ answers[i].result \in Results
         /\ queued # <<>> => 1 \in 1..Len(queued) /\ Head(queued) = queued[1]
         /\ answers # <<>> => 1 \in 1..Len(answers) /\ Head(answers) = answers[1]
<1>1. queued \in Seq(AnswerRecords) /\ answers \in Seq(AnswerRecords)
  BY DEF TypeOK
<1>2. \A m \in AnswerRecords : m.id \in 1..made /\ m.result \in Results
  BY DEF AnswerRecords
<1> QED BY <1>1, <1>2, SeqFacts

(* Every step keeps the thread a task is set by.                           *)

\* The thread is inside set_if_empty with a task that is there, or is not.
LEMMA SetIfEmptyFacts ==
  ASSUME TypeOK, NEW t \in Threads, NEW c, NEW r, SetIfEmpty(t, c, r)
  PROVE  /\ \A u \in Threads \ {t} : setting'[u] = setting[u]
         /\ \/ setting'[t] = None
            \/ /\ c \in held /\ result[c] = Empty
               /\ setting'[t] # None => setting'[t].id = c /\ setting'[t].result = r
  BY DEF TypeOK, SetIfEmpty, Answer

LEMMA SetterStep == ASSUME IInv, [Next]_vars PROVE SetterOf'
<1> USE DEF IInv
<1>1. CASE UNCHANGED <<setting, made, kind, is_terminated, queued, ending>>
  BY <1>1 DEF SetterOf
<1>2. ASSUME NEW k \in {"sync", "start"}, StartInternal(k) PROVE SetterOf'
  <2>1. made + 1 \in Ids /\ made' = made + 1 /\ \A c \in 1..made : c \in 1..made' /\ kind'[c] = kind[c]
    BY <1>2, RdCallAssumption DEF StartInternal, TypeOK, Ids
  <2>2. \A i \in 1..Len(queued) : queued[i].id \in 1..made
    BY RecordFacts
  <2>3. UNCHANGED <<setting, queued, is_terminated, ending>>
    BY <1>2 DEF StartInternal, lifetimeVars
  <2> QED BY <2>1, <2>2, <2>3 DEF SetterOf, Threads
<1>3. CASE RunQueued
  <2> USE <1>3 DEF RunQueued
  <2> DEFINE c == Head(queued).id
  <2>1. c \in 1..made /\ kind[c] = "start"
    BY RecordFacts DEF SetterOf
  <2>2. UNCHANGED <<made, kind, is_terminated, ending>>
    BY DEF callerVars, lifetimeVars
  <2>3. \A i \in 1..Len(queued') : kind[queued'[i].id] = "start"
    BY SeqFacts DEF TypeOK, SetterOf
  <2>4. \/ setting'["scheduler"] = None
        \/ setting'["scheduler"].id = c
    BY SetIfEmptyFacts DEF Threads
  <2>5. setting'["wire"] = setting["wire"] /\ setting'["terminator"] = setting["terminator"]
    BY SetIfEmptyFacts DEF Threads
  <2> QED BY <2>1, <2>2, <2>3, <2>4, <2>5 DEF SetterOf, Threads
<1>4. ASSUME NEW t \in Threads, Store(t) PROVE SetterOf'
  <2>1. setting[t] # None
    BY <1>4 DEF Store, None
  <2>2. \A u \in Threads : setting'[u].id = setting[u].id /\ (u # t => setting'[u] = setting[u])
    BY <1>4 DEF Store, TypeOK
  <2>3. setting'[t].result = Empty
    BY <1>4 DEF Store, TypeOK
  <2>4. UNCHANGED <<made, kind, is_terminated, ending, queued>>
    BY <1>4 DEF Store, callerVars, lifetimeVars
  <2> QED BY <2>1, <2>2, <2>3, <2>4 DEF SetterOf, Threads
<1>5. ASSUME NEW t \in Threads, Fire(t) PROVE SetterOf'
  <2>1. \A u \in Threads : setting'[u] = None \/ setting'[u] = setting[u]
    BY <1>5 DEF Fire, TypeOK
  <2>2. UNCHANGED <<made, kind, is_terminated, ending, queued>>
    BY <1>5 DEF Fire, callerVars, lifetimeVars
  <2> QED BY <2>1, <2>2 DEF SetterOf, Threads, None
<1>6. CASE OnAnswer
  <2> USE <1>6 DEF OnAnswer, Addressee
  <2> DEFINE m == Head(answers)
  <2>1. m.id \in 1..made /\ m.result \in Results
    BY RecordFacts
  <2>2. UNCHANGED <<made, kind, is_terminated, ending>>
    BY DEF callerVars, lifetimeVars
  <2>3. CASE UNCHANGED <<setting, queued>>
    BY <2>2, <2>3 DEF SetterOf
  <2>4. CASE kind[m.id] = "sync" /\ SetIfEmpty("wire", m.id, m.result) /\ UNCHANGED queued
    <3>1. setting'["wire"] = None \/ setting'["wire"].id = m.id
      BY <2>4, SetIfEmptyFacts DEF Threads
    <3>2. setting'["scheduler"] = setting["scheduler"] /\ setting'["terminator"] = setting["terminator"]
      BY <2>4, SetIfEmptyFacts DEF Threads
    <3> QED BY <2>1, <2>2, <2>4, <3>1, <3>2 DEF SetterOf, Threads
  <2>5. CASE kind[m.id] # "sync" /\ m.id \in held /\ queued' = Append(queued, Answer(m.id, m.result))
             /\ UNCHANGED setting
    <3>1. kind[m.id] = "start"
      BY <2>5 DEF Made
    <3>2. Answer(m.id, m.result) \in AnswerRecords /\ Answer(m.id, m.result).id = m.id
      BY <2>1 DEF AnswerRecords, Answer
    <3>3. \A i \in 1..Len(queued') : queued'[i].id = m.id \/ (i \in 1..Len(queued) /\ queued'[i] = queued[i])
      <4>1. queued \in Seq(AnswerRecords)
        BY DEF TypeOK
      <4> QED BY <2>5, <3>2, <4>1, SeqFacts
    <3> QED BY <2>2, <2>5, <3>1, <3>3 DEF SetterOf
  <2> QED BY <2>3, <2>4, <2>5
<1>7. CASE Terminate
  <2>1. UNCHANGED <<setting, made, kind, queued, ending>> /\ is_terminated'
    BY <1>7 DEF Terminate, callerVars, taskVars
  <2> QED BY <2>1 DEF SetterOf
<1>8. CASE TakeActions
  <2>1. UNCHANGED <<setting, made, kind, queued, is_terminated>> /\ is_terminated
    BY <1>8 DEF TakeActions, callerVars, taskVars
  <2> QED BY <2>1 DEF SetterOf
<1>9. CASE RunAction
  <2> USE <1>9 DEF RunAction
  <2>1. UNCHANGED <<made, kind, queued, is_terminated>> /\ is_terminated
    BY DEF callerVars, SetterOf
  <2>2. \/ UNCHANGED setting
        \/ SetIfEmpty("terminator", Last(ending).id, Cancelled)
    OBVIOUS
  <2>3. setting'["wire"] = setting["wire"] /\ setting'["scheduler"] = setting["scheduler"]
    BY <2>2, SetIfEmptyFacts DEF Threads
  <2>4. \/ setting'["terminator"] = None \/ setting'["terminator"] = setting["terminator"]
        \/ /\ Last(ending).id \in held
           /\ setting'["terminator"].id = Last(ending).id /\ setting'["terminator"].result = Cancelled
    BY <2>2, SetIfEmptyFacts DEF Threads
  <2>5. held \subseteq 1..made
    BY DEF TypeOK
  <2>6. setting'["terminator"].result \in {Empty, Cancelled}
        /\ (setting'["terminator"] # None => setting'["terminator"].id \in 1..made)
    BY <2>4, <2>5 DEF SetterOf, None
  <2> QED BY <2>1, <2>3, <2>6 DEF SetterOf, Threads
<1> QED
  BY <1>1, <1>2, <1>3, <1>4, <1>5, <1>6, <1>7, <1>8, <1>9
     DEF Next, SchedulerThread, WireThread, Terminator, Endpoint, Threads, AddUnsubscribe, AddCancel,
         Refuse, Send, Succeed, Throw, Drop, HandleInPlace, HandleLater, Complete, vars, callerVars,
         taskVars, lifetimeVars, endpointVars

-----------------------------------------------------------------------------
(* Every step keeps what is there about tasks and results.                 *)

\* Only StartInternal makes a task.
LEMMA HeldShrinks ==
  ASSUME IInv, [Next]_vars
  PROVE  \/ held' \subseteq held /\ made' = made /\ kind' = kind
         \/ \E k \in {"sync", "start"} : StartInternal(k)
<1> USE DEF IInv
<1>1. CASE Refuse \/ Send \/ Throw \/ \E c \in Ids : Drop(c)
  <2>1. UNCHANGED <<made, kind>>
    BY <1>1 DEF Refuse, Send, Throw, Drop, callerVars
  <2>2. held' = held \/ \E c \in Ids \cup {made} : Release(c)
    BY <1>1 DEF Refuse, Send, Throw, Drop
  <2> QED BY <2>1, <2>2, ReleaseType
<1> QED
  BY <1>1 DEF Next, SchedulerThread, WireThread, Terminator, Endpoint, Threads, AddUnsubscribe, AddCancel,
         AddAction, Succeed, RunQueued, Store, Fire, OnAnswer, Terminate, TakeActions, RunAction,
         HandleInPlace, HandleLater, Complete, vars, callerVars, taskVars, lifetimeVars, endpointVars

LEMMA MadeStep == ASSUME IInv, [Next]_vars PROVE Made'
<1> USE DEF IInv
<1>1. ASSUME NEW k \in {"sync", "start"}, StartInternal(k) PROVE Made'
  <2>1. made + 1 \in Ids /\ \A c \in held : c # made + 1 /\ c \in Ids
    BY <1>1, RdCallAssumption DEF StartInternal, TypeOK, Ids
  <2> QED BY <1>1, <2>1 DEF StartInternal, Made, TypeOK
<1> QED BY <1>1, HeldShrinks DEF Made

\* A step changes results only by storing what a thread is inside of.
LEMMA ResultChange ==
  ASSUME IInv, [Next]_vars, result' # result
  PROVE  \E t \in Threads :
           /\ Store(t)
           /\ setting[t].id \in held /\ setting[t].id \in Ids
           /\ result' = [result EXCEPT ![setting[t].id] = setting[t].result]
<1> USE DEF IInv
<1>1. \E t \in Threads : Store(t)
  BY DEF Next, SchedulerThread, WireThread, Terminator, Endpoint, Threads, StartInternal, AddUnsubscribe,
         AddCancel, Refuse, Send, Succeed, Throw, Drop, RunQueued, Fire, OnAnswer, Terminate, TakeActions,
         RunAction, HandleInPlace, HandleLater, Complete, vars, callerVars, taskVars, lifetimeVars,
         endpointVars
<1>2. PICK t \in Threads : Store(t)
  BY <1>1
<1>3. setting[t].id \in held /\ result' = [result EXCEPT ![setting[t].id] = setting[t].result]
  BY <1>2 DEF Store
<1>4. setting[t].id \in Ids
  BY <1>3, RdCallAssumption DEF TypeOK, Ids
<1> QED BY <1>2, <1>3, <1>4

\* Two threads that are inside set_if_empty with one task: the lifetime is over.
LEMMA OneSetter ==
  ASSUME IInv, NEW t \in Threads, NEW u \in Threads, t # u,
         setting[t] # None, setting[u] # None, setting[t].id = setting[u].id
  PROVE  is_terminated
  BY DEF IInv, SetterOf, Threads

\* is_terminated is final.
LEMMA TerminatedStays ==
  ASSUME IInv, [Next]_vars, is_terminated PROVE is_terminated'
  BY DEF Next, SchedulerThread, WireThread, Terminator, Endpoint, StartInternal, AddUnsubscribe,
         AddCancel, Refuse, Send, Succeed, Throw, Drop, RunQueued, Store, Fire, OnAnswer, Terminate,
         TakeActions, RunAction, HandleInPlace, HandleLater, Complete, vars, callerVars, taskVars,
         lifetimeVars, endpointVars

\* A step lets a thread into set_if_empty with a task that has no result.
LEMMA SettingChange ==
  ASSUME IInv, [Next]_vars, NEW t \in Threads, setting'[t].result # Empty
  PROVE  \/ setting'[t] = setting[t]
         \/ result[setting'[t].id] = Empty /\ result' = result /\ setting'[t].id \in held
<1> USE DEF IInv
<1>1. CASE UNCHANGED setting
  BY <1>1
<1>2. ASSUME NEW u \in Threads, Store(u) PROVE setting'[t] = setting[t]
  <2>1. setting' = [setting EXCEPT ![u].result = Empty]
    BY <1>2 DEF Store
  <2> QED BY <2>1 DEF TypeOK
<1>3. ASSUME NEW u \in Threads, Fire(u) PROVE setting'[t] = setting[t]
  <2>1. setting' = [setting EXCEPT ![u] = None]
    BY <1>3 DEF Fire
  <2> QED BY <2>1 DEF TypeOK, None
<1>4. ASSUME NEW u \in Threads, NEW c, NEW r, SetIfEmpty(u, c, r), result' = result
      PROVE  \/ setting'[t] = setting[t]
             \/ result[setting'[t].id] = Empty /\ result' = result /\ setting'[t].id \in held
  <2>1. None.result = Empty
    BY DEF None
  <2> QED BY <1>4, <2>1, SetIfEmptyFacts
<1> QED
  BY <1>1, <1>2, <1>3, <1>4 DEF Next, SchedulerThread, WireThread, Terminator, Endpoint, Threads, StartInternal,
         AddUnsubscribe, AddCancel, Refuse, Send, Succeed, Throw, Drop, RunQueued, OnAnswer, Terminate,
         TakeActions, RunAction, HandleInPlace, HandleLater, Complete, vars, callerVars, taskVars,
         lifetimeVars, endpointVars

LEMMA StoresStep == ASSUME IInv, [Next]_vars PROVE StoresIntoEmpty'
<1> USE DEF IInv
<1> SUFFICES ASSUME NEW t \in Threads, setting'[t].result # Empty, ~is_terminated'
             PROVE  result'[setting'[t].id] = Empty
  BY DEF StoresIntoEmpty
<1>0. ~is_terminated
  BY TerminatedStays
<1>1. CASE setting'[t] = setting[t]
  <2>1. setting[t] # None
    BY <1>1 DEF None
  <2>3. result[setting[t].id] = Empty
    BY <1>0, <1>1 DEF StoresIntoEmpty
  <2>4. CASE result' # result
    <3>1. PICK u \in Threads : /\ Store(u)
                               /\ setting[u].id \in held /\ setting[u].id \in Ids
                               /\ result' = [result EXCEPT ![setting[u].id] = setting[u].result]
      BY <2>4, ResultChange
    <3>2. setting[u] # None /\ setting'[u].result = Empty
      BY <3>1 DEF Store, None, TypeOK
    <3>3. u # t
      BY <3>2
    <3>4. setting[u].id # setting[t].id
      BY <1>0, <2>1, <3>2, <3>3, OneSetter
    <3> QED BY <1>1, <2>3, <3>1, <3>4 DEF TypeOK
  <2> QED BY <1>1, <2>3, <2>4
<1>2. CASE result[setting'[t].id] = Empty /\ result' = result
  BY <1>2
<1> QED BY <1>1, <1>2, SettingChange

LEMMA NotMadeStep == ASSUME IInv, [Next]_vars PROVE NotMade'
<1> USE DEF IInv
<1>0. made' >= made /\ made \in Nat /\ made' \in Nat
  BY HeldShrinks, RdCallAssumption DEF TypeOK, StartInternal
<1>1. CASE result' # result
  <2>1. PICK u \in Threads : setting[u].id \in held /\ result' = [result EXCEPT ![setting[u].id] = setting[u].result]
    BY <1>1, ResultChange
  <2>2. setting[u].id \in 1..made
    BY <2>1 DEF TypeOK
  <2> QED BY <1>0, <2>1, <2>2 DEF NotMade, TypeOK, Ids
<1> QED BY <1>0, <1>1 DEF NotMade, Ids

-----------------------------------------------------------------------------
(* Every step keeps that a call that is not sent has no answer.            *)

LEMMA RequestFacts ==
  ASSUME TypeOK
  PROVE  /\ \A i \in 1..Len(requests) : requests[i] \in 1..made
         /\ requests # <<>> => /\ 1 \in 1..Len(requests) /\ Head(requests) = requests[1]
                               /\ \A i \in 1..Len(Tail(requests)) :
                                    i + 1 \in 1..Len(requests) /\ Tail(requests)[i] = requests[i + 1]
  BY SeqFacts DEF TypeOK

\* Where an answer is added.
LEMMA GiveFacts ==
  ASSUME TypeOK, NEW c \in 1..made, NEW r \in Results, Give(c, r)
  PROVE  \A i \in 1..Len(answers') : answers'[i].id = c \/ (i \in 1..Len(answers) /\ answers'[i] = answers[i])
<1>1. Answer(c, r) \in AnswerRecords /\ Answer(c, r).id = c /\ answers \in Seq(AnswerRecords)
  BY DEF AnswerRecords, Answer, TypeOK
<1> QED BY <1>1, SeqFacts DEF Give

LEMMA NotSentStep == ASSUME IInv, [Next]_vars PROVE NotSent'
<1> USE DEF IInv
<1> SUFFICES ASSUME step' \in {"advised", "add", "send"} PROVE NotSent'
  BY DEF NotSent
<1>1. ASSUME NEW k \in {"sync", "start"}, StartInternal(k) PROVE NotSent'
  <2>1. made \in Nat /\ made' = made + 1 /\ made' \in Ids
    BY <1>1, RdCallAssumption DEF StartInternal, TypeOK, Ids
  <2>2. UNCHANGED <<requests, pending, answers, queued, setting, result>>
    BY <1>1 DEF StartInternal, endpointVars
  <2>3. setting["wire"].id \in 0..made /\ setting["scheduler"].id \in 0..made /\ pending \subseteq 1..made
    BY DEF TypeOK, Threads
  <2>4. result[made'] # Success
    BY <2>1 DEF NotMade, Ids, Success, Empty
  <2> QED BY <2>1, <2>2, <2>3, <2>4, RecordFacts, RequestFacts DEF NotSent
<1>2. ASSUME step \in {"advised", "add", "send"}, made' = made PROVE NotSent'
  <2> USE <1>2
  <2>0. made \in 1..made /\ made \in Ids
    BY RdCallAssumption DEF NotSent, TypeOK, Ids
  <2>1. CASE UNCHANGED <<requests, pending, answers, queued, setting, result>>
    BY <2>1 DEF NotSent
  <2>2. CASE HandleInPlace
    <3> USE <2>2 DEF HandleInPlace
    <3>1. PICK r \in {Success, Fault} : Give(Head(requests), r)
      OBVIOUS
    <3>2. UNCHANGED <<pending, queued, setting, result>> /\ requests' = Tail(requests)
      BY DEF taskVars
    <3>3. Head(requests) # made /\ Head(requests) \in 1..made
      BY RequestFacts DEF NotSent
    <3>4. \A i \in 1..Len(answers') : answers'[i].id # made
      BY <3>1, <3>3, GiveFacts DEF NotSent, Results
    <3> QED BY <3>2, <3>4, RequestFacts DEF NotSent
  <2>3. CASE HandleLater
    <3> USE <2>3 DEF HandleLater
    <3>1. UNCHANGED <<answers, queued, setting, result>> /\ requests' = Tail(requests)
          /\ pending' = pending \cup {Head(requests)}
      BY DEF taskVars
    <3> QED BY <3>1, RequestFacts DEF NotSent
  <2>4. ASSUME NEW c \in Ids, NEW r \in Later, Complete(c, r) PROVE NotSent'
    <3> USE <2>4 DEF Complete
    <3>1. UNCHANGED <<requests, pending, queued, setting, result>>
      BY DEF taskVars
    <3>2. c # made /\ c \in 1..made /\ r \in Results
      BY RdCallAssumption DEF NotSent, TypeOK
    <3>3. \A i \in 1..Len(answers') : answers'[i].id # made
      BY <3>2, GiveFacts DEF NotSent
    <3> QED BY <3>1, <3>3 DEF NotSent
  <2>5. CASE OnAnswer
    <3> USE <2>5 DEF OnAnswer, Addressee
    <3> DEFINE m == Head(answers)
    <3>1. m.id # made /\ m.id \in 1..made /\ m.result \in Results
      BY RecordFacts DEF NotSent
    <3>2. UNCHANGED <<requests, pending, result>>
      BY DEF endpointVars
    <3>3. \A i \in 1..Len(answers') : answers'[i].id # made
      BY SeqFacts DEF NotSent, TypeOK
    <3>4. \A i \in 1..Len(queued') : queued'[i].id # made
      <4>1. queued \in Seq(AnswerRecords) /\ Answer(m.id, m.result) \in AnswerRecords
            /\ Answer(m.id, m.result).id # made
        BY <3>1 DEF TypeOK, Answer, AnswerRecords
      <4>2. \A i \in 1..Len(queued) : queued[i].id # made
        BY DEF NotSent
      <4> DEFINE x == Answer(m.id, m.result)
                 more == Append(queued, x)
      <4>3. queued' = queued \/ queued' = more
        OBVIOUS
      <4> HIDE DEF x
      <4>4. Len(queued) \in Nat /\ Len(more) = Len(queued) + 1 /\ more[Len(queued) + 1] = x
            /\ \A i \in 1..Len(queued) : more[i] = queued[i]
        BY <4>1, SeqFacts DEF x
      <4>5. x.id # made
        BY <4>1 DEF x
      <4> HIDE DEF more
      <4>6. \A i \in 1..Len(more) : more[i].id # made
        <5>1. \A i \in 1..Len(more) : i \in 1..Len(queued) \/ i = Len(queued) + 1
          BY <4>4
        <5> QED BY <4>2, <4>4, <4>5, <5>1
      <4> QED BY <4>2, <4>3, <4>6
    <3>5. setting'["wire"].id # made /\ setting'["scheduler"].id # made
      <4>1. CASE UNCHANGED setting
        BY <4>1 DEF NotSent
      <4>2. CASE SetIfEmpty("wire", m.id, m.result)
        BY <2>0, <3>1, <4>2, SetIfEmptyFacts DEF NotSent, Threads, None
      <4> QED BY <4>1, <4>2
    <3> QED BY <3>2, <3>3, <3>4, <3>5 DEF NotSent
  <2>6. ASSUME NEW t \in Threads, Store(t) PROVE NotSent'
    <3>1. UNCHANGED <<requests, pending, answers, queued>> /\ \A u \in Threads : setting'[u].id = setting[u].id
      BY <2>6 DEF Store, endpointVars, TypeOK
    <3>2. result'[made] # Success
      <4>1. CASE setting[t].id = made
        <5>1. t = "terminator"
          BY <4>1 DEF NotSent, Threads
        <5>2. setting[t].result # Success
          BY <5>1 DEF SetterOf, Success, Empty, Cancelled
        <5> QED BY <2>6, <4>1, <5>2 DEF Store, NotSent, TypeOK
      <4>2. CASE setting[t].id # made
        BY <2>6, <4>2 DEF Store, NotSent, TypeOK
      <4> QED BY <4>1, <4>2
    <3> QED BY <3>1, <3>2 DEF NotSent, Threads
  <2>7. ASSUME NEW t \in Threads, Fire(t) PROVE NotSent'
    <3>1. UNCHANGED <<requests, pending, answers, queued, result>>
          /\ \A u \in Threads : setting'[u].id = setting[u].id \/ setting'[u].id = 0
      BY <2>7 DEF Fire, endpointVars, TypeOK, None
    <3> QED BY <2>0, <3>1 DEF NotSent, Threads
  <2>8. CASE RunAction
    <3>1. UNCHANGED <<requests, pending, answers, queued, result>>
      BY <2>8 DEF RunAction, endpointVars
    <3>2. setting'["wire"] = setting["wire"] /\ setting'["scheduler"] = setting["scheduler"]
      BY <2>8, SetIfEmptyFacts DEF RunAction, Threads
    <3> QED BY <3>1, <3>2 DEF NotSent
  <2>9. ~RunQueued /\ ~Send
    BY DEF RunQueued, Send, At
  <2> QED
    BY <2>1, <2>2, <2>3, <2>4, <2>5, <2>6, <2>7, <2>8, <2>9
       DEF Next, SchedulerThread, WireThread, Terminator, Endpoint, Threads, StartInternal, AddUnsubscribe,
           AddCancel, Refuse, Succeed, Throw, Drop, Terminate, TakeActions, vars, callerVars,
           taskVars, lifetimeVars, endpointVars
<1>3. ASSUME made' = made PROVE step \in {"advised", "add", "send"}
  BY <1>3 DEF Next, SchedulerThread, WireThread, Terminator, Endpoint, Threads, StartInternal, AddUnsubscribe,
       AddCancel, Refuse, Send, Succeed, Throw, Drop, RunQueued, Store, Fire, OnAnswer, Terminate,
       TakeActions, RunAction, HandleInPlace, HandleLater, Complete, vars, callerVars, At, TypeOK,
       RdCallAssumption
<1> QED BY <1>1, <1>2, <1>3, HeldShrinks

-----------------------------------------------------------------------------
(* Every step keeps that the task of an unsuccessful sync is gone.         *)

\* The result of a task that was let go does not change.
LEMMA GoneKeepsResult ==
  ASSUME IInv, [Next]_vars, NEW c \in Ids, c \notin held
  PROVE  result'[c] = result[c]
<1>1. CASE result' # result
  <2>1. PICK u \in Threads : setting[u].id \in held /\ result' = [result EXCEPT ![setting[u].id] = setting[u].result]
    BY <1>1, ResultChange
  <2> QED BY <2>1 DEF IInv, TypeOK
<1> QED BY <1>1

\* Until the call is sent, or while nobody changes it, sync_task_id stays.
LEMMA SyncStep == ASSUME IInv, [Next]_vars PROVE SyncGone'
<1> USE DEF IInv
<1>1. ASSUME UNCHANGED <<sync_task_id, step, made>>, held' \subseteq held, kind' = kind PROVE SyncGone'
  <2> SUFFICES ASSUME sync_task_id # 0 PROVE SyncGone'
    BY <1>1 DEF SyncGone
  <2>1. sync_task_id \in Ids
    BY RdCallAssumption DEF TypeOK, Ids
  <2> QED BY <1>1, <2>1, GoneKeepsResult DEF SyncGone
<1>2. ASSUME UNCHANGED <<sync_task_id, result>>, step # "wait", kind'[sync_task_id] = kind[sync_task_id],
             sync_task_id # 0 => sync_task_id \notin held'
      PROVE  SyncGone'
  BY <1>2 DEF SyncGone
<1>3. ASSUME NEW k \in {"sync", "start"}, StartInternal(k) PROVE SyncGone'
  <2>1. UNCHANGED <<sync_task_id, result>> /\ step # "wait" /\ held' = held \cup {made + 1}
        /\ kind' = [kind EXCEPT ![made + 1] = k]
    BY <1>3 DEF StartInternal, At
  <2>2. sync_task_id # made + 1 /\ (sync_task_id # 0 => sync_task_id \notin held)
    BY <2>1, RdCallAssumption DEF SyncGone, TypeOK
  <2> QED BY <2>1, <2>2 DEF SyncGone, TypeOK
<1>4. CASE AddUnsubscribe \/ AddCancel
  <2>1. UNCHANGED <<sync_task_id, result, kind>> /\ step # "wait" /\ held' \subseteq held
    BY <1>4 DEF AddUnsubscribe, AddCancel, AddAction, At
  <2> QED BY <1>2, <2>1 DEF SyncGone
<1>5. CASE Refuse
  <2>1. UNCHANGED <<sync_task_id, result, kind>> /\ step # "wait" /\ held' \subseteq held
    BY <1>5, ReleaseType DEF Refuse, At
  <2> QED BY <1>2, <2>1 DEF SyncGone
<1>6. CASE Send
  <2>1. UNCHANGED <<result, kind, made>> /\ step = "send" /\ made \in Ids
    BY <1>6 DEF Send, At, NotSent
  <2>2. CASE kind[made] # "sync"
    <3>1. sync_task_id' = sync_task_id /\ held' \subseteq held
      BY <1>6, <2>2, ReleaseType DEF Send
    <3> QED BY <1>2, <2>1, <3>1 DEF SyncGone
  <2>3. CASE kind[made] = "sync"
    <3>1. sync_task_id' = made
      BY <1>6, <2>3 DEF Send
    <3>2. step' = "wait" \/ made \notin held'
      BY <1>6, <2>3, ReleaseType DEF Send
    <3>3. result'[made] # Success
      BY <2>1 DEF NotSent
    <3> QED BY <2>1, <2>3, <3>1, <3>2, <3>3 DEF SyncGone
  <2> QED BY <2>2, <2>3
<1>7. CASE Succeed
  BY <1>7 DEF Succeed, SyncGone
<1>8. CASE Throw
  <2>1. UNCHANGED <<sync_task_id, result, kind, made>> /\ made \notin held' /\ held' \subseteq held
        /\ result[made] # Success
    BY <1>8, ReleaseType DEF Throw
  <2> QED BY <2>1 DEF SyncGone
<1>9. CASE UNCHANGED <<sync_task_id, step, made>>
  <2>1. ~\E k \in {"sync", "start"} : StartInternal(k)
    BY <1>9, RdCallAssumption DEF StartInternal, TypeOK
  <2> QED BY <1>1, <1>9, <2>1, HeldShrinks
<1> QED
  BY <1>3, <1>4, <1>5, <1>6, <1>7, <1>8, <1>9
     DEF Next, SchedulerThread, WireThread, Terminator, Endpoint, Drop, RunQueued, Store, Fire, OnAnswer,
         Terminate, TakeActions, RunAction, HandleInPlace, HandleLater, Complete, vars, callerVars

-----------------------------------------------------------------------------
LEMMA AlwaysIInv == Spec => []IInv
<1>1. IInv /\ [Next]_vars => IInv'
  BY TypeStep, MadeStep, SetterStep, StoresStep, NotMadeStep, NotSentStep, SyncStep DEF IInv
<1> QED BY <1>1, CallInit, PTL DEF Spec

\* Calls, tasks and messages are always of their types.
THEOREM CallTypeCorrect == Spec => []TypeOK
BY AlwaysIInv, PTL DEF IInv

\* A success leaves the call usable: sync is refused only while a sync call is
\* waiting or after one that did not succeed.
THEOREM CallRefuses == Spec => []RefusesOnlyAfterFailure
<1>1. IInv => RefusesOnlyAfterFailure
  BY DEF IInv, SyncGone, RefusesOnlyAfterFailure
<1> QED BY <1>1, AlwaysIInv, PTL

-----------------------------------------------------------------------------
(* Which result a task gets.  Messages about a call keep their order from  *)
(* the endpoint's task to the broker and from there through the queue, so  *)
(* that the first one a task that waits can be given is the first of all.  *)

\* Messages s about the call c: there are some, the first of them has the
\* result r, there are not two.
About(s, c) == \E i \in 1..Len(s) : s[i].id = c
FirstIs(s, c, r) == \A i \in 1..Len(s) : s[i].id = c => s[i].result = r \/ \E j \in 1..(i - 1) : s[j].id = c
NotTwo(s, c) == \A i, j \in 1..Len(s) : s[i].id = c /\ s[j].id = c => i = j

\* The threads that store answers.
Storing(c) == \E t \in {"wire", "scheduler"} : setting[t].result # Empty /\ setting[t].id = c
Waits(c) == c \in held /\ result[c] = Empty /\ ~Storing(c)

\* The endpoint knows only what was sent, and what was not answered has no message.
NotAsked(c) == c > made \/ (c = made /\ step \in {"advised", "add", "send"}) => task[c] = <<>>
NoAnswer(c) == task[c] = <<>> => ~About(queued, c) /\ ~About(answers, c) /\ ~Storing(c)

\* The next result of a task that waits is the first its request was given.
StoresFirst(c) ==
  \A t \in {"wire", "scheduler"} :
    setting[t].result # Empty /\ setting[t].id = c => task[c] # <<>> /\ setting[t].result = Head(task[c])
InOrder(c) ==
  Waits(c) =>
    /\ FirstIs(queued, c, Head(task[c]))
    /\ c \in subscriptions /\ ~About(queued, c) =>
         FirstIs(answers, c, Head(task[c])) /\ (About(answers, c) \/ task[c] = <<>>)

\* The message of a request that was given one result is in one place.
OnePlace(c) ==
  Len(task[c]) = 1 =>
    /\ NotTwo(answers, c) /\ NotTwo(queued, c) /\ ~(About(answers, c) /\ About(queued, c))
    /\ Storing(c) \/ (result[c] # Empty /\ ~is_terminated) => ~About(answers, c) /\ ~About(queued, c)

FirstCounts(c) ==
  \/ result[c] = Empty
  \/ result[c] = Cancelled /\ is_terminated
  \/ task[c] # <<>> /\ result[c] = Head(task[c])

Course(c) ==
  NotAsked(c) /\ NoAnswer(c) /\ StoresFirst(c) /\ InOrder(c) /\ OnePlace(c) /\ FirstCounts(c)
RInv == \A c \in Ids : Course(c)

\* Messages without their head, and with one more.
LEMMA TailMessages ==
  ASSUME NEW R, NEW s \in Seq(R), s # <<>>, NEW c, NEW r
  PROVE  /\ Head(s).id # c =>
              /\ About(Tail(s), c) <=> About(s, c)
              /\ FirstIs(s, c, r) => FirstIs(Tail(s), c, r)
         /\ Head(s).id = c =>
              /\ About(s, c)
              /\ FirstIs(s, c, r) => Head(s).result = r
              /\ NotTwo(s, c) => ~About(Tail(s), c)
         /\ NotTwo(s, c) => NotTwo(Tail(s), c)
<1> DEFINE t == Tail(s)
<1>1. /\ t \in Seq(R) /\ Len(s) \in Nat /\ Len(s) > 0 /\ Len(t) = Len(s) - 1 /\ Head(s) = s[1]
      /\ \A i \in 1..Len(t) : i + 1 \in 1..Len(s) /\ t[i] = s[i + 1]
  BY SeqFacts
<1> HIDE DEF t
<1>2. \A i \in 1..Len(s) : i = 1 \/ (i - 1 \in 1..Len(t) /\ s[i] = t[i - 1])
  <2> TAKE i \in 1..Len(s)
  <2>1. i = 1 \/ i - 1 \in 1..Len(t)
    BY <1>1
  <2>2. i - 1 + 1 = i
    BY <1>1
  <2> QED BY <1>1, <2>1, <2>2
<1>3. ASSUME Head(s).id # c PROVE About(t, c) <=> About(s, c)
  BY <1>1, <1>2, <1>3 DEF About
<1>4. ASSUME Head(s).id # c, FirstIs(s, c, r) PROVE FirstIs(t, c, r)
  <2> SUFFICES ASSUME NEW i \in 1..Len(t), t[i].id = c, t[i].result # r
               PROVE  \E j \in 1..(i - 1) : t[j].id = c
    BY DEF FirstIs
  <2>1. PICK j \in 1..(i + 1 - 1) : s[j].id = c
    BY <1>1, <1>4 DEF FirstIs
  <2>2. j # 1 /\ j \in 1..Len(s)
    BY <1>1, <1>4, <2>1
  <2>3. j - 1 \in 1..(i - 1) /\ t[j - 1] = s[j]
    BY <1>1, <1>2, <2>1, <2>2
  <2> QED BY <2>1, <2>3
<1>5. ASSUME Head(s).id = c
      PROVE  About(s, c) /\ (FirstIs(s, c, r) => Head(s).result = r) /\ (NotTwo(s, c) => ~About(t, c))
  <2>1. 1 \in 1..Len(s) /\ s[1].id = c
    BY <1>1, <1>5
  <2>2. ASSUME NotTwo(s, c), NEW i \in 1..Len(t), t[i].id = c PROVE FALSE
    <3>1. i + 1 \in 1..Len(s) /\ s[i + 1].id = c /\ i + 1 # 1
      BY <1>1, <2>2
    <3> QED BY <2>1, <2>2, <3>1 DEF NotTwo
  <2>3. FirstIs(s, c, r) => Head(s).result = r
    BY <1>1, <2>1 DEF FirstIs
  <2> QED BY <2>1, <2>2, <2>3 DEF About
<1>6. ASSUME NotTwo(s, c) PROVE NotTwo(t, c)
  <2> SUFFICES ASSUME NEW i \in 1..Len(t), NEW j \in 1..Len(t), t[i].id = c, t[j].id = c PROVE i = j
    BY DEF NotTwo
  <2>1. i + 1 \in 1..Len(s) /\ j + 1 \in 1..Len(s) /\ s[i + 1].id = c /\ s[j + 1].id = c
    BY <1>1
  <2>2. i + 1 = j + 1
    BY <1>6, <2>1 DEF NotTwo
  <2> QED BY <1>1, <2>2
<1> QED BY <1>3, <1>4, <1>5, <1>6 DEF t

LEMMA AppendMessages ==
  ASSUME NEW R, NEW s \in Seq(R), NEW m \in R, NEW c, NEW r
  PROVE  /\ m.id # c =>
              /\ About(Append(s, m), c) <=> About(s, c)
              /\ NotTwo(s, c) => NotTwo(Append(s, m), c)
         /\ m.id = c =>
              /\ About(Append(s, m), c)
              /\ ~About(s, c) => NotTwo(Append(s, m), c)
         /\ FirstIs(s, c, r) /\ (m.id = c => About(s, c) \/ m.result = r) => FirstIs(Append(s, m), c, r)
<1> DEFINE t == Append(s, m)
<1>1. /\ Len(s) \in Nat /\ Len(t) = Len(s) + 1 /\ t[Len(s) + 1] = m
      /\ \A i \in 1..Len(s) : t[i] = s[i]
  BY SeqFacts
<1> HIDE DEF t
<1>2. \A i \in 1..Len(t) : (i = Len(s) + 1 /\ t[i] = m) \/ (i \in 1..Len(s) /\ t[i] = s[i])
  BY <1>1
<1>3. Len(s) + 1 \in 1..Len(t) /\ \A i \in 1..Len(s) : i \in 1..Len(t)
  BY <1>1
<1>4. m.id # c => (About(t, c) <=> About(s, c)) /\ (NotTwo(s, c) => NotTwo(t, c))
  <2>1. m.id # c => (About(t, c) <=> About(s, c))
    BY <1>1, <1>2, <1>3 DEF About
  <2>2. m.id # c => (NotTwo(s, c) => NotTwo(t, c))
    BY <1>1, <1>2, <1>3 DEF NotTwo
  <2> QED BY <2>1, <2>2
<1>5. m.id = c => About(t, c) /\ (~About(s, c) => NotTwo(t, c))
  <2>1. m.id = c => About(t, c)
    BY <1>1, <1>3 DEF About
  <2>2. m.id = c /\ ~About(s, c) => NotTwo(t, c)
    BY <1>1, <1>2, <1>3 DEF About, NotTwo
  <2> QED BY <2>1, <2>2
<1>6. ASSUME FirstIs(s, c, r), m.id = c => About(s, c) \/ m.result = r PROVE FirstIs(t, c, r)
  <2> SUFFICES ASSUME NEW i \in 1..Len(t), t[i].id = c, t[i].result # r
               PROVE  \E j \in 1..(i - 1) : t[j].id = c
    BY DEF FirstIs
  <2>1. CASE i \in 1..Len(s)
    <3>1. PICK j \in 1..(i - 1) : s[j].id = c
      BY <1>1, <1>6, <2>1 DEF FirstIs
    <3>2. j \in 1..Len(s)
      BY <1>1, <2>1, <3>1
    <3> QED BY <1>1, <3>1, <3>2
  <2>2. CASE i = Len(s) + 1
    <3>1. PICK j \in 1..Len(s) : s[j].id = c
      BY <1>1, <1>6, <2>2 DEF About
    <3>2. j \in 1..(i - 1)
      BY <1>1, <2>2
    <3> QED BY <1>1, <3>1, <3>2
  <2> QED BY <1>2, <2>1, <2>2
<1> QED BY <1>4, <1>5, <1>6 DEF t

LEMMA NoMessages ==
  ASSUME NEW s, NEW c, NEW r, ~About(s, c) PROVE FirstIs(s, c, r) /\ NotTwo(s, c)
  BY DEF About, FirstIs, NotTwo

-----------------------------------------------------------------------------
(* Every step keeps the course of every call.                              *)

LEMMA AskedStays ==
  ASSUME IInv, [Next]_vars, made' = made, step' \in {"advised", "add", "send"}
  PROVE  step \in {"advised", "add", "send"}
  BY DEF Next, SchedulerThread, WireThread, Terminator, Endpoint, StartInternal, AddUnsubscribe,
       AddCancel, AddAction, Refuse, Send, Succeed, Throw, Drop, RunQueued, Store, Fire, OnAnswer, Terminate,
       TakeActions, RunAction, HandleInPlace, HandleLater, Complete, vars, callerVars, At, IInv, TypeOK

\* Where no message, task of the endpoint or result changes.
LEMMA CourseSame ==
  ASSUME NEW c \in Ids, Course(c), NotAsked(c)', UNCHANGED <<task, queued, answers, setting, result>>,
         is_terminated => is_terminated',
         c \in held' => c \in held \/ task[c] = <<>>,
         c \in subscriptions' => c \in subscriptions \/ task[c] = <<>>
  PROVE  Course(c)'
<1>1. NoAnswer(c)' /\ StoresFirst(c)' /\ OnePlace(c)' /\ FirstCounts(c)'
  BY DEF Course, NoAnswer, StoresFirst, OnePlace, FirstCounts, Storing
<1>2. CASE task[c] = <<>>
  BY <1>1, <1>2, NoMessages DEF Course, NoAnswer, InOrder
<1>3. CASE task[c] # <<>>
  <2>1. Waits(c)' => Waits(c)
    BY <1>3 DEF Waits, Storing
  <2> QED BY <1>1, <1>3, <2>1 DEF Course, InOrder
<1> QED BY <1>2, <1>3

\* Where the task of request d at the endpoint is given a result.
LEMMA CourseGive ==
  ASSUME IInv, NEW d \in Ids, NEW r \in Results, Give(d, r), d \in 1..made,
         step \in {"advised", "add", "send"} => d # made,
         UNCHANGED <<made, step, queued, setting, result, held, subscriptions, is_terminated>>,
         NEW c \in Ids, Course(c)
  PROVE  Course(c)'
<1> DEFINE m == Answer(d, r)
<1>1. /\ answers \in Seq(AnswerRecords) /\ m \in AnswerRecords /\ m.id = d /\ m.result = r
      /\ answers' = Append(answers, m)
  BY DEF IInv, TypeOK, Give, Answer, AnswerRecords
<1>2. task[c] \in Seq(Results) /\ Len(task[c]) \in Nat /\ task' = [task EXCEPT ![d] = Append(@, r)]
  BY SeqFacts DEF IInv, TypeOK, Give
<1>3. (Waits(c)' <=> Waits(c)) /\ (Storing(c)' <=> Storing(c))
  BY DEF Waits, Storing
<1> HIDE DEF m
<1>4. CASE c # d
  <2>1. task'[c] = task[c]
    BY <1>2, <1>4
  <2>2. (About(answers, c)' <=> About(answers, c)) /\ (NotTwo(answers, c) => NotTwo(answers, c)')
        /\ (FirstIs(answers, c, Head(task[c])) => FirstIs(answers, c, Head(task[c]))')
    BY <1>1, <1>4, <2>1, AppendMessages
  <2> QED BY <1>3, <2>1, <2>2 DEF Course, NotAsked, NoAnswer, StoresFirst, InOrder, OnePlace, FirstCounts
<1>5. CASE c = d
  <2>1. task'[c] = Append(task[c], r) /\ task'[c] # <<>> /\ Len(task'[c]) = Len(task[c]) + 1
    BY <1>2, <1>5, SeqFacts DEF IInv, TypeOK
  <2>2. NotAsked(c)'
    <3>1. ~(c > made) /\ made' = made /\ step' = step
      BY <1>5 DEF IInv, TypeOK
    <3> QED BY <1>5, <3>1 DEF NotAsked
  <2>3. CASE task[c] = <<>>
    <3>1. ~About(queued, c) /\ ~About(answers, c) /\ ~Storing(c)
      BY <2>3 DEF Course, NoAnswer
    <3>2. Head(task'[c]) = r
      BY <2>1, <2>3
    <3>3. About(answers, c)' /\ NotTwo(answers, c)' /\ FirstIs(answers', c, r)
      BY <1>1, <1>5, <3>1, AppendMessages, NoMessages
    <3>4. NotTwo(queued, c)' /\ FirstIs(queued', c, r) /\ ~About(queued, c)'
      BY <3>1, NoMessages
    <3>5. result[c] = Empty \/ is_terminated
      BY <2>3 DEF Course, FirstCounts
    <3>6. OnePlace(c)'
      BY <1>3, <3>1, <3>3, <3>4, <3>5 DEF OnePlace
    <3>7. FirstCounts(c)'
      BY <2>3 DEF Course, FirstCounts
    <3>8. StoresFirst(c)'
      BY <3>1 DEF StoresFirst, Storing
    <3> QED BY <2>1, <2>2, <3>2, <3>3, <3>4, <3>6, <3>7, <3>8 DEF Course, NoAnswer, InOrder
  <2>4. CASE task[c] # <<>>
    <3>1. Head(task'[c]) = Head(task[c]) /\ Len(task'[c]) # 1
      BY <1>2, <2>1, <2>4
    <3>2. About(answers, c)' /\ (About(answers, c) /\ FirstIs(answers, c, Head(task[c])) =>
                                   FirstIs(answers', c, Head(task[c])))
      BY <1>1, <1>5, AppendMessages
    <3>3. InOrder(c)'
      BY <1>3, <2>4, <3>1, <3>2 DEF Course, InOrder
    <3> QED BY <2>1, <2>2, <3>1, <3>3 DEF Course, NoAnswer, StoresFirst, OnePlace, FirstCounts
  <2> QED BY <2>3, <2>4
<1> QED BY <1>4, <1>5

\* Where a thread stores.
LEMMA CourseStore ==
  ASSUME IInv, NEW t \in Threads, Store(t), NEW c \in Ids, Course(c)
  PROVE  Course(c)'
<1>1. /\ UNCHANGED <<made, step, task, queued, answers, held, subscriptions, is_terminated>>
      /\ setting' = [setting EXCEPT ![t].result = Empty]
      /\ setting[t].result # Empty
      /\ result' = IF setting[t].id \in held THEN [result EXCEPT ![setting[t].id] = setting[t].result] ELSE result
  BY DEF Store, callerVars, lifetimeVars, endpointVars
<1>0. \A u \in Threads : setting'[u].result # Empty => u # t /\ setting'[u] = setting[u]
  BY <1>1 DEF IInv, TypeOK
<1>2. Storing(c)' => Storing(c)
  BY <1>0 DEF Storing, Threads
<1>3. NotAsked(c)' /\ NoAnswer(c)'
  BY <1>1, <1>2 DEF Course, NotAsked, NoAnswer
<1>4. StoresFirst(c)'
  BY <1>0, <1>1 DEF Course, StoresFirst, Threads
<1>5. CASE setting[t].id = c /\ c \in held
  <2>1. result'[c] = setting[t].result /\ result'[c] # Empty
    BY <1>1, <1>5 DEF IInv, TypeOK
  <2>2. CASE t = "terminator"
    <3>1. is_terminated /\ result'[c] = Cancelled
      BY <1>1, <2>1, <2>2 DEF IInv, SetterOf, None, Empty
    <3> QED BY <1>1, <1>2, <1>3, <1>4, <2>1, <3>1 DEF Course, InOrder, Waits, OnePlace, FirstCounts
  <2>3. CASE t \in {"wire", "scheduler"}
    <3>1. Storing(c) /\ task[c] # <<>> /\ result'[c] = Head(task[c])
      BY <1>1, <1>5, <2>1, <2>3 DEF Course, StoresFirst, Storing
    <3> QED BY <1>1, <1>2, <1>3, <1>4, <2>1, <3>1 DEF Course, InOrder, Waits, OnePlace, FirstCounts
  <2> QED BY <2>2, <2>3 DEF Threads
<1>6. CASE ~(setting[t].id = c /\ c \in held)
  <2>1. result'[c] = result[c]
    BY <1>1, <1>6 DEF IInv, TypeOK
  <2>2. Waits(c)' => Waits(c)
    BY <1>1, <1>6, <2>1 DEF Waits, Storing, IInv, TypeOK, Threads
  <2> QED BY <1>1, <1>2, <1>3, <1>4, <2>1, <2>2 DEF Course, InOrder, OnePlace, FirstCounts
<1> QED BY <1>5, <1>6

\* Where an answer reaches the broker.
LEMMA CourseAnswer ==
  ASSUME IInv, OnAnswer, NEW c \in Ids, Course(c)
  PROVE  Course(c)'
<1> DEFINE m == Head(answers)
<1>1. /\ UNCHANGED <<made, step, task, result, held, subscriptions, is_terminated>>
      /\ answers # <<>> /\ answers' = Tail(answers) /\ setting["wire"] = None
      /\ m.id \notin subscriptions => UNCHANGED <<setting, queued>>
      /\ m.id \in subscriptions /\ kind[m.id] = "sync" => SetIfEmpty("wire", m.id, m.result) /\ UNCHANGED queued
      /\ m.id \in subscriptions /\ kind[m.id] # "sync" =>
           /\ queued' = IF m.id \in held THEN Append(queued, Answer(m.id, m.result)) ELSE queued
           /\ UNCHANGED setting
  BY DEF OnAnswer, Addressee, callerVars, lifetimeVars, endpointVars
<1>2. answers \in Seq(AnswerRecords) /\ queued \in Seq(AnswerRecords)
  BY DEF IInv, TypeOK
<1>3. m \in AnswerRecords /\ m.id \in 1..made /\ m.result \in Results
      /\ Answer(m.id, m.result) \in AnswerRecords
      /\ Answer(m.id, m.result).id = m.id /\ Answer(m.id, m.result).result = m.result
  <2>1. m \in AnswerRecords
    BY <1>1, <1>2, SeqFacts
  <2> HIDE DEF m
  <2> QED BY <2>1 DEF AnswerRecords, Answer
<1>4. \A u \in Threads \ {"wire"} : setting'[u] = setting[u]
  BY <1>1, SetIfEmptyFacts DEF IInv, Threads
<1>5. setting'["wire"].result # Empty =>
        /\ m.id \in subscriptions /\ kind[m.id] = "sync" /\ m.id \in held /\ result[m.id] = Empty
        /\ setting'["wire"].id = m.id /\ setting'["wire"].result = m.result
  BY <1>1, SetIfEmptyFacts DEF IInv, Threads, None
<1>6. ~(kind[c] = "sync" /\ About(queued, c))
  BY DEF IInv, SetterOf, About
<1> HIDE DEF m
<1>7. CASE m.id # c
  <2>1. /\ About(answers, c)' <=> About(answers, c)
        /\ FirstIs(answers, c, Head(task[c])) => FirstIs(answers, c, Head(task[c]))'
        /\ NotTwo(answers, c) => NotTwo(answers, c)'
    BY <1>1, <1>2, <1>7, TailMessages DEF m
  <2>2. /\ About(queued, c)' <=> About(queued, c)
        /\ FirstIs(queued, c, Head(task[c])) => FirstIs(queued, c, Head(task[c]))'
        /\ NotTwo(queued, c) => NotTwo(queued, c)'
    <3>1. CASE UNCHANGED queued
      BY <1>1, <3>1
    <3>2. CASE queued' = Append(queued, Answer(m.id, m.result))
      BY <1>1, <1>2, <1>3, <1>7, <3>2, AppendMessages
    <3> QED BY <1>1, <3>1, <3>2
  <2>3. \A t \in {"wire", "scheduler"} : setting'[t].result # Empty /\ setting'[t].id = c => setting'[t] = setting[t]
    BY <1>4, <1>5, <1>7 DEF Threads
  <2>4. Storing(c)' <=> Storing(c)
    BY <1>1, <1>4, <2>3 DEF Storing, Threads, None
  <2>5. Waits(c)' <=> Waits(c)
    BY <1>1, <2>4 DEF Waits
  <2>6. StoresFirst(c)'
    BY <1>1, <2>3 DEF Course, StoresFirst
  <2> QED
    BY <1>1, <2>1, <2>2, <2>4, <2>5, <2>6 DEF Course, NotAsked, NoAnswer, InOrder, OnePlace, FirstCounts
<1>8. CASE m.id = c
  <2>1. About(answers, c) /\ task[c] # <<>>
        /\ (FirstIs(answers, c, Head(task[c])) => m.result = Head(task[c]))
        /\ (NotTwo(answers, c) => ~About(answers, c)' /\ NotTwo(answers, c)')
    BY <1>1, <1>2, <1>8, TailMessages DEF m, Course, NoAnswer
  <2>2. NotAsked(c)' /\ NoAnswer(c)' /\ FirstCounts(c)'
    BY <1>1, <2>1 DEF Course, NotAsked, NoAnswer, FirstCounts
  <2>3. ASSUME Len(task[c]) = 1
        PROVE  /\ NotTwo(answers, c) /\ ~About(queued, c) /\ ~Storing(c)
               /\ result[c] = Empty \/ is_terminated
    BY <2>1, <2>3 DEF Course, OnePlace
  <2>4. CASE c \notin subscriptions
    <3>1. UNCHANGED <<setting, queued>>
      BY <1>1, <1>8, <2>4
    <3>2. StoresFirst(c)' /\ InOrder(c)'
      BY <1>1, <2>4, <3>1 DEF Course, StoresFirst, InOrder, Waits, Storing
    <3>3. OnePlace(c)'
      BY <1>1, <2>1, <2>3, <3>1, NoMessages DEF OnePlace
    <3> QED BY <2>2, <3>2, <3>3 DEF Course
  <2>5. CASE c \in subscriptions /\ kind[c] = "sync"
    <3>1. UNCHANGED queued /\ ~About(queued, c) /\ SetIfEmpty("wire", c, m.result)
      BY <1>1, <1>6, <1>8, <2>5
    <3>2. setting'["wire"].result # Empty => ~Storing(c) /\ Waits(c)
      <4>1. setting["scheduler"].result # Empty => setting["scheduler"].id # c
        BY <2>5 DEF IInv, SetterOf, None
      <4>2. ~Storing(c)
        BY <1>1, <4>1 DEF Storing, None
      <4> QED BY <1>5, <1>8, <4>2 DEF Waits
    <3>3. setting'["wire"].result # Empty => setting'["wire"].id = c /\ setting'["wire"].result = Head(task[c])
      BY <1>5, <1>8, <2>1, <2>5, <3>1, <3>2 DEF Course, InOrder
    <3>4. StoresFirst(c)'
      BY <1>1, <1>4, <2>1, <3>3 DEF Course, StoresFirst, Threads
    <3>5. ~Waits(c)'
      <4>1. c \in held /\ result[c] = Empty => setting'["wire"] = Answer(c, m.result)
        BY <3>1 DEF SetIfEmpty, IInv, TypeOK, Threads
      <4>2. c \in held /\ result[c] = Empty => Storing(c)'
        BY <1>3, <1>8, <4>1 DEF Storing, Results, Empty, Success, Cancelled, Fault
      <4> QED BY <1>1, <4>2 DEF Waits
    <3>6. OnePlace(c)'
      BY <1>1, <2>1, <2>3, <3>1, NoMessages DEF OnePlace
    <3> QED BY <2>2, <3>4, <3>5, <3>6 DEF Course, InOrder
  <2>6. CASE c \in subscriptions /\ kind[c] # "sync"
    <3>1. UNCHANGED setting
      BY <1>1, <1>8, <2>6
    <3>2. (Waits(c)' <=> Waits(c)) /\ (Storing(c)' <=> Storing(c)) /\ StoresFirst(c)'
      BY <1>1, <3>1 DEF Waits, Storing, Course, StoresFirst
    <3>3. CASE c \notin held
      <4>1. UNCHANGED queued /\ ~Waits(c)
        BY <1>1, <1>8, <2>6, <3>3 DEF Waits
      <4>2. OnePlace(c)'
        BY <1>1, <2>1, <2>3, <4>1, NoMessages DEF OnePlace
      <4> QED BY <2>2, <3>2, <4>1, <4>2 DEF Course, InOrder
    <3>4. CASE c \in held
      <4>1. queued' = Append(queued, Answer(m.id, m.result))
        BY <1>1, <1>8, <2>6, <3>4
      <4>2. /\ About(queued, c)'
            /\ ~About(queued, c) => NotTwo(queued, c)'
            /\ FirstIs(queued, c, Head(task[c])) /\ (About(queued, c) \/ m.result = Head(task[c]))
                 => FirstIs(queued, c, Head(task[c]))'
        BY <1>1, <1>2, <1>3, <1>8, <4>1, AppendMessages
      <4>3. InOrder(c)'
        BY <1>1, <2>1, <2>6, <3>2, <4>2 DEF Course, InOrder
      <4>4. ASSUME Len(task[c]) = 1, ~is_terminated PROVE result[c] = Empty
        BY <2>3, <4>4
      <4>5. OnePlace(c)'
        BY <1>1, <2>1, <2>3, <3>2, <4>2, <4>4 DEF OnePlace
      <4> QED BY <2>2, <3>2, <4>3, <4>5 DEF Course
    <3> QED BY <3>3, <3>4
  <2> QED BY <2>4, <2>5, <2>6
<1> QED BY <1>7, <1>8

\* Where a queued answer reaches its task.
LEMMA CourseQueued ==
  ASSUME IInv, RunQueued, NEW c \in Ids, Course(c)
  PROVE  Course(c)'
<1> DEFINE m == Head(queued)
<1>1. /\ UNCHANGED <<made, step, task, answers, result, held, subscriptions, is_terminated>>
      /\ queued # <<>> /\ queued' = Tail(queued) /\ setting["scheduler"] = None
      /\ SetIfEmpty("scheduler", m.id, m.result)
  BY DEF RunQueued, At, callerVars, lifetimeVars, endpointVars
<1>2. queued \in Seq(AnswerRecords) /\ m.result \in Results
  <2>1. queued \in Seq(AnswerRecords)
    BY DEF IInv, TypeOK
  <2>2. m \in AnswerRecords
    BY <1>1, <2>1, SeqFacts
  <2> QED BY <2>1, <2>2 DEF AnswerRecords
<1>3. kind[m.id] = "start"
  BY <1>1, RecordFacts DEF IInv, SetterOf
<1>4. \A u \in Threads \ {"scheduler"} : setting'[u] = setting[u]
  BY <1>1, SetIfEmptyFacts DEF IInv, Threads
<1>5. setting'["scheduler"].result # Empty =>
        /\ m.id \in held /\ result[m.id] = Empty
        /\ setting'["scheduler"].id = m.id /\ setting'["scheduler"].result = m.result
  BY <1>1, SetIfEmptyFacts DEF IInv, Threads, None
<1> HIDE DEF m
<1>6. CASE m.id # c
  <2>1. /\ About(queued, c)' <=> About(queued, c)
        /\ FirstIs(queued, c, Head(task[c])) => FirstIs(queued, c, Head(task[c]))'
        /\ NotTwo(queued, c) => NotTwo(queued, c)'
    BY <1>1, <1>2, <1>6, TailMessages DEF m
  <2>2. \A t \in {"wire", "scheduler"} : setting'[t].result # Empty /\ setting'[t].id = c => setting'[t] = setting[t]
    BY <1>4, <1>5, <1>6 DEF Threads
  <2>3. Storing(c)' <=> Storing(c)
    BY <1>1, <1>4, <2>2 DEF Storing, Threads, None
  <2>4. Waits(c)' <=> Waits(c)
    BY <1>1, <2>3 DEF Waits
  <2>5. StoresFirst(c)'
    BY <1>1, <2>2 DEF Course, StoresFirst
  <2> QED
    BY <1>1, <2>1, <2>3, <2>4, <2>5 DEF Course, NotAsked, NoAnswer, InOrder, OnePlace, FirstCounts
<1>7. CASE m.id = c
  <2>1. About(queued, c) /\ task[c] # <<>>
        /\ (FirstIs(queued, c, Head(task[c])) => m.result = Head(task[c]))
        /\ (NotTwo(queued, c) => ~About(queued, c)' /\ NotTwo(queued, c)')
    BY <1>1, <1>2, <1>7, TailMessages DEF m, Course, NoAnswer
  <2>2. NotAsked(c)' /\ NoAnswer(c)' /\ FirstCounts(c)'
    BY <1>1, <2>1 DEF Course, NotAsked, NoAnswer, FirstCounts
  <2>3. setting'["scheduler"].result # Empty => Waits(c)
    <3>1. setting["wire"].result # Empty => setting["wire"].id # c
      BY <1>3, <1>7 DEF IInv, SetterOf, None
    <3>2. ~Storing(c)
      BY <1>1, <3>1 DEF Storing, None
    <3> QED BY <1>5, <1>7, <3>2 DEF Waits
  <2>4. setting'["scheduler"].result # Empty =>
          setting'["scheduler"].id = c /\ setting'["scheduler"].result = Head(task[c])
    BY <1>5, <1>7, <2>1, <2>3 DEF Course, InOrder
  <2>5. StoresFirst(c)'
    BY <1>1, <1>4, <2>1, <2>4 DEF Course, StoresFirst, Threads
  <2>6. ~Waits(c)'
    <3>1. c \in held /\ result[c] = Empty => setting'["scheduler"] = Answer(c, m.result)
      BY <1>1, <1>7 DEF SetIfEmpty, IInv, TypeOK, Threads
    <3>2. c \in held /\ result[c] = Empty => Storing(c)'
      BY <1>2, <3>1 DEF Storing, Answer, Results, Empty, Success, Cancelled, Fault
    <3> QED BY <1>1, <3>2 DEF Waits
  <2>7. OnePlace(c)'
    <3>1. ASSUME Len(task[c]) = 1
          PROVE  NotTwo(queued, c) /\ ~About(answers, c)
      BY <2>1, <3>1 DEF Course, OnePlace
    <3> QED BY <1>1, <2>1, <3>1, NoMessages DEF OnePlace
  <2> QED BY <2>2, <2>5, <2>6, <2>7 DEF Course, InOrder
<1> QED BY <1>6, <1>7

\* Where a thread leaves set_if_empty, and where the terminator enters it.
LEMMA CourseSetting ==
  ASSUME IInv, NEW c \in Ids, Course(c),
         UNCHANGED <<made, step, task, queued, answers, result, held, is_terminated>>,
         subscriptions' \subseteq subscriptions,
         \A t \in {"wire", "scheduler"} :
           setting'[t] = setting[t] \/ (setting[t].result = Empty /\ setting'[t].result = Empty)
  PROVE  Course(c)'
<1>1. (Storing(c)' <=> Storing(c)) /\ (Waits(c)' <=> Waits(c)) /\ StoresFirst(c)'
  BY DEF Storing, Waits, Course, StoresFirst
<1> QED BY <1>1 DEF Course, NotAsked, NoAnswer, InOrder, OnePlace, FirstCounts

LEMMA CourseStep == ASSUME IInv, RInv, [Next]_vars PROVE RInv'
<1> SUFFICES ASSUME NEW c \in Ids PROVE Course(c)'
  BY DEF RInv
<1>0. Course(c) /\ (is_terminated => is_terminated')
  BY TerminatedStays DEF RInv
<1>1. ASSUME NEW k \in {"sync", "start"}, StartInternal(k) PROVE Course(c)'
  <2>1. /\ made \in Nat /\ made' = made + 1
        /\ UNCHANGED <<task, queued, answers, setting, result>>
        /\ held' = held \cup {made + 1}
        /\ subscriptions' = subscriptions \/ subscriptions' = subscriptions \cup {made + 1}
    BY <1>1 DEF StartInternal, endpointVars, IInv, TypeOK
  <2>2. NotAsked(c)' /\ (c = made + 1 => task[c] = <<>>)
    BY <1>0, <2>1 DEF Course, NotAsked, Ids
  <2> QED BY <1>0, <2>1, <2>2, CourseSame
<1>2. ASSUME NEW d \in Ids, NEW r \in Results, Give(d, r), d \in 1..made,
             step \in {"advised", "add", "send"} => d # made,
             UNCHANGED <<made, step, queued, setting, result, held, subscriptions, is_terminated>>
      PROVE  Course(c)'
  BY <1>0, <1>2, CourseGive
<1>3. CASE HandleInPlace
  <2>1. PICK r \in {Success, Fault} : Give(Head(requests), r)
    BY <1>3 DEF HandleInPlace
  <2>2. Head(requests) \in 1..made /\ (step \in {"advised", "add", "send"} => Head(requests) # made)
    BY <1>3, RequestFacts DEF HandleInPlace, IInv, NotSent
  <2>3. Head(requests) \in Ids /\ r \in Results
    BY <2>2, RdCallAssumption DEF IInv, TypeOK, Ids, Results
  <2> QED BY <1>2, <1>3, <2>1, <2>2, <2>3 DEF HandleInPlace, callerVars, taskVars, lifetimeVars
<1>4. ASSUME NEW d \in Ids, NEW r \in Later, Complete(d, r) PROVE Course(c)'
  <2>1. d \in 1..made /\ r \in Results /\ (step \in {"advised", "add", "send"} => d # made)
    BY <1>4, RdCallAssumption DEF Complete, IInv, TypeOK, NotSent
  <2>2. UNCHANGED <<made, step, queued, setting, result, held, subscriptions, is_terminated>>
    BY <1>4 DEF Complete, callerVars, taskVars, lifetimeVars
  <2>3. CASE Give(d, r)
    BY <1>2, <2>1, <2>2, <2>3
  <2>4. CASE UNCHANGED <<task, answers>>
    BY <1>0, <2>2, <2>4, CourseSame DEF Course, NotAsked
  <2> QED BY <1>4, <2>3, <2>4 DEF Complete
<1>5. CASE OnAnswer
  BY <1>0, <1>5, CourseAnswer
<1>6. CASE RunQueued
  BY <1>0, <1>6, CourseQueued
<1>7. ASSUME NEW t \in Threads, Store(t) PROVE Course(c)'
  BY <1>0, <1>7, CourseStore
<1>8. ASSUME NEW t \in Threads, Fire(t) PROVE Course(c)'
  <2>1. UNCHANGED <<made, step, task, queued, answers, result, held, subscriptions, is_terminated>>
    BY <1>8 DEF Fire, callerVars, lifetimeVars, endpointVars
  <2>2. \A u \in Threads : setting'[u] = setting[u] \/ (setting[u].result = Empty /\ setting'[u].result = Empty)
    BY <1>8 DEF Fire, IInv, TypeOK, None
  <2> QED BY <1>0, <2>1, <2>2, CourseSetting DEF Threads
<1>9. CASE RunAction
  <2>1. UNCHANGED <<made, step, task, queued, answers, result, held, is_terminated>>
        /\ subscriptions' \subseteq subscriptions
    BY <1>9 DEF RunAction, callerVars, endpointVars
  <2>2. setting'["wire"] = setting["wire"] /\ setting'["scheduler"] = setting["scheduler"]
    BY <1>9, SetIfEmptyFacts DEF RunAction, IInv, Threads
  <2> QED BY <1>0, <2>1, <2>2, CourseSetting
<1>10. ASSUME made' = made, UNCHANGED <<task, queued, answers, setting, result, subscriptions>>, held' \subseteq held
       PROVE  Course(c)'
  <2>1. NotAsked(c)'
    BY <1>0, <1>10, AskedStays DEF Course, NotAsked
  <2> QED BY <1>0, <1>10, <2>1, CourseSame
<1>11. ASSUME AddUnsubscribe \/ AddCancel \/ Refuse \/ Send \/ Succeed \/ Throw \/ (\E d \in Ids : Drop(d))
              \/ Terminate \/ TakeActions \/ HandleLater \/ UNCHANGED vars
       PROVE  Course(c)'
  <2>1. made' = made /\ UNCHANGED <<task, queued, answers, setting, result, subscriptions>>
    BY <1>11 DEF AddUnsubscribe, AddCancel, Refuse, Send, Succeed, Throw, Drop, Terminate, TakeActions,
         HandleLater, vars, callerVars, taskVars, lifetimeVars, endpointVars
  <2>2. held' \subseteq held
    BY <1>11 DEF AddUnsubscribe, AddCancel, AddAction, Refuse, Release, Send, Succeed, Throw, Drop, Terminate,
         TakeActions, HandleLater, vars, taskVars
  <2> QED BY <1>10, <2>1, <2>2
<1> QED
  BY <1>1, <1>3, <1>4, <1>5, <1>6, <1>7, <1>8, <1>9, <1>11
     DEF Next, SchedulerThread, WireThread, Terminator, Endpoint, Threads

\* Every task follows its course.
LEMMA AlwaysRInv == Spec => []RInv
<1>1. Init => RInv
  <2> SUFFICES ASSUME Init, NEW c \in Ids PROVE Course(c)
    BY DEF RInv
  <2>1. task[c] = <<>> /\ result[c] = Empty /\ ~Storing(c) /\ held = {} /\ Len(task[c]) # 1
        /\ ~About(queued, c) /\ ~About(answers, c)
    BY DEF Init, Storing, About, Threads, None
  <2> QED BY <2>1 DEF Course, NotAsked, NoAnswer, StoresFirst, Storing, InOrder, Waits, OnePlace, FirstCounts
<1>2. IInv /\ RInv /\ [Next]_vars => RInv'
  BY CourseStep
<1> QED BY <1>1, <1>2, AlwaysIInv, PTL DEF Spec

\* The three threads that set results do not overwrite one another's, unless the
\* lifetime ends meanwhile; then one of the two is the cancellation.
THEOREM CallResultFinal == Spec => ResultFinal
<1>1. ASSUME IInv, RInv, [Next]_vars, NEW c \in Ids, result[c] # Empty, result'[c] # result[c]
      PROVE  is_terminated /\ Cancelled \in {result[c], result'[c]}
  <2>1. PICK u \in Threads : /\ Store(u)
                             /\ setting[u].id \in held
                             /\ result' = [result EXCEPT ![setting[u].id] = setting[u].result]
    BY <1>1, ResultChange
  <2>2. setting[u].id = c /\ setting[u].result # Empty /\ result'[c] = setting[u].result
    BY <1>1, <2>1 DEF IInv, TypeOK, Store
  <2>3. is_terminated
    BY <1>1, <2>2 DEF IInv, StoresIntoEmpty
  <2>4. u = "terminator" => setting[u].result = Cancelled
    BY <1>1, <2>2 DEF IInv, SetterOf
  <2>5. u # "terminator" => setting[u].result = Head(task[c])
    BY <1>1, <2>2 DEF RInv, Course, StoresFirst, Threads
  <2>6. result[c] = Cancelled \/ result[c] = Head(task[c])
    BY <1>1 DEF RInv, Course, FirstCounts
  <2> QED BY <1>1, <2>2, <2>3, <2>4, <2>5, <2>6
<1>2. IInv /\ RInv /\ [Next]_vars =>
        [\A c \in Ids : result[c] # Empty /\ result'[c] # result[c] =>
           is_terminated /\ Cancelled \in {result[c], result'[c]}]_vars
  BY <1>1
<1> QED BY <1>2, AlwaysIInv, AlwaysRInv, PTL DEF Spec, ResultFinal

\* Whatever came late, twice or not at all: a task's result is the first its own
\* request was given, or a cancellation, and nothing new reaches a task that was
\* let go with its result, if its request was given no other.
THEOREM CallResultsHold == Spec => []ResultsHold
<1>1. RInv => FirstResultCounts
  BY DEF RInv, Course, FirstCounts, FirstResultCounts
<1>2. IInv /\ RInv => NothingComes
  <2> SUFFICES ASSUME IInv, RInv, NEW c \in 1..made, result[c] # Empty, Len(task[c]) = 1, ~is_terminated
               PROVE  /\ \A i \in 1..Len(answers \o queued) : (answers \o queued)[i].id # c
                      /\ \A t \in Threads : setting[t].id = c => setting[t].result = Empty
    BY DEF NothingComes
  <2>1. c \in Ids
    BY RdCallAssumption DEF IInv, TypeOK, Ids
  <2>2. ~About(answers, c) /\ ~About(queued, c)
    BY <2>1 DEF RInv, Course, OnePlace
  <2>3. answers \in Seq(AnswerRecords) /\ queued \in Seq(AnswerRecords)
    BY DEF IInv, TypeOK
  <2>4. ASSUME NEW i \in 1..Len(answers \o queued) PROVE (answers \o queued)[i].id # c
    <3>1. \/ i \in 1..Len(answers) /\ (answers \o queued)[i] = answers[i]
          \/ i - Len(answers) \in 1..Len(queued) /\ (answers \o queued)[i] = queued[i - Len(answers)]
      BY <2>3
    <3> QED BY <2>2, <3>1 DEF About
  <2>5. \A t \in Threads : setting[t].id = c => setting[t].result = Empty
    BY DEF IInv, StoresIntoEmpty
  <2> QED BY <2>4, <2>5
<1> QED BY <1>1, <1>2, AlwaysIInv, AlwaysRInv, PTL DEF ResultsHold

=============================================================================
