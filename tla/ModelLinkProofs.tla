-------------------------- MODULE ModelLinkProofs --------------------------
(***************************************************************************)
(* What ExtWire promises holds of the editor's model link, for any number  *)
(* of senders, sends and connections: every step of the link is a step of  *)
(* ExtWire or leaves it alone.  The inductive invariant of ExtWire says    *)
(* also how many messages of a sender were accepted, and that a sender     *)
(* between the two halves of a send has nothing in the queue.              *)
(*                                                                         *)
(* Then the handshake of the two ends: its invariant says which messages   *)
(* are still to be handled and what the last of them are, wherever they    *)
(* wait: on their way, in the broker's two lists, or in a running task.    *)
(***************************************************************************)
EXTENDS ModelLink, FiniteSetTheorems, TLAPS

\* The sends of each sender that are done.
Done == [s \in Senders |-> IF s \in passed THEN sent[s] - 1 ELSE sent[s]]

Increasing(a) ==
  \A i, j \in 1..Len(a) : i < j /\ a[i].sender = a[j].sender => a[i].number < a[j].number

Complete == \A s \in Senders : \A n \in 1..Done[s] :
  \E i \in 1..Len(Accepted) : Accepted[i] = Message(s, n)

Counted == \A i \in 1..Len(Accepted) : Accepted[i].number <= Done[Accepted[i].sender]

PassedAtOnce ==
  /\ \A i \in 1..Len(sendQ) : sendQ[i].sender \notin passed
  /\ \A s \in passed : sent[s] > 0

ExtInv == ExtTypeOK /\ Increasing(Accepted) /\ Complete /\ Counted /\ PassedAtOnce /\ NothingStuck

-----------------------------------------------------------------------------
(* Sequences of messages.                                                  *)

LEMMA MessageFacts ==
  ASSUME NEW m \in Messages
  PROVE  m.sender \in Senders /\ m.number \in Nat
  BY DEF Messages

\* Append(p, x) \o q has x between p and q.
LEMMA InsertFacts ==
  ASSUME NEW p \in Seq(Messages), NEW q \in Seq(Messages), NEW x \in Messages
  PROVE  /\ p \o q \in Seq(Messages) /\ Append(p, x) \o q \in Seq(Messages)
         /\ Len(p) \in Nat /\ Len(q) \in Nat /\ Len(p \o q) = Len(p) + Len(q)
         /\ Len(Append(p, x) \o q) = Len(p) + Len(q) + 1
         /\ (Append(p, x) \o q)[Len(p) + 1] = x
         /\ \A i \in 1..Len(p) : (Append(p, x) \o q)[i] = (p \o q)[i]
         /\ \A i \in (Len(p) + 1)..(Len(p) + Len(q)) :
              /\ (Append(p, x) \o q)[i + 1] = (p \o q)[i]
              /\ (p \o q)[i] = q[i - Len(p)]
  OBVIOUS

LEMMA AppendFacts ==
  ASSUME NEW p \in Seq(Messages), NEW q \in Seq(Messages), NEW x \in Messages
  PROVE  /\ p \o Append(q, x) = Append(p \o q, x)
         /\ Append(p \o q, x) \in Seq(Messages)
         /\ Len(p \o q) \in Nat /\ Len(Append(p \o q, x)) = Len(p \o q) + 1
         /\ Append(p \o q, x)[Len(p \o q) + 1] = x
         /\ \A i \in 1..Len(p \o q) : Append(p \o q, x)[i] = (p \o q)[i]
  OBVIOUS

\* b is a with x at k.
Inserted(a, b, k, x) ==
  /\ k \in 1..(Len(a) + 1) /\ Len(b) = Len(a) + 1
  /\ b[k] = x
  /\ \A i \in 1..(k - 1) : b[i] = a[i]
  /\ \A i \in k..Len(a) : b[i + 1] = a[i]

LEMMA InsertIncreasing ==
  ASSUME NEW a \in Seq(Messages), NEW b \in Seq(Messages), NEW k, NEW x \in Messages,
         Inserted(a, b, k, x), Increasing(a),
         \A i \in 1..Len(a) : a[i].sender = x.sender => i < k /\ a[i].number < x.number
  PROVE  Increasing(b)
<1> SUFFICES ASSUME NEW i \in 1..Len(b), NEW j \in 1..Len(b), i < j, b[i].sender = b[j].sender
             PROVE  b[i].number < b[j].number
  BY DEF Increasing
<1>0. Len(a) \in Nat /\ Len(b) = Len(a) + 1 /\ k \in Nat /\ i \in Nat /\ j \in Nat
  BY DEF Inserted
<1>1. CASE j < k
  <2>1. i \in 1..(k - 1) /\ j \in 1..(k - 1) /\ i \in 1..Len(a) /\ j \in 1..Len(a)
    BY <1>0, <1>1 DEF Inserted
  <2> QED BY <2>1 DEF Inserted, Increasing
<1>2. CASE j = k
  <2>1. i \in 1..(k - 1) /\ i \in 1..Len(a)
    BY <1>0, <1>2 DEF Inserted
  <2> QED BY <2>1, <1>2 DEF Inserted
<1>3. CASE j > k /\ i < k
  <2>1. i \in 1..(k - 1) /\ i \in 1..Len(a) /\ j - 1 \in k..Len(a) /\ j - 1 \in 1..Len(a)
        /\ i < j - 1 /\ (j - 1) + 1 = j
    BY <1>0, <1>3 DEF Inserted
  <2>2. b[i] = a[i] /\ b[j] = a[j - 1]
    BY <2>1 DEF Inserted
  <2> QED BY <2>1, <2>2 DEF Increasing
<1>4. CASE i = k
  <2>1. j - 1 \in k..Len(a) /\ j - 1 \in 1..Len(a) /\ (j - 1) + 1 = j /\ ~(j - 1 < k)
    BY <1>0, <1>4 DEF Inserted
  <2>2. b[i] = x /\ b[j] = a[j - 1]
    BY <1>4, <2>1 DEF Inserted
  <2> QED BY <2>1, <2>2
<1>5. CASE i > k
  <2>1. i - 1 \in k..Len(a) /\ i - 1 \in 1..Len(a) /\ (i - 1) + 1 = i
        /\ j - 1 \in k..Len(a) /\ j - 1 \in 1..Len(a) /\ (j - 1) + 1 = j /\ i - 1 < j - 1
    BY <1>0, <1>5 DEF Inserted
  <2>2. b[i] = a[i - 1] /\ b[j] = a[j - 1]
    BY <2>1 DEF Inserted
  <2> QED BY <2>1, <2>2 DEF Increasing
<1> QED BY <1>0, <1>1, <1>2, <1>3, <1>4, <1>5


LEMMA InsertElements ==
  ASSUME NEW a \in Seq(Messages), NEW b \in Seq(Messages), NEW k, NEW x \in Messages,
         Inserted(a, b, k, x)
  PROVE  /\ \A i \in 1..Len(a) : \E j \in 1..Len(b) : b[j] = a[i]
         /\ \E j \in 1..Len(b) : b[j] = x
         /\ \A j \in 1..Len(b) : b[j] = x \/ \E i \in 1..Len(a) : b[j] = a[i]
<1>0. Len(a) \in Nat /\ Len(b) = Len(a) + 1 /\ k \in 1..Len(b)
  BY DEF Inserted
<1>1. \A i \in 1..Len(a) : \E j \in 1..Len(b) : b[j] = a[i]
  <2> SUFFICES ASSUME NEW i \in 1..Len(a) PROVE \E j \in 1..Len(b) : b[j] = a[i]
    OBVIOUS
  <2>1. CASE i < k
    <3>1. i \in 1..(k - 1) /\ i \in 1..Len(b)
      BY <1>0, <2>1
    <3> QED BY <3>1 DEF Inserted
  <2>2. CASE ~(i < k)
    <3>1. i \in k..Len(a) /\ i + 1 \in 1..Len(b)
      BY <1>0, <2>2
    <3> QED BY <3>1 DEF Inserted
  <2> QED BY <2>1, <2>2
<1>2. \E j \in 1..Len(b) : b[j] = x
  BY <1>0 DEF Inserted
<1>3. \A j \in 1..Len(b) : b[j] = x \/ \E i \in 1..Len(a) : b[j] = a[i]
  <2> SUFFICES ASSUME NEW j \in 1..Len(b), j # k PROVE \E i \in 1..Len(a) : b[j] = a[i]
    BY DEF Inserted
  <2>1. CASE j < k
    <3>1. j \in 1..(k - 1) /\ j \in 1..Len(a)
      BY <1>0, <2>1
    <3> QED BY <3>1 DEF Inserted
  <2>2. CASE ~(j < k)
    <3>1. j - 1 \in k..Len(a) /\ j - 1 \in 1..Len(a) /\ (j - 1) + 1 = j
      BY <1>0, <2>2
    <3>2. b[(j - 1) + 1] = a[j - 1]
      BY <3>1 DEF Inserted
    <3> QED BY <3>1, <3>2
  <2> QED BY <2>1, <2>2
<1> QED BY <1>1, <1>2, <1>3

-----------------------------------------------------------------------------
(* The invariant of ExtWire.                                               *)

LEMMA AcceptedType ==
  ASSUME ExtTypeOK
  PROVE  Accepted \in Seq(Messages) /\ Len(Accepted) \in Nat
  BY DEF ExtTypeOK, Accepted

LEMMA DoneType ==
  ASSUME ExtTypeOK, PassedAtOnce, NEW s \in Senders
  PROVE  Done \in [Senders -> Nat] /\ Done[s] \in Nat /\ sent[s] \in Nat
  BY DEF ExtTypeOK, PassedAtOnce, Done

\* The next message of a sender is accepted, ahead of others' perhaps.
LEMMA AcceptNext ==
  ASSUME ExtInv, ExtTypeOK', NEW s \in Senders, NEW k,
         Inserted(Accepted, Accepted', k, Message(s, Done[s] + 1)),
         \A i \in 1..Len(Accepted) : Accepted[i].sender = s => i < k,
         \A r \in Senders : Done'[r] = IF r = s THEN Done[s] + 1 ELSE Done[r]
  PROVE  Increasing(Accepted)' /\ Complete' /\ Counted'
<1> DEFINE a == Accepted
           b == Accepted'
           x == Message(s, Done[s] + 1)
<1>1. /\ a \in Seq(Messages) /\ b \in Seq(Messages)
      /\ \A r \in Senders : Done[r] \in Nat
      /\ x \in Messages /\ x.sender = s /\ x.number = Done[s] + 1
  BY AcceptedType, DoneType DEF ExtInv, Accepted, ExtTypeOK, Message, Messages
<1>2. \A i \in 1..Len(a) : a[i] \in Messages /\ a[i].sender \in Senders /\ a[i].number \in Nat
                           /\ a[i].number <= Done[a[i].sender]
  BY <1>1, MessageFacts DEF ExtInv, Counted
<1>3. \A i \in 1..Len(a) : a[i].sender = x.sender => i < k /\ a[i].number < x.number
  BY <1>1, <1>2
<1>4. Increasing(b)
  BY <1>1, <1>3, InsertIncreasing DEF ExtInv
<1>5. /\ \A i \in 1..Len(a) : \E j \in 1..Len(b) : b[j] = a[i]
      /\ \E j \in 1..Len(b) : b[j] = x
      /\ \A j \in 1..Len(b) : b[j] = x \/ \E i \in 1..Len(a) : b[j] = a[i]
  BY <1>1, InsertElements
<1>6. Complete'
  <2> SUFFICES ASSUME NEW r \in Senders, NEW n \in 1..Done'[r]
               PROVE  \E j \in 1..Len(b) : b[j] = Message(r, n)
    BY DEF Complete
  <2>1. CASE r = s /\ n = Done[s] + 1
    BY <1>5, <2>1
  <2>2. CASE ~(r = s /\ n = Done[s] + 1)
    <3>1. n \in 1..Done[r]
      BY <1>1, <2>2
    <3>2. PICK i \in 1..Len(a) : a[i] = Message(r, n)
      BY <3>1 DEF ExtInv, Complete
    <3> QED BY <1>5, <3>2
  <2> QED BY <2>1, <2>2
<1>7. Counted'
  <2> SUFFICES ASSUME NEW j \in 1..Len(b) PROVE b[j].number <= Done'[b[j].sender]
    BY DEF Counted
  <2>1. CASE b[j] = x
    BY <1>1, <2>1
  <2>2. CASE \E i \in 1..Len(a) : b[j] = a[i]
    <3>1. PICK i \in 1..Len(a) : b[j] = a[i]
      BY <2>2
    <3>2. a[i].sender \in Senders /\ a[i].number \in Nat /\ a[i].number <= Done[a[i].sender]
      BY <1>2
    <3> DEFINE r == a[i].sender
    <3>3. Done'[r] = (IF r = s THEN Done[s] + 1 ELSE Done[r]) /\ Done[r] \in Nat
      BY <3>2, <1>1
    <3> HIDE DEF r
    <3>4. a[i].number <= Done'[r]
      BY <3>2, <3>3 DEF r
    <3> QED BY <3>1, <3>4 DEF r
  <2> QED BY <1>5, <2>1, <2>2
<1> QED BY <1>4, <1>6, <1>7

LEMMA SendQueuedKeeps ==
  ASSUME ExtInv, NEW t \in Threads, SendQueued(t)
  PROVE  ExtInv'
<1>1. ExtTypeOK'
  BY DEF ExtInv, ExtTypeOK, SendQueued
<1>2. Accepted' = Accepted
  BY DEF ExtInv, ExtTypeOK, SendQueued, Accepted
<1>3. Done' = Done
  BY DEF Done, SendQueued
<1>4. PassedAtOnce' /\ NothingStuck'
  BY DEF ExtInv, ExtTypeOK, SendQueued, PassedAtOnce, NothingStuck
<1> QED BY <1>1, <1>2, <1>3, <1>4 DEF ExtInv, Increasing, Complete, Counted

LEMMA SetConnectedKeeps ==
  ASSUME ExtInv, NEW t \in Threads, NEW b \in BOOLEAN, SetConnected(t, b)
  PROVE  ExtInv'
<1>1. ExtTypeOK'
  BY DEF ExtInv, ExtTypeOK, SetConnected
<1>2. Accepted' = Accepted /\ Done' = Done
  BY DEF SetConnected, Accepted, Done
<1>3. PassedAtOnce' /\ NothingStuck'
  BY DEF ExtInv, SetConnected, PassedAtOnce, NothingStuck
<1> QED BY <1>1, <1>2, <1>3 DEF ExtInv, Increasing, Complete, Counted

LEMMA SendKeeps ==
  ASSUME ExtInv, NEW s \in Senders, Send(s)
  PROVE  ExtInv'
<1> DEFINE x == Message(s, sent[s] + 1)
<1>0. /\ sendQ \in Seq(Messages) /\ onWire \in Seq(Messages) /\ sent[s] \in Nat
      /\ x \in Messages /\ x.sender = s
      /\ s \notin passed /\ Done[s] = sent[s]
  BY DEF ExtInv, ExtTypeOK, Message, Messages, Send, Done
<1>1. CASE sendQ # <<>> \/ ~connected
  <2>1. sendQ' = Append(sendQ, x) /\ passed' = passed /\ onWire' = onWire
        /\ sent' = [sent EXCEPT ![s] = @ + 1] /\ connected' = connected /\ setting' = setting
    BY <1>1 DEF Send
  <2>2. ExtTypeOK'
    BY <1>0, <2>1 DEF ExtInv, ExtTypeOK
  <2>3. Accepted' = Append(Accepted, x)
    BY <1>0, <2>1, AppendFacts DEF Accepted
  <2>4. Inserted(Accepted, Accepted', Len(Accepted) + 1, x)
    BY <1>0, <2>3, AppendFacts DEF Inserted, Accepted
  <2>5. \A r \in Senders : Done'[r] = IF r = s THEN Done[s] + 1 ELSE Done[r]
    BY <1>0, <2>1 DEF Done, ExtInv, ExtTypeOK
  <2>6. \A i \in 1..Len(Accepted) : i < Len(Accepted) + 1
    BY AcceptedType DEF ExtInv
  <2>7. Increasing(Accepted)' /\ Complete' /\ Counted'
    BY <1>0, <2>2, <2>4, <2>5, <2>6, AcceptNext
  <2>8. PassedAtOnce'
    <3>1. \A i \in 1..Len(sendQ') : sendQ'[i] = x \/ (i \in 1..Len(sendQ) /\ sendQ'[i] = sendQ[i])
      BY <1>0, <2>1
    <3>2. \A r \in passed : r # s /\ sent'[r] = sent[r]
      BY <1>0, <2>1 DEF ExtInv, ExtTypeOK
    <3> QED BY <1>0, <2>1, <3>1, <3>2 DEF ExtInv, PassedAtOnce
  <2>9. NothingStuck'
    BY <1>1, <2>1 DEF ExtInv, NothingStuck
  <2> QED BY <2>2, <2>7, <2>8, <2>9 DEF ExtInv
<1>2. CASE ~(sendQ # <<>> \/ ~connected)
  <2>1. sendQ' = sendQ /\ sendQ = <<>> /\ passed' = passed \union {s} /\ onWire' = onWire
        /\ sent' = [sent EXCEPT ![s] = @ + 1] /\ connected' = connected /\ setting' = setting
    BY <1>2 DEF Send
  <2>2. ExtTypeOK'
    BY <1>0, <2>1 DEF ExtInv, ExtTypeOK
  <2>3. Accepted' = Accepted
    BY <2>1 DEF Accepted
  <2>4. Done' = Done
    BY <1>0, <2>1 DEF Done, ExtInv, ExtTypeOK
  <2>5. Complete'
    BY <2>3, <2>4 DEF ExtInv, Complete
  <2>6. Counted'
    <3>1. \A i \in 1..Len(Accepted) : Accepted[i].sender \in Senders
      BY AcceptedType, MessageFacts DEF ExtInv
    <3> QED BY <2>3, <2>4, <3>1 DEF ExtInv, Counted
  <2>7. PassedAtOnce' /\ NothingStuck'
    BY <1>0, <2>1 DEF ExtInv, ExtTypeOK, PassedAtOnce, NothingStuck
  <2> QED BY <2>2, <2>3, <2>5, <2>6, <2>7 DEF ExtInv, Increasing
<1> QED BY <1>1, <1>2

LEMMA SendOnKeeps ==
  ASSUME ExtInv, NEW s \in Senders, SendOn(s)
  PROVE  ExtInv'
<1> DEFINE x == Message(s, sent[s])
           k == Len(onWire) + 1
<1>0. /\ sendQ \in Seq(Messages) /\ onWire \in Seq(Messages) /\ sent[s] \in Nat
      /\ x \in Messages /\ s \in passed /\ Done[s] = sent[s] - 1
      /\ Done[s] + 1 = sent[s]
  BY DEF ExtInv, ExtTypeOK, Message, Messages, SendOn, Done
<1>1. sendQ' = sendQ /\ passed' = passed \ {s} /\ onWire' = Append(onWire, x)
      /\ sent' = sent /\ connected' = connected /\ setting' = setting
  BY DEF SendOn
<1>2. ExtTypeOK'
  BY <1>0, <1>1 DEF ExtInv, ExtTypeOK
<1>3. Inserted(Accepted, Accepted', k, x)
  BY <1>0, <1>1, InsertFacts DEF Inserted, Accepted
<1>4. \A i \in 1..Len(Accepted) : Accepted[i].sender = s => i < k
  <2> SUFFICES ASSUME NEW i \in 1..Len(Accepted), ~(i < k) PROVE Accepted[i].sender # s
    OBVIOUS
  <2>1. i \in (Len(onWire) + 1)..(Len(onWire) + Len(sendQ)) /\ i - Len(onWire) \in 1..Len(sendQ)
    BY <1>0, InsertFacts DEF Accepted
  <2>2. Accepted[i] = sendQ[i - Len(onWire)]
    BY <1>0, <2>1, InsertFacts DEF Accepted
  <2> QED BY <1>0, <2>1, <2>2 DEF ExtInv, PassedAtOnce
<1>5. \A r \in Senders : Done'[r] = IF r = s THEN Done[s] + 1 ELSE Done[r]
  BY <1>0, <1>1 DEF Done, ExtInv, ExtTypeOK
<1>6. Increasing(Accepted)' /\ Complete' /\ Counted'
  BY <1>0, <1>2, <1>3, <1>4, <1>5, AcceptNext
<1>7. PassedAtOnce' /\ NothingStuck'
  BY <1>1 DEF ExtInv, PassedAtOnce, NothingStuck
<1> QED BY <1>2, <1>6, <1>7 DEF ExtInv

LEMMA NewExtWireInv == NewExtWire => ExtInv
<1> SUFFICES ASSUME NewExtWire PROVE ExtInv
  OBVIOUS
<1>1. Accepted = <<>> /\ Len(Accepted) = 0
  BY DEF NewExtWire, Accepted
<1>2. ExtTypeOK
  <2>1. /\ connected \in BOOLEAN /\ sendQ = <<>> /\ onWire = <<>>
        /\ setting \subseteq Threads /\ passed \subseteq Senders
    BY DEF NewExtWire
  <2>2. sent \in [Senders -> Nat]
    BY DEF NewExtWire
  <2>3. <<>> \in Seq(Messages)
    OBVIOUS
  <2> QED BY <2>1, <2>2, <2>3 DEF ExtTypeOK
<1>3. Len(sendQ) = 0 /\ passed = {} /\ sendQ = <<>>
  BY DEF NewExtWire
<1>4. PassedAtOnce /\ NothingStuck
  BY <1>3 DEF PassedAtOnce, NothingStuck
<1>5. \A s \in Senders : Done[s] = 0
  BY DEF NewExtWire, Done
<1> QED BY <1>1, <1>2, <1>4, <1>5 DEF ExtInv, Increasing, Complete, Counted

LEMMA ExtStep == ExtInv /\ [ExtNext]_extVars => ExtInv'
<1> SUFFICES ASSUME ExtInv, [ExtNext]_extVars PROVE ExtInv'
  OBVIOUS
<1>1. CASE \E t \in Threads : SendQueued(t) \/ \E b \in BOOLEAN : SetConnected(t, b)
  BY <1>1, SendQueuedKeeps, SetConnectedKeeps
<1>2. CASE \E s \in Senders : Send(s) \/ SendOn(s)
  BY <1>2, SendKeeps, SendOnKeeps
<1>3. CASE Renew
  <2>1. NewExtWire'
    BY <1>3 DEF Renew, NewExtWire
  <2> QED BY <2>1, NewExtWireInv, PTL
<1>4. CASE UNCHANGED extVars
  <2>1. Accepted' = Accepted /\ Done' = Done
    BY <1>4 DEF extVars, Accepted, Done
  <2> QED BY <1>4, <2>1 DEF extVars, ExtInv, ExtTypeOK, Increasing, Complete, Counted, PassedAtOnce, NothingStuck
<1> QED BY <1>1, <1>2, <1>3, <1>4 DEF ExtNext

-----------------------------------------------------------------------------
(* The link's steps are steps of ExtWire.                                  *)

LEMMA LinkStep == [Next]_vars => [ExtNext]_extVars
<1> SUFFICES ASSUME [Next]_vars PROVE [ExtNext]_extVars
  OBVIOUS
<1> USE ModelLinkAssumption
<1>1. CASE Dispatch
  <2>1. \A state : Handle("wire", state) => [ExtNext]_extVars
    BY DEF Handle, ExtNext
  <2>2. \A state : Enlist(state) \/ Deliver(state) => [ExtNext]_extVars
    BY <2>1 DEF Enlist, Deliver
  <2> QED BY <1>1, <2>2 DEF Dispatch
<1>2. CASE RunHandler
  BY <1>2 DEF RunHandler, Handle, ExtNext
<1>3. CASE BindModel
  BY <1>3 DEF BindModel, ExtNext
<1>4. CASE RunListener \/ FireAsyncAction \/ FinishSend
  BY <1>4 DEF RunListener, FireAsyncAction, FinishSend, ExtNext
<1>5. CASE WireThread /\ ~Dispatch
  BY <1>5 DEF WireThread, Connect, Disconnect, RunAction, Disconnected
<1>6. CASE SchedulerThread /\ ~BindModel /\ ~RunHandler
  BY <1>6 DEF SchedulerThread, Subscribe, AddUnsubscribe, SendReady, AddDisconnect, Announce, EndModel,
              StartDispatched, TakeMessage, Invoke, TestEmpty, MoveOut, Erase, FinishDispatched
<1>7. CASE RiderBinds \/ RiderEnds \/ RiderReceives
  BY <1>7 DEF RiderBinds, RiderEnds, RiderReceives
<1>8. CASE UNCHANGED vars
  BY <1>8 DEF vars
<1> QED BY <1>1, <1>2, <1>3, <1>4, <1>5, <1>6, <1>7, <1>8 DEF Next

\* The model link uses its ExtWire as ExtWire is written to be used: whatever
\* the broker, the scheduler's thread and the connections do, each of their
\* steps sets connected, runs its listener, sends, makes a new wire or leaves
\* the wire alone (RdExtBase.cpp, RiderLink.cpp).
THEOREM LinkUsesExtWire == Spec => ExtSpec
<1>1. Init => NewExtWire
  BY DEF Init
<1> QED BY <1>1, LinkStep, PTL DEF Spec, ExtSpec

\* Every ExtWire has what each thread sent, in order, and nothing stays in the
\* queue of one that is connected (ExtWire.cpp).
THEOREM ExtWireCorrect == ExtSpec => [](SentInOrder /\ NothingStuck)
<1>1. ExtInv => SentInOrder /\ NothingStuck
  <2> SUFFICES ASSUME ExtInv PROVE SentInOrder
    BY DEF ExtInv
  <2>1. \A s \in Senders \ passed : Done[s] = sent[s]
    BY DEF Done
  <2> QED BY <2>1 DEF ExtInv, Increasing, Complete, SentInOrder
<1> QED BY <1>1, NewExtWireInv, ExtStep, PTL DEF ExtSpec

\* What a thread fires through a model goes out once, in the order it was
\* fired, also while the model connects (ExtWire::send and its listener).
THEOREM LinkSentInOrder == Spec => []SentInOrder
BY LinkUsesExtWire, ExtWireCorrect, PTL

\* A connected model has nothing left in its queue (ExtWire.cpp).
THEOREM LinkNothingStuck == Spec => []NothingStuck
BY LinkUsesExtWire, ExtWireCorrect, PTL

\* Both, for the messages of every model of every connection (ExtWire.cpp).
THEOREM LinkSendSafe == Spec => []SendSafe
BY LinkSentInOrder, LinkNothingStuck, PTL DEF SendSafe

-----------------------------------------------------------------------------
(* Types of the link, in three groups.                                     *)

ActionNames == {"unbind", "unsubscribe", "disconnect", "end"}

TasksOf(c) == [kind : {"bind", "dispatched", "ended"}, connection : 0..c]

Places == Binding \union DOMAIN Running \union {Running[stage] : stage \in DOMAIN Running}
            \union {"idle", "taking", "moving", "erasing", "crashed"}

ConnectionTypes ==
  /\ connection \in Nat /\ link \in {"up", "ending", "down"}
  /\ actions \in Seq(ActionNames)
  /\ subscription \in 0..connection /\ model \in 0..connection /\ handler \in 0..connection
  /\ listed \in BOOLEAN /\ bound \in BOOLEAN /\ alive \in BOOLEAN /\ raced \in BOOLEAN

TaskTypes == tasks \in Seq(TasksOf(connection)) /\ main \in Places /\ orphans \in Nat

MessageTypes ==
  /\ default_scheduler_messages \in Seq(States) /\ custom_scheduler_messages \in Seq(States)
  /\ batch \in Seq(States) /\ toEditor \in Seq(States) /\ toRider \in Seq(States)
  /\ rider \in [bound : BOOLEAN, connected : BOOLEAN, bindings : Nat]

HasMessage == main \in {"run message", "run customs"} => batch # <<>>

LinkTypes == ConnectionTypes /\ TaskTypes /\ MessageTypes /\ HasMessage

LEMMA EndTypes ==
  ASSUME NEW S, NEW s \in Seq(S), s # <<>>
  PROVE  Front(s) \in Seq(S) /\ Last(s) \in S /\ Head(s) \in S /\ Tail(s) \in Seq(S)
  BY DEF Front, Last

LEMMA AppendType ==
  ASSUME NEW S, NEW s \in Seq(S), NEW x \in S
  PROVE  Append(s, x) \in Seq(S)
  OBVIOUS

LEMMA MoreTasks ==
  ASSUME NEW c \in Nat, NEW q \in Seq(TasksOf(c))
  PROVE  q \in Seq(TasksOf(c + 1))
<1>1. TasksOf(c) \subseteq TasksOf(c + 1)
  BY DEF TasksOf
<1> QED BY <1>1

LEMMA HasMessageKept ==
  ASSUME LinkTypes, [Next]_vars
  PROVE  HasMessage'
<1> USE DEF LinkTypes, HasMessage, lifetimeVars, brokerVars, mainVars, modelVars, riderVars, linkVars
<1>1. CASE WireThread
  BY <1>1 DEF WireThread, Connect, Dispatch, Enlist, Deliver, Disconnect, RunAction, Disconnected
<1>2. CASE BindModel \/ Subscribe \/ AddUnsubscribe \/ SendReady \/ AddDisconnect \/ Announce \/ EndModel
  <2>1. CASE BindModel \/ EndModel
    BY <2>1 DEF BindModel, EndModel, TakeTask, AddAction
  <2>2. CASE Subscribe \/ AddUnsubscribe \/ SendReady \/ AddDisconnect \/ Announce
    BY <2>2 DEF Subscribe, AddUnsubscribe, SendReady, AddDisconnect, Announce, AddAction
  <2> QED BY <1>2, <2>1, <2>2
<1>3. CASE StartDispatched \/ TakeMessage \/ TestEmpty \/ MoveOut \/ Erase \/ FinishDispatched
  BY <1>3 DEF StartDispatched, TakeTask, TakeMessage, TestEmpty, MoveOut, Erase, FinishDispatched
<1>4. CASE Invoke
  BY <1>4 DEF Invoke, Running
<1>5. CASE RunHandler
  BY <1>5 DEF RunHandler, Running
<1>6. CASE RunListener \/ FireAsyncAction \/ FinishSend \/ RiderBinds \/ RiderEnds \/ RiderReceives
  BY <1>6 DEF RunListener, FireAsyncAction, FinishSend, RiderBinds, RiderEnds, RiderReceives
<1>7. CASE UNCHANGED vars
  BY <1>7 DEF vars
<1> QED BY <1>1, <1>2, <1>3, <1>4, <1>5, <1>6, <1>7 DEF Next, SchedulerThread

LEMMA ConnectionTypesKept ==
  ASSUME LinkTypes, [Next]_vars
  PROVE  ConnectionTypes'
<1> USE DEF LinkTypes, ConnectionTypes, lifetimeVars, brokerVars, mainVars, modelVars, riderVars, linkVars
<1>1. CASE Connect \/ Dispatch \/ Disconnect \/ Disconnected
  <2>1. CASE Connect
    BY <2>1 DEF Connect, TakingAway
  <2>2. CASE Dispatch
    BY <2>2 DEF Dispatch, Enlist, Deliver, TakingAway
  <2>3. CASE Disconnect
    BY <2>3 DEF Disconnect, TakingAway
  <2>4. CASE Disconnected
    BY <2>4 DEF Disconnected, TakingAway
  <2> QED BY <1>1, <2>1, <2>2, <2>3, <2>4
<1>2. CASE RunAction
  <2>1. Front(actions) \in Seq(ActionNames)
    BY <1>2, EndTypes DEF RunAction
  <2>2. subscription' \in 0..connection
    BY <1>2 DEF RunAction
  <2>3. bound' \in BOOLEAN
    BY <1>2 DEF RunAction
  <2> QED BY <1>2, <2>1, <2>2, <2>3 DEF RunAction
<1>3. CASE BindModel
  <2>1. Head(tasks).connection \in 0..connection
    <3>1. Head(tasks) \in TasksOf(connection)
      BY <1>3, EndTypes DEF BindModel, TakeTask, TaskTypes
    <3> QED BY <3>1 DEF TasksOf
  <2> QED BY <1>3, <2>1 DEF BindModel, AddAction, ActionNames, Terminated
<1>4. CASE Subscribe \/ AddUnsubscribe \/ SendReady \/ AddDisconnect \/ Announce \/ EndModel
  <2>1. CASE Subscribe
    BY <2>1 DEF Subscribe, Terminated, ActionNames
  <2>2. CASE AddUnsubscribe
    <3>1. Append(actions, "unsubscribe") \in Seq(ActionNames)
      BY AppendType DEF ActionNames
    <3> QED BY <2>2, <3>1 DEF AddUnsubscribe, AddAction
  <2>3. CASE SendReady
    BY <2>3 DEF SendReady, Terminated, ActionNames
  <2>4. CASE AddDisconnect
    <3>1. Append(actions, "disconnect") \in Seq(ActionNames)
      BY AppendType DEF ActionNames
    <3> QED BY <2>4, <3>1 DEF AddDisconnect, AddAction
  <2>5. CASE Announce
    <3>1. Append(actions, "end") \in Seq(ActionNames)
      BY AppendType DEF ActionNames
    <3> QED BY <2>5, <3>1 DEF Announce, AddAction
  <2>6. CASE EndModel
    BY <2>6 DEF EndModel, TakeTask, Terminated, ActionNames
  <2> QED BY <1>4, <2>1, <2>2, <2>3, <2>4, <2>5, <2>6
<1>5. CASE StartDispatched \/ TakeMessage \/ Invoke \/ RunHandler \/ TestEmpty \/ MoveOut \/ Erase \/ FinishDispatched
  <2>1. CASE StartDispatched
    BY <2>1 DEF StartDispatched, TakeTask
  <2>2. CASE TakeMessage
    BY <2>2 DEF TakeMessage
  <2>3. CASE Invoke
    BY <2>3 DEF Invoke
  <2>4. CASE RunHandler
    BY <2>4 DEF RunHandler
  <2>5. CASE TestEmpty
    BY <2>5 DEF TestEmpty
  <2>6. CASE MoveOut
    BY <2>6 DEF MoveOut
  <2>7. CASE Erase
    BY <2>7 DEF Erase
  <2>8. CASE FinishDispatched
    BY <2>8 DEF FinishDispatched
  <2> QED BY <1>5, <2>1, <2>2, <2>3, <2>4, <2>5, <2>6, <2>7, <2>8
<1>6. CASE RunListener \/ FireAsyncAction \/ FinishSend \/ RiderBinds \/ RiderEnds \/ RiderReceives
  <2>1. CASE RunListener
    BY <2>1 DEF RunListener
  <2>2. CASE FireAsyncAction
    BY <2>2 DEF FireAsyncAction
  <2>3. CASE FinishSend
    BY <2>3 DEF FinishSend
  <2>4. CASE RiderBinds
    BY <2>4 DEF RiderBinds
  <2>5. CASE RiderEnds
    BY <2>5 DEF RiderEnds
  <2>6. CASE RiderReceives
    BY <2>6 DEF RiderReceives
  <2> QED BY <1>6, <2>1, <2>2, <2>3, <2>4, <2>5, <2>6
<1>7. CASE UNCHANGED vars
  BY <1>7 DEF vars
<1> QED BY <1>1, <1>2, <1>3, <1>4, <1>5, <1>6, <1>7 DEF Next, WireThread, SchedulerThread

LEMMA TaskTypesKept ==
  ASSUME LinkTypes, [Next]_vars
  PROVE  TaskTypes'
<1> USE DEF LinkTypes, TaskTypes, lifetimeVars, brokerVars, mainVars, modelVars, riderVars, linkVars
<1>1. CASE Connect
  <2>1. tasks \in Seq(TasksOf(connection + 1)) /\ Bind(connection + 1) \in TasksOf(connection + 1)
    <3>1. connection \in Nat /\ connection + 1 \in 0..(connection + 1)
      BY DEF ConnectionTypes
    <3>2. Bind(connection + 1) \in TasksOf(connection + 1)
      BY <3>1 DEF TasksOf, Bind, Task
    <3> QED BY <3>1, <3>2, MoreTasks
  <2> QED BY <1>1, <2>1 DEF Connect
<1>2. CASE Dispatch \/ RunAction
  <2>1. Dispatched \in TasksOf(connection) /\ Ended \in TasksOf(connection)
    BY DEF ConnectionTypes, TasksOf, Dispatched, Ended, Task
  <2>2. Append(tasks, Dispatched) \in Seq(TasksOf(connection)) /\ Append(tasks, Ended) \in Seq(TasksOf(connection))
    BY <2>1, AppendType
  <2>3. CASE Dispatch
    BY <2>2, <2>3 DEF Dispatch, Enlist, Deliver
  <2>4. CASE RunAction
    BY <2>2, <2>4 DEF RunAction
  <2> QED BY <1>2, <2>3, <2>4
<1>3. CASE Disconnect \/ Disconnected
  <2>1. CASE Disconnect
    BY <2>1 DEF Disconnect
  <2>2. CASE Disconnected
    BY <2>2 DEF Disconnected
  <2> QED BY <1>3, <2>1, <2>2
<1>4. CASE BindModel \/ EndModel \/ StartDispatched
  <2>1. tasks' \in Seq(TasksOf(connection)) /\ connection' = connection
    BY <1>4, EndTypes DEF BindModel, EndModel, StartDispatched, TakeTask
  <2>2. CASE BindModel
    BY <2>1, <2>2 DEF BindModel, TakeTask, AddAction, Places, Binding
  <2>3. CASE EndModel
    BY <2>1, <2>3 DEF EndModel
  <2>4. CASE StartDispatched
    BY <2>1, <2>4 DEF StartDispatched, Places
  <2> QED BY <1>4, <2>2, <2>3, <2>4
<1>5. CASE Subscribe \/ AddUnsubscribe \/ SendReady \/ AddDisconnect \/ Announce
  <2>1. CASE Subscribe
    BY <2>1 DEF Subscribe, Places, Binding
  <2>2. CASE AddUnsubscribe
    BY <2>2 DEF AddUnsubscribe, AddAction, Places, Binding
  <2>3. CASE SendReady
    BY <2>3 DEF SendReady, Places, Binding
  <2>4. CASE AddDisconnect
    BY <2>4 DEF AddDisconnect, AddAction, Places, Binding
  <2>5. CASE Announce
    BY <2>5 DEF Announce, AddAction, Places, Binding
  <2> QED BY <1>5, <2>1, <2>2, <2>3, <2>4, <2>5
<1>6. CASE TakeMessage \/ Invoke \/ RunHandler
  <2>1. CASE TakeMessage
    BY <2>1 DEF TakeMessage, Places, Running
  <2>2. CASE Invoke
    BY <2>2 DEF Invoke, Places, Running
  <2>3. CASE RunHandler
    BY <2>3 DEF RunHandler, Places, Running
  <2> QED BY <1>6, <2>1, <2>2, <2>3
<1>7. CASE TestEmpty \/ MoveOut \/ FinishDispatched
  <2>1. CASE TestEmpty
    BY <2>1 DEF TestEmpty, Places, Running
  <2>2. CASE MoveOut
    BY <2>2 DEF MoveOut, Places, Running
  <2>3. CASE FinishDispatched
    BY <2>3 DEF FinishDispatched, Places, Running
  <2> QED BY <1>7, <2>1, <2>2, <2>3
<1>8. CASE Erase
  <2>1. IsFiniteSet(1..Len(tasks)) /\ DOMAIN tasks = 1..Len(tasks)
    BY FS_Interval
  <2>2. orphans' \in Nat
    BY <1>8, <2>1, FS_Subset, FS_CardinalityType DEF Erase
  <2> QED BY <1>8, <2>2 DEF Erase, Places, Running
<1>9. CASE RunListener \/ FireAsyncAction \/ FinishSend \/ RiderBinds \/ RiderEnds \/ RiderReceives
  <2>1. CASE RunListener
    BY <2>1 DEF RunListener
  <2>2. CASE FireAsyncAction
    BY <2>2 DEF FireAsyncAction
  <2>3. CASE FinishSend
    BY <2>3 DEF FinishSend
  <2>4. CASE RiderBinds
    BY <2>4 DEF RiderBinds
  <2>5. CASE RiderEnds
    BY <2>5 DEF RiderEnds
  <2>6. CASE RiderReceives
    BY <2>6 DEF RiderReceives
  <2> QED BY <1>9, <2>1, <2>2, <2>3, <2>4, <2>5, <2>6
<1>10. CASE UNCHANGED vars
  BY <1>10 DEF vars
<1> QED BY <1>1, <1>2, <1>3, <1>4, <1>5, <1>6, <1>7, <1>8, <1>9, <1>10 DEF Next, WireThread, SchedulerThread

LEMMA MessageTypesKept ==
  ASSUME LinkTypes, [Next]_vars
  PROVE  MessageTypes'
<1> USE DEF LinkTypes, MessageTypes, lifetimeVars, brokerVars, mainVars, modelVars, riderVars, linkVars
<1>1. "Ready" \in States /\ "ReceivedCounterpart" \in States /\ "Disconnected" \in States /\ <<>> \in Seq(States)
  BY DEF States
<1>2. CASE Dispatch
  <2>1. Head(toEditor) \in States /\ Tail(toEditor) \in Seq(States)
    BY <1>2, EndTypes DEF Dispatch
  <2>2. /\ Append(default_scheduler_messages, Head(toEditor)) \in Seq(States)
        /\ Append(custom_scheduler_messages, Head(toEditor)) \in Seq(States)
        /\ Append(toRider, "ReceivedCounterpart") \in Seq(States)
    BY <1>1, <2>1, AppendType
  <2>3. CASE Enlist(Head(toEditor))
    BY <1>2, <2>1, <2>2, <2>3 DEF Dispatch, Enlist
  <2>4. CASE Deliver(Head(toEditor))
    BY <1>2, <2>1, <2>2, <2>4 DEF Dispatch, Deliver, Handle
  <2> QED BY <1>2, <2>3, <2>4 DEF Dispatch
<1>3. CASE Connect \/ Disconnect \/ RunAction \/ Disconnected
  <2>1. CASE Connect
    BY <1>1, <2>1 DEF Connect
  <2>2. CASE Disconnect
    BY <1>1, <2>2 DEF Disconnect
  <2>3. CASE RunAction
    BY <1>1, <2>3 DEF RunAction
  <2>4. CASE Disconnected
    BY <1>1, <2>4 DEF Disconnected
  <2> QED BY <1>3, <2>1, <2>2, <2>3, <2>4
<1>4. CASE BindModel \/ Subscribe \/ AddUnsubscribe \/ SendReady \/ AddDisconnect \/ Announce \/ EndModel
  <2>1. CASE BindModel
    BY <1>1, <2>1 DEF BindModel, TakeTask, AddAction
  <2>2. CASE Subscribe
    BY <1>1, <2>2 DEF Subscribe
  <2>3. CASE AddUnsubscribe
    BY <1>1, <2>3 DEF AddUnsubscribe, AddAction
  <2>4. CASE SendReady
    <3>1. Append(toRider, "Ready") \in Seq(States)
      BY <1>1, AppendType
    <3> QED BY <2>4, <3>1 DEF SendReady, Running
  <2>5. CASE AddDisconnect
    BY <1>1, <2>5 DEF AddDisconnect, AddAction
  <2>6. CASE Announce
    BY <1>1, <2>6 DEF Announce, AddAction
  <2>7. CASE EndModel
    BY <1>1, <2>7 DEF EndModel, TakeTask
  <2> QED BY <1>4, <2>1, <2>2, <2>3, <2>4, <2>5, <2>6, <2>7
<1>5. CASE TakeMessage
  <2>1. CASE default_scheduler_messages = <<>>
    BY <1>1, <1>5, <2>1 DEF TakeMessage
  <2>2. CASE default_scheduler_messages # <<>>
    <3>1. Head(default_scheduler_messages) \in States /\ Tail(default_scheduler_messages) \in Seq(States)
          /\ <<Head(default_scheduler_messages)>> \in Seq(States)
      BY <2>2, EndTypes
    <3>2. batch' \in Seq(States) /\ default_scheduler_messages' \in Seq(States)
      BY <1>1, <1>5, <2>2, <3>1 DEF TakeMessage
    <3> QED BY <1>5, <3>2 DEF TakeMessage, Running
  <2> QED BY <2>1, <2>2
<1>6. CASE Invoke
  <2>1. Tail(batch) \in Seq(States)
    BY <1>6, EndTypes DEF Invoke
  <2> QED BY <1>6, <2>1 DEF Invoke
<1>7. CASE RunHandler
  <2>1. batch' \in Seq(States)
    <3>1. main \in {"run message", "run customs"} /\ batch' = Tail(batch)
      <4>1. PICK stage \in DOMAIN Running : main = Running[stage]
        BY <1>7 DEF RunHandler
      <4>2. DOMAIN Running = {"message", "customs"} /\ Running["message"] = "run message"
            /\ Running["customs"] = "run customs"
        BY DEF Running
      <4> QED BY <1>7, <4>1, <4>2 DEF RunHandler
    <3> QED BY <3>1, EndTypes DEF HasMessage
  <2>2. Append(toRider, "ReceivedCounterpart") \in Seq(States)
    BY <1>1, AppendType
  <2> QED BY <1>7, <2>1, <2>2 DEF RunHandler, Handle, Running
<1>8. CASE StartDispatched \/ TestEmpty \/ MoveOut \/ Erase \/ FinishDispatched
  <2>1. CASE StartDispatched
    BY <1>1, <2>1 DEF StartDispatched, TakeTask
  <2>2. CASE TestEmpty
    BY <1>1, <2>2 DEF TestEmpty
  <2>3. CASE MoveOut
    BY <1>1, <2>3 DEF MoveOut
  <2>4. CASE Erase
    BY <1>1, <2>4 DEF Erase
  <2>5. CASE FinishDispatched
    BY <1>1, <2>5 DEF FinishDispatched
  <2> QED BY <1>8, <2>1, <2>2, <2>3, <2>4, <2>5
<1>9. CASE RunListener \/ FireAsyncAction \/ FinishSend
  <2>1. CASE RunListener
    BY <2>1 DEF RunListener
  <2>2. CASE FireAsyncAction
    BY <2>2 DEF FireAsyncAction
  <2>3. CASE FinishSend
    BY <2>3 DEF FinishSend
  <2> QED BY <1>9, <2>1, <2>2, <2>3
<1>10. CASE RiderBinds \/ RiderEnds
  <2>1. CASE RiderBinds
    BY <1>1, <2>1 DEF RiderBinds
  <2>2. CASE RiderEnds
    <3>1. Append(toEditor, "Disconnected") \in Seq(States)
      BY <1>1, AppendType
    <3>2. rider' \in [bound : BOOLEAN, connected : BOOLEAN, bindings : Nat]
      BY <2>2 DEF RiderEnds
    <3> QED BY <2>2, <3>1, <3>2 DEF RiderEnds
  <2> QED BY <1>10, <2>1, <2>2
<1>11. CASE RiderReceives
  <2>1. Tail(toRider) \in Seq(States)
    BY <1>11, EndTypes DEF RiderReceives
  <2>2. Append(toEditor, "ReceivedCounterpart") \in Seq(States)
    BY <1>1, AppendType
  <2>3. rider' \in [bound : BOOLEAN, connected : BOOLEAN, bindings : Nat]
    BY <1>11 DEF RiderReceives
  <2> QED BY <1>11, <2>1, <2>2, <2>3 DEF RiderReceives
<1>12. CASE UNCHANGED vars
  BY <1>12 DEF vars
<1> QED BY <1>2, <1>3, <1>4, <1>5, <1>6, <1>7, <1>8, <1>9, <1>10, <1>11, <1>12 DEF Next, WireThread, SchedulerThread

LEMMA InitLinkTypes == Init => LinkTypes
<1>1. Init => ConnectionTypes
  <2> SUFFICES ASSUME Init PROVE ConnectionTypes
    OBVIOUS
  <2>1. connection \in Nat /\ subscription \in 0..connection /\ model \in 0..connection /\ handler \in 0..connection
    BY DEF Init
  <2>2. actions \in Seq(ActionNames) /\ link \in {"up", "ending", "down"}
    BY DEF Init
  <2>3. listed \in BOOLEAN /\ bound \in BOOLEAN /\ alive \in BOOLEAN /\ raced \in BOOLEAN
    BY DEF Init
  <2> QED BY <2>1, <2>2, <2>3 DEF ConnectionTypes
<1>2. Init => TaskTypes
  BY DEF Init, TaskTypes, Places
<1>3. Init => MessageTypes /\ HasMessage
  BY DEF Init, MessageTypes, HasMessage
<1> QED BY <1>1, <1>2, <1>3 DEF LinkTypes

\* The variables of the link and of its ExtWire keep their types
\* (RiderLink.cpp, RdExtBase.cpp, MessageBroker.cpp, ExtWire.cpp).
THEOREM LinkTypeCorrect == Spec => []TypeOK
<1>1. Init => LinkTypes
  BY InitLinkTypes
<1>2. LinkTypes /\ [Next]_vars => LinkTypes'
  BY ConnectionTypesKept, TaskTypesKept, MessageTypesKept, HasMessageKept DEF LinkTypes
<1>3. ExtInv /\ LinkTypes => TypeOK
  BY DEF TypeOK, ExtInv, LinkTypes, ConnectionTypes, TaskTypes, MessageTypes, ActionNames, TasksOf, Places
<1>4. Spec => []LinkTypes
  BY <1>1, <1>2, PTL DEF Spec
<1>5. Spec => []ExtInv
  BY LinkUsesExtWire, NewExtWireInv, ExtStep, PTL DEF ExtSpec
<1> QED BY <1>3, <1>4, <1>5, PTL

-----------------------------------------------------------------------------
(***************************************************************************)
(* The handshake.  p are the messages the editor has still to handle, r    *)
(* those on their way to Rider's end, which has a model if "there" and     *)
(* knows of the editor's if "knows"; "known" is what the editor knows.     *)
(***************************************************************************)

Has(q, x) == \E i \in 1..Len(q) : q[i] = x

\* Whatever says that the editor's model is gone is older than one that greets.
Outdated(r) ==
  \A i \in 1..Len(r) : r[i] = "Disconnected" => \E j \in (i + 1)..Len(r) : r[j] = "Ready"

Talk(p, r, there, knows, known) ==
  /\ Outdated(r)
  /\ there /\ ~Has(r, "Ready") =>
       /\ p = <<>> => known
       /\ p # <<>> => p[Len(p)] # "Disconnected"
       /\ knows \/ Has(r, "ReceivedCounterpart") \/ Has(p, "Ready")

LEMMA Appended ==
  ASSUME NEW S, NEW s \in Seq(S), NEW x \in S
  PROVE  /\ Append(s, x) \in Seq(S) /\ Append(s, x) # <<>> /\ Append(s, x)[Len(Append(s, x))] = x
         /\ Len(s) \in Nat /\ Len(Append(s, x)) = Len(s) + 1 /\ Append(s, x)[Len(s) + 1] = x
         /\ \A i \in 1..Len(s) : Append(s, x)[i] = s[i]
         /\ \A y : Has(Append(s, x), y) <=> Has(s, y) \/ x = y
<1> DEFINE t == Append(s, x)
<1>1. t \in Seq(S) /\ t # <<>> /\ Len(t) = Len(s) + 1 /\ Len(s) \in Nat /\ t[Len(s) + 1] = x
  OBVIOUS
<1>2. \A i \in 1..Len(s) : t[i] = s[i] /\ i \in 1..Len(t)
  OBVIOUS
<1> HIDE DEF t
<1>3. ASSUME NEW y PROVE Has(t, y) <=> Has(s, y) \/ x = y
  <2>1. Has(t, y) => Has(s, y) \/ x = y
    <3> SUFFICES ASSUME NEW i \in 1..Len(t), t[i] = y PROVE Has(s, y) \/ x = y
      BY DEF Has
    <3>1. i = Len(s) + 1 \/ i \in 1..Len(s)
      BY <1>1
    <3> QED BY <1>1, <1>2, <3>1 DEF Has
  <2>2. Has(s, y) => Has(t, y)
    BY <1>2 DEF Has
  <2>3. x = y => Has(t, y)
    <3>1. Len(s) + 1 \in 1..Len(t)
      BY <1>1
    <3> QED BY <1>1, <3>1 DEF Has
  <2> QED BY <2>1, <2>2, <2>3
<1> QED BY <1>1, <1>2, <1>3 DEF t

LEMMA Taken ==
  ASSUME NEW S, NEW s \in Seq(S), s # <<>>
  PROVE  /\ Head(s) \in S /\ Tail(s) \in Seq(S) /\ Len(s) \in Nat /\ Len(s) >= 1 /\ Len(Tail(s)) = Len(s) - 1
         /\ Head(s) = s[1]
         /\ \A i \in 1..Len(Tail(s)) : Tail(s)[i] = s[i + 1] /\ i + 1 \in 1..Len(s)
         /\ \A i \in 1..Len(s) : i # 1 => i - 1 \in 1..Len(Tail(s)) /\ Tail(s)[i - 1] = s[i]
         /\ \A y : Has(s, y) <=> Head(s) = y \/ Has(Tail(s), y)
         /\ Tail(s) # <<>> => Tail(s)[Len(Tail(s))] = s[Len(s)]
         /\ Tail(s) = <<>> => s[Len(s)] = Head(s)
<1> DEFINE t == Tail(s)
<1>1. Head(s) \in S /\ t \in Seq(S) /\ Len(t) = Len(s) - 1 /\ Len(s) \in Nat /\ Len(s) >= 1 /\ Head(s) = s[1]
  OBVIOUS
<1>2. \A i \in 1..Len(t) : t[i] = s[i + 1] /\ i + 1 \in 1..Len(s)
  OBVIOUS
<1>3. t # <<>> => Len(t) >= 1
  OBVIOUS
<1> HIDE DEF t
<1>4. t = <<>> => Len(t) = 0
  OBVIOUS
<1>5. \A i \in 1..Len(s) : i # 1 => i - 1 \in 1..Len(t) /\ t[i - 1] = s[i]
  <2> SUFFICES ASSUME NEW i \in 1..Len(s), i # 1 PROVE i - 1 \in 1..Len(t) /\ t[i - 1] = s[i]
    OBVIOUS
  <2>1. i - 1 \in 1..Len(t) /\ (i - 1) + 1 = i
    BY <1>1
  <2> QED BY <1>2, <2>1
<1>6. ASSUME NEW y PROVE Has(s, y) <=> Head(s) = y \/ Has(t, y)
  <2>1. Has(s, y) => Head(s) = y \/ Has(t, y)
    BY <1>1, <1>5 DEF Has
  <2>2. Head(s) = y => Has(s, y)
    <3>1. 1 \in 1..Len(s)
      BY <1>1
    <3> QED BY <1>1, <3>1 DEF Has
  <2>3. Has(t, y) => Has(s, y)
    BY <1>2 DEF Has
  <2> QED BY <2>1, <2>2, <2>3
<1>7. t # <<>> => t[Len(t)] = s[Len(s)]
  <2> SUFFICES ASSUME t # <<>> PROVE t[Len(t)] = s[Len(s)]
    OBVIOUS
  <2>1. Len(t) \in 1..Len(t) /\ Len(t) + 1 = Len(s)
    BY <1>1, <1>3
  <2> QED BY <1>2, <2>1
<1>8. t = <<>> => s[Len(s)] = Head(s)
  BY <1>1, <1>4
<1> QED BY <1>1, <1>2, <1>5, <1>6, <1>7, <1>8 DEF t

\* The editor handles the next message.
LEMMA TalkHandled ==
  ASSUME NEW p \in Seq(States), p # <<>>, NEW r \in Seq(States), NEW there, NEW knows, NEW known,
         NEW r2, r2 = IF Head(p) = "Ready" THEN Append(r, "ReceivedCounterpart") ELSE r,
         Talk(p, r, there, knows, known)
  PROVE  Talk(Tail(p), r2, there, knows, Head(p) # "Disconnected")
<1>0. "ReceivedCounterpart" \in States /\ "ReceivedCounterpart" # "Ready" /\ "ReceivedCounterpart" # "Disconnected"
  BY DEF States
<1>1. Outdated(r2)
  <2>1. CASE r2 = r
    BY <2>1 DEF Talk
  <2>2. CASE r2 = Append(r, "ReceivedCounterpart")
    <3> SUFFICES ASSUME NEW i \in 1..Len(r2), r2[i] = "Disconnected"
                 PROVE  \E j \in (i + 1)..Len(r2) : r2[j] = "Ready"
      BY DEF Outdated
    <3>1. Len(r2) = Len(r) + 1 /\ Len(r) \in Nat /\ r2[Len(r) + 1] = "ReceivedCounterpart"
          /\ \A k \in 1..Len(r) : r2[k] = r[k]
      BY <1>0, <2>2, Appended
    <3>2. i \in 1..Len(r)
      BY <1>0, <3>1
    <3>3. PICK j \in (i + 1)..Len(r) : r[j] = "Ready"
      BY <3>1, <3>2 DEF Talk, Outdated
    <3>4. j \in (i + 1)..Len(r2) /\ j \in 1..Len(r)
      BY <3>1, <3>2, <3>3
    <3> QED BY <3>1, <3>3, <3>4
  <2> QED BY <2>1, <2>2
<1>2. Has(r, "Ready") => Has(r2, "Ready")
  BY <1>0, Appended
<1>3. Has(r, "ReceivedCounterpart") => Has(r2, "ReceivedCounterpart")
  BY <1>0, Appended
<1>4. Head(p) = "Ready" => Has(r2, "ReceivedCounterpart")
  BY <1>0, Appended
<1>5. /\ \A y : Has(p, y) <=> Head(p) = y \/ Has(Tail(p), y)
      /\ Tail(p) # <<>> => Tail(p)[Len(Tail(p))] = p[Len(p)]
      /\ Tail(p) = <<>> => p[Len(p)] = Head(p)
  BY Taken
<1> QED BY <1>1, <1>2, <1>3, <1>4, <1>5 DEF Talk

\* Rider's end has a new model.
LEMMA TalkRiderBinds ==
  ASSUME NEW p \in Seq(States), NEW r, NEW there, NEW knows, NEW known, Talk(p, r, there, knows, known)
  PROVE  Talk(Append(p, "Ready"), r, TRUE, FALSE, known)
<1>1. "Ready" \in States /\ "Ready" # "Disconnected"
  BY DEF States
<1> QED BY <1>1, Appended DEF Talk

\* It handles a message, or drops it.
LEMMA TalkRiderReceives ==
  ASSUME NEW p \in Seq(States), NEW r \in Seq(States), r # <<>>, NEW there \in BOOLEAN, NEW knows, NEW known,
         NEW p2, p2 = IF there /\ Head(r) = "Ready" THEN Append(p, "ReceivedCounterpart") ELSE p,
         Talk(p, r, there, knows, known)
  PROVE  Talk(p2, Tail(r), there, there /\ Head(r) # "Disconnected", known)
<1>0. "ReceivedCounterpart" \in States /\ "ReceivedCounterpart" # "Ready" /\ "ReceivedCounterpart" # "Disconnected"
      /\ "Ready" # "Disconnected"
  BY DEF States
<1>1. /\ Head(r) \in States /\ Head(r) = r[1] /\ Len(Tail(r)) = Len(r) - 1 /\ Len(r) \in Nat /\ Len(r) >= 1
      /\ \A i \in 1..Len(Tail(r)) : Tail(r)[i] = r[i + 1] /\ i + 1 \in 1..Len(r)
      /\ \A i \in 1..Len(r) : i # 1 => i - 1 \in 1..Len(Tail(r)) /\ Tail(r)[i - 1] = r[i]
      /\ \A y : Has(r, y) <=> Head(r) = y \/ Has(Tail(r), y)
  BY Taken
<1>2. Outdated(Tail(r))
  <2> SUFFICES ASSUME NEW i \in 1..Len(Tail(r)), Tail(r)[i] = "Disconnected"
               PROVE  \E j \in (i + 1)..Len(Tail(r)) : Tail(r)[j] = "Ready"
    BY DEF Outdated
  <2>1. r[i + 1] = "Disconnected" /\ i + 1 \in 1..Len(r)
    BY <1>1
  <2>2. PICK j \in (i + 1 + 1)..Len(r) : r[j] = "Ready"
    BY <2>1 DEF Talk, Outdated
  <2>3. j \in 1..Len(r) /\ j # 1 /\ j - 1 \in (i + 1)..Len(Tail(r))
    BY <1>1, <2>1, <2>2
  <2> QED BY <1>1, <2>2, <2>3
<1>3. Head(r) = "Disconnected" => Has(Tail(r), "Ready")
  <2> SUFFICES ASSUME Head(r) = "Disconnected" PROVE Has(Tail(r), "Ready")
    OBVIOUS
  <2>1. 1 \in 1..Len(r) /\ r[1] = "Disconnected"
    BY <1>1
  <2>2. PICK j \in (1 + 1)..Len(r) : r[j] = "Ready"
    BY <2>1 DEF Talk, Outdated
  <2>3. j \in 1..Len(r) /\ j # 1
    BY <1>1, <2>2
  <2> QED BY <1>1, <2>2, <2>3 DEF Has
<1>4. CASE Head(r) = "Disconnected"
  BY <1>2, <1>3, <1>4 DEF Talk
<1>5. CASE Head(r) = "Ready"
  <2>1. CASE there
    <3>1. p2 = Append(p, "ReceivedCounterpart") /\ p2 # <<>> /\ p2[Len(p2)] = "ReceivedCounterpart"
      BY <1>0, <1>5, <2>1, Appended
    <3> QED BY <1>0, <1>2, <1>5, <2>1, <3>1 DEF Talk
  <2>2. CASE ~there
    BY <1>2, <2>2 DEF Talk
  <2> QED BY <2>1, <2>2
<1>6. CASE Head(r) = "ReceivedCounterpart"
  <2>1. p2 = p
    BY <1>0, <1>6
  <2>2. Has(r, "Ready") <=> Has(Tail(r), "Ready")
    BY <1>0, <1>1, <1>6
  <2> QED BY <1>0, <1>2, <1>6, <2>1, <2>2 DEF Talk
<1> QED BY <1>1, <1>4, <1>5, <1>6 DEF States

\* The editor greets, and with that the talk begins.
LEMMA TalkBegins ==
  ASSUME NEW p, NEW r \in Seq(States), NEW there, NEW knows, NEW known
  PROVE  Talk(p, Append(r, "Ready"), there, knows, known)
<1> DEFINE r2 == Append(r, "Ready")
<1>0. "Ready" \in States /\ "Ready" # "Disconnected"
  BY DEF States
<1>1. Has(r2, "Ready") /\ Len(r2) = Len(r) + 1 /\ Len(r) \in Nat /\ r2[Len(r) + 1] = "Ready"
  BY <1>0, Appended
<1> HIDE DEF r2
<1>2. Outdated(r2)
  <2> SUFFICES ASSUME NEW i \in 1..Len(r2), r2[i] = "Disconnected"
               PROVE  \E j \in (i + 1)..Len(r2) : r2[j] = "Ready"
    BY DEF Outdated
  <2>1. Len(r) + 1 \in (i + 1)..Len(r2)
    BY <1>0, <1>1
  <2> QED BY <1>1, <2>1
<1> QED BY <1>1, <1>2 DEF Talk, r2

-----------------------------------------------------------------------------
(***************************************************************************)
(* The rest of the invariant: the scheduler's queue, the subscription, the *)
(* broker's entry, and that the talk goes on once the editor has greeted.  *)
(***************************************************************************)

Waiting(s) == {i \in DOMAIN s : s[i] = Dispatched}
Count(s) == Cardinality(Waiting(s))

\* The scheduler's queue: the models are bound in the order of the connections,
\* the last connection's is bound or going to be.
Bindings ==
  /\ \A i \in 1..Len(tasks) : tasks[i].kind = "dispatched" => tasks[i] = Dispatched
  /\ \A i, j \in 1..Len(tasks) : i < j /\ tasks[i].kind = "bind" /\ tasks[j].kind = "bind" =>
       tasks[i].connection < tasks[j].connection
  /\ model = connection => \A i \in 1..Len(tasks) : tasks[i].kind # "bind"
  /\ model # connection => \E i \in 1..Len(tasks) : tasks[i] = Bind(connection)

\* The model of a connection that stands.
Standing == link = "up" /\ model = connection

Subscribed ==
  /\ link = "up" => connection > 0
  /\ Standing => bound /\ (main # "advising" => subscription = model)

LEMMA CountFacts ==
  ASSUME NEW S, NEW s \in Seq(S)
  PROVE  /\ IsFiniteSet(Waiting(s)) /\ Count(s) \in Nat /\ (s = <<>> => Count(s) = 0)
         /\ Count(s) > 0 => s # <<>>
<1>1. DOMAIN s = 1..Len(s) /\ Len(s) \in Nat
  OBVIOUS
<1>2. IsFiniteSet(DOMAIN s)
  BY <1>1, FS_Interval
<1>3. IsFiniteSet(Waiting(s)) /\ Count(s) \in Nat
  BY <1>2, FS_Subset, FS_CardinalityType DEF Waiting, Count
<1>4. s = <<>> => Count(s) = 0
  <2>1. s = <<>> => Waiting(s) = {}
    BY DEF Waiting
  <2> QED BY <2>1, FS_EmptySet DEF Count
<1> QED BY <1>3, <1>4

LEMMA CountAppend ==
  ASSUME NEW S, NEW s \in Seq(S), NEW x \in S
  PROVE  Count(Append(s, x)) = Count(s) + IF x = Dispatched THEN 1 ELSE 0
<1> DEFINE t == Append(s, x)
<1>1. DOMAIN s = 1..Len(s) /\ Len(s) \in Nat /\ DOMAIN t = 1..Len(t) /\ Len(t) = Len(s) + 1
      /\ t[Len(s) + 1] = x /\ \A i \in 1..Len(s) : t[i] = s[i]
  OBVIOUS
<1> HIDE DEF t
<1>2. Len(s) + 1 \notin Waiting(s)
  BY <1>1 DEF Waiting
<1>3. Waiting(t) = IF x = Dispatched THEN Waiting(s) \cup {Len(s) + 1} ELSE Waiting(s)
  <2>1. \A i \in DOMAIN t : i \in DOMAIN s \/ i = Len(s) + 1
    BY <1>1
  <2>2. \A i \in DOMAIN s : i \in DOMAIN t
    BY <1>1
  <2>3. Len(s) + 1 \in DOMAIN t
    BY <1>1
  <2> QED BY <1>1, <2>1, <2>2, <2>3 DEF Waiting
<1>4. Cardinality(Waiting(s) \cup {Len(s) + 1}) = Cardinality(Waiting(s)) + 1
  BY <1>2, CountFacts, FS_AddElement
<1>5. Cardinality(Waiting(s)) \in Nat
  BY CountFacts DEF Count
<1> QED BY <1>3, <1>4, <1>5 DEF Count, t

LEMMA CountTail ==
  ASSUME NEW S, NEW s \in Seq(S), s # <<>>
  PROVE  Count(s) = Count(Tail(s)) + IF Head(s) = Dispatched THEN 1 ELSE 0
<1> DEFINE t == Tail(s)
<1>1. DOMAIN s = 1..Len(s) /\ Len(s) \in Nat /\ Len(s) >= 1 /\ DOMAIN t = 1..Len(t) /\ Len(t) = Len(s) - 1
      /\ Head(s) = s[1] /\ t \in Seq(S)
  OBVIOUS
<1>2. \A i \in 1..Len(t) : t[i] = s[i + 1] /\ i + 1 \in 1..Len(s)
  OBVIOUS
<1> HIDE DEF t
<1> DEFINE rest == Waiting(s) \ {1}
<1>3. IsFiniteSet(Waiting(s)) /\ IsFiniteSet(rest)
      /\ Cardinality(rest) = IF 1 \in Waiting(s) THEN Cardinality(Waiting(s)) - 1 ELSE Cardinality(Waiting(s))
  BY CountFacts, FS_RemoveElement
<1>4. 1 \in Waiting(s) <=> Head(s) = Dispatched
  BY <1>1 DEF Waiting
<1>5. Cardinality(rest) = Cardinality(Waiting(t))
  <2> DEFINE f == [i \in rest |-> i - 1]
  <2>1. \A i \in rest : i - 1 \in Waiting(t)
    <3> SUFFICES ASSUME NEW i \in rest PROVE i - 1 \in Waiting(t)
      OBVIOUS
    <3>1. i \in 1..Len(s) /\ i # 1 /\ s[i] = Dispatched
      BY <1>1 DEF Waiting
    <3>2. i - 1 \in 1..Len(t) /\ (i - 1) + 1 = i
      BY <1>1, <3>1
    <3> QED BY <1>1, <1>2, <3>1, <3>2 DEF Waiting
  <2>2. \A j \in Waiting(t) : j + 1 \in rest /\ (j + 1) - 1 = j
    <3> SUFFICES ASSUME NEW j \in Waiting(t) PROVE j + 1 \in rest /\ (j + 1) - 1 = j
      OBVIOUS
    <3>1. j \in 1..Len(t) /\ t[j] = Dispatched
      BY <1>1 DEF Waiting
    <3> QED BY <1>1, <1>2, <3>1 DEF Waiting
  <2>3. \A i \in rest : i \in Int
    BY <1>1 DEF Waiting
  <2> HIDE DEF rest
  <2>4. f \in Bijection(rest, Waiting(t))
    <3>1. f \in [rest -> Waiting(t)]
      BY <2>1
    <3>2. \A a, b \in rest : f[a] = f[b] => a = b
      BY <2>3
    <3>3. \A j \in Waiting(t) : \E a \in rest : f[a] = j
      BY <2>2
    <3>4. DOMAIN f = rest
      OBVIOUS
    <3> HIDE DEF f
    <3> QED BY <3>1, <3>2, <3>3, <3>4 DEF Bijection, Injection, Surjection, IsInjective
  <2>5. ExistsBijection(rest, Waiting(t))
    BY <2>4 DEF ExistsBijection
  <2> QED BY <1>3, <2>5, FS_Bijection DEF rest
<1>6. Cardinality(Waiting(s)) \in Nat /\ Cardinality(Waiting(t)) \in Nat
  BY <1>1, CountFacts DEF Count
<1> QED BY <1>3, <1>4, <1>5, <1>6 DEF Count, t

\* The steps that leave the scheduler's queue and the models alone.
LEMMA BindingsSame ==
  ASSUME Bindings, UNCHANGED <<tasks, model, connection>>
  PROVE  Bindings'
BY DEF Bindings

LEMMA BindingsAppended ==
  ASSUME LinkTypes, Bindings, NEW t \in {Dispatched, Ended}, tasks' = Append(tasks, t),
         model' = model, connection' = connection
  PROVE  Bindings'
<1>1. t.kind # "bind" /\ (t.kind = "dispatched" => t = Dispatched)
  BY DEF Dispatched, Ended, Task
<1>2. tasks \in Seq(TasksOf(connection))
  BY DEF LinkTypes, TaskTypes
<1>3. /\ Len(tasks') = Len(tasks) + 1 /\ Len(tasks) \in Nat /\ tasks'[Len(tasks) + 1] = t
      /\ \A i \in 1..Len(tasks) : tasks'[i] = tasks[i] /\ i \in 1..Len(tasks')
  BY <1>2
<1>4. \A i \in 1..Len(tasks') : tasks'[i].kind = "bind" => i \in 1..Len(tasks)
  BY <1>1, <1>3
<1>5. \A i \in 1..Len(tasks') : tasks'[i].kind = "dispatched" => tasks'[i] = Dispatched
  BY <1>1, <1>3 DEF Bindings
<1> QED BY <1>3, <1>4, <1>5 DEF Bindings

LEMMA BindingsTaken ==
  ASSUME LinkTypes, Bindings, tasks # <<>>, tasks' = Tail(tasks), connection' = connection,
         model' = IF Head(tasks).kind = "bind" THEN Head(tasks).connection ELSE model
  PROVE  Bindings'
<1>1. tasks \in Seq(TasksOf(connection)) /\ connection \in Nat
  BY DEF LinkTypes, TaskTypes, ConnectionTypes
<1>2. /\ Head(tasks) \in TasksOf(connection) /\ Head(tasks) = tasks[1] /\ Len(tasks) \in Nat /\ Len(tasks) >= 1
      /\ Len(tasks') = Len(tasks) - 1
      /\ \A i \in 1..Len(tasks') : tasks'[i] = tasks[i + 1] /\ i + 1 \in 1..Len(tasks)
      /\ \A i \in 1..Len(tasks) : i # 1 => i - 1 \in 1..Len(tasks') /\ tasks'[i - 1] = tasks[i]
  BY <1>1, Taken
<1>3. \A i \in 1..Len(tasks') : tasks'[i].kind = "dispatched" => tasks'[i] = Dispatched
  BY <1>2 DEF Bindings
<1>4. \A i, j \in 1..Len(tasks') : i < j /\ tasks'[i].kind = "bind" /\ tasks'[j].kind = "bind" =>
        tasks'[i].connection < tasks'[j].connection
  <2>1. \A i, j \in 1..Len(tasks') : i < j => i + 1 < j + 1
    OBVIOUS
  <2> QED BY <1>2, <2>1 DEF Bindings
<1>5. 1 \in 1..Len(tasks)
  BY <1>2
<1>6. CASE Head(tasks).kind # "bind"
  <2>1. model' = model
    BY <1>6
  <2>2. model = connection => \A i \in 1..Len(tasks') : tasks'[i].kind # "bind"
    BY <1>2 DEF Bindings
  <2>3. model # connection => \E i \in 1..Len(tasks') : tasks'[i] = Bind(connection)
    <3> SUFFICES ASSUME model # connection PROVE \E i \in 1..Len(tasks') : tasks'[i] = Bind(connection)
      OBVIOUS
    <3>1. PICK i \in 1..Len(tasks) : tasks[i] = Bind(connection)
      BY DEF Bindings
    <3>2. i # 1
      BY <1>2, <1>6, <3>1 DEF Bind, Task
    <3> QED BY <1>2, <3>1, <3>2
  <2> QED BY <1>3, <1>4, <2>1, <2>2, <2>3 DEF Bindings
<1>7. CASE Head(tasks).kind = "bind"
  <2>1. model' = Head(tasks).connection
    BY <1>7
  <2>2. model # connection
    BY <1>2, <1>5, <1>7 DEF Bindings
  <2>3. PICK k \in 1..Len(tasks) : tasks[k] = Bind(connection)
    BY <2>2 DEF Bindings
  <2>4. tasks[k].kind = "bind" /\ tasks[k].connection = connection
    BY <2>3 DEF Bind, Task
  <2>5. ASSUME model' = connection
        PROVE  \A i \in 1..Len(tasks') : tasks'[i].kind # "bind"
    <3> SUFFICES ASSUME NEW i \in 1..Len(tasks'), tasks'[i].kind = "bind" PROVE FALSE
      OBVIOUS
    <3>1. tasks[i + 1].kind = "bind" /\ i + 1 \in 1..Len(tasks) /\ 1 < i + 1
      BY <1>2
    <3>2. tasks[1].connection < tasks[i + 1].connection
      BY <1>2, <1>5, <1>7, <3>1 DEF Bindings
    <3>3. tasks[i + 1] \in TasksOf(connection)
      BY <1>1, <3>1
    <3>4. tasks[i + 1].connection \in 0..connection
      BY <3>3 DEF TasksOf
    <3>5. tasks[1].connection = connection
      BY <1>2, <2>1, <2>5
    <3> HIDE DEF Bindings
    <3> QED BY <1>1, <3>2, <3>4, <3>5
  <2>6. ASSUME model' # connection
        PROVE  \E i \in 1..Len(tasks') : tasks'[i] = Bind(connection)
    <3>1. k # 1
      BY <1>2, <2>1, <2>4, <2>6
    <3> QED BY <1>2, <2>3, <3>1
  <2> QED BY <1>3, <1>4, <2>5, <2>6 DEF Bindings
<1> QED BY <1>6, <1>7

LEMMA BindingsConnect ==
  ASSUME LinkTypes, Bindings, Connect
  PROVE  Bindings'
<1>1. tasks \in Seq(TasksOf(connection)) /\ connection \in Nat /\ model \in 0..connection
  BY DEF LinkTypes, TaskTypes, ConnectionTypes
<1> DEFINE t == Bind(connection + 1)
<1>2. tasks' = Append(tasks, t) /\ model' = model /\ connection' = connection + 1
  BY DEF Connect, modelVars
<1>3. t.kind = "bind" /\ t.connection = connection + 1 /\ t = Bind(connection')
  BY <1>2 DEF Bind, Task
<1> HIDE DEF t
<1>4. /\ Len(tasks') = Len(tasks) + 1 /\ Len(tasks) \in Nat /\ tasks'[Len(tasks) + 1] = t
      /\ \A i \in 1..Len(tasks) : tasks'[i] = tasks[i] /\ i \in 1..Len(tasks') /\ tasks[i] \in TasksOf(connection)
  BY <1>1, <1>2
<1>5. \A i \in 1..Len(tasks') : i \in 1..Len(tasks) \/ i = Len(tasks) + 1
  BY <1>4
<1>6. \A i \in 1..Len(tasks) : tasks[i].connection \in 0..connection
  BY <1>4 DEF TasksOf
<1>7. \A i \in 1..Len(tasks') : tasks'[i].kind = "dispatched" => tasks'[i] = Dispatched
  BY <1>3, <1>4, <1>5 DEF Bindings
<1>8. ASSUME NEW i \in 1..Len(tasks'), NEW j \in 1..Len(tasks'), i < j,
             tasks'[i].kind = "bind", tasks'[j].kind = "bind"
      PROVE  tasks'[i].connection < tasks'[j].connection
  <2>1. i \in 1..Len(tasks)
    BY <1>4, <1>5, <1>8
  <2>2. CASE j \in 1..Len(tasks)
    BY <1>4, <1>8, <2>1, <2>2 DEF Bindings
  <2>3. CASE j = Len(tasks) + 1
    <3>1. tasks'[j].connection = connection + 1
      BY <1>3, <1>4, <2>3
    <3>2. tasks'[i].connection \in 0..connection
      BY <1>4, <1>6, <2>1
    <3> QED BY <1>1, <3>1, <3>2
  <2> QED BY <1>5, <2>2, <2>3
<1>9. model' # connection'
  BY <1>1, <1>2
<1>10. Len(tasks) + 1 \in 1..Len(tasks')
  BY <1>4
<1> QED BY <1>3, <1>4, <1>7, <1>8, <1>9, <1>10 DEF Bindings

LEMMA RunningFacts ==
  /\ DOMAIN Running = {"message", "customs"}
  /\ Running["message"] = "run message" /\ Running["customs"] = "run customs"
BY DEF Running

\* How a step takes or adds a task.
LEMMA TaskSteps ==
  ASSUME [Next]_vars
  PROVE  \/ Connect
         \/ \E t \in {Dispatched, Ended} : tasks' = Append(tasks, t) /\ model' = model /\ connection' = connection
         \/ /\ tasks # <<>> /\ tasks' = Tail(tasks) /\ connection' = connection
            /\ model' = IF Head(tasks).kind = "bind" THEN Head(tasks).connection ELSE model
         \/ UNCHANGED <<tasks, model, connection>>
<1> USE DEF lifetimeVars, brokerVars, mainVars, modelVars, riderVars, linkVars
<1>1. CASE WireThread
  <2>1. CASE Dispatch
    BY <2>1 DEF Dispatch, Enlist, Deliver
  <2>2. CASE RunAction
    BY <2>2 DEF RunAction
  <2>3. CASE Disconnect \/ Disconnected
    BY <2>3 DEF Disconnect, Disconnected
  <2> QED BY <1>1, <2>1, <2>2, <2>3 DEF WireThread
<1>2. CASE BindModel
  BY <1>2 DEF BindModel, TakeTask
<1>3. CASE EndModel \/ StartDispatched
  <2>1. "ended" # "bind" /\ "dispatched" # "bind"
    OBVIOUS
  <2> QED BY <1>3, <2>1 DEF EndModel, StartDispatched, TakeTask
<1>4. CASE Subscribe \/ AddUnsubscribe \/ SendReady \/ AddDisconnect \/ Announce
  BY <1>4 DEF Subscribe, AddUnsubscribe, SendReady, AddDisconnect, Announce
<1>5. CASE TakeMessage \/ Invoke \/ RunHandler \/ TestEmpty \/ MoveOut \/ Erase \/ FinishDispatched
  BY <1>5 DEF TakeMessage, Invoke, RunHandler, TestEmpty, MoveOut, Erase, FinishDispatched
<1>6. CASE RunListener \/ FireAsyncAction \/ FinishSend \/ RiderBinds \/ RiderEnds \/ RiderReceives
  BY <1>6 DEF RunListener, FireAsyncAction, FinishSend, RiderBinds, RiderEnds, RiderReceives
<1>7. CASE UNCHANGED vars
  BY <1>7 DEF vars
<1> QED BY <1>1, <1>2, <1>3, <1>4, <1>5, <1>6, <1>7 DEF Next, SchedulerThread

LEMMA BindingsKept ==
  ASSUME LinkTypes, Bindings, [Next]_vars
  PROVE  Bindings'
BY TaskSteps, BindingsConnect, BindingsAppended, BindingsTaken, BindingsSame

LEMMA SubscribedKept ==
  ASSUME LinkTypes, Subscribed, [Next]_vars
  PROVE  Subscribed'
<1> USE DEF lifetimeVars, brokerVars, mainVars, modelVars, riderVars, linkVars
<1>0. connection \in Nat /\ model \in 0..connection /\ link \in {"up", "ending", "down"}
  BY DEF LinkTypes, ConnectionTypes
<1>1. CASE UNCHANGED <<link, model, connection, bound, subscription>> /\ (main' # main => main # "advising")
  BY <1>1 DEF Subscribed, Standing
<1>2. CASE Connect
  BY <1>0, <1>2 DEF Connect, Subscribed, Standing
<1>3. CASE Disconnect \/ Disconnected
  BY <1>3 DEF Disconnect, Disconnected, Subscribed, Standing
<1>4. CASE RunAction
  BY <1>4 DEF RunAction, Subscribed, Standing
<1>5. CASE Dispatch
  BY <1>5, <1>1 DEF Dispatch, Enlist, Deliver
<1>6. CASE BindModel
  <2>1. link' = link /\ connection' = connection /\ model' = Head(tasks).connection
        /\ bound' = ~Terminated(Head(tasks).connection)
        /\ (~Terminated(Head(tasks).connection) => main' = "advising")
    BY <1>6 DEF BindModel, AddAction
  <2> QED BY <2>1 DEF Subscribed, Standing, Terminated
<1>7. CASE Subscribe
  BY <1>7 DEF Subscribe, Subscribed, Standing, Terminated
<1>8. CASE AddUnsubscribe \/ SendReady \/ AddDisconnect \/ Announce
  <2>1. main # "advising" /\ UNCHANGED <<link, model, connection, bound, subscription>>
    BY <1>8 DEF AddUnsubscribe, SendReady, AddDisconnect, Announce
  <2> QED BY <1>1, <2>1
<1>9. CASE EndModel \/ StartDispatched
  <2>1. main # "advising" /\ UNCHANGED <<link, model, connection, bound, subscription>>
    BY <1>9 DEF EndModel, StartDispatched, TakeTask
  <2> QED BY <1>1, <2>1
<1>10. CASE TakeMessage \/ TestEmpty \/ MoveOut \/ Erase \/ FinishDispatched
  <2>1. main # "advising" /\ UNCHANGED <<link, model, connection, bound, subscription>>
    BY <1>10 DEF TakeMessage, TestEmpty, MoveOut, Erase, FinishDispatched
  <2> QED BY <1>1, <2>1
<1>11. CASE Invoke \/ RunHandler
  <2>1. main # "advising" /\ UNCHANGED <<link, model, connection, bound, subscription>>
    <3>1. CASE Invoke
      BY <3>1, RunningFacts DEF Invoke
    <3>2. CASE RunHandler
      <4>1. PICK stage \in DOMAIN Running : main = Running[stage] /\ main' = stage
        BY <3>2 DEF RunHandler
      <4> QED BY <3>2, <4>1, RunningFacts DEF RunHandler
    <3> QED BY <1>11, <3>1, <3>2
  <2> QED BY <1>1, <2>1
<1>12. CASE RunListener \/ FireAsyncAction \/ FinishSend \/ RiderBinds \/ RiderEnds \/ RiderReceives
  BY <1>12, <1>1 DEF RunListener, FireAsyncAction, FinishSend, RiderBinds, RiderEnds, RiderReceives
<1>13. CASE UNCHANGED vars
  BY <1>13, <1>1 DEF vars
<1> QED BY <1>2, <1>3, <1>4, <1>5, <1>6, <1>7, <1>8, <1>9, <1>10, <1>11, <1>12, <1>13
        DEF Next, WireThread, SchedulerThread

\* The broker's entry for the id, as long as none was taken away while a message
\* came: a task for every message without a handler, and an entry as long as
\* there are messages in it.
Entry ==
  /\ orphans = 0
  /\ Len(default_scheduler_messages) = Count(tasks) + (IF main = "taking" THEN 1 ELSE 0)
  /\ ~listed => default_scheduler_messages = <<>> /\ custom_scheduler_messages = <<>>
  /\ listed => default_scheduler_messages # <<>> \/ main \in {"message", "run message", "moving", "erasing"}
  /\ main \in {"taking", "message", "run message", "moving", "erasing"} => listed
  /\ main \in {"customs", "run customs"} => ~listed
  /\ batch # <<>> => main \in {"message", "run message", "erasing", "customs", "run customs", "crashed"}
  /\ main \in {"moving", "erasing"} => default_scheduler_messages = <<>>
  /\ main = "erasing" => custom_scheduler_messages = <<>>

LEMMA Emptiness == \A S : \A s \in Seq(S) : Len(s) \in Nat /\ (Len(s) = 0 <=> s = <<>>)
OBVIOUS

LEMMA EntrySame ==
  ASSUME Entry, UNCHANGED <<orphans, tasks, main, listed, batch, default_scheduler_messages, custom_scheduler_messages>>
  PROVE  Entry'
BY DEF Entry

\* A change of main among the stages that do not touch the entry.
LEMMA EntryElsewhere ==
  ASSUME Entry, UNCHANGED <<orphans, listed, batch, default_scheduler_messages, custom_scheduler_messages>>,
         Count(tasks)' = Count(tasks),
         main' = main \/ (main \in Binding \union {"idle"} /\ main' \in Binding \union {"idle"})
  PROVE  Entry'
BY DEF Entry, Binding

LEMMA EntryDispatch ==
  ASSUME LinkTypes, Entry, Dispatch, ~raced'
  PROVE  Entry'
<1>1. main \notin {"moving", "erasing", "customs", "run customs"} /\ main' = main /\ orphans' = orphans /\ batch' = batch
  BY DEF Dispatch, TakingAway
<1>2. /\ tasks \in Seq(TasksOf(connection)) /\ Dispatched \in TasksOf(connection)
      /\ default_scheduler_messages \in Seq(States) /\ Head(toEditor) \in States
  BY EndTypes DEF LinkTypes, TaskTypes, MessageTypes, ConnectionTypes, TasksOf, Dispatched, Task, Dispatch
<1>3. CASE Enlist(Head(toEditor))
  <2>1. /\ listed' = TRUE /\ default_scheduler_messages' = Append(default_scheduler_messages, Head(toEditor))
        /\ tasks' = Append(tasks, Dispatched) /\ custom_scheduler_messages' = custom_scheduler_messages
    BY <1>3 DEF Enlist
  <2>2. Count(tasks)' = Count(tasks) + 1 /\ Count(tasks) \in Nat
    BY <1>2, <2>1, CountAppend, CountFacts DEF Count, Waiting
  <2>3. Len(default_scheduler_messages') = Len(default_scheduler_messages) + 1 /\ default_scheduler_messages' # <<>>
        /\ Len(default_scheduler_messages) \in Nat
    BY <1>2, <2>1, Appended
  <2>4. Len(default_scheduler_messages)' = Count(tasks)' + (IF main' = "taking" THEN 1 ELSE 0)
    <3>1. Len(default_scheduler_messages) = Count(tasks) + (IF main = "taking" THEN 1 ELSE 0)
      BY DEF Entry
    <3>2. main' = main
      BY <1>1
    <3>3. CASE main = "taking"
      BY <2>2, <2>3, <3>1, <3>2, <3>3
    <3>4. CASE main # "taking"
      BY <2>2, <2>3, <3>1, <3>2, <3>4
    <3> QED BY <3>3, <3>4
  <2> QED BY <1>1, <2>1, <2>3, <2>4 DEF Entry
<1>4. CASE Deliver(Head(toEditor))
  <2>1. /\ UNCHANGED <<listed, default_scheduler_messages, tasks>>
        /\ listed \/ custom_scheduler_messages' = custom_scheduler_messages
    BY <1>4 DEF Deliver
  <2> QED BY <1>1, <2>1 DEF Entry
<1> QED BY <1>3, <1>4 DEF Dispatch

LEMMA EntryTake ==
  ASSUME LinkTypes, Bindings, Entry, StartDispatched \/ TakeMessage
  PROVE  Entry'
<1>1. /\ tasks \in Seq(TasksOf(connection)) /\ default_scheduler_messages \in Seq(States)
      /\ Count(tasks) \in Nat
  BY CountFacts DEF LinkTypes, TaskTypes, MessageTypes
<1>2. Len(default_scheduler_messages) \in Nat /\ (Len(default_scheduler_messages) = 0 <=> default_scheduler_messages = <<>>)
  BY <1>1, Emptiness
<1>3. CASE StartDispatched
  <2>1. /\ main = "idle" /\ tasks # <<>> /\ Head(tasks).kind = "dispatched" /\ tasks' = Tail(tasks)
        /\ main' = "taking" /\ UNCHANGED <<orphans, listed, batch, default_scheduler_messages, custom_scheduler_messages>>
    BY <1>1, <1>3 DEF StartDispatched, TakeTask, Entry, brokerVars
  <2>2. Head(tasks) = Dispatched
    <3>1. Head(tasks) = tasks[1] /\ 1 \in 1..Len(tasks)
      BY <1>1, <2>1, Taken
    <3> QED BY <2>1, <3>1 DEF Bindings
  <2>3. Count(tasks) = Count(tasks)' + 1 /\ Count(tasks)' \in Nat
    <3>1. tasks' \in Seq(TasksOf(connection))
      BY <1>1, <2>1, Taken
    <3>2. Count(Tail(tasks)) \in Nat
      BY <2>1, <3>1, CountFacts
    <3>3. Count(tasks)' = Count(Tail(tasks))
      BY <2>1 DEF Count, Waiting
    <3> QED BY <1>1, <2>1, <2>2, <3>2, <3>3, CountTail
  <2>4. default_scheduler_messages # <<>> /\ listed
    BY <1>1, <1>2, <2>1, <2>3 DEF Entry
  <2> QED BY <1>1, <1>2, <2>1, <2>3, <2>4 DEF Entry
<1>4. CASE TakeMessage
  <2>1. /\ main = "taking" /\ main' = "message" /\ UNCHANGED <<orphans, tasks, listed, custom_scheduler_messages>>
    BY <1>4 DEF TakeMessage
  <2>2. Len(default_scheduler_messages) = Count(tasks) + 1 /\ default_scheduler_messages # <<>> /\ listed
    BY <1>1, <1>2, <2>1 DEF Entry
  <2>3. default_scheduler_messages' = Tail(default_scheduler_messages)
    BY <1>4, <2>2 DEF TakeMessage
  <2>4. Len(default_scheduler_messages') = Len(default_scheduler_messages) - 1
    BY <1>1, <2>2, <2>3, Taken
  <2>5. Count(tasks)' = Count(tasks)
    BY <2>1 DEF Count, Waiting
  <2> QED BY <1>1, <2>1, <2>2, <2>4, <2>5 DEF Entry
<1> QED BY <1>3, <1>4

LEMMA EntryRun ==
  ASSUME LinkTypes, Entry, Invoke \/ RunHandler
  PROVE  Entry'
<1>1. UNCHANGED <<orphans, tasks, listed, default_scheduler_messages, custom_scheduler_messages>>
  BY DEF Invoke, RunHandler, brokerVars
<1>2. Count(tasks)' = Count(tasks)
  BY <1>1 DEF Count, Waiting
<1>3. CASE Invoke
  <2>1. main \in {"message", "customs"} /\ batch # <<>>
        /\ (main' = main \/ (main = "message" /\ main' = "run message") \/ (main = "customs" /\ main' = "run customs"))
    BY <1>3, RunningFacts DEF Invoke
  <2> QED BY <1>1, <1>2, <2>1 DEF Entry
<1>4. CASE RunHandler
  <2>1. PICK stage \in DOMAIN Running : main = Running[stage] /\ main' = stage
    BY <1>4 DEF RunHandler
  <2>2. (main = "run message" /\ main' = "message") \/ (main = "run customs" /\ main' = "customs")
    BY <2>1, RunningFacts
  <2> QED BY <1>1, <1>2, <2>2 DEF Entry
<1> QED BY <1>3, <1>4

LEMMA EntryTakenAway ==
  ASSUME LinkTypes, Entry, TestEmpty \/ MoveOut \/ Erase \/ FinishDispatched
  PROVE  Entry'
<1>1. /\ tasks \in Seq(TasksOf(connection)) /\ Count(tasks) \in Nat
      /\ default_scheduler_messages \in Seq(States) /\ custom_scheduler_messages \in Seq(States)
  BY CountFacts DEF LinkTypes, TaskTypes, MessageTypes
<1>2. tasks' = tasks
  BY DEF TestEmpty, MoveOut, Erase, FinishDispatched
<1>3. Count(tasks)' = Count(tasks)
  BY <1>2 DEF Count, Waiting
<1>4. Len(<<>>) = 0
  OBVIOUS
<1>5. CASE TestEmpty
  BY <1>3, <1>5 DEF TestEmpty, Entry, brokerVars
<1>6. CASE MoveOut
  BY <1>3, <1>4, <1>6 DEF MoveOut, Entry
<1>7. CASE Erase
  <2>1. Count(tasks) = 0
    BY <1>1, <1>4, <1>7 DEF Erase, Entry
  <2>2. orphans' = Count(tasks)
    BY <1>7 DEF Erase, Count, Waiting
  <2>3. /\ main' \in {"crashed", "customs"} /\ listed' = FALSE
        /\ default_scheduler_messages' = <<>> /\ custom_scheduler_messages' = <<>> /\ batch' = batch
    BY <1>7 DEF Erase
  <2>4. Len(default_scheduler_messages)' = Count(tasks)' + (IF main' = "taking" THEN 1 ELSE 0)
    BY <1>3, <1>4, <2>1, <2>3
  <2>5. orphans' = 0
    BY <2>1, <2>2
  <2>6. batch # <<>> => main' \in {"crashed", "customs"}
    BY <2>3
  <2> QED BY <2>3, <2>4, <2>5, <2>6 DEF Entry
<1>8. CASE FinishDispatched
  BY <1>3, <1>8 DEF FinishDispatched, Entry, brokerVars
<1> QED BY <1>5, <1>6, <1>7, <1>8

LEMMA OtherTask ==
  ASSUME LinkTypes, NEW t, t.kind # "dispatched", t \in TasksOf(connection'), tasks' = Append(tasks, t), connection' \in Nat,
         connection' >= connection
  PROVE  Count(tasks)' = Count(tasks)
<1>1. tasks \in Seq(TasksOf(connection'))
  <2>1. TasksOf(connection) \subseteq TasksOf(connection')
    BY DEF TasksOf, LinkTypes, ConnectionTypes
  <2> QED BY <2>1 DEF LinkTypes, TaskTypes
<1>2. t # Dispatched
  BY DEF Dispatched, Task
<1>3. Count(Append(tasks, t)) = Count(tasks) /\ Count(tasks) \in Nat
  BY <1>1, <1>2, CountAppend, CountFacts
<1> QED BY <1>3 DEF Count, Waiting

LEMMA EntryKept ==
  ASSUME LinkTypes, Bindings, Entry, [Next]_vars, ~raced'
  PROVE  Entry'
<1> USE DEF lifetimeVars, brokerVars, mainVars, modelVars, riderVars, linkVars
<1>0. connection \in Nat /\ tasks \in Seq(TasksOf(connection))
  BY DEF LinkTypes, ConnectionTypes, TaskTypes
<1>1. CASE Connect
  <2>1. connection' = connection + 1 /\ tasks' = Append(tasks, Bind(connection'))
        /\ UNCHANGED <<orphans, main, listed, batch, default_scheduler_messages, custom_scheduler_messages>>
    BY <1>1 DEF Connect
  <2>2. Bind(connection').kind # "dispatched" /\ Bind(connection') \in TasksOf(connection')
    BY <1>0, <2>1 DEF Bind, Task, TasksOf
  <2>3. Count(tasks)' = Count(tasks)
    BY <1>0, <2>1, <2>2, OtherTask
  <2> QED BY <2>1, <2>3, EntryElsewhere
<1>2. CASE RunAction
  <2>1. connection' = connection /\ UNCHANGED <<orphans, main, listed, batch, default_scheduler_messages, custom_scheduler_messages>>
        /\ (tasks' = tasks \/ tasks' = Append(tasks, Ended))
    BY <1>2 DEF RunAction
  <2>2. Ended.kind # "dispatched" /\ Ended \in TasksOf(connection')
    BY <1>0, <2>1 DEF Ended, Task, TasksOf
  <2>3. Count(tasks)' = Count(tasks)
    <3>1. CASE tasks' = tasks
      BY <3>1 DEF Count, Waiting
    <3>2. CASE tasks' = Append(tasks, Ended)
      BY <1>0, <2>1, <2>2, <3>2, OtherTask
    <3> QED BY <2>1, <3>1, <3>2
  <2> QED BY <2>1, <2>3, EntryElsewhere
<1>3. CASE Disconnect \/ Disconnected
  BY <1>3, EntrySame DEF Disconnect, Disconnected
<1>4. CASE BindModel \/ EndModel
  <2>1. /\ tasks # <<>> /\ tasks' = Tail(tasks) /\ Head(tasks).kind # "dispatched"
        /\ UNCHANGED <<orphans, listed, batch, default_scheduler_messages, custom_scheduler_messages>>
        /\ main = "idle" /\ main' \in {"idle", "advising"}
    BY <1>4 DEF BindModel, EndModel, TakeTask, AddAction
  <2>2. Head(tasks) # Dispatched
    BY <2>1 DEF Dispatched, Task
  <2>3. Count(tasks) = Count(Tail(tasks))
    <3>1. Tail(tasks) \in Seq(TasksOf(connection))
      BY <1>0, <2>1, Taken
    <3>2. Count(Tail(tasks)) \in Nat
      BY <3>1, CountFacts
    <3>3. Count(tasks) = Count(Tail(tasks)) + IF Head(tasks) = Dispatched THEN 1 ELSE 0
      BY <1>0, <2>1, CountTail
    <3> QED BY <2>2, <3>2, <3>3
  <2>4. Count(tasks)' = Count(tasks)
    BY <2>1, <2>3 DEF Count, Waiting
  <2> QED BY <2>1, <2>4, EntryElsewhere DEF Binding
<1>5. CASE Subscribe \/ AddUnsubscribe \/ SendReady \/ AddDisconnect \/ Announce
  <2>1. /\ UNCHANGED <<orphans, tasks, listed, batch, default_scheduler_messages, custom_scheduler_messages>>
        /\ main \in Binding /\ main' \in Binding \union {"idle"}
    BY <1>5 DEF Subscribe, AddUnsubscribe, SendReady, AddDisconnect, Announce, AddAction, Binding
  <2>2. Count(tasks)' = Count(tasks)
    BY <2>1 DEF Count, Waiting
  <2> QED BY <2>1, <2>2, EntryElsewhere
<1>6. CASE RunListener \/ FireAsyncAction \/ FinishSend
  BY <1>6, EntrySame DEF RunListener, FireAsyncAction, FinishSend
<1>7. CASE RiderBinds \/ RiderEnds \/ RiderReceives
  BY <1>7, EntrySame DEF RiderBinds, RiderEnds, RiderReceives
<1>8. CASE UNCHANGED vars
  BY <1>8, EntrySame DEF vars
<1> QED BY <1>1, <1>2, <1>3, <1>4, <1>5, <1>6, <1>7, <1>8,
           EntryDispatch, EntryTake, EntryRun, EntryTakenAway DEF Next, WireThread, SchedulerThread

\* The model has greeted: it has sent Ready on a connection that stands.
Greeted == Standing /\ main \notin {"advising", "subscribed", "readying"}

\* The messages the editor has still to handle, in the order it will.
Unheard == batch \o default_scheduler_messages \o custom_scheduler_messages \o toEditor

\* The scheduler's thread runs the handler of the model that has greeted.
OwnHandler ==
  /\ main # "crashed"
  /\ main \in {"taking", "message", "run message", "moving", "erasing", "customs", "run customs"} => handler = model

Conversation == Greeted => OwnHandler /\ Talk(Unheard, toRider, rider.bound, rider.connected, connected)

LEMMA JoinEmpty ==
  ASSUME NEW S, NEW a \in Seq(S), NEW b \in Seq(S)
  PROVE  /\ <<>> \o a = a /\ a \o <<>> = a /\ a \o b \in Seq(S)
         /\ a # <<>> => a \o b # <<>> /\ Head(a \o b) = Head(a) /\ Tail(a \o b) = Tail(a) \o b
OBVIOUS

LEMMA JoinAppend ==
  ASSUME NEW S, NEW a \in Seq(S), NEW b \in Seq(S), NEW x \in S
  PROVE  a \o Append(b, x) = Append(a \o b, x)
OBVIOUS

LEMMA JoinFacts ==
  ASSUME NEW S, NEW a \in Seq(S), NEW b \in Seq(S)
  PROVE  /\ a \o b \in Seq(S) /\ Len(a \o b) = Len(a) + Len(b) /\ Len(a) \in Nat /\ Len(b) \in Nat
         /\ \A i \in 1..Len(a) : (a \o b)[i] = a[i]
         /\ \A i \in (Len(a) + 1)..(Len(a) + Len(b)) : (a \o b)[i] = b[i - Len(a)]
OBVIOUS

LEMMA SameElements ==
  ASSUME NEW S, NEW a \in Seq(S), NEW b \in Seq(S), Len(a) = Len(b), \A i \in 1..Len(a) : a[i] = b[i]
  PROVE  a = b
<1>1. DOMAIN a = 1..Len(a) /\ DOMAIN b = 1..Len(b)
  OBVIOUS
<1>2. a = [i \in 1..Len(a) |-> a[i]] /\ b = [i \in 1..Len(b) |-> b[i]]
  BY <1>1
<1> QED BY <1>2

LEMMA JoinHead ==
  ASSUME NEW S, NEW b \in Seq(S), b # <<>>
  PROVE  <<Head(b)>> \o Tail(b) = b
<1> DEFINE t == Tail(b)
           h == <<Head(b)>>
<1>1. Len(b) \in Nat /\ Len(b) >= 1 /\ Len(t) = Len(b) - 1 /\ t \in Seq(S) /\ h \in Seq(S) /\ Len(h) = 1 /\ h[1] = b[1]
  OBVIOUS
<1>2. \A i \in 1..Len(b) : i # 1 => t[i - 1] = b[i]
  BY Taken
<1> HIDE DEF t, h
<1>3. /\ h \o t \in Seq(S) /\ Len(h \o t) = Len(h) + Len(t)
      /\ \A i \in 1..Len(h) : (h \o t)[i] = h[i]
      /\ \A i \in (Len(h) + 1)..(Len(h) + Len(t)) : (h \o t)[i] = t[i - Len(h)]
  BY <1>1, JoinFacts
<1>4. Len(h \o t) = Len(b)
  BY <1>1, <1>3
<1>5. ASSUME NEW i \in 1..Len(h \o t) PROVE (h \o t)[i] = b[i]
  <2>1. CASE i = 1
    BY <1>1, <1>3, <2>1
  <2>2. CASE i # 1
    <3>1. i \in (Len(h) + 1)..(Len(h) + Len(t)) /\ i - Len(h) = i - 1 /\ i \in 1..Len(b)
      BY <1>1, <1>4, <2>2
    <3> QED BY <1>2, <1>3, <2>2, <3>1
  <2> QED BY <2>1, <2>2
<1>6. h \o t = b
  BY <1>3, <1>4, <1>5, SameElements
<1> QED BY <1>6 DEF h, t

LEMMA JoinTwice ==
  ASSUME NEW S, NEW a \in Seq(S), NEW b \in Seq(S), NEW c \in Seq(S)
  PROVE  (a \o b) \o c = a \o (b \o c)
OBVIOUS

LEMMA JoinMove ==
  ASSUME NEW S, NEW a \in Seq(S), NEW b \in Seq(S), b # <<>>
  PROVE  Append(a, Head(b)) \o Tail(b) = a \o b
<1>1. Head(b) \in S /\ Tail(b) \in Seq(S) /\ <<Head(b)>> \in Seq(S)
  OBVIOUS
<1>2. Append(a, Head(b)) = a \o <<Head(b)>>
  BY <1>1
<1>3. (a \o <<Head(b)>>) \o Tail(b) = a \o (<<Head(b)>> \o Tail(b))
  BY <1>1, JoinTwice
<1> QED BY <1>2, <1>3, JoinHead

LEMMA LinkFacts ==
  ASSUME LinkTypes
  PROVE  /\ batch \in Seq(States) /\ default_scheduler_messages \in Seq(States)
         /\ custom_scheduler_messages \in Seq(States) /\ toEditor \in Seq(States) /\ toRider \in Seq(States)
         /\ rider \in [bound : BOOLEAN, connected : BOOLEAN, bindings : Nat]
         /\ connection \in Nat /\ model \in 0..connection
         /\ Unheard \in Seq(States)
<1>1. /\ batch \in Seq(States) /\ default_scheduler_messages \in Seq(States)
      /\ custom_scheduler_messages \in Seq(States) /\ toEditor \in Seq(States) /\ toRider \in Seq(States)
      /\ rider \in [bound : BOOLEAN, connected : BOOLEAN, bindings : Nat]
      /\ connection \in Nat /\ model \in 0..connection
  BY DEF LinkTypes, MessageTypes, ConnectionTypes
<1>2. batch \o default_scheduler_messages \in Seq(States)
  BY <1>1
<1>3. batch \o default_scheduler_messages \o custom_scheduler_messages \in Seq(States)
  BY <1>1, <1>2
<1> QED BY <1>1, <1>3 DEF Unheard

\* Steps that add nothing to what was said.
LEMMA SilentStep ==
  ASSUME Conversation, Greeted' => Greeted, OwnHandler', Unheard' = Unheard, UNCHANGED <<toRider, rider, connected>>
  PROVE  Conversation'
BY DEF Conversation

LEMMA WireTalks ==
  ASSUME LinkTypes, Subscribed, Entry, Conversation, WireThread, ~raced'
  PROVE  Conversation'
<1>1. CASE Connect
  <2>1. link' = "up" /\ connection' = connection + 1 /\ model' = model
    BY <1>1 DEF Connect, modelVars
  <2> QED BY <2>1, LinkFacts DEF Conversation, Greeted, Standing
<1>2. CASE Disconnect \/ RunAction \/ Disconnected
  BY <1>2 DEF Disconnect, RunAction, Disconnected, Conversation, Greeted, Standing
<1>3. CASE Dispatch
  <2>0. /\ batch \in Seq(States) /\ default_scheduler_messages \in Seq(States)
        /\ custom_scheduler_messages \in Seq(States) /\ toEditor \in Seq(States) /\ toRider \in Seq(States)
        /\ connection \in Nat /\ model \in 0..connection
    BY LinkFacts
  <2>1. /\ UNCHANGED <<link, connection, model, main, handler, batch, bound, rider, subscription>>
        /\ toEditor # <<>> /\ toEditor' = Tail(toEditor) /\ ~TakingAway
    BY <1>3 DEF Dispatch, lifetimeVars, modelVars
  <2> SUFFICES ASSUME Greeted' PROVE OwnHandler' /\ Talk(Unheard, toRider, rider.bound, rider.connected, connected)'
    BY DEF Conversation
  <2>2. Greeted /\ OwnHandler /\ OwnHandler' /\ Talk(Unheard, toRider, rider.bound, rider.connected, connected)
    BY <2>1 DEF Conversation, Greeted, Standing, OwnHandler
  <2>3. bound /\ subscription = model /\ model # 0
    BY <2>0, <2>2 DEF Subscribed, Greeted, Standing
  <2>4. Deliver(Head(toEditor))
    BY <1>3, <2>3 DEF Dispatch
  <2>5. CASE listed
    <3>1. /\ custom_scheduler_messages' = Append(custom_scheduler_messages, Head(toEditor))
          /\ UNCHANGED <<connected, toRider, default_scheduler_messages>>
      BY <2>4, <2>5 DEF Deliver, extVars
    <3>2. Unheard' = Unheard
      <4> DEFINE p == batch \o default_scheduler_messages
      <4>1. p \in Seq(States) /\ Head(toEditor) \in States
        BY <2>0, <2>1
      <4> HIDE DEF p
      <4>2. p \o Append(custom_scheduler_messages, Head(toEditor)) = Append(p \o custom_scheduler_messages, Head(toEditor))
        BY <2>0, <4>1, JoinAppend
      <4>3. p \o custom_scheduler_messages \in Seq(States)
        BY <2>0, <4>1
      <4>4. Append(p \o custom_scheduler_messages, Head(toEditor)) \o Tail(toEditor) = p \o custom_scheduler_messages \o toEditor
        BY <2>0, <2>1, <4>1, <4>3, JoinMove
      <4> QED BY <2>1, <3>1, <4>2, <4>4 DEF Unheard, p
    <3> QED BY <2>1, <2>2, <3>1, <3>2
  <2>6. CASE ~listed
    <3>1. /\ UNCHANGED <<default_scheduler_messages, custom_scheduler_messages>>
          /\ toRider' = IF Head(toEditor) = "Ready" THEN Append(toRider, "ReceivedCounterpart") ELSE toRider
          /\ connected' = (Head(toEditor) # "Disconnected")
      BY <2>3, <2>4, <2>6 DEF Deliver, Handle, SetConnected
    <3>2. batch = <<>> /\ default_scheduler_messages = <<>> /\ custom_scheduler_messages = <<>>
      BY <2>1, <2>2, <2>6 DEF Entry, TakingAway, OwnHandler
    <3>3. Unheard = toEditor /\ Unheard' = Tail(toEditor)
      <4>1. <<>> \o <<>> \o <<>> \o toEditor = toEditor /\ <<>> \o <<>> \o <<>> \o Tail(toEditor) = Tail(toEditor)
        <5>1. <<>> \o <<>> \o <<>> = <<>>
          OBVIOUS
        <5> QED BY <2>0, <2>1, <5>1
      <4> QED BY <2>1, <3>1, <3>2, <4>1 DEF Unheard
    <3>4. Talk(Tail(toEditor), toRider', rider.bound, rider.connected, Head(toEditor) # "Disconnected")
      BY <2>0, <2>1, <2>2, <3>1, <3>3, TalkHandled
    <3> QED BY <2>1, <2>2, <3>1, <3>3, <3>4
  <2> QED BY <2>5, <2>6
<1> QED BY <1>1, <1>2, <1>3 DEF WireThread

LEMMA OtherEndTalks ==
  ASSUME LinkTypes, Conversation,
         RunListener \/ FireAsyncAction \/ FinishSend \/ RiderBinds \/ RiderEnds \/ RiderReceives \/ UNCHANGED vars
  PROVE  Conversation'
<1>0. /\ batch \in Seq(States) /\ default_scheduler_messages \in Seq(States)
      /\ custom_scheduler_messages \in Seq(States) /\ toEditor \in Seq(States) /\ toRider \in Seq(States)
      /\ rider \in [bound : BOOLEAN, connected : BOOLEAN, bindings : Nat] /\ Unheard \in Seq(States)
  BY LinkFacts
<1>1. UNCHANGED <<link, connection, model, main, handler, batch, default_scheduler_messages, custom_scheduler_messages>>
  BY DEF RunListener, FireAsyncAction, FinishSend, RiderBinds, RiderEnds, RiderReceives, vars, linkVars,
         lifetimeVars, brokerVars, mainVars, modelVars
<1> SUFFICES ASSUME Greeted' PROVE OwnHandler' /\ Talk(Unheard, toRider, rider.bound, rider.connected, connected)'
  BY DEF Conversation
<1>2. OwnHandler' /\ Talk(Unheard, toRider, rider.bound, rider.connected, connected)
  BY <1>1 DEF Conversation, Greeted, Standing, OwnHandler
<1>3. ASSUME NEW x \in States, toEditor' = Append(toEditor, x)
      PROVE  Unheard' = Append(Unheard, x)
  <2> DEFINE p == batch \o default_scheduler_messages \o custom_scheduler_messages
  <2>1. p \in Seq(States)
    <3>1. batch \o default_scheduler_messages \in Seq(States)
      BY <1>0
    <3> QED BY <1>0, <3>1
  <2> HIDE DEF p
  <2>2. p \o Append(toEditor, x) = Append(p \o toEditor, x)
    BY <1>0, <2>1, JoinAppend
  <2> QED BY <1>1, <1>3, <2>2 DEF Unheard, p
<1>4. CASE RunListener \/ FireAsyncAction \/ FinishSend \/ UNCHANGED vars
  <2>1. UNCHANGED <<toEditor, toRider, rider, connected>>
    BY <1>4 DEF RunListener, FireAsyncAction, FinishSend, SendQueued, Send, SendOn, vars, linkVars, extVars, riderVars
  <2>2. Unheard' = Unheard
    BY <1>1, <2>1 DEF Unheard
  <2> QED BY <1>2, <2>1, <2>2
<1>5. CASE RiderBinds
  <2>1. /\ toEditor' = Append(toEditor, "Ready") /\ toRider' = toRider /\ connected' = connected
        /\ rider'.bound = TRUE /\ rider'.connected = FALSE
    BY <1>5 DEF RiderBinds, extVars
  <2>2. Unheard' = Append(Unheard, "Ready")
    BY <1>3, <2>1 DEF States
  <2>3. Talk(Append(Unheard, "Ready"), toRider, TRUE, FALSE, connected)
    BY <1>0, <1>2, TalkRiderBinds
  <2> QED BY <1>2, <2>1, <2>2, <2>3
<1>6. CASE RiderEnds
  <2>1. toRider' = toRider /\ rider'.bound = FALSE
    BY <1>0, <1>6 DEF RiderEnds
  <2> QED BY <1>2, <2>1 DEF Talk
<1>7. CASE RiderReceives
  <2>1. /\ toRider # <<>> /\ toRider' = Tail(toRider) /\ connected' = connected
        /\ rider'.bound = rider.bound /\ rider'.connected = (rider.bound /\ Head(toRider) # "Disconnected")
        /\ toEditor' = IF rider.bound /\ Head(toRider) = "Ready"
                         THEN Append(toEditor, "ReceivedCounterpart") ELSE toEditor
    BY <1>0, <1>7 DEF RiderReceives, extVars
  <2>2. Unheard' = IF rider.bound /\ Head(toRider) = "Ready" THEN Append(Unheard, "ReceivedCounterpart") ELSE Unheard
    <3>1. CASE rider.bound /\ Head(toRider) = "Ready"
      BY <1>3, <2>1, <3>1 DEF States
    <3>2. CASE ~(rider.bound /\ Head(toRider) = "Ready")
      BY <1>1, <2>1, <3>2 DEF Unheard
    <3> QED BY <3>1, <3>2
  <2>3. rider.bound \in BOOLEAN
    BY <1>0
  <2>4. Talk(Unheard', Tail(toRider), rider.bound, rider.bound /\ Head(toRider) # "Disconnected", connected)
    BY <1>0, <1>2, <2>1, <2>2, <2>3, TalkRiderReceives
  <2> QED BY <1>2, <2>1, <2>4
<1> QED BY <1>4, <1>5, <1>6, <1>7

\* The scheduler's thread binds a model and greets.
LEMMA BindingTalks ==
  ASSUME LinkTypes, Conversation,
         BindModel \/ Subscribe \/ AddUnsubscribe \/ SendReady \/ AddDisconnect \/ Announce \/ EndModel
  PROVE  Conversation'
<1> USE DEF lifetimeVars, brokerVars, mainVars, modelVars, riderVars
<1>1. CASE BindModel
  <2>1. ~Greeted'
    BY <1>1 DEF BindModel, AddAction, Terminated, Greeted, Standing
  <2> QED BY <2>1 DEF Conversation
<1>2. CASE Subscribe
  <2>1. ~Greeted'
    BY <1>2 DEF Subscribe, Terminated, Greeted, Standing
  <2> QED BY <2>1 DEF Conversation
<1>3. CASE AddUnsubscribe
  <2>1. ~Greeted'
    BY <1>3 DEF AddUnsubscribe, AddAction, Terminated, Greeted, Standing
  <2> QED BY <2>1 DEF Conversation
<1>4. CASE SendReady
  <2>1. toRider \in Seq(States)
    BY LinkFacts
  <2>2. UNCHANGED <<link, connection, model>> /\ main' \in {"announcing", "ready sent"}
    BY <1>4 DEF SendReady
  <2>3. Greeted' => toRider' = Append(toRider, "Ready")
    BY <1>4 DEF SendReady, Terminated, Greeted, Standing
  <2>4. OwnHandler'
    BY <2>2 DEF OwnHandler
  <2>5. Greeted' => Talk(Unheard', toRider', rider'.bound, rider'.connected, connected')
    BY <2>1, <2>3, TalkBegins
  <2> QED BY <2>4, <2>5 DEF Conversation
<1>5. CASE AddDisconnect \/ Announce
  <2>1. /\ UNCHANGED <<link, connection, model, toRider, rider, connected, batch, default_scheduler_messages,
                       custom_scheduler_messages, toEditor>>
        /\ main \in {"ready sent", "announcing"} /\ main' \in {"announcing", "idle"}
    BY <1>5 DEF AddDisconnect, Announce, AddAction, extVars
  <2>2. Greeted' => Greeted
    BY <2>1 DEF Greeted, Standing
  <2>3. OwnHandler' /\ Unheard' = Unheard
    BY <2>1 DEF OwnHandler, Unheard
  <2> QED BY <2>1, <2>2, <2>3, SilentStep
<1>6. CASE EndModel
  <2>1. /\ UNCHANGED <<link, connection, model, toRider, rider, connected, batch, default_scheduler_messages,
                       custom_scheduler_messages, toEditor, main>>
        /\ main = "idle"
    BY <1>6 DEF EndModel, TakeTask, extVars
  <2>2. Greeted' => Greeted
    BY <2>1 DEF Greeted, Standing
  <2>3. OwnHandler' /\ Unheard' = Unheard
    BY <2>1 DEF OwnHandler, Unheard
  <2> QED BY <2>1, <2>2, <2>3, SilentStep
<1> QED BY <1>1, <1>2, <1>3, <1>4, <1>5, <1>6

\* What the scheduler's thread does to a model that has greeted.
LEMMA GreetedFacts ==
  ASSUME LinkTypes, Subscribed, Greeted
  PROVE  bound /\ subscription = model /\ model # 0
<1>1. connection \in Nat
  BY LinkFacts
<1> QED BY <1>1 DEF Subscribed, Greeted, Standing

LEMMA TakingTalks ==
  ASSUME LinkTypes, Subscribed, Entry, Conversation, StartDispatched \/ TakeMessage
  PROVE  Conversation'
<1> USE DEF lifetimeVars, brokerVars, mainVars, modelVars, riderVars
<1>0. /\ batch \in Seq(States) /\ default_scheduler_messages \in Seq(States)
      /\ custom_scheduler_messages \in Seq(States) /\ toEditor \in Seq(States)
  BY LinkFacts
<1>1. UNCHANGED <<link, connection, model, toRider, rider, connected, custom_scheduler_messages, toEditor>>
      /\ main \in {"idle", "taking"}
  BY DEF StartDispatched, TakeMessage, TakeTask, extVars
<1>2. Greeted' => Greeted
  BY <1>1 DEF Greeted, Standing
<1> SUFFICES ASSUME Greeted' PROVE OwnHandler' /\ Unheard' = Unheard
  BY <1>1, <1>2 DEF Conversation
<1>3. Greeted /\ OwnHandler /\ subscription = model /\ model # 0
  BY <1>2, GreetedFacts DEF Conversation
<1>4. CASE StartDispatched
  <2>1. /\ UNCHANGED <<batch, default_scheduler_messages>>
        /\ (main' = "taking" /\ handler' = subscription) \/ main' = "idle"
    BY <1>4 DEF StartDispatched, TakeTask
  <2> QED BY <1>1, <1>3, <2>1 DEF OwnHandler, Unheard
<1>5. CASE TakeMessage
  <2>1. main = "taking" /\ main' = "message" /\ handler' = handler /\ handler = model
    BY <1>3, <1>5 DEF TakeMessage, OwnHandler
  <2>2. batch = <<>>
    BY <2>1 DEF Entry
  <2>3. default_scheduler_messages # <<>>
    <3>1. tasks \in Seq(TasksOf(connection))
      BY DEF LinkTypes, TaskTypes
    <3>2. Count(tasks) \in Nat
      BY <3>1, CountFacts
    <3>3. Len(default_scheduler_messages) = Count(tasks) + 1
      BY <2>1 DEF Entry
    <3> QED BY <1>0, <3>2, <3>3, Emptiness
  <2>4. batch' = <<Head(default_scheduler_messages)>> /\ default_scheduler_messages' = Tail(default_scheduler_messages)
    BY <1>3, <1>5, <2>1, <2>3 DEF TakeMessage
  <2>5. batch' \o default_scheduler_messages' = default_scheduler_messages
    BY <1>0, <2>3, <2>4, JoinHead
  <2>6. batch \o default_scheduler_messages = default_scheduler_messages
    BY <1>0, <2>2, JoinEmpty
  <2> QED BY <1>1, <1>3, <2>1, <2>5, <2>6 DEF OwnHandler, Unheard
<1> QED BY <1>4, <1>5

Joined(a, b, c, d) == a \o b \o c \o d

LEMMA JoinFour ==
  ASSUME NEW S, NEW a \in Seq(S), NEW b \in Seq(S), NEW c \in Seq(S), NEW d \in Seq(S), a # <<>>
  PROVE  /\ Joined(a, b, c, d) \in Seq(S) /\ Joined(a, b, c, d) # <<>>
         /\ Head(Joined(a, b, c, d)) = Head(a)
         /\ Tail(Joined(a, b, c, d)) = Joined(Tail(a), b, c, d)
<1>1. \A x, y \in Seq(S) : x # <<>> =>
        /\ x \o y \in Seq(S) /\ x \o y # <<>> /\ Head(x \o y) = Head(x) /\ Tail(x \o y) = Tail(x) \o y
  <2> SUFFICES ASSUME NEW x \in Seq(S), NEW y \in Seq(S), x # <<>>
               PROVE  /\ x \o y \in Seq(S) /\ x \o y # <<>> /\ Head(x \o y) = Head(x)
                      /\ Tail(x \o y) = Tail(x) \o y
    OBVIOUS
  <2> QED OBVIOUS
<1>2. a \o b \in Seq(S) /\ a \o b # <<>> /\ Head(a \o b) = Head(a) /\ Tail(a \o b) = Tail(a) \o b
  BY <1>1
<1> DEFINE p == a \o b
<1>3. p \in Seq(S) /\ p # <<>>
  BY <1>2
<1> HIDE DEF p
<1>4. p \o c \in Seq(S) /\ p \o c # <<>> /\ Head(p \o c) = Head(p) /\ Tail(p \o c) = Tail(p) \o c
  BY <1>1, <1>3
<1> DEFINE q == p \o c
<1>5. q \in Seq(S) /\ q # <<>>
  BY <1>4
<1> HIDE DEF q
<1>6. q \o d \in Seq(S) /\ q \o d # <<>> /\ Head(q \o d) = Head(q) /\ Tail(q \o d) = Tail(q) \o d
  BY <1>1, <1>5
<1> QED BY <1>2, <1>4, <1>6 DEF p, q, Joined

LEMMA HandlerTalks ==
  ASSUME LinkTypes, Subscribed, Conversation, Invoke \/ RunHandler
  PROVE  Conversation'
<1> USE DEF lifetimeVars, brokerVars, mainVars, modelVars, riderVars
<1>0. /\ batch \in Seq(States) /\ default_scheduler_messages \in Seq(States)
      /\ custom_scheduler_messages \in Seq(States) /\ toEditor \in Seq(States) /\ toRider \in Seq(States)
  BY LinkFacts
<1>1. UNCHANGED <<link, connection, model, rider, handler, default_scheduler_messages, custom_scheduler_messages, toEditor>>
  BY DEF Invoke, RunHandler, extVars
<1>2. CASE Invoke
  <2>1. main \in {"message", "customs"} /\ UNCHANGED <<toRider, connected>>
    BY <1>2, RunningFacts DEF Invoke, extVars
  <2>2. Greeted' => Greeted
    BY <1>1, <2>1 DEF Greeted, Standing
  <2> SUFFICES ASSUME Greeted' PROVE OwnHandler' /\ Unheard' = Unheard
    BY <1>1, <2>1, <2>2 DEF Conversation
  <2>3. Greeted /\ OwnHandler /\ bound /\ subscription = model /\ model # 0
    BY <2>2, GreetedFacts DEF Conversation
  <2>4. main' = Running[main] /\ batch' = batch
    BY <1>2, <2>1, <2>3 DEF Invoke, OwnHandler
  <2>5. main' \in {"run message", "run customs"}
    BY <2>1, <2>4, RunningFacts
  <2> QED BY <1>1, <2>1, <2>3, <2>4, <2>5 DEF OwnHandler, Unheard
<1>3. CASE RunHandler
  <2>1. main \in {"run message", "run customs"} /\ main' \in {"message", "customs"}
    <3>1. PICK stage \in DOMAIN Running : main = Running[stage] /\ main' = stage
      BY <1>3 DEF RunHandler
    <3> QED BY <3>1, RunningFacts
  <2>2. batch # <<>> /\ batch' = Tail(batch)
    BY <1>3, <2>1 DEF RunHandler, LinkTypes, HasMessage
  <2>3. Greeted' => Greeted
    BY <1>1, <2>1 DEF Greeted, Standing
  <2> SUFFICES ASSUME Greeted'
               PROVE  OwnHandler' /\ Talk(Unheard, toRider, rider.bound, rider.connected, connected)'
    BY DEF Conversation
  <2>4. Greeted /\ OwnHandler /\ bound /\ Talk(Unheard, toRider, rider.bound, rider.connected, connected)
    BY <2>3, GreetedFacts DEF Conversation
  <2>5. /\ toRider' = IF Head(batch) = "Ready" THEN Append(toRider, "ReceivedCounterpart") ELSE toRider
        /\ connected' = (Head(batch) # "Disconnected")
    BY <1>3, <2>4 DEF RunHandler, Handle, SetConnected
  <2>6. Unheard # <<>> /\ Head(Unheard) = Head(batch) /\ Tail(Unheard) = Unheard' /\ Unheard \in Seq(States)
    <3> DEFINE u == Joined(batch, default_scheduler_messages, custom_scheduler_messages, toEditor)
               v == Joined(Tail(batch), default_scheduler_messages, custom_scheduler_messages, toEditor)
    <3>1. u \in Seq(States) /\ u # <<>> /\ Head(u) = Head(batch) /\ Tail(u) = v
      BY <1>0, <2>2, JoinFour
    <3>2. Unheard = u
      BY DEF Unheard, Joined
    <3>3. Unheard' = v
      BY <1>1, <2>2 DEF Unheard, Joined
    <3> HIDE DEF u, v
    <3> QED BY <3>1, <3>2, <3>3
  <2>7. Talk(Tail(Unheard), toRider', rider.bound, rider.connected, Head(batch) # "Disconnected")
    BY <1>0, <2>4, <2>5, <2>6, TalkHandled
  <2> QED BY <1>1, <2>1, <2>4, <2>5, <2>6, <2>7 DEF OwnHandler
<1> QED BY <1>2, <1>3

LEMMA TakenAwayTalks ==
  ASSUME LinkTypes, Subscribed, Entry, Conversation, TestEmpty \/ MoveOut \/ Erase \/ FinishDispatched
  PROVE  Conversation'
<1> USE DEF lifetimeVars, brokerVars, mainVars, modelVars, riderVars
<1>0. /\ batch \in Seq(States) /\ default_scheduler_messages \in Seq(States)
      /\ custom_scheduler_messages \in Seq(States) /\ toEditor \in Seq(States)
  BY LinkFacts
<1>1. /\ UNCHANGED <<link, connection, model, toRider, rider, connected, handler, toEditor>>
      /\ main \in {"message", "moving", "erasing", "customs"}
  BY DEF TestEmpty, MoveOut, Erase, FinishDispatched, extVars
<1>2. Greeted' => Greeted
  BY <1>1 DEF Greeted, Standing
<1> SUFFICES ASSUME Greeted' PROVE OwnHandler' /\ Unheard' = Unheard
  BY <1>1, <1>2 DEF Conversation
<1>3. Greeted /\ OwnHandler /\ handler = model /\ model # 0
  BY <1>1, <1>2, GreetedFacts DEF Conversation, OwnHandler
<1>4. CASE TestEmpty \/ FinishDispatched
  <2>1. UNCHANGED <<batch, default_scheduler_messages, custom_scheduler_messages>> /\ main' \in {"moving", "idle"}
    BY <1>4 DEF TestEmpty, FinishDispatched
  <2> QED BY <1>1, <1>3, <2>1 DEF OwnHandler, Unheard
<1>5. CASE MoveOut
  <2>1. /\ main = "moving" /\ main' = "erasing" /\ batch' = custom_scheduler_messages
        /\ default_scheduler_messages' = <<>> /\ custom_scheduler_messages' = <<>>
    BY <1>5 DEF MoveOut
  <2>2. batch = <<>> /\ default_scheduler_messages = <<>>
    BY <2>1 DEF Entry
  <2>3. batch \o default_scheduler_messages \o custom_scheduler_messages = custom_scheduler_messages
    BY <1>0, <2>2, JoinEmpty
  <2>4. batch' \o default_scheduler_messages' \o custom_scheduler_messages' = custom_scheduler_messages
    BY <1>0, <2>1, JoinEmpty
  <2> QED BY <1>1, <1>3, <2>1, <2>3, <2>4 DEF OwnHandler, Unheard
<1>6. CASE Erase
  <2>1. main = "erasing" /\ batch' = batch /\ default_scheduler_messages' = <<>> /\ custom_scheduler_messages' = <<>>
        /\ main' = "customs"
    BY <1>3, <1>6 DEF Erase
  <2>2. default_scheduler_messages = <<>> /\ custom_scheduler_messages = <<>>
    BY <2>1 DEF Entry
  <2> QED BY <1>1, <1>3, <2>1, <2>2 DEF OwnHandler, Unheard
<1> QED BY <1>4, <1>5, <1>6

LEMMA ConversationKept ==
  ASSUME LinkTypes, Subscribed, Entry, Conversation, [Next]_vars, ~raced'
  PROVE  Conversation'
BY WireTalks, OtherEndTalks, BindingTalks, TakingTalks, HandlerTalks, TakenAwayTalks DEF Next, SchedulerThread

-----------------------------------------------------------------------------
HandshakeInv == LinkTypes /\ Bindings /\ Subscribed /\ (~raced => Entry /\ Conversation)

LEMMA InitHandshakeInv ==
  ASSUME Init, LinkTypes
  PROVE  HandshakeInv
<1>1. tasks = <<>> /\ tasks \in Seq(TasksOf(connection)) /\ Len(tasks) = 0
  BY DEF Init, LinkTypes, TaskTypes
<1>2. Count(tasks) = 0
  BY <1>1, CountFacts
<1>3. Bindings
  BY <1>1 DEF Init, Bindings
<1>4. Subscribed /\ Conversation
  BY DEF Init, Subscribed, Conversation, Greeted, Standing
<1>5. Len(default_scheduler_messages) = 0
  BY DEF Init
<1>6. Entry
  BY <1>2, <1>5 DEF Init, Entry
<1> QED BY <1>3, <1>4, <1>6 DEF HandshakeInv

LEMMA RacedForGood == [Next]_vars => (raced => raced')
<1> USE DEF lifetimeVars, brokerVars, mainVars, modelVars, riderVars, linkVars
<1>1. WireThread => (raced => raced')
  BY DEF WireThread, Connect, Dispatch, Disconnect, RunAction, Disconnected
<1>2. SchedulerThread => raced' = raced
  BY DEF SchedulerThread, BindModel, Subscribe, AddUnsubscribe, SendReady, AddDisconnect, Announce, EndModel,
         StartDispatched, TakeMessage, Invoke, RunHandler, TestEmpty, MoveOut, Erase, FinishDispatched
<1>3. RunListener \/ FireAsyncAction \/ FinishSend \/ RiderBinds \/ RiderEnds \/ RiderReceives => raced' = raced
  BY DEF RunListener, FireAsyncAction, FinishSend, RiderBinds, RiderEnds, RiderReceives
<1> QED BY <1>1, <1>2, <1>3 DEF Next, vars

LEMMA HandshakeInvHolds ==
  ASSUME HandshakeInv
  PROVE  Handshake
<1> SUFFICES ASSUME Quiet, rider.bound, ~raced PROVE connected /\ rider.connected
  BY DEF Handshake
<1>1. LinkTypes /\ Bindings /\ Subscribed /\ Entry /\ Conversation
  BY DEF HandshakeInv
<1>2. tasks = <<>> /\ Len(tasks) = 0 /\ tasks \in Seq(TasksOf(connection)) /\ main = "idle" /\ link = "up"
      /\ toEditor = <<>> /\ toRider = <<>>
  BY <1>1 DEF Quiet, LinkTypes, TaskTypes
<1>3. model = connection
  BY <1>1, <1>2 DEF Bindings
<1>4. Talk(Unheard, toRider, rider.bound, rider.connected, connected)
  BY <1>1, <1>2, <1>3 DEF Conversation, Greeted, Standing
<1>5. Unheard = <<>>
  <2>1. default_scheduler_messages = <<>>
    <3>0. Count(tasks) = 0
      BY <1>2, CountFacts
    <3>1. Len(default_scheduler_messages) = 0
      BY <1>1, <1>2, <3>0 DEF Entry
    <3>2. default_scheduler_messages \in Seq(States)
      BY <1>1, LinkFacts
    <3> QED BY <3>1, <3>2, Emptiness
  <2>2. custom_scheduler_messages = <<>> /\ batch = <<>>
    BY <1>1, <1>2, <2>1 DEF Entry
  <2>3. <<>> \o <<>> = <<>>
    OBVIOUS
  <2> QED BY <1>2, <2>1, <2>2, <2>3 DEF Unheard
<1>6. \A y : ~Has(<<>>, y)
  BY DEF Has
<1> QED BY <1>2, <1>4, <1>5, <1>6 DEF Talk

\* Whenever all is quiet and both ends have their model, both know that the
\* other has, however often either end came and went, and whether the messages
\* found a handler or waited in the broker for one; unless one came while the
\* broker took an entry away without its lock (RdExtBase.cpp, MessageBroker.cpp).
THEOREM LinkHandshake == Spec => []Handshake
<1>1. Init => HandshakeInv
  BY InitLinkTypes, InitHandshakeInv
<1>2. HandshakeInv /\ [Next]_vars => HandshakeInv'
  <2> SUFFICES ASSUME HandshakeInv, [Next]_vars PROVE HandshakeInv'
    OBVIOUS
  <2>1. LinkTypes /\ LinkTypes'
    BY ConnectionTypesKept, TaskTypesKept, MessageTypesKept, HasMessageKept DEF HandshakeInv, LinkTypes
  <2>2. Bindings' /\ Subscribed'
    BY <2>1, BindingsKept, SubscribedKept DEF HandshakeInv
  <2>3. ~raced' => Entry' /\ Conversation'
    BY <2>1, RacedForGood, EntryKept, ConversationKept DEF HandshakeInv
  <2> QED BY <2>1, <2>2, <2>3 DEF HandshakeInv
<1>3. HandshakeInv => Handshake
  BY HandshakeInvHolds
<1> QED BY <1>1, <1>2, <1>3, PTL DEF Spec

=============================================================================
