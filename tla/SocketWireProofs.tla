-------------------------- MODULE SocketWireProofs --------------------------
(***************************************************************************)
(* The wire, for any number of packages and connections: first its sending *)
(* end, AsyncProcessor, then the composition with the reading end.         *)
(*                                                                         *)
(* The sender's invariant adds to the properties where an acknowledgement  *)
(* can come from: what is on the line was sent, the package being moved    *)
(* included.  What is proved of it carries over, for the wire implements   *)
(* AsyncProcessor.  For what the reader dispatches the invariants say how  *)
(* the next number on its way follows max_received_seqn: on the first      *)
(* connection by one, and on all of them upwards except for a first        *)
(* package.                                                                *)
(***************************************************************************)
EXTENDS SocketWire, SequenceTheorems, TLAPS

-----------------------------------------------------------------------------
(* The sending end.                                                        *)

\* The highest number ever sent: process() counts it after sending it.
Highest == IF thread = "sent" THEN max_sent_seqn + 1 ELSE max_sent_seqn

\* Only what was sent is acknowledged, or can be.
OnlySent ==
  /\ acknowledged_seqn <= Highest
  /\ \A i \in 1..Len(line) : line[i] <= Highest

\* A package that is being moved is the front of the queue, and is on the line
\* when the connection lives.
BeingMoved ==
  thread = "sent" =>
    /\ queue # <<>>
    /\ wire = "up" /\ socket = "alive" =>
         \/ max_sent_seqn + 1 <= acknowledged_seqn
         \/ \E i \in 1..Len(line) : line[i] = max_sent_seqn + 1

\* Exactly the time a connection is served is not paused.
PausedUnlessUp == interrupt_balance = IF wire = "up" THEN 0 ELSE 1

\* The threads begin with start().
StartedByStart == state = "Initialized" => thread = "none" /\ wire = "constructed"

IInv ==
  /\ TypeOK /\ StartedByStart /\ Conserved /\ KeepsUnacknowledged
  /\ OnlySent /\ BeingMoved /\ PausedUnlessUp /\ ResentOnTheLine


-----------------------------------------------------------------------------
(* Sequences of numbers.                                                   *)

LEMMA AppendFacts ==
  ASSUME NEW q \in Seq(Nat), NEW x \in Nat
  PROVE  /\ Append(q, x) \in Seq(Nat) /\ Len(Append(q, x)) = Len(q) + 1
         /\ Append(q, x)[Len(q) + 1] = x
         /\ \A i \in 1..Len(q) : Append(q, x)[i] = q[i]
  OBVIOUS

LEMMA TailFacts ==
  ASSUME NEW q \in Seq(Nat), q # <<>>
  PROVE  /\ Len(q) \in Nat \ {0} /\ Head(q) = q[1] /\ q[1] \in Nat
         /\ Tail(q) \in Seq(Nat) /\ Len(Tail(q)) = Len(q) - 1
         /\ \A i \in 1..Len(Tail(q)) : Tail(q)[i] = q[i + 1]
  OBVIOUS

LEMMA ConcatFacts ==
  ASSUME NEW p \in Seq(Nat), NEW q \in Seq(Nat)
  PROVE  /\ p \o q \in Seq(Nat) /\ Len(p \o q) = Len(p) + Len(q)
         /\ \A i \in 1..Len(p) : (p \o q)[i] = p[i]
         /\ \A i \in 1..Len(q) : (p \o q)[Len(p) + i] = q[i]
  OBVIOUS

LEMMA ResentFacts ==
  ASSUME NEW q, Len(q) \in Nat, NEW first \in Nat
  PROVE  /\ Resent(q, first) \in Seq(Nat) /\ Len(Resent(q, first)) = Len(q)
         /\ \A i \in 1..Len(q) : Resent(q, first)[i] = first + i - 1
  BY DEF Resent

LEMMA SuffixFacts ==
  ASSUME NEW q \in Seq(Nat), NEW n \in 0..Len(q)
  PROVE  /\ SubSeq(q, n + 1, Len(q)) \in Seq(Nat)
         /\ Len(SubSeq(q, n + 1, Len(q))) = Len(q) - n
         /\ \A i \in 1..(Len(q) - n) : SubSeq(q, n + 1, Len(q))[i] = q[i + n]
<1>1. Len(q) \in Nat /\ n \in Nat /\ n <= Len(q)
  OBVIOUS
<1>2. \A i \in (n + 1)..Len(q) : q[i] \in Nat
  BY <1>1
<1> DEFINE r == SubSeq(q, n + 1, Len(q))
<1>3. /\ r \in Seq(Nat)
      /\ Len(r) = IF n + 1 <= Len(q) THEN Len(q) - (n + 1) + 1 ELSE 0
      /\ \A i \in 1..(Len(q) - (n + 1) + 1) : r[i] = q[n + 1 + i - 1]
  BY <1>1, <1>2, SubSeqProperties
<1> HIDE DEF r
<1>4. Len(r) = Len(q) - n
  <2>1. Len(r) = IF n + 1 <= Len(q) THEN Len(q) - (n + 1) + 1 ELSE 0
    BY <1>3
  <2>2. CASE n = Len(q)
    BY <1>1, <2>1, <2>2
  <2>3. CASE n # Len(q)
    BY <1>1, <2>1, <2>3
  <2> QED BY <2>2, <2>3
<1>5. ASSUME NEW i \in 1..(Len(q) - n) PROVE r[i] = q[i + n]
  <2>1. i \in 1..(Len(q) - (n + 1) + 1) /\ n + 1 + i - 1 = i + n
    BY <1>1
  <2> QED BY <1>3, <2>1
<1> QED BY <1>3, <1>4, <1>5 DEF r

-----------------------------------------------------------------------------
(* One lemma for each action that touches what the invariant relates.      *)

LEMMA InitIInv == Init => IInv
  BY AsyncAssumption DEF Init, IInv, TypeOK, Conserved, KeepsUnacknowledged, OnlySent, Highest,
     BeingMoved, PausedUnlessUp, StartedByStart, ResentOnTheLine

\* The new number goes to the end of the line, or the socket is dead.
LEMMA SendKeeps == IInv /\ ProcessSend => IInv'
<1> SUFFICES ASSUME IInv, ProcessSend PROVE IInv'
  OBVIOUS
<1> USE DEF ProcessSend, buffers, seqns
<1>0. line \in Seq(Nat) /\ max_sent_seqn \in Nat
  BY DEF IInv, TypeOK
<1>1. TypeOK' /\ Conserved' /\ KeepsUnacknowledged' /\ PausedUnlessUp' /\ StartedByStart'
  <2>1. line' \in Seq(Nat)
    <3>1. line' = line \/ line' = Append(line, max_sent_seqn + 1)
      OBVIOUS
    <3>2. max_sent_seqn + 1 \in Nat
      BY <1>0
    <3> QED BY <1>0, <3>1, <3>2, AppendFacts
  <2>2. thread' \in {"sent", "check"}
    OBVIOUS
  <2>3. TypeOK'
    BY <2>1, <2>2 DEF IInv, TypeOK
  <2>4. Conserved' /\ KeepsUnacknowledged' /\ PausedUnlessUp' /\ StartedByStart'
    BY DEF IInv, Conserved, KeepsUnacknowledged, PausedUnlessUp, StartedByStart
  <2> QED BY <2>3, <2>4
<1>2. OnlySent'
  <2>1. acknowledged_seqn' <= Highest'
    BY DEF IInv, TypeOK, OnlySent, Highest
  <2>2. ASSUME NEW i \in 1..Len(line') PROVE line'[i] <= Highest'
    <3>1. CASE line' = line
      BY <3>1 DEF IInv, TypeOK, OnlySent, Highest
    <3>2. CASE line' = Append(line, max_sent_seqn + 1) /\ thread' = "sent"
      <4>1. CASE i = Len(line) + 1
        BY <3>2, <4>1 DEF IInv, TypeOK, Highest
      <4>2. CASE i \in 1..Len(line)
        BY <3>2, <4>2 DEF IInv, TypeOK, OnlySent, Highest
      <4> QED BY <3>2, <4>1, <4>2 DEF IInv, TypeOK
    <3> QED BY <3>1, <3>2
  <2> QED BY <2>1, <2>2 DEF OnlySent
<1>3. BeingMoved'
  <2>1. CASE thread' = "sent" /\ socket = "alive"
    <3>1. line'[Len(line) + 1] = max_sent_seqn + 1 /\ Len(line') = Len(line) + 1
      BY <2>1, <1>0, AppendFacts
    <3>2. Len(line) + 1 \in 1..Len(line')
      BY <1>0, <3>1
    <3>3. queue' # <<>>
      OBVIOUS
    <3> QED BY <3>1, <3>2, <3>3 DEF BeingMoved
  <2>2. CASE thread' = "sent" /\ socket # "alive"
    BY <2>2 DEF BeingMoved
  <2>3. CASE thread' = "check"
    BY <2>3 DEF BeingMoved
  <2> QED BY <2>1, <2>2, <2>3
<1>4. ResentOnTheLine'
  <2> SUFFICES ASSUME wire = "up", socket = "alive", NEW s \in current_seqn..max_sent_seqn,
                      ~(s <= acknowledged_seqn)
               PROVE  \E i \in 1..Len(line') : line'[i] = s
    BY DEF ResentOnTheLine
  <2>1. PICK i \in 1..Len(line) : line[i] = s
    BY DEF IInv, ResentOnTheLine
  <2>2. i \in 1..Len(line') /\ line'[i] = s
    BY <1>0, <2>1, AppendFacts
  <2> QED BY <2>2
<1> QED BY <1>1, <1>2, <1>3, <1>4 DEF IInv

\* The front of the queue becomes the end of the pending queue, under the
\* number it was sent with.
LEMMA MoveKeeps == IInv /\ ProcessMove => IInv'
<1> SUFFICES ASSUME IInv, ProcessMove PROVE IInv'
  OBVIOUS
<1> USE DEF ProcessMove, link
<1>0. /\ queue # <<>> /\ thread = "sent" /\ queue \in Seq(Nat) /\ pending_queue \in Seq(Nat)
      /\ max_sent_seqn \in Nat /\ current_seqn \in Nat
  BY DEF IInv, BeingMoved, TypeOK
<1>1. /\ Head(queue) = queue[1] /\ Len(queue') = Len(queue) - 1
      /\ \A i \in 1..Len(queue') : queue'[i] = queue[i + 1]
      /\ queue' \in Seq(Nat) /\ queue[1] \in Nat /\ Len(queue) \in Nat \ {0}
  BY <1>0, TailFacts
<1>2. /\ Len(pending_queue') = Len(pending_queue) + 1
      /\ pending_queue'[Len(pending_queue) + 1] = queue[1]
      /\ \A i \in 1..Len(pending_queue) : pending_queue'[i] = pending_queue[i]
      /\ pending_queue' \in Seq(Nat)
  BY <1>0, <1>1, AppendFacts
<1>3. TypeOK'
  BY <1>1, <1>2 DEF IInv, TypeOK
<1>4. Conserved'
  <2>1. queue[1] = max_sent_seqn + 1 /\ current_seqn + Len(pending_queue) = max_sent_seqn + 1
    BY <1>0, <1>1 DEF IInv, Conserved
  <2>2. \A i \in 1..Len(pending_queue') : pending_queue'[i] = current_seqn + i - 1
    <3> SUFFICES ASSUME NEW i \in 1..Len(pending_queue') PROVE pending_queue'[i] = current_seqn + i - 1
      OBVIOUS
    <3>1. CASE i = Len(pending_queue) + 1
      BY <1>0, <1>2, <2>1, <3>1
    <3>2. CASE i \in 1..Len(pending_queue)
      BY <1>2, <3>2 DEF IInv, Conserved
    <3> QED BY <1>0, <1>2, <3>1, <3>2
  <2>3. \A i \in 1..Len(queue') : queue'[i] = max_sent_seqn' + i
    BY <1>0, <1>1 DEF IInv, Conserved
  <2>4. max_sent_seqn' + Len(queue') = max_sent_seqn + Len(queue)
    BY <1>0, <1>1
  <2>5. /\ \A i \in 1..Len(data') : data'[i] = max_sent_seqn' + Len(queue') + i
        /\ max_sent_seqn' + Len(queue') + Len(data') = puts'
    BY <2>4 DEF IInv, Conserved
  <2>6. current_seqn' + Len(pending_queue') = max_sent_seqn' + 1
    BY <1>0, <1>2, <2>1
  <2> QED BY <2>2, <2>3, <2>5, <2>6 DEF Conserved
<1>5. KeepsUnacknowledged' /\ PausedUnlessUp' /\ StartedByStart' /\ OnlySent' /\ BeingMoved'
  BY <1>0 DEF IInv, KeepsUnacknowledged, PausedUnlessUp, StartedByStart, OnlySent, Highest, BeingMoved
<1>6. ResentOnTheLine'
  <2> SUFFICES ASSUME wire = "up", socket = "alive", NEW s \in current_seqn..(max_sent_seqn + 1)
               PROVE  s <= acknowledged_seqn \/ \E i \in 1..Len(line) : line[i] = s
    BY DEF ResentOnTheLine
  <2>1. CASE s = max_sent_seqn + 1
    BY <1>0, <2>1 DEF IInv, BeingMoved
  <2>2. CASE s \in current_seqn..max_sent_seqn
    BY <2>2 DEF IInv, ResentOnTheLine
  <2> QED BY <1>0, <2>1, <2>2
<1> QED BY <1>3, <1>4, <1>5, <1>6 DEF IInv

\* What is acknowledged goes from the front of the pending queue, which is long
\* enough, and the rest goes to the end of the line.
LEMMA ResumeKeeps == IInv /\ Resume => IInv'
<1> SUFFICES ASSUME IInv, Resume PROVE IInv'
  OBVIOUS
<1>0. /\ line \in Seq(Nat) /\ pending_queue \in Seq(Nat)
      /\ max_sent_seqn \in Nat /\ current_seqn \in Nat /\ acknowledged_seqn \in Nat
      /\ thread # "sent" /\ wire = "resuming" /\ interrupt_balance = 1
      /\ current_seqn + Len(pending_queue) = max_sent_seqn + 1
      /\ acknowledged_seqn <= max_sent_seqn
      /\ current_seqn <= acknowledged_seqn + 1
      /\ \A i \in 1..Len(line) : line[i] <= max_sent_seqn
  BY DEF IInv, TypeOK, Conserved, KeepsUnacknowledged, OnlySent, Highest, PausedUnlessUp,
     Resume, QueueLockFree, Processing
<1> DEFINE again == Resent(pending_queue', current_seqn')
<1>1. /\ current_seqn' = current_seqn + Acked
      /\ pending_queue' = SubSeq(pending_queue, Acked + 1, Len(pending_queue))
      /\ line' = IF socket = "alive" THEN line \o again ELSE line
      /\ interrupt_balance' = 0 /\ wire' = "up"
      /\ thread' \in {thread, "check"}
      /\ state # "Initialized"
      /\ UNCHANGED <<state, data, queue, max_sent_seqn, acknowledged_seqn, puts, socket, connections, closer>>
  BY <1>0 DEF Resume, Notified, IInv, StartedByStart
<1>2. Acked \in 0..Len(pending_queue) /\ current_seqn + Acked = acknowledged_seqn + 1
  <2>1. Len(pending_queue) \in Nat
    BY <1>0
  <2>2. CASE current_seqn <= acknowledged_seqn
    BY <1>0, <2>1, <2>2 DEF Acked
  <2>3. CASE ~(current_seqn <= acknowledged_seqn)
    BY <1>0, <2>1, <2>3 DEF Acked
  <2> QED BY <2>2, <2>3
<1>3. /\ pending_queue' \in Seq(Nat)
      /\ Len(pending_queue') = Len(pending_queue) - Acked
      /\ \A i \in 1..Len(pending_queue') : pending_queue'[i] = pending_queue[i + Acked]
  BY <1>0, <1>1, <1>2, SuffixFacts
<1>4. /\ current_seqn' = acknowledged_seqn + 1 /\ current_seqn' \in Nat
      /\ Len(pending_queue') \in Nat
      /\ current_seqn' + Len(pending_queue') = max_sent_seqn + 1
  <2>1. Len(pending_queue) \in Nat /\ Acked \in Nat
    BY <1>0, <1>2
  <2>2. Len(pending_queue') \in Nat
    BY <1>3
  <2>3. Len(pending_queue') = Len(pending_queue) - Acked
    BY <1>3
  <2>4. current_seqn' = acknowledged_seqn + 1
    BY <1>1, <1>2
  <2>5. max_sent_seqn = current_seqn + Len(pending_queue) - 1
    BY <1>0, <2>1
  <2>6. current_seqn + Acked = acknowledged_seqn + 1
    BY <1>2
  <2>7. acknowledged_seqn \in Nat /\ current_seqn \in Nat /\ max_sent_seqn \in Nat
    BY <1>0
  <2>8. acknowledged_seqn + 1 + (Len(pending_queue) - Acked) = max_sent_seqn + 1
    BY <2>1, <2>5, <2>6, <2>7
  <2> QED BY <2>2, <2>3, <2>4, <2>7, <2>8
<1>5. /\ again \in Seq(Nat) /\ Len(again) = Len(pending_queue')
      /\ \A i \in 1..Len(again) : again[i] = current_seqn' + i - 1
  BY <1>4, ResentFacts
<1> HIDE DEF again
<1>6. TypeOK'
  <2>1. line' \in Seq(Nat)
    BY <1>0, <1>1, <1>5, ConcatFacts
  <2> QED BY <1>1, <1>3, <1>4, <2>1 DEF IInv, TypeOK
<1>7. Conserved'
  <2>1. \A i \in 1..Len(pending_queue') : pending_queue'[i] = current_seqn' + i - 1
    <3> SUFFICES ASSUME NEW i \in 1..Len(pending_queue') PROVE pending_queue'[i] = current_seqn' + i - 1
      OBVIOUS
    <3>0. i \in Nat /\ Acked \in Nat /\ Len(pending_queue) \in Nat
      BY <1>0, <1>2, <1>4
    <3>1. i + Acked \in 1..Len(pending_queue)
      BY <1>3, <1>4, <3>0
    <3>2. pending_queue[i + Acked] = current_seqn + (i + Acked) - 1
      BY <3>1 DEF IInv, Conserved
    <3> QED BY <1>0, <1>1, <1>3, <3>0, <3>2
  <2> QED BY <1>1, <1>4, <2>1 DEF IInv, Conserved
<1>8. KeepsUnacknowledged' /\ PausedUnlessUp' /\ StartedByStart' /\ BeingMoved'
  BY <1>0, <1>1, <1>4 DEF KeepsUnacknowledged, PausedUnlessUp, StartedByStart, BeingMoved, IInv
<1>9. OnlySent'
  <2>1. Highest' = max_sent_seqn
    BY <1>0, <1>1 DEF Highest
  <2>2. ASSUME NEW i \in 1..Len(line') PROVE line'[i] <= max_sent_seqn
    <3>1. CASE line' = line
      BY <1>0, <3>1
    <3>2. CASE line' = line \o again
      <4>1. CASE i \in 1..Len(line)
        BY <1>0, <1>5, <3>2, <4>1, ConcatFacts
      <4>2. CASE i \notin 1..Len(line)
        <5>1. PICK j \in 1..Len(again) : i = Len(line) + j
          <6>1. Len(line) \in Nat /\ Len(again) \in Nat
            BY <1>0, <1>5
          <6>2. Len(line') = Len(line) + Len(again)
            BY <1>0, <1>5, <3>2, ConcatFacts
          <6>3. i - Len(line) \in 1..Len(again) /\ i = Len(line) + (i - Len(line))
            BY <4>2, <6>1, <6>2
          <6> QED BY <6>3
        <5>2. line'[i] = current_seqn' + j - 1
          BY <1>0, <1>5, <3>2, <5>1, ConcatFacts
        <5> QED BY <1>0, <1>4, <1>5, <5>2
      <4> QED BY <4>1, <4>2
    <3> QED BY <1>1, <3>1, <3>2
  <2> QED BY <1>0, <1>1, <2>1, <2>2 DEF OnlySent
<1>10. ResentOnTheLine'
  <2> SUFFICES ASSUME socket = "alive", NEW s \in current_seqn'..max_sent_seqn
               PROVE  \E i \in 1..Len(line') : line'[i] = s
    BY <1>1 DEF ResentOnTheLine
  <2> DEFINE at == s - current_seqn' + 1
  <2>1. at \in 1..Len(again) /\ current_seqn' + at - 1 = s
    BY <1>0, <1>4, <1>5
  <2> HIDE DEF at
  <2>2. again[at] = s
    BY <1>5, <2>1
  <2>3. line' = line \o again
    BY <1>1
  <2>4. line'[Len(line) + at] = again[at] /\ Len(line') = Len(line) + Len(again)
    BY <1>0, <1>5, <2>1, <2>3, ConcatFacts
  <2>5. Len(line) + at \in 1..Len(line')
    BY <1>0, <1>5, <2>1, <2>4
  <2> QED BY <2>2, <2>4, <2>5
<1> QED BY <1>6, <1>7, <1>8, <1>9, <1>10 DEF IInv

\* What leaves the line is acknowledged by that.
LEMMA AcknowledgeKeeps == IInv /\ Acknowledge => IInv'
<1> SUFFICES ASSUME IInv, Acknowledge PROVE IInv'
  OBVIOUS
<1> USE DEF Acknowledge, buffers
<1>0. /\ line \in Seq(Nat) /\ line # <<>> /\ acknowledged_seqn \in Nat
      /\ max_sent_seqn \in Nat /\ current_seqn \in Nat
  BY DEF IInv, TypeOK
<1>1. /\ line' \in Seq(Nat) /\ Len(line') = Len(line) - 1 /\ line[1] \in Nat
      /\ Head(line) = line[1]
      /\ \A i \in 1..Len(line') : line'[i] = line[i + 1]
  BY <1>0, TailFacts
<1>2. /\ acknowledged_seqn' \in Nat
      /\ acknowledged_seqn <= acknowledged_seqn' /\ line[1] <= acknowledged_seqn'
      /\ acknowledged_seqn' \in {line[1], acknowledged_seqn}
  BY <1>0, <1>1
<1>3. TypeOK' /\ Conserved' /\ KeepsUnacknowledged' /\ PausedUnlessUp' /\ StartedByStart'
  <2>1. TypeOK'
    BY <1>1, <1>2 DEF IInv, TypeOK
  <2>2. Conserved' /\ PausedUnlessUp' /\ StartedByStart'
    BY DEF IInv, Conserved, PausedUnlessUp, StartedByStart
  <2>3. KeepsUnacknowledged'
    BY <1>0, <1>2 DEF IInv, KeepsUnacknowledged
  <2> QED BY <2>1, <2>2, <2>3
<1>4. OnlySent'
  BY <1>0, <1>1, <1>2 DEF IInv, OnlySent, Highest
<1>5. ASSUME NEW s \in Nat, s <= acknowledged_seqn \/ \E i \in 1..Len(line) : line[i] = s
      PROVE  s <= acknowledged_seqn' \/ \E i \in 1..Len(line') : line'[i] = s
  <2>1. CASE s <= acknowledged_seqn
    BY <1>0, <1>2, <2>1
  <2>2. CASE \E i \in 1..Len(line) : line[i] = s
    <3>1. PICK i \in 1..Len(line) : line[i] = s
      BY <2>2
    <3>2. CASE i = 1
      BY <1>2, <3>1, <3>2
    <3>3. CASE i # 1
      <4>1. i - 1 \in 1..Len(line') /\ line'[i - 1] = s
        BY <1>0, <1>1, <3>1, <3>3
      <4> QED BY <4>1
    <3> QED BY <3>2, <3>3
  <2> QED BY <1>5, <2>1, <2>2
<1>6. BeingMoved'
  <2>1. BeingMoved /\ UNCHANGED <<thread, queue, wire, socket, max_sent_seqn>>
    BY DEF IInv
  <2>2. max_sent_seqn + 1 \in Nat
    BY <1>0
  <2> QED BY <1>5, <2>1, <2>2 DEF BeingMoved
<1>7. ResentOnTheLine'
  <2> SUFFICES ASSUME wire = "up", socket = "alive", NEW s \in current_seqn..max_sent_seqn
               PROVE  s <= acknowledged_seqn' \/ \E i \in 1..Len(line') : line'[i] = s
    BY DEF ResentOnTheLine
  <2>1. s \in Nat
    BY <1>0
  <2>2. s <= acknowledged_seqn \/ \E i \in 1..Len(line) : line[i] = s
    BY DEF IInv, ResentOnTheLine
  <2> QED BY <1>5, <2>1, <2>2
<1> QED BY <1>3, <1>4, <1>6, <1>7 DEF IInv

\* Before the start there are no packages; put adds one at the end.
LEMMA StartPutKeep == IInv /\ (Start \/ Put) => IInv'
<1>1. ASSUME IInv, Start PROVE IInv'
  <2>1. thread' # "sent" /\ wire' = "down" /\ interrupt_balance' = interrupt_balance
    BY <1>1 DEF Start
  <2>2. TypeOK'
    BY <1>1 DEF IInv, TypeOK, Start, buffers, seqns, link
  <2>3. Conserved' /\ KeepsUnacknowledged'
    BY <1>1 DEF IInv, Conserved, KeepsUnacknowledged, Start, buffers, seqns
  <2>4. UNCHANGED <<max_sent_seqn, acknowledged_seqn, line>> /\ thread # "sent" /\ interrupt_balance = 1
    BY <1>1 DEF IInv, StartedByStart, PausedUnlessUp, TypeOK, Start, seqns, link
  <2>5. OnlySent' /\ BeingMoved' /\ ResentOnTheLine'
    BY <1>1, <2>1, <2>4 DEF IInv, OnlySent, Highest, BeingMoved, ResentOnTheLine
  <2>6. PausedUnlessUp' /\ StartedByStart'
    BY <1>1, <2>1, <2>4 DEF PausedUnlessUp, StartedByStart, Start
  <2> QED BY <2>2, <2>3, <2>5, <2>6 DEF IInv
<1>2. ASSUME IInv, Put PROVE IInv'
  <2> USE <1>2 DEF Put, Notified, seqns, link
  <2>0. data \in Seq(Nat) /\ puts \in Nat /\ puts' = puts + 1 /\ puts' \in 0..MaxPackages
    BY AsyncAssumption DEF IInv, TypeOK
  <2>1. /\ data' \in Seq(Nat) /\ Len(data') = Len(data) + 1 /\ data'[Len(data) + 1] = puts + 1
        /\ \A i \in 1..Len(data) : data'[i] = data[i]
    BY <2>0, AppendFacts
  <2>2. TypeOK'
    BY <2>0, <2>1 DEF IInv, TypeOK
  <2>3. Conserved'
    <3>1. max_sent_seqn + Len(queue) + Len(data) = puts /\ max_sent_seqn \in Nat /\ queue \in Seq(Nat)
      BY DEF IInv, TypeOK, Conserved
    <3>2. Len(queue) \in Nat /\ Len(data) \in Nat
      BY <2>0, <3>1
    <3>3. ASSUME NEW i \in 1..Len(data') PROVE data'[i] = max_sent_seqn + Len(queue) + i
      <4>1. CASE i = Len(data) + 1
        BY <2>1, <3>1, <3>2, <4>1
      <4>2. CASE i \in 1..Len(data)
        BY <2>1, <4>2 DEF IInv, Conserved
      <4> QED BY <2>1, <3>2, <4>1, <4>2
    <3>4. max_sent_seqn + Len(queue) + Len(data') = puts'
      BY <2>0, <2>1, <3>1, <3>2
    <3> QED BY <3>3, <3>4 DEF IInv, Conserved
  <2>4. thread' = "sent" <=> thread = "sent"
    OBVIOUS
  <2> QED
    BY <2>2, <2>3, <2>4
       DEF IInv, KeepsUnacknowledged, OnlySent, Highest, BeingMoved, PausedUnlessUp, StartedByStart, ResentOnTheLine
<1> QED BY <1>1, <1>2

-----------------------------------------------------------------------------
(* All steps.                                                              *)

LEMMA StepIInv == IInv /\ [Next]_vars => IInv'
<1> SUFFICES ASSUME IInv, [Next]_vars PROVE IInv'
  OBVIOUS
<1> USE AsyncAssumption DEF IInv, TypeOK, Conserved, KeepsUnacknowledged, OnlySent, Highest,
    BeingMoved, PausedUnlessUp, StartedByStart, ResentOnTheLine, Processing, Notified, buffers, seqns, link
<1>1. CASE Start
  BY <1>1, StartPutKeep
<1>2. CASE Put
  BY <1>2, StartPutKeep
<1>3. CASE ThreadReturn
  BY <1>3 DEF ThreadReturn
<1>4. CASE ThreadWait
  BY <1>4 DEF ThreadWait
<1>5. CASE TakeData
  BY <1>5, SMTT(30) DEF TakeData
<1>6. CASE ProcessBegin
  BY <1>6 DEF ProcessBegin
<1>7. CASE ProcessSend
  BY <1>7, SendKeeps
<1>8. CASE ProcessMove
  BY <1>8, MoveKeeps
<1>9. CASE ProcessEnd
  BY <1>9 DEF ProcessEnd
<1>10. CASE Connect
  BY <1>10 DEF Connect
<1>11. CASE ResumeLock
  BY <1>11 DEF ResumeLock
<1>12. CASE Resume
  BY <1>12, ResumeKeeps
<1>13. CASE Acknowledge
  BY <1>13, AcknowledgeKeeps
<1>14. CASE PauseLock
  BY <1>14 DEF PauseLock
<1>15. CASE PauseEnd
  BY <1>15 DEF PauseEnd
<1>16. CASE WireReturn
  BY <1>16 DEF WireReturn
<1>17. CASE Break
  BY <1>17, SMTT(30) DEF Break
<1>18. CASE Stop
  BY <1>18 DEF Stop
<1>19. CASE Cleanup
  BY <1>19 DEF Cleanup
<1>20. CASE CloseSockets
  BY <1>20 DEF CloseSockets
<1>21. CASE UNCHANGED vars
  BY <1>21 DEF vars
<1> QED
  BY <1>1, <1>2, <1>3, <1>4, <1>5, <1>6, <1>7, <1>8, <1>9, <1>10, <1>11, <1>12, <1>13,
     <1>14, <1>15, <1>16, <1>17, <1>18, <1>19, <1>20, <1>21
     DEF Next, AsyncThread, WireThread, Closing

-----------------------------------------------------------------------------
(* The theorems.                                                           *)

LEMMA AlwaysIInv == Spec => []IInv
  BY InitIInv, StepIInv, PTL DEF Spec

\* Every variable of the processor and of its threads keeps its type.
THEOREM AsyncTypeCorrect == Spec => []TypeOK
<1>1. IInv => TypeOK
  BY DEF IInv
<1> QED BY AlwaysIInv, <1>1, PTL

\* However many connections break, the buffers of the processor hold the
\* packages that may still be needed, once, in the order put, each under its number.
THEOREM AsyncConserves == Spec => []Conserved
<1>1. IInv => Conserved
  BY DEF IInv
<1> QED BY AlwaysIInv, <1>1, PTL

\* No package that was not acknowledged is ever dropped.
THEOREM AsyncKeeps == Spec => []KeepsUnacknowledged
<1>1. IInv => KeepsUnacknowledged
  BY DEF IInv
<1> QED BY AlwaysIInv, <1>1, PTL

\* pop_front in reprocess always finds a package.
THEOREM AsyncPops == Spec => []PopsWhatItHas
<1>1. IInv => PopsWhatItHas
  BY DEF IInv, TypeOK, Conserved, OnlySent, Highest, Processing, PopsWhatItHas
<1> QED BY AlwaysIInv, <1>1, PTL

\* After each reconnection everything not acknowledged is sent again.
THEOREM AsyncResends == Spec => []ResentOnTheLine
<1>1. IInv => ResentOnTheLine
  BY DEF IInv
<1> QED BY AlwaysIInv, <1>1, PTL

\* The four together: the bookkeeping of process, put, acknowledge and reprocess.
THEOREM AsyncSenderSafe == Spec => []SenderSafe
BY AsyncConserves, AsyncKeeps, AsyncPops, AsyncResends, PTL DEF SenderSafe

-----------------------------------------------------------------------------
(* The composition.                                                        *)

\* Until the first resume nothing was taken or sent, so there is nothing to
\* send again.
NotBegun ==
  connections = 0 \/ (connections = 1 /\ wire \in {"provided", "resuming"}) =>
    /\ connections = 0 => wire \in {"constructed", "down", "off"}
    /\ max_sent_seqn = 0 /\ current_seqn = 1 /\ acknowledged_seqn = 0
    /\ thread \notin {"taken", "process", "sent"}
    /\ line = <<>> /\ returning = 0 /\ leftover = <<>>
    /\ max_received_seqn = 0 /\ stray = 0 /\ in_step /\ dispatched = <<>>

\* On the first connection what is on its way continues what was dispatched.
Continues ==
  /\ in_step /\ stray = 0
  /\ Len(dispatched) = max_received_seqn
  /\ \A i \in 1..Len(dispatched) : dispatched[i] = i
  /\ \A i \in 1..Len(leftover) : leftover[i] = max_received_seqn + i

LineContinues ==
  /\ \A i \in 1..Len(line) : line[i] + returning = max_received_seqn + i
  /\ max_received_seqn + Len(line) = Highest + returning

FirstConnection ==
  connections = 1 =>
    /\ Continues /\ socket # "none"
    /\ socket = "alive" => LineContinues /\ leftover = <<>>

\* Numbers rise, but for a first package, and max_received_seqn bounds them.
Rising ==
  /\ \A i, j \in 1..Len(dispatched) :
       i < j /\ (\A k \in (i + 1)..j : dispatched[k] # 1) => dispatched[i] < dispatched[j]
  /\ in_step => \A i \in 1..Len(dispatched) :
       (\A k \in (i + 1)..Len(dispatched) : dispatched[k] # 1) => dispatched[i] <= max_received_seqn

WireInv == IInv /\ WireTypes /\ NotBegun /\ FirstConnection /\ Rising

-----------------------------------------------------------------------------
(* The wire implements its sending end.                                    *)

LEMMA WireStep == [WireNext]_wireVars => [Next]_vars
<1> SUFFICES ASSUME [WireNext]_wireVars PROVE [Next]_vars
  OBVIOUS
<1>1. CASE SenderStep
  BY <1>1 DEF SenderStep, Next, WireThread, Closing
<1>2. CASE Reconnect
  BY <1>2 DEF Reconnect, Next, WireThread
<1>3. CASE AcknowledgeRead
  BY <1>3 DEF AcknowledgeRead, Next, WireThread
<1>4. CASE BreakLink
  BY <1>4 DEF BreakLink, Next
<1>5. CASE CloseLink
  BY <1>5 DEF CloseLink, Next, Closing
<1>6. CASE ReadAlive \/ ReadDead
  BY <1>6 DEF ReadAlive, ReadDead
<1>7. CASE UNCHANGED wireVars
  BY <1>7 DEF wireVars
<1> QED BY <1>1, <1>2, <1>3, <1>4, <1>5, <1>6, <1>7 DEF WireNext

\* The reading end of SocketWire.cpp keeps what the processor counts on: on a
\* connection it acknowledges what was sent on it, in that order.
THEOREM WireImplementsSender == WireSpec => SenderPromise
<1>1. WireInit => Init
  BY DEF WireInit
<1> QED BY <1>1, WireStep, PTL DEF WireSpec, SenderPromise, Spec

LEMMA WireAlwaysIInv == WireSpec => []IInv
  BY WireImplementsSender, AlwaysIInv DEF SenderPromise

-----------------------------------------------------------------------------
(* What a step of the sending end does to the line.                        *)

LEMMA SenderLine ==
  ASSUME IInv, SenderStep
  PROVE  /\ line' \in Seq(Nat) /\ Len(line) <= Len(line')
         /\ socket' = socket /\ connections' = connections
<1>0. line \in Seq(Nat) /\ pending_queue' \in Seq(Nat) /\ current_seqn' \in Nat /\ max_sent_seqn + 1 \in Nat
  <2>1. IInv'
    <3>1. [Next]_vars
      BY DEF SenderStep, Next, WireThread, Closing
    <3> QED BY <3>1, StepIInv
  <2> QED BY <2>1 DEF IInv, TypeOK
<1>1. CASE ProcessSend
  <2>1. /\ Append(line, max_sent_seqn + 1) \in Seq(Nat)
        /\ Len(line) <= Len(Append(line, max_sent_seqn + 1))
    <3>1. /\ Append(line, max_sent_seqn + 1) \in Seq(Nat)
          /\ Len(Append(line, max_sent_seqn + 1)) = Len(line) + 1 /\ Len(line) \in Nat
      BY <1>0, AppendFacts
    <3> QED BY <3>1
  <2>2. line' = Append(line, max_sent_seqn + 1) \/ line' = line
    BY <1>1 DEF ProcessSend
  <2>3. Len(line) <= Len(line)
    BY <1>0
  <2> QED BY <1>0, <1>1, <2>1, <2>2, <2>3 DEF ProcessSend
<1>2. CASE Resume
  <2>1. Resent(pending_queue', current_seqn') \in Seq(Nat)
    BY <1>0, ResentFacts
  <2>2. /\ line \o Resent(pending_queue', current_seqn') \in Seq(Nat)
        /\ Len(line) <= Len(line \o Resent(pending_queue', current_seqn'))
    BY <1>0, <2>1, ConcatFacts
  <2> QED BY <1>0, <1>2, <2>2 DEF Resume
<1>3. CASE UNCHANGED link
  BY <1>0, <1>3 DEF link
<1> QED BY <1>1, <1>2, <1>3
        DEF SenderStep, AsyncThread, Start, Put, ThreadReturn, ThreadWait, TakeData, ProcessBegin,
            ProcessMove, ProcessEnd, ResumeLock, PauseLock, PauseEnd, WireReturn, Stop, Cleanup

-----------------------------------------------------------------------------
(* The reader.                                                             *)

LEMMA ReadKeeps ==
  ASSUME WireTypes, Rising, NEW s \in Nat, ReadPackage(s)
  PROVE  /\ max_received_seqn' \in Nat /\ stray' \in 0..LengthBytes /\ in_step' \in BOOLEAN
         /\ in_step' => stray' < LengthBytes
         /\ dispatched' \in Seq(Nat)
         /\ Rising'
<1> DEFINE d == dispatched
<1>0. /\ max_received_seqn \in Nat /\ stray \in 0..LengthBytes /\ in_step \in BOOLEAN
      /\ d \in Seq(Nat) /\ Len(d) \in Nat
  BY DEF WireTypes
<1>1. CASE Duplicate(s)
  <2>1. /\ stray' = IF in_step THEN stray + 1 ELSE stray
        /\ in_step' = (in_step /\ stray' < LengthBytes)
        /\ max_received_seqn' = max_received_seqn /\ dispatched' = d
    BY <1>1 DEF ReadPackage, DropDuplicate
  <2>2. Rising'
    BY <2>1 DEF Rising
  <2>3. stray' \in 0..LengthBytes
    <3>1. in_step => stray < LengthBytes
      BY <1>0 DEF WireTypes
    <3> QED BY <1>0, <2>1, <3>1 DEF LengthBytes
  <2>4. in_step' \in BOOLEAN
    BY <2>1
  <2>5. in_step' => stray' < LengthBytes
    BY <2>1
  <2>6. max_received_seqn' \in Nat /\ dispatched' \in Seq(Nat)
    BY <1>0, <2>1
  <2> QED BY <2>2, <2>3, <2>4, <2>5, <2>6
<1>2. CASE ~Duplicate(s) /\ ~(in_step /\ stray = 0)
  <2>1. ~in_step' /\ in_step' \in BOOLEAN /\ max_received_seqn' = s /\ dispatched' = d /\ stray' = stray
    BY <1>2 DEF ReadPackage, Take
  <2> QED BY <1>0, <2>1 DEF Rising
<1>3. CASE ~Duplicate(s) /\ in_step /\ stray = 0
  <2> DEFINE e == Append(d, s)
  <2>1. max_received_seqn' = s /\ in_step' = TRUE /\ dispatched' = e /\ stray' = stray
    BY <1>3 DEF ReadPackage, Take
  <2>2. /\ e \in Seq(Nat) /\ Len(e) = Len(d) + 1 /\ e[Len(d) + 1] = s
        /\ \A i \in 1..Len(d) : e[i] = d[i]
    BY <1>0, AppendFacts
  <2>3. s = 1 \/ max_received_seqn < s
    BY <1>0, <1>3 DEF Duplicate
  <2> HIDE DEF e
  <2>4. ASSUME NEW i \in 1..Len(d), \A k \in (i + 1)..Len(e) : e[k] # 1
        PROVE  d[i] < s
    <3>1. Len(d) + 1 \in (i + 1)..Len(e)
      BY <1>0, <2>2
    <3>2. s # 1
      BY <2>2, <2>4, <3>1
    <3>3. \A k \in (i + 1)..Len(d) : k \in (i + 1)..Len(e) /\ k \in 1..Len(d)
      BY <1>0, <2>2
    <3>4. \A k \in (i + 1)..Len(d) : d[k] # 1
      BY <2>2, <2>4, <3>3
    <3>5. d[i] <= max_received_seqn
      BY <1>3, <3>4 DEF Rising
    <3>6. d[i] \in Nat
      BY <1>0
    <3> QED BY <1>0, <2>3, <3>2, <3>5, <3>6
  <2>5. ASSUME NEW i \in 1..Len(e), NEW j \in 1..Len(e), i < j, \A k \in (i + 1)..j : e[k] # 1
        PROVE  e[i] < e[j]
    <3>1. i \in 1..Len(d)
      BY <1>0, <2>2, <2>5
    <3>2. CASE j = Len(e)
      BY <2>2, <2>4, <2>5, <3>1, <3>2
    <3>3. CASE j \in 1..Len(d)
      <4>1. \A k \in (i + 1)..j : k \in 1..Len(d)
        BY <1>0, <3>3
      <4>2. \A k \in (i + 1)..j : d[k] # 1
        BY <2>2, <2>5, <4>1
      <4>3. d[i] < d[j]
        BY <2>5, <3>1, <3>3, <4>2 DEF Rising
      <4> QED BY <2>2, <3>1, <3>3, <4>3
    <3> QED BY <1>0, <2>2, <3>2, <3>3
  <2>6. ASSUME NEW i \in 1..Len(e), \A k \in (i + 1)..Len(e) : e[k] # 1
        PROVE  e[i] <= s
    <3>1. CASE i = Len(e)
      BY <2>2, <3>1
    <3>2. CASE i \in 1..Len(d)
      <4>1. e[i] < s
        BY <2>2, <2>4, <2>6, <3>2
      <4>2. e[i] \in Nat
        BY <1>0, <2>2, <3>2
      <4> QED BY <4>1, <4>2
    <3> QED BY <1>0, <2>2, <3>1, <3>2
  <2>7. Rising'
    BY <2>1, <2>5, <2>6 DEF Rising
  <2>8. 0 < LengthBytes
    BY DEF LengthBytes
  <2> QED BY <1>0, <1>3, <2>1, <2>2, <2>7, <2>8
<1> QED BY <1>0, <1>1, <1>2, <1>3

-----------------------------------------------------------------------------
(* Types and rising numbers, at every step.                                *)

\* What still arrives of a connection that ends.
LEMMA ArrivesFacts ==
  ASSUME NEW l \in Seq(Nat), NEW r \in 0..Len(l), NEW n \in r..Len(l)
  PROVE  /\ SubSeq(l, r + 1, n) \in Seq(Nat) /\ Len(SubSeq(l, r + 1, n)) = n - r
         /\ \A i \in 1..(n - r) : SubSeq(l, r + 1, n)[i] = l[r + i]
<1>1. Len(l) \in Nat /\ r \in Nat /\ n \in Nat /\ r <= n /\ n <= Len(l)
  OBVIOUS
<1>2. \A i \in (r + 1)..n : l[i] \in Nat
  BY <1>1
<1> DEFINE q == SubSeq(l, r + 1, n)
<1>3. /\ q \in Seq(Nat)
      /\ Len(q) = IF r + 1 <= n THEN n - (r + 1) + 1 ELSE 0
      /\ \A i \in 1..(n - (r + 1) + 1) : q[i] = l[r + 1 + i - 1]
  BY <1>1, <1>2, SubSeqProperties
<1> HIDE DEF q
<1>4. Len(q) = n - r
  BY <1>1, <1>3
<1>5. ASSUME NEW i \in 1..(n - r) PROVE q[i] = l[r + i]
  <2>1. i \in 1..(n - (r + 1) + 1) /\ r + 1 + i - 1 = r + i
    BY <1>1
  <2> QED BY <1>3, <2>1
<1> QED BY <1>3, <1>4, <1>5 DEF q

LEMMA TypeAndRisingKeep ==
  ASSUME IInv, WireTypes, Rising, [WireNext]_wireVars PROVE WireTypes' /\ Rising'
<1>0. /\ line \in Seq(Nat) /\ Len(line) \in Nat /\ returning \in 0..Len(line) /\ leftover \in Seq(Nat)
      /\ max_received_seqn \in Nat /\ stray \in 0..LengthBytes /\ in_step \in BOOLEAN
      /\ dispatched \in Seq(Nat)
      /\ in_step => stray < LengthBytes
  BY DEF IInv, TypeOK, WireTypes
<1>1. ASSUME UNCHANGED reader
      PROVE  /\ Rising'
             /\ max_received_seqn' \in Nat /\ stray' \in 0..LengthBytes /\ in_step' \in BOOLEAN
             /\ dispatched' \in Seq(Nat)
             /\ in_step' => stray' < LengthBytes
  BY <1>0, <1>1 DEF reader, Rising
<1>2. CASE SenderStep
  <2>1. UNCHANGED <<returning, leftover, reader>>
    BY <1>2 DEF SenderStep
  <2>2. line' \in Seq(Nat) /\ Len(line) <= Len(line')
    BY <1>2, SenderLine
  <2>3. returning' \in 0..Len(line')
    BY <1>0, <2>1, <2>2
  <2> QED BY <1>0, <1>1, <2>1, <2>3 DEF WireTypes
<1>3. CASE Reconnect
  <2>1. /\ line' = <<>> /\ returning' = 0 /\ stray' = 0
        /\ UNCHANGED <<leftover, max_received_seqn, in_step, dispatched>>
    BY <1>3 DEF Reconnect, Connect
  <2> QED BY <1>0, <2>1 DEF WireTypes, Rising, LengthBytes
<1>4. CASE AcknowledgeRead
  <2>1. /\ returning > 0 /\ returning' = returning - 1 /\ UNCHANGED <<leftover, reader>>
        /\ line # <<>> /\ line' = Tail(line)
    BY <1>4 DEF AcknowledgeRead, Acknowledge
  <2>2. Len(line') = Len(line) - 1
    BY <1>0, <2>1, TailFacts
  <2>3. returning' \in 0..Len(line')
    BY <1>0, <2>1, <2>2
  <2> QED BY <1>0, <1>1, <2>1, <2>3 DEF WireTypes
<1>5. CASE BreakLink
  <2>1. returning' = Len(line') /\ UNCHANGED reader
    BY <1>5 DEF BreakLink
  <2>2. line' \in Seq(Nat)
    <3>1. [Next]_vars
      BY <1>5, WireStep
    <3>2. IInv'
      BY <3>1, StepIInv
    <3> QED BY <3>2 DEF IInv, TypeOK
  <2>3. PICK n \in returning..Len(line) : leftover' = SubSeq(line, returning + 1, n)
    BY <1>5 DEF BreakLink, StillArrive
  <2>4. leftover' \in Seq(Nat)
    BY <1>0, <2>3, ArrivesFacts
  <2>5. returning' \in 0..Len(line')
    BY <2>1, <2>2
  <2> QED BY <1>1, <2>1, <2>4, <2>5 DEF WireTypes
<1>6. CASE CloseLink
  <2>1. returning' = returning /\ line' = line /\ UNCHANGED reader
    BY <1>6 DEF CloseLink, CloseSockets
  <2>2. CASE socket = "alive"
    <3>1. PICK n \in returning..Len(line) : leftover' = SubSeq(line, returning + 1, n)
      BY <1>6, <2>2 DEF CloseLink, StillArrive
    <3>2. leftover' \in Seq(Nat)
      BY <1>0, <3>1, ArrivesFacts
    <3> QED BY <1>0, <1>1, <2>1, <3>2 DEF WireTypes
  <2>3. CASE socket # "alive"
    BY <1>0, <1>1, <1>6, <2>1, <2>3 DEF CloseLink, WireTypes
  <2> QED BY <2>2, <2>3
<1>7. CASE ReadAlive
  <2>1. /\ returning < Len(line) /\ returning' = returning + 1
        /\ ReadPackage(line[returning + 1])
        /\ line' = line /\ leftover' = leftover
    BY <1>7 DEF ReadAlive, vars, link
  <2>2. line[returning + 1] \in Nat
    BY <1>0, <2>1
  <2>3. returning' \in 0..Len(line')
    BY <1>0, <2>1
  <2> QED BY <1>0, <2>1, <2>2, <2>3, ReadKeeps DEF WireTypes
<1>8. CASE ReadDead
  <2>1. /\ leftover # <<>> /\ leftover' = Tail(leftover)
        /\ ReadPackage(Head(leftover))
        /\ line' = line /\ returning' = returning
    BY <1>8 DEF ReadDead, vars, link
  <2>2. Head(leftover) \in Nat /\ Tail(leftover) \in Seq(Nat)
    BY <1>0, <2>1, TailFacts
  <2> QED BY <1>0, <2>1, <2>2, ReadKeeps DEF WireTypes
<1>9. CASE UNCHANGED wireVars
  BY <1>0, <1>1, <1>9 DEF wireVars, vars, link, WireTypes
<1> QED BY <1>2, <1>3, <1>4, <1>5, <1>6, <1>7, <1>8, <1>9 DEF WireNext

-----------------------------------------------------------------------------
(* The first connection.                                                   *)

LEMMA NotBegunKeeps == ASSUME IInv, WireTypes, NotBegun, [WireNext]_wireVars PROVE NotBegun'
<1>0. PausedUnlessUp /\ Conserved /\ StartedByStart /\ connections \in Nat /\ pending_queue \in Seq(Nat)
  BY DEF IInv, TypeOK
<1>1. CASE SenderStep
  BY <1>0, <1>1
     DEF NotBegun, PausedUnlessUp, StartedByStart, SenderStep, AsyncThread, Start, Put, ThreadReturn, ThreadWait,
         TakeData, Ready, ProcessBegin, ProcessSend, ProcessMove, ProcessEnd, ResumeLock, Resume,
         PauseLock, PauseEnd, WireReturn, Stop, Cleanup, link, seqns, reader, Notified, buffers
<1>2. CASE Reconnect
  BY <1>0, <1>2 DEF NotBegun, Reconnect, Connect, seqns, reader, buffers
<1>3. CASE AcknowledgeRead
  BY <1>0, <1>3 DEF NotBegun, AcknowledgeRead, Acknowledge
<1>4. CASE BreakLink
  <2>1. ASSUME line = <<>>, returning = 0, BreakLink PROVE line' = <<>> /\ returning' = 0 /\ leftover' = <<>>
    <3>1. Len(line) = 0
      BY <2>1
    <3>2. \E n \in 0..0 : line' = SubSeq(line, 1, n)
      BY <2>1, <3>1 DEF BreakLink, Break
    <3>3. \E n \in 0..0 : leftover' = SubSeq(line, 1, n)
      BY <2>1, <3>1 DEF BreakLink, StillArrive
    <3>4. SubSeq(line, 1, 0) = <<>>
      BY <2>1
    <3> QED BY <2>1, <3>2, <3>3, <3>4 DEF BreakLink
  <2> QED BY <1>0, <1>4, <2>1 DEF NotBegun, BreakLink, Break, seqns, reader, buffers
<1>5. CASE CloseLink
  <2>1. ASSUME line = <<>>, returning = 0, leftover = <<>>, CloseLink PROVE leftover' = <<>>
    <3>1. Len(line) = 0 /\ SubSeq(line, 1, 0) = <<>>
      BY <2>1
    <3> QED BY <2>1, <3>1 DEF CloseLink, StillArrive
  <2> QED BY <1>0, <1>5, <2>1 DEF NotBegun, CloseLink, CloseSockets, seqns, reader, buffers
<1>6. CASE ReadAlive \/ ReadDead
  BY <1>0, <1>6 DEF NotBegun, ReadAlive, ReadDead, vars, link
<1>7. CASE UNCHANGED wireVars
  BY <1>7 DEF NotBegun, wireVars, vars, link, seqns, reader
<1> QED BY <1>1, <1>2, <1>3, <1>4, <1>5, <1>6, <1>7 DEF WireNext

\* The sending end only adds the next number to the line.
LEMMA SenderContinues ==
  ASSUME IInv, WireTypes, NotBegun, FirstConnection, SenderStep PROVE FirstConnection'
<1>0. /\ line \in Seq(Nat) /\ Len(line) \in Nat /\ returning \in Nat /\ returning <= Len(line)
      /\ max_received_seqn \in Nat /\ max_sent_seqn \in Nat /\ pending_queue \in Seq(Nat)
  BY DEF IInv, TypeOK, WireTypes
<1>1. /\ returning' = returning /\ leftover' = leftover /\ max_received_seqn' = max_received_seqn
      /\ stray' = stray /\ in_step' = in_step /\ dispatched' = dispatched
  BY DEF SenderStep, reader
<1>2. socket' = socket /\ connections' = connections
  BY SenderLine
<1>3. Continues' <=> Continues
  BY <1>1 DEF Continues
<1>4. SUFFICES ASSUME connections = 1, socket = "alive", LineContinues PROVE LineContinues'
  BY <1>1, <1>2, <1>3 DEF FirstConnection
<1>5. CASE ProcessSend
  <2> DEFINE new == Append(line, max_sent_seqn + 1)
  <2>1. /\ line' = new /\ thread' = "sent" /\ thread # "sent" /\ max_sent_seqn' = max_sent_seqn
    BY <1>4, <1>5 DEF ProcessSend, seqns
  <2>2. /\ Len(new) = Len(line) + 1 /\ new[Len(line) + 1] = max_sent_seqn + 1
        /\ \A i \in 1..Len(line) : new[i] = line[i]
    BY <1>0, AppendFacts
  <2> HIDE DEF new
  <2>3. Highest = max_sent_seqn /\ Highest' = max_sent_seqn + 1
    BY <2>1 DEF Highest
  <2>4. max_received_seqn + Len(line) = max_sent_seqn + returning
    BY <1>4, <2>3 DEF LineContinues
  <2>5. ASSUME NEW i \in 1..Len(new) PROVE new[i] + returning = max_received_seqn + i
    <3>1. CASE i = Len(line) + 1
      BY <1>0, <2>2, <2>4, <3>1
    <3>2. CASE i \in 1..Len(line)
      BY <1>4, <2>2, <3>2 DEF LineContinues
    <3> QED BY <1>0, <2>2, <3>1, <3>2
  <2>6. max_received_seqn + Len(new) = max_sent_seqn + 1 + returning
    <3>1. Len(new) = Len(line) + 1
      BY <2>2
    <3>0. Len(line) \in Nat /\ returning \in Nat /\ max_received_seqn \in Nat /\ max_sent_seqn \in Nat
      BY <1>0
    <3>2. max_received_seqn + (Len(line) + 1) = max_sent_seqn + 1 + returning
      BY <2>4, <3>0
    <3> QED BY <3>1, <3>2
  <2> QED BY <1>1, <2>1, <2>3, <2>5, <2>6 DEF LineContinues
<1>6. CASE Resume
  <2>1. wire = "resuming"
    BY <1>6 DEF Resume
  <2>2. current_seqn = 1 /\ acknowledged_seqn = 0 /\ max_sent_seqn = 0 /\ line = <<>>
        /\ thread # "sent" /\ returning = 0 /\ max_received_seqn = 0
    BY <1>4, <2>1 DEF NotBegun
  <2>3. Acked = 0
    BY <2>2 DEF Acked
  <2>4. Len(pending_queue) = 0
    <3>1. current_seqn + Len(pending_queue) = max_sent_seqn + 1
      BY DEF IInv, Conserved
    <3> QED BY <1>0, <2>2, <3>1
  <2>5. pending_queue' = <<>>
    <3>1. pending_queue = <<>>
      BY <1>0, <2>4
    <3>2. pending_queue' = SubSeq(<<>>, 1, 0)
      BY <1>6, <2>3, <2>4, <3>1 DEF Resume
    <3> QED BY <3>2
  <2>6. line' = line
    <3>1. Resent(<<>>, current_seqn') = <<>>
      BY DEF Resent
    <3>2. line' = line \o <<>>
      BY <1>4, <1>6, <2>5, <3>1 DEF Resume
    <3> QED BY <1>0, <3>2
  <2>7. max_sent_seqn' = max_sent_seqn /\ thread' # "sent"
    BY <1>6, <2>2 DEF Resume, Notified
  <2>8. Highest' = Highest
    BY <2>2, <2>7 DEF Highest
  <2> QED BY <1>1, <1>4, <2>6, <2>8 DEF LineContinues
<1>7. CASE ~ProcessSend /\ ~Resume
  <2>1. line' = line
    BY <1>7 DEF SenderStep, AsyncThread, Start, Put, ThreadReturn, ThreadWait, TakeData, ProcessBegin,
            ProcessMove, ProcessEnd, ResumeLock, PauseLock, PauseEnd, WireReturn, Stop, Cleanup, link
  <2>2. Highest' = Highest
    <3>1. CASE ProcessMove
      BY <3>1 DEF ProcessMove, Highest
    <3>2. CASE ~ProcessMove
      <4>1. max_sent_seqn' = max_sent_seqn /\ (thread' = "sent" <=> thread = "sent")
        BY <1>7, <3>2
           DEF SenderStep, AsyncThread, Start, Put, ThreadReturn, ThreadWait, TakeData, ProcessBegin,
               ProcessEnd, ResumeLock, PauseLock, PauseEnd, WireReturn, Stop, Cleanup, Notified, seqns,
               IInv, StartedByStart
      <4> QED BY <4>1 DEF Highest
    <3> QED BY <3>1, <3>2
  <2> QED BY <1>1, <1>4, <2>1, <2>2 DEF LineContinues
<1> QED BY <1>5, <1>6, <1>7

\* The next package on the first connection is new, and the next message.
LEMMA ReadContinues ==
  ASSUME WireTypes, Continues, ReadPackage(max_received_seqn + 1)
  PROVE  /\ max_received_seqn' = max_received_seqn + 1 /\ in_step' /\ stray' = 0
         /\ Len(dispatched') = max_received_seqn'
         /\ \A i \in 1..Len(dispatched') : dispatched'[i] = i
<1> DEFINE s == max_received_seqn + 1
           e == Append(dispatched, s)
<1>1. max_received_seqn \in Nat /\ dispatched \in Seq(Nat) /\ s \in Nat /\ ~Duplicate(s)
  BY DEF WireTypes, Duplicate
<1>2. max_received_seqn' = s /\ in_step' /\ stray' = 0 /\ dispatched' = e
  BY <1>1 DEF ReadPackage, Take, Continues
<1>3. /\ Len(e) = Len(dispatched) + 1 /\ e[Len(dispatched) + 1] = s
      /\ \A i \in 1..Len(dispatched) : e[i] = dispatched[i]
  BY <1>1, AppendFacts
<1> HIDE DEF e
<1>4. Len(dispatched) = max_received_seqn /\ \A i \in 1..Len(dispatched) : dispatched[i] = i
  BY DEF Continues
<1>5. ASSUME NEW i \in 1..Len(e) PROVE e[i] = i
  <2>1. CASE i = Len(dispatched) + 1
    BY <1>3, <1>4, <2>1
  <2>2. CASE i \in 1..Len(dispatched)
    BY <1>3, <1>4, <2>2
  <2> QED BY <1>1, <1>3, <1>4, <2>1, <2>2
<1> QED BY <1>2, <1>3, <1>4, <1>5 DEF Continues

LEMMA FirstConnectionKeeps ==
  ASSUME IInv, WireTypes, NotBegun, FirstConnection, [WireNext]_wireVars PROVE FirstConnection'
<1>0. /\ line \in Seq(Nat) /\ Len(line) \in Nat /\ returning \in 0..Len(line) /\ leftover \in Seq(Nat)
      /\ returning \in Nat /\ returning <= Len(line) /\ max_sent_seqn \in Nat
      /\ max_received_seqn \in Nat /\ connections \in Nat
  BY DEF IInv, TypeOK, WireTypes
<1>1. CASE SenderStep
  BY <1>1, SenderContinues
<1>2. CASE Reconnect
  <2>1. /\ connections' = connections + 1 /\ line' = <<>> /\ returning' = 0 /\ leftover' = <<>>
        /\ leftover = <<>> /\ socket' \in {"alive", "dead"}
        /\ stray' = 0 /\ UNCHANGED <<max_received_seqn, in_step, dispatched, max_sent_seqn, thread>>
    BY <1>2 DEF Reconnect, Connect, reader, seqns
  <2>2. SUFFICES ASSUME connections = 0 PROVE FirstConnection'
    BY <1>0, <2>1 DEF FirstConnection
  <2>3. /\ max_sent_seqn = 0 /\ thread # "sent" /\ max_received_seqn = 0 /\ in_step /\ dispatched = <<>>
    BY <2>2 DEF NotBegun
  <2>4. Highest' = 0
    BY <2>1, <2>3 DEF Highest
  <2> QED BY <2>1, <2>3, <2>4 DEF FirstConnection, Continues, LineContinues
<1>3. CASE AcknowledgeRead
  <2>1. /\ returning' = returning - 1 /\ returning > 0 /\ line # <<>> /\ line' = Tail(line)
        /\ UNCHANGED <<connections, socket, leftover, max_received_seqn, stray, in_step, dispatched,
                      max_sent_seqn, thread>>
    BY <1>3 DEF AcknowledgeRead, Acknowledge, reader
  <2>2. /\ Len(line') = Len(line) - 1 /\ Len(line) \in Nat \ {0}
        /\ \A i \in 1..Len(line') : line'[i] = line[i + 1]
    BY <1>0, <2>1, TailFacts
  <2>3. Highest' = Highest
    BY <2>1 DEF Highest
  <2>4. ASSUME LineContinues PROVE LineContinues'
    <3>1. ASSUME NEW i \in 1..Len(line') PROVE line'[i] + returning' = max_received_seqn + i
      <4>1. i + 1 \in 1..Len(line) /\ i \in Nat
        BY <2>2
      <4>2. line[i + 1] + returning = max_received_seqn + (i + 1) /\ line[i + 1] \in Nat
        BY <1>0, <2>4, <4>1 DEF LineContinues
      <4> DEFINE a == line[i + 1]
      <4>3. line[i + 1] + (returning - 1) = max_received_seqn + i
        <5>1. a + returning = max_received_seqn + (i + 1) /\ a \in Nat
          BY <4>2
        <5>2. returning \in Nat /\ max_received_seqn \in Nat /\ i \in Nat
          BY <1>0, <4>1
        <5> HIDE DEF a
        <5>3. a + (returning - 1) = max_received_seqn + i
          BY <5>1, <5>2
        <5> QED BY <5>3 DEF a
      <4> QED BY <2>1, <2>2, <4>3
    <3>2. max_received_seqn + Len(line') = Highest + returning'
      <4>1. Highest \in Nat
        BY <1>0 DEF Highest
      <4>2. max_received_seqn + Len(line) = Highest + returning
        BY <2>4 DEF LineContinues
      <4> QED BY <1>0, <2>1, <2>2, <4>1, <4>2
    <3> QED BY <2>1, <2>3, <3>1, <3>2 DEF LineContinues
  <2>5. Continues' <=> Continues
    BY <2>1 DEF Continues
  <2> QED BY <2>1, <2>4, <2>5 DEF FirstConnection
<1>4. ASSUME NEW n \in returning..Len(line), leftover' = SubSeq(line, returning + 1, n),
             UNCHANGED reader, Continues, LineContinues
      PROVE  Continues'
  <2>1. /\ Len(leftover') = n - returning
        /\ \A i \in 1..(n - returning) : leftover'[i] = line[returning + i]
    BY <1>0, <1>4, ArrivesFacts
  <2>2. ASSUME NEW i \in 1..(n - returning) PROVE line[returning + i] = max_received_seqn + i
    <3>1. returning + i \in 1..Len(line) /\ i \in Nat
      BY <1>0
    <3>2. line[returning + i] + returning = max_received_seqn + (returning + i) /\ line[returning + i] \in Nat
      <4> DEFINE j == returning + i
      <4>1. j \in 1..Len(line) /\ line \in Seq(Nat)
        BY <1>0, <3>1
      <4>2. \A g \in 1..Len(line) : line[g] + returning = max_received_seqn + g
        BY <1>4 DEF LineContinues
      <4> HIDE DEF j
      <4>3. line[j] + returning = max_received_seqn + j /\ line[j] \in Nat
        BY <4>1, <4>2
      <4> QED BY <4>3 DEF j
    <3> DEFINE a == line[returning + i]
    <3>3. a + returning = max_received_seqn + (returning + i) /\ a \in Nat
      BY <3>2
    <3>4. returning \in Nat /\ max_received_seqn \in Nat /\ i \in Nat
      BY <1>0, <3>1
    <3> HIDE DEF a
    <3>5. a = max_received_seqn + i
      BY <3>3, <3>4
    <3> QED BY <3>5 DEF a
  <2> QED BY <1>4, <2>1, <2>2 DEF Continues, reader
<1>5. CASE BreakLink
  <2>1. socket = "alive" /\ socket' = "dead" /\ connections' = connections /\ UNCHANGED reader
    BY <1>5 DEF BreakLink, Break
  <2>2. PICK n \in returning..Len(line) : leftover' = SubSeq(line, returning + 1, n)
    BY <1>5 DEF BreakLink, StillArrive
  <2> QED BY <1>4, <2>1, <2>2 DEF FirstConnection
<1>6. CASE CloseLink
  <2>1. connections' = connections /\ UNCHANGED reader
        /\ socket' = IF socket = "none" THEN "none" ELSE "dead"
    BY <1>6 DEF CloseLink, CloseSockets
  <2>2. CASE socket = "alive"
    <3>1. PICK n \in returning..Len(line) : leftover' = SubSeq(line, returning + 1, n)
      BY <1>6, <2>2 DEF CloseLink, StillArrive
    <3> QED BY <1>4, <2>1, <2>2, <3>1 DEF FirstConnection
  <2>3. CASE socket # "alive"
    <3>1. leftover' = leftover
      BY <1>6, <2>3 DEF CloseLink
    <3> QED BY <2>1, <2>3, <3>1 DEF FirstConnection, Continues, reader
  <2> QED BY <2>2, <2>3
<1>7. CASE ReadAlive
  <2>1. /\ socket = "alive" /\ returning < Len(line) /\ returning' = returning + 1
        /\ ReadPackage(line[returning + 1])
        /\ UNCHANGED <<line, socket, connections, leftover, max_sent_seqn, thread>>
    BY <1>7 DEF ReadAlive, vars, link, seqns
  <2>2. SUFFICES ASSUME connections = 1 PROVE Continues' /\ LineContinues' /\ leftover' = <<>>
    BY <2>1 DEF FirstConnection
  <2>3. Continues /\ LineContinues /\ leftover = <<>>
    BY <2>1, <2>2 DEF FirstConnection
  <2>4. line[returning + 1] = max_received_seqn + 1
    <3>1. returning + 1 \in 1..Len(line)
      BY <1>0, <2>1
    <3>2. line[returning + 1] + returning = max_received_seqn + (returning + 1) /\ line[returning + 1] \in Nat
      BY <1>0, <2>3, <3>1 DEF LineContinues
    <3> QED BY <1>0, <3>2
  <2>5. /\ max_received_seqn' = max_received_seqn + 1 /\ in_step' /\ stray' = 0
        /\ Len(dispatched') = max_received_seqn'
        /\ \A i \in 1..Len(dispatched') : dispatched'[i] = i
    BY <2>1, <2>3, <2>4, ReadContinues
  <2>6. Continues'
    BY <2>1, <2>3, <2>5 DEF Continues
  <2>7. ASSUME NEW i \in 1..Len(line) PROVE line[i] + (returning + 1) = max_received_seqn + 1 + i
    <3>1. line[i] + returning = max_received_seqn + i /\ line[i] \in Nat /\ i \in Nat
      BY <1>0, <2>3 DEF LineContinues
    <3> DEFINE a == line[i]
    <3>2. a + returning = max_received_seqn + i /\ a \in Nat /\ i \in Nat
      BY <3>1
    <3>3. returning \in Nat /\ max_received_seqn \in Nat
      BY <1>0
    <3> HIDE DEF a
    <3>4. a + (returning + 1) = max_received_seqn + 1 + i
      BY <3>2, <3>3
    <3> QED BY <3>4 DEF a
  <2>8. max_received_seqn + 1 + Len(line) = Highest + (returning + 1)
    <3>1. max_received_seqn + Len(line) = Highest + returning /\ Highest \in Nat
      BY <1>0, <2>3 DEF LineContinues, Highest
    <3> QED BY <1>0, <3>1
  <2>9. Highest' = Highest
    BY <2>1 DEF Highest
  <2>10. LineContinues'
    BY <2>1, <2>5, <2>7, <2>8, <2>9 DEF LineContinues
  <2> QED BY <2>1, <2>3, <2>6, <2>10
<1>8. CASE ReadDead
  <2>1. /\ socket = "dead" /\ leftover # <<>> /\ leftover' = Tail(leftover)
        /\ ReadPackage(Head(leftover)) /\ socket' = socket /\ connections' = connections
    BY <1>8 DEF ReadDead, vars, link
  <2>2. SUFFICES ASSUME connections = 1 PROVE Continues'
    BY <2>1 DEF FirstConnection
  <2>3. Continues
    BY <2>2 DEF FirstConnection
  <2>4. /\ Head(leftover) = leftover[1] /\ Len(leftover) \in Nat \ {0}
        /\ Len(leftover') = Len(leftover) - 1
        /\ \A i \in 1..Len(leftover') : leftover'[i] = leftover[i + 1]
    BY <1>0, <2>1, TailFacts
  <2>5. \A i \in 1..Len(leftover) : leftover[i] = max_received_seqn + i
    BY <2>3 DEF Continues
  <2>6. Head(leftover) = max_received_seqn + 1
    BY <2>4, <2>5
  <2>7. /\ max_received_seqn' = max_received_seqn + 1 /\ in_step' /\ stray' = 0
        /\ Len(dispatched') = max_received_seqn'
        /\ \A i \in 1..Len(dispatched') : dispatched'[i] = i
    BY <2>1, <2>3, <2>6, ReadContinues
  <2>8. ASSUME NEW i \in 1..Len(leftover') PROVE leftover'[i] = max_received_seqn' + i
    <3>1. i + 1 \in 1..Len(leftover) /\ i \in Nat
      BY <2>4
    <3>2. leftover'[i] = max_received_seqn + (i + 1)
      BY <2>4, <2>5, <3>1
    <3> QED BY <1>0, <2>7, <3>1, <3>2
  <2> QED BY <2>7, <2>8 DEF Continues
<1>9. CASE UNCHANGED wireVars
  BY <1>9 DEF FirstConnection, Continues, LineContinues, Highest, wireVars, vars, link, seqns, reader
<1> QED BY <1>1, <1>2, <1>3, <1>5, <1>6, <1>7, <1>8, <1>9 DEF WireNext

-----------------------------------------------------------------------------
(* The theorems.                                                           *)

LEMMA WireInvariance == WireSpec => []WireInv
<1>1. WireInit => WireInv
  <2>1. WireInit => IInv
    BY InitIInv DEF WireInit
  <2> QED BY <2>1 DEF WireInit, Init, WireInv, WireTypes, NotBegun, FirstConnection, Rising, LengthBytes
<1>2. WireInv /\ [WireNext]_wireVars => WireInv'
  BY WireStep, StepIInv, TypeAndRisingKeep, NotBegunKeeps, FirstConnectionKeeps DEF WireInv
<1> QED BY <1>1, <1>2, PTL DEF WireSpec

\* Types of the variables of both ends.
THEOREM WireTypeCorrect == WireSpec => []WireTypeOK
<1>1. WireInv => WireTypeOK
  BY DEF WireInv, IInv, WireTypeOK
<1> QED BY WireInvariance, <1>1, PTL

\* On the first connection read_and_dispatch_message dispatches every message
\* once, in the order of the sends.
THEOREM WireFirstConnection == WireSpec => []FirstConnectionExact
<1>1. WireInv => FirstConnectionExact
  BY DEF WireInv, FirstConnection, Continues, FirstConnectionExact
<1> QED BY WireInvariance, <1>1, PTL

\* However many connections break, read_package hands no package on twice
\* unless the first was sent again.
THEOREM WireTwiceOnlyFromStart == WireSpec => []TwiceOnlyFromStart
<1>1. WireInv => TwiceOnlyFromStart
  <2> SUFFICES ASSUME WireInv, NEW i \in 1..Len(dispatched), NEW j \in 1..Len(dispatched),
                      i < j, dispatched[i] = dispatched[j],
                      \A k \in (i + 1)..j : dispatched[k] # 1
               PROVE  FALSE
    BY DEF TwiceOnlyFromStart
  <2>1. dispatched[i] < dispatched[j]
    BY DEF WireInv, Rising
  <2>2. dispatched[j] \in Nat
    BY DEF WireInv, WireTypes
  <2> QED BY <2>1, <2>2
<1> QED BY WireInvariance, <1>1, PTL

\* The reading end (read_package): exact on the first connection, and nothing
\* twice on the later ones but from the start.
THEOREM WireReaderSafe == WireSpec => []ReaderSafe
BY WireFirstConnection, WireTwiceOnlyFromStart, PTL DEF ReaderSafe

\* The sending end's bookkeeping holds in the composition, with the counterpart
\* and its acknowledgements as they are.
THEOREM WireSenderSafe == WireSpec => []SenderSafe
BY WireImplementsSender, AsyncSenderSafe DEF SenderPromise

=============================================================================
