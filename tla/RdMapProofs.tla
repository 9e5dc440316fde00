----------------------------- MODULE RdMapProofs -----------------------------
(***************************************************************************)
(* The two ends of a map agree, and the master's books are right, for every*)
(* finite set of keys, all values and any number of changes.               *)
(*                                                                         *)
(* The invariant follows one key at a time: the master waits for at most   *)
(* one answer about it, and what is on its way says what the ends will     *)
(* have.  A change, or a message handled, is about some keys and leaves    *)
(* the course of the others alone.                                         *)
(***************************************************************************)
EXTENDS RdMap, TLAPS, FiniteSetTheorems

\* What is on its way to each end: the slave's changes without a version and
\* acknowledgements, the master's changes with one.
ToMaster == {m \in Messages : m.version > 0 <=> m.op = "ack"}
ToSlave == {m \in Messages : m.version > 0 /\ m.op # "ack"}

\* In a sequence of messages: the last one about k, whether there is any, and
\* those about k that carry a version.
Latest(k, s, i) == s[i].key = k /\ \A j \in 1..Len(s) : s[j].key = k => j <= i
About(k, s) == \E i \in 1..Len(s) : s[i].key = k
Versioned(k, s) == {i \in 1..Len(s) : s[i].key = k /\ s[i].version > 0}

\* One key k: a and b are the messages to master and slave, P its entries in
\* pendingForAck, x and y what the master and the slave have for it.

\* At most one answer is waited for, and it is on its way.
OneWaits(k, a, b, P) ==
  \A p \in P : p.live /\ P = {p} /\ (Versioned(k, a) # {} \/ Versioned(k, b) # {})

\* A version on its way is the one that is waited for, and there is one at most.
Answers(k, a, b, P) ==
  /\ \A i \in Versioned(k, a) : [key |-> k, version |-> a[i].version, live |-> TRUE] \in P
  /\ \A i \in Versioned(k, b) : [key |-> k, version |-> b[i].version, live |-> TRUE] \in P
  /\ \A i, j \in Versioned(k, a) : i = j
  /\ \A i, j \in Versioned(k, b) : i = j
  /\ Versioned(k, a) = {} \/ Versioned(k, b) = {}

\* What the slave will be told is what the master has.
News(k, b, x) == \A i \in 1..Len(b) : b[i].key = k => b[i].value = x

\* When it will be told nothing, it has what it told the master last; or, if the
\* last it sent is an acknowledgement or nothing, what the master has.
Decides(k, a, b, x, y) ==
  ~About(k, b) =>
    /\ \A i \in 1..Len(a) : Latest(k, a, i) => y = IF a[i].op = "ack" THEN x ELSE a[i].value
    /\ ~About(k, a) => y = x

Course(k, a, b, P, x, y) ==
  OneWaits(k, a, b, P) /\ Answers(k, a, b, P) /\ News(k, b, x) /\ Decides(k, a, b, x, y)

Entries(P, k) == {p \in P : p.key = k}
Mine(k) == Entries(pendingForAck, k)

IInv ==
  /\ TypeOK
  /\ incoming["master"] \in Seq(ToMaster) /\ incoming["slave"] \in Seq(ToSlave)
  /\ \A k \in Keys \ loose :
       Course(k, incoming["master"], incoming["slave"], Mine(k), map["master"][k], map["slave"][k])

-----------------------------------------------------------------------------
(* Sequences of messages.                                                 *)

LEMMA ConcatFacts ==
  ASSUME NEW S, NEW s \in Seq(S), NEW t \in Seq(S)
  PROVE  /\ s \o t \in Seq(S) /\ Len(s \o t) = Len(s) + Len(t) /\ Len(s) \in Nat /\ Len(t) \in Nat
         /\ \A i \in 1..Len(s) : (s \o t)[i] = s[i] /\ i \in 1..Len(s \o t) /\ s[i] \in S
         /\ \A i \in 1..Len(t) : (s \o t)[Len(s) + i] = t[i] /\ Len(s) + i \in 1..Len(s \o t) /\ t[i] \in S
         /\ \A i \in 1..Len(s \o t) : i \notin 1..Len(s) => i - Len(s) \in 1..Len(t) /\ (s \o t)[i] = t[i - Len(s)]
  OBVIOUS

LEMMA TailFacts ==
  ASSUME NEW S, NEW s \in Seq(S), s # <<>>
  PROVE  /\ Tail(s) \in Seq(S) /\ Len(Tail(s)) = Len(s) - 1 /\ Len(s) \in Nat /\ Len(s) >= 1
         /\ Head(s) = s[1] /\ s[1] \in S /\ 1 \in 1..Len(s)
         /\ \A i \in 1..Len(Tail(s)) : Tail(s)[i] = s[i + 1] /\ i + 1 \in 1..Len(s) /\ s[i + 1] \in S
         /\ \A i \in 1..Len(s) : i # 1 => i - 1 \in 1..Len(Tail(s)) /\ Tail(s)[i - 1] = s[i]
  OBVIOUS

\* Messages about other keys do not matter, ...
LEMMA OthersAppended ==
  ASSUME NEW S, NEW s \in Seq(S), NEW t \in Seq(S), NEW k, ~About(k, t)
  PROVE  /\ Versioned(k, s \o t) = Versioned(k, s) /\ (About(k, s \o t) <=> About(k, s))
         /\ \A i \in 1..Len(s) : (s \o t)[i] = s[i] /\ i \in 1..Len(s \o t)
         /\ \A i \in 1..Len(s \o t) : (s \o t)[i].key = k => i \in 1..Len(s)
         /\ \A i \in 1..Len(s) : Latest(k, s \o t, i) <=> Latest(k, s, i)
<1>1. \A i \in 1..Len(s \o t) : (s \o t)[i].key = k => i \in 1..Len(s)
  BY ConcatFacts DEF About
<1>2. \A i \in 1..Len(s) : (s \o t)[i] = s[i] /\ i \in 1..Len(s \o t)
  BY ConcatFacts
<1> QED BY <1>1, <1>2 DEF Versioned, About, Latest

LEMMA OthersToMaster ==
  ASSUME NEW a \in Seq(ToMaster), NEW t \in Seq(ToMaster), NEW b, NEW k, NEW P, NEW x, NEW y,
         Course(k, a, b, P, x, y), ~About(k, t)
  PROVE  Course(k, a \o t, b, P, x, y)
<1>1. Versioned(k, a \o t) = Versioned(k, a) /\ (About(k, a \o t) <=> About(k, a))
  BY OthersAppended
<1>2. \A i \in 1..Len(a) : (a \o t)[i] = a[i] /\ i \in 1..Len(a \o t)
  BY OthersAppended
<1>3. \A i \in 1..Len(a \o t) : Latest(k, a \o t, i) => i \in 1..Len(a) /\ Latest(k, a, i)
  BY OthersAppended DEF Latest
<1>4. OneWaits(k, a \o t, b, P)
  BY <1>1 DEF Course, OneWaits
<1>5. Answers(k, a \o t, b, P)
  BY <1>1, <1>2 DEF Course, Answers, Versioned
<1>6. Decides(k, a \o t, b, x, y)
  BY <1>1, <1>2, <1>3 DEF Course, Decides
<1> QED BY <1>4, <1>5, <1>6 DEF Course

LEMMA OthersToSlave ==
  ASSUME NEW b \in Seq(ToSlave), NEW t \in Seq(ToSlave), NEW a, NEW k, NEW P, NEW x, NEW y,
         Course(k, a, b, P, x, y), ~About(k, t)
  PROVE  Course(k, a, b \o t, P, x, y)
<1>1. Versioned(k, b \o t) = Versioned(k, b) /\ (About(k, b \o t) <=> About(k, b))
  BY OthersAppended
<1>2. \A i \in 1..Len(b) : (b \o t)[i] = b[i] /\ i \in 1..Len(b \o t)
  BY OthersAppended
<1>3. \A i \in 1..Len(b \o t) : (b \o t)[i].key = k => i \in 1..Len(b)
  BY OthersAppended
<1>4. OneWaits(k, a, b \o t, P)
  BY <1>1 DEF Course, OneWaits
<1>5. Answers(k, a, b \o t, P)
  BY <1>1, <1>2 DEF Course, Answers, Versioned
<1>6. News(k, b \o t, x)
  BY <1>2, <1>3 DEF Course, News
<1>7. Decides(k, a, b \o t, x, y)
  BY <1>1 DEF Course, Decides
<1> QED BY <1>4, <1>5, <1>6, <1>7 DEF Course

\* ... also when they are handled.
LEMMA OtherHandled ==
  ASSUME NEW S, NEW s \in Seq(S), s # <<>>, NEW k, Head(s).key # k
  PROVE  /\ \A i : i \in Versioned(k, Tail(s)) <=> i \in Nat /\ i + 1 \in Versioned(k, s) 
         /\ Versioned(k, Tail(s)) = {} <=> Versioned(k, s) = {}
         /\ About(k, Tail(s)) <=> About(k, s)
         /\ \A i \in 1..Len(Tail(s)) : Tail(s)[i] = s[i + 1] /\ i + 1 \in 1..Len(s)
         /\ \A i \in 1..Len(Tail(s)) : Latest(k, Tail(s), i) => Latest(k, s, i + 1)
<1>1. \A i \in 1..Len(Tail(s)) : Tail(s)[i] = s[i + 1] /\ i + 1 \in 1..Len(s)
  BY TailFacts
<1>2. \A i \in 1..Len(s) : s[i].key = k => i - 1 \in 1..Len(Tail(s)) /\ Tail(s)[i - 1] = s[i] /\ i = (i - 1) + 1
  BY TailFacts
<1>3. \A i : i \in Versioned(k, Tail(s)) <=> i \in Nat /\ i + 1 \in Versioned(k, s)
  <2>1. ASSUME NEW i \in Versioned(k, Tail(s)) PROVE i \in Nat /\ i + 1 \in Versioned(k, s)
    BY <1>1 DEF Versioned
  <2>2. ASSUME NEW i \in Nat, i + 1 \in Versioned(k, s) PROVE i \in Versioned(k, Tail(s))
    <3>1. i + 1 \in 1..Len(s) /\ s[i + 1].key = k /\ s[i + 1].version > 0
      BY <2>2 DEF Versioned
    <3>2. i \in 1..Len(Tail(s)) /\ Tail(s)[i] = s[i + 1]
      BY <1>2, <3>1
    <3> QED BY <3>1, <3>2 DEF Versioned
  <2> QED BY <2>1, <2>2
<1>4. \A i \in Versioned(k, s) : i - 1 \in Versioned(k, Tail(s))
  BY <1>2 DEF Versioned
<1>5. Versioned(k, Tail(s)) = {} <=> Versioned(k, s) = {}
  BY <1>3, <1>4
<1>6. About(k, Tail(s)) <=> About(k, s)
  BY <1>1, <1>2 DEF About
<1>7. ASSUME NEW i \in 1..Len(Tail(s)), Latest(k, Tail(s), i) PROVE Latest(k, s, i + 1)
  <2>1. \A j \in 1..Len(s) : s[j].key = k => j <= i + 1
    <3> SUFFICES ASSUME NEW j \in 1..Len(s), s[j].key = k PROVE j <= i + 1
      OBVIOUS
    <3>1. j - 1 <= i
      BY <1>2, <1>7 DEF Latest
    <3> QED BY <3>1
  <2> QED BY <1>1, <1>7, <2>1 DEF Latest
<1> QED BY <1>1, <1>3, <1>5, <1>6, <1>7

LEMMA MasterHandlesOther ==
  ASSUME NEW a \in Seq(ToMaster), a # <<>>, NEW b, NEW k, NEW P, NEW x, NEW y,
         Course(k, a, b, P, x, y), Head(a).key # k
  PROVE  Course(k, Tail(a), b, P, x, y)
<1>1. /\ \A i : i \in Versioned(k, Tail(a)) <=> i \in Nat /\ i + 1 \in Versioned(k, a) 
      /\ Versioned(k, Tail(a)) = {} <=> Versioned(k, a) = {}
      /\ About(k, Tail(a)) <=> About(k, a)
      /\ \A i \in 1..Len(Tail(a)) : Tail(a)[i] = a[i + 1] /\ i + 1 \in 1..Len(a)
      /\ \A i \in 1..Len(Tail(a)) : Latest(k, Tail(a), i) => Latest(k, a, i + 1)
  BY OtherHandled
<1>2. OneWaits(k, Tail(a), b, P)
  BY <1>1 DEF Course, OneWaits
<1>3. Answers(k, Tail(a), b, P)
  <2>1. \A i \in Versioned(k, Tail(a)) : i + 1 \in Versioned(k, a) /\ Tail(a)[i] = a[i + 1] /\ i \in Nat
    BY <1>1 DEF Versioned
  <2>2. \A i, j \in Versioned(k, Tail(a)) : i = j
    <3>1. \A i, j \in Versioned(k, Tail(a)) : i + 1 = j + 1
      BY <2>1 DEF Course, Answers
    <3> QED BY <2>1, <3>1
  <2> QED BY <1>1, <2>1, <2>2 DEF Course, Answers
<1>4. Decides(k, Tail(a), b, x, y)
  BY <1>1 DEF Course, Decides
<1> QED BY <1>2, <1>3, <1>4 DEF Course

LEMMA SlaveHandlesOther ==
  ASSUME NEW b \in Seq(ToSlave), b # <<>>, NEW a, NEW k, NEW P, NEW x, NEW y,
         Course(k, a, b, P, x, y), Head(b).key # k
  PROVE  Course(k, a, Tail(b), P, x, y)
<1>1. /\ \A i : i \in Versioned(k, Tail(b)) <=> i \in Nat /\ i + 1 \in Versioned(k, b) 
      /\ Versioned(k, Tail(b)) = {} <=> Versioned(k, b) = {}
      /\ About(k, Tail(b)) <=> About(k, b)
      /\ \A i \in 1..Len(Tail(b)) : Tail(b)[i] = b[i + 1] /\ i + 1 \in 1..Len(b)
  BY OtherHandled
<1>2. OneWaits(k, a, Tail(b), P)
  BY <1>1 DEF Course, OneWaits
<1>3. Answers(k, a, Tail(b), P)
  <2>1. \A i \in Versioned(k, Tail(b)) : i + 1 \in Versioned(k, b) /\ Tail(b)[i] = b[i + 1] /\ i \in Nat
    BY <1>1 DEF Versioned
  <2>2. \A i, j \in Versioned(k, Tail(b)) : i = j
    <3>1. \A i, j \in Versioned(k, Tail(b)) : i + 1 = j + 1
      BY <2>1 DEF Course, Answers
    <3> QED BY <2>1, <3>1
  <2> QED BY <1>1, <2>1, <2>2 DEF Course, Answers
<1>4. News(k, Tail(b), x)
  BY <1>1 DEF Course, News
<1>5. Decides(k, a, Tail(b), x, y)
  BY <1>1 DEF Course, Decides
<1> QED BY <1>2, <1>3, <1>4, <1>5 DEF Course

-----------------------------------------------------------------------------
\* The master changes a key that does not wait for an answer.
LEMMA MasterPuts ==
  ASSUME NEW a \in Seq(ToMaster), NEW b \in Seq(ToSlave), NEW k, NEW x, NEW y,
         Course(k, a, b, {}, x, y), NEW m \in ToSlave, m.key = k
  PROVE  Course(k, a, b \o <<m>>, {[key |-> k, version |-> m.version, live |-> TRUE]}, m.value, y)
<1> DEFINE c == b \o <<m>>
<1> DEFINE p == [key |-> k, version |-> m.version, live |-> TRUE]
<1>1. Len(c) = Len(b) + 1 /\ c[Len(c)] = m /\ Len(b) \in Nat /\ (\A i \in 1..Len(b) : c[i] = b[i])
      /\ \A i \in 1..Len(b) : b[i] \in ToSlave
  OBVIOUS
<1> HIDE DEF c
<1>2. Versioned(k, a) = {} /\ Versioned(k, b) = {}
  BY DEF Course, Answers
<1>3. \A i \in 1..Len(b) : b[i].key # k
  BY <1>1, <1>2 DEF Versioned, ToSlave
<1>4. Versioned(k, c) = {Len(c)}
  <2>1. m.version > 0
    BY DEF ToSlave
  <2> QED BY <1>1, <1>3, <2>1 DEF Versioned
<1>5. OneWaits(k, a, c, {p})
  <2>1. p.live /\ Versioned(k, c) # {}
    BY <1>4
  <2> HIDE DEF p
  <2> QED BY <2>1, Zenon DEF OneWaits
<1>6. Answers(k, a, c, {p})
  BY <1>1, <1>2, <1>4 DEF Answers
<1>7. News(k, c, m.value)
  BY <1>1, <1>3 DEF News
<1>8. Decides(k, a, c, m.value, y)
  <2>1. About(k, c)
    BY <1>1 DEF About
  <2> QED BY <2>1 DEF Decides
<1> QED BY <1>5, <1>6, <1>7, <1>8 DEF Course, c

\* The slave changes a key.
LEMMA SlaveChanges ==
  ASSUME NEW a \in Seq(ToMaster), NEW t \in Seq(ToMaster), NEW b, NEW k, NEW P, NEW x, NEW y, NEW v,
         Course(k, a, b, P, x, y), NEW n \in 1..Len(t), t[n].key = k,
         \A i \in 1..Len(t) : t[i].key = k => i = n,
         t[n].value = v, t[n].version = 0
  PROVE  Course(k, a \o t, b, P, x, v)
<1> DEFINE c == a \o t
<1>1. /\ Len(c) = Len(a) + Len(t) /\ Len(a) \in Nat /\ Len(t) \in Nat
      /\ \A i \in 1..Len(a) : c[i] = a[i] /\ i \in 1..Len(c)
      /\ c[Len(a) + n] = t[n] /\ Len(a) + n \in 1..Len(c)
      /\ \A i \in 1..Len(c) : i \notin 1..Len(a) => i - Len(a) \in 1..Len(t) /\ c[i] = t[i - Len(a)]
  BY ConcatFacts
<1> HIDE DEF c
<1>2. \A i \in 1..Len(c) : i \notin 1..Len(a) /\ c[i].key = k => i = Len(a) + n
  <2> SUFFICES ASSUME NEW i \in 1..Len(c), i \notin 1..Len(a), c[i].key = k PROVE i = Len(a) + n
    OBVIOUS
  <2>1. i - Len(a) = n
    BY <1>1
  <2> QED BY <1>1, <2>1
<1>3. Versioned(k, c) = Versioned(k, a)
  <2>1. \A i \in Versioned(k, c) : i \in 1..Len(a)
    <3> SUFFICES ASSUME NEW i \in Versioned(k, c), i \notin 1..Len(a) PROVE FALSE
      OBVIOUS
    <3>1. c[i] = t[n]
      BY <1>1, <1>2 DEF Versioned
    <3> QED BY <3>1 DEF Versioned
  <2> QED BY <1>1, <2>1 DEF Versioned
<1>4. OneWaits(k, c, b, P)
  BY <1>3 DEF OneWaits, Course
<1>5. Answers(k, c, b, P)
  BY <1>1, <1>3 DEF Answers, Course, Versioned
<1>6. Decides(k, c, b, x, v)
  <2>1. About(k, c)
    BY <1>1 DEF About
  <2>2. ASSUME NEW i \in 1..Len(c), Latest(k, c, i) PROVE c[i] = t[n]
    BY <1>1, <1>2, <2>2 DEF Latest
  <2>3. t[n].op # "ack"
    BY DEF ToMaster
  <2> QED BY <2>1, <2>2, <2>3 DEF Decides
<1> QED BY <1>4, <1>5, <1>6 DEF Course, c

\* The slave handles a change of the master's, and acknowledges it.
LEMMA SlaveHandles ==
  ASSUME NEW a \in Seq(ToMaster), NEW b \in Seq(ToSlave), b # <<>>, NEW k, NEW P, NEW x, NEW y,
         Course(k, a, b, P, x, y), Head(b).key = k, NEW m \in ToMaster,
         m.key = k, m.version = Head(b).version, m.op = "ack"
  PROVE  Course(k, a \o <<m>>, Tail(b), P, x, Head(b).value)
<1> DEFINE c == a \o <<m>>
<1>1. Len(c) = Len(a) + 1 /\ c[Len(c)] = m /\ Len(a) \in Nat /\ (\A i \in 1..Len(a) : c[i] = a[i])
  OBVIOUS
<1> HIDE DEF c
<1>2. Head(b) = b[1] /\ 1 \in Versioned(k, b)
  BY TailFacts DEF Versioned, ToSlave
<1>3. Versioned(k, a) = {} /\ \A i \in Versioned(k, b) : i = 1
  BY <1>2 DEF Course, Answers
<1>4. ~About(k, Tail(b)) /\ Versioned(k, Tail(b)) = {}
  <2>1. \A i \in 1..Len(Tail(b)) : i + 1 \in 1..Len(b) /\ i + 1 # 1 /\ Tail(b)[i] = b[i + 1] /\ b[i + 1].version > 0
    BY TailFacts DEF ToSlave
  <2> QED BY <1>3, <2>1 DEF About, Versioned
<1>5. Versioned(k, c) = {Len(c)}
  <2>1. m.version > 0
    BY DEF ToMaster
  <2> QED BY <1>1, <1>3, <2>1 DEF Versioned
<1>6. OneWaits(k, c, Tail(b), P)
  BY <1>5 DEF OneWaits, Course
<1>7. Answers(k, c, Tail(b), P)
  BY <1>1, <1>2, <1>4, <1>5 DEF Answers, Course
<1>8. News(k, Tail(b), x)
  BY <1>4 DEF News, About
<1>9. Head(b).value = x
  BY <1>2 DEF Course, News, Versioned
<1>10. Decides(k, c, Tail(b), x, x)
  <2>1. ASSUME NEW i \in 1..Len(c), Latest(k, c, i) PROVE c[i] = m
    BY <1>1, <2>1 DEF Latest
  <2> QED BY <2>1 DEF Decides
<1> QED BY <1>6, <1>7, <1>8, <1>9, <1>10 DEF Course, c

\* The head of s is about k; what that says of the last message about it.
LEMMA AboutHead ==
  ASSUME NEW S, NEW s \in Seq(S), s # <<>>, NEW k, Head(s).key = k
  PROVE  /\ \A i \in 1..Len(Tail(s)) : Latest(k, Tail(s), i) => Latest(k, s, i + 1)
         /\ ~About(k, Tail(s)) => Latest(k, s, 1)
         /\ 1 \in 1..Len(s)
<1>1. \A j \in 1..Len(s) : j # 1 => j - 1 \in 1..Len(Tail(s)) /\ Tail(s)[j - 1] = s[j]
  BY TailFacts
<1>2. ASSUME NEW i \in 1..Len(Tail(s)), Latest(k, Tail(s), i) PROVE Latest(k, s, i + 1)
  <2>1. Tail(s)[i] = s[i + 1] /\ i \in Nat /\ i >= 1
    BY TailFacts
  <2>2. ASSUME NEW j \in 1..Len(s), s[j].key = k PROVE j <= i + 1
    <3>1. CASE j = 1
      BY <2>1, <3>1
    <3>2. CASE j # 1
      <4>1. j - 1 <= i
        BY <1>1, <1>2, <2>2, <3>2 DEF Latest
      <4> QED BY <2>1, <4>1
    <3> QED BY <3>1, <3>2
  <2> QED BY <1>2, <2>1, <2>2 DEF Latest
<1>3. ASSUME ~About(k, Tail(s)) PROVE Latest(k, s, 1)
  <2>1. \A j \in 1..Len(s) : s[j].key = k => j = 1
    BY <1>1, <1>3 DEF About
  <2> QED BY <2>1, TailFacts DEF Latest
<1> QED BY <1>2, <1>3, TailFacts

\* The master handles a change of the slave's to a key that does not wait ...
LEMMA MasterTakes ==
  ASSUME NEW a \in Seq(ToMaster), a # <<>>, NEW b \in Seq(ToSlave), NEW k, NEW x, NEW y,
         Course(k, a, b, {}, x, y), Head(a).key = k, Head(a).op # "ack"
  PROVE  Course(k, Tail(a), b, {}, Head(a).value, y)
<1>1. Versioned(k, a) = {} /\ Versioned(k, b) = {}
  BY DEF Course, Answers
<1>2. Versioned(k, Tail(a)) = {}
  BY <1>1, TailFacts DEF Versioned
<1>3. ~About(k, b)
  BY <1>1 DEF About, Versioned, ToSlave
<1>4. OneWaits(k, Tail(a), b, {}) /\ Answers(k, Tail(a), b, {}) /\ News(k, b, Head(a).value)
  BY <1>1, <1>2, <1>3 DEF OneWaits, Answers, News, About
<1>5. /\ \A i \in 1..Len(Tail(a)) : Latest(k, Tail(a), i) => Latest(k, a, i + 1)
      /\ ~About(k, Tail(a)) => Latest(k, a, 1)
  BY AboutHead
<1>6. /\ \A i \in 1..Len(Tail(a)) : Tail(a)[i] = a[i + 1] /\ i + 1 \in 1..Len(a)
      /\ Head(a) = a[1] /\ 1 \in 1..Len(a)
      /\ \A i \in 1..Len(a) : a[i] \in ToMaster
  BY TailFacts
<1>7. ASSUME NEW i \in 1..Len(a), Latest(k, a, i) PROVE a[i].op # "ack" /\ y = a[i].value
  <2>1. a[i].op # "ack"
    BY <1>1, <1>6, <1>7 DEF Versioned, ToMaster, Latest
  <2> QED BY <1>3, <1>7, <2>1 DEF Course, Decides
<1>8. Decides(k, Tail(a), b, Head(a).value, y)
  BY <1>5, <1>6, <1>7 DEF Decides
<1> QED BY <1>4, <1>8 DEF Course

\* ... or rejects it because it does.
LEMMA MasterRejects ==
  ASSUME NEW a \in Seq(ToMaster), a # <<>>, NEW b \in Seq(ToSlave), NEW k, NEW P, NEW x, NEW y, P # {},
         Course(k, a, b, P, x, y), Head(a).key = k, Head(a).op # "ack"
  PROVE  Course(k, Tail(a), b, P, x, y)
<1>1. /\ \A i \in 1..Len(Tail(a)) : Tail(a)[i] = a[i + 1] /\ i + 1 \in 1..Len(a) /\ i \in Nat
      /\ Head(a) = a[1] /\ 1 \in 1..Len(a)
      /\ \A i \in 1..Len(a) : a[i] \in ToMaster
      /\ \A i \in 1..Len(a) : i # 1 => i - 1 \in 1..Len(Tail(a)) /\ Tail(a)[i - 1] = a[i]
  BY TailFacts
<1>2. 1 \notin Versioned(k, a)
  BY <1>1 DEF Versioned, ToMaster
<1>3. \A i \in Versioned(k, a) : i - 1 \in Versioned(k, Tail(a))
  BY <1>1, <1>2 DEF Versioned
<1>4. \A i \in Versioned(k, Tail(a)) : i + 1 \in Versioned(k, a) /\ Tail(a)[i] = a[i + 1] /\ i \in Nat
  BY <1>1 DEF Versioned
<1>5. OneWaits(k, Tail(a), b, P)
  BY <1>3 DEF Course, OneWaits
<1>6. Answers(k, Tail(a), b, P)
  <2>1. \A i, j \in Versioned(k, Tail(a)) : i = j
    <3>1. \A i, j \in Versioned(k, Tail(a)) : i + 1 = j + 1
      BY <1>4 DEF Course, Answers
    <3> QED BY <1>4, <3>1
  <2>2. Versioned(k, Tail(a)) = {} \/ Versioned(k, b) = {}
    BY <1>4 DEF Course, Answers
  <2> QED BY <1>4, <2>1, <2>2 DEF Course, Answers
<1>7. ~About(k, b) => About(k, Tail(a))
  <2> SUFFICES ASSUME ~About(k, b) PROVE About(k, Tail(a))
    OBVIOUS
  <2>1. Versioned(k, b) = {}
    BY DEF About, Versioned
  <2>2. Versioned(k, Tail(a)) # {}
    BY <1>5, <2>1 DEF OneWaits
  <2> QED BY <2>2 DEF About, Versioned
<1>8. \A i \in 1..Len(Tail(a)) : Latest(k, Tail(a), i) => Latest(k, a, i + 1)
  BY AboutHead
<1>9. Decides(k, Tail(a), b, x, y)
  BY <1>1, <1>7, <1>8 DEF Course, Decides
<1> QED BY <1>5, <1>6, <1>9 DEF Course

\* The master hears that the slave has handled its change.
LEMMA MasterAcknowledged ==
  ASSUME NEW a \in Seq(ToMaster), a # <<>>, NEW b \in Seq(ToSlave), NEW k, NEW P, NEW x, NEW y,
         Course(k, a, b, P, x, y), Head(a).key = k, Head(a).op = "ack"
  PROVE  /\ P = {[key |-> k, version |-> Head(a).version, live |-> TRUE]}
         /\ Course(k, Tail(a), b, {}, x, y)
<1>1. /\ \A i \in 1..Len(Tail(a)) : Tail(a)[i] = a[i + 1] /\ i + 1 \in 1..Len(a) /\ i \in Nat /\ i + 1 # 1
      /\ Head(a) = a[1] /\ 1 \in 1..Len(a)
      /\ \A i \in 1..Len(a) : a[i] \in ToMaster
  BY TailFacts
<1>2. 1 \in Versioned(k, a)
  BY <1>1 DEF Versioned, ToMaster
<1>3. Versioned(k, b) = {} /\ \A i \in Versioned(k, a) : i = 1
  BY <1>2 DEF Course, Answers
<1>4. P = {[key |-> k, version |-> Head(a).version, live |-> TRUE]}
  BY <1>1, <1>2 DEF Course, Answers, OneWaits
<1>5. Versioned(k, Tail(a)) = {}
  BY <1>1, <1>3 DEF Versioned
<1>6. OneWaits(k, Tail(a), b, {}) /\ Answers(k, Tail(a), b, {})
  BY <1>3, <1>5 DEF OneWaits, Answers
<1>7. /\ \A i \in 1..Len(Tail(a)) : Latest(k, Tail(a), i) => Latest(k, a, i + 1)
      /\ ~About(k, Tail(a)) => Latest(k, a, 1)
  BY AboutHead
<1>8. Decides(k, Tail(a), b, x, y)
  <2>1. About(k, a)
    BY <1>1 DEF About
  <2> QED BY <1>1, <1>7 DEF Course, Decides
<1> QED BY <1>4, <1>6, <1>8 DEF Course
-----------------------------------------------------------------------------
(* pendingForAck.                                                          *)

\* What a key without an entry finds, and one with a live entry.
LEMMA FindFacts ==
  ASSUME NEW P \in SUBSET Pending, NEW k \in Keys
  PROVE  /\ Entries(P, k) = {} => Find(P, k) = {NotFound}
         /\ \A p \in P : Entries(P, k) = {p} /\ p.live => Find(P, k) = {p}
         /\ \A p \in P : p # NotFound
<1>1. \A p \in P : p # NotFound
  <2> SUFFICES ASSUME NEW p \in P, p = NotFound PROVE FALSE
    OBVIOUS
  <2>1. DOMAIN p = {"key", "version", "live"}
    BY DEF Pending
  <2>2. DOMAIN NotFound = {"version"}
    BY DEF NotFound
  <2> QED BY <2>1, <2>2
<1>2. Find(P, k) = Entries(P, k) \cup (IF \E p \in Entries(P, k) : p.live THEN {} ELSE {NotFound})
  BY DEF Find, Entries
<1> QED BY <1>1, <1>2

\* The entries of a key that is not removed are left as they are.
LEMMA VoidFacts ==
  ASSUME NEW P \in SUBSET Pending, NEW R
  PROVE  /\ Void(P, R) \in SUBSET Pending
         /\ \A k : k \notin R => Entries(Void(P, R), k) = Entries(P, k)
<1>1. \A p \in P : [p EXCEPT !.live = FALSE] \in Pending /\ [p EXCEPT !.live = FALSE].key = p.key
  BY DEF Pending
<1>2. Void(P, R) \in SUBSET Pending
  BY <1>1 DEF Void
<1>3. ASSUME NEW k, k \notin R PROVE Entries(Void(P, R), k) = Entries(P, k)
  BY <1>1, <1>3 DEF Void, Entries
<1> QED BY <1>2, <1>3

LEMMA EmplaceFacts ==
  ASSUME NEW P \in SUBSET Pending, NEW ks \in Seq(Keys), NEW n \in Nat, NEW Q \in Emplace(P, ks, n)
  PROVE  /\ Q \in SUBSET Pending
         /\ \A k \in Keys : k \notin ToSet(ks) => Entries(Q, k) = Entries(P, k)
<1>1. PICK missed \in SUBSET (1..Len(ks)) :
        /\ Q = P \cup {[key |-> ks[i], version |-> n + i, live |-> TRUE] : i \in missed}
        /\ \A i \in 1..Len(ks) :
             IF i \in missed THEN NotFound \in Find(P, ks[i]) ELSE Find(P, ks[i]) # {NotFound}
  BY DEF Emplace, Missed
<1>2. \A i \in missed : ks[i] \in Keys /\ ks[i] \in ToSet(ks) /\ n + i \in Nat
  BY DEF ToSet
<1>3. Q \in SUBSET Pending
  <2>1. \A i \in missed : [key |-> ks[i], version |-> n + i, live |-> TRUE] \in Pending
    BY <1>2 DEF Pending
  <2> QED BY <1>1, <2>1
<1>4. ASSUME NEW k \in Keys, k \notin ToSet(ks)
      PROVE  Entries(Q, k) = Entries(P, k)
  BY <1>1, <1>2, <1>4 DEF Entries
<1> QED BY <1>3, <1>4

LEMMA EmplaceOne ==
  ASSUME NEW P \in SUBSET Pending, NEW k \in Keys, NEW n \in Nat, NEW Q \in Emplace(P, <<k>>, n), Entries(P, k) = {}
  PROVE  Entries(Q, k) = {[key |-> k, version |-> n + 1, live |-> TRUE]}
<1> DEFINE ks == <<k>>
<1>1. PICK missed \in SUBSET (1..Len(ks)) :
        /\ Q = P \cup {[key |-> ks[i], version |-> n + i, live |-> TRUE] : i \in missed}
        /\ \A i \in 1..Len(ks) :
             IF i \in missed THEN NotFound \in Find(P, ks[i]) ELSE Find(P, ks[i]) # {NotFound}
  BY DEF Emplace, Missed
<1>2. Len(ks) = 1 /\ ks[1] = k
  OBVIOUS
<1>3. Find(P, k) = {NotFound}
  BY FindFacts
<1>4. 1 \in missed
  BY <1>1, <1>2, <1>3
<1>5. missed = {1}
  <2>1. \A i \in missed : i = 1
    BY <1>2
  <2> QED BY <1>4, <2>1
<1> QED BY <1>1, <1>2, <1>5 DEF Entries

-----------------------------------------------------------------------------
(* The steps.                                                              *)

\* The messages of a change.
Sent(e, op, ks, v) ==
  [i \in 1..Len(ks) |-> [op |-> op, key |-> ks[i], value |-> v, version |-> IF e = "master" THEN next_version + i ELSE 0]]

LEMMA SentFacts ==
  ASSUME TypeOK, NEW e \in End, NEW op \in {"put", "remove"}, NEW ks \in Seq(Keys), NEW v \in Values \cup {Absent}
  PROVE  /\ Sent(e, op, ks, v) \in Seq(IF e = "master" THEN ToSlave ELSE ToMaster)
         /\ Sent(e, op, ks, v) \in Seq(Messages)
         /\ Len(Sent(e, op, ks, v)) = Len(ks)
         /\ \A i \in 1..Len(ks) :
              /\ Sent(e, op, ks, v)[i].key = ks[i] /\ Sent(e, op, ks, v)[i].value = v
              /\ Sent(e, op, ks, v)[i].version = IF e = "master" THEN next_version + i ELSE 0
         /\ \A k : k \notin ToSet(ks) => ~About(k, Sent(e, op, ks, v))
<1> DEFINE s == Sent(e, op, ks, v)
<1> DEFINE m(i) == [op |-> op, key |-> ks[i], value |-> v, version |-> IF e = "master" THEN next_version + i ELSE 0]
<1>1. Len(ks) \in Nat /\ \A i \in 1..Len(ks) : ks[i] \in Keys /\ ks[i] \in ToSet(ks)
  BY DEF ToSet
<1>2. \A i \in 1..Len(ks) : m(i) \in Messages /\ m(i) \in IF e = "master" THEN ToSlave ELSE ToMaster
  <2> SUFFICES ASSUME NEW i \in 1..Len(ks)
               PROVE  m(i) \in Messages /\ m(i) \in IF e = "master" THEN ToSlave ELSE ToMaster
    OBVIOUS
  <2>1. next_version \in Nat /\ ks[i] \in Keys /\ i \in Nat /\ i > 0
    BY <1>1 DEF TypeOK
  <2>2. m(i) \in Messages
    BY <2>1 DEF Messages
  <2>3. m(i).op # "ack" /\ m(i).version = IF e = "master" THEN next_version + i ELSE 0
    OBVIOUS
  <2> QED BY <2>1, <2>2, <2>3 DEF ToSlave, ToMaster, End
<1>3. s = [i \in 1..Len(ks) |-> m(i)]
  BY DEF Sent
<1> HIDE DEF s, m
<1>4. Len(s) = Len(ks) /\ s \in Seq(Messages) /\ s \in Seq(IF e = "master" THEN ToSlave ELSE ToMaster)
  BY <1>1, <1>2, <1>3
<1>5. \A i \in 1..Len(ks) :
        s[i].key = ks[i] /\ s[i].value = v /\ s[i].version = IF e = "master" THEN next_version + i ELSE 0
  BY <1>3 DEF m
<1>6. ASSUME NEW k, k \notin ToSet(ks) PROVE ~About(k, s)
  BY <1>1, <1>4, <1>5, <1>6 DEF About
<1> QED BY <1>4, <1>5, <1>6 DEF s

LEMMA ChangeMaster ==
  ASSUME IInv, NEW op \in {"put", "remove"}, NEW ks \in Seq(Keys), NEW v \in Values \cup {Absent},
         Change("master", op, ks, v), op = "put" => \E k \in Keys : ks = <<k>>
  PROVE  IInv'
<1> DEFINE t == Sent("master", op, ks, v)
<1> DEFINE a == incoming["master"]
<1> DEFINE b == incoming["slave"]
<1>1. /\ t \in Seq(ToSlave) /\ t \in Seq(Messages) /\ Len(t) = Len(ks)
      /\ \A i \in 1..Len(ks) : t[i].key = ks[i] /\ t[i].value = v /\ t[i].version = next_version + i
      /\ \A k : k \notin ToSet(ks) => ~About(k, t)
  BY SentFacts DEF IInv, End
<1>2. /\ map' = [map EXCEPT !["master"] = [k \in Keys |-> IF k \in ToSet(ks) THEN v ELSE @[k]]]
      /\ incoming' = [incoming EXCEPT !["slave"] = @ \o t]
      /\ changes < MaxChanges /\ changes' = changes + 1
      /\ next_version' = next_version + Len(ks)
      /\ \E P \in Emplace(pendingForAck, ks, next_version) :
           pendingForAck' = Void(P, IF op = "remove" THEN ToSet(ks) ELSE {})
      /\ loose' = loose \cup (IF op = "remove" THEN ToSet(ks) ELSE {})
                    \cup {p.key : p \in {q \in pendingForAck : q.key \in ToSet(ks)}}
  BY DEF Change, Sent, Other
<1> HIDE DEF t
<1>3. PICK P \in Emplace(pendingForAck, ks, next_version) :
        pendingForAck' = Void(P, IF op = "remove" THEN ToSet(ks) ELSE {})
  BY <1>2
<1>4. TypeOK /\ pendingForAck \in SUBSET Pending /\ next_version \in Nat /\ Len(ks) \in Nat
  BY DEF IInv, TypeOK
<1>5. /\ P \in SUBSET Pending
      /\ \A k \in Keys : k \notin ToSet(ks) => Entries(P, k) = Entries(pendingForAck, k)
  BY <1>4, EmplaceFacts
<1>6. a \in Seq(ToMaster) /\ b \in Seq(ToSlave) /\ b \in Seq(Messages) /\ a \in Seq(Messages)
  BY DEF IInv, TypeOK, End
<1>7. incoming'["master"] = a /\ incoming'["slave"] = b \o t
  BY <1>2, <1>4 DEF TypeOK, End
<1>8. \A k \in Keys : map'["slave"][k] = map["slave"][k]
        /\ map'["master"][k] = IF k \in ToSet(ks) THEN v ELSE map["master"][k]
  BY <1>2, <1>4 DEF TypeOK, End
<1>9. ToSet(ks) \subseteq Keys
  BY DEF ToSet
<1>10. TypeOK'
  <2>1. map' \in [End -> [Keys -> Values \cup {Absent}]]
    BY <1>2, <1>4 DEF TypeOK, End
  <2>2. incoming' \in [End -> Seq(Messages)]
    <3>1. b \o t \in Seq(Messages)
      BY <1>1, <1>6
    <3> QED BY <1>2, <1>4, <3>1 DEF TypeOK, End
  <2>3. pendingForAck' \subseteq Pending
    BY <1>3, <1>5, VoidFacts
  <2>4. loose' \subseteq Keys
    BY <1>2, <1>4, <1>9 DEF TypeOK
  <2>5. next_version' \in Nat /\ changes' \in 0..MaxChanges
    BY <1>2, <1>4, RdMapAssumption DEF TypeOK
  <2> QED BY <2>1, <2>2, <2>3, <2>4, <2>5 DEF TypeOK
<1>11. b \o t \in Seq(ToSlave)
  BY <1>1, <1>6
<1>12. ASSUME NEW k \in Keys \ loose'
       PROVE  Course(k, a, b \o t, Mine(k)', map'["master"][k], map'["slave"][k])
  <2>1. Course(k, a, b, Mine(k), map["master"][k], map["slave"][k])
    BY <1>2, <1>12 DEF IInv
  <2>2. CASE k \notin ToSet(ks)
    <3>1. Mine(k)' = Mine(k)
      <4>1. Entries(P, k) = Entries(pendingForAck, k)
        BY <1>5, <2>2
      <4>2. Entries(pendingForAck', k) = Entries(P, k)
        BY <1>3, <1>5, <2>2, VoidFacts
      <4> QED BY <4>1, <4>2 DEF Mine
    <3> QED BY <1>1, <1>6, <1>8, <2>1, <2>2, <3>1, OthersToSlave
  <2>3. CASE k \in ToSet(ks)
    <3>1. op = "put"
      BY <1>2, <1>12, <2>3
    <3>2. ks = <<k>>
      BY <2>3, <3>1 DEF ToSet
    <3>3. Mine(k) = {}
      BY <1>2, <1>12, <2>3 DEF Mine, Entries
    <3>4. Mine(k)' = {[key |-> k, version |-> next_version + 1, live |-> TRUE]}
      <4>1. Entries(P, k) = {[key |-> k, version |-> next_version + 1, live |-> TRUE]}
        <5>1. Entries(pendingForAck, k) = {}
          BY <3>3 DEF Mine
        <5>2. P \in Emplace(pendingForAck, <<k>>, next_version)
          BY <3>2
        <5> QED BY <1>4, <5>1, <5>2, EmplaceOne
      <4>2. Entries(pendingForAck', k) = Entries(P, k)
        <5>1. pendingForAck' = Void(P, {})
          BY <1>3, <3>1
        <5> QED BY <1>5, <5>1, VoidFacts
      <4> QED BY <4>1, <4>2 DEF Mine, Entries
    <3>5. t = <<t[1]>> /\ t[1] \in ToSlave /\ t[1].key = k /\ t[1].version = next_version + 1 /\ t[1].value = v
      <4>1. Len(ks) = 1 /\ ks[1] = k
        BY <3>2
      <4>2. Len(t) = 1 /\ t[1].key = k /\ t[1].version = next_version + 1 /\ t[1].value = v
        BY <1>1, <4>1
      <4>3. t[1] \in ToSlave /\ t = <<t[1]>>
        <5>1. t[1] \in ToSlave
          <6>1. t \in Seq(ToSlave) /\ 1 \in 1..Len(t)
            BY <1>1, <4>2
          <6> QED BY <6>1
        <5>2. t = <<t[1]>>
          BY <1>1, <4>2
        <5> QED BY <5>1, <5>2
      <4> QED BY <4>2, <4>3
    <3> DEFINE m == t[1]
    <3>6. Course(k, a, b \o <<m>>, {[key |-> k, version |-> m.version, live |-> TRUE]}, m.value, map["slave"][k])
      <4>1. m \in ToSlave /\ m.key = k
        BY <3>5
      <4>2. Course(k, a, b, {}, map["master"][k], map["slave"][k])
        BY <2>1, <3>3
      <4> HIDE DEF m
      <4> QED BY <1>6, <4>1, <4>2, MasterPuts
    <3> QED BY <1>8, <2>3, <3>4, <3>5, <3>6
  <2> QED BY <2>2, <2>3
<1> QED BY <1>6, <1>7, <1>10, <1>11, <1>12 DEF IInv

LEMMA ChangeSlave ==
  ASSUME IInv, NEW op \in {"put", "remove"}, NEW ks \in Seq(Keys), NEW v \in Values \cup {Absent},
         Change("slave", op, ks, v), \A i, j \in 1..Len(ks) : ks[i] = ks[j] => i = j
  PROVE  IInv'
<1> DEFINE t == Sent("slave", op, ks, v)
<1> DEFINE a == incoming["master"]
<1> DEFINE b == incoming["slave"]
<1>1. /\ t \in Seq(ToMaster) /\ t \in Seq(Messages) /\ Len(t) = Len(ks)
      /\ \A i \in 1..Len(ks) : t[i].key = ks[i] /\ t[i].value = v /\ t[i].version = 0
      /\ \A k : k \notin ToSet(ks) => ~About(k, t)
  BY SentFacts DEF IInv, End
<1>2. /\ map' = [map EXCEPT !["slave"] = [k \in Keys |-> IF k \in ToSet(ks) THEN v ELSE @[k]]]
      /\ incoming' = [incoming EXCEPT !["master"] = @ \o t]
      /\ changes < MaxChanges /\ changes' = changes + 1
      /\ UNCHANGED <<next_version, pendingForAck, loose>>
  BY DEF Change, Sent, Other
<1> HIDE DEF t
<1>3. a \in Seq(ToMaster) /\ b \in Seq(ToSlave) /\ b \in Seq(Messages) /\ a \in Seq(Messages)
  BY DEF IInv, TypeOK, End
<1>4. incoming'["master"] = a \o t /\ incoming'["slave"] = b
  BY <1>2 DEF IInv, TypeOK, End
<1>5. \A k \in Keys : map'["master"][k] = map["master"][k]
        /\ map'["slave"][k] = IF k \in ToSet(ks) THEN v ELSE map["slave"][k]
  BY <1>2 DEF IInv, TypeOK, End
<1>6. TypeOK'
  <2>1. map' \in [End -> [Keys -> Values \cup {Absent}]]
    BY <1>2 DEF IInv, TypeOK, End
  <2>2. incoming' \in [End -> Seq(Messages)]
    <3>1. a \o t \in Seq(Messages)
      BY <1>1, <1>3
    <3> QED BY <1>2, <3>1 DEF IInv, TypeOK, End
  <2>3. changes' \in 0..MaxChanges
    BY <1>2, RdMapAssumption DEF IInv, TypeOK
  <2> QED BY <1>2, <2>1, <2>2, <2>3 DEF IInv, TypeOK
<1>7. a \o t \in Seq(ToMaster)
  BY <1>1, <1>3
<1>8. ASSUME NEW k \in Keys \ loose'
      PROVE  Course(k, a \o t, b, Mine(k)', map'["master"][k], map'["slave"][k])
  <2>1. Course(k, a, b, Mine(k), map["master"][k], map["slave"][k]) /\ Mine(k)' = Mine(k)
    BY <1>2, <1>8 DEF IInv, Mine
  <2>2. CASE k \notin ToSet(ks)
    BY <1>1, <1>3, <1>5, <2>1, <2>2, OthersToMaster
  <2>3. CASE k \in ToSet(ks)
    <3>1. PICK n \in 1..Len(ks) : ks[n] = k
      BY <2>3 DEF ToSet
    <3>2. n \in 1..Len(t) /\ t[n].key = k /\ t[n].value = v /\ t[n].version = 0
      BY <1>1, <3>1
    <3>3. \A i \in 1..Len(t) : t[i].key = k => i = n
      BY <1>1, <3>1
    <3>4. Course(k, a \o t, b, Mine(k), map["master"][k], v)
      BY <1>1, <1>3, <2>1, <3>2, <3>3, SlaveChanges
    <3> QED BY <1>5, <2>1, <2>3, <3>4
  <2> QED BY <2>2, <2>3
<1> QED BY <1>3, <1>4, <1>6, <1>7, <1>8 DEF IInv

\* The slave handles a message.
LEMMA SlaveReceives ==
  ASSUME IInv, OnWireReceived("slave") PROVE IInv'
<1> DEFINE a == incoming["master"]
<1> DEFINE b == incoming["slave"]
<1> DEFINE m == Head(b)
<1> DEFINE r == [op |-> "ack", key |-> m.key, value |-> Absent, version |-> m.version]
<1>1. a \in Seq(ToMaster) /\ b \in Seq(ToSlave) /\ b \in Seq(Messages) /\ a \in Seq(Messages) /\ b # <<>>
  BY DEF IInv, TypeOK, End, OnWireReceived
<1>2. m \in ToSlave /\ m \in Messages /\ m.key \in Keys /\ m.value \in Values \cup {Absent} /\ m.version \in Nat
  BY <1>1, TailFacts DEF ToSlave, Messages
<1>3. /\ map' = [map EXCEPT !["slave"][m.key] = m.value]
      /\ incoming' = [incoming EXCEPT !["slave"] = Tail(@), !["master"] = @ \o <<r>>]
      /\ UNCHANGED <<pendingForAck, next_version, changes, loose>>
  BY <1>2 DEF OnWireReceived, Rejected, Reply, ToSlave, Other
<1>4. incoming'["master"] = a \o <<r>> /\ incoming'["slave"] = Tail(b)
  BY <1>3 DEF IInv, TypeOK, End
<1>5. r \in ToMaster /\ r \in Messages
  BY <1>2 DEF ToMaster, ToSlave, Messages
<1>6. /\ Tail(b) \in Seq(ToSlave) /\ Tail(b) \in Seq(Messages)
      /\ <<r>> \in Seq(ToMaster) /\ a \o <<r>> \in Seq(ToMaster) /\ a \o <<r>> \in Seq(Messages)
  BY <1>1, <1>5
<1>7. \A k \in Keys : map'["master"][k] = map["master"][k]
        /\ map'["slave"][k] = IF k = m.key THEN m.value ELSE map["slave"][k]
  BY <1>3 DEF IInv, TypeOK, End
<1>8. TypeOK'
  <2>1. map' \in [End -> [Keys -> Values \cup {Absent}]]
    BY <1>2, <1>3 DEF IInv, TypeOK, End
  <2>2. incoming' \in [End -> Seq(Messages)]
    BY <1>3, <1>6 DEF IInv, TypeOK, End
  <2> QED BY <1>3, <2>1, <2>2 DEF IInv, TypeOK
<1>9. ASSUME NEW k \in Keys \ loose'
      PROVE  Course(k, a \o <<r>>, Tail(b), Mine(k)', map'["master"][k], map'["slave"][k])
  <2>1. Course(k, a, b, Mine(k), map["master"][k], map["slave"][k]) /\ Mine(k)' = Mine(k)
    BY <1>3, <1>9 DEF IInv, Mine
  <2>2. CASE k # m.key
    <3>1. Course(k, a, Tail(b), Mine(k), map["master"][k], map["slave"][k])
      BY <1>1, <2>1, <2>2, SlaveHandlesOther
    <3>2. ~About(k, <<r>>)
      BY <2>2 DEF About
    <3>3. Course(k, a \o <<r>>, Tail(b), Mine(k), map["master"][k], map["slave"][k])
      BY <1>1, <1>6, <3>1, <3>2, OthersToMaster
    <3> QED BY <1>7, <2>1, <2>2, <3>3
  <2>3. CASE k = m.key
    <3>1. Course(k, a \o <<r>>, Tail(b), Mine(k), map["master"][k], m.value)
      BY <1>1, <1>5, <2>1, <2>3, SlaveHandles
    <3> QED BY <1>7, <2>1, <2>3, <3>1
  <2> QED BY <2>2, <2>3
<1> QED BY <1>4, <1>6, <1>8, <1>9 DEF IInv

\* The master handles a message.
LEMMA MasterReceives ==
  ASSUME IInv, OnWireReceived("master") PROVE IInv'
<1> DEFINE a == incoming["master"]
<1> DEFINE b == incoming["slave"]
<1> DEFINE m == Head(a)
<1>1. a \in Seq(ToMaster) /\ b \in Seq(ToSlave) /\ b \in Seq(Messages) /\ a \in Seq(Messages) /\ a # <<>>
  BY DEF IInv, TypeOK, End, OnWireReceived
<1>2. m \in ToMaster /\ m \in Messages /\ m.key \in Keys /\ m.value \in Values \cup {Absent} /\ m.version \in Nat
  BY <1>1, TailFacts DEF ToMaster, Messages
<1>3. Tail(a) \in Seq(ToMaster) /\ Tail(a) \in Seq(Messages)
  BY <1>1
<1>4. pendingForAck \in SUBSET Pending
  BY DEF IInv, TypeOK
<1>5. PICK f \in Find(pendingForAck, m.key) :
        IF m.op = "ack"
          THEN /\ Acknowledged(m, f)
               /\ incoming' = [incoming EXCEPT !["master"] = Tail(@)]
               /\ UNCHANGED map
          ELSE /\ map' = IF Rejected("master", m, f) THEN map ELSE [map EXCEPT !["master"][m.key] = m.value]
               /\ incoming' = [incoming EXCEPT !["master"] = Tail(@), !["slave"] = @ \o Reply("master", m)]
               /\ pendingForAck' = IF m.op = "remove" /\ ~Rejected("master", m, f)
                                     THEN Void(pendingForAck, {m.key}) ELSE pendingForAck
  BY DEF OnWireReceived, Other
<1>6. UNCHANGED <<next_version, changes, loose>>
  BY DEF OnWireReceived
<1>7. incoming' = [incoming EXCEPT !["master"] = Tail(@)]
  <2>1. CASE m.op = "ack"
    BY <1>5, <2>1
  <2>2. CASE m.op # "ack"
    <3>1. Reply("master", m) = <<>>
      BY <1>2, <2>2 DEF Reply, ToMaster
    <3>2. b \o <<>> = b
      BY <1>1
    <3> QED BY <1>5, <2>2, <3>1, <3>2 DEF IInv, TypeOK, End
  <2> QED BY <2>1, <2>2
<1>8. incoming'["master"] = Tail(a) /\ incoming'["slave"] = b
  BY <1>7 DEF IInv, TypeOK, End
<1>9. \/ UNCHANGED map
      \/ m.op # "ack" /\ ~Rejected("master", m, f) /\ map' = [map EXCEPT !["master"][m.key] = m.value]
  BY <1>5
<1>10. TypeOK'
  <2>1. map' \in [End -> [Keys -> Values \cup {Absent}]]
    BY <1>2, <1>9 DEF IInv, TypeOK, End
  <2>2. incoming' \in [End -> Seq(Messages)]
    BY <1>3, <1>7 DEF IInv, TypeOK, End
  <2>3. pendingForAck' \subseteq Pending
    BY <1>4, <1>5, VoidFacts DEF Acknowledged
  <2> QED BY <1>6, <2>1, <2>2, <2>3 DEF IInv, TypeOK
<1>11. ASSUME NEW k \in Keys \ loose'
       PROVE  Course(k, Tail(a), b, Mine(k)', map'["master"][k], map'["slave"][k])
  <2>1. Course(k, a, b, Mine(k), map["master"][k], map["slave"][k])
    BY <1>6, <1>11 DEF IInv
  <2>2. map'["slave"][k] = map["slave"][k]
    BY <1>9 DEF IInv, TypeOK, End
  <2>3. f = NotFound \/ (f \in pendingForAck /\ f.key = m.key)
    BY <1>5 DEF Find
  <2>4. \A p \in pendingForAck : p # NotFound
    BY <1>2, <1>4, FindFacts
  <2>5. CASE k # m.key
    <3>1. map'["master"][k] = map["master"][k]
      BY <1>9, <2>5 DEF IInv, TypeOK, End
    <3>2. Mine(k)' = Mine(k)
      <4>1. CASE m.op = "ack"
        BY <1>5, <2>3, <2>5, <4>1 DEF Mine, Entries, Acknowledged
      <4>2. CASE m.op # "ack"
        <5>1. Entries(Void(pendingForAck, {m.key}), k) = Entries(pendingForAck, k)
          BY <1>4, <2>5, VoidFacts
        <5> QED BY <1>5, <4>2, <5>1 DEF Mine, Entries
      <4> QED BY <4>1, <4>2
    <3>3. Course(k, Tail(a), b, Mine(k), map["master"][k], map["slave"][k])
      BY <1>1, <2>1, <2>5, MasterHandlesOther
    <3> QED BY <2>2, <3>1, <3>2, <3>3
  <2>6. CASE k = m.key /\ m.op = "ack"
    <3> DEFINE p == [key |-> k, version |-> m.version, live |-> TRUE]
    <3>0. a \in Seq(ToMaster) /\ a # <<>> /\ b \in Seq(ToSlave) /\ Head(a).key = k /\ Head(a).op = "ack"
      BY <1>1, <2>6
    <3>1. Mine(k) = {p} /\ Course(k, Tail(a), b, {}, map["master"][k], map["slave"][k])
      BY <2>1, <3>0, MasterAcknowledged
    <3>2. p \in pendingForAck /\ p.live /\ p.version = m.version
      BY <3>1 DEF Mine, Entries
    <3>3. Find(pendingForAck, k) = {p}
      BY <1>4, <3>1, <3>2, FindFacts DEF Mine
    <3>4. pendingForAck' = pendingForAck \ {p}
      BY <1>5, <2>4, <2>6, <3>2, <3>3 DEF Acknowledged
    <3>5. Mine(k)' = {}
      BY <3>1, <3>4 DEF Mine, Entries
    <3>6. UNCHANGED map
      BY <1>5, <2>6
    <3> QED BY <3>1, <3>5, <3>6
  <2>7. CASE k = m.key /\ m.op # "ack" /\ Mine(k) = {}
    <3>1. Find(pendingForAck, k) = {NotFound}
      BY <1>4, <2>7, FindFacts DEF Mine, Entries
    <3>2. ~Rejected("master", m, f)
      BY <1>5, <2>7, <3>1 DEF Rejected
    <3>3. map'["master"][k] = m.value
      BY <1>5, <2>7, <3>2 DEF IInv, TypeOK, End
    <3>4. Mine(k)' = {}
      <4>1. \A q \in Void(pendingForAck, {m.key}) : q.key # k
        <5>1. \A q \in pendingForAck : q.key # k
          BY <2>7 DEF Mine, Entries
        <5> QED BY <2>7, <5>1 DEF Void
      <4> QED BY <1>5, <2>7, <4>1 DEF Mine, Entries
    <3>5. Course(k, Tail(a), b, {}, m.value, map["slave"][k])
      BY <1>1, <2>1, <2>7, MasterTakes
    <3> QED BY <2>2, <3>3, <3>4, <3>5
  <2>8. CASE k = m.key /\ m.op # "ack" /\ Mine(k) # {}
    <3>1. PICK p \in Mine(k) : p.live /\ Mine(k) = {p}
      BY <2>1, <2>8 DEF Course, OneWaits
    <3>2. Find(pendingForAck, k) = {p}
      BY <1>4, <3>1, FindFacts DEF Mine, Entries
    <3>3. Rejected("master", m, f)
      <4>1. f # NotFound
        BY <1>5, <2>4, <2>8, <3>1, <3>2 DEF Mine, Entries
      <4>2. m.version = 0
        BY <1>2, <2>8 DEF ToMaster
      <4> QED BY <4>1, <4>2 DEF Rejected
    <3>4. UNCHANGED <<map, pendingForAck>>
      BY <1>5, <2>8, <3>3
    <3>5. Course(k, Tail(a), b, Mine(k), map["master"][k], map["slave"][k])
      BY <1>1, <2>1, <2>8, MasterRejects
    <3> QED BY <3>4, <3>5 DEF Mine, Entries
  <2> QED BY <2>5, <2>6, <2>7, <2>8
<1> QED BY <1>1, <1>3, <1>8, <1>10, <1>11 DEF IInv

\* Every step keeps the course of every key.
LEMMA MapStep == ASSUME IInv, [Next]_vars PROVE IInv'
<1>1. CASE UNCHANGED vars
  BY <1>1 DEF vars, IInv, TypeOK, Mine
<1>2. ASSUME NEW e \in End, NEW k \in Keys, NEW v \in Values, Set(e, k, v) PROVE IInv'
  <2>1. <<k>> \in Seq(Keys) /\ Len(<<k>>) = 1 /\ Change(e, "put", <<k>>, v)
    BY <1>2 DEF Set
  <2>2. \A i, j \in 1..Len(<<k>>) : i = j
    BY <2>1
  <2>3. CASE e = "master"
    BY <2>1, <2>3, ChangeMaster
  <2>4. CASE e = "slave"
    BY <2>1, <2>2, <2>4, ChangeSlave
  <2> QED BY <2>3, <2>4 DEF End
<1>3. ASSUME NEW e \in End, NEW k \in Keys, RemoveKey(e, k) PROVE IInv'
  <2>1. <<k>> \in Seq(Keys) /\ Len(<<k>>) = 1 /\ Change(e, "remove", <<k>>, Absent)
    BY <1>3 DEF RemoveKey
  <2>2. \A i, j \in 1..Len(<<k>>) : i = j
    BY <2>1
  <2>3. CASE e = "master"
    BY <2>1, <2>3, ChangeMaster
  <2>4. CASE e = "slave"
    BY <2>1, <2>2, <2>4, ChangeSlave
  <2> QED BY <2>3, <2>4 DEF End
<1>4. ASSUME NEW e \in End, Clear(e) PROVE IInv'
  <2> DEFINE present == {k \in Keys : map[e][k] # Absent}
  <2>1. PICK ks \in [1..Cardinality(present) -> present] : IsInjective(ks) /\ Change(e, "remove", ks, Absent)
    BY <1>4 DEF Clear
  <2>2. Cardinality(present) \in Nat
    <3>1. IsFiniteSet(present)
      BY RdMapAssumption, FS_Subset
    <3> QED BY <3>1, FS_CardinalityType
  <2>3. ks \in Seq(Keys) /\ \A i, j \in 1..Len(ks) : ks[i] = ks[j] => i = j
    <3>1. PICK n \in Nat : n = Cardinality(present)
      BY <2>2
    <3>2. ks \in [1..n -> Keys]
      BY <2>1, <3>1
    <3>3. ks \in Seq(Keys) /\ DOMAIN ks = 1..Len(ks)
      BY <3>2
    <3> QED BY <2>1, <3>3 DEF IsInjective
  <2>4. CASE e = "master"
    BY <2>1, <2>3, <2>4, ChangeMaster
  <2>5. CASE e = "slave"
    BY <2>1, <2>3, <2>5, ChangeSlave
  <2> QED BY <2>4, <2>5 DEF End
<1>5. ASSUME NEW e \in End, OnWireReceived(e) PROVE IInv'
  BY <1>5, SlaveReceives, MasterReceives DEF End
<1> QED BY <1>1, <1>2, <1>3, <1>4, <1>5 DEF Next

LEMMA AlwaysMapInv == Spec => []IInv
<1>1. Init => IInv
  <2> SUFFICES ASSUME Init PROVE IInv
    OBVIOUS
  <2>1. TypeOK
    BY RdMapAssumption DEF Init, TypeOK, End
  <2>2. incoming["master"] = <<>> /\ incoming["slave"] = <<>> /\ pendingForAck = {}
        /\ \A k \in Keys : map["master"][k] = Absent /\ map["slave"][k] = Absent
    BY DEF Init, End
  <2>3. \A k : Versioned(k, <<>>) = {} /\ ~About(k, <<>>)
    BY DEF Versioned, About
  <2>4. \A k \in Keys : Course(k, <<>>, <<>>, {}, Absent, Absent)
    BY <2>3 DEF Course, OneWaits, Answers, News, Decides
  <2>5. \A k : Mine(k) = {}
    BY <2>2 DEF Mine, Entries
  <2>6. <<>> \in Seq(ToMaster) /\ <<>> \in Seq(ToSlave)
    OBVIOUS
  <2> QED BY <2>1, <2>2, <2>4, <2>5, <2>6 DEF IInv
<1>2. IInv /\ [Next]_vars => IInv'
  BY MapStep
<1> QED BY <1>1, <1>2, PTL DEF Spec

\* However many changes cross on the wire, also clears, when nothing is on its
\* way both ends have the same for every key the books are right about.
THEOREM MapAgreement == Spec => []Agreement
<1>1. IInv => Agreement
  <2> SUFFICES ASSUME IInv, Quiet, NEW k \in Keys \ loose PROVE map["master"][k] = map["slave"][k]
    BY DEF Agreement
  <2>1. incoming["master"] = <<>> /\ incoming["slave"] = <<>>
    BY DEF Quiet, End
  <2>2. ~About(k, <<>>)
    BY DEF About
  <2> QED BY <2>1, <2>2 DEF IInv, Course, Decides
<1> QED BY <1>1, AlwaysMapInv, PTL

\* The master waits for exactly what is not answered, and has the last word.
THEOREM MapBookkeeping == Spec => []Bookkeeping
<1>1. IInv => LastWord
  <2> SUFFICES ASSUME IInv, NEW i \in 1..Len(incoming["slave"]), incoming["slave"][i].key \notin loose
               PROVE  map["master"][incoming["slave"][i].key] = incoming["slave"][i].value
    BY DEF LastWord
  <2>1. incoming["slave"][i].key \in Keys
    <3>1. incoming["slave"] \in Seq(Messages)
      BY DEF IInv, TypeOK, End
    <3>2. incoming["slave"][i] \in Messages
      BY <3>1
    <3> QED BY <3>2 DEF Messages
  <2> QED BY <2>1 DEF IInv, Course, News
<1>2. IInv => PendingExact
  <2> SUFFICES ASSUME IInv, NEW k \in Keys \ loose, NEW n \in 1..next_version
               PROVE  [key |-> k, version |-> n, live |-> TRUE] \in pendingForAck <=>
                        \E e \in End : \E i \in 1..Len(incoming[e]) :
                          incoming[e][i].key = k /\ incoming[e][i].version = n
    BY DEF PendingExact
  <2> DEFINE p == [key |-> k, version |-> n, live |-> TRUE]
  <2> DEFINE a == incoming["master"]
  <2> DEFINE b == incoming["slave"]
  <2>1. OneWaits(k, a, b, Mine(k)) /\ Answers(k, a, b, Mine(k)) /\ n > 0
    BY DEF IInv, TypeOK, Course
  <2>2. ASSUME NEW e \in End, NEW i \in 1..Len(incoming[e]), incoming[e][i].key = k, incoming[e][i].version = n
        PROVE  p \in pendingForAck
    <3>1. i \in Versioned(k, incoming[e])
      BY <2>1, <2>2 DEF Versioned
    <3> QED BY <2>1, <2>2, <3>1 DEF Answers, Mine, Entries, End
  <2>3. ASSUME p \in pendingForAck
        PROVE  \E e \in End : \E i \in 1..Len(incoming[e]) : incoming[e][i].key = k /\ incoming[e][i].version = n
    <3>1. p \in Mine(k)
      BY <2>3 DEF Mine, Entries
    <3>2. Mine(k) = {p} /\ (Versioned(k, a) # {} \/ Versioned(k, b) # {})
      BY <2>1, <3>1 DEF OneWaits
    <3>3. \A i \in Versioned(k, a) : a[i].version = n
      BY <2>1, <3>2 DEF Answers
    <3>4. \A i \in Versioned(k, b) : b[i].version = n
      BY <2>1, <3>2 DEF Answers
    <3>5. CASE Versioned(k, a) # {}
      BY <3>3, <3>5 DEF Versioned, End
    <3>6. CASE Versioned(k, b) # {}
      BY <3>4, <3>6 DEF Versioned, End
    <3> QED BY <3>2, <3>5, <3>6
  <2> QED BY <2>2, <2>3
<1>3. IInv => Bookkeeping
  BY <1>1, <1>2 DEF IInv, Bookkeeping
<1> QED BY <1>3, AlwaysMapInv, PTL

=============================================================================
