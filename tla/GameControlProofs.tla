-------------------------- MODULE GameControlProofs --------------------------
(***************************************************************************)
(* The safety of the game control for any settings and modes and any       *)
(* number of connections, changes and requests.  What is promised holds    *)
(* when nothing is under way, so the inductive invariant says where the    *)
(* news is while something is: the last mode action in the scheduler's     *)
(* queue, or without one the last mode message to the IDE, or without one  *)
(* what the IDE shows, is the editor's play mode; likewise for the state   *)
(* of the session.  Every request is in one place at most.  And the queue  *)
(* of a new connection has the ends of the old ones, then its model's      *)
(* coming alive, and nothing of its own before that.                       *)
(***************************************************************************)
EXTENDS GameControl, TLAPS

-----------------------------------------------------------------------------
(* Where something is in a sequence: at all, once, all of Y before X; and  *)
(* what the last of X is.                                                  *)

Occurs(s, X) == \E i \in 1..Len(s) : s[i] \in X
Once(s, X) == \A i, j \in 1..Len(s) : s[i] \in X /\ s[j] \in X => i = j
Precedes(s, Y, X) == \A i, j \in 1..Len(s) : s[i] \in X /\ s[j] \in Y => j < i
LastIn(s, X, Y) ==
  \A i \in 1..Len(s) : s[i] \in X /\ (\A j \in 1..Len(s) : s[j] \in X => j <= i) => s[i] \in Y

LEMMA EmptyHas ==
  ASSUME NEW X, NEW Y
  PROVE ~Occurs(<<>>, X) /\ Once(<<>>, X) /\ Precedes(<<>>, Y, X) /\ LastIn(<<>>, X, Y)
BY DEF Occurs, Once, Precedes, LastIn

LEMMA AppendOccurs ==
  ASSUME NEW T, NEW s \in Seq(T), NEW e \in T, NEW X
  PROVE Occurs(Append(s, e), X) <=> Occurs(s, X) \/ e \in X
<1> DEFINE q == Append(s, e)
<1>1. Len(q) = Len(s) + 1 /\ Len(s) \in Nat /\ q[Len(s) + 1] = e
  OBVIOUS
<1>2. \A i \in 1..Len(s) : q[i] = s[i]
  OBVIOUS
<1>3. \A i \in 1..Len(q) : i \in 1..Len(s) \/ i = Len(s) + 1
  BY <1>1
<1>4. 1..Len(s) \subseteq 1..Len(q) /\ Len(s) + 1 \in 1..Len(q)
  BY <1>1
<1> QED  BY <1>1, <1>2, <1>3, <1>4 DEF Occurs

LEMMA AppendOnce ==
  ASSUME NEW T, NEW s \in Seq(T), NEW e \in T, NEW X,
         Once(s, X), e \in X => ~Occurs(s, X)
  PROVE Once(Append(s, e), X)
<1> DEFINE q == Append(s, e)
<1>1. Len(q) = Len(s) + 1 /\ Len(s) \in Nat /\ q[Len(s) + 1] = e
  OBVIOUS
<1>2. \A i \in 1..Len(s) : q[i] = s[i]
  OBVIOUS
<1>3. \A i \in 1..Len(q) : i \in 1..Len(s) \/ i = Len(s) + 1
  BY <1>1
<1> HIDE DEF q
<1> QED  BY <1>1, <1>2, <1>3 DEF Occurs, Once, q

LEMMA AppendPrecedes ==
  ASSUME NEW T, NEW s \in Seq(T), NEW e \in T, NEW X, NEW Y,
         Precedes(s, Y, X), e \notin Y
  PROVE Precedes(Append(s, e), Y, X)
<1> DEFINE q == Append(s, e)
<1>1. Len(q) = Len(s) + 1 /\ Len(s) \in Nat /\ q[Len(s) + 1] = e
  OBVIOUS
<1>2. \A i \in 1..Len(s) : q[i] = s[i]
  OBVIOUS
<1>3. \A i \in 1..Len(q) : i \in 1..Len(s) \/ i = Len(s) + 1
  BY <1>1
<1> HIDE DEF q
<1>4. SUFFICES ASSUME NEW i \in 1..Len(q), NEW j \in 1..Len(q), q[i] \in X, q[j] \in Y
               PROVE j < i
  BY DEF Precedes, q
<1>5. j \in 1..Len(s)
  BY <1>1, <1>3, <1>4
<1> QED  BY <1>1, <1>2, <1>3, <1>4, <1>5 DEF Precedes

LEMMA AppendLast ==
  ASSUME NEW T, NEW s \in Seq(T), NEW e \in T, NEW X, NEW Y
  PROVE /\ e \in X => (LastIn(Append(s, e), X, Y) <=> e \in Y)
        /\ e \notin X => (LastIn(Append(s, e), X, Y) <=> LastIn(s, X, Y))
<1> DEFINE q == Append(s, e)
<1>1. Len(q) = Len(s) + 1 /\ Len(s) \in Nat /\ q[Len(s) + 1] = e
  OBVIOUS
<1>2. \A i \in 1..Len(s) : q[i] = s[i]
  OBVIOUS
<1>3. \A i \in 1..Len(q) : i \in 1..Len(s) \/ i = Len(s) + 1
  BY <1>1
<1>a. 1..Len(s) \subseteq 1..Len(q) /\ Len(s) + 1 \in 1..Len(q)
  BY <1>1
<1> HIDE DEF q
<1>4. ASSUME e \in X PROVE LastIn(q, X, Y) <=> e \in Y
  <2>1. \A j \in 1..Len(q) : j <= Len(s) + 1
    BY <1>1
  <2>2. ASSUME NEW i \in 1..Len(q), \A j \in 1..Len(q) : q[j] \in X => j <= i PROVE i = Len(s) + 1
    BY <2>2, <1>1, <1>4, <1>a, <1>3
  <2> QED  BY <2>1, <2>2, <1>1, <1>4, <1>a DEF LastIn
<1>5. ASSUME e \notin X PROVE LastIn(q, X, Y) <=> LastIn(s, X, Y)
  <2>1. \A i \in 1..Len(q) : q[i] \in X => i \in 1..Len(s)
    BY <1>5, <1>1, <1>3
  <2> QED  BY <2>1, <1>2, <1>a DEF LastIn
<1> QED  BY <1>4, <1>5 DEF q

LEMMA TailIs ==
  ASSUME NEW T, NEW s \in Seq(T), s # <<>>
  PROVE /\ Head(s) \in T /\ Tail(s) \in Seq(T) /\ Head(s) = s[1]
        /\ Len(s) \in Nat \ {0} /\ Len(Tail(s)) = Len(s) - 1 /\ 1 \in 1..Len(s)
        /\ \A i \in 1..Len(Tail(s)) : Tail(s)[i] = s[i + 1] /\ i + 1 \in 1..Len(s)
        /\ \A i \in 1..Len(s) : i # 1 => i - 1 \in 1..Len(Tail(s)) /\ Tail(s)[i - 1] = s[i]
OBVIOUS

LEMMA TailOccurs ==
  ASSUME NEW T, NEW s \in Seq(T), s # <<>>, NEW X
  PROVE Occurs(s, X) <=> Head(s) \in X \/ Occurs(Tail(s), X)
BY TailIs DEF Occurs

LEMMA TailOnce ==
  ASSUME NEW T, NEW s \in Seq(T), s # <<>>, NEW X, Once(s, X)
  PROVE Once(Tail(s), X) /\ (Head(s) \in X => ~Occurs(Tail(s), X))
<1>1. Once(Tail(s), X)
  BY TailIs DEF Once
<1>2. ASSUME Head(s) \in X, NEW i \in 1..Len(Tail(s)), Tail(s)[i] \in X PROVE FALSE
  BY <1>2, TailIs DEF Once
<1> QED  BY <1>1, <1>2 DEF Occurs

LEMMA TailPrecedes ==
  ASSUME NEW T, NEW s \in Seq(T), s # <<>>, NEW X, NEW Y, Precedes(s, Y, X)
  PROVE Precedes(Tail(s), Y, X) /\ (Head(s) \in X => ~Occurs(Tail(s), Y))
<1>1. Precedes(Tail(s), Y, X)
  BY TailIs DEF Precedes
<1>2. ASSUME Head(s) \in X, NEW i \in 1..Len(Tail(s)), Tail(s)[i] \in Y PROVE FALSE
  BY <1>2, TailIs DEF Precedes
<1> QED  BY <1>1, <1>2 DEF Occurs

LEMMA TailLast ==
  ASSUME NEW T, NEW s \in Seq(T), s # <<>>, NEW X, NEW Y, LastIn(s, X, Y)
  PROVE /\ LastIn(Tail(s), X, Y)
        /\ Head(s) \in X /\ ~Occurs(Tail(s), X) => Head(s) \in Y
<1> DEFINE t == Tail(s)
<1>1. ASSUME NEW i \in 1..Len(t), t[i] \in X, \A j \in 1..Len(t) : t[j] \in X => j <= i
      PROVE t[i] \in Y
  <2>1. i + 1 \in 1..Len(s) /\ s[i + 1] = t[i]
    BY TailIs
  <2>2. ASSUME NEW j \in 1..Len(s), s[j] \in X PROVE j <= i + 1
    BY <1>1, <2>2, TailIs
  <2> QED  BY <1>1, <2>1, <2>2 DEF LastIn
<1>2. ASSUME Head(s) \in X, ~Occurs(t, X) PROVE Head(s) \in Y
  <2>1. ASSUME NEW j \in 1..Len(s), s[j] \in X PROVE j <= 1
    <3>1. j # 1 => j - 1 \in 1..Len(t) /\ t[j - 1] = s[j]
      BY TailIs
    <3>2. j = 1
      BY <1>2, <2>1, <3>1 DEF Occurs
    <3> QED  BY <3>2
  <2> QED  BY <1>2, <2>1, TailIs DEF LastIn
<1> QED  BY <1>1, <1>2 DEF LastIn

LEMMA ConcatIs ==
  ASSUME NEW T, NEW s \in Seq(T), NEW t \in Seq(T)
  PROVE /\ s \o t \in Seq(T) /\ Len(s) \in Nat /\ Len(t) \in Nat /\ Len(s \o t) = Len(s) + Len(t)
        /\ \A i \in 1..Len(s) : (s \o t)[i] = s[i] /\ i \in 1..Len(s \o t)
        /\ \A i \in 1..Len(t) : (s \o t)[Len(s) + i] = t[i] /\ Len(s) + i \in 1..Len(s \o t)
        /\ \A i \in 1..Len(s \o t) : i \notin 1..Len(s) => i - Len(s) \in 1..Len(t) /\ (s \o t)[i] = t[i - Len(s)]
OBVIOUS

LEMMA ConcatOccurs ==
  ASSUME NEW T, NEW s \in Seq(T), NEW t \in Seq(T), NEW X
  PROVE Occurs(s \o t, X) <=> Occurs(s, X) \/ Occurs(t, X)
<1> DEFINE q == s \o t
<1>1. /\ \A i \in 1..Len(s) : q[i] = s[i] /\ i \in 1..Len(q)
      /\ \A i \in 1..Len(t) : q[Len(s) + i] = t[i] /\ Len(s) + i \in 1..Len(q)
      /\ \A i \in 1..Len(q) : i \notin 1..Len(s) => i - Len(s) \in 1..Len(t) /\ q[i] = t[i - Len(s)]
  BY ConcatIs
<1> HIDE DEF q
<1>2. Occurs(s, X) \/ Occurs(t, X) => Occurs(q, X)
  BY <1>1 DEF Occurs
<1>3. Occurs(q, X) => Occurs(s, X) \/ Occurs(t, X)
  BY <1>1 DEF Occurs
<1> QED  BY <1>2, <1>3 DEF q

LEMMA ConcatLast ==
  ASSUME NEW T, NEW s \in Seq(T), NEW t \in Seq(T), NEW X, NEW Y
  PROVE /\ ~Occurs(t, X) => (LastIn(s \o t, X, Y) <=> LastIn(s, X, Y))
        /\ t # <<>> /\ t[Len(t)] \in X \cap Y => LastIn(s \o t, X, Y)
<1> DEFINE q == s \o t
<1>1. ASSUME ~Occurs(t, X) PROVE LastIn(q, X, Y) <=> LastIn(s, X, Y)
  <2>1. \A i \in 1..Len(q) : q[i] \in X => i \in 1..Len(s)
    BY <1>1, ConcatIs DEF Occurs
  <2> QED  BY <2>1, ConcatIs DEF LastIn
<1>2. ASSUME t # <<>>, t[Len(t)] \in X \cap Y PROVE LastIn(q, X, Y)
  <2>1. Len(t) \in 1..Len(t) /\ q[Len(q)] = t[Len(t)] /\ Len(q) \in 1..Len(q)
    BY <1>2, ConcatIs
  <2>2. ASSUME NEW i \in 1..Len(q), \A j \in 1..Len(q) : q[j] \in X => j <= i PROVE i = Len(q)
    BY <2>1, <2>2, <1>2
  <2> QED  BY <1>2, <2>1, <2>2 DEF LastIn
<1> QED  BY <1>1, <1>2

-----------------------------------------------------------------------------
(* Modes and messages.                                                     *)

LEMMA ModeNat ==
  ASSUME NEW s \in FPlaySettings
  PROVE PackToMode(s) \in Nat
<1>1. s.NumberOfClients \in Nat \ {0}
  BY DEF FPlaySettings
<1>2. Bit(s.bSpawnAtPlayerStart, 4) \in Nat /\ Bit(s.bNetDedicated, 8) \in Nat
  BY DEF Bit
<1>3. PlayModeToInt(s.PlayMode) \in 0..6
  BY DEF PlayModeToInt
<1> QED  BY <1>1, <1>2, <1>3 DEF PackToMode

LEMMA ModeSettings ==
  ASSUME NEW m \in Nat
  PROVE UnpackFromMode(m) \in FPlaySettings
<1>1. PlayModeFromInt((m \div 16) % 8) \in PlayModeTypes
  BY DEF PlayModeFromInt, PlayModeTypes
<1>2. (m % 4) + 1 \in Nat \ {0}
  OBVIOUS
<1> QED  BY <1>1, <1>2 DEF UnpackFromMode, FPlaySettings

LEMMA BitIs ==
  ASSUME NEW x \in {0, 1}, NEW b, b <=> x = 1, NEW n \in Nat
  PROVE Bit(b, n) = n * x
BY DEF Bit

LEMMA UnpackPack ==
  ASSUME NEW m \in 0..111
  PROVE PackToMode(UnpackFromMode(m)) = m
<1> DEFINE u == UnpackFromMode(m)
           k == (m \div 16) % 8
<1>1. k \in 0..6 /\ k = m \div 16
  OBVIOUS
<1>2. PlayModeToInt(PlayModeFromInt(k)) = k
  <2> HIDE DEF k
  <2>1. k = 0 \/ k = 1 \/ k = 2 \/ k = 3 \/ k = 4 \/ k = 5 \/ k = 6
    BY <1>1
  <2>2. PlayModeFromInt(0) = "InViewPort" /\ PlayModeToInt("InViewPort") = 0
    BY DEF PlayModeFromInt, PlayModeToInt
  <2>3. PlayModeFromInt(1) = "InMobilePreview" /\ PlayModeToInt("InMobilePreview") = 1
    BY DEF PlayModeFromInt, PlayModeToInt
  <2>4. PlayModeFromInt(2) = "InEditorFloating" /\ PlayModeToInt("InEditorFloating") = 2
    BY DEF PlayModeFromInt, PlayModeToInt
  <2>5. PlayModeFromInt(3) = "InVR" /\ PlayModeToInt("InVR") = 3
    BY DEF PlayModeFromInt, PlayModeToInt
  <2>6. PlayModeFromInt(4) = "InNewProcess" /\ PlayModeToInt("InNewProcess") = 4
    BY DEF PlayModeFromInt, PlayModeToInt
  <2>7. PlayModeFromInt(5) = "Simulate" /\ PlayModeToInt("Simulate") = 5
    BY DEF PlayModeFromInt, PlayModeToInt
  <2>8. PlayModeFromInt(6) = "InVulkanPreview" /\ PlayModeToInt("InVulkanPreview") = 6
    BY DEF PlayModeFromInt, PlayModeToInt
  <2> QED  BY <2>1, <2>2, <2>3, <2>4, <2>5, <2>6, <2>7, <2>8
<1>3. Bit(u.bSpawnAtPlayerStart, 4) = 4 * ((m \div 4) % 2)
  <2>1. (m \div 4) % 2 \in {0, 1}
    OBVIOUS
  <2>2. u.bSpawnAtPlayerStart = ((m \div 4) % 2 = 1)
    BY DEF UnpackFromMode
  <2> HIDE DEF u
  <2> QED  BY <2>1, <2>2, BitIs
<1>4. Bit(u.bNetDedicated, 8) = 8 * ((m \div 8) % 2)
  <2>1. (m \div 8) % 2 \in {0, 1}
    OBVIOUS
  <2>2. u.bNetDedicated = ((m \div 8) % 2 = 1)
    BY DEF UnpackFromMode
  <2> HIDE DEF u
  <2> QED  BY <2>1, <2>2, BitIs
<1>5. u.NumberOfClients - 1 = m % 4
  BY DEF UnpackFromMode
<1>6. PlayModeToInt(u.PlayMode) * 16 = (m \div 16) * 16
  BY <1>1, <1>2 DEF UnpackFromMode
<1>7. (m % 4) + 4 * ((m \div 4) % 2) + 8 * ((m \div 8) % 2) + (m \div 16) * 16 = m
  OBVIOUS
<1> HIDE DEF u
<1>8. PackToMode(u) = (m % 4) + 4 * ((m \div 4) % 2) + 8 * ((m \div 8) % 2) + (m \div 16) * 16
  BY <1>3, <1>4, <1>5, <1>6 DEF PackToMode
<1> QED  BY <1>7, <1>8 DEF u

LEMMA PackUnpack ==
  ASSUME NEW s \in FPlaySettings, Expressible(s)
  PROVE UnpackFromMode(PackToMode(s)) = s
<1> DEFINE n == s.NumberOfClients - 1
           p == s.bSpawnAtPlayerStart
           d == s.bNetDedicated
           k == PlayModeToInt(s.PlayMode)
           b == IF p THEN 1 ELSE 0
           e == IF d THEN 1 ELSE 0
           m == PackToMode(s)
<1>1. n \in 0..3 /\ s.NumberOfClients = n + 1
  BY DEF Expressible
<1>2. k \in 0..6
  BY DEF PlayModeToInt
<1>3. b \in {0, 1} /\ e \in {0, 1}
  OBVIOUS
<1>4. m = n + 4 * b + 8 * e + 16 * k
  BY <1>1, <1>2 DEF PackToMode, Bit
<1>p. s.PlayMode \in PlayModeTypes \ {"InTargetedMobilePreview", "QuickLaunch"} /\ p \in BOOLEAN /\ d \in BOOLEAN
  BY DEF Expressible, FPlaySettings
<1>5. PlayModeFromInt(k) = s.PlayMode
  BY <1>p DEF PlayModeFromInt, PlayModeToInt, PlayModeTypes
<1>6. (b = 1 <=> p) /\ (e = 1 <=> d)
  OBVIOUS
<1>r. s = [PlayMode |-> s.PlayMode, NumberOfClients |-> s.NumberOfClients, bNetDedicated |-> d, bSpawnAtPlayerStart |-> p]
  BY DEF FPlaySettings
<1> HIDE DEF n, b, e, k, m
<1>7. m % 4 = n /\ (m \div 4) % 2 = b /\ (m \div 8) % 2 = e /\ (m \div 16) % 8 = k
  BY <1>1, <1>2, <1>3, <1>4
<1>8. UnpackFromMode(m) = [PlayMode |-> s.PlayMode, NumberOfClients |-> s.NumberOfClients,
                           bNetDedicated |-> (e = 1), bSpawnAtPlayerStart |-> (b = 1)]
  BY <1>1, <1>5, <1>7 DEF UnpackFromMode
<1>9. (e = 1) = d /\ (b = 1) = p
  BY <1>6, <1>p
<1> QED  BY <1>8, <1>9, <1>r DEF m

LEMMA MsgTypes ==
  /\ \A m \in Nat : ModeMsg(m) \in ModeMsgs
  /\ \A s \in Sessions : StateMsg(s) \in StateMsgs
  /\ ModeMsgs \subseteq IdeMsgs /\ StateMsgs \subseteq IdeMsgs /\ Replies \subseteq IdeMsgs /\ Initialized \in IdeMsgs
  /\ Replies \cap ModeMsgs = {} /\ Replies \cap StateMsgs = {} /\ ModeMsgs \cap StateMsgs = {}
  /\ Initialized \notin ModeMsgs \cup StateMsgs \cup Replies
  /\ Requests \cap ModeMsgs = {}
<1>1. /\ \A m \in Nat : ModeMsg(m) \in ModeMsgs
      /\ \A s \in Sessions : StateMsg(s) \in StateMsgs
  BY DEF ModeMsg, StateMsg, ModeMsgs, StateMsgs
<1>2. ModeMsgs \subseteq IdeMsgs /\ StateMsgs \subseteq IdeMsgs /\ Replies \subseteq IdeMsgs /\ Initialized \in IdeMsgs
  BY DEF IdeMsgs
<1>3. \A m \in ModeMsgs : m.kind = "mode"
  BY DEF ModeMsgs
<1>4. \A m \in StateMsgs : m.kind = "state"
  BY DEF StateMsgs
<1>5. \A m \in Replies : m.kind = "reply"
  BY DEF Replies, Reply
<1>6. \A m \in Requests : m.kind = "request"
  BY DEF Requests, Request
<1>7. Initialized.kind = "initialized"
  BY DEF Initialized
<1> QED  BY <1>1, <1>2, <1>3, <1>4, <1>5, <1>6, <1>7

LEMMA ActionMsgs ==
  ASSUME NEW C, NEW a \in ActionsOf(C)
  PROVE /\ a.msgs \in Seq(IdeMsgs) /\ a.msgs # <<>> /\ a.does = "action" /\ a.control \in C
        /\ a \in ModeActions(C) => a.msgs \in Seq(ModeMsgs)
        /\ a \in StateActions(C) => a.msgs \in Seq(StateMsgs)
<1>1. CASE a \in ModeActions(C)
  <2>1. a.msgs \in Seq(ModeMsgs) /\ a.msgs # <<>> /\ a.does = "action" /\ a.control \in C
    BY <1>1 DEF ModeActions
  <2>2. a.msgs \in Seq(IdeMsgs)
    BY <2>1, MsgTypes
  <2>3. a.msgs[1] \in ModeMsgs
    BY <2>1
  <2>4. a \notin StateActions(C)
    BY <2>3, MsgTypes DEF StateActions
  <2> QED  BY <2>1, <2>2, <2>4
<1>2. CASE a \in StateActions(C)
  <2>1. a.msgs \in Seq(StateMsgs) /\ a.msgs # <<>> /\ a.does = "action" /\ a.control \in C
    BY <1>2 DEF StateActions
  <2>2. a.msgs \in Seq(IdeMsgs)
    BY <2>1, MsgTypes
  <2>3. a.msgs[1] \in StateMsgs
    BY <2>1
  <2>4. a \notin ModeActions(C)
    BY <2>3, MsgTypes DEF ModeActions
  <2> QED  BY <2>1, <2>2, <2>4
<1>3. CASE a \in ReplyActions(C)
  <2>1. PICK m \in Replies : a.msgs = <<m>>
    BY <1>3 DEF ReplyActions
  <2>2. a.does = "action" /\ a.control \in C
    BY <1>3 DEF ReplyActions
  <2>3. a.msgs \in Seq(IdeMsgs) /\ a.msgs # <<>> /\ a.msgs[1] \in Replies
    BY <2>1, MsgTypes
  <2>4. a \notin ModeActions(C) /\ a \notin StateActions(C)
    BY <2>3, MsgTypes DEF ModeActions, StateActions
  <2> QED  BY <2>2, <2>3, <2>4
<1> QED  BY <1>1, <1>2, <1>3 DEF ActionsOf

-----------------------------------------------------------------------------
(* Types.                                                                  *)

LEMMA NewActions ==
  ASSUME NEW C, NEW c \in C
  PROVE /\ \A m \in Nat : Action(c, <<ModeMsg(m)>>) \in ModeActions(C)
        /\ \A s \in Sessions : Action(c, <<StateMsg(s)>>) \in StateActions(C)
        /\ \A s, u \in Sessions : Action(c, <<StateMsg(s), StateMsg(u)>>) \in StateActions(C)
        /\ \A r \in 1..MaxRequests : Action(c, <<Reply(r)>>) \in ReplyActions(C)
<1>1. ASSUME NEW m \in Nat PROVE Action(c, <<ModeMsg(m)>>) \in ModeActions(C)
  <2>1. ModeMsg(m) \in ModeMsgs
    BY MsgTypes
  <2> QED  BY <2>1 DEF Action, ModeActions
<1>2. ASSUME NEW s \in Sessions PROVE Action(c, <<StateMsg(s)>>) \in StateActions(C)
  <2>1. StateMsg(s) \in StateMsgs
    BY MsgTypes
  <2> QED  BY <2>1 DEF Action, StateActions
<1>3. ASSUME NEW s \in Sessions, NEW u \in Sessions
      PROVE Action(c, <<StateMsg(s), StateMsg(u)>>) \in StateActions(C)
  <2>1. StateMsg(s) \in StateMsgs /\ StateMsg(u) \in StateMsgs
    BY MsgTypes
  <2>2. <<StateMsg(s), StateMsg(u)>> \in Seq(StateMsgs) \ {<<>>}
    BY <2>1
  <2> QED  BY <2>2 DEF Action, StateActions
<1>4. ASSUME NEW r \in 1..MaxRequests PROVE Action(c, <<Reply(r)>>) \in ReplyActions(C)
  BY DEF Action, ReplyActions, Replies
<1> QED  BY <1>1, <1>2, <1>3, <1>4

LEMMA SeqGrows ==
  ASSUME NEW A, NEW B, A \subseteq B, NEW s \in Seq(A)
  PROVE s \in Seq(B)
OBVIOUS

LEMMA QueuedGrows ==
  ASSUME NEW n \in Nat
  PROVE Queued(n) \subseteq Queued(n + 1)
<1>1. 0..n \subseteq 0..(n + 1) /\ 1..n \subseteq 1..(n + 1)
  OBVIOUS
<1>2. ModeActions(0..n) \subseteq ModeActions(0..(n + 1))
  BY <1>1 DEF ModeActions
<1>3. StateActions(0..n) \subseteq StateActions(0..(n + 1))
  BY <1>1 DEF StateActions
<1>4. ReplyActions(0..n) \subseteq ReplyActions(0..(n + 1))
  BY <1>1 DEF ReplyActions
<1>5. Lives(1..n) \subseteq Lives(1..(n + 1))
  BY <1>1 DEF Lives
<1> QED  BY <1>2, <1>3, <1>4, <1>5 DEF Queued, ActionsOf

LEMMA ScheduleTypes ==
  ASSUME TypeOK, connection' = connection, NEW t \in Threads, NEW c, NEW msgs,
         msgs \in Seq(IdeMsgs), t = "game" => Action(c, msgs) \in ActionsOf(0..connection),
         ScheduleModelAction(t, c, msgs)
  PROVE queue' \in Seq(Queued(connection')) /\ toIde' \in Seq(IdeMsgs)
<1>1. queue \in Seq(Queued(connection)) /\ toIde \in Seq(IdeMsgs)
  BY DEF TypeOK
<1>2. CASE t = "scheduler"
  <2>1. toIde \o msgs \in Seq(IdeMsgs)
    BY <1>1
  <2>2. queue' = queue /\ (toIde' = toIde \/ toIde' = toIde \o msgs)
    BY <1>2 DEF ScheduleModelAction
  <2> QED  BY <1>1, <2>1, <2>2
<1>3. CASE t = "game"
  <2>1. Action(c, msgs) \in Queued(connection)
    BY <1>3 DEF Queued
  <2> QED  BY <1>1, <1>3, <2>1 DEF ScheduleModelAction
<1> QED  BY <1>2, <1>3 DEF Threads

LEMMA InitTypes == Init => TypeOK
<1> SUFFICES ASSUME Init PROVE TypeOK
  OBVIOUS
<1>1. settings \in FPlaySettings /\ session \in Sessions
  BY GameControlAssumption DEF Init, Sessions
<1>2. seen \in [Threads -> FPlaySettings]
  BY <1>1 DEF Init
<1>3. ide \in [mode : Nat, state : Sessions, initialized : BOOLEAN, replies : [1..MaxRequests -> Nat]]
  BY DEF Init, NewIde, Sessions
<1>4. at \in [Threads -> {"idle", "read", "compare", "send", "subscribe", "retrieve", "sync"}] /\ at["game"] = "idle"
  BY DEF Init, Threads
<1>5. /\ queue \in Seq(Queued(connection)) /\ toIde \in Seq(IdeMsgs) /\ toEditor \in Seq(EditorMsgs)
      /\ commands \in Seq(Commands(connection))
  BY DEF Init
<1>6. connection \in 0..MaxConnections /\ control \in 0..connection /\ asked \in 0..MaxRequests /\ changes \in 0..MaxChanges
  BY GameControlAssumption DEF Init
<1>7. playMode \in Int
  BY DEF Init
<1> QED  BY <1>1, <1>2, <1>3, <1>4, <1>5, <1>6, <1>7 DEF Init, TypeOK

LEMMA TypeStep == TypeOK /\ [Next]_vars => TypeOK'
<1> SUFFICES ASSUME TypeOK, [Next]_vars PROVE TypeOK'
  OBVIOUS
<1> USE DEF editorVars, linkVars, controlVars, threadVars, counters, historyVars
<1>t. "game" \in Threads /\ "scheduler" \in Threads /\ "game" # "scheduler"
  BY DEF Threads
<1>q. ASSUME queue # <<>> PROVE Head(queue) \in Queued(connection) /\ Tail(queue) \in Seq(Queued(connection))
  BY <1>q DEF TypeOK
<1>y. /\ queue \in Seq(Queued(connection)) /\ toIde \in Seq(IdeMsgs) /\ toEditor \in Seq(EditorMsgs)
      /\ commands \in Seq(Commands(connection))
      /\ ide \in [mode : Nat, state : Sessions, initialized : BOOLEAN, replies : [1..MaxRequests -> Nat]]
      /\ control \in 0..connection /\ connection \in Nat
  BY GameControlAssumption DEF TypeOK
<1>p. ASSUME NEW t \in Threads PROVE PackToMode(seen[t]) \in Nat
  BY ModeNat DEF TypeOK
<1>1. CASE Connect
  <2>1. ide' \in [mode : Nat, state : Sessions, initialized : BOOLEAN, replies : [1..MaxRequests -> Nat]]
    BY <1>1 DEF Connect, NewIde, Sessions
  <2>2. connection' \in 0..MaxConnections /\ connection' = connection + 1 /\ connection \in Nat
    BY <1>1, GameControlAssumption DEF Connect, TypeOK
  <2>3. queue \in Seq(Queued(connection'))
    BY <2>2, QueuedGrows DEF TypeOK
  <2>4. Alive(connection') \in Queued(connection')
    BY <2>2 DEF Queued, Lives
  <2>5. queue' \in Seq(Queued(connection'))
    BY <1>1, <2>2, <2>3, <2>4 DEF Connect
  <2>6. control' \in 0..connection' /\ 0..connection \subseteq 0..connection'
    BY <1>1, <2>2 DEF Connect, TypeOK
  <2>7. commands' \in Seq(Commands(connection'))
    <3>1. Commands(connection) \subseteq Commands(connection')
      BY <2>6 DEF Commands
    <3> QED  BY <1>1, <1>y, <3>1, SeqGrows DEF Connect
  <2> QED  BY <1>1, <2>1, <2>2, <2>5, <2>6, <2>7 DEF Connect, TypeOK
<1>2. CASE Disconnect
  <2>1. Dead \in Queued(connection)
    BY DEF Queued
  <2>2. queue' \in Seq(Queued(connection'))
    BY <1>2, <1>y, <2>1 DEF Disconnect
  <2>3. toIde' \in Seq(IdeMsgs) /\ toEditor' \in Seq(EditorMsgs)
    BY <1>2 DEF Disconnect
  <2> QED  BY <1>2, <2>2, <2>3 DEF Disconnect, TypeOK
<1>3. CASE Construct
  <2>1. queue' \in Seq(Queued(connection')) /\ connection' = connection
    BY <1>3, <1>q DEF Construct, Take
  <2>2. playMode' \in Int
    BY <1>3, GameControlAssumption DEF Construct, TypeOK
  <2>3. control' \in 0..connection' /\ registered' \in BOOLEAN /\ subscribed' \in BOOLEAN
    <3>1. connection \in 0..connection /\ up \in BOOLEAN /\ registered \in BOOLEAN /\ subscribed \in BOOLEAN
      BY <1>y DEF TypeOK
    <3> QED  BY <1>3, <1>y, <3>1 DEF Construct
  <2>4. /\ at' \in [Threads -> {"idle", "read", "compare", "send", "subscribe", "retrieve", "sync"}]
        /\ at'["game"] \in {"idle", "read", "compare", "send"}
    BY <1>3, <1>t DEF Construct, TypeOK
  <2>5. met' \in BOOLEAN
    BY <1>3 DEF Construct, TypeOK
  <2> QED  BY <1>3, <2>1, <2>2, <2>3, <2>4, <2>5 DEF Construct, TypeOK
<1>4. CASE Subscribe
  BY <1>4, <1>t DEF Subscribe, TypeOK
<1>5. CASE Retrieve
  BY <1>5, <1>t DEF Retrieve, TypeOK
<1>6. CASE Sync
  <2>1. playMode' \in Nat
    BY <1>6, <1>p, <1>t DEF Sync
  <2>2. <<ModeMsg(playMode'), Initialized>> \in Seq(IdeMsgs)
    BY <2>1, MsgTypes
  <2>3. queue' \in Seq(Queued(connection')) /\ toIde' \in Seq(IdeMsgs)
    BY <1>6, <1>t, <2>2, ScheduleTypes DEF Sync
  <2> QED  BY <1>6, <1>t, <2>1, <2>3 DEF Sync, TypeOK
<1>7. CASE Reset
  <2>1. queue' \in Seq(Queued(connection')) /\ connection' = connection
    BY <1>7, <1>q DEF Reset, Take
  <2>2. control' \in 0..connection'
    BY <1>7, <1>y, <2>1 DEF Reset
  <2> QED  BY <1>7, <2>1, <2>2 DEF Reset, TypeOK
<1>8. CASE RunAction
  <2>1. queue' \in Seq(Queued(connection')) /\ connection' = connection /\ Head(queue) \in Queued(connection)
    BY <1>8, <1>q DEF RunAction, Take
  <2>2. Head(queue).does = "action"
    BY <1>8 DEF RunAction, Take
  <2>3. Head(queue) \in ActionsOf(0..connection)
    BY <2>1, <2>2 DEF Queued, Lives, Alive, Dead
  <2>4. Head(queue).msgs \in Seq(IdeMsgs)
    BY <2>3, ActionMsgs
  <2>5. toIde' = toIde \/ toIde' = toIde \o Head(queue).msgs
    BY <1>8 DEF RunAction
  <2>6. toIde' \in Seq(IdeMsgs)
    <3>1. toIde \o Head(queue).msgs \in Seq(IdeMsgs)
      BY <1>y, <2>4, ConcatIs
    <3> QED  BY <1>y, <2>5, <3>1
  <2>7. met' \in BOOLEAN
    BY <1>8 DEF RunAction, TypeOK
  <2> QED  BY <1>8, <2>1, <2>6, <2>7 DEF RunAction, TypeOK
<1>9. CASE Receive
  <2>1. Head(toEditor) \in EditorMsgs /\ toEditor' \in Seq(EditorMsgs)
    BY <1>9 DEF Receive, TypeOK
  <2>2. CASE ~subscribed
    BY <1>9, <2>1, <2>2 DEF Receive, TypeOK
  <2>3. CASE subscribed /\ Head(toEditor).kind = "mode"
    <3>1. PICK m \in Modes : Head(toEditor) = ModeMsg(m)
      BY <2>1, <2>3 DEF EditorMsgs, Requests, Request
    <3>2. OnMode(m)
      BY <1>9, <2>3, <3>1 DEF Receive, ModeMsg
    <3>3. settings' \in FPlaySettings
      BY <3>2, ModeSettings, GameControlAssumption DEF OnMode
    <3>4. met' \in BOOLEAN
      BY <3>2 DEF OnMode, TypeOK
    <3> QED  BY <1>9, <1>t, <2>1, <3>2, <3>3, <3>4 DEF Receive, OnMode, TypeOK
  <2>4. CASE subscribed /\ Head(toEditor).kind # "mode"
    <3>1. PICK r \in 1..MaxRequests : Head(toEditor) = Request(r)
      BY <2>1, <2>4 DEF EditorMsgs, Requests, ModeMsg
    <3>2. OnRequest(r)
      BY <1>9, <2>4, <3>1 DEF Receive, Request
    <3>3. Reply(r) \in IdeMsgs
      BY DEF Replies, IdeMsgs
    <3>4. toIde' \in Seq(IdeMsgs)
      <4>1. Append(toIde, Reply(r)) \in Seq(IdeMsgs)
        BY <1>y, <3>3
      <4> QED  BY <1>y, <3>2, <4>1 DEF OnRequest
    <3>5. [request |-> r, control |-> control] \in Commands(connection)
      BY <1>y DEF Commands
    <3>6. commands' \in Seq(Commands(connection))
      <4>1. Append(commands, [request |-> r, control |-> control]) \in Seq(Commands(connection))
        BY <1>y, <3>5
      <4> QED  BY <1>y, <3>2, <4>1 DEF OnRequest
    <3> QED  BY <1>9, <2>1, <3>2, <3>4, <3>6 DEF Receive, OnRequest, TypeOK
  <2> QED  BY <2>2, <2>3, <2>4
<1>10. ASSUME NEW t \in Threads, ReadSettings(t) PROVE TypeOK'
  BY <1>10, <1>t DEF ReadSettings, TypeOK
<1>11. ASSUME NEW t \in Threads, Compare(t) PROVE TypeOK'
  <2>1. playMode' \in Int
    BY <1>11, <1>p DEF Compare, TypeOK
  <2> QED  BY <1>11, <1>t, <2>1 DEF Compare, TypeOK
<1>12. ASSUME NEW t \in Threads, SendMode(t) PROVE TypeOK'
  <2>1. <<ModeMsg(PackToMode(seen[t]))>> \in Seq(IdeMsgs)
    BY <1>p, MsgTypes
  <2>2. Action(control, <<ModeMsg(PackToMode(seen[t]))>>) \in ActionsOf(0..connection)
    BY <1>p, NewActions DEF TypeOK, ActionsOf
  <2>3. queue' \in Seq(Queued(connection')) /\ toIde' \in Seq(IdeMsgs)
    BY <1>12, <2>1, <2>2, ScheduleTypes DEF SendMode
  <2> QED  BY <1>12, <1>t, <2>3 DEF SendMode, TypeOK
<1>13. ASSUME NEW s \in Settings, Change(s) PROVE TypeOK'
  <2>1. settings' \in FPlaySettings /\ changes' \in 0..MaxChanges
    BY <1>13, GameControlAssumption DEF Change, TypeOK
  <2>2. met' \in BOOLEAN
    BY <1>13 DEF Change, TypeOK
  <2> QED  BY <1>13, <1>t, <2>1, <2>2 DEF Change, TypeOK
<1>14. ASSUME NEW from, NEW to \in Sessions, NEW msgs, Event(from, to, msgs), msgs \in Seq(IdeMsgs),
              Action(control, msgs) \in StateActions(0..connection)
       PROVE TypeOK'
  <2>1. changes' \in 0..MaxChanges /\ connection' = connection
    BY <1>14, GameControlAssumption DEF Event, TypeOK
  <2>2. CASE registered
    <3>1. queue' \in Seq(Queued(connection')) /\ toIde' \in Seq(IdeMsgs)
      BY <1>14, <1>t, <2>1, <2>2, ScheduleTypes DEF Event, ActionsOf
    <3> QED  BY <1>14, <2>1, <2>2, <3>1 DEF Event, TypeOK
  <2>3. CASE ~registered
    BY <1>14, <2>1, <2>3 DEF Event, TypeOK
  <2> QED  BY <2>2, <2>3
<1>s. /\ \A s \in Sessions : /\ <<StateMsg(s)>> \in Seq(IdeMsgs)
                             /\ Action(control, <<StateMsg(s)>>) \in StateActions(0..connection)
      /\ <<StateMsg("Play"), StateMsg("Pause")>> \in Seq(IdeMsgs)
      /\ Action(control, <<StateMsg("Play"), StateMsg("Pause")>>) \in StateActions(0..connection)
      /\ "Idle" \in Sessions /\ "Play" \in Sessions /\ "Pause" \in Sessions
  <2>1. "Idle" \in Sessions /\ "Play" \in Sessions /\ "Pause" \in Sessions
    BY DEF Sessions
  <2>2. ASSUME NEW s \in Sessions
        PROVE <<StateMsg(s)>> \in Seq(IdeMsgs) /\ Action(control, <<StateMsg(s)>>) \in StateActions(0..connection)
    <3>1. StateMsg(s) \in IdeMsgs
      BY MsgTypes
    <3>2. Action(control, <<StateMsg(s)>>) \in StateActions(0..connection)
      BY <1>y, NewActions
    <3> QED  BY <3>1, <3>2
  <2>3. Action(control, <<StateMsg("Play"), StateMsg("Pause")>>) \in StateActions(0..connection)
    BY <1>y, <2>1, NewActions
  <2>4. <<StateMsg("Play"), StateMsg("Pause")>> \in Seq(IdeMsgs)
    BY <2>1, MsgTypes
  <2> QED  BY <2>1, <2>2, <2>3, <2>4
<1>15. CASE BeginPIE
  BY <1>15, <1>14, <1>s DEF BeginPIE
<1>16. CASE EndPIE
  BY <1>16, <1>14, <1>s DEF EndPIE
<1>17. CASE PausePIE
  BY <1>17, <1>14, <1>s DEF PausePIE
<1>18. CASE ResumePIE
  BY <1>18, <1>14, <1>s DEF ResumePIE
<1>19. CASE SingleStepPIE
  BY <1>19, <1>14, <1>s DEF SingleStepPIE
<1>20. CASE Execute
  <2>1. Head(commands) \in Commands(connection)
    <3>1. commands # <<>>
      BY <1>20 DEF Execute
    <3> QED  BY <1>y, <3>1, TailIs
  <2>2. Action(Head(commands).control, <<Reply(Head(commands).request)>>) \in ActionsOf(0..connection)
    BY <2>1, NewActions DEF ActionsOf, Commands
  <2>3. <<Reply(Head(commands).request)>> \in Seq(IdeMsgs)
    BY <2>1 DEF Replies, IdeMsgs, Commands
  <2>4. queue' \in Seq(Queued(connection')) /\ toIde' \in Seq(IdeMsgs)
    BY <1>20, <1>t, <2>2, <2>3, ScheduleTypes DEF Execute
  <2>5. commands' \in Seq(Commands(connection))
    BY <1>20, <1>y DEF Execute
  <2> QED  BY <1>20, <2>4, <2>5 DEF Execute, TypeOK
<1>21. CASE IdeReceive
  <2> DEFINE m == Head(toIde)
             New == [mode : Nat, state : Sessions, initialized : BOOLEAN, replies : [1..MaxRequests -> Nat]]
  <2>1. m \in IdeMsgs /\ toIde' \in Seq(IdeMsgs)
    BY <1>21 DEF IdeReceive, TypeOK
  <2>6. ide' \in New => TypeOK'
    BY <1>21, <2>1 DEF IdeReceive, TypeOK
  <2>2. CASE m \in ModeMsgs
    <3>1. m.kind = "mode" /\ m.value \in Nat
      BY <2>2 DEF ModeMsgs
    <3>2. ide' = [ide EXCEPT !.mode = m.value]
      BY <1>21, <3>1 DEF IdeReceive
    <3>3. ide' \in New
      BY <1>y, <3>1, <3>2
    <3> QED  BY <2>6, <3>3
  <2>3. CASE m \in StateMsgs
    <3>1. m.kind = "state" /\ m.value \in Sessions
      BY <2>3 DEF StateMsgs
    <3>2. ide' = [ide EXCEPT !.state = m.value]
      BY <1>21, <3>1 DEF IdeReceive
    <3>3. ide' \in New
      BY <1>y, <3>1, <3>2
    <3> QED  BY <2>6, <3>3
  <2>4. CASE m = Initialized
    <3>1. m.kind = "initialized"
      BY <2>4 DEF Initialized
    <3>2. ide' = [ide EXCEPT !.initialized = TRUE]
      BY <1>21, <3>1 DEF IdeReceive
    <3>3. ide' \in New
      BY <1>y, <3>2
    <3> QED  BY <2>6, <3>3
  <2>5. CASE m \in Replies
    <3>1. PICK r \in 1..MaxRequests : m = Reply(r)
      BY <2>5 DEF Replies
    <3>2. ide' = [ide EXCEPT !.replies[r] = @ + 1]
      BY <1>21, <3>1 DEF IdeReceive, Reply
    <3>3. ide'.replies = [ide.replies EXCEPT ![r] = @ + 1]
      BY <3>2 DEF TypeOK
    <3>4. ide.replies \in [1..MaxRequests -> Nat] /\ ide.replies[r] + 1 \in Nat
      <4>1. ide.replies \in [1..MaxRequests -> Nat]
        BY <1>y
      <4> QED  BY <3>1, <4>1, GameControlAssumption
    <3>6. ide'.replies \in [1..MaxRequests -> Nat]
      BY <3>3, <3>4
    <3>5. ide' \in New
      BY <1>y, <3>2, <3>6
    <3> QED  BY <1>21, <2>1, <3>5 DEF IdeReceive, TypeOK
  <2> QED  BY <2>1, <2>2, <2>3, <2>4, <2>5, <2>6 DEF IdeMsgs
<1>22. ASSUME NEW m \in Modes, IdeChange(m) PROVE TypeOK'
  <2>1. m \in Nat /\ ModeMsg(m) \in EditorMsgs
    BY GameControlAssumption DEF EditorMsgs
  <2>2. toEditor' \in Seq(EditorMsgs) /\ changes' \in 0..MaxChanges
    <3>1. toEditor \in Seq(EditorMsgs) /\ changes \in 0..MaxChanges /\ MaxChanges \in Nat
      BY GameControlAssumption DEF TypeOK
    <3>2. toEditor' = Append(toEditor, ModeMsg(m)) /\ changes' = changes + 1 /\ changes < MaxChanges
      BY <1>22 DEF IdeChange
    <3> QED  BY <2>1, <3>1, <3>2
  <2>3. ide' \in [mode : Nat, state : Sessions, initialized : BOOLEAN, replies : [1..MaxRequests -> Nat]]
    BY <1>22, <2>1 DEF IdeChange, TypeOK
  <2> QED  BY <1>22, <2>2, <2>3 DEF IdeChange, TypeOK
<1>23. CASE IdeRequest
  <2>1. asked' \in 0..MaxRequests /\ asked + 1 \in 1..MaxRequests
    BY <1>23, GameControlAssumption DEF IdeRequest, TypeOK
  <2>2. toEditor' \in Seq(EditorMsgs)
    <3>1. Request(asked + 1) \in EditorMsgs
      BY <2>1 DEF EditorMsgs, Requests
    <3> QED  BY <1>23, <1>y, <3>1 DEF IdeRequest
  <2> QED  BY <1>23, <2>1, <2>2 DEF IdeRequest, TypeOK
<1>24. CASE UNCHANGED vars
  BY <1>24 DEF vars, TypeOK
<1> QED
  BY <1>1, <1>2, <1>3, <1>4, <1>5, <1>6, <1>7, <1>8, <1>9, <1>10, <1>11, <1>12, <1>13, <1>15, <1>16,
     <1>17, <1>18, <1>19, <1>20, <1>21, <1>22, <1>23, <1>24, <1>t
  DEF Next, SchedulerThread, GameThread, User

-----------------------------------------------------------------------------
(* Connections and controls.                                               *)

\* The standing connection has its control.
Working == up /\ control = connection
Setup == {"subscribe", "retrieve", "sync"}
CommandsOf(c) == [request : 1..MaxRequests, control : {c}]

\* A connection's model comes alive once, and after the ends of those before it.
AliveOnce == Once(queue, Lives({connection}))
DeadFirst == up => connection > 0 /\ Precedes(queue, {Dead}, Lives({connection}))
\* The control of a standing connection has its delegates, and no end ahead.
AtWork == Working => registered /\ ~Occurs(queue, {Dead}) /\ ~Occurs(queue, Lives({connection}))
\* Before that its model is to come alive, and nothing is about it.
ToCome ==
  up /\ control # connection =>
    /\ Occurs(queue, Lives({connection}))
    /\ ~Occurs(queue, ActionsOf({connection}))
    /\ ~Occurs(commands, CommandsOf(connection))
\* Nothing is sent either way until the first state has been.
NoneYet ==
  /\ ~Working \/ at["scheduler"] \in Setup =>
       toIde = <<>> /\ toEditor = <<>> /\ (up => ~ide.initialized)
  /\ Working /\ at["scheduler"] # "subscribe" => subscribed
Links == AliveOnce /\ DeadFirst /\ AtWork /\ ToCome /\ NoneYet

LEMMA ActionsAre ==
  /\ \A C, D : \A a \in ActionsOf(C) : a \notin Lives(D) /\ a # Dead /\ a.control \in C /\ a.does = "action"
  /\ \A C : Dead \notin Lives(C) /\ Dead \notin ActionsOf(C)
  /\ \A C, D : \A a \in Lives(C) : a \notin ActionsOf(D) /\ a.does = "alive"
  /\ \A c : Alive(c) \in Lives({c})
  /\ \A c, d : Alive(c) \in Lives({d}) => c = d
<1>1. \A C, D : \A a \in ActionsOf(C) : a.does = "action" /\ a.control \in C
  BY DEF ActionsOf, ModeActions, StateActions, ReplyActions
<1>2. \A C : \A a \in Lives(C) : a.does = "alive"
  BY DEF Lives, Alive
<1>3. Dead.does = "dead"
  BY DEF Dead
<1>4. \A c : Alive(c) \in Lives({c})
  BY DEF Lives
<1>5. \A c : Alive(c).control = c
  BY DEF Alive
<1>6. \A c, d : Alive(c) \in Lives({d}) => c = d
  BY <1>5 DEF Lives
<1> QED  BY <1>1, <1>2, <1>3, <1>4, <1>6

LEMMA NoneOfNext ==
  ASSUME NEW n \in Nat, NEW s \in Seq(Queued(n)), NEW k \in Seq(Commands(n))
  PROVE /\ ~Occurs(s, Lives({n + 1})) /\ ~Occurs(s, ActionsOf({n + 1}))
        /\ ~Occurs(k, CommandsOf(n + 1))
<1>1. \A a \in Queued(n) : a \notin Lives({n + 1})
  <2>1. \A a \in Lives(1..n) : a.control \in 1..n
    BY DEF Lives, Alive
  <2>2. \A a \in Lives({n + 1}) : a.control = n + 1
    BY DEF Lives, Alive
  <2>3. n + 1 \notin 1..n
    OBVIOUS
  <2>4. \A a \in ActionsOf(0..n) : a \notin Lives({n + 1})
    BY ActionsAre
  <2>5. Dead \notin Lives({n + 1})
    BY ActionsAre
  <2> QED  BY <2>1, <2>2, <2>3, <2>4, <2>5 DEF Queued
<1>2. \A a \in Queued(n) : a \notin ActionsOf({n + 1})
  <2>1. n + 1 \notin 0..n
    OBVIOUS
  <2> QED  BY <2>1, ActionsAre DEF Queued
<1>3. \A a \in Commands(n) : a \notin CommandsOf(n + 1)
  BY DEF Commands, CommandsOf
<1>4. \A i \in 1..Len(s) : s[i] \in Queued(n)
  OBVIOUS
<1>5. \A i \in 1..Len(k) : k[i] \in Commands(n)
  OBVIOUS
<1> QED  BY <1>1, <1>2, <1>3, <1>4, <1>5 DEF Occurs

LEMMA Added ==
  ASSUME TypeOK, NEW e \in Queued(connection), queue' = Append(queue, e)
  PROVE /\ \A X : Occurs(queue', X) <=> Occurs(queue, X) \/ e \in X
        /\ \A X : Once(queue, X) /\ e \notin X => Once(queue', X)
        /\ \A X, Y : Precedes(queue, Y, X) /\ e \notin Y => Precedes(queue', Y, X)
<1>1. queue \in Seq(Queued(connection))
  BY DEF TypeOK
<1> QED  BY <1>1, AppendOccurs, AppendOnce, AppendPrecedes

LEMMA Taken ==
  ASSUME TypeOK, queue # <<>>, queue' = Tail(queue)
  PROVE /\ Head(queue) \in Queued(connection)
        /\ \A X : Occurs(queue, X) <=> Head(queue) \in X \/ Occurs(queue', X)
        /\ \A X : Once(queue, X) => Once(queue', X) /\ (Head(queue) \in X => ~Occurs(queue', X))
        /\ \A X, Y : Precedes(queue, Y, X) => Precedes(queue', Y, X) /\ (Head(queue) \in X => ~Occurs(queue', Y))
<1>1. queue \in Seq(Queued(connection))
  BY DEF TypeOK
<1> QED  BY <1>1, TailIs, TailOccurs, TailOnce, TailPrecedes

LEMMA InitLinks == Init => Links
<1> SUFFICES ASSUME Init PROVE Links
  OBVIOUS
<1>1. queue = <<>> /\ toIde = <<>> /\ toEditor = <<>> /\ ~up
  BY DEF Init
<1> QED  BY <1>1, EmptyHas DEF Links, AliveOnce, DeadFirst, AtWork, ToCome, NoneYet, Working

\* Steps that leave the connection and the control alone.
LEMMA LinksKept ==
  ASSUME TypeOK, Links, connection' = connection, up' = up, control' = control, registered' = registered,
         \/ queue' = queue
         \/ \E c : \E e \in ActionsOf({c}) :
              e \in Queued(connection) /\ queue' = Append(queue, e) /\ (up /\ control # connection => c # connection)
         \/ queue # <<>> /\ queue' = Tail(queue) /\ Head(queue).does # "alive",
         up /\ control # connection => ~Occurs(commands', CommandsOf(connection)),
         NoneYet'
  PROVE Links'
<1>1. CASE queue' = queue
  BY <1>1 DEF Links, AliveOnce, DeadFirst, AtWork, ToCome, Working
<1>2. CASE \E c : \E e \in ActionsOf({c}) :
             e \in Queued(connection) /\ queue' = Append(queue, e) /\ (up /\ control # connection => c # connection)
  <2>1. PICK c : \E e \in ActionsOf({c}) :
             e \in Queued(connection) /\ queue' = Append(queue, e) /\ (up /\ control # connection => c # connection)
    BY <1>2
  <2>2. PICK e \in ActionsOf({c}) : e \in Queued(connection) /\ queue' = Append(queue, e)
    BY <2>1
  <2>3. e \notin Lives({connection}) /\ e # Dead /\ (c # connection => e \notin ActionsOf({connection}))
    BY ActionsAre
  <2> QED  BY <2>1, <2>2, <2>3, Added DEF Links, AliveOnce, DeadFirst, AtWork, ToCome, Working
<1>3. CASE queue # <<>> /\ queue' = Tail(queue) /\ Head(queue).does # "alive"
  <2>1. Head(queue) \notin Lives({connection})
    BY <1>3 DEF Lives, Alive
  <2> QED  BY <1>3, <2>1, Taken DEF Links, AliveOnce, DeadFirst, AtWork, ToCome, Working
<1> QED  BY <1>1, <1>2, <1>3

LEMMA LinkStep == TypeOK /\ Links /\ [Next]_vars => Links'
<1> SUFFICES ASSUME TypeOK, Links, [Next]_vars PROVE Links'
  OBVIOUS
<1> USE DEF editorVars, linkVars, controlVars, threadVars, counters, historyVars
<1>t. "game" \in Threads /\ "scheduler" \in Threads /\ "game" # "scheduler"
  BY DEF Threads
<1>y. /\ queue \in Seq(Queued(connection)) /\ commands \in Seq(Commands(connection))
      /\ control \in 0..connection /\ connection \in Nat
      /\ at \in [Threads -> {"idle", "read", "compare", "send", "subscribe", "retrieve", "sync"}]
      /\ at["game"] \notin Setup /\ "idle" \notin Setup /\ "send" \notin Setup /\ "compare" \notin Setup /\ "read" \notin Setup
  BY GameControlAssumption DEF TypeOK, Setup
<1>c. up /\ control # connection => ~Occurs(commands, CommandsOf(connection))
  BY DEF Links, ToCome
<1>1. CASE Connect
  <2>1. connection' = connection + 1 /\ up' /\ control' = control /\ control # connection' /\ ~up
    BY <1>1, <1>y DEF Connect
  <2>2. queue' = Append(queue, Alive(connection'))
    BY <1>1 DEF Connect
  <2>3. ~Occurs(queue, Lives({connection'})) /\ ~Occurs(queue, ActionsOf({connection'})) /\ ~Occurs(commands', CommandsOf(connection'))
    BY <1>1, <1>y, <2>1, NoneOfNext DEF Connect
  <2>4. queue \in Seq(Queued(connection')) /\ Alive(connection') \in Queued(connection') /\ Alive(connection') \in Lives({connection'})
    <3>1. queue \in Seq(Queued(connection'))
      BY <1>y, <2>1, QueuedGrows, SeqGrows
    <3>2. Alive(connection') \in Queued(connection')
      BY <1>y, <2>1 DEF Queued, Lives
    <3> QED  BY <3>1, <3>2, ActionsAre
  <2>5. Once(queue, Lives({connection'})) /\ Precedes(queue, {Dead}, Lives({connection'}))
    BY <2>3 DEF Occurs, Once, Precedes
  <2>6. AliveOnce'
    BY <2>2, <2>3, <2>4, <2>5, AppendOnce DEF AliveOnce
  <2>7. DeadFirst'
    <3>1. Alive(connection') \notin {Dead}
      BY DEF Alive, Dead
    <3> QED  BY <1>y, <2>1, <2>2, <2>4, <2>5, <3>1, AppendPrecedes DEF DeadFirst
  <2>8. AtWork'
    BY <2>1 DEF AtWork, Working
  <2>9. ToCome'
    <3>1. Alive(connection') \notin ActionsOf({connection'})
      BY <2>4, ActionsAre
    <3> QED  BY <2>2, <2>3, <2>4, <3>1, AppendOccurs DEF ToCome
  <2>10. NoneYet'
    BY <1>1, <2>1 DEF Connect, NewIde, NoneYet, Links, Working
  <2> QED  BY <2>6, <2>7, <2>8, <2>9, <2>10 DEF Links
<1>2. CASE Disconnect
  <2>1. queue' = Append(queue, Dead) /\ connection' = connection /\ ~up' /\ toIde' = <<>> /\ toEditor' = <<>>
    BY <1>2 DEF Disconnect
  <2>2. Dead \in Queued(connection) /\ Dead \notin Lives({connection})
    BY ActionsAre DEF Queued
  <2>3. AliveOnce'
    BY <2>1, <2>2, Added DEF Links, AliveOnce
  <2> QED  BY <2>1, <2>3 DEF Links, DeadFirst, AtWork, ToCome, NoneYet, Working
<1>3. CASE Construct
  <2>1. queue # <<>> /\ queue' = Tail(queue) /\ connection' = connection /\ up' = up /\ Head(queue).does = "alive"
    BY <1>3 DEF Construct, Take
  <2>2. Head(queue) \in Queued(connection)
    BY <2>1, Taken
  <2>3. PICK c \in 1..connection : Head(queue) = Alive(c)
    BY <2>1, <2>2, ActionsAre DEF Queued, Lives, Dead
  <2>4. Head(queue).control = c
    BY <2>3 DEF Alive
  <2>5. AliveOnce' /\ DeadFirst'
    BY <2>1, Taken DEF Links, AliveOnce, DeadFirst
  <2>6. CASE up /\ c = connection
    <3>1. Head(queue) \in Lives({connection})
      BY <2>3, <2>6, ActionsAre
    <3>2. control # connection
      BY <2>1, <2>6, <3>1, Taken DEF Links, AtWork, Working
    <3>3. control' = connection /\ registered' /\ at' = [at EXCEPT !["scheduler"] = "subscribe"]
      BY <1>3, <2>4, <2>6 DEF Construct
    <3>4. AtWork'
      BY <2>1, <2>6, <3>1, <3>3, Taken DEF Links, AtWork, AliveOnce, DeadFirst
    <3>5. ToCome'
      BY <2>1, <3>3 DEF ToCome
    <3>6. NoneYet'
      BY <1>3, <3>2, <3>3, <1>t, <1>y DEF Construct, NoneYet, Links, Working
    <3> QED  BY <2>5, <3>4, <3>5, <3>6 DEF Links
  <2>7. CASE ~(up /\ c = connection)
    <3>1. control' = control /\ registered' = registered /\ at' = at
      BY <1>3, <2>4, <2>7 DEF Construct
    <3>2. up => Head(queue) \notin Lives({connection})
      <4>1. Alive(c) \in Lives({connection}) => c = connection
        BY ActionsAre
      <4> QED  BY <2>3, <2>7, <4>1
    <3>3. AtWork'
      BY <2>1, <3>1, Taken DEF Links, AtWork, Working
    <3>4. ToCome'
      BY <1>3, <2>1, <3>1, <3>2, Taken DEF Links, ToCome, Construct
    <3>5. NoneYet'
      BY <1>3, <2>1, <3>1 DEF Construct, NoneYet, Links, Working
    <3> QED  BY <2>5, <3>3, <3>4, <3>5 DEF Links
  <2> QED  BY <2>6, <2>7
<1>4. CASE Subscribe
  <2>1. NoneYet'
    BY <1>4, <1>t, <1>y DEF Subscribe, NoneYet, Links, Working, Setup
  <2> QED  BY <1>4, <1>c, <2>1, LinksKept DEF Subscribe
<1>5. CASE Retrieve
  <2>1. NoneYet'
    BY <1>5, <1>t, <1>y DEF Retrieve, NoneYet, Links, Working, Setup
  <2> QED  BY <1>5, <1>c, <2>1, LinksKept DEF Retrieve
<1>6. CASE Sync
  <2>1. NoneYet'
    BY <1>6, <1>t, <1>y DEF Sync, ScheduleModelAction, NoneYet, Links, Working, Setup
  <2>2. queue' = queue
    BY <1>6 DEF Sync, ScheduleModelAction
  <2> QED  BY <1>6, <1>c, <2>1, <2>2, LinksKept DEF Sync
<1>7. CASE Reset
  <2>1. queue # <<>> /\ queue' = Tail(queue) /\ connection' = connection /\ up' = up /\ Head(queue).does = "dead"
        /\ control' = 0 /\ commands' = commands
    BY <1>7 DEF Reset, Take
  <2>2. Head(queue) = Dead
    <3>1. Head(queue) \in Queued(connection)
      BY <2>1, Taken
    <3>2. Head(queue) \notin ActionsOf(0..connection) /\ Head(queue) \notin Lives(1..connection)
      <4>1. Head(queue).does = "dead"
        BY <2>1
      <4>2. "dead" # "action" /\ "dead" # "alive"
        OBVIOUS
      <4> QED  BY <4>1, <4>2, ActionsAre
    <3> QED  BY <3>1, <3>2 DEF Queued
  <2>3. ~Working
    BY <2>1, <2>2, Taken DEF Links, AtWork
  <2>4. up => control' # connection
    BY <1>y, <2>1 DEF Links, DeadFirst
  <2>5. AliveOnce' /\ DeadFirst'
    BY <2>1, Taken DEF Links, AliveOnce, DeadFirst
  <2>6. AtWork' /\ ~Working'
    BY <2>1, <2>4 DEF AtWork, Working
  <2>7. ToCome'
    BY <2>1, <2>2, <2>3, Taken, ActionsAre DEF Links, ToCome, Working
  <2>8. NoneYet'
    BY <1>7, <2>1, <2>3, <2>6 DEF NoneYet, Links, Reset
  <2> QED  BY <2>5, <2>6, <2>7, <2>8 DEF Links
<1>8. CASE RunAction
  <2>1. queue # <<>> /\ queue' = Tail(queue) /\ Head(queue).does # "alive" /\ at["scheduler"] = "idle"
    BY <1>8 DEF RunAction, Take
  <2>2. NoneYet'
    BY <1>8, <1>y, <2>1 DEF RunAction, NoneYet, Links, Working
  <2> QED  BY <1>8, <1>c, <2>1, <2>2, LinksKept DEF RunAction
<1>9. CASE Receive
  <2>1. toEditor # <<>> /\ at["scheduler"] = "idle" /\ queue' = queue /\ connection' = connection /\ up' = up
        /\ control' = control /\ registered' = registered
    BY <1>9 DEF Receive
  <2>2. Working
    BY <2>1 DEF Links, NoneYet
  <2>3. at'["scheduler"] \notin Setup
    BY <1>9, <1>t, <1>y, <2>1 DEF Receive, OnMode, OnRequest
  <2>4. NoneYet'
    <3>1. subscribed' = subscribed /\ subscribed
      BY <1>9, <2>1, <2>2 DEF Receive, Links, NoneYet
    <3> QED  BY <2>1, <2>2, <2>3, <3>1 DEF NoneYet, Working
  <2> QED  BY <2>1, <2>2, <2>4, LinksKept DEF Working
<1>10. ASSUME NEW t \in Threads, ReadSettings(t) PROVE Links'
  <2>1. NoneYet'
    BY <1>10, <1>t, <1>y DEF ReadSettings, NoneYet, Links, Working
  <2> QED  BY <1>10, <1>c, <2>1, LinksKept DEF ReadSettings
<1>11. ASSUME NEW t \in Threads, Compare(t) PROVE Links'
  <2>1. NoneYet'
    BY <1>11, <1>t, <1>y DEF Compare, NoneYet, Links, Working
  <2> QED  BY <1>11, <1>c, <2>1, LinksKept DEF Compare
<1>g. ASSUME NEW c \in 0..connection, NEW msgs, ScheduleModelAction("game", c, msgs), Action(c, msgs) \in ActionsOf({c}),
             up /\ control # connection => c # connection,
             connection' = connection, up' = up, control' = control, registered' = registered, subscribed' = subscribed,
             at'["scheduler"] = at["scheduler"], toEditor' = toEditor, ide' = ide,
             up /\ control # connection => ~Occurs(commands', CommandsOf(connection))
      PROVE Links'
  <2>1. queue' = Append(queue, Action(c, msgs)) /\ toIde' = toIde
    BY <1>g DEF ScheduleModelAction
  <2>2. Action(c, msgs) \in Queued(connection)
    BY <1>g, <1>y DEF Queued, ActionsOf, ModeActions, StateActions, ReplyActions
  <2>3. NoneYet'
    BY <1>g, <2>1 DEF NoneYet, Links, Working
  <2>4. \E d : \E e \in ActionsOf({d}) :
          e \in Queued(connection) /\ queue' = Append(queue, e) /\ (up /\ control # connection => d # connection)
    BY <1>g, <2>1, <2>2
  <2>5. up /\ control # connection => ~Occurs(commands', CommandsOf(connection))
    BY <1>g
  <2> QED  BY <1>g, <2>3, <2>4, <2>5, LinksKept
<1>12. CASE SendMode("game")
  <2>1. Action(control, <<ModeMsg(PackToMode(seen["game"]))>>) \in ActionsOf({control})
    BY <1>t, NewActions, ModeNat DEF TypeOK, ActionsOf
  <2> QED  BY <1>12, <1>g, <1>c, <1>t, <1>y, <2>1 DEF SendMode
<1>13. CASE SendMode("scheduler")
  <2>1. NoneYet'
    BY <1>13, <1>t, <1>y DEF SendMode, ScheduleModelAction, NoneYet, Links, Working
  <2>2. queue' = queue
    BY <1>13 DEF SendMode, ScheduleModelAction
  <2> QED  BY <1>13, <1>c, <2>1, <2>2, LinksKept DEF SendMode
<1>14. ASSUME NEW s \in Settings, Change(s) PROVE Links'
  <2>1. NoneYet'
    BY <1>14, <1>t, <1>y DEF Change, NoneYet, Links, Working
  <2> QED  BY <1>14, <1>c, <2>1, LinksKept DEF Change
<1>15. ASSUME NEW from, NEW to, NEW msgs, Event(from, to, msgs), Action(control, msgs) \in ActionsOf({control})
       PROVE Links'
  <2>1. CASE registered
    BY <1>15, <2>1, <1>g, <1>c, <1>y DEF Event
  <2>2. CASE ~registered
    <3>1. NoneYet'
      BY <1>15, <2>2 DEF Event, NoneYet, Links, Working
    <3> QED  BY <1>15, <1>c, <2>2, <3>1, LinksKept DEF Event
  <2> QED  BY <2>1, <2>2
<1>s. /\ \A s \in Sessions : Action(control, <<StateMsg(s)>>) \in ActionsOf({control})
      /\ Action(control, <<StateMsg("Play"), StateMsg("Pause")>>) \in ActionsOf({control})
      /\ "Idle" \in Sessions /\ "Play" \in Sessions /\ "Pause" \in Sessions
  <2>1. "Idle" \in Sessions /\ "Play" \in Sessions /\ "Pause" \in Sessions
    BY DEF Sessions
  <2> QED  BY <2>1, NewActions DEF ActionsOf
<1>16. CASE BeginPIE
  BY <1>16, <1>15, <1>s DEF BeginPIE
<1>17. CASE EndPIE
  BY <1>17, <1>15, <1>s DEF EndPIE
<1>18. CASE PausePIE
  BY <1>18, <1>15, <1>s DEF PausePIE
<1>19. CASE ResumePIE
  BY <1>19, <1>15, <1>s DEF ResumePIE
<1>20. CASE SingleStepPIE
  BY <1>20, <1>15, <1>s DEF SingleStepPIE
<1>21. CASE Execute
  <2> DEFINE k == Head(commands)
  <2>1. commands # <<>> /\ commands' = Tail(commands)
    BY <1>21 DEF Execute
  <2>2. k \in Commands(connection) /\ \A X : Occurs(commands, X) <=> k \in X \/ Occurs(commands', X)
    BY <1>y, <2>1, TailIs, TailOccurs
  <2>3. k.request \in 1..MaxRequests /\ k.control \in 0..connection
    BY <2>2 DEF Commands
  <2>4. k.control = connection => k \in CommandsOf(connection)
    BY <2>2 DEF Commands, CommandsOf
  <2>5. Action(k.control, <<Reply(k.request)>>) \in ActionsOf({k.control})
    BY <2>3, NewActions DEF ActionsOf
  <2> HIDE DEF k
  <2>6. ScheduleModelAction("game", k.control, <<Reply(k.request)>>)
    BY <1>21 DEF Execute, k
  <2> QED  BY <1>21, <1>g, <1>c, <2>2, <2>3, <2>4, <2>5, <2>6 DEF Execute
<1>22. CASE IdeReceive
  <2>1. NoneYet'
    BY <1>22 DEF IdeReceive, NoneYet, Links, Working
  <2> QED  BY <1>22, <1>c, <2>1, LinksKept DEF IdeReceive
<1>23. ASSUME NEW m \in Modes, IdeChange(m) PROVE Links'
  <2>1. ide.initialized /\ up /\ up' = up /\ control' = control /\ connection' = connection /\ at' = at
    BY <1>23 DEF IdeChange
  <2>2. NoneYet'
    BY <1>23, <2>1 DEF IdeChange, NoneYet, Links, Working
  <2> QED  BY <1>23, <1>c, <2>2, LinksKept DEF IdeChange
<1>24. CASE IdeRequest
  <2>1. ide.initialized /\ up /\ up' = up /\ control' = control /\ connection' = connection /\ at' = at
    BY <1>24 DEF IdeRequest
  <2>2. NoneYet'
    BY <1>24, <2>1 DEF IdeRequest, NoneYet, Links, Working
  <2> QED  BY <1>24, <1>c, <2>2, LinksKept DEF IdeRequest
<1>25. CASE UNCHANGED vars
  <2>1. NoneYet'
    BY <1>25 DEF vars, NoneYet, Links, Working
  <2> QED  BY <1>25, <1>c, <2>1, LinksKept DEF vars
<1> QED
  BY <1>1, <1>2, <1>3, <1>4, <1>5, <1>6, <1>7, <1>8, <1>9, <1>10, <1>11, <1>12, <1>13, <1>14, <1>16,
     <1>17, <1>18, <1>19, <1>20, <1>21, <1>22, <1>23, <1>24, <1>25, <1>t
  DEF Next, SchedulerThread, GameThread, User

-----------------------------------------------------------------------------
(* The mode.                                                               *)

ModesOf(c) == ModeActions({c})
\* No changes at both ends have met inside the editor.
Quietly == Working /\ ~met

\* One thread handles a change; the scheduler none while an older one is queued.
OneBusy ==
  Quietly =>
    /\ at["game"] = "idle" \/ at["scheduler"] = "idle"
    /\ at["scheduler"] # "idle" => ~Occurs(queue, ModesOf(connection))
\* What a thread has read is still so, and the play mode follows.
InHand ==
  Quietly =>
    /\ at["scheduler"] = "sync" => seen["scheduler"] = settings
    /\ \A t \in Threads : at[t] \in {"compare", "send"} => seen[t] = settings
    /\ \A t \in Threads : at[t] = "send" => playMode = PackToMode(settings)
    /\ (\A t \in Threads : at[t] = "idle") => playMode = PackToMode(settings)
\* The IDE shows the play mode, or a change of its own is still to be heard, or
\* is being handled.
IdeHas ==
  \/ ide.mode = playMode
  \/ Occurs(toEditor, ModeMsgs) /\ LastIn(toEditor, ModeMsgs, {ModeMsg(ide.mode)})
  \/ at["scheduler"] \in {"read", "compare"} /\ ide.mode = PackToMode(settings)
OnTheWay ==
  /\ LastIn(toIde, ModeMsgs, {ModeMsg(playMode)})
  /\ ~Occurs(toIde, ModeMsgs) => IdeHas
\* The last that is queued, or sent, or shown, is the play mode.
Shown ==
  /\ LastIn(queue, ModesOf(connection), {Action(connection, <<ModeMsg(playMode)>>)})
  /\ ~Occurs(queue, ModesOf(connection)) => OnTheWay
Followed ==
  Quietly /\ at["scheduler"] \notin Setup /\ (\A t \in Threads : at[t] # "send") => Shown
ModesInv == OneBusy /\ InHand /\ Followed

LEMMA LastMeans ==
  ASSUME NEW T, NEW s \in Seq(T), NEW e \in T, NEW X, NEW Y, e \in X, e \in Y
  PROVE Occurs(Append(s, e), X) /\ LastIn(Append(s, e), X, Y)
BY AppendOccurs, AppendLast

LEMMA QueueLast ==
  ASSUME TypeOK
  PROVE /\ \A X, Y : \A e \in Queued(connection) :
              queue' = Append(queue, e) /\ e \notin X => (LastIn(queue', X, Y) <=> LastIn(queue, X, Y))
        /\ \A X, Y : \A e \in Queued(connection) :
              queue' = Append(queue, e) /\ e \in X => (LastIn(queue', X, Y) <=> e \in Y)
        /\ \A X, Y : queue # <<>> /\ queue' = Tail(queue) /\ LastIn(queue, X, Y) =>
              LastIn(queue', X, Y) /\ (Head(queue) \in X /\ ~Occurs(queue', X) => Head(queue) \in Y)
<1>1. queue \in Seq(Queued(connection))
  BY DEF TypeOK
<1>2. ASSUME NEW X, NEW Y, NEW e \in Queued(connection), queue' = Append(queue, e)
      PROVE /\ e \notin X => (LastIn(queue', X, Y) <=> LastIn(queue, X, Y))
            /\ e \in X => (LastIn(queue', X, Y) <=> e \in Y)
  BY <1>1, <1>2, AppendLast
<1>3. ASSUME NEW X, NEW Y, queue # <<>>, queue' = Tail(queue), LastIn(queue, X, Y)
      PROVE LastIn(queue', X, Y) /\ (Head(queue) \in X /\ ~Occurs(queue', X) => Head(queue) \in Y)
  BY <1>1, <1>3, TailLast
<1> QED  BY <1>2, <1>3

LEMMA InitModes == Init => ModesInv
BY DEF Init, ModesInv, OneBusy, InHand, Followed, Quietly, Working

\* Steps of nobody who changes or reads the settings.
LEMMA ModesKept ==
  ASSUME TypeOK, Links, ModesInv, connection' = connection, up' = up, control' = control, met => met',
         at' = at, seen' = seen, settings' = settings, playMode' = playMode,
         \/ queue' = queue
         \/ \E e \in Queued(connection) : e \notin ModesOf(connection) /\ queue' = Append(queue, e),
         at["scheduler"] \notin Setup /\ ~met' /\ OnTheWay => OnTheWay'
  PROVE ModesInv'
<1>1. OneBusy'
  BY Added DEF ModesInv, OneBusy, Quietly, Working
<1>2. InHand'
  BY DEF ModesInv, InHand, Quietly, Working
<1>3. Followed'
  BY Added, QueueLast DEF ModesInv, Followed, Shown, Quietly, Working
<1> QED  BY <1>1, <1>2, <1>3 DEF ModesInv

LEMMA ModesAre ==
  /\ \A C, D : \A a \in ReplyActions(C) \cup StateActions(C) \cup Lives(C) \cup {Dead} : a \notin ModeActions(D)
  /\ \A C, D : \A a \in ReplyActions(C) \cup ModeActions(C) \cup Lives(C) \cup {Dead} : a \notin StateActions(D)
<1>1. \A C : \A a \in ModeActions(C) : a.msgs[1] \in ModeMsgs /\ a.does = "action"
  BY DEF ModeActions
<1>2. \A C : \A a \in StateActions(C) : a.msgs[1] \in StateMsgs /\ a.does = "action"
  BY DEF StateActions
<1>3. \A C : \A a \in ReplyActions(C) : a.msgs[1] \in Replies /\ a.does = "action"
  BY DEF ReplyActions
<1>4. \A C : \A a \in Lives(C) : a.does = "alive"
  BY DEF Lives, Alive
<1>5. Dead.does = "dead"
  BY DEF Dead
<1>6. ModeMsgs \cap StateMsgs = {} /\ ModeMsgs \cap Replies = {} /\ StateMsgs \cap Replies = {}
  BY MsgTypes
<1> QED  BY <1>1, <1>2, <1>3, <1>4, <1>5, <1>6

LEMMA HeadIs ==
  ASSUME NEW n, NEW a \in Queued(n)
  PROVE /\ a.does = "alive" => a \in Lives({a.control})
        /\ a.does = "action" => a \in ActionsOf(0..n) /\ a \in ActionsOf({a.control})
<1>1. CASE a \in ActionsOf(0..n)
  <2>1. a.does = "action"
    BY <1>1, ActionsAre
  <2>2. a \in ActionsOf({a.control})
    BY <1>1 DEF ActionsOf, ModeActions, StateActions, ReplyActions
  <2> QED  BY <1>1, <2>1, <2>2
<1>2. CASE a \in Lives(1..n)
  BY <1>2 DEF Lives, Alive
<1>3. CASE a = Dead
  BY <1>3 DEF Dead
<1> QED  BY <1>1, <1>2, <1>3 DEF Queued

LEMMA OtherMsgs ==
  ASSUME NEW C, NEW a
  PROVE /\ a \in StateActions(C) \cup ReplyActions(C) => ~Occurs(a.msgs, ModeMsgs)
        /\ a \in ModeActions(C) \cup ReplyActions(C) => ~Occurs(a.msgs, StateMsgs)
        /\ a \in ModeActions(C) \cup StateActions(C) => ~Occurs(a.msgs, Replies)
<1>1. CASE a \in ModeActions(C)
  <2>1. a.msgs \in Seq(ModeMsgs)
    BY <1>1 DEF ModeActions
  <2>2. \A i \in 1..Len(a.msgs) : a.msgs[i] \in ModeMsgs
    BY <2>1
  <2> QED  BY <1>1, <2>2, ModesAre, MsgTypes DEF Occurs
<1>2. CASE a \in StateActions(C)
  <2>1. a.msgs \in Seq(StateMsgs)
    BY <1>2 DEF StateActions
  <2>2. \A i \in 1..Len(a.msgs) : a.msgs[i] \in StateMsgs
    BY <2>1
  <2> QED  BY <1>2, <2>2, ModesAre, MsgTypes DEF Occurs
<1>3. CASE a \in ReplyActions(C)
  <2>1. PICK m \in Replies : a.msgs = <<m>>
    BY <1>3 DEF ReplyActions
  <2>2. \A i \in 1..Len(a.msgs) : a.msgs[i] \in Replies
    BY <2>1
  <2> QED  BY <1>3, <2>2, ModesAre, MsgTypes DEF Occurs
<1> QED  BY <1>1, <1>2, <1>3

LEMMA Busy ==
  ASSUME Quietly, TypeOK, OneBusy, NEW t \in Threads, at[t] # "idle"
  PROVE /\ \A x \in Threads : x # t => at[x] = "idle"
        /\ at["scheduler"] \notin Setup \/ t = "scheduler"
BY DEF OneBusy, Threads, Setup

LEMMA ModesStep == TypeOK /\ Links /\ Links' /\ ModesInv /\ [Next]_vars => ModesInv'
<1> SUFFICES ASSUME TypeOK, Links, Links', ModesInv, [Next]_vars PROVE ModesInv'
  OBVIOUS
<1> USE DEF editorVars, linkVars, controlVars, threadVars, counters, historyVars
<1>t. "game" \in Threads /\ "scheduler" \in Threads /\ "game" # "scheduler" /\ Threads = {"game", "scheduler"}
  BY DEF Threads
<1>y. /\ queue \in Seq(Queued(connection)) /\ toIde \in Seq(IdeMsgs) /\ toEditor \in Seq(EditorMsgs)
      /\ control \in 0..connection /\ connection \in Nat /\ met \in BOOLEAN
      /\ at \in [Threads -> {"idle", "read", "compare", "send", "subscribe", "retrieve", "sync"}]
      /\ seen \in [Threads -> FPlaySettings]
      /\ at["game"] \notin Setup /\ "idle" \notin Setup /\ "send" \notin Setup /\ "compare" \notin Setup /\ "read" \notin Setup
      /\ "subscribe" \in Setup /\ "retrieve" \in Setup /\ "sync" \in Setup
  BY GameControlAssumption DEF TypeOK, Setup
<1>n. ASSUME up', control' # connection' PROVE ModesInv'
  BY <1>n DEF ModesInv, OneBusy, InHand, Followed, Quietly, Working
<1>u. ASSUME ~up' \/ met' PROVE ModesInv'
  BY <1>u DEF ModesInv, OneBusy, InHand, Followed, Quietly, Working
<1>1. CASE Connect
  BY <1>1, <1>n, <1>y DEF Connect
<1>2. CASE Disconnect
  BY <1>2, <1>u DEF Disconnect
<1>3. CASE Construct
  <2>1. queue # <<>> /\ queue' = Tail(queue) /\ connection' = connection /\ up' = up /\ at["scheduler"] = "idle"
        /\ seen' = seen /\ settings' = settings /\ toIde' = toIde /\ toEditor' = toEditor /\ ide' = ide
        /\ (met => met') /\ (~met' => at["game"] = "idle")
    BY <1>3 DEF Construct, Take
  <2>2. CASE up /\ Head(queue).control = connection
    <3>1. control' = connection /\ at' = [at EXCEPT !["scheduler"] = "subscribe"]
      BY <1>3, <2>2 DEF Construct
    <3>2. Head(queue) \in Queued(connection) /\ Head(queue).does = "alive"
      BY <1>3, <2>1, Taken DEF Construct, Take
    <3>3. Head(queue) \in Lives({connection})
      BY <2>2, <3>2, HeadIs
    <3>4. ~Working
      BY <2>1, <3>3, Taken DEF Links, AtWork
    <3>5. ~Occurs(queue', ModesOf(connection))
      <4>1. ~Occurs(queue, ActionsOf({connection}))
        BY <2>2, <3>4 DEF Links, ToCome, Working
      <4>2. ~Occurs(queue, ModesOf(connection))
        BY <4>1 DEF Occurs, ModesOf, ActionsOf
      <4> QED  BY <2>1, <4>2, Taken
    <3>6. at'["scheduler"] = "subscribe" /\ at'["game"] = at["game"]
      BY <1>y, <1>t, <3>1
    <3> QED  BY <1>t, <1>y, <2>1, <3>5, <3>6 DEF ModesInv, OneBusy, InHand, Followed, Quietly
  <2>3. CASE ~(up /\ Head(queue).control = connection)
    <3>1. control' = control /\ at' = at /\ playMode' = playMode
      BY <1>3, <2>3 DEF Construct
    <3>2. Head(queue) \notin ModesOf(connection)
      <4>1. Head(queue).does # "action"
        BY <1>3 DEF Construct, Take
      <4> QED  BY <4>1 DEF ModesOf, ModeActions
    <3>3. \A X, Y : LastIn(queue, X, Y) => LastIn(queue', X, Y)
      BY <2>1, QueueLast
    <3>4. Occurs(queue', ModesOf(connection)) <=> Occurs(queue, ModesOf(connection))
      BY <2>1, <3>2, Taken
    <3>5. OneBusy'
      BY <2>1, <3>1, <3>4 DEF ModesInv, OneBusy, Quietly, Working
    <3>6. InHand'
      BY <2>1, <3>1 DEF ModesInv, InHand, Quietly, Working
    <3>7. Followed'
      BY <2>1, <3>1, <3>3, <3>4 DEF ModesInv, Followed, Shown, OnTheWay, IdeHas, Quietly, Working
    <3> QED  BY <3>5, <3>6, <3>7 DEF ModesInv
  <2> QED  BY <2>2, <2>3
<1>4. CASE Subscribe
  <2>1. at' = [at EXCEPT !["scheduler"] = "retrieve"] /\ at["scheduler"] = "subscribe"
        /\ UNCHANGED <<connection, up, control, met, queue, seen, settings, playMode>>
    BY <1>4 DEF Subscribe
  <2>2. at'["scheduler"] = "retrieve" /\ at'["game"] = at["game"]
    BY <1>t, <1>y, <2>1
  <2> QED  BY <1>t, <1>y, <2>1, <2>2 DEF ModesInv, OneBusy, InHand, Followed, Quietly, Working
<1>5. CASE Retrieve
  <2>1. at' = [at EXCEPT !["scheduler"] = "sync"] /\ seen' = [seen EXCEPT !["scheduler"] = settings] /\ at["scheduler"] = "retrieve"
        /\ UNCHANGED <<connection, up, control, met, queue, settings, playMode>>
    BY <1>5 DEF Retrieve
  <2>2. at'["scheduler"] = "sync" /\ at'["game"] = at["game"] /\ seen'["scheduler"] = settings
    BY <1>t, <1>y, <2>1
  <2> QED  BY <1>t, <1>y, <2>1, <2>2 DEF ModesInv, OneBusy, InHand, Followed, Quietly, Working
<1>6. CASE Sync
  <2>1. at' = [at EXCEPT !["scheduler"] = "idle"] /\ at["scheduler"] = "sync" /\ playMode' = PackToMode(seen["scheduler"])
        /\ UNCHANGED <<connection, up, control, met, queue, settings, seen, toEditor, ide>>
    BY <1>6 DEF Sync, ScheduleModelAction
  <2>2. at'["scheduler"] = "idle" /\ at'["game"] = at["game"]
    BY <1>t, <1>y, <2>1
  <2>3. SUFFICES ASSUME Quietly PROVE ModesInv'
    BY <2>1 DEF ModesInv, OneBusy, InHand, Followed, Quietly, Working
  <2>4. at["game"] = "idle" /\ ~Occurs(queue, ModesOf(connection)) /\ seen["scheduler"] = settings
    BY <2>1, <2>3 DEF ModesInv, OneBusy, InHand
  <2>5. toIde = <<>>
    BY <1>y, <2>1 DEF Links, NoneYet
  <2>6. toIde' = <<ModeMsg(playMode'), Initialized>>
    <3>1. toIde' = toIde \o <<ModeMsg(playMode'), Initialized>>
      BY <1>6, <2>3 DEF Sync, ScheduleModelAction, Quietly, Working
    <3> QED  BY <2>5, <3>1
  <2>7. OnTheWay'
    <3>1. playMode' \in Nat
      BY <2>1, <1>y, <1>t, ModeNat
    <3>2. ModeMsg(playMode') \in ModeMsgs /\ ModeMsg(playMode') \in IdeMsgs /\ Initialized \in IdeMsgs /\ Initialized \notin ModeMsgs
      BY <3>1, MsgTypes
    <3>3. toIde' = Append(Append(<<>>, ModeMsg(playMode')), Initialized)
      BY <2>6, <3>2
    <3>4. <<>> \in Seq(IdeMsgs) /\ Append(<<>>, ModeMsg(playMode')) \in Seq(IdeMsgs)
      BY <3>2
    <3>5. /\ Occurs(Append(<<>>, ModeMsg(playMode')), ModeMsgs)
          /\ LastIn(Append(<<>>, ModeMsg(playMode')), ModeMsgs, {ModeMsg(playMode')})
      BY <3>2, <3>4, LastMeans
    <3>6. Occurs(toIde', ModeMsgs) /\ LastIn(toIde', ModeMsgs, {ModeMsg(playMode')})
      BY <3>2, <3>3, <3>4, <3>5, AppendOccurs, AppendLast
    <3> QED  BY <3>6 DEF OnTheWay
  <2>8. LastIn(queue, ModesOf(connection), {Action(connection, <<ModeMsg(playMode')>>)})
    BY <2>4 DEF Occurs, LastIn
  <2>9. playMode' = PackToMode(settings)
    BY <2>1, <2>4
  <2>10. OneBusy' /\ InHand'
    BY <1>t, <1>y, <2>1, <2>2, <2>4, <2>9 DEF OneBusy, InHand
  <2>11. Followed'
    BY <2>1, <2>7, <2>8 DEF Followed, Shown
  <2> QED  BY <2>10, <2>11 DEF ModesInv
<1>7. CASE Reset
  <2>1. control' = 0 /\ connection' = connection /\ up' = up
    BY <1>7 DEF Reset
  <2>2. up => control' # connection
    BY <1>y, <2>1 DEF Links, DeadFirst
  <2> QED  BY <2>1, <2>2, <1>n, <1>u
<1>8. CASE RunAction
  <2> DEFINE a == Head(queue)
  <2>1. queue # <<>> /\ queue' = Tail(queue) /\ a.does = "action" /\ at["scheduler"] = "idle"
        /\ UNCHANGED <<connection, up, control, at, seen, settings, playMode, toEditor, ide>>
    BY <1>8 DEF RunAction, Take
  <2>2. a \in ActionsOf({a.control})
    BY <2>1, Taken, HeadIs
  <2>3. SUFFICES ASSUME Quietly' PROVE ModesInv'
    BY DEF ModesInv, OneBusy, InHand, Followed
  <2>4. Quietly /\ control = connection
    BY <1>8, <2>1, <2>3 DEF RunAction, Quietly, Working
  <2>5. \/ a.control = connection /\ toIde' = toIde \o a.msgs
        \/ a.control # connection /\ toIde' = toIde
    BY <1>8, <2>3, <2>4 DEF RunAction, Quietly, Working
  <2>6. OneBusy' /\ InHand'
    BY <2>1, <2>4 DEF ModesInv, OneBusy, InHand
  <2>7. ASSUME \A t \in Threads : at[t] # "send" PROVE Shown'
    <3>1. Shown
      BY <1>y, <2>1, <2>4, <2>7 DEF ModesInv, Followed
    <3>2. IdeHas' <=> IdeHas
      BY <2>1 DEF IdeHas
    <3>3. LastIn(queue', ModesOf(connection), {Action(connection, <<ModeMsg(playMode)>>)})
      BY <2>1, <3>1, QueueLast DEF Shown
    <3>4. CASE a \notin ModesOf(connection)
      <4>1. Occurs(queue', ModesOf(connection)) <=> Occurs(queue, ModesOf(connection))
        BY <2>1, <3>4, Taken
      <4>2. CASE a.control # connection
        BY <2>1, <2>5, <3>1, <3>2, <3>3, <4>1, <4>2 DEF Shown, OnTheWay
      <4>3. CASE a.control = connection
        <5>1. a \in StateActions({connection}) \cup ReplyActions({connection}) /\ a.msgs \in Seq(IdeMsgs)
          BY <2>2, <3>4, <4>3, ActionMsgs DEF ActionsOf, ModesOf
        <5>2. ~Occurs(a.msgs, ModeMsgs)
          BY <5>1, OtherMsgs
        <5>3. toIde' = toIde \o a.msgs
          BY <2>5, <4>3
        <5>4. Occurs(toIde', ModeMsgs) <=> Occurs(toIde, ModeMsgs)
          BY <1>y, <5>1, <5>2, <5>3, ConcatOccurs
        <5>5. LastIn(toIde', ModeMsgs, {ModeMsg(playMode)}) <=> LastIn(toIde, ModeMsgs, {ModeMsg(playMode)})
          BY <1>y, <5>1, <5>2, <5>3, ConcatLast
        <5> QED  BY <2>1, <3>1, <3>2, <3>3, <4>1, <5>4, <5>5 DEF Shown, OnTheWay
      <4> QED  BY <4>2, <4>3
    <3>5. CASE a \in ModesOf(connection)
      <4>1. a.control = connection
        BY <3>5 DEF ModesOf, ModeActions
      <4>2. ASSUME ~Occurs(queue', ModesOf(connection)) PROVE OnTheWay'
        <5>1. a = Action(connection, <<ModeMsg(playMode)>>)
          BY <2>1, <3>1, <3>5, <4>2, QueueLast DEF Shown
        <5>2. a.msgs = <<ModeMsg(playMode)>> /\ ModeMsg(playMode) \in ModeMsgs /\ ModeMsg(playMode) \in IdeMsgs
          <6>1. a.msgs = <<ModeMsg(playMode)>> /\ a.msgs[1] = ModeMsg(playMode) /\ Len(a.msgs) = 1
            BY <5>1 DEF Action
          <6>2. a.msgs \in Seq(ModeMsgs)
            BY <3>5 DEF ModesOf, ModeActions
          <6>3. a.msgs[1] \in ModeMsgs
            BY <6>1, <6>2
          <6> QED  BY <6>1, <6>3, MsgTypes
        <5>3. toIde' = Append(toIde, ModeMsg(playMode))
          <6>1. toIde' = toIde \o <<ModeMsg(playMode)>>
            BY <2>5, <4>1, <5>2
          <6> QED  BY <1>y, <5>2, <6>1
        <5>4. Occurs(toIde', ModeMsgs) /\ LastIn(toIde', ModeMsgs, {ModeMsg(playMode)})
          BY <1>y, <5>2, <5>3, LastMeans
        <5> QED  BY <2>1, <5>4 DEF OnTheWay
      <4> QED  BY <2>1, <3>3, <4>2 DEF Shown
    <3> QED  BY <3>4, <3>5
  <2> QED  BY <2>1, <2>6, <2>7 DEF ModesInv, Followed
<1>r. ASSUME toEditor # <<>> PROVE
        /\ Head(toEditor) \in EditorMsgs
        /\ \A X : Occurs(toEditor, X) <=> Head(toEditor) \in X \/ Occurs(Tail(toEditor), X)
        /\ \A X, Y : LastIn(toEditor, X, Y) =>
             LastIn(Tail(toEditor), X, Y) /\ (Head(toEditor) \in X /\ ~Occurs(Tail(toEditor), X) => Head(toEditor) \in Y)
  BY <1>r, <1>y, TailIs, TailOccurs, TailLast
<1>9. CASE Receive
  <2> DEFINE m == Head(toEditor)
  <2>1. toEditor # <<>> /\ at["scheduler"] = "idle" /\ toEditor' = Tail(toEditor)
        /\ UNCHANGED <<connection, up, control, queue, seen, playMode, ide, subscribed>>
    BY <1>9 DEF Receive
  <2>2. Working /\ subscribed
    BY <2>1 DEF Links, NoneYet
  <2>3. m \in EditorMsgs
    BY <2>1, <1>r
  <2>4. CASE m.kind = "mode"
    <3>1. PICK v \in Modes : m = ModeMsg(v)
      BY <2>3, <2>4 DEF EditorMsgs, Requests, Request
    <3>2. OnMode(v)
      BY <1>9, <2>2, <3>1 DEF Receive, ModeMsg
    <3>3. SUFFICES ASSUME Quietly' PROVE ModesInv'
      BY DEF ModesInv, OneBusy, InHand, Followed
    <3>4. Quietly /\ ~ModePending
      BY <1>y, <2>1, <3>2, <3>3 DEF OnMode, Quietly, Working
    <3>5. settings' = UnpackFromMode(v) /\ at' = [at EXCEPT !["scheduler"] = "read"] /\ toIde' = toIde
      BY <3>2 DEF OnMode
    <3>6. at'["scheduler"] = "read" /\ at'["game"] = "idle" /\ at["game"] = "idle"
      BY <1>t, <1>y, <3>4, <3>5 DEF ModePending
    <3>7. ~Occurs(queue, ModesOf(connection))
      <4>1. ASSUME NEW i \in 1..Len(queue), queue[i] \in ModesOf(connection) PROVE FALSE
        <5>1. queue[i].msgs \in Seq(ModeMsgs) /\ queue[i].msgs # <<>>
          BY <4>1 DEF ModesOf, ModeActions
        <5>2. 1 \in 1..Len(queue[i].msgs) /\ queue[i].msgs[1] \in ModeMsgs
          BY <5>1
        <5>3. queue[i].msgs[1].kind = "mode"
          BY <5>2 DEF ModeMsgs
        <5> QED  BY <3>4, <5>2, <5>3 DEF ModePending
      <4> QED  BY <4>1 DEF Occurs
    <3>8. OneBusy' /\ InHand'
      BY <1>t, <2>1, <3>6, <3>7 DEF OneBusy, InHand
    <3>9. Shown
      BY <1>t, <1>y, <2>1, <3>4, <3>6 DEF ModesInv, Followed
    <3>10. IdeHas => IdeHas'
      <4>1. CASE ide.mode = playMode
        BY <2>1, <4>1 DEF IdeHas
      <4>2. CASE Occurs(toEditor, ModeMsgs) /\ LastIn(toEditor, ModeMsgs, {ModeMsg(ide.mode)})
        <5>1. CASE Occurs(toEditor', ModeMsgs)
          BY <2>1, <4>2, <5>1, <1>r DEF IdeHas
        <5>2. CASE ~Occurs(toEditor', ModeMsgs)
          <6>1. m = ModeMsg(ide.mode)
            BY <2>1, <4>2, <5>2, <1>r
          <6>2. v = ide.mode
            BY <3>1, <6>1 DEF ModeMsg
          <6>3. PackToMode(settings') = v
            BY <3>5, UnpackPack, GameControlAssumption
          <6> QED  BY <2>1, <3>6, <6>2, <6>3 DEF IdeHas
        <5> QED  BY <5>1, <5>2
      <4> QED  BY <2>1, <4>1, <4>2 DEF IdeHas
    <3>11. Shown'
      BY <2>1, <3>5, <3>9, <3>10 DEF Shown, OnTheWay
    <3> QED  BY <3>8, <3>11 DEF ModesInv, Followed
  <2>5. CASE m.kind # "mode"
    <3>1. PICK v \in 1..MaxRequests : m = Request(v)
      BY <2>3, <2>5 DEF EditorMsgs, Requests, ModeMsg
    <3>2. OnRequest(v)
      BY <1>9, <2>2, <2>5, <3>1 DEF Receive, Request
    <3>3. m \notin ModeMsgs
      BY <2>5 DEF ModeMsgs
    <3>4. IdeHas => IdeHas'
      BY <2>1, <3>2, <3>3, <1>r DEF IdeHas, OnRequest
    <3>5. Reply(v) \in IdeMsgs /\ Reply(v) \notin ModeMsgs
      BY MsgTypes DEF Replies
    <3>6. /\ Occurs(toIde', ModeMsgs) <=> Occurs(toIde, ModeMsgs)
          /\ LastIn(toIde', ModeMsgs, {ModeMsg(playMode)}) <=> LastIn(toIde, ModeMsgs, {ModeMsg(playMode)})
      <4>1. CASE toIde' = toIde
        BY <4>1
      <4>2. CASE toIde' = Append(toIde, Reply(v))
        BY <1>y, <3>5, <4>2, AppendOccurs, AppendLast
      <4> QED  BY <3>2, <4>1, <4>2 DEF OnRequest
    <3>7. OnTheWay => OnTheWay'
      BY <2>1, <3>4, <3>6 DEF OnTheWay
    <3> QED  BY <2>1, <3>2, <3>7, ModesKept DEF OnRequest
  <2> QED  BY <2>4, <2>5
<1>10. ASSUME NEW t \in Threads, ReadSettings(t) PROVE ModesInv'
  <2>1. at[t] = "read" /\ UNCHANGED <<connection, up, control, queue, settings, playMode, met, toIde, toEditor, ide>>
        /\ seen' = [seen EXCEPT ![t] = settings]
    BY <1>10 DEF ReadSettings
  <2>2. SUFFICES ASSUME Quietly PROVE ModesInv'
    BY <2>1 DEF ModesInv, OneBusy, InHand, Followed, Quietly, Working
  <2>3. control # 0
    BY <1>y, <2>2 DEF Quietly, Working, Links, DeadFirst
  <2>4. at'[t] = "compare" /\ seen'[t] = settings /\ \A x \in Threads : x # t => at'[x] = "idle" /\ at[x] = "idle"
    BY <1>y, <1>10, <2>1, <2>2, <2>3, Busy DEF ReadSettings, ModesInv
  <2>5. OneBusy' /\ InHand'
    BY <1>t, <1>y, <2>1, <2>2, <2>4 DEF ModesInv, OneBusy, InHand
  <2>6. at["scheduler"] \notin Setup /\ \A x \in Threads : at[x] # "send"
    BY <1>t, <1>y, <2>1, <2>4
  <2>7. IdeHas => IdeHas'
    BY <1>t, <2>1, <2>4 DEF IdeHas
  <2>8. Shown'
    BY <2>1, <2>2, <2>6, <2>7 DEF ModesInv, Followed, Shown, OnTheWay
  <2> QED  BY <2>5, <2>8 DEF ModesInv, Followed
<1>11. ASSUME NEW t \in Threads, Compare(t) PROVE ModesInv'
  <2>1. at[t] = "compare" /\ UNCHANGED <<connection, up, control, queue, settings, seen, met, toIde, toEditor, ide>>
    BY <1>11 DEF Compare
  <2>2. SUFFICES ASSUME Quietly PROVE ModesInv'
    BY <2>1 DEF ModesInv, OneBusy, InHand, Followed, Quietly, Working
  <2>3. control # 0
    BY <1>y, <2>2 DEF Quietly, Working, Links, DeadFirst
  <2>4. seen[t] = settings /\ \A x \in Threads : x # t => at[x] = "idle"
    BY <2>1, <2>2, Busy DEF ModesInv, InHand
  <2>5. CASE PackToMode(seen[t]) = playMode
    <3>1. at' = [at EXCEPT ![t] = "idle"] /\ playMode' = playMode
      BY <1>11, <2>5 DEF Compare
    <3>2. \A x \in Threads : at'[x] = "idle"
      BY <1>y, <2>4, <3>1
    <3>3. OneBusy' /\ InHand'
      BY <1>t, <1>y, <2>1, <2>4, <2>5, <3>1, <3>2 DEF OneBusy, InHand
    <3>4. at["scheduler"] \notin Setup /\ \A x \in Threads : at[x] # "send"
      BY <1>t, <1>y, <2>1, <2>4
    <3>5. IdeHas => IdeHas'
      BY <2>1, <2>4, <2>5, <3>1 DEF IdeHas
    <3>6. Shown'
      BY <2>1, <2>2, <3>1, <3>4, <3>5 DEF ModesInv, Followed, Shown, OnTheWay
    <3> QED  BY <3>3, <3>6 DEF ModesInv, Followed
  <2>6. CASE PackToMode(seen[t]) # playMode
    <3>1. at' = [at EXCEPT ![t] = "send"] /\ playMode' = PackToMode(settings)
      BY <1>11, <2>3, <2>4, <2>6 DEF Compare
    <3>2. at'[t] = "send" /\ \A x \in Threads : x # t => at'[x] = "idle"
      BY <1>y, <2>4, <3>1
    <3>3. OneBusy' /\ InHand'
      BY <1>t, <1>y, <2>1, <2>2, <2>4, <3>1, <3>2 DEF ModesInv, OneBusy, InHand
    <3> QED  BY <3>2, <3>3 DEF ModesInv, Followed
  <2> QED  BY <2>5, <2>6
<1>12. ASSUME NEW t \in Threads, SendMode(t) PROVE ModesInv'
  <2>1. at[t] = "send" /\ at' = [at EXCEPT ![t] = "idle"]
        /\ ScheduleModelAction(t, control, <<ModeMsg(PackToMode(seen[t]))>>)
        /\ UNCHANGED <<connection, up, control, settings, playMode, seen, met, toEditor, ide>>
    BY <1>12 DEF SendMode
  <2>2. SUFFICES ASSUME Quietly PROVE ModesInv'
    BY <2>1 DEF ModesInv, OneBusy, InHand, Followed, Quietly, Working
  <2>3. playMode = PackToMode(settings) /\ seen[t] = settings /\ \A x \in Threads : x # t => at[x] = "idle"
    BY <2>1, <2>2, Busy DEF ModesInv, InHand
  <2>4. \A x \in Threads : at'[x] = "idle"
    BY <1>y, <2>1, <2>3
  <2>5. OneBusy' /\ InHand'
    BY <1>t, <1>y, <2>1, <2>3, <2>4 DEF OneBusy, InHand
  <2>6. control = connection /\ up
    BY <2>2 DEF Quietly, Working
  <2>7. playMode \in Nat /\ ModeMsg(playMode) \in ModeMsgs /\ ModeMsg(playMode) \in IdeMsgs
    <3>1. settings \in FPlaySettings
      BY DEF TypeOK
    <3>2. playMode \in Nat
      BY <2>3, <3>1, ModeNat
    <3> QED  BY <3>2, MsgTypes
  <2>8. Shown'
    <3>1. CASE t = "game"
      <4> DEFINE e == Action(connection, <<ModeMsg(playMode)>>)
      <4>1. queue' = Append(queue, e)
        BY <2>1, <2>3, <2>6, <3>1, <1>t DEF ScheduleModelAction
      <4>2. e \in ModesOf(connection) /\ e \in Queued(connection)
        <5>1. e \in ModeActions({connection}) /\ e \in ModeActions(0..connection)
          <6>1. connection \in {connection} /\ connection \in 0..connection
            BY <1>y
          <6> QED  BY <2>7, <6>1, NewActions
        <5> QED  BY <5>1 DEF ModesOf, Queued, ActionsOf
      <4> HIDE DEF e
      <4>3. Occurs(queue', ModesOf(connection)) /\ LastIn(queue', ModesOf(connection), {e})
        BY <1>y, <4>1, <4>2, LastMeans
      <4> QED  BY <2>1, <4>3 DEF Shown, e
    <3>2. CASE t = "scheduler"
      <4>1. queue' = queue /\ toIde' = Append(toIde, ModeMsg(playMode))
        BY <1>y, <2>1, <2>3, <2>6, <2>7, <3>2 DEF ScheduleModelAction
      <4>2. ~Occurs(queue, ModesOf(connection))
        BY <2>1, <2>2, <3>2 DEF ModesInv, OneBusy
      <4>3. LastIn(queue, ModesOf(connection), {Action(connection, <<ModeMsg(playMode)>>)})
        BY <4>2 DEF Occurs, LastIn
      <4>4. Occurs(toIde', ModeMsgs) /\ LastIn(toIde', ModeMsgs, {ModeMsg(playMode)})
        BY <1>y, <2>7, <4>1, LastMeans
      <4> QED  BY <2>1, <4>1, <4>3, <4>4 DEF Shown, OnTheWay
    <3> QED  BY <1>t, <3>1, <3>2
  <2> QED  BY <2>5, <2>8 DEF ModesInv, Followed
<1>13. ASSUME NEW s \in Settings, Change(s) PROVE ModesInv'
  <2>1. at["game"] = "idle" /\ UNCHANGED <<connection, up, control, queue, playMode, seen, toIde, toEditor, ide>>
    BY <1>13 DEF Change
  <2>2. SUFFICES ASSUME Quietly' PROVE ModesInv'
    BY DEF ModesInv, OneBusy, InHand, Followed
  <2>3. Quietly /\ at["scheduler"] = "idle"
    <3>1. met' = (met \/ at["scheduler"] # "idle")
      BY <1>13 DEF Change
    <3> QED  BY <1>y, <2>1, <2>2, <3>1 DEF Quietly, Working
  <2>4. registered
    BY <2>3 DEF Quietly, Links, AtWork
  <2>5. at'["game"] = "read" /\ at'["scheduler"] = "idle"
    BY <1>t, <1>y, <1>13, <2>3, <2>4 DEF Change
  <2>6. OneBusy' /\ InHand'
    BY <1>t, <2>5 DEF OneBusy, InHand
  <2>7. Shown
    BY <1>t, <1>y, <2>1, <2>3 DEF ModesInv, Followed
  <2>8. Shown'
    BY <2>1, <2>3, <2>5, <2>7 DEF Shown, OnTheWay, IdeHas
  <2> QED  BY <2>6, <2>8 DEF ModesInv, Followed
<1>g. ASSUME NEW c \in 0..connection, NEW msgs, ScheduleModelAction("game", c, msgs),
             Action(c, msgs) \in StateActions({c}) \cup ReplyActions({c}),
             UNCHANGED <<connection, up, control, met, at, seen, settings, playMode, toEditor, ide>>
      PROVE ModesInv'
  <2>1. queue' = Append(queue, Action(c, msgs)) /\ toIde' = toIde
    BY <1>g DEF ScheduleModelAction
  <2>2. Action(c, msgs) \in Queued(connection)
    BY <1>g, <1>y DEF Queued, ActionsOf, StateActions, ReplyActions
  <2>3. Action(c, msgs) \notin ModesOf(connection)
    BY <1>g, ModesAre DEF ModesOf
  <2>4. OnTheWay => OnTheWay'
    BY <1>g, <2>1 DEF OnTheWay, IdeHas
  <2> QED  BY <1>g, <2>1, <2>2, <2>3, <2>4, ModesKept
<1>14. ASSUME NEW from, NEW to, NEW msgs, Event(from, to, msgs), Action(control, msgs) \in StateActions({control})
       PROVE ModesInv'
  <2>1. CASE registered
    BY <1>14, <2>1, <1>g, <1>y DEF Event
  <2>2. CASE ~registered
    <3>1. OnTheWay => OnTheWay'
      BY <1>14, <2>2 DEF Event, OnTheWay, IdeHas
    <3> QED  BY <1>14, <2>2, <3>1, ModesKept DEF Event
  <2> QED  BY <2>1, <2>2
<1>s. /\ \A s \in Sessions : Action(control, <<StateMsg(s)>>) \in StateActions({control})
      /\ Action(control, <<StateMsg("Play"), StateMsg("Pause")>>) \in StateActions({control})
      /\ "Idle" \in Sessions /\ "Play" \in Sessions /\ "Pause" \in Sessions
  <2>1. "Idle" \in Sessions /\ "Play" \in Sessions /\ "Pause" \in Sessions
    BY DEF Sessions
  <2> QED  BY <2>1, NewActions
<1>15. CASE BeginPIE
  BY <1>15, <1>14, <1>s DEF BeginPIE
<1>16. CASE EndPIE
  BY <1>16, <1>14, <1>s DEF EndPIE
<1>17. CASE PausePIE
  BY <1>17, <1>14, <1>s DEF PausePIE
<1>18. CASE ResumePIE
  BY <1>18, <1>14, <1>s DEF ResumePIE
<1>19. CASE SingleStepPIE
  BY <1>19, <1>14, <1>s DEF SingleStepPIE
<1>20. CASE Execute
  <2> DEFINE k == Head(commands)
  <2>1. commands # <<>> /\ commands \in Seq(Commands(connection))
    BY <1>20 DEF Execute, TypeOK
  <2>2. k \in Commands(connection)
    BY <2>1, TailIs
  <2>3. k.request \in 1..MaxRequests /\ k.control \in 0..connection
    BY <2>2 DEF Commands
  <2>4. Action(k.control, <<Reply(k.request)>>) \in ReplyActions({k.control})
    BY <2>3, NewActions
  <2> HIDE DEF k
  <2>5. ScheduleModelAction("game", k.control, <<Reply(k.request)>>)
    BY <1>20 DEF Execute, k
  <2> QED  BY <1>20, <1>g, <2>3, <2>4, <2>5 DEF Execute
<1>21. CASE IdeReceive
  <2> DEFINE m == Head(toIde)
  <2>1. toIde # <<>> /\ toIde' = Tail(toIde)
        /\ UNCHANGED <<connection, up, control, queue, settings, playMode, at, seen, met, toEditor>>
    BY <1>21 DEF IdeReceive
  <2>2. /\ m \in IdeMsgs
        /\ Occurs(toIde, ModeMsgs) <=> m \in ModeMsgs \/ Occurs(toIde', ModeMsgs)
        /\ LastIn(toIde, ModeMsgs, {ModeMsg(playMode)}) =>
             LastIn(toIde', ModeMsgs, {ModeMsg(playMode)})
             /\ (m \in ModeMsgs /\ ~Occurs(toIde', ModeMsgs) => m = ModeMsg(playMode))
    BY <1>y, <2>1, TailIs, TailOccurs, TailLast
  <2>3. m \notin ModeMsgs => ide'.mode = ide.mode
    <3>1. ASSUME m \notin ModeMsgs PROVE m.kind # "mode" /\ m.kind \in {"state", "initialized", "reply"}
      BY <2>2, <3>1 DEF IdeMsgs, StateMsgs, Replies, Reply, Initialized
    <3> QED  BY <1>21, <3>1 DEF IdeReceive, TypeOK
  <2>4. m = ModeMsg(playMode) => ide'.mode = playMode
    BY <1>21 DEF IdeReceive, TypeOK, ModeMsg
  <2>5. OnTheWay => OnTheWay'
    BY <2>1, <2>2, <2>3, <2>4 DEF OnTheWay, IdeHas
  <2> QED  BY <2>1, <2>5, ModesKept
<1>22. ASSUME NEW m \in Modes, IdeChange(m) PROVE ModesInv'
  <2>1. UNCHANGED <<connection, up, control, queue, settings, playMode, at, seen, met, toIde>>
        /\ toEditor' = Append(toEditor, ModeMsg(m)) /\ ide' = [ide EXCEPT !.mode = m]
    BY <1>22 DEF IdeChange
  <2>2. ide'.mode = m
    BY <2>1 DEF TypeOK
  <2>3. ModeMsg(m) \in EditorMsgs /\ ModeMsg(m) \in ModeMsgs
    BY GameControlAssumption, MsgTypes DEF EditorMsgs
  <2>4. IdeHas'
    BY <1>y, <2>1, <2>2, <2>3, LastMeans DEF IdeHas
  <2>5. OnTheWay => OnTheWay'
    BY <2>1, <2>4 DEF OnTheWay
  <2> QED  BY <2>1, <2>5, ModesKept
<1>23. CASE IdeRequest
  <2>1. UNCHANGED <<connection, up, control, queue, settings, playMode, at, seen, met, toIde, ide>>
        /\ toEditor' = Append(toEditor, Request(asked + 1))
    BY <1>23 DEF IdeRequest
  <2>2. Request(asked + 1) \in EditorMsgs /\ Request(asked + 1) \notin ModeMsgs
    <3>1. asked + 1 \in 1..MaxRequests
      BY <1>23, GameControlAssumption DEF IdeRequest, TypeOK
    <3> QED  BY <3>1, MsgTypes DEF EditorMsgs, Requests
  <2>3. IdeHas => IdeHas'
    BY <1>y, <2>1, <2>2, AppendOccurs, AppendLast DEF IdeHas
  <2>4. OnTheWay => OnTheWay'
    BY <2>1, <2>3 DEF OnTheWay
  <2> QED  BY <2>1, <2>4, ModesKept
<1>24. CASE UNCHANGED vars
  <2>1. OnTheWay => OnTheWay'
    BY <1>24 DEF vars, OnTheWay, IdeHas
  <2> QED  BY <1>24, <2>1, ModesKept DEF vars
<1> QED
  BY <1>1, <1>2, <1>3, <1>4, <1>5, <1>6, <1>7, <1>8, <1>9, <1>10, <1>11, <1>12, <1>13, <1>15, <1>16,
     <1>17, <1>18, <1>19, <1>20, <1>21, <1>22, <1>23, <1>24, <1>t
  DEF Next, SchedulerThread, GameThread, User

-----------------------------------------------------------------------------
(* The session.                                                            *)

AllStates == StateActions(Nat)
SessionEnds == {a \in StateActions({connection}) : a.msgs[Len(a.msgs)] = StateMsg(session)}
\* The last that was sent of the session, or is shown, is its state.
InForm ==
  /\ LastIn(toIde, StateMsgs, {StateMsg(session)})
  /\ ~Occurs(toIde, StateMsgs) => ide.state = session
StatesInv ==
  up /\ told =>
    /\ control = connection
    /\ LastIn(queue, AllStates, SessionEnds)
    /\ ~Occurs(queue, AllStates) => InForm

LEMMA InitStates == Init => StatesInv
BY DEF Init, StatesInv

LEMMA StatesKept ==
  ASSUME TypeOK, StatesInv, UNCHANGED <<connection, up, control, told, session>>,
         \/ queue' = queue
         \/ \E e \in Queued(connection) : e \notin AllStates /\ queue' = Append(queue, e)
         \/ queue # <<>> /\ queue' = Tail(queue) /\ Head(queue) \notin AllStates,
         up /\ told /\ InForm => InForm'
  PROVE StatesInv'
<1>1. SessionEnds' = SessionEnds
  BY DEF SessionEnds
<1>2. LastIn(queue, AllStates, SessionEnds) => LastIn(queue', AllStates, SessionEnds)
  BY QueueLast
<1>3. Occurs(queue', AllStates) <=> Occurs(queue, AllStates)
  BY Added, Taken
<1> QED  BY <1>1, <1>2, <1>3 DEF StatesInv

LEMMA StatesStep == TypeOK /\ Links /\ StatesInv /\ [Next]_vars => StatesInv'
<1> SUFFICES ASSUME TypeOK, Links, StatesInv, [Next]_vars PROVE StatesInv'
  OBVIOUS
<1> USE DEF editorVars, linkVars, controlVars, threadVars, counters, historyVars
<1>t. "game" \in Threads /\ "scheduler" \in Threads /\ "game" # "scheduler" /\ Threads = {"game", "scheduler"}
  BY DEF Threads
<1>y. /\ queue \in Seq(Queued(connection)) /\ toIde \in Seq(IdeMsgs) /\ toEditor \in Seq(EditorMsgs)
      /\ control \in 0..connection /\ connection \in Nat /\ told \in BOOLEAN
      /\ seen \in [Threads -> FPlaySettings]
  BY GameControlAssumption DEF TypeOK
<1>i. ASSUME UNCHANGED <<toIde, ide, session>> PROVE InForm => InForm'
  BY <1>i DEF InForm
<1>a. ASSUME NEW m \in IdeMsgs, m \notin StateMsgs, toIde' = Append(toIde, m) \/ toIde' = toIde, UNCHANGED <<ide, session>>
      PROVE InForm => InForm'
  <2>1. CASE toIde' = toIde
    BY <1>a, <2>1 DEF InForm
  <2>2. CASE toIde' = Append(toIde, m)
    <3>1. Occurs(toIde', StateMsgs) <=> Occurs(toIde, StateMsgs)
      BY <1>a, <1>y, <2>2, AppendOccurs
    <3>2. LastIn(toIde', StateMsgs, {StateMsg(session)}) <=> LastIn(toIde, StateMsgs, {StateMsg(session)})
      BY <1>a, <1>y, <2>2, AppendLast
    <3> QED  BY <1>a, <3>1, <3>2 DEF InForm
  <2> QED  BY <1>a, <2>1, <2>2
<1>1. CASE Connect
  BY <1>1 DEF Connect, StatesInv
<1>2. CASE Disconnect
  BY <1>2 DEF Disconnect, StatesInv
<1>3. CASE Construct
  <2>1. queue # <<>> /\ queue' = Tail(queue) /\ Head(queue).does = "alive"
        /\ UNCHANGED <<connection, up, told, session, toIde, ide>>
    BY <1>3 DEF Construct, Take
  <2>2. SUFFICES ASSUME up, told PROVE StatesInv'
    BY <2>1 DEF StatesInv
  <2>3. Working
    BY <2>2 DEF StatesInv, Working
  <2>4. Head(queue) \in Lives({Head(queue).control})
    BY <2>1, Taken, HeadIs
  <2>5. Head(queue).control # connection
    BY <2>1, <2>3, <2>4, Taken DEF Links, AtWork
  <2>6. control' = control
    BY <1>3, <2>5 DEF Construct
  <2>7. Head(queue) \notin AllStates
    BY <2>1 DEF AllStates, StateActions
  <2> QED  BY <1>i, <2>1, <2>6, <2>7, StatesKept
<1>4. CASE Subscribe
  BY <1>4, <1>i, StatesKept DEF Subscribe
<1>5. CASE Retrieve
  BY <1>5, <1>i, StatesKept DEF Retrieve
<1>6. CASE Sync
  <2>1. at["scheduler"] = "sync" /\ playMode' = PackToMode(seen["scheduler"]) /\ queue' = queue
        /\ (toIde' = toIde \/ toIde' = toIde \o <<ModeMsg(playMode'), Initialized>>)
        /\ UNCHANGED <<connection, up, control, told, session, ide>>
    BY <1>6 DEF Sync, ScheduleModelAction
  <2>2. playMode' \in Nat
    BY <1>t, <1>y, <2>1, ModeNat
  <2>3. /\ ModeMsg(playMode') \in IdeMsgs /\ Initialized \in IdeMsgs
        /\ ModeMsg(playMode') \notin StateMsgs /\ Initialized \notin StateMsgs
    BY <2>2, MsgTypes
  <2>4. InForm => InForm'
    <3>1. CASE toIde' = toIde
      BY <1>i, <2>1, <3>1
    <3>2. CASE toIde' = toIde \o <<ModeMsg(playMode'), Initialized>>
      <4>1. <<ModeMsg(playMode'), Initialized>> \in Seq(IdeMsgs)
        BY <2>3
      <4>2. ~Occurs(<<ModeMsg(playMode'), Initialized>>, StateMsgs)
        BY <2>3 DEF Occurs
      <4>3. Occurs(toIde', StateMsgs) <=> Occurs(toIde, StateMsgs)
        BY <1>y, <3>2, <4>1, <4>2, ConcatOccurs
      <4>4. LastIn(toIde', StateMsgs, {StateMsg(session)}) <=> LastIn(toIde, StateMsgs, {StateMsg(session)})
        BY <1>y, <3>2, <4>1, <4>2, ConcatLast
      <4> QED  BY <2>1, <4>3, <4>4 DEF InForm
    <3> QED  BY <2>1, <3>1, <3>2
  <2> QED  BY <2>1, <2>4, StatesKept
<1>7. CASE Reset
  <2>1. queue # <<>> /\ Head(queue).does = "dead" /\ UNCHANGED <<up, told>>
    BY <1>7 DEF Reset, Take
  <2>2. Head(queue) = Dead
    <3>1. Head(queue) \in Queued(connection)
      BY <1>y, <2>1, TailIs
    <3>2. Head(queue) \notin ActionsOf(0..connection) /\ Head(queue) \notin Lives(1..connection)
      <4>1. "dead" # "action" /\ "dead" # "alive"
        OBVIOUS
      <4> QED  BY <2>1, <4>1, ActionsAre
    <3> QED  BY <3>1, <3>2 DEF Queued
  <2>3. ~Working
    BY <1>y, <2>1, <2>2, TailOccurs DEF Links, AtWork
  <2> QED  BY <2>1, <2>3 DEF StatesInv, Working
<1>8. CASE RunAction
  <2> DEFINE a == Head(queue)
  <2>1. queue # <<>> /\ queue' = Tail(queue) /\ a.does = "action"
        /\ UNCHANGED <<connection, up, control, told, session, ide>>
    BY <1>8 DEF RunAction, Take
  <2>2. a \in ActionsOf({a.control}) /\ a \in ActionsOf(0..connection)
    BY <2>1, Taken, HeadIs
  <2>3. SUFFICES ASSUME up, told PROVE StatesInv'
    BY <2>1 DEF StatesInv
  <2>4. control = connection
    BY <2>3 DEF StatesInv
  <2>5. /\ toIde' = toIde \/ toIde' = toIde \o a.msgs
        /\ a.control = connection => toIde' = toIde \o a.msgs
    BY <1>8, <2>3, <2>4 DEF RunAction
  <2>6. a.msgs \in Seq(IdeMsgs)
    BY <2>2, ActionMsgs
  <2>7. CASE a \notin AllStates
    <3>1. a \in ModeActions({a.control}) \cup ReplyActions({a.control})
      <4>1. a \notin StateActions({a.control})
        BY <1>y, <2>2, <2>7 DEF AllStates, StateActions, ActionsOf, ModeActions, ReplyActions
      <4> QED  BY <2>2, <4>1 DEF ActionsOf
    <3>2. ~Occurs(a.msgs, StateMsgs)
      BY <3>1, OtherMsgs
    <3>3. Occurs(toIde \o a.msgs, StateMsgs) <=> Occurs(toIde, StateMsgs)
      BY <1>y, <2>6, <3>2, ConcatOccurs
    <3>4. LastIn(toIde \o a.msgs, StateMsgs, {StateMsg(session)}) <=> LastIn(toIde, StateMsgs, {StateMsg(session)})
      BY <1>y, <2>6, <3>2, ConcatLast
    <3>5. InForm => InForm'
      BY <2>1, <2>5, <3>3, <3>4 DEF InForm
    <3> QED  BY <2>1, <2>7, <3>5, StatesKept
  <2>8. CASE a \in AllStates
    <3>1. LastIn(queue', AllStates, SessionEnds) /\ (~Occurs(queue', AllStates) => a \in SessionEnds)
      BY <2>1, <2>3, <2>8, QueueLast DEF StatesInv
    <3>2. ASSUME a \in SessionEnds PROVE InForm'
      <4>1. a.control = connection /\ a.msgs \in Seq(StateMsgs) /\ a.msgs # <<>> /\ a.msgs[Len(a.msgs)] = StateMsg(session)
        BY <3>2 DEF SessionEnds, StateActions
      <4>2. Len(a.msgs) \in 1..Len(a.msgs) /\ a.msgs[Len(a.msgs)] \in StateMsgs
        BY <4>1
      <4>3. toIde' = toIde \o a.msgs
        BY <2>5, <4>1
      <4>4. Occurs(a.msgs, StateMsgs)
        BY <4>2 DEF Occurs
      <4>5. Occurs(toIde', StateMsgs)
        BY <1>y, <2>6, <4>3, <4>4, ConcatOccurs
      <4>6. LastIn(toIde', StateMsgs, {StateMsg(session)})
        <5>1. a.msgs[Len(a.msgs)] \in StateMsgs \cap {StateMsg(session)}
          BY <4>1, <4>2
        <5> QED  BY <1>y, <2>6, <4>1, <4>3, <5>1, ConcatLast
      <4> QED  BY <2>1, <4>5, <4>6 DEF InForm
    <3>3. SessionEnds' = SessionEnds
      BY <2>1 DEF SessionEnds
    <3> QED  BY <2>1, <2>4, <3>1, <3>2, <3>3 DEF StatesInv
  <2> QED  BY <2>7, <2>8
<1>9. CASE Receive
  <2>1. UNCHANGED <<connection, up, control, told, session, ide, queue>> /\ toEditor # <<>>
    BY <1>9 DEF Receive
  <2>2. toIde' = toIde \/ \E r \in 1..MaxRequests : toIde' = Append(toIde, Reply(r))
    <3>1. Head(toEditor) \in EditorMsgs
      BY <1>y, <2>1, TailIs
    <3>2. CASE Head(toEditor).kind = "mode" \/ ~subscribed
      <4>1. ~subscribed => toIde' = toIde
        BY <1>9 DEF Receive
      <4>2. subscribed => OnMode(Head(toEditor).value)
        BY <1>9, <3>2 DEF Receive
      <4> QED  BY <4>1, <4>2 DEF OnMode
    <3>3. CASE Head(toEditor).kind # "mode" /\ subscribed
      <4>1. PICK r \in 1..MaxRequests : Head(toEditor) = Request(r)
        BY <3>1, <3>3 DEF EditorMsgs, Requests, ModeMsg
      <4>2. OnRequest(r)
        BY <1>9, <3>3, <4>1 DEF Receive, Request
      <4> QED  BY <4>2 DEF OnRequest
    <3> QED  BY <3>2, <3>3
  <2>3. \A r \in 1..MaxRequests : Reply(r) \in IdeMsgs /\ Reply(r) \notin StateMsgs
    BY MsgTypes DEF Replies
  <2>4. InForm => InForm'
    BY <1>a, <1>i, <2>1, <2>2, <2>3
  <2> QED  BY <2>1, <2>4, StatesKept
<1>10. ASSUME NEW t \in Threads, ReadSettings(t) PROVE StatesInv'
  BY <1>10, <1>i, StatesKept DEF ReadSettings
<1>11. ASSUME NEW t \in Threads, Compare(t) PROVE StatesInv'
  BY <1>11, <1>i, StatesKept DEF Compare
<1>12. ASSUME NEW t \in Threads, SendMode(t) PROVE StatesInv'
  <2> DEFINE m == PackToMode(seen[t])
             e == Action(control, <<ModeMsg(m)>>)
  <2>1. UNCHANGED <<connection, up, control, told, session, ide>> /\ ScheduleModelAction(t, control, <<ModeMsg(m)>>)
    BY <1>12 DEF SendMode
  <2>2. m \in Nat
    BY <1>y, ModeNat
  <2>3. ModeMsg(m) \in IdeMsgs /\ ModeMsg(m) \notin StateMsgs
    BY <2>2, MsgTypes
  <2>4. e \in ModeActions(0..connection)
    BY <1>y, <2>2, NewActions
  <2>5. e \in Queued(connection) /\ e \notin AllStates
    BY <2>4, ModesAre DEF Queued, ActionsOf, AllStates
  <2> HIDE DEF m, e
  <2>6. CASE t = "game"
    <3>1. queue' = Append(queue, e) /\ toIde' = toIde
      BY <2>1, <2>6, <1>t DEF ScheduleModelAction, e
    <3> QED  BY <1>i, <2>1, <2>5, <3>1, StatesKept
  <2>7. CASE t = "scheduler"
    <3>1. queue' = queue /\ (toIde' = toIde \/ toIde' = toIde \o <<ModeMsg(m)>>)
      BY <2>1, <2>7 DEF ScheduleModelAction
    <3>2. toIde \o <<ModeMsg(m)>> = Append(toIde, ModeMsg(m))
      BY <1>y, <2>3
    <3>3. InForm => InForm'
      BY <1>a, <2>1, <2>3, <3>1, <3>2
    <3> QED  BY <2>1, <3>1, <3>3, StatesKept
  <2> QED  BY <1>t, <2>6, <2>7
<1>13. ASSUME NEW s \in Settings, Change(s) PROVE StatesInv'
  BY <1>13, <1>i, StatesKept DEF Change
<1>14. ASSUME NEW from, NEW to, NEW msgs, Event(from, to, msgs), Action(control, msgs) \in StateActions({control}),
              msgs[Len(msgs)] = StateMsg(to)
       PROVE StatesInv'
  <2>1. UNCHANGED <<connection, up, control, ide>> /\ session' = to
    BY <1>14 DEF Event
  <2>2. SUFFICES ASSUME up', told' PROVE StatesInv'
    BY DEF StatesInv
  <2>3. Working /\ registered
    <3>1. registered => told' = (told \/ control = connection)
      BY <1>14 DEF Event
    <3>2. ~registered => told' = told
      BY <1>14 DEF Event
    <3>3. up /\ (told => control = connection)
      BY <2>1, <2>2 DEF StatesInv
    <3>4. Working => registered
      BY DEF Links, AtWork
    <3> QED  BY <1>y, <2>2, <3>1, <3>2, <3>3, <3>4 DEF Working
  <2>4. ScheduleModelAction("game", control, msgs)
    BY <1>14, <2>3 DEF Event
  <2> DEFINE e == Action(control, msgs)
  <2>5. queue' = Append(queue, e) /\ toIde' = toIde
    BY <2>4 DEF ScheduleModelAction
  <2>6. e \in AllStates /\ e \in Queued(connection) /\ e.msgs = msgs
    <3>1. e \in StateActions(0..connection) /\ e \in StateActions(Nat)
      BY <1>14, <1>y DEF StateActions
    <3> QED  BY <3>1 DEF AllStates, Queued, ActionsOf, Action
  <2>7. e \in SessionEnds'
    BY <1>14, <2>1, <2>3, <2>6 DEF SessionEnds, Working
  <2> HIDE DEF e
  <2>8. Occurs(queue', AllStates) /\ LastIn(queue', AllStates, SessionEnds')
    BY <1>y, <2>5, <2>6, <2>7, LastMeans
  <2> QED  BY <2>1, <2>3, <2>8 DEF StatesInv, Working
<1>s. /\ \A s \in Sessions : Action(control, <<StateMsg(s)>>) \in StateActions({control})
      /\ Action(control, <<StateMsg("Play"), StateMsg("Pause")>>) \in StateActions({control})
      /\ "Idle" \in Sessions /\ "Play" \in Sessions /\ "Pause" \in Sessions
      /\ \A s : <<StateMsg(s)>>[Len(<<StateMsg(s)>>)] = StateMsg(s)
      /\ <<StateMsg("Play"), StateMsg("Pause")>>[Len(<<StateMsg("Play"), StateMsg("Pause")>>)] = StateMsg("Pause")
  <2>1. "Idle" \in Sessions /\ "Play" \in Sessions /\ "Pause" \in Sessions
    BY DEF Sessions
  <2>2. \A s : <<StateMsg(s)>>[Len(<<StateMsg(s)>>)] = StateMsg(s)
    OBVIOUS
  <2>3. <<StateMsg("Play"), StateMsg("Pause")>>[Len(<<StateMsg("Play"), StateMsg("Pause")>>)] = StateMsg("Pause")
    OBVIOUS
  <2> QED  BY <2>1, <2>2, <2>3, NewActions
<1>15. CASE BeginPIE
  BY <1>15, <1>14, <1>s DEF BeginPIE
<1>16. CASE EndPIE
  BY <1>16, <1>14, <1>s DEF EndPIE
<1>17. CASE PausePIE
  BY <1>17, <1>14, <1>s DEF PausePIE
<1>18. CASE ResumePIE
  BY <1>18, <1>14, <1>s DEF ResumePIE
<1>19. CASE SingleStepPIE
  BY <1>19, <1>14, <1>s DEF SingleStepPIE
<1>20. CASE Execute
  <2> DEFINE k == Head(commands)
             e == Action(k.control, <<Reply(k.request)>>)
  <2>1. commands # <<>> /\ commands \in Seq(Commands(connection))
    BY <1>20 DEF Execute, TypeOK
  <2>2. k \in Commands(connection)
    BY <2>1, TailIs
  <2>3. k.request \in 1..MaxRequests /\ k.control \in 0..connection
    BY <2>2 DEF Commands
  <2>4. e \in ReplyActions(0..connection)
    BY <2>3, NewActions
  <2>5. e \in Queued(connection) /\ e \notin AllStates
    BY <2>4, ModesAre DEF Queued, ActionsOf, AllStates
  <2>6. queue' = Append(queue, e) /\ toIde' = toIde
    BY <1>20 DEF Execute, ScheduleModelAction
  <2> HIDE DEF k, e
  <2> QED  BY <1>20, <1>i, <2>5, <2>6, StatesKept DEF Execute
<1>21. CASE IdeReceive
  <2> DEFINE m == Head(toIde)
  <2>1. toIde # <<>> /\ toIde' = Tail(toIde) /\ UNCHANGED <<connection, up, control, told, session, queue>>
    BY <1>21 DEF IdeReceive
  <2>2. /\ m \in IdeMsgs
        /\ Occurs(toIde, StateMsgs) <=> m \in StateMsgs \/ Occurs(toIde', StateMsgs)
        /\ LastIn(toIde, StateMsgs, {StateMsg(session)}) =>
             LastIn(toIde', StateMsgs, {StateMsg(session)})
             /\ (m \in StateMsgs /\ ~Occurs(toIde', StateMsgs) => m = StateMsg(session))
    BY <1>y, <2>1, TailIs, TailOccurs, TailLast
  <2>3. m \notin StateMsgs => ide'.state = ide.state
    <3>1. ASSUME m \notin StateMsgs PROVE m.kind # "state" /\ m.kind \in {"mode", "initialized", "reply"}
      BY <2>2, <3>1 DEF IdeMsgs, ModeMsgs, Replies, Reply, Initialized
    <3> QED  BY <1>21, <3>1 DEF IdeReceive, TypeOK
  <2>4. m = StateMsg(session) => ide'.state = session
    BY <1>21 DEF IdeReceive, TypeOK, StateMsg
  <2>5. InForm => InForm'
    BY <2>1, <2>2, <2>3, <2>4 DEF InForm
  <2> QED  BY <2>1, <2>5, StatesKept
<1>22. ASSUME NEW m \in Modes, IdeChange(m) PROVE StatesInv'
  <2>1. InForm => InForm'
    BY <1>22 DEF IdeChange, InForm, TypeOK
  <2> QED  BY <1>22, <2>1, StatesKept DEF IdeChange
<1>23. CASE IdeRequest
  BY <1>23, <1>i, StatesKept DEF IdeRequest
<1>24. CASE UNCHANGED vars
  BY <1>24, <1>i, StatesKept DEF vars
<1> QED
  BY <1>1, <1>2, <1>3, <1>4, <1>5, <1>6, <1>7, <1>8, <1>9, <1>10, <1>11, <1>12, <1>13, <1>15, <1>16,
     <1>17, <1>18, <1>19, <1>20, <1>21, <1>22, <1>23, <1>24, <1>t
  DEF Next, SchedulerThread, GameThread, User

-----------------------------------------------------------------------------
(* Requests.                                                               *)

Cmds(r) == [request : {r}, control : Nat]
Answers(r) == [does : {"action"}, control : Nat, msgs : {<<Reply(r)>>}]

InEditor(r) == Occurs(toEditor, {Request(r)})
InCommands(r) == Occurs(commands, Cmds(r))
InQueue(r) == Occurs(queue, Answers(r))
InIde(r) == Occurs(toIde, {Reply(r)})
\* A request is in one place at most, and in none before it is made.
Alone(r) ==
  /\ Once(toEditor, {Request(r)}) /\ Once(commands, Cmds(r)) /\ Once(queue, Answers(r)) /\ Once(toIde, {Reply(r)})
  /\ InCommands(r) => ~InEditor(r)
  /\ InQueue(r) => ~InEditor(r) /\ ~InCommands(r)
  /\ InIde(r) => ~InEditor(r) /\ ~InCommands(r) /\ ~InQueue(r)
  /\ ide.replies[r] # 0 => ide.replies[r] = 1 /\ ~InEditor(r) /\ ~InCommands(r) /\ ~InQueue(r) /\ ~InIde(r)
  /\ r > asked => ide.replies[r] = 0 /\ ~InEditor(r) /\ ~InCommands(r) /\ ~InQueue(r) /\ ~InIde(r)
RequestsInv == \A r \in 1..MaxRequests : Alone(r)

\* From s to t nothing of X has been added.
NoMore(t, s, X) == (Occurs(t, X) => Occurs(s, X)) /\ (Once(s, X) => Once(t, X))
Fewer(r) ==
  /\ NoMore(toEditor', toEditor, {Request(r)}) /\ NoMore(commands', commands, Cmds(r))
  /\ NoMore(queue', queue, Answers(r)) /\ NoMore(toIde', toIde, {Reply(r)})

LEMMA NoMoreWhen ==
  ASSUME NEW T, NEW s \in Seq(T), NEW X
  PROVE /\ NoMore(s, s, X) /\ NoMore(<<>>, s, X)
        /\ s # <<>> => NoMore(Tail(s), s, X)
        /\ \A e \in T : e \notin X => NoMore(Append(s, e), s, X)
        /\ \A t \in Seq(T) : ~Occurs(t, X) => NoMore(s \o t, s, X)
<1>1. NoMore(s, s, X) /\ NoMore(<<>>, s, X)
  BY EmptyHas DEF NoMore
<1>2. s # <<>> => NoMore(Tail(s), s, X)
  BY TailOccurs, TailOnce DEF NoMore
<1>3. \A e \in T : e \notin X => NoMore(Append(s, e), s, X)
  BY AppendOccurs, AppendOnce DEF NoMore
<1>4. ASSUME NEW t \in Seq(T), ~Occurs(t, X) PROVE NoMore(s \o t, s, X)
  <2> DEFINE q == s \o t
  <2>1. Occurs(q, X) <=> Occurs(s, X)
    BY <1>4, ConcatOccurs
  <2>2. \A i \in 1..Len(q) : q[i] \in X => i \in 1..Len(s) /\ q[i] = s[i]
    BY <1>4, ConcatIs DEF Occurs
  <2> HIDE DEF q
  <2>3. Once(s, X) => Once(q, X)
    BY <2>2 DEF Once
  <2> QED  BY <2>1, <2>3 DEF NoMore, q
<1> QED  BY <1>1, <1>2, <1>3, <1>4

LEMMA AnswersAre ==
  ASSUME NEW r, NEW C
  PROVE /\ \A a \in Lives(C) \cup {Dead} \cup ModeActions(C) \cup StateActions(C) : a \notin Answers(r)
        /\ \A c, v : Action(c, <<Reply(v)>>) \in Answers(r) => v = r
        /\ \A c \in Nat : Action(c, <<Reply(r)>>) \in Answers(r)
<1>1. \A a \in Answers(r) : a.does = "action" /\ a.msgs[1].kind = "reply" /\ a.msgs[1].value = r
  BY DEF Answers, Reply
<1>2. \A a \in Lives(C) \cup {Dead} : a.does # "action"
  BY DEF Lives, Alive, Dead
<1>3. \A a \in ModeActions(C) : a.msgs[1].kind = "mode"
  <2>1. \A a \in ModeActions(C) : a.msgs[1] \in ModeMsgs
    BY DEF ModeActions
  <2> QED  BY <2>1 DEF ModeMsgs
<1>4. \A a \in StateActions(C) : a.msgs[1].kind = "state"
  <2>1. \A a \in StateActions(C) : a.msgs[1] \in StateMsgs
    BY DEF StateActions
  <2> QED  BY <2>1 DEF StateMsgs
<1>5. \A c, v : Action(c, <<Reply(v)>>).msgs[1].value = v
  BY DEF Action, Reply
<1>6. \A c \in Nat : Action(c, <<Reply(r)>>) \in Answers(r)
  BY DEF Action, Answers
<1> QED  BY <1>1, <1>2, <1>3, <1>4, <1>5, <1>6

LEMMA RequestsKept ==
  ASSUME TypeOK, NEW r \in 1..MaxRequests, Alone(r), Fewer(r), ide'.replies[r] = ide.replies[r], asked' = asked
  PROVE Alone(r)'
BY DEF Alone, Fewer, NoMore, InEditor, InCommands, InQueue, InIde

LEMMA InitRequests == Init => RequestsInv
<1> SUFFICES ASSUME Init, NEW r \in 1..MaxRequests PROVE Alone(r)
  BY DEF RequestsInv
<1>1. queue = <<>> /\ commands = <<>> /\ toIde = <<>> /\ toEditor = <<>> /\ ide = NewIde
  BY DEF Init
<1>2. ide.replies[r] = 0
  BY <1>1 DEF NewIde
<1> QED  BY <1>1, <1>2, EmptyHas DEF Alone, InEditor, InCommands, InQueue, InIde

LEMMA RequestsStep == TypeOK /\ RequestsInv /\ [Next]_vars => RequestsInv'
<1> SUFFICES ASSUME TypeOK, RequestsInv, [Next]_vars, NEW r \in 1..MaxRequests PROVE Alone(r)'
  BY DEF RequestsInv
<1> USE DEF editorVars, linkVars, controlVars, threadVars, counters, historyVars
<1>t. "game" \in Threads /\ "scheduler" \in Threads /\ "game" # "scheduler" /\ Threads = {"game", "scheduler"}
  BY DEF Threads
<1>y. /\ queue \in Seq(Queued(connection)) /\ toIde \in Seq(IdeMsgs) /\ toEditor \in Seq(EditorMsgs)
      /\ commands \in Seq(Commands(connection))
      /\ control \in 0..connection /\ connection \in Nat /\ asked \in Nat
      /\ seen \in [Threads -> FPlaySettings]
  BY GameControlAssumption DEF TypeOK
<1>h. Alone(r)
  BY DEF RequestsInv
<1>q. /\ NoMore(queue, queue, Answers(r))
      /\ queue # <<>> => NoMore(Tail(queue), queue, Answers(r))
      /\ \A e \in Queued(connection) : e \notin Answers(r) => NoMore(Append(queue, e), queue, Answers(r))
  BY <1>y, NoMoreWhen
<1>i. /\ NoMore(toIde, toIde, {Reply(r)}) /\ NoMore(<<>>, toIde, {Reply(r)})
      /\ toIde # <<>> => NoMore(Tail(toIde), toIde, {Reply(r)})
      /\ \A e \in IdeMsgs : e \notin {Reply(r)} => NoMore(Append(toIde, e), toIde, {Reply(r)})
      /\ \A t \in Seq(IdeMsgs) : ~Occurs(t, {Reply(r)}) => NoMore(toIde \o t, toIde, {Reply(r)})
  BY <1>y, NoMoreWhen
<1>e. /\ NoMore(toEditor, toEditor, {Request(r)}) /\ NoMore(<<>>, toEditor, {Request(r)})
      /\ toEditor # <<>> => NoMore(Tail(toEditor), toEditor, {Request(r)})
      /\ \A e \in EditorMsgs : e \notin {Request(r)} => NoMore(Append(toEditor, e), toEditor, {Request(r)})
  BY <1>y, NoMoreWhen
<1>c. /\ NoMore(commands, commands, Cmds(r))
      /\ commands # <<>> => NoMore(Tail(commands), commands, Cmds(r))
      /\ \A e \in Commands(connection) : e \notin Cmds(r) => NoMore(Append(commands, e), commands, Cmds(r))
  BY <1>y, NoMoreWhen
<1>m. Reply(r) \in Replies /\ Reply(r) \in IdeMsgs /\ Reply(r) \notin ModeMsgs /\ Reply(r) \notin StateMsgs /\ Reply(r) # Initialized
  BY MsgTypes DEF Replies
<1>v. \A v : Reply(v) = Reply(r) => v = r
  BY DEF Reply
<1>w. \A v : Request(v) = Request(r) => v = r
  BY DEF Request
<1>f. ASSUME UNCHANGED <<commands, toIde, toEditor, ide, asked>>, NoMore(queue', queue, Answers(r)) PROVE Alone(r)'
  <2>1. Fewer(r)
    BY <1>f, <1>i, <1>e, <1>c DEF Fewer
  <2> QED  BY <1>f, <1>h, <2>1, RequestsKept
<1>1. CASE Connect
  <2>1. queue' = Append(queue, Alive(connection + 1)) /\ ide' = NewIde /\ UNCHANGED <<commands, toIde, toEditor, asked>>
    BY <1>1 DEF Connect
  <2>2. queue \in Seq(Queued(connection + 1)) /\ Alive(connection + 1) \in Queued(connection + 1)
    <3>1. queue \in Seq(Queued(connection + 1))
      BY <1>y, QueuedGrows, SeqGrows
    <3>2. Alive(connection + 1) \in Queued(connection + 1)
      BY <1>y DEF Queued, Lives
    <3> QED  BY <3>1, <3>2
  <2>3. Alive(connection + 1) \notin Answers(r)
    <3>1. Alive(connection + 1) \in Lives({connection + 1})
      BY ActionsAre
    <3> QED  BY <3>1, AnswersAre
  <2>4. NoMore(queue', queue, Answers(r))
    BY <2>1, <2>2, <2>3, NoMoreWhen
  <2>5. ide'.replies[r] = 0
    BY <2>1 DEF NewIde
  <2> QED  BY <1>h, <2>1, <2>4, <2>5 DEF Alone, NoMore, InEditor, InCommands, InQueue, InIde
<1>2. CASE Disconnect
  <2>1. queue' = Append(queue, Dead) /\ toIde' = <<>> /\ toEditor' = <<>> /\ UNCHANGED <<commands, ide, asked>>
    BY <1>2 DEF Disconnect
  <2>2. Dead \in Queued(connection) /\ Dead \notin Answers(r)
    BY AnswersAre DEF Queued
  <2>3. Fewer(r)
    BY <1>q, <1>i, <1>e, <1>c, <2>1, <2>2 DEF Fewer
  <2> QED  BY <1>h, <2>1, <2>3, RequestsKept
<1>3. CASE Construct
  BY <1>3, <1>f, <1>q DEF Construct, Take
<1>4. CASE Subscribe
  BY <1>4, <1>f, <1>q DEF Subscribe
<1>5. CASE Retrieve
  BY <1>5, <1>f, <1>q DEF Retrieve
<1>6. CASE Sync
  <2>1. playMode' = PackToMode(seen["scheduler"]) /\ queue' = queue
        /\ (toIde' = toIde \/ toIde' = toIde \o <<ModeMsg(playMode'), Initialized>>)
        /\ UNCHANGED <<commands, toEditor, ide, asked>>
    BY <1>6 DEF Sync, ScheduleModelAction
  <2>2. playMode' \in Nat
    BY <1>t, <1>y, <2>1, ModeNat
  <2>3. ModeMsg(playMode') \in IdeMsgs /\ Initialized \in IdeMsgs /\ ModeMsg(playMode') # Reply(r)
    BY <1>m, <2>2, MsgTypes
  <2>4. <<ModeMsg(playMode'), Initialized>> \in Seq(IdeMsgs) /\ ~Occurs(<<ModeMsg(playMode'), Initialized>>, {Reply(r)})
    BY <1>m, <2>3 DEF Occurs
  <2>5. Fewer(r)
    BY <1>q, <1>i, <1>e, <1>c, <2>1, <2>4 DEF Fewer
  <2> QED  BY <1>h, <2>1, <2>5, RequestsKept
<1>7. CASE Reset
  BY <1>7, <1>f, <1>q DEF Reset, Take
<1>8. CASE RunAction
  <2> DEFINE a == Head(queue)
  <2>1. queue # <<>> /\ queue' = Tail(queue) /\ a.does = "action" /\ (toIde' = toIde \/ toIde' = toIde \o a.msgs)
        /\ UNCHANGED <<commands, toEditor, ide, asked>>
    BY <1>8 DEF RunAction, Take
  <2>2. a \in ActionsOf(0..connection) /\ a.msgs \in Seq(IdeMsgs)
    <3>1. a \in ActionsOf(0..connection)
      BY <2>1, Taken, HeadIs
    <3> QED  BY <3>1, ActionMsgs
  <2>3. CASE toIde' = toIde
    BY <1>f, <1>q, <2>1, <2>3
  <2>4. CASE toIde' = toIde \o a.msgs /\ a \notin Answers(r)
    <3>1. ~Occurs(a.msgs, {Reply(r)})
      <4>1. CASE a \in ModeActions(0..connection) \cup StateActions(0..connection)
        BY <1>m, <4>1, OtherMsgs DEF Occurs
      <4>2. CASE a \in ReplyActions(0..connection)
        <5>1. PICK v \in 1..MaxRequests : a.msgs = <<Reply(v)>>
          BY <4>2 DEF ReplyActions, Replies
        <5>2. v # r
          <6>1. a.does = "action" /\ a.control \in Nat
            <7>1. a.does = "action" /\ a.control \in 0..connection
              BY <4>2 DEF ReplyActions
            <7> QED  BY <1>y, <7>1
          <6>2. a = [does |-> a.does, control |-> a.control, msgs |-> a.msgs]
            BY <4>2 DEF ReplyActions
          <6>3. a.msgs # <<Reply(r)>>
            BY <2>4, <6>1, <6>2 DEF Answers
          <6> QED  BY <5>1, <6>3
        <5>3. \A i \in 1..Len(a.msgs) : a.msgs[i] = Reply(v)
          BY <5>1
        <5> QED  BY <1>v, <5>2, <5>3 DEF Occurs
      <4> QED  BY <2>2, <4>1, <4>2 DEF ActionsOf
    <3>2. Fewer(r)
      BY <1>q, <1>i, <1>e, <1>c, <2>1, <2>2, <2>4, <3>1 DEF Fewer
    <3> QED  BY <1>h, <2>1, <3>2, RequestsKept
  <2>5. CASE toIde' = toIde \o a.msgs /\ a \in Answers(r)
    <3>1. a.msgs = <<Reply(r)>>
      BY <2>5 DEF Answers
    <3>2. toIde' = Append(toIde, Reply(r))
      <4>1. toIde' = toIde \o <<Reply(r)>>
        BY <2>5, <3>1
      <4> QED  BY <1>y, <1>m, <4>1
    <3>3. InQueue(r) /\ ~InQueue(r)' /\ Once(queue', Answers(r))
      BY <1>h, <2>1, <2>5, Taken DEF InQueue, Alone
    <3>4. ~InEditor(r) /\ ~InCommands(r) /\ ~InIde(r) /\ ide.replies[r] = 0 /\ ~(r > asked)
      BY <1>h, <3>3 DEF Alone
    <3>5. Once(toIde', {Reply(r)})
      BY <1>h, <1>y, <1>m, <3>2, <3>4, AppendOnce DEF Alone, InIde
    <3> QED  BY <1>h, <2>1, <3>3, <3>4, <3>5 DEF Alone, InEditor, InCommands
  <2> QED  BY <2>1, <2>3, <2>4, <2>5
<1>9. CASE Receive
  <2> DEFINE m == Head(toEditor)
  <2>1. toEditor # <<>> /\ toEditor' = Tail(toEditor) /\ m \in EditorMsgs /\ UNCHANGED <<queue, ide, asked>>
    <3>1. toEditor # <<>> /\ toEditor' = Tail(toEditor) /\ UNCHANGED <<queue, ide, asked>>
      BY <1>9 DEF Receive
    <3> QED  BY <1>y, <3>1, TailIs
  <2>2. ASSUME UNCHANGED <<commands, toIde>> PROVE Alone(r)'
    <3>1. Fewer(r)
      BY <1>q, <1>i, <1>e, <1>c, <2>1, <2>2 DEF Fewer
    <3> QED  BY <1>h, <2>1, <3>1, RequestsKept
  <2>3. CASE ~subscribed
    BY <1>9, <2>2, <2>3 DEF Receive
  <2>4. CASE subscribed /\ m.kind = "mode"
    <3>1. OnMode(m.value)
      BY <1>9, <2>4 DEF Receive
    <3> QED  BY <2>2, <3>1 DEF OnMode
  <2>5. CASE subscribed /\ m.kind # "mode"
    <3>1. PICK v \in 1..MaxRequests : m = Request(v)
      BY <2>1, <2>5 DEF EditorMsgs, Requests, ModeMsg
    <3>2. OnRequest(v)
      BY <1>9, <2>5, <3>1 DEF Receive, Request
    <3> DEFINE k == [request |-> v, control |-> control]
    <3>3. k \in Commands(connection) /\ (v = r <=> k \in Cmds(r))
      BY <1>y DEF Commands, Cmds
    <3>4. Reply(v) \in IdeMsgs
      BY DEF IdeMsgs, Replies
    <3>5. \/ commands' = Append(commands, k) /\ toIde' = toIde
          \/ (toIde' = Append(toIde, Reply(v)) \/ toIde' = toIde) /\ commands' = commands
      BY <3>2 DEF OnRequest
    <3> HIDE DEF k
    <3>6. CASE v # r
      <4>1. Fewer(r)
        BY <1>q, <1>i, <1>e, <1>c, <1>v, <2>1, <3>3, <3>4, <3>5, <3>6 DEF Fewer
      <4> QED  BY <1>h, <2>1, <4>1, RequestsKept
    <3>7. CASE v = r
      <4>1. InEditor(r) /\ ~InEditor(r)' /\ Once(toEditor', {Request(r)})
        BY <1>h, <1>y, <2>1, <3>1, <3>7, TailOccurs, TailOnce DEF InEditor, Alone
      <4>2. ~InCommands(r) /\ ~InQueue(r) /\ ~InIde(r) /\ ide.replies[r] = 0 /\ ~(r > asked)
        BY <1>h, <4>1 DEF Alone
      <4>3. CASE commands' = Append(commands, k) /\ toIde' = toIde
        <5>1. Once(commands', Cmds(r))
          BY <1>h, <1>y, <3>3, <4>2, <4>3, AppendOnce DEF Alone, InCommands
        <5> QED  BY <1>h, <2>1, <4>1, <4>2, <4>3, <5>1 DEF Alone, InQueue, InIde
      <4>4. CASE (toIde' = Append(toIde, Reply(v)) \/ toIde' = toIde) /\ commands' = commands
        <5>1. Once(toIde', {Reply(r)})
          <6>1. Once(toIde, {Reply(r)}) /\ ~Occurs(toIde, {Reply(r)})
            BY <1>h, <4>2 DEF Alone, InIde
          <6>2. CASE toIde' = Append(toIde, Reply(r))
            BY <1>y, <1>m, <6>1, <6>2, AppendOnce
          <6> QED  BY <3>7, <4>4, <6>1, <6>2
        <5> QED  BY <1>h, <2>1, <4>1, <4>2, <4>4, <5>1 DEF Alone, InQueue, InCommands
      <4> QED  BY <3>5, <4>3, <4>4
    <3> QED  BY <3>6, <3>7
  <2> QED  BY <2>3, <2>4, <2>5
<1>10. ASSUME NEW t \in Threads, ReadSettings(t) PROVE Alone(r)'
  BY <1>10, <1>f, <1>q DEF ReadSettings
<1>11. ASSUME NEW t \in Threads, Compare(t) PROVE Alone(r)'
  BY <1>11, <1>f, <1>q DEF Compare
<1>12. ASSUME NEW t \in Threads, SendMode(t) PROVE Alone(r)'
  <2> DEFINE m == PackToMode(seen[t])
             e == Action(control, <<ModeMsg(m)>>)
  <2>1. UNCHANGED <<commands, toEditor, ide, asked>> /\ ScheduleModelAction(t, control, <<ModeMsg(m)>>)
    BY <1>12 DEF SendMode
  <2>2. m \in Nat
    BY <1>y, ModeNat
  <2>3. ModeMsg(m) \in IdeMsgs /\ ModeMsg(m) # Reply(r)
    BY <1>m, <2>2, MsgTypes
  <2>4. e \in ModeActions(0..connection)
    BY <1>y, <2>2, NewActions
  <2>5. e \in Queued(connection) /\ e \notin Answers(r)
    BY <2>4, AnswersAre DEF Queued, ActionsOf
  <2> HIDE DEF m, e
  <2>6. CASE t = "game"
    <3>1. queue' = Append(queue, e) /\ toIde' = toIde
      BY <2>1, <2>6, <1>t DEF ScheduleModelAction, e
    <3> QED  BY <1>f, <1>q, <2>1, <2>5, <3>1
  <2>7. CASE t = "scheduler"
    <3>1. queue' = queue /\ (toIde' = toIde \/ toIde' = toIde \o <<ModeMsg(m)>>)
      BY <2>1, <2>7 DEF ScheduleModelAction
    <3>2. toIde \o <<ModeMsg(m)>> = Append(toIde, ModeMsg(m))
      BY <1>y, <2>3
    <3>3. Fewer(r)
      BY <1>q, <1>i, <1>e, <1>c, <2>1, <2>3, <3>1, <3>2 DEF Fewer
    <3> QED  BY <1>h, <2>1, <3>3, RequestsKept
  <2> QED  BY <1>t, <2>6, <2>7
<1>13. ASSUME NEW s \in Settings, Change(s) PROVE Alone(r)'
  BY <1>13, <1>f, <1>q DEF Change
<1>14. ASSUME NEW from, NEW to, NEW msgs, Event(from, to, msgs), Action(control, msgs) \in StateActions({control})
       PROVE Alone(r)'
  <2>1. CASE registered
    <3>1. queue' = Append(queue, Action(control, msgs)) /\ UNCHANGED <<commands, toIde, toEditor, ide, asked>>
      BY <1>14, <2>1, <1>t DEF Event, ScheduleModelAction
    <3>2. Action(control, msgs) \in Queued(connection) /\ Action(control, msgs) \notin Answers(r)
      <4>1. Action(control, msgs) \in StateActions(0..connection)
        BY <1>14, <1>y DEF StateActions
      <4> QED  BY <4>1, AnswersAre DEF Queued, ActionsOf
    <3> QED  BY <1>f, <1>q, <3>1, <3>2
  <2>2. CASE ~registered
    BY <1>14, <1>f, <1>q, <2>2 DEF Event
  <2> QED  BY <2>1, <2>2
<1>s. /\ \A s \in Sessions : Action(control, <<StateMsg(s)>>) \in StateActions({control})
      /\ Action(control, <<StateMsg("Play"), StateMsg("Pause")>>) \in StateActions({control})
      /\ "Idle" \in Sessions /\ "Play" \in Sessions /\ "Pause" \in Sessions
  <2>1. "Idle" \in Sessions /\ "Play" \in Sessions /\ "Pause" \in Sessions
    BY DEF Sessions
  <2> QED  BY <2>1, NewActions
<1>15. CASE BeginPIE
  BY <1>15, <1>14, <1>s DEF BeginPIE
<1>16. CASE EndPIE
  BY <1>16, <1>14, <1>s DEF EndPIE
<1>17. CASE PausePIE
  BY <1>17, <1>14, <1>s DEF PausePIE
<1>18. CASE ResumePIE
  BY <1>18, <1>14, <1>s DEF ResumePIE
<1>19. CASE SingleStepPIE
  BY <1>19, <1>14, <1>s DEF SingleStepPIE
<1>20. CASE Execute
  <2> DEFINE k == Head(commands)
             e == Action(k.control, <<Reply(k.request)>>)
  <2>1. commands # <<>> /\ commands' = Tail(commands) /\ queue' = Append(queue, e)
        /\ UNCHANGED <<toIde, toEditor, ide, asked>>
    BY <1>20, <1>t DEF Execute, ScheduleModelAction
  <2>2. k \in Commands(connection)
    BY <1>y, <2>1, TailIs
  <2>3. k.request \in 1..MaxRequests /\ k.control \in 0..connection /\ (k.request = r <=> k \in Cmds(r))
    BY <1>y, <2>2 DEF Commands, Cmds
  <2>4. e \in Queued(connection)
    BY <2>3, NewActions DEF Queued, ActionsOf
  <2>5. CASE k.request # r
    <3>1. e \notin Answers(r)
      BY <2>5, AnswersAre
    <3>2. Fewer(r)
      BY <1>q, <1>i, <1>e, <1>c, <2>1, <2>4, <3>1 DEF Fewer
    <3> QED  BY <1>h, <2>1, <3>2, RequestsKept
  <2>6. CASE k.request = r
    <3>1. InCommands(r) /\ ~InCommands(r)' /\ Once(commands', Cmds(r))
      BY <1>h, <1>y, <2>1, <2>3, <2>6, TailOccurs, TailOnce DEF InCommands, Alone
    <3>2. ~InEditor(r) /\ ~InQueue(r) /\ ~InIde(r) /\ ide.replies[r] = 0 /\ ~(r > asked)
      BY <1>h, <3>1 DEF Alone
    <3>3. Once(queue', Answers(r))
      BY <1>h, <1>y, <2>1, <2>4, <3>2, AppendOnce DEF Alone, InQueue
    <3> QED  BY <1>h, <2>1, <3>1, <3>2, <3>3 DEF Alone, InEditor, InIde
  <2> QED  BY <2>5, <2>6
<1>21. CASE IdeReceive
  <2> DEFINE m == Head(toIde)
  <2>1. toIde # <<>> /\ toIde' = Tail(toIde) /\ UNCHANGED <<commands, toEditor, queue, asked>>
    BY <1>21 DEF IdeReceive
  <2>2. m \in IdeMsgs
    BY <1>y, <2>1, TailIs
  <2>3. CASE m \notin Replies
    <3>1. ide'.replies = ide.replies
      <4>1. m.kind \in {"mode", "state", "initialized"}
        BY <2>2, <2>3 DEF IdeMsgs, ModeMsgs, StateMsgs, Initialized
      <4> QED  BY <1>21, <4>1 DEF IdeReceive, TypeOK
    <3>2. Fewer(r)
      BY <1>q, <1>i, <1>e, <1>c, <2>1 DEF Fewer
    <3> QED  BY <1>h, <2>1, <3>1, <3>2, RequestsKept
  <2>4. CASE m \in Replies
    <3>1. PICK v \in 1..MaxRequests : m = Reply(v)
      BY <2>4 DEF Replies
    <3>2. ide' = [ide EXCEPT !.replies[v] = @ + 1]
      BY <1>21, <3>1 DEF IdeReceive, Reply
    <3>3. ide'.replies = [ide.replies EXCEPT ![v] = @ + 1]
      BY <3>2 DEF TypeOK
    <3>4. ide.replies \in [1..MaxRequests -> Nat]
      BY DEF TypeOK
    <3>5. CASE v # r
      <4>1. ide'.replies[r] = ide.replies[r]
        BY <3>3, <3>4, <3>5
      <4>2. Fewer(r)
        BY <1>q, <1>i, <1>e, <1>c, <2>1 DEF Fewer
      <4> QED  BY <1>h, <2>1, <4>1, <4>2, RequestsKept
    <3>6. CASE v = r
      <4>1. InIde(r) /\ ~InIde(r)' /\ Once(toIde', {Reply(r)})
        BY <1>h, <1>y, <2>1, <3>1, <3>6, TailOccurs, TailOnce DEF InIde, Alone
      <4>2. ~InEditor(r) /\ ~InCommands(r) /\ ~InQueue(r) /\ ide.replies[r] = 0 /\ ~(r > asked)
        BY <1>h, <4>1 DEF Alone
      <4>3. ide'.replies[r] = 1
        <5>1. ide'.replies[r] = ide.replies[r] + 1
          BY <3>3, <3>4, <3>6
        <5> QED  BY <4>2, <5>1
      <4> QED  BY <1>h, <2>1, <4>1, <4>2, <4>3 DEF Alone, InEditor, InCommands, InQueue
    <3> QED  BY <3>5, <3>6
  <2> QED  BY <2>3, <2>4
<1>22. ASSUME NEW m \in Modes, IdeChange(m) PROVE Alone(r)'
  <2>1. UNCHANGED <<commands, queue, toIde, asked>> /\ toEditor' = Append(toEditor, ModeMsg(m)) /\ ide' = [ide EXCEPT !.mode = m]
    BY <1>22 DEF IdeChange
  <2>2. ModeMsg(m) \in EditorMsgs /\ ModeMsg(m) # Request(r)
    BY DEF EditorMsgs, ModeMsg, Request
  <2>3. ide'.replies = ide.replies
    BY <2>1 DEF TypeOK
  <2>4. Fewer(r)
    BY <1>q, <1>i, <1>e, <1>c, <2>1, <2>2 DEF Fewer
  <2> QED  BY <1>h, <2>1, <2>3, <2>4, RequestsKept
<1>23. CASE IdeRequest
  <2>1. UNCHANGED <<commands, queue, toIde, ide>> /\ toEditor' = Append(toEditor, Request(asked + 1)) /\ asked' = asked + 1
    BY <1>23 DEF IdeRequest
  <2>2. Request(asked + 1) \in EditorMsgs
    <3>1. asked + 1 \in 1..MaxRequests
      BY <1>23, GameControlAssumption DEF IdeRequest, TypeOK
    <3> QED  BY <3>1 DEF EditorMsgs, Requests
  <2>3. CASE r # asked + 1
    <3>1. NoMore(toEditor', toEditor, {Request(r)})
      BY <1>e, <1>w, <2>1, <2>2, <2>3
    <3> QED  BY <1>h, <1>y, <2>1, <3>1 DEF Alone, NoMore, InEditor, InCommands, InQueue, InIde
  <2>4. CASE r = asked + 1
    <3>1. ~InEditor(r) /\ ~InCommands(r) /\ ~InQueue(r) /\ ~InIde(r) /\ ide.replies[r] = 0
      BY <1>h, <1>y, <2>4 DEF Alone
    <3>2. Once(toEditor', {Request(r)})
      BY <1>h, <1>y, <2>1, <2>2, <3>1, AppendOnce DEF Alone, InEditor
    <3>3. ~(r > asked')
      BY <1>y, <2>1, <2>4
    <3> QED  BY <1>h, <2>1, <3>1, <3>2, <3>3 DEF Alone, InCommands, InQueue, InIde
  <2> QED  BY <2>3, <2>4
<1>24. CASE UNCHANGED vars
  BY <1>24, <1>f, <1>q DEF vars
<1> QED
  BY <1>1, <1>2, <1>3, <1>4, <1>5, <1>6, <1>7, <1>8, <1>9, <1>10, <1>11, <1>12, <1>13, <1>15, <1>16,
     <1>17, <1>18, <1>19, <1>20, <1>21, <1>22, <1>23, <1>24, <1>t
  DEF Next, SchedulerThread, GameThread, User

-----------------------------------------------------------------------------
IInv == TypeOK /\ Links /\ ModesInv /\ StatesInv /\ RequestsInv

LEMMA Invariant == Spec => []IInv
<1>1. Init => IInv
  BY InitTypes, InitLinks, InitModes, InitStates, InitRequests DEF IInv
<1>2. IInv /\ [Next]_vars => IInv'
  <2> SUFFICES ASSUME IInv, [Next]_vars PROVE IInv'
    OBVIOUS
  <2>1. TypeOK'
    BY TypeStep DEF IInv
  <2>2. Links'
    BY LinkStep DEF IInv
  <2>3. ModesInv'
    BY <2>2, ModesStep DEF IInv
  <2>4. StatesInv'
    BY StatesStep DEF IInv
  <2>5. RequestsInv'
    BY RequestsStep DEF IInv
  <2> QED  BY <2>1, <2>2, <2>3, <2>4, <2>5 DEF IInv
<1> QED  BY <1>1, <1>2, PTL DEF Spec

\* Whenever nothing is under way the IDE shows the mode of the editor's settings,
\* unless changes met inside the editor (OnObjectPropertyChanged, playModeFromRider).
THEOREM ModesAgree == Spec => []Agreement
<1>1. IInv => Agreement
  <2> SUFFICES ASSUME IInv, Quiet, ~met
               PROVE /\ ide.mode = PackToMode(settings) /\ playMode = ide.mode
                     /\ Expressible(settings) => UnpackFromMode(ide.mode) = settings
    BY DEF Agreement
  <2>1. Quietly /\ \A t \in Threads : at[t] = "idle"
    BY DEF Quiet, Quietly, Working
  <2>2. playMode = PackToMode(settings)
    BY <2>1 DEF IInv, ModesInv, InHand
  <2>3. Shown
    BY <2>1 DEF IInv, ModesInv, Followed, Setup, Threads
  <2>4. ~Occurs(queue, ModesOf(connection)) /\ ~Occurs(toIde, ModeMsgs) /\ ~Occurs(toEditor, ModeMsgs)
    BY EmptyHas DEF Quiet
  <2>5. IdeHas
    BY <2>3, <2>4 DEF Shown, OnTheWay
  <2>6. ide.mode = playMode
    BY <2>1, <2>4, <2>5 DEF IdeHas, Threads
  <2>7. Expressible(settings) => UnpackFromMode(PackToMode(settings)) = settings
    BY PackUnpack DEF IInv, TypeOK
  <2> QED  BY <2>2, <2>6, <2>7
<1> QED  BY <1>1, Invariant, PTL

\* The IDE shows the state of the session it was told of last, and no request is
\* answered twice (the delegates of RiderGameControl, SendRequest).
THEOREM InStep == Spec => []IdeInStep
<1>1. IInv => IdeInStep
  <2> SUFFICES ASSUME IInv PROVE IdeInStep
    OBVIOUS
  <2>1. SessionShown
    <3> SUFFICES ASSUME Quiet, told PROVE ide.state = session
      BY DEF SessionShown
    <3>1. ~Occurs(queue, AllStates) /\ ~Occurs(toIde, StateMsgs)
      BY EmptyHas DEF Quiet
    <3> QED  BY <3>1 DEF IInv, StatesInv, InForm, Quiet
  <2>2. AnsweredOnce
    <3> SUFFICES ASSUME NEW r \in 1..MaxRequests PROVE ide.replies[r] <= 1
      BY DEF AnsweredOnce
    <3>1. Alone(r)
      BY DEF IInv, RequestsInv
    <3>2. ide.replies[r] = 0 \/ ide.replies[r] = 1
      BY <3>1 DEF Alone
    <3> QED  BY <3>2
  <2> QED  BY <2>1, <2>2 DEF IInv, IdeInStep
<1> QED  BY <1>1, Invariant, PTL
=============================================================================
