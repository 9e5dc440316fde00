-------------------------- MODULE LifetimesProofs --------------------------
(***************************************************************************)
(* The safety of Lifetimes, for any number of changes of the property.     *)
(*                                                                         *)
(* That nothing the handler was given outlives the wire's lifetime rests   *)
(* on where the three threads are: only the lifetime made last can be      *)
(* alive, and as long as it is, the wire is about to attach or to end it,  *)
(* or the view has the action that ends it, or the game thread has taken   *)
(* that (MadeInv).  What the game thread has left to do (GameInv) says     *)
(* that Root, then the view, are taken before it is done; what the wire    *)
(* has left (WireInv) says what current_def is while next runs, and that   *)
(* the eternal lifetime is returned only from a view that is over.  From   *)
(* the same invariant a step of the view is one of ViewContract's.         *)
(*                                                                         *)
(* That every action added is accounted for rests on a second invariant,   *)
(* AccountInv: an action is in one place (PlaceInv), in the lifetime it    *)
(* was added to (HomeInv), and wherever a bracket and the plain action of  *)
(* one lifetime are together, the plain one is run first (OrderInv): added *)
(* last in the lifetime, first on a thread.  It says of most steps that    *)
(* they move no such action (Quiet).                                       *)
(***************************************************************************)
EXTENDS Lifetimes, SequenceTheorems, FiniteSetTheorems, TLAPS

-----------------------------------------------------------------------------
(* Calls, and sequences of them.                                           *)

\* The calls a thread makes.
Kinds == {"terminate", "take", "detach", "close", "attach", "attach_back", "swap", "write", "return",
          "before", "change", "bracket", "closing", "plain", "remove"}

CallSet == [does : Kinds, of : Nat, was : Nat]

LEMMA CallFacts ==
  ASSUME NEW d \in Kinds, NEW n \in Nat
  PROVE  /\ Do(d, n) \in CallSet /\ Do(d, n).does = d /\ Do(d, n).of = n /\ Do(d, n).was = Eternal
         /\ \A w \in Nat : /\ Write(n, w) \in CallSet /\ Write(n, w).does = "write"
                           /\ Write(n, w).of = n /\ Write(n, w).was = w
<1>1. /\ Do(d, n) \in CallSet /\ Do(d, n).does = d /\ Do(d, n).of = n /\ Do(d, n).was = Eternal
  BY DEF CallSet, Do, Eternal
<1>2. "write" \in Kinds
  BY DEF Kinds
<1> QED BY <1>1, <1>2 DEF CallSet, Write

LEMMA SameCall ==
  ASSUME NEW x \in CallSet, NEW y \in CallSet, x.does = y.does, x.of = y.of, x.was = y.was
  PROVE  x = y
BY DEF CallSet

LEMMA HeadOf ==
  ASSUME NEW C, NEW s \in Seq(C), s # <<>>
  PROVE  /\ Head(s) \in C /\ Head(s) = s[1] /\ Len(s) \in Nat /\ Len(s) >= 1 /\ 1 \in 1..Len(s)
         /\ Tail(s) \in Seq(C) /\ Len(Tail(s)) = Len(s) - 1
         /\ \A i \in 1..Len(Tail(s)) : Tail(s)[i] = s[i + 1] /\ i + 1 \in 1..Len(s)
OBVIOUS

\* calls in the place of the head of s.
LEMMA InPlace ==
  ASSUME NEW C, NEW s \in Seq(C), s # <<>>, NEW calls \in Seq(C), NEW r, r = calls \o Tail(s)
  PROVE  /\ r \in Seq(C) /\ Len(r) = Len(calls) + Len(s) - 1 /\ Len(calls) \in Nat /\ Len(s) \in Nat /\ Len(s) >= 1
         /\ \A i \in 1..Len(calls) : r[i] = calls[i] /\ i \in 1..Len(r)
         /\ \A i \in (Len(calls) + 1)..Len(r) : r[i] = s[i - Len(calls) + 1] /\ i - Len(calls) + 1 \in 2..Len(s)
         /\ \A i \in 2..Len(s) : r[i + Len(calls) - 1] = s[i] /\ i + Len(calls) - 1 \in (Len(calls) + 1)..Len(r)
<1> DEFINE t == Tail(s)
<1>1. t \in Seq(C) /\ Len(t) = Len(s) - 1 /\ Len(s) \in Nat /\ Len(s) >= 1 /\ Len(calls) \in Nat
      /\ \A i \in 1..Len(t) : t[i] = s[i + 1]
  BY HeadOf
<1> HIDE DEF t
<1>2. /\ r \in Seq(C) /\ Len(r) = Len(calls) + Len(t)
      /\ \A i \in 1..(Len(calls) + Len(t)) : r[i] = IF i <= Len(calls) THEN calls[i] ELSE t[i - Len(calls)]
  BY <1>1, ConcatProperties DEF t
<1>3. \A i \in 1..Len(calls) : r[i] = calls[i] /\ i \in 1..Len(r)
  BY <1>1, <1>2
<1>4. ASSUME NEW i \in (Len(calls) + 1)..Len(r)
      PROVE  r[i] = s[i - Len(calls) + 1] /\ i - Len(calls) + 1 \in 2..Len(s)
  <2>1. i - Len(calls) \in 1..Len(t) /\ ~(i <= Len(calls)) /\ i \in 1..(Len(calls) + Len(t))
    BY <1>1, <1>2
  <2> QED BY <1>1, <1>2, <2>1
<1>5. ASSUME NEW i \in 2..Len(s)
      PROVE  r[i + Len(calls) - 1] = s[i] /\ i + Len(calls) - 1 \in (Len(calls) + 1)..Len(r)
  <2>1. i + Len(calls) - 1 \in (Len(calls) + 1)..Len(r) /\ (i + Len(calls) - 1) - Len(calls) + 1 = i
    BY <1>1, <1>2
  <2> QED BY <1>4, <2>1
<1> QED BY <1>1, <1>2, <1>3, <1>4, <1>5

LEMMA ReverseFacts ==
  ASSUME NEW C, NEW s \in Seq(C)
  PROVE  /\ Reverse(s) \in Seq(C) /\ Len(Reverse(s)) = Len(s) /\ Len(s) \in Nat
         /\ \A i \in 1..Len(s) : Reverse(s)[i] = s[Len(s) - i + 1] /\ Len(s) - i + 1 \in 1..Len(s)
         /\ (s = <<>> => Reverse(s) = <<>>)
<1>1. Len(s) \in Nat /\ \A i \in 1..Len(s) : Len(s) - i + 1 \in 1..Len(s) /\ s[Len(s) - i + 1] \in C
  BY ElementOfSeq
<1>2. Reverse(s) = [i \in 1..Len(s) |-> s[Len(s) - i + 1]]
  BY DEF Reverse
<1>3. Reverse(s) \in Seq(C)
  BY <1>1, <1>2, IsASeq
<1>4. Len(Reverse(s)) = Len(s)
  BY <1>1, <1>2, <1>3
<1>5. s = <<>> => Reverse(s) = <<>>
  BY <1>3, <1>4, EmptySeq
<1> QED BY <1>1, <1>2, <1>3, <1>4, <1>5

LEMMA WithoutFacts ==
  ASSUME NEW C, NEW s \in Seq(C), NEW a
  PROVE  /\ Without(s, a) \in Seq(C)
         /\ ~Contains(s, a) => Without(s, a) = s
         /\ Contains(s, a) =>
              \E p \in 1..Len(s) :
                /\ s[p] = a /\ Len(Without(s, a)) = Len(s) - 1
                /\ \A i \in 1..(p - 1) : Without(s, a)[i] = s[i]
                /\ \A i \in p..(Len(s) - 1) : Without(s, a)[i] = s[i + 1]
<1>1. CASE ~Contains(s, a)
  BY <1>1 DEF Without
<1>2. CASE Contains(s, a)
  <2> DEFINE p == CHOOSE i \in 1..Len(s) : s[i] = a
             u == SubSeq(s, 1, p - 1)
             v == SubSeq(s, p + 1, Len(s))
  <2>1. p \in 1..Len(s) /\ s[p] = a /\ Len(s) \in Nat
    BY <1>2 DEF Contains
  <2>2. Without(s, a) = u \o v
    BY <1>2 DEF Without, RemoveAt
  <2> HIDE DEF p
  <2>3. \A i \in 1..Len(s) : s[i] \in C
    BY ElementOfSeq
  <2>4. u \in Seq(C) /\ Len(u) = p - 1 /\ \A i \in 1..(p - 1) : u[i] = s[i]
    <3>1. \A i \in 1..(p - 1) : s[i] \in C
      BY <2>1, <2>3
    <3>2. 1 \in Int /\ p - 1 \in Int
      BY <2>1
    <3>3. /\ u \in Seq(C) /\ Len(u) = (IF 1 <= p - 1 THEN p - 1 - 1 + 1 ELSE 0)
          /\ \A i \in 1..(p - 1 - 1 + 1) : u[i] = s[1 + i - 1]
      BY <3>1, <3>2, SubSeqProperties
    <3> HIDE DEF u
    <3> QED BY <2>1, <3>3
  <2>5. v \in Seq(C) /\ Len(v) = Len(s) - p /\ \A i \in 1..(Len(s) - p) : v[i] = s[p + i]
    <3>1. \A i \in (p + 1)..Len(s) : s[i] \in C
      BY <2>1, <2>3
    <3>2. p + 1 \in Int /\ Len(s) \in Int
      BY <2>1
    <3>3. /\ v \in Seq(C) /\ Len(v) = (IF p + 1 <= Len(s) THEN Len(s) - (p + 1) + 1 ELSE 0)
          /\ \A i \in 1..(Len(s) - (p + 1) + 1) : v[i] = s[(p + 1) + i - 1]
      BY <3>1, <3>2, SubSeqProperties
    <3> HIDE DEF v
    <3> QED BY <2>1, <3>3
  <2> HIDE DEF u, v
  <2> DEFINE r == u \o v
  <2>6. /\ r \in Seq(C) /\ Len(r) = Len(u) + Len(v)
        /\ \A i \in 1..(Len(u) + Len(v)) : r[i] = IF i <= Len(u) THEN u[i] ELSE v[i - Len(u)]
    BY <2>4, <2>5, ConcatProperties
  <2> HIDE DEF r
  <2>7. Len(r) = Len(s) - 1
    BY <2>1, <2>4, <2>5, <2>6
  <2>8. ASSUME NEW i \in 1..(p - 1) PROVE r[i] = s[i]
    <3>1. i \in 1..(Len(u) + Len(v)) /\ i <= Len(u)
      BY <2>1, <2>4, <2>5
    <3> QED BY <2>4, <2>6, <3>1
  <2>9. ASSUME NEW i \in p..(Len(s) - 1) PROVE r[i] = s[i + 1]
    <3>1. Len(u) = p - 1 /\ Len(v) = Len(s) - p /\ p \in 1..Len(s) /\ Len(s) \in Nat
      BY <2>1, <2>4, <2>5
    <3>2. i \in 1..(Len(u) + Len(v)) /\ ~(i <= Len(u))
      BY <2>9, <3>1
    <3>3. i - Len(u) \in 1..(Len(s) - p) /\ p + (i - Len(u)) = i + 1
      BY <2>9, <3>1
    <3> QED BY <2>5, <2>6, <3>2, <3>3
  <2>10. Without(s, a) = r
    BY <2>2 DEF r
  <2> QED BY <1>2, <2>1, <2>6, <2>7, <2>8, <2>9, <2>10
<1> QED BY <1>1, <1>2

LEMMA TornFacts ==
  ASSUME NEW C, NEW s \in Seq(C), NEW r \in Torn(s)
  PROVE  /\ r \in Seq(C) /\ \A i \in 1..Len(r) : \E j \in 1..Len(s) : r[i] = s[j]
         /\ (s = <<>> => r = <<>>)
<1>1. PICK m \in 0..Len(s) : r \in [1..m -> ToSet(s)]
  BY DEF Torn, SeqOf
<1>2. DOMAIN s = 1..Len(s) /\ Len(s) \in Nat
  OBVIOUS
<1>3. \A i \in 1..m : r[i] \in ToSet(s)
  BY <1>1
<1>4. \A i \in 1..m : r[i] \in C
  BY <1>2, <1>3, ElementOfSeq DEF ToSet
<1>5. r = [i \in 1..m |-> r[i]] /\ m \in Nat
  BY <1>1, <1>2
<1>6. r \in Seq(C)
  BY <1>4, <1>5, IsASeq
<1>7. Len(r) = m
  BY <1>5, <1>6
<1>8. s = <<>> => r = <<>>
  BY <1>2, <1>6, <1>7, EmptySeq
<1> QED BY <1>2, <1>3, <1>6, <1>7, <1>8 DEF ToSet

-----------------------------------------------------------------------------
(* The inductive invariant: where each thread is, and what that says of the
   lifetimes.                                                              *)

wire == todo["wire"]
game == todo["game"]

\* The lifetimes made for values, and what current_def may be.
Made == (View + 1)..created
Current == {Eternal} \cup {l \in Made : l = created}

\* What the end of a lifetime of L makes a thread do.
Ending(x, L) ==
  \/ x.does = "close" /\ x.was = Eternal
  \/ x.does = "terminate" /\ x.was = Eternal /\ x.of \in L
  \/ x.does \in {"take", "detach"} /\ x.was = Eternal /\ x.of \in L \ {Eternal} /\ terminated[x.of]

\* Before the next value the last lifetime is the current one, or has ended.
Settled == terminated[View] \/ created = View \/ terminated[created] \/ current_def = created

Room == created < View + changes

\* A lifetime that is not handed out yet ends only with the view.
Fresh ==
  /\ created > View /\ ~Contains(handed, created) /\ ~Contains(handed, Eternal)
  /\ terminated[created] => terminated[View]

ChangeCall == Do("change", View)
ReturnCall == Do("return", created)

WireEnds == (\A i \in 1..Len(wire) : Ending(wire[i], Current)) /\ Settled

WireBefore == Room /\ Settled /\ wire \in {<<Do("before", View), ChangeCall>>, <<Reset, ChangeCall>>}

WireResets ==
  /\ Room
  /\ \E was \in Current : wire = <<Write(Eternal, was), ChangeCall>> /\ (terminated[View] \/ (was = current_def /\ Settled))

WireChanges ==
  /\ Room
  /\ wire # <<>> /\ wire[Len(wire)] = ChangeCall
  /\ \A i \in 1..Len(wire) : i < Len(wire) => Ending(wire[i], Current)
  /\ \/ terminated[View]
     \/ current_def = Eternal /\ (created = View \/ terminated[created] \/ Contains(wire, Ends(created)))

WireNests ==
  /\ Fresh /\ current_def = Eternal
  /\ wire \in {<<Do("attach", created), Do("attach_back", created), Do("swap", created), ReturnCall>>,
               <<Do("attach_back", created), Do("swap", created), ReturnCall>>,
               <<Do("swap", created), ReturnCall>>,
               <<Write(created, Eternal), ReturnCall>>}

WireReturns ==
  /\ Fresh /\ current_def \in Current /\ (current_def = Eternal => terminated[View])
  /\ wire \in {<<Ends(Eternal), ReturnCall>>, <<ReturnCall>>}

WireInv == WireEnds \/ WireBefore \/ WireResets \/ WireChanges \/ WireNests \/ WireReturns

GameCall(x) ==
  \/ Ending(x, {Eternal} \cup Made)
  \/ x = Reset \/ x = Detach(View)
  \/ \E was \in {Eternal} \cup Made : x = Write(Eternal, was)

GameInv ==
  \/ /\ ~terminated[View] /\ actions[Root] = <<Ends(View)>>
     /\ \/ ~terminated[Root] /\ game \in {<<>>, <<Ends(Root)>>}
        \/ terminated[Root] /\ game = <<Do("take", Root)>>
  \/ ~terminated[View] /\ terminated[Root] /\ game = <<Ends(View)>> /\ actions[Root] = <<>>
  \/ terminated[View] /\ terminated[Root] /\ game = <<Do("take", View)>> /\ actions[Root] = <<>>
  \/ /\ terminated[View] /\ terminated[Root] /\ actions[Root] = <<>> /\ actions[View] = <<>>
     /\ \A i \in 1..Len(game) : GameCall(game[i])

\* What there may be in a lifetime's actions.
ActionOf(l, x) ==
  \/ l = Root /\ x = Ends(View)
  \/ l = View /\ (x \in {Detach(View), Reset} \/ \E n \in Made : x = Ends(n))
  \/ l > View /\ l <= created /\ (x = Detach(l) \/ \E k \in Nat : x = Closing(k))

ActionsInv ==
  /\ \A l \in Lifetime : \A j \in 1..Len(actions[l]) : ActionOf(l, actions[l][j])
  /\ \A l \in Lifetime : terminated[l] => l <= created

\* A lifetime that has not ended is the last one, and on its way to its parent,
\* to its end, or the view knows how to end it.
MadeInv ==
  /\ \A l \in Made : l # created => terminated[l]
  /\ created > View /\ ~terminated[created] =>
       \/ wire # <<>> /\ wire[1] = Do("attach", created)
       \/ wire = <<Ends(created)>> /\ ~Contains(handed, created)
       \/ Contains(actions[View], Ends(created))
       \/ Contains(game, Ends(created))

Types ==
  /\ terminated \in [Lifetime -> BOOLEAN] /\ ~terminated[Eternal]
  /\ actions \in [Lifetime -> Seq(CallSet)]
  /\ todo \in [Threads -> Seq(CallSet)]
  /\ created \in Nat /\ created >= View /\ created <= View + changes
  /\ current_def \in Current
  /\ handed \in Seq({Eternal} \cup Made)
  /\ used \in 0..Len(handed) /\ changes \in 0..MaxChanges
  /\ ran \in Seq(Nat) /\ accepted \subseteq Nat

\* Only a view that is over gives out the eternal lifetime.
HandedInv == Contains(handed, Eternal) => terminated[View]

\* The scheduler's thread, and which of its actions are not added yet.
SchedInv ==
  /\ accepted \subseteq 0..Plain(used)
  /\ LET s == todo["scheduler"]
         bracket == Do("bracket", used)  closing == Do("closing", used)
         plain == Do("plain", used)  remove == Do("remove", used) IN
     \/ s = <<>>
     \/ used > 0 /\ s = <<remove>>
     \/ used > 0 /\ s \in {<<plain>>, <<plain, remove>>} /\ Plain(used) \notin accepted
     \/ /\ used > 0
        /\ s \in {<<bracket, plain>>, <<bracket, plain, remove>>, <<closing, plain>>, <<closing, plain, remove>>}
        /\ Bracket(used) \notin accepted /\ Plain(used) \notin accepted

Lasting == \A l \in Lifetime : terminated[l] => terminated'[l]

LifetimeInv == Types /\ WireInv /\ GameInv /\ ActionsInv /\ MadeInv /\ HandedInv /\ SchedInv

LEMMA Numbers ==
  ASSUME Types
  PROVE  /\ Eternal = 0 /\ Root = 1 /\ View = 2 /\ created \in Lifetime /\ {Eternal, Root, View} \subseteq Lifetime
         /\ Made \subseteq Lifetime /\ Lifetime \subseteq Nat /\ \A l \in Made : l > View /\ l \in Nat
         /\ wire \in Seq(CallSet) /\ game \in Seq(CallSet)
BY LifetimesAssumption DEF Types, Eternal, Root, View, Lifetime, Made, Threads, wire, game

LEMMA EndingLasts ==
  ASSUME Types, Lasting, NEW L, L \subseteq Lifetime, NEW x, Ending(x, L)
  PROVE  Ending(x, L)'
BY Numbers DEF Ending, Lasting

\* The other threads' steps are no matter for the wire's.
LEMMA WireKept ==
  ASSUME Types, WireInv, Lasting, UNCHANGED <<wire, created, handed, changes>>,
         current_def' = current_def \/ (current_def' = Eternal /\ terminated[View]),
         created > View /\ terminated'[created] => terminated[created] \/ terminated'[View]
  PROVE  WireInv'
<1>0. View \in Lifetime /\ created \in Lifetime /\ Made \subseteq Lifetime /\ Current \subseteq Lifetime /\ Eternal # View
  BY Numbers DEF Current
<1>1. Made' = Made /\ Current' = Current /\ ReturnCall' = ReturnCall
  BY DEF Made, Current, ReturnCall
<1>2. \A x : Ending(x, Current) => Ending(x, Current)'
  BY <1>0, <1>1, EndingLasts DEF Ending
<1>3. Settled => Settled'
  BY <1>0 DEF Settled, Lasting
<1>4. (Room => Room') /\ (Fresh => Fresh') /\ (terminated[View] => terminated'[View])
  BY <1>0 DEF Room, Fresh, Lasting
<1>5. CASE WireEnds
  BY <1>2, <1>3, <1>5 DEF WireEnds, WireInv
<1>6. CASE WireBefore
  BY <1>3, <1>4, <1>6 DEF WireBefore, WireInv
<1>7. CASE WireResets
  BY <1>1, <1>3, <1>4, <1>7 DEF WireResets, WireInv
<1>8. CASE WireChanges
  <2>1. WireChanges'
    BY <1>0, <1>2, <1>4, <1>8 DEF WireChanges, Lasting
  <2> QED BY <2>1 DEF WireInv
<1>9. CASE WireNests
  <2>1. WireNests'
    BY <1>1, <1>4, <1>9 DEF WireNests
  <2> QED BY <2>1 DEF WireInv
<1>10. CASE WireReturns
  <2>1. current_def' \in Current'
    BY <1>1, <1>10 DEF WireReturns, Current
  <2>2. WireReturns'
    BY <1>1, <1>4, <1>10, <2>1 DEF WireReturns
  <2> QED BY <2>2 DEF WireInv
<1> QED BY <1>5, <1>6, <1>7, <1>8, <1>9, <1>10 DEF WireInv

LEMMA GameKept ==
  ASSUME Types, GameInv, Lasting, UNCHANGED game,
         created' \in Nat, created' >= created,
         terminated'[Root] = terminated[Root], terminated'[View] = terminated[View],
         actions'[Root] = actions[Root], actions[View] = <<>> /\ terminated[View] => actions'[View] = <<>>
  PROVE  GameInv'
<1>1. Made \subseteq Made'
  BY Numbers DEF Made, Types
<1>2. \A x : GameCall(x) => GameCall(x)'
  <2> SUFFICES ASSUME NEW x, GameCall(x) PROVE GameCall(x)'
    OBVIOUS
  <2>1. Ending(x, {Eternal} \cup Made) => Ending(x, {Eternal} \cup Made)'
    BY <1>1, Numbers DEF Ending, Lasting
  <2> QED BY <1>1, <2>1 DEF GameCall
<1> QED BY <1>2 DEF GameInv

-----------------------------------------------------------------------------
(* What a thread is at.                                                    *)

\* What a thread is at, and what that is about.
LEMMA WireHead ==
  ASSUME Types, WireInv, wire # <<>>, NEW h, h = wire[1]
  PROVE  /\ h.does \in {"close", "terminate", "take", "detach", "attach", "attach_back", "swap", "write", "return",
                        "before", "change"}
         /\ h.does \in {"close", "terminate", "take", "detach"} => Ending(h, Current)
         /\ h.does \in {"attach", "attach_back", "return"} => h = Do(h.does, created) /\ Fresh
         /\ h.does = "swap" => h.of \in Current
         /\ h.does = "write" => h.of \in Current /\ h.was \in Current
<1>1. /\ Do("before", View).does = "before" /\ Reset.does = "swap" /\ Reset.of = Eternal /\ ChangeCall.does = "change"
      /\ ReturnCall.does = "return" /\ Do("attach", created).does = "attach"
      /\ Do("attach_back", created).does = "attach_back" /\ Do("swap", created).does = "swap"
      /\ Do("swap", created).of = created /\ Ends(Eternal).does = "terminate" /\ Ends(Eternal).of = Eternal
      /\ Ends(Eternal).was = Eternal
      /\ \A n, was : Write(n, was).does = "write" /\ Write(n, was).of = n /\ Write(n, was).was = was
  BY DEF Do, Reset, ChangeCall, ReturnCall, Ends, Write
<1>2. Eternal \in Current /\ (created > View => created \in Current) /\ Len(wire) \in Nat /\ Len(wire) >= 1
  <2>1. Eternal \in Current
    BY DEF Current
  <2>2. created \in Nat /\ View \in Nat
    BY DEF Types, View
  <2>3. created > View => created \in Made
    BY <2>2 DEF Made
  <2>4. wire \in Seq(CallSet)
    BY Numbers
  <2>5. Len(wire) \in Nat /\ Len(wire) >= 1
    BY <2>4, HeadOf
  <2> QED BY <2>1, <2>3, <2>5 DEF Current
<1>3. CASE WireEnds
  BY <1>2, <1>3 DEF WireEnds, Ending
<1>4. CASE WireBefore
  <2>1. h \in {Do("before", View), Reset}
    BY <1>4 DEF WireBefore
  <2> QED BY <1>1, <1>2, <2>1
<1>5. CASE WireResets
  <2>1. PICK was \in Current : h = Write(Eternal, was)
    BY <1>5 DEF WireResets
  <2> QED BY <1>1, <1>2, <2>1
<1>6. CASE WireChanges
  <2>1. Ending(h, Current) \/ h = ChangeCall
    BY <1>2, <1>6 DEF WireChanges
  <2> QED BY <1>1, <2>1 DEF Ending
<1>7. CASE WireNests
  <2>1. h \in {Do("attach", created), Do("attach_back", created), Do("swap", created), Write(created, Eternal)}
    BY <1>7 DEF WireNests
  <2>2. Fresh /\ created > View
    BY <1>7 DEF WireNests, Fresh
  <2> QED BY <1>1, <1>2, <2>1, <2>2
<1>8. CASE WireReturns
  <2>1. h \in {Ends(Eternal), ReturnCall} /\ Fresh
    BY <1>8 DEF WireReturns
  <2> QED BY <1>1, <1>2, <2>1 DEF Ending, ReturnCall
<1> QED BY <1>3, <1>4, <1>5, <1>6, <1>7, <1>8 DEF WireInv

LEMMA GameHead ==
  ASSUME Types, GameInv, game # <<>>, NEW h, h = game[1]
  PROVE  /\ h.does \in {"close", "terminate", "take", "detach", "swap", "write"}
         /\ h.does = "terminate" => h.was = Eternal /\ h.of \in 0..created
         /\ h.does = "take" => h.was = Eternal /\ h.of \in 1..created /\ terminated[h.of]
         /\ h.does = "detach" => h.was = Eternal /\ h.of \in View..created /\ terminated[h.of]
         /\ h.does = "swap" => h.of = Eternal
         /\ h.does = "write" => h.of = Eternal /\ h.was \in {Eternal} \cup Made
         /\ h.does \in {"close", "detach", "swap", "write"} \/ (h.does \in {"terminate", "take"} /\ h.of > View) =>
              /\ terminated[View] /\ terminated[Root] /\ actions[Root] = <<>> /\ actions[View] = <<>>
              /\ \A i \in 1..Len(game) : GameCall(game[i])
<1>1. /\ \A x : Do("take", x).does = "take" /\ Do("take", x).of = x /\ Do("take", x).was = Eternal
      /\ \A x : Ends(x).does = "terminate" /\ Ends(x).of = x /\ Ends(x).was = Eternal
      /\ Reset.does = "swap" /\ Reset.of = Eternal /\ Detach(View).does = "detach" /\ Detach(View).of = View /\ Detach(View).was = Eternal
      /\ \A n, was : Write(n, was).does = "write" /\ Write(n, was).of = n /\ Write(n, was).was = was
  BY DEF Do, Reset, Ends, Detach, Write
<1>2. /\ created \in Nat /\ created >= View /\ 0 = Eternal /\ 1 = Root /\ 2 = View
      /\ {Eternal} \cup Made \subseteq 0..created /\ Made \subseteq View..created
      /\ Len(game) \in Nat /\ Len(game) >= 1
  <2>1. created \in Nat /\ created >= View
    BY DEF Types
  <2>2. 0 = Eternal /\ 1 = Root /\ 2 = View /\ game \in Seq(CallSet)
    BY Numbers
  <2>3. Len(game) \in Nat /\ Len(game) >= 1
    BY <2>2
  <2> QED BY <2>1, <2>2, <2>3 DEF Made
<1>3. CASE h \in {Ends(Root), Do("take", Root), Ends(View), Do("take", View)}
           /\ (h = Do("take", Root) => terminated[Root]) /\ (h = Do("take", View) => terminated[View])
  BY <1>1, <1>2, <1>3
<1>4. CASE /\ terminated[View] /\ terminated[Root] /\ actions[Root] = <<>> /\ actions[View] = <<>>
           /\ \A i \in 1..Len(game) : GameCall(game[i])
  <2>1. GameCall(h)
    BY <1>2, <1>4
  <2>2. CASE Ending(h, {Eternal} \cup Made)
    BY <1>1, <1>2, <1>4, <2>2 DEF Ending
  <2>3. CASE h = Reset \/ h = Detach(View)
    BY <1>1, <1>2, <1>4, <2>3
  <2>4. CASE \E was \in {Eternal} \cup Made : h = Write(Eternal, was)
    BY <1>1, <1>2, <1>4, <2>4
  <2> QED BY <2>1, <2>2, <2>3, <2>4 DEF GameCall
<1>5. CASE game = <<Ends(Root)>>
  BY <1>1, <1>3, <1>5
<1>6. CASE terminated[Root] /\ game = <<Do("take", Root)>>
  <2>1. h = Do("take", Root) /\ Root # View
    BY <1>2, <1>6
  <2> QED BY <1>1, <1>3, <1>6, <2>1
<1>7. CASE game = <<Ends(View)>>
  BY <1>1, <1>3, <1>7
<1>8. CASE terminated[View] /\ game = <<Do("take", View)>>
  <2>1. h = Do("take", View) /\ Root # View
    BY <1>2, <1>8
  <2> QED BY <1>1, <1>3, <1>8, <2>1
<1> QED BY <1>4, <1>5, <1>6, <1>7, <1>8 DEF GameInv

LEMMA SchedulerHead ==
  ASSUME Types, SchedInv, NEW s, s = todo["scheduler"], s # <<>>, NEW h, h = s[1]
  PROVE  /\ h.does \in {"bracket", "closing", "plain", "remove"} /\ h = Do(h.does, used) /\ h.of = used
         /\ used \in 1..Len(handed) /\ handed[used] \in {Eternal} \cup Made
<1>1. h \in {Do("bracket", used), Do("closing", used), Do("plain", used), Do("remove", used)} /\ used > 0
  BY DEF SchedInv
<1> QED BY <1>1 DEF Do, Types

LEMMA Heads ==
  ASSUME LifetimeInv, NEW t \in Threads, todo[t] # <<>>, NEW h, h = Head(todo[t])
  PROVE  /\ h = todo[t][1] /\ h \in CallSet
         /\ h.does \in {"terminate", "take", "detach", "swap", "write"} => t \in {"wire", "game"}
         /\ h.does \in {"attach", "attach_back", "return"} => t = "wire" /\ h = Do(h.does, created) /\ Fresh
         /\ h.does \in {"before", "change"} => t = "wire"
         /\ h.does \in {"bracket", "closing", "plain", "remove"} =>
              t = "scheduler" /\ h = Do(h.does, used) /\ h.of = used /\ used \in 1..Len(handed)
              /\ handed[used] \in {Eternal} \cup Made
         /\ h.does = "terminate" => h.of \in 0..created
         /\ h.does = "take" => h.of \in 1..created /\ terminated[h.of]
         /\ h.does = "detach" => h.of \in View..created /\ terminated[h.of]
         /\ h.does = "swap" => h.of \in Current
         /\ h.does = "write" => h.of \in Current /\ h.was \in {Eternal} \cup Made
         /\ h.does = "close" => t \in {"wire", "game"}
<1>1. todo[t] \in Seq(CallSet)
  BY DEF LifetimeInv, Types
<1>2. h = todo[t][1] /\ h \in CallSet
  BY <1>1, HeadOf
<1>3. /\ created \in Nat /\ 0 = Eternal /\ 1 = Root /\ 2 = View /\ Current \subseteq {Eternal} \cup Made
      /\ {Eternal} \cup Made \subseteq 0..created /\ Made \subseteq View..created /\ Made \subseteq 1..created
      /\ created >= View
  <2>1. created \in Nat /\ created >= View
    BY DEF LifetimeInv, Types
  <2>2. 0 = Eternal /\ 1 = Root /\ 2 = View
    BY Numbers DEF LifetimeInv
  <2> QED BY <2>1, <2>2 DEF Made, Current
<1>4. CASE t = "wire"
  <2>1. h.does \in {"close", "terminate", "take", "detach"} => Ending(h, Current)
    BY <1>2, <1>4, WireHead DEF LifetimeInv, wire
  <2>2. /\ h.does \in {"close", "terminate", "take", "detach", "attach", "attach_back", "swap", "write", "return",
                        "before", "change"}
        /\ h.does \in {"attach", "attach_back", "return"} => h = Do(h.does, created) /\ Fresh
        /\ h.does = "swap" => h.of \in Current
        /\ h.does = "write" => h.of \in Current /\ h.was \in Current
    BY <1>2, <1>4, WireHead DEF LifetimeInv, wire
  <2>3. h.does = "terminate" => h.of \in Current
    BY <2>1 DEF Ending
  <2>4. h.does \in {"take", "detach"} => h.of \in Current \ {Eternal} /\ terminated[h.of]
    BY <2>1 DEF Ending
  <2> QED BY <1>2, <1>3, <1>4, <2>2, <2>3, <2>4
<1>5. CASE t = "game"
  <2>1. /\ h.does \in {"close", "terminate", "take", "detach", "swap", "write"}
        /\ h.does = "terminate" => h.was = Eternal /\ h.of \in 0..created
        /\ h.does = "take" => h.was = Eternal /\ h.of \in 1..created /\ terminated[h.of]
        /\ h.does = "detach" => h.was = Eternal /\ h.of \in View..created /\ terminated[h.of]
        /\ h.does = "swap" => h.of = Eternal
        /\ h.does = "write" => h.of = Eternal /\ h.was \in {Eternal} \cup Made
    BY <1>2, <1>5, GameHead DEF LifetimeInv, game
  <2>2. Eternal \in Current
    BY DEF Current
  <2> QED BY <1>2, <1>5, <2>1, <2>2
<1>6. CASE t = "scheduler"
  <2>1. /\ h.does \in {"bracket", "closing", "plain", "remove"} /\ h = Do(h.does, used) /\ h.of = used
        /\ used \in 1..Len(handed) /\ handed[used] \in {Eternal} \cup Made
    BY <1>2, <1>6, SchedulerHead DEF LifetimeInv
  <2> QED BY <1>2, <1>6, <2>1
<1> QED BY <1>4, <1>5, <1>6 DEF Threads

LEMMA CallsMade ==
  ASSUME Types, NEW t \in Threads, todo[t] # <<>>, NEW calls \in Seq(CallSet), Calls(t, calls)
  PROVE  /\ todo' \in [Threads -> Seq(CallSet)] /\ todo'[t] = calls \o Tail(todo[t])
         /\ \A u \in Threads : u # t => todo'[u] = todo[u]
<1>1. todo \in [Threads -> Seq(CallSet)]
  BY DEF Types
<1>2. calls \o Tail(todo[t]) \in Seq(CallSet)
  BY <1>1, InPlace
<1> QED BY <1>1, <1>2 DEF Calls

LEMMA Thrown ==
  ASSUME Types, NEW t \in Threads, NEW calls \in Seq(CallSet), Throws(t, calls)
  PROVE  /\ todo' \in [Threads -> Seq(CallSet)] /\ todo'[t] = calls
         /\ \A u \in Threads : u # t => todo'[u] = todo[u]
BY DEF Types, Throws

Shapes == /\ actions \in [Lifetime -> Seq(CallSet)] /\ terminated \in [Lifetime -> BOOLEAN] /\ ~terminated[Eternal]
          /\ todo \in [Threads -> Seq(CallSet)]

\* The kinds of calls are calls.
LEMMA Known ==
  /\ \A n \in Nat : /\ Ends(n) \in CallSet /\ Detach(n) \in CallSet /\ Closing(n) \in CallSet /\ Do("take", n) \in CallSet
                    /\ Do("before", n) \in CallSet /\ Do("change", n) \in CallSet /\ Do("attach", n) \in CallSet
                    /\ Do("attach_back", n) \in CallSet /\ Do("swap", n) \in CallSet /\ Do("return", n) \in CallSet
                    /\ Do("bracket", n) \in CallSet /\ Do("closing", n) \in CallSet /\ Do("plain", n) \in CallSet
                    /\ Do("remove", n) \in CallSet
                    /\ Bracket(n) \in Nat /\ Plain(n) \in Nat
  /\ Reset \in CallSet
  /\ \A n, w \in Nat : Write(n, w) \in CallSet
<1>1. \A n \in Nat : \A d \in Kinds : Do(d, n) \in CallSet
  BY DEF Do, CallSet, Eternal
<1>2. \A n, w \in Nat : Write(n, w) \in CallSet
  BY CallFacts DEF Kinds
<1>3. Eternal \in Nat
  BY DEF Eternal
<1> QED BY <1>1, <1>2, <1>3 DEF Ends, Detach, Closing, Reset, Bracket, Plain, Kinds

-----------------------------------------------------------------------------
(* Types, and what a lifetime's actions are.                               *)

\* All but the lifetimes and what is left to do.
CountsKept == UNCHANGED <<created, current_def, handed, used, changes, ran, accepted>>

LEMMA Basics ==
  ASSUME LifetimeInv
  PROVE  /\ terminated \in [Lifetime -> BOOLEAN] /\ ~terminated[Eternal] /\ actions \in [Lifetime -> Seq(CallSet)]
         /\ todo \in [Threads -> Seq(CallSet)]
         /\ created \in Nat /\ created >= 2 /\ created \in Lifetime /\ 0..created \subseteq Lifetime /\ Lifetime \subseteq Nat
         /\ Eternal = 0 /\ Root = 1 /\ View = 2 /\ Eternal \in Lifetime /\ Root \in Lifetime /\ View \in Lifetime
         /\ \A l \in Made : l \in 3..created
         /\ Made = 3..created
         /\ \A n : Parent(n) \in {Root, View}
<1>1. /\ terminated \in [Lifetime -> BOOLEAN] /\ ~terminated[Eternal] /\ actions \in [Lifetime -> Seq(CallSet)]
      /\ todo \in [Threads -> Seq(CallSet)] /\ created \in Nat /\ created >= View
  BY DEF LifetimeInv, Types
<1>2. Eternal = 0 /\ Root = 1 /\ View = 2 /\ created \in Lifetime /\ Lifetime \subseteq Nat
  BY Numbers DEF LifetimeInv
<1>3. 0..created \subseteq Lifetime
  BY <1>1, <1>2, LifetimesAssumption DEF Lifetime
<1>4. \A n : Parent(n) \in {Root, View}
  BY DEF Parent
<1>5. {Eternal, Root, View} \subseteq Lifetime
  BY Numbers DEF LifetimeInv
<1> QED BY <1>1, <1>2, <1>3, <1>4, <1>5 DEF Made

LEMMA TypesAgain ==
  ASSUME Types, CountsKept, terminated' \in [Lifetime -> BOOLEAN], ~terminated'[Eternal],
         actions' \in [Lifetime -> Seq(CallSet)], todo' \in [Threads -> Seq(CallSet)]
  PROVE  Types'
<1>1. Made' = Made /\ Current' = Current
  BY DEF Made, Current, CountsKept
<1> QED BY <1>1 DEF Types, CountsKept

LEMMA TodoTyped ==
  ASSUME LifetimeInv, NEW t \in Threads, todo[t] # <<>>, NEW calls, calls \in Seq(CallSet),
         Calls(t, calls) \/ Throws(t, calls)
  PROVE  todo' \in [Threads -> Seq(CallSet)]
BY CallsMade, Thrown DEF LifetimeInv

LEMMA NoCalls == <<>> \in Seq(CallSet)
OBVIOUS

LEMMA OneCall == \A x \in CallSet : <<x>> \in Seq(CallSet)
OBVIOUS

LEMMA ActionsTyped ==
  ASSUME LifetimeInv, NEW l \in Lifetime, NEW s \in Seq(CallSet), actions' = [actions EXCEPT ![l] = s]
  PROVE  actions' \in [Lifetime -> Seq(CallSet)]
BY DEF LifetimeInv, Types

LEMMA EndTypes ==
  ASSUME LifetimeInv, NEW t \in Threads,
         Terminate(t) \/ Take(t) \/ Erase(t) \/ Tear(t)
  PROVE  Types' /\ Lasting
<1>1. todo[t] # <<>>
  BY DEF Terminate, Take, Erase, Tear, At
<1> DEFINE h == Head(todo[t])
<1>2. h \in CallSet /\ h.of \in Nat
  BY <1>1, Heads DEF CallSet
<1>3. CountsKept
  BY DEF CountsKept, historyVars, Terminate, Take, Erase, Tear
<1>4. CASE Terminate(t)
  <2>1. h.of \in 0..created
    BY <1>1, <1>4, Heads DEF Terminate, At
  <2>2. CASE h.of = Eternal
    <3>1. Calls(t, <<>>) /\ terminated' = terminated /\ actions' = actions
      BY <1>4, <2>2 DEF Terminate, Of
    <3>2. todo' \in [Threads -> Seq(CallSet)]
      BY <1>1, <3>1, NoCalls, TodoTyped
    <3> QED BY <1>3, <3>1, <3>2, Basics, TypesAgain DEF LifetimeInv, Lasting
  <2>3. CASE h.of # Eternal
    <3>1. /\ Calls(t, <<Do("take", h.of)>>) /\ terminated' = [terminated EXCEPT ![h.of] = TRUE] /\ actions' = actions
      BY <1>4, <2>3 DEF Terminate, Of
    <3>0. <<Do("take", h.of)>> \in Seq(CallSet)
      BY <1>2, Known, OneCall
    <3>2. todo' \in [Threads -> Seq(CallSet)]
      BY <1>1, <3>0, <3>1, TodoTyped
    <3>3. terminated' \in [Lifetime -> BOOLEAN] /\ ~terminated'[Eternal] /\ Lasting
      BY <2>1, <2>3, <3>1, Basics DEF Lasting
    <3> QED BY <1>3, <3>1, <3>2, <3>3, Basics, TypesAgain DEF LifetimeInv
  <2> QED BY <2>2, <2>3
<1>5. CASE Take(t)
  <2>1. h.of \in 1..created /\ h.of \in Lifetime
    <3>1. h.of \in 1..created
      BY <1>1, <1>5, Heads DEF Take, At
    <3>2. 0..created \subseteq Lifetime /\ created \in Nat
      BY Basics
    <3> QED BY <3>1, <3>2
  <2>2. Calls(t, Reverse(actions[h.of])) /\ terminated' = terminated /\ actions' = [actions EXCEPT ![h.of] = <<>>]
    BY <1>5 DEF Take, Of
  <2>3. Reverse(actions[h.of]) \in Seq(CallSet)
    BY <2>1, Basics, ReverseFacts
  <2>4. todo' \in [Threads -> Seq(CallSet)]
    BY <1>1, <2>2, <2>3, NoCalls, OneCall, TodoTyped
  <2>5. actions' \in [Lifetime -> Seq(CallSet)]
    BY <2>1, <2>2, Basics
  <2> QED BY <1>3, <2>2, <2>4, <2>5, Basics, TypesAgain DEF LifetimeInv, Lasting
<1>6. CASE Erase(t) \/ Tear(t)
  <2>1. h.of \in View..created
    BY <1>1, <1>6, Heads DEF Erase, Tear, At
  <2>2. Parent(h.of) \in Lifetime
    <3>1. Parent(h.of) \in {Root, View}
      BY Basics
    <3> QED BY <3>1, Basics
  <2>3. Calls(t, <<>>) /\ terminated' = terminated
    BY <1>6 DEF Erase, Tear
  <2>4. todo' \in [Threads -> Seq(CallSet)]
    BY <1>1, <2>3, NoCalls, TodoTyped
  <2>5. \E rest \in Seq(CallSet) : actions' = [actions EXCEPT ![Parent(h.of)] = rest]
    <3>1. actions[Parent(h.of)] \in Seq(CallSet)
      BY <2>2, Basics
    <3>2. Without(actions[Parent(h.of)], Ends(h.of)) \in Seq(CallSet)
      BY <3>1, WithoutFacts
    <3>3. \A rest \in Torn(actions[Parent(h.of)]) : rest \in Seq(CallSet)
      BY <3>1, TornFacts
    <3> QED BY <1>6, <3>2, <3>3 DEF Erase, Tear, Of
  <2>6. actions' \in [Lifetime -> Seq(CallSet)]
    BY <2>2, <2>5, Basics
  <2> QED BY <1>3, <2>3, <2>4, <2>6, Basics, TypesAgain DEF LifetimeInv, Lasting
<1> QED BY <1>4, <1>5, <1>6

LEMMA AddTypes ==
  ASSUME LifetimeInv, NEW t \in Threads, Attach(t) \/ AttachBack(t) \/ RemoveAction(t) \/ Swap(t) \/ Before(t)
  PROVE  Types' /\ Lasting
<1>1. todo[t] # <<>>
  BY DEF Attach, AttachBack, RemoveAction, Swap, Before, At
<1> DEFINE h == Head(todo[t])
<1>2. h \in CallSet /\ h.of \in Nat
  BY <1>1, Heads DEF CallSet
<1>3. CountsKept /\ terminated' = terminated
  BY DEF CountsKept, historyVars, lifetimeVars, Attach, AttachBack, RemoveAction, Swap, Before
<1>4. CASE Attach(t)
  <2>1. h = Do("attach", created) /\ created > View
    BY <1>1, <1>4, Heads DEF Attach, At, Fresh
  <2>2. h.of = created /\ Parent(created) = View /\ created \in Nat
    BY <2>1, Basics DEF Do, Parent
  <2>3. \/ Throws(t, <<Ends(created)>>) /\ actions' = actions
        \/ Calls(t, <<>>) /\ actions' = [actions EXCEPT ![View] = Append(@, Ends(created))]
    BY <1>4, <2>2 DEF Attach, Of
  <2>4. Ends(created) \in CallSet
    BY <2>2, Known
  <2>5. todo' \in [Threads -> Seq(CallSet)]
    BY <1>1, <2>3, <2>4, NoCalls, OneCall, TodoTyped
  <2>6. actions' \in [Lifetime -> Seq(CallSet)]
    <3>1. View \in Lifetime
      BY Basics
    <3>2. Append(actions[View], Ends(created)) \in Seq(CallSet)
      BY <2>4, <3>1, Basics
    <3> QED BY <2>3, <3>1, <3>2, Basics, ActionsTyped
  <2> QED BY <1>3, <2>5, <2>6, Basics, TypesAgain DEF LifetimeInv, Lasting
<1>5. CASE AttachBack(t)
  <2>1. h = Do("attach_back", created) /\ created > View
    BY <1>1, <1>5, Heads DEF AttachBack, At, Fresh
  <2>2. h.of = created /\ created \in Nat
    BY <2>1, Basics DEF Do
  <2>3. \/ Throws(t, <<>>) /\ actions' = actions
        \/ Calls(t, <<>>) /\ actions' = [actions EXCEPT ![created] = Append(@, Detach(created))]
    BY <1>5, <2>2 DEF AttachBack, Of
  <2>4. Detach(created) \in CallSet
    BY <2>2, Known
  <2>5. todo' \in [Threads -> Seq(CallSet)]
    BY <1>1, <2>3, NoCalls, TodoTyped
  <2>6. actions' \in [Lifetime -> Seq(CallSet)]
    <3>1. created \in Lifetime
      BY Basics
    <3>2. Append(actions[created], Detach(created)) \in Seq(CallSet)
      BY <2>4, <3>1, Basics
    <3> QED BY <2>3, <3>1, <3>2, Basics, ActionsTyped
  <2> QED BY <1>3, <2>5, <2>6, Basics, TypesAgain DEF LifetimeInv, Lasting
<1>6. CASE RemoveAction(t)
  <2>1. h.of = used /\ handed[used] \in {Eternal} \cup Made
    BY <1>1, <1>6, Heads DEF RemoveAction, At
  <2>2. handed[used] \in Lifetime
    BY <2>1, Basics
  <2>3. actions' = [actions EXCEPT ![handed[used]] = Without(@, Closing(Plain(used)))] /\ Calls(t, <<>>)
    BY <1>6, <2>1 DEF RemoveAction, Of
  <2>4. Without(actions[handed[used]], Closing(Plain(used))) \in Seq(CallSet)
    BY <2>2, Basics, WithoutFacts
  <2>5. todo' \in [Threads -> Seq(CallSet)]
    BY <1>1, <2>3, NoCalls, TodoTyped
  <2>6. actions' \in [Lifetime -> Seq(CallSet)]
    BY <2>3, <2>4, Basics
  <2> QED BY <1>3, <2>5, <2>6, Basics, TypesAgain DEF LifetimeInv, Lasting
<1>7. CASE Swap(t) \/ Before(t)
  <2>1. current_def \in Nat
    BY Basics DEF LifetimeInv, Types, Current
  <2>2. Write(h.of, current_def) \in CallSet /\ Reset \in CallSet
    BY <1>2, <2>1, Known
  <2>3. actions' = actions /\ \E calls \in {<<>>, <<Reset>>, <<Write(h.of, current_def)>>} : Calls(t, calls)
    BY <1>7 DEF Swap, Before, Of, lifetimeVars
  <2>4. todo' \in [Threads -> Seq(CallSet)]
    BY <1>1, <2>2, <2>3, NoCalls, OneCall, TodoTyped
  <2> QED BY <1>3, <2>3, <2>4, Basics, TypesAgain DEF LifetimeInv, Lasting
<1> QED BY <1>4, <1>5, <1>6, <1>7

LEMMA OtherTypes ==
  ASSUME LifetimeInv, NEW t \in Threads, Open(t) \/ Add(t) \/ Close(t)
  PROVE  Types' /\ Lasting
<1>1. todo[t] # <<>>
  BY DEF Open, Add, Close, At
<1> DEFINE h == Head(todo[t])
<1>2. h \in CallSet /\ h.of \in Nat
  BY <1>1, Heads DEF CallSet
<1>3. UNCHANGED <<created, current_def, handed, used, changes, terminated>>
  BY DEF historyVars, lifetimeVars, Open, Add, Close
<1>4. CASE Open(t)
  <2>1. <<Do("closing", h.of)>> \in Seq(CallSet)
    BY <1>2, Known, OneCall
  <2>2. CountsKept /\ actions' = actions /\ \E calls \in {<<>>, <<Do("closing", h.of)>>} : Calls(t, calls)
    BY <1>4, <1>3 DEF Open, Of, lifetimeVars, CountsKept
  <2>3. todo' \in [Threads -> Seq(CallSet)]
    BY <1>1, <2>1, <2>2, NoCalls, TodoTyped
  <2> QED BY <1>3, <2>2, <2>3, Basics, TypesAgain DEF LifetimeInv, Lasting
<1>5. CASE Close(t)
  <2>1. Calls(t, <<>>) /\ actions' = actions /\ accepted' = accepted /\ ran' = Append(ran, h.of)
    BY <1>5 DEF Close, lifetimeVars, Of
  <2>2. todo' \in [Threads -> Seq(CallSet)]
    BY <1>1, <2>1, NoCalls, TodoTyped
  <2>3. ran' \in Seq(Nat)
    BY <1>2, <2>1 DEF LifetimeInv, Types
  <2>4. Made' = Made /\ Current' = Current
    BY <1>3 DEF Made, Current
  <2> QED BY <1>3, <2>1, <2>2, <2>3, <2>4 DEF LifetimeInv, Types, Lasting
<1>6. CASE Add(t)
  <2>1. h.of = used /\ handed[used] \in {Eternal} \cup Made /\ used \in Nat
    <3>1. h.does \in {"closing", "plain"}
      BY <1>6 DEF Add, At
    <3> QED BY <1>1, <1>2, <3>1, Heads
  <2>2. handed[used] \in Lifetime
    BY <2>1, Basics
  <2> DEFINE k == IF At(t, "closing") THEN Bracket(used) ELSE Plain(used)
             l == handed[used]
  <2>3. k \in Nat
    BY <2>1, Known
  <2>4. /\ Throws(t, <<>>) \/ Calls(t, <<>>)
        /\ \/ actions' = actions /\ accepted' = accepted
           \/ actions' = [actions EXCEPT ![l] = Append(@, Closing(k))] /\ accepted' = accepted \cup {k}
    BY <1>6, <2>1 DEF Add, Of
  <2> HIDE DEF k, l
  <2>5. todo' \in [Threads -> Seq(CallSet)]
    BY <1>1, <2>4, NoCalls, TodoTyped
  <2>6. actions' \in [Lifetime -> Seq(CallSet)]
    <3>1. l \in Lifetime /\ actions[l] \in Seq(CallSet) /\ Closing(k) \in CallSet
      BY <2>2, <2>3, Basics, Known DEF l
    <3>2. Append(actions[l], Closing(k)) \in Seq(CallSet)
      BY <3>1
    <3> QED BY <2>4, <3>1, <3>2, Basics, ActionsTyped
  <2>7. accepted' \subseteq Nat
    BY <2>3, <2>4 DEF LifetimeInv, Types
  <2>8. ran' = ran
    BY <1>6 DEF Add
  <2>9. Made' = Made /\ Current' = Current
    BY <1>3 DEF Made, Current
  <2> QED BY <1>3, <2>5, <2>6, <2>7, <2>8, <2>9 DEF LifetimeInv, Types, Lasting
<1> QED BY <1>4, <1>5, <1>6

LEMMA StartTypes ==
  ASSUME LifetimeInv, Set \/ Use \/ Shutdown
  PROVE  Types' /\ Lasting
<1>1. terminated' = terminated /\ actions' = actions /\ UNCHANGED <<created, current_def, handed, ran, accepted>>
  BY DEF Set, Use, Shutdown, lifetimeVars, historyVars
<1>2. used \in Nat /\ changes \in Nat /\ MaxChanges \in Nat
  BY LifetimesAssumption DEF LifetimeInv, Types
<1>3. todo \in [Threads -> Seq(CallSet)] /\ View \in Nat /\ Root \in Nat
  BY Basics
<1>4. \E t \in Threads : \E s \in Seq(CallSet) : todo' = [todo EXCEPT ![t] = s]
  <2>1. CASE Set
    <3>1. <<Do("before", View), Do("change", View)>> \in Seq(CallSet)
      BY <1>3, Known
    <3> QED BY <2>1, <3>1 DEF Set, Threads
  <2>2. CASE Use
    <3>1. used + 1 \in Nat
      BY <1>2
    <3>2. Do("bracket", used + 1) \in CallSet /\ Do("plain", used + 1) \in CallSet /\ Do("remove", used + 1) \in CallSet
      BY <3>1, Known
    <3>3. \A more \in {<<>>, <<Do("remove", used + 1)>>} :
            <<Do("bracket", used + 1), Do("plain", used + 1)>> \o more \in Seq(CallSet)
      <4>1. \A x, y, z \in CallSet : <<x, y>> \o <<>> \in Seq(CallSet) /\ <<x, y>> \o <<z>> \in Seq(CallSet)
        OBVIOUS
      <4> QED BY <3>2, <4>1
    <3> QED BY <2>2, <3>3 DEF Use, Threads
  <2>3. CASE Shutdown
    <3>1. <<Ends(Root)>> \in Seq(CallSet)
      BY <1>3, Known
    <3> QED BY <2>3, <3>1 DEF Shutdown, Threads
  <2> QED BY <2>1, <2>2, <2>3
<1>5. todo' \in [Threads -> Seq(CallSet)]
  BY <1>3, <1>4
<1>6. used' \in 0..Len(handed) /\ changes' \in 0..MaxChanges /\ changes' >= changes
  BY <1>2 DEF Set, Use, Shutdown, LifetimeInv, Types
<1>7. Made' = Made /\ Current' = Current
  BY <1>1 DEF Made, Current
<1>8. created \in Nat /\ created <= View + changes' /\ created >= View
  <2>1. created \in Nat /\ created >= View /\ created <= View + changes
    <3>1. Types
      BY DEF LifetimeInv
    <3> QED BY <3>1, Zenon DEF Types
  <2>2. changes \in Nat /\ changes' \in Nat /\ changes <= changes' /\ View \in Nat
    BY <1>2, <1>3, <1>6
  <2>3. \A a, b, c, d \in Nat : a <= b + c /\ c <= d => a <= b + d
    OBVIOUS
  <2> QED BY <2>1, <2>2, <2>3
<1> QED BY <1>1, <1>5, <1>6, <1>7, <1>8 DEF LifetimeInv, Types, Lasting

LEMMA ReturnTypes ==
  ASSUME LifetimeInv, NEW t \in Threads, Return(t)
  PROVE  Types' /\ Lasting
<1>1. todo[t] # <<>> /\ Head(todo[t]).does = "return"
  BY DEF Return, At
<1>2. Head(todo[t]) = Do("return", created)
  BY <1>1, Heads
<1>3. Of(t) = created
  BY <1>2 DEF Of, Do
<1>4. /\ UNCHANGED <<terminated, actions, created, current_def, used, changes, ran, accepted>>
      /\ handed' = Append(handed, current_def)
      /\ \E calls \in {<<>>, <<Ends(created)>>} : Calls(t, calls)
  BY <1>3 DEF Return, lifetimeVars, historyVars
<1>5. <<Ends(created)>> \in Seq(CallSet)
  BY Basics, Known, OneCall
<1>6. todo' \in [Threads -> Seq(CallSet)]
  BY <1>1, <1>4, <1>5, NoCalls, TodoTyped
<1>7. Made' = Made /\ Current' = Current
  BY <1>4 DEF Made, Current
<1>8. handed' \in Seq({Eternal} \cup Made) /\ used \in 0..Len(handed')
  <2>1. handed \in Seq({Eternal} \cup Made) /\ current_def \in {Eternal} \cup Made /\ used \in 0..Len(handed)
    BY DEF LifetimeInv, Types, Current
  <2> QED BY <1>4, <2>1
<1> QED BY <1>4, <1>6, <1>7, <1>8 DEF LifetimeInv, Types, Lasting

LEMMA ChangeTypes ==
  ASSUME LifetimeInv, NEW t \in Threads, Change(t)
  PROVE  Types' /\ Lasting
<1>1. todo[t] # <<>> /\ Head(todo[t]).does = "change"
  BY DEF Change, At
<1>2. t = "wire"
  BY <1>1, Heads
<1>3. UNCHANGED <<terminated, actions, current_def, handed, used, changes, ran, accepted>>
  BY DEF Change, historyVars
<1>4. CASE Calls(t, <<>>) /\ created' = created
  <2>1. todo' \in [Threads -> Seq(CallSet)]
    BY <1>1, <1>4, NoCalls, TodoTyped
  <2>2. CountsKept
    BY <1>3, <1>4 DEF CountsKept
  <2> QED BY <1>3, <2>1, <2>2, Basics, TypesAgain DEF LifetimeInv, Lasting
<1>5. CASE ~(Calls(t, <<>>) /\ created' = created)
  <2> DEFINE n == created + 1
  <2>1. ~terminated[View] /\ created' = n
        /\ Calls(t, <<Do("attach", n), Do("attach_back", n), Do("swap", n), Do("return", n)>>)
    BY <1>5 DEF Change
  <2>2. created \in Nat /\ n \in Nat /\ created >= 2 /\ View = 2 /\ changes \in Nat
    BY Basics DEF LifetimeInv, Types
  <2> HIDE DEF n
  <2>3. <<Do("attach", n), Do("attach_back", n), Do("swap", n), Do("return", n)>> \in Seq(CallSet)
    BY <2>2, Known
  <2>4. todo' \in [Threads -> Seq(CallSet)]
    BY <1>1, <2>1, <2>3, TodoTyped
  <2>5. wire[1].does = "change"
    BY <1>1, <1>2, Heads DEF wire
  <2>6. WireChanges
    <3>1. wire # <<>>
      BY <1>1, <1>2 DEF wire
    <3>2. ~(\A i \in 1..Len(wire) : Ending(wire[i], Current))
      <4>1. ~Ending(wire[1], Current)
        BY <2>5 DEF Ending
      <4>2. 1 \in 1..Len(wire)
        BY <3>1, Numbers, HeadOf DEF LifetimeInv
      <4> QED BY <4>1, <4>2
    <3>3. ~WireBefore /\ ~WireResets /\ ~WireNests /\ ~WireReturns
      BY <2>5 DEF WireBefore, WireResets, WireNests, WireReturns, Do, Reset, Write, Ends, ReturnCall
    <3> QED BY <3>2, <3>3 DEF LifetimeInv, WireInv, WireEnds
  <2>7. created < View + changes
    BY <2>6 DEF WireChanges, Room
  <2>8. n >= View /\ n <= View + changes /\ created = n - 1
    BY <2>2, <2>7 DEF n
  <2>9. current_def = Eternal
    BY <2>1, <2>6 DEF WireChanges
  <2>10. Made \subseteq Made' /\ current_def \in Current'
    BY <2>1, <2>2, <2>8, <2>9 DEF Made, Current
  <2>11. handed \in Seq({Eternal} \cup Made')
    <3>1. handed \in Seq({Eternal} \cup Made)
      BY DEF LifetimeInv, Types
    <3> QED BY <2>10, <3>1
  <2> QED BY <1>3, <2>1, <2>2, <2>4, <2>8, <2>10, <2>11 DEF LifetimeInv, Types, Lasting
<1> QED BY <1>4, <1>5

LEMMA WriteTypes ==
  ASSUME LifetimeInv, NEW t \in Threads, WriteCurrent(t)
  PROVE  Types' /\ Lasting
<1>1. todo[t] # <<>> /\ Head(todo[t]).does = "write"
  BY DEF WriteCurrent, At
<1> DEFINE h == Head(todo[t])
<1>2. h.of \in Current /\ h.was \in {Eternal} \cup Made
  BY <1>1, Heads
<1>3. /\ UNCHANGED <<terminated, actions, created, handed, used, changes, ran, accepted>>
      /\ current_def' = h.of
      /\ \E calls \in {<<>> \o <<Ends(h.was)>>, <<Ends(current_def)>> \o <<Ends(h.was)>>} : Calls(t, calls)
  BY DEF WriteCurrent, Of, historyVars
<1>4. Ends(h.was) \in CallSet /\ Ends(current_def) \in CallSet
  <2>0. current_def \in {Eternal} \cup Made
    BY DEF LifetimeInv, Types, Current
  <2>1. h.was \in Nat /\ current_def \in Nat
    BY <1>2, <2>0, Basics
  <2> QED BY <2>1, Known
<1> HIDE DEF h
<1>5. <<>> \o <<Ends(h.was)>> \in Seq(CallSet) /\ <<Ends(current_def)>> \o <<Ends(h.was)>> \in Seq(CallSet)
  BY <1>4
<1>6. todo' \in [Threads -> Seq(CallSet)]
  BY <1>1, <1>3, <1>5, TodoTyped
<1>7. Made' = Made /\ Current' = Current
  BY <1>3 DEF Made, Current
<1> QED BY <1>2, <1>3, <1>6, <1>7 DEF LifetimeInv, Types, Lasting

LEMMA TypesStep ==
  ASSUME LifetimeInv, [Next]_vars
  PROVE  Types' /\ Lasting
<1>1. CASE UNCHANGED vars
  <2>1. UNCHANGED <<terminated, actions, created, current_def, todo, handed, used, changes, ran, accepted>>
    BY <1>1 DEF vars, lifetimeVars, historyVars
  <2> QED BY <2>1, Basics, TypesAgain DEF CountsKept, LifetimeInv, Lasting
<1> QED BY <1>1, EndTypes, AddTypes, OtherTypes, StartTypes, ReturnTypes, ChangeTypes, WriteTypes DEF Next, Step

\* s may be the actions of lifetime l.
Legal(l, s) == \A j \in 1..Len(s) : ActionOf(l, s[j])

LEMMA LegalNow == LifetimeInv => \A l \in Lifetime : Legal(l, actions[l])
BY DEF LifetimeInv, ActionsInv, Legal

LEMMA LegalAppend ==
  ASSUME NEW l, NEW s \in Seq(CallSet), Legal(l, s), NEW x \in CallSet, ActionOf(l, x)
  PROVE  Legal(l, Append(s, x))
<1>1. Len(Append(s, x)) = Len(s) + 1 /\ Len(s) \in Nat /\ Append(s, x)[Len(s) + 1] = x
  OBVIOUS
<1>2. \A i \in 1..Len(s) : Append(s, x)[i] = s[i]
  OBVIOUS
<1>3. \A i \in 1..Len(Append(s, x)) : i \in 1..Len(s) \/ i = Len(s) + 1
  BY <1>1
<1> QED BY <1>1, <1>2, <1>3 DEF Legal

LEMMA LegalFewer ==
  ASSUME NEW l, NEW s \in Seq(CallSet), Legal(l, s), NEW x
  PROVE  Legal(l, Without(s, x)) /\ \A r \in Torn(s) : Legal(l, r)
<1>1. \A r \in Torn(s) : Legal(l, r)
  BY TornFacts DEF Legal
<1>2. Legal(l, Without(s, x))
  <2>1. CASE ~Contains(s, x)
    BY <2>1, WithoutFacts
  <2>2. CASE Contains(s, x)
    <3> DEFINE r == Without(s, x)
    <3>1. PICK p \in 1..Len(s) :
            /\ Len(r) = Len(s) - 1
            /\ \A i \in 1..(p - 1) : r[i] = s[i]
            /\ \A i \in p..(Len(s) - 1) : r[i] = s[i + 1]
      <4>1. \E p \in 1..Len(s) :
              /\ s[p] = x /\ Len(Without(s, x)) = Len(s) - 1
              /\ \A i \in 1..(p - 1) : Without(s, x)[i] = s[i]
              /\ \A i \in p..(Len(s) - 1) : Without(s, x)[i] = s[i + 1]
        BY <2>2, WithoutFacts
      <4> QED BY <4>1
    <3> HIDE DEF r
    <3>2. Len(s) \in Nat
      OBVIOUS
    <3>3. \A i \in 1..Len(r) : (r[i] = s[i] /\ i \in 1..Len(s)) \/ (r[i] = s[i + 1] /\ i + 1 \in 1..Len(s))
      <4> SUFFICES ASSUME NEW i \in 1..Len(r)
                   PROVE (r[i] = s[i] /\ i \in 1..Len(s)) \/ (r[i] = s[i + 1] /\ i + 1 \in 1..Len(s))
        OBVIOUS
      <4>1. CASE i < p
        <5>1. i \in 1..(p - 1) /\ i \in 1..Len(s)
          BY <3>1, <3>2, <4>1
        <5> QED BY <3>1, <5>1
      <4>2. CASE ~(i < p)
        <5>1. i \in p..(Len(s) - 1) /\ i + 1 \in 1..Len(s)
          BY <3>1, <3>2, <4>2
        <5> QED BY <3>1, <5>1
      <4> QED BY <4>1, <4>2
    <3>4. Legal(l, r)
      BY <3>3 DEF Legal
    <3> QED BY <3>4 DEF r
  <2> QED BY <2>1, <2>2
<1> QED BY <1>1, <1>2

\* What a step adds to the actions of a lifetime belongs there.
LEMMA LegalStep ==
  ASSUME LifetimeInv, [Next]_vars
  PROVE  /\ \A l \in Lifetime : Legal(l, actions'[l])
         /\ created' = created \/ (created' = created + 1 /\ ~terminated[View])
         /\ \A l \in Lifetime : terminated'[l] => terminated[l] \/ l <= created
<1>1. actions \in [Lifetime -> Seq(CallSet)] /\ (\A l \in Lifetime : Legal(l, actions[l])) /\ View = 2
  BY Basics, LegalNow
<1>2. CASE actions' = actions /\ terminated' = terminated
  BY <1>1, <1>2 DEF Next, Step, vars, lifetimeVars, Set, Use, Shutdown, Terminate, Take, Erase, Tear, Close, Attach,
     AttachBack, Swap, WriteCurrent, Return, Before, Change, Open, Add, RemoveAction
<1>3. ASSUME NEW l \in Lifetime, NEW s, actions' = [actions EXCEPT ![l] = s], Legal(l, s),
             UNCHANGED <<created, terminated>>
      PROVE  /\ \A m \in Lifetime : Legal(m, actions'[m])
             /\ created' = created \/ (created' = created + 1 /\ ~terminated[View])
             /\ \A m \in Lifetime : terminated'[m] => terminated[m] \/ m <= created
  BY <1>1, <1>3
<1>4. ASSUME NEW t \in Threads, Terminate(t) PROVE
             /\ \A m \in Lifetime : Legal(m, actions'[m])
             /\ created' = created \/ (created' = created + 1 /\ ~terminated[View])
             /\ \A m \in Lifetime : terminated'[m] => terminated[m] \/ m <= created
  <2>1. Of(t) \in 0..created /\ created \in Nat
    BY <1>4, Heads, Basics DEF Terminate, At, Of
  <2>2. actions' = actions /\ created' = created
    BY <1>4 DEF Terminate
  <2>3. terminated' = terminated \/ terminated' = [terminated EXCEPT ![Of(t)] = TRUE]
    BY <1>4 DEF Terminate
  <2>4. terminated \in [Lifetime -> BOOLEAN]
    BY Basics
  <2> QED BY <1>1, <2>1, <2>2, <2>3, <2>4
<1>5. ASSUME NEW t \in Threads, Take(t) PROVE \E l \in Lifetime : \E s :
         actions' = [actions EXCEPT ![l] = s] /\ Legal(l, s) /\ UNCHANGED <<created, terminated>>
  <2>1. Of(t) \in 1..created
    BY <1>5, Heads DEF Take, At, Of
  <2>2. Of(t) \in Lifetime
    <3>1. 0..created \subseteq Lifetime /\ created \in Nat
      BY Basics
    <3> QED BY <2>1, <3>1
  <2>3. Legal(Of(t), <<>>)
    BY DEF Legal
  <2>4. actions' = [actions EXCEPT ![Of(t)] = <<>>] /\ UNCHANGED <<created, terminated>>
    BY <1>5 DEF Take
  <2> QED BY <2>2, <2>3, <2>4
<1>6. ASSUME NEW t \in Threads, Erase(t) \/ Tear(t) PROVE \E l \in Lifetime : \E s :
         actions' = [actions EXCEPT ![l] = s] /\ Legal(l, s) /\ UNCHANGED <<created, terminated>>
  <2>1. Parent(Of(t)) \in Lifetime
    <3>1. Parent(Of(t)) \in {Root, View}
      BY Basics
    <3> QED BY <3>1, Basics
  <2> DEFINE p == Parent(Of(t))
  <2>2. UNCHANGED <<created, terminated>>
    BY <1>6 DEF Erase, Tear
  <2>3. \/ actions' = [actions EXCEPT ![p] = Without(actions[p], Ends(Of(t)))]
        \/ \E rest \in Torn(actions[p]) : actions' = [actions EXCEPT ![p] = rest]
    BY <1>6 DEF Erase, Tear
  <2>4. actions[p] \in Seq(CallSet) /\ Legal(p, actions[p])
    BY <1>1, <2>1
  <2> HIDE DEF p
  <2>5. Legal(p, Without(actions[p], Ends(Of(t)))) /\ \A r \in Torn(actions[p]) : Legal(p, r)
    BY <2>4, LegalFewer
  <2> QED BY <2>1, <2>2, <2>3, <2>5 DEF p
<1>7. ASSUME NEW t \in Threads, Attach(t), ~(actions' = actions /\ terminated' = terminated) PROVE \E l \in Lifetime : \E s :
         actions' = [actions EXCEPT ![l] = s] /\ Legal(l, s) /\ UNCHANGED <<created, terminated>>
  <2>1. Head(todo[t]) = Do("attach", created) /\ created > View
    BY <1>7, Heads DEF Attach, At, Fresh
  <2>2. Of(t) = created /\ Parent(created) = View /\ created \in Nat /\ created \in Made
    BY <2>1, Basics DEF Of, Do, Parent
  <2>3. UNCHANGED <<created, terminated>> /\ actions' = [actions EXCEPT ![View] = Append(@, Ends(created))]
    BY <1>7, <2>2 DEF Attach
  <2>4. View \in Lifetime /\ actions[View] \in Seq(CallSet) /\ Ends(created) \in CallSet /\ Legal(View, actions[View])
    BY <1>1, <2>2, Basics, Known
  <2>5. ActionOf(View, Ends(created))
    BY <2>2 DEF ActionOf
  <2>6. Legal(View, Append(actions[View], Ends(created)))
    BY <2>4, <2>5, LegalAppend
  <2> QED BY <2>3, <2>4, <2>6
<1>8. ASSUME NEW t \in Threads, AttachBack(t), ~(actions' = actions /\ terminated' = terminated) PROVE \E l \in Lifetime : \E s :
         actions' = [actions EXCEPT ![l] = s] /\ Legal(l, s) /\ UNCHANGED <<created, terminated>>
  <2>1. Head(todo[t]) = Do("attach_back", created) /\ created > View
    BY <1>8, Heads DEF AttachBack, At, Fresh
  <2>2. Of(t) = created /\ created \in Nat
    BY <2>1, Basics DEF Of, Do
  <2>3. UNCHANGED <<created, terminated>> /\ actions' = [actions EXCEPT ![created] = Append(@, Detach(created))]
    BY <1>8, <2>2 DEF AttachBack
  <2>4. created \in Lifetime /\ actions[created] \in Seq(CallSet) /\ Detach(created) \in CallSet /\ Legal(created, actions[created])
    BY <1>1, <2>2, Basics, Known
  <2>5. ActionOf(created, Detach(created))
    BY <2>1, <2>2 DEF ActionOf
  <2>6. Legal(created, Append(actions[created], Detach(created)))
    BY <2>4, <2>5, LegalAppend
  <2> QED BY <2>3, <2>4, <2>6
<1>9. ASSUME NEW t \in Threads, Add(t), ~(actions' = actions /\ terminated' = terminated) PROVE \E l \in Lifetime : \E s :
         actions' = [actions EXCEPT ![l] = s] /\ Legal(l, s) /\ UNCHANGED <<created, terminated>>
  <2>1. Of(t) = used /\ handed[used] \in {Eternal} \cup Made /\ used \in Nat
    <3>1. Head(todo[t]).does \in {"closing", "plain"} /\ todo[t] # <<>>
      BY <1>9 DEF Add, At
    <3> QED BY <3>1, Heads DEF Of
  <2> DEFINE k == IF At(t, "closing") THEN Bracket(used) ELSE Plain(used)
             l == handed[used]
  <2>2. k \in Nat
    BY <2>1, Known
  <2>3. l # Eternal /\ actions' = [actions EXCEPT ![l] = Append(@, Closing(k))] /\ UNCHANGED <<created, terminated>>
    BY <1>9, <2>1 DEF Add
  <2> HIDE DEF k, l
  <2>4. l \in Made
    BY <2>1, <2>3 DEF l
  <2>5. l \in Lifetime /\ actions[l] \in Seq(CallSet) /\ Closing(k) \in CallSet /\ Legal(l, actions[l]) /\ l > View /\ l <= created
    <3>1. l \in 3..created /\ View = 2 /\ created \in Nat /\ 0..created \subseteq Lifetime
      BY <2>4, Basics
    <3>2. l \in Lifetime /\ l > View /\ l <= created
      BY <3>1
    <3>3. Closing(k) \in CallSet
      BY <2>2, Known
    <3> QED BY <1>1, <3>2, <3>3
  <2>6. ActionOf(l, Closing(k))
    BY <2>2, <2>5 DEF ActionOf
  <2>7. Legal(l, Append(actions[l], Closing(k)))
    BY <2>5, <2>6, LegalAppend
  <2> QED BY <2>3, <2>5, <2>7
<1>10. ASSUME NEW t \in Threads, RemoveAction(t) PROVE \E l \in Lifetime : \E s :
         actions' = [actions EXCEPT ![l] = s] /\ Legal(l, s) /\ UNCHANGED <<created, terminated>>
  <2>1. Of(t) = used /\ handed[used] \in {Eternal} \cup Made
    BY <1>10, Heads DEF RemoveAction, At, Of
  <2>2. handed[used] \in Lifetime
    BY <2>1, Basics
  <2>3. /\ actions' = [actions EXCEPT ![handed[used]] = Without(@, Closing(Plain(used)))]
        /\ UNCHANGED <<created, terminated>>
    BY <1>10, <2>1 DEF RemoveAction
  <2>4. actions[handed[used]] \in Seq(CallSet) /\ Legal(handed[used], actions[handed[used]])
    BY <1>1, <2>2
  <2>5. Legal(handed[used], Without(actions[handed[used]], Closing(Plain(used))))
    BY <2>4, LegalFewer
  <2> QED BY <2>2, <2>3, <2>5
<1>11. ASSUME NEW t \in Threads, Close(t) \/ Swap(t) \/ WriteCurrent(t) \/ Return(t) \/ Before(t) \/ Change(t) \/ Open(t)
       PROVE  actions' = actions /\ terminated' = terminated
  BY <1>11 DEF Close, Swap, WriteCurrent, Return, Before, Change, Open, lifetimeVars
<1>12. Set \/ Use \/ Shutdown \/ UNCHANGED vars => actions' = actions /\ terminated' = terminated
  BY DEF Set, Use, Shutdown, vars, lifetimeVars
<1>13. CASE ~(actions' = actions /\ terminated' = terminated)
  <2>1. PICK t \in Threads : Step(t)
    BY <1>12, <1>13 DEF Next
  <2>2. CASE Terminate(t)
    BY <1>4, <2>2
  <2>3. CASE Take(t) \/ Erase(t) \/ Tear(t) \/ Attach(t) \/ AttachBack(t) \/ Add(t) \/ RemoveAction(t)
    <3>1. PICK l \in Lifetime : \E s :
            actions' = [actions EXCEPT ![l] = s] /\ Legal(l, s) /\ UNCHANGED <<created, terminated>>
      BY <1>5, <1>6, <1>7, <1>8, <1>9, <1>10, <1>13, <2>3
    <3>2. PICK s : actions' = [actions EXCEPT ![l] = s] /\ Legal(l, s) /\ UNCHANGED <<created, terminated>>
      BY <3>1
    <3> QED BY <1>3, <3>2
  <2> QED BY <1>11, <1>13, <2>1, <2>2, <2>3 DEF Step
<1> QED BY <1>2, <1>13

LEMMA ActionsStep ==
  ASSUME LifetimeInv, [Next]_vars
  PROVE  ActionsInv' /\ Made \subseteq Made' /\ created' \in Nat /\ created' >= created
<1>1. /\ created \in Nat /\ \A l \in Lifetime : terminated[l] => l <= created
      /\ Lifetime \subseteq Nat
  BY Basics DEF LifetimeInv, ActionsInv
<1>2. created' \in Nat /\ created' >= created
  BY <1>1, LegalStep
<1>3. Made \subseteq Made'
  BY <1>1, <1>2, Basics DEF Made
<1>4. \A l \in Lifetime : \A x : ActionOf(l, x) => ActionOf(l, x)'
  BY <1>1, <1>2, <1>3 DEF ActionOf
<1>5. \A l \in Lifetime : \A j \in 1..Len(actions'[l]) : ActionOf(l, actions'[l][j])
  BY LegalStep DEF Legal
<1>6. \A l \in Lifetime : terminated'[l] => l <= created'
  BY <1>1, <1>2, LegalStep
<1>7. Lifetime' = Lifetime
  BY DEF Lifetime
<1> QED BY <1>2, <1>3, <1>4, <1>5, <1>6 DEF ActionsInv

-----------------------------------------------------------------------------
(* The wire's thread.                                                      *)

LEMMA CreatedIn ==
  ASSUME LifetimeInv
  PROVE  /\ Current \subseteq {Eternal, created} /\ Current \subseteq Lifetime /\ Eternal \in Current
         /\ (created > View => created \in Current) /\ (\A l \in Current \ {Eternal} : l = created /\ created > View)
         /\ Eternal # View /\ Eternal # created /\ created \in Nat
         /\ current_def \in Current
<1>1. created \in Nat /\ created >= 2 /\ Eternal = 0 /\ View = 2 /\ created \in Lifetime /\ Eternal \in Lifetime
  BY Basics
<1>2. current_def \in Current
  BY DEF LifetimeInv, Types
<1> QED BY <1>1, <1>2 DEF Current, Made

\* After the step x is what the end of a lifetime of L makes a thread do.
EndingNext(x, L) ==
  \/ x.does = "close" /\ x.was = Eternal
  \/ x.does = "terminate" /\ x.was = Eternal /\ x.of \in L
  \/ x.does \in {"take", "detach"} /\ x.was = Eternal /\ x.of \in L \ {Eternal} /\ terminated'[x.of]

\* The wire's thread is in what the end of a lifetime makes it do.
LEMMA WireEnding ==
  ASSUME LifetimeInv, Lasting, wire # <<>>, Ending(wire[1], Current), wire[1].of \in Nat,
         NEW calls \in Seq(CallSet), \A i \in 1..Len(calls) : EndingNext(calls[i], Current), wire' = calls \o Tail(wire),
         UNCHANGED <<created, current_def, handed, changes>>,
         wire[1] = Ends(created) => terminated'[created],
         wire[1] = Ends(Eternal) => calls = <<>>,
         wire[1] = Ends(created) \/ terminated' = terminated
  PROVE  WireInv'
<1>1. /\ View \in Lifetime /\ created \in Lifetime /\ created \in Nat /\ Current \subseteq Lifetime
      /\ wire \in Seq(CallSet) /\ Eternal # created /\ Lifetime' = Lifetime /\ View = 2
  BY Basics, CreatedIn, Numbers DEF LifetimeInv, Lifetime
<1>2. Made' = Made /\ Current' = Current /\ ReturnCall' = ReturnCall /\ ChangeCall' = ChangeCall
  BY DEF Made, Current, ReturnCall, ChangeCall
<1>3. \A x : Ending(x, Current) => EndingNext(x, Current)
  BY <1>1 DEF Ending, EndingNext, Lasting
<1> DEFINE w == wire'
<1>n. w = calls \o Tail(wire)
  OBVIOUS
<1> HIDE DEF w
<1>4. /\ w \in Seq(CallSet) /\ Len(w) = Len(calls) + Len(wire) - 1 /\ Len(calls) \in Nat /\ Len(wire) \in Nat
      /\ Len(wire) >= 1
      /\ \A i \in 1..Len(calls) : w[i] = calls[i] /\ i \in 1..Len(w)
      /\ \A i \in (Len(calls) + 1)..Len(w) :
           w[i] = wire[i - Len(calls) + 1] /\ i - Len(calls) + 1 \in 2..Len(wire)
      /\ \A i \in 2..Len(wire) :
           w[i + Len(calls) - 1] = wire[i] /\ i + Len(calls) - 1 \in (Len(calls) + 1)..Len(w)
  BY <1>1, <1>n, InPlace
<1>5. wire[1].does \in {"close", "terminate", "take", "detach"}
  BY DEF Ending
<1>6. ~WireBefore /\ ~WireResets /\ ~WireNests
  BY <1>5 DEF WireBefore, WireResets, WireNests, Do, Reset, Write
<1>7. CASE WireEnds
  <2>1. Settled'
    BY <1>1, <1>7 DEF WireEnds, Settled, Lasting
  <2>2. \A i \in 1..Len(w) : EndingNext(w[i], Current)
    <3> SUFFICES ASSUME NEW i \in 1..Len(w) PROVE EndingNext(w[i], Current)
      OBVIOUS
    <3>1. i \in 1..Len(calls) \/ i \in (Len(calls) + 1)..Len(w)
      BY <1>4
    <3>2. CASE i \in 1..Len(calls)
      BY <1>4, <3>2
    <3>3. CASE i \in (Len(calls) + 1)..Len(w)
      <4>1. w[i] = wire[i - Len(calls) + 1] /\ i - Len(calls) + 1 \in 1..Len(wire)
        BY <1>4, <3>3
      <4> QED BY <1>3, <1>7, <4>1 DEF WireEnds
    <3> QED BY <3>1, <3>2, <3>3
  <2>3. \A i \in 1..Len(wire') : Ending(wire[i], Current)'
    BY <1>2, <2>2 DEF w, Ending, EndingNext
  <2>4. WireEnds'
    BY <2>1, <2>3 DEF WireEnds
  <2> QED BY <2>4 DEF WireInv
<1>8. CASE WireChanges
  <2>1. Len(wire) >= 2
    <3>1. wire[Len(wire)].does = "change"
      BY <1>8 DEF WireChanges, ChangeCall, Do
    <3>2. Len(wire) # 1
      <4> SUFFICES ASSUME Len(wire) = 1 PROVE FALSE
        OBVIOUS
      <4>1. wire[1].does = "change"
        BY <3>1
      <4> QED BY <1>5, <4>1
    <3>3. Len(wire) \in Nat /\ Len(wire) >= 1
      BY <1>4
    <3>4. \A n \in Nat : n >= 1 /\ n # 1 => n >= 2
      OBVIOUS
    <3> QED BY <3>2, <3>3, <3>4
  <2>2. Len(wire) \in 2..Len(wire) /\ Len(wire) + Len(calls) - 1 = Len(w) /\ Len(w) >= 1
    BY <1>4, <2>1
  <2>3. w[Len(w)] = ChangeCall
    BY <1>4, <1>8, <2>2 DEF WireChanges
  <2>4. \A i \in 1..Len(w) : i < Len(w) => EndingNext(w[i], Current)
    <3> SUFFICES ASSUME NEW i \in 1..Len(w), i < Len(w) PROVE EndingNext(w[i], Current)
      OBVIOUS
    <3>1. i \in 1..Len(calls) \/ i \in (Len(calls) + 1)..Len(w)
      BY <1>4
    <3>2. CASE i \in 1..Len(calls)
      BY <1>4, <3>2
    <3>3. CASE i \in (Len(calls) + 1)..Len(w)
      <4>1. w[i] = wire[i - Len(calls) + 1] /\ i - Len(calls) + 1 \in 1..Len(wire) /\ i - Len(calls) + 1 < Len(wire)
        BY <1>4, <3>3
      <4> QED BY <1>3, <1>8, <4>1 DEF WireChanges
    <3> QED BY <3>1, <3>2, <3>3
  <2>5. Contains(wire, Ends(created)) => terminated'[created] \/ Contains(w, Ends(created))
    <3> SUFFICES ASSUME NEW i \in 1..Len(wire), wire[i] = Ends(created)
                 PROVE  terminated'[created] \/ Contains(w, Ends(created))
      BY DEF Contains
    <3>1. CASE i = 1
      BY <3>1
    <3>2. CASE i # 1
      <4>1. i \in 2..Len(wire)
        BY <1>4, <3>2
      <4>2. w[i + Len(calls) - 1] = Ends(created) /\ i + Len(calls) - 1 \in 1..Len(w)
        BY <1>4, <4>1
      <4> QED BY <4>2 DEF Contains
    <3> QED BY <3>1, <3>2
  <2>6. \/ terminated'[View]
        \/ current_def' = Eternal /\ (created' = View \/ terminated'[created] \/ Contains(w, Ends(created)))
    BY <1>1, <1>8, <2>5 DEF WireChanges, Lasting
  <2>7. Room'
    BY <1>8 DEF WireChanges, Room
  <2>8. w # <<>>
    BY <2>2
  <2>9. Ends(created)' = Ends(created)
    BY DEF Ends, Do
  <2>10. \A i \in 1..Len(wire') : i < Len(wire') => Ending(wire[i], Current)'
    BY <1>2, <2>4 DEF w, Ending, EndingNext
  <2>11. WireChanges'
    BY <1>2, <2>3, <2>6, <2>7, <2>8, <2>9, <2>10 DEF WireChanges, w
  <2> QED BY <2>11 DEF WireInv
<1>9. CASE WireReturns
  <2>1. wire = <<Ends(Eternal), ReturnCall>> /\ Fresh
    BY <1>5, <1>9 DEF WireReturns, ReturnCall, Do
  <2>2. wire[1] = Ends(Eternal) /\ Tail(wire) = <<ReturnCall>>
    BY <2>1
  <2>3. calls = <<>> /\ terminated' = terminated
    BY <1>1, <2>1, <2>2 DEF Ends, Do
  <2>4. ReturnCall \in CallSet
    BY <1>1, Known DEF ReturnCall
  <2>5. wire' = <<ReturnCall>>
    BY <2>2, <2>3, <2>4
  <2>6. Fresh'
    BY <2>1, <2>3 DEF Fresh
  <2>7. WireReturns'
    BY <1>2, <1>9, <2>3, <2>5, <2>6 DEF WireReturns
  <2> QED BY <2>7 DEF WireInv
<1> QED BY <1>6, <1>7, <1>8, <1>9 DEF LifetimeInv, WireInv

LEMMA WireEndStep ==
  ASSUME LifetimeInv, [Next]_vars,
         Terminate("wire") \/ Take("wire") \/ Erase("wire") \/ Tear("wire") \/ Close("wire")
  PROVE  WireInv'
<1>1. wire # <<>> /\ wire[1].does \in {"close", "terminate", "take", "detach"} /\ Lasting
  <2>1. wire # <<>> /\ Head(wire).does \in {"close", "terminate", "take", "detach"}
    BY DEF Terminate, Take, Erase, Tear, Close, At, wire
  <2>2. Head(wire) = wire[1]
    BY <2>1, Numbers, HeadOf DEF LifetimeInv
  <2> QED BY <2>1, <2>2, TypesStep
<1> DEFINE h == wire[1]
<1>2. Ending(h, Current) /\ h \in CallSet /\ h.of \in Nat /\ h = Head(wire) /\ "wire" \in Threads /\ wire \in Seq(CallSet)
  <2>1. wire \in Seq(CallSet)
    BY Numbers DEF LifetimeInv
  <2>2. h \in CallSet /\ h = Head(wire)
    BY <1>1, <2>1, HeadOf
  <2>3. Ending(h, Current)
    BY <1>1, WireHead DEF LifetimeInv
  <2> QED BY <2>1, <2>2, <2>3 DEF CallSet, Threads
<1>3. UNCHANGED <<created, current_def, handed, changes>>
  BY DEF Terminate, Take, Erase, Tear, Close, lifetimeVars
<1>4. h.was = Eternal
  BY <1>2 DEF Ending
<1>6. CASE Terminate("wire")
  <2>1. h.does = "terminate" /\ h.of \in Current
    BY <1>2, <1>6 DEF Terminate, At, wire, Ending
  <2>2. h = Ends(h.of) /\ Ends(h.of) \in CallSet
    <3>1. Ends(h.of) \in CallSet
      BY <1>2, Known
    <3>2. Ends(h.of).does = "terminate" /\ Ends(h.of).of = h.of /\ Ends(h.of).was = Eternal
      BY DEF Ends, Do
    <3> QED BY <1>2, <1>4, <2>1, <3>1, <3>2, SameCall
  <2>3. CASE h.of = Eternal
    <3>1. Calls("wire", <<>>) /\ terminated' = terminated
      BY <1>2, <1>6, <2>3 DEF Terminate, Of, wire
    <3>2. wire' = <<>> \o Tail(wire)
      BY <1>1, <1>2, <3>1, NoCalls, CallsMade DEF LifetimeInv, wire
    <3>3. wire[1] # Ends(created)
      BY <2>3, CreatedIn DEF Ends, Do
    <3>4. <<>> \in Seq(CallSet) /\ \A i \in 1..Len(<<>>) : EndingNext(<<>>[i], Current)
      OBVIOUS
    <3> QED BY <1>1, <1>2, <1>3, <3>1, <3>2, <3>3, <3>4, WireEnding
  <2>4. CASE h.of # Eternal
    <3> DEFINE calls == <<Do("take", created)>>
    <3>1. h.of = created /\ created > View
      BY <2>1, <2>4, CreatedIn
    <3>2. Calls("wire", calls) /\ terminated' = [terminated EXCEPT ![created] = TRUE]
      BY <1>2, <1>6, <2>4, <3>1 DEF Terminate, Of, wire
    <3>3. terminated'[created] /\ Do("take", created) \in CallSet /\ created \in Current /\ created # Eternal
      BY <3>1, <3>2, Basics, Known, CreatedIn
    <3>4. calls \in Seq(CallSet)
      BY <3>3, OneCall
    <3>5. wire' = calls \o Tail(wire)
      BY <1>1, <1>2, <3>2, <3>4, CallsMade DEF LifetimeInv, wire
    <3>6. \A i \in 1..Len(calls) : EndingNext(calls[i], Current)
      <4>1. EndingNext(Do("take", created), Current)
        BY <3>3 DEF EndingNext, Do
      <4> QED BY <4>1
    <3>7. h # Ends(Eternal) /\ h = Ends(created)
      BY <2>2, <2>4, <3>1 DEF Ends, Do
    <3> HIDE DEF calls
    <3> QED BY <1>1, <1>2, <1>3, <3>3, <3>4, <3>5, <3>6, <3>7, WireEnding
  <2> QED BY <2>3, <2>4
<1>7. CASE Take("wire")
  <2>1. h.does = "take" /\ h.of = created /\ created > View /\ terminated[created] /\ created \in Lifetime
        /\ created \in Current /\ created # Eternal
    <3>1. h.does = "take"
      BY <1>2, <1>7 DEF Take, At, wire
    <3>2. h.of \in Current \ {Eternal} /\ terminated[h.of]
      BY <1>2, <3>1 DEF Ending
    <3> QED BY <3>1, <3>2, CreatedIn, Basics
  <2> DEFINE s == actions[created]
             calls == Reverse(s)
  <2>2. s \in Seq(CallSet) /\ Legal(created, s)
    BY <2>1, Basics, LegalNow
  <2>3. Calls("wire", calls) /\ terminated' = terminated
    BY <1>2, <1>7, <2>1 DEF Take, Of, wire
  <2>4. /\ calls \in Seq(CallSet) /\ Len(calls) = Len(s)
        /\ \A i \in 1..Len(s) : calls[i] = s[Len(s) - i + 1] /\ Len(s) - i + 1 \in 1..Len(s)
    BY <2>2, ReverseFacts
  <2>5. \A x : ActionOf(created, x) => EndingNext(x, Current)
    <3>1. created # Root /\ created # View
      BY <2>1, Basics
    <3> QED BY <2>1, <2>3, <3>1 DEF ActionOf, EndingNext, Detach, Closing, Do
  <2>6. \A i \in 1..Len(calls) : EndingNext(calls[i], Current)
    BY <2>2, <2>4, <2>5 DEF Legal
  <2> HIDE DEF calls
  <2>7. wire' = calls \o Tail(wire)
    BY <1>1, <1>2, <2>3, <2>4, CallsMade DEF LifetimeInv, wire
  <2>8. h # Ends(Eternal) /\ h # Ends(created)
    BY <2>1 DEF Ends, Do
  <2> QED BY <1>1, <1>2, <1>3, <2>3, <2>4, <2>6, <2>7, <2>8, WireEnding
<1>8. CASE Erase("wire") \/ Tear("wire") \/ Close("wire")
  <2>1. h.does \in {"detach", "close"}
    BY <1>2, <1>8 DEF Erase, Tear, Close, At, wire
  <2>2. Calls("wire", <<>>) /\ terminated' = terminated
    BY <1>8 DEF Erase, Tear, Close, lifetimeVars
  <2>3. wire' = <<>> \o Tail(wire)
    BY <1>1, <1>2, <2>2, NoCalls, CallsMade DEF LifetimeInv, wire
  <2>4. wire[1] # Ends(created)
    BY <2>1 DEF Ends, Do
  <2>5. <<>> \in Seq(CallSet) /\ \A i \in 1..Len(<<>>) : EndingNext(<<>>[i], Current)
    OBVIOUS
  <2> QED BY <1>1, <1>2, <1>3, <2>2, <2>3, <2>4, <2>5, WireEnding
<1> QED BY <1>6, <1>7, <1>8

\* What is left to do tells where the wire's thread is.
LEMMA WireAt ==
  ASSUME LifetimeInv, wire # <<>>, NEW h, h = wire[1]
  PROVE  /\ h.does = "attach" =>
              WireNests /\ wire = <<Do("attach", created), Do("attach_back", created), Do("swap", created), ReturnCall>>
         /\ h.does = "attach_back" => WireNests /\ wire = <<Do("attach_back", created), Do("swap", created), ReturnCall>>
         /\ h.does = "swap" => \/ WireNests /\ wire = <<Do("swap", created), ReturnCall>>
                               \/ WireBefore /\ wire = <<Reset, ChangeCall>>
         /\ h.does = "write" => \/ WireNests /\ wire = <<Write(created, Eternal), ReturnCall>>
                                \/ WireResets
         /\ h.does = "return" => WireReturns /\ wire = <<ReturnCall>>
         /\ h.does = "before" => WireBefore /\ wire = <<Do("before", View), ChangeCall>>
         /\ h.does = "change" => WireChanges /\ wire = <<ChangeCall>>
<1>1. Len(wire) \in Nat /\ Len(wire) >= 1 /\ wire \in Seq(CallSet)
  <2>1. wire \in Seq(CallSet)
    BY Numbers DEF LifetimeInv
  <2> QED BY <2>1
<1>2. CASE WireEnds
  <2>1. Ending(h, Current)
    BY <1>1, <1>2 DEF WireEnds
  <2> QED BY <2>1 DEF Ending
<1>3. CASE WireBefore
  BY <1>3 DEF WireBefore, Do, Reset
<1>4. CASE WireResets
  BY <1>4 DEF WireResets, Write
<1>5. CASE WireChanges
  <2>1. CASE Len(wire) = 1
    <3>1. wire[1] = ChangeCall
      BY <1>5, <2>1 DEF WireChanges
    <3>2. wire = <<ChangeCall>>
      BY <1>1, <2>1, <3>1
    <3> QED BY <1>5, <3>1, <3>2 DEF ChangeCall, Do
  <2>2. CASE Len(wire) # 1
    <3>1. 1 \in 1..Len(wire) /\ 1 < Len(wire)
      <4>1. \A n \in Nat : n >= 1 /\ n # 1 => 1 \in 1..n /\ 1 < n
        OBVIOUS
      <4> QED BY <1>1, <2>2, <4>1
    <3>2. Ending(h, Current)
      BY <1>5, <3>1 DEF WireChanges
    <3> QED BY <3>2 DEF Ending
  <2> QED BY <2>1, <2>2
<1>6. CASE WireNests
  <2>1. CASE wire = <<Do("attach", created), Do("attach_back", created), Do("swap", created), ReturnCall>>
    <3>1. h.does = "attach"
      BY <2>1 DEF Do
    <3> QED BY <1>6, <2>1, <3>1
  <2>2. CASE wire = <<Do("attach_back", created), Do("swap", created), ReturnCall>>
    <3>1. h.does = "attach_back"
      BY <2>2 DEF Do
    <3> QED BY <1>6, <2>2, <3>1
  <2>3. CASE wire = <<Do("swap", created), ReturnCall>>
    <3>1. h.does = "swap"
      BY <2>3 DEF Do
    <3> QED BY <1>6, <2>3, <3>1
  <2>4. CASE wire = <<Write(created, Eternal), ReturnCall>>
    <3>1. h.does = "write"
      BY <2>4 DEF Write
    <3> QED BY <1>6, <2>4, <3>1
  <2> QED BY <1>6, <2>1, <2>2, <2>3, <2>4 DEF WireNests
<1>7. CASE WireReturns
  <2>1. CASE wire = <<Ends(Eternal), ReturnCall>>
    <3>1. h.does = "terminate"
      BY <2>1 DEF Ends, Do
    <3> QED BY <3>1
  <2>2. CASE wire = <<ReturnCall>>
    <3>1. h.does = "return"
      BY <2>2 DEF ReturnCall, Do
    <3> QED BY <1>7, <2>2, <3>1
  <2> QED BY <1>7, <2>1, <2>2 DEF WireReturns
<1> QED BY <1>2, <1>3, <1>4, <1>5, <1>6, <1>7 DEF LifetimeInv, WireInv

LEMMA AtWire ==
  ASSUME LifetimeInv, NEW d, At("wire", d)
  PROVE  /\ wire # <<>> /\ wire[1].does = d /\ wire[1] = Head(wire) /\ Of("wire") = wire[1].of /\ wire \in Seq(CallSet)
         /\ \A calls \in Seq(CallSet) : Calls("wire", calls) => wire' = calls \o Tail(wire)
         /\ \A calls \in Seq(CallSet) : Throws("wire", calls) => wire' = calls
<1>1. wire # <<>> /\ wire \in Seq(CallSet) /\ Head(wire).does = d /\ Types /\ "wire" \in Threads
  BY Numbers DEF LifetimeInv, At, wire, Threads
<1> QED BY <1>1, HeadOf, CallsMade, Thrown DEF Of, wire

LEMMA CallsKnown ==
  ASSUME LifetimeInv
  PROVE  /\ Do("attach", created) \in CallSet /\ Do("attach_back", created) \in CallSet /\ Do("swap", created) \in CallSet
         /\ Do("take", created) \in CallSet
         /\ ReturnCall \in CallSet /\ ChangeCall \in CallSet /\ Reset \in CallSet /\ Do("before", View) \in CallSet
         /\ Ends(created) \in CallSet /\ Ends(Eternal) \in CallSet /\ Ends(current_def) \in CallSet
         /\ Write(created, Eternal) \in CallSet
         /\ Write(created, current_def) \in CallSet /\ Write(Eternal, current_def) \in CallSet
         /\ \A was \in Current : Write(Eternal, was) \in CallSet /\ Ends(was) \in CallSet
<1>1. created \in Nat /\ View \in Nat /\ Eternal \in Nat /\ Current \subseteq Nat /\ current_def \in Nat
  BY Basics, CreatedIn
<1> QED BY <1>1, Known DEF ReturnCall, ChangeCall

LEMMA Tails ==
  \A a, b, c, d \in CallSet :
    /\ Tail(<<a>>) = <<>> /\ Tail(<<a, b>>) = <<b>> /\ Tail(<<a, b, c>>) = <<b, c>> /\ Tail(<<a, b, c, d>>) = <<b, c, d>>
    /\ <<>> \o <<>> = <<>> /\ <<>> \o <<a>> = <<a>> /\ <<>> \o <<a, b>> = <<a, b>> /\ <<>> \o <<a, b, c>> = <<a, b, c>>
    /\ <<a>> \o <<>> = <<a>> /\ <<a>> \o <<b>> = <<a, b>> /\ <<a, b>> \o <<c>> = <<a, b, c>>
    /\ <<a, b, c, d>> \o <<>> = <<a, b, c, d>>
<1> TAKE a, b, c, d \in CallSet
<1>1. Tail(<<a>>) = <<>> /\ Tail(<<a, b>>) = <<b>>
  OBVIOUS
<1>2. Tail(<<a, b, c>>) = <<b, c>>
  OBVIOUS
<1>3. Tail(<<a, b, c, d>>) = <<b, c, d>>
  OBVIOUS
<1>4. <<>> \o <<>> = <<>> /\ <<>> \o <<a>> = <<a>> /\ <<>> \o <<a, b>> = <<a, b>>
  OBVIOUS
<1>5. <<>> \o <<a, b, c>> = <<a, b, c>>
  OBVIOUS
<1>6. <<a>> \o <<>> = <<a>>
  OBVIOUS
<1>9. <<a>> \o <<b>> = <<a, b>>
  <2> DEFINE r == <<a>> \o <<b>>
  <2>1. r \in Seq(CallSet) /\ Len(r) = 2 /\ r[1] = a /\ r[2] = b
    OBVIOUS
  <2> HIDE DEF r
  <2>2. r = <<a, b>>
    BY <2>1
  <2> QED BY <2>2 DEF r
<1>7. <<a, b>> \o <<c>> = <<a, b, c>>
  <2> DEFINE r == <<a, b>> \o <<c>>
  <2>1. r \in Seq(CallSet) /\ Len(r) = 3 /\ r[1] = a /\ r[2] = b /\ r[3] = c
    OBVIOUS
  <2> HIDE DEF r
  <2>2. r = <<a, b, c>>
    BY <2>1
  <2> QED BY <2>2 DEF r
<1>8. <<a, b, c, d>> \o <<>> = <<a, b, c, d>>
  OBVIOUS
<1> QED BY <1>1, <1>2, <1>3, <1>4, <1>5, <1>6, <1>7, <1>8, <1>9

LEMMA WireAttach ==
  ASSUME LifetimeInv, Attach("wire") \/ AttachBack("wire")
  PROVE  WireInv'
<1> DEFINE a == Do("attach", created)
           b == Do("attach_back", created)
           c == Do("swap", created)
<1>0. a \in CallSet /\ b \in CallSet /\ c \in CallSet /\ ReturnCall \in CallSet /\ Ends(created) \in CallSet
  BY CallsKnown
<1>1. UNCHANGED <<created, current_def, handed, changes, terminated>>
  BY DEF Attach, AttachBack
<1>2. /\ Made' = Made /\ Current' = Current /\ ReturnCall' = ReturnCall /\ a' = a /\ b' = b /\ c' = c
      /\ (Fresh => Fresh')
  BY <1>1 DEF Made, Current, ReturnCall, Fresh, Do
<1>3. CASE Attach("wire")
  <2>1. WireNests /\ wire = <<a, b, c, ReturnCall>> /\ wire[1] = a /\ Of("wire") = created
    <3>1. At("wire", "attach")
      BY <1>3 DEF Attach
    <3>2. wire # <<>> /\ wire[1].does = "attach" /\ Of("wire") = wire[1].of
      BY <3>1, AtWire
    <3>3. WireNests /\ wire = <<a, b, c, ReturnCall>>
      BY <3>2, WireAt
    <3>4. wire[1] = a
      BY <3>3
    <3> QED BY <3>2, <3>3, <3>4 DEF Do
  <2>2. Parent(created) = View
    BY <2>1, Basics DEF WireNests, Fresh, Parent
  <2>3. Fresh' /\ Fresh
    BY <1>2, <2>1 DEF WireNests
  <2>4. CASE terminated[View]
    <3>1. Throws("wire", <<Ends(created)>>)
      BY <1>3, <2>1, <2>2, <2>4 DEF Attach
    <3>2. wire' = <<Ends(created)>>
      <4>1. At("wire", "attach")
        BY <1>3 DEF Attach
      <4>2. <<Ends(created)>> \in Seq(CallSet)
        BY <1>0
      <4> QED BY <3>1, <4>1, <4>2, AtWire
    <3>3. Settled'
      BY <1>1, <2>4 DEF Settled
    <3>4. Ending(Ends(created), Current)'
      <4>1. created \in Current
        BY <2>3, CreatedIn DEF Fresh
      <4> QED BY <1>1, <1>2, <4>1 DEF Ending, Ends, Do
    <3>5. \A i \in 1..Len(wire') : Ending(wire[i], Current)'
      <4>1. wire'[1] = Ends(created) /\ Len(wire') = 1
        BY <3>2
      <4>2. Ends(created)' = Ends(created)
        BY <1>1 DEF Ends, Do
      <4>3. \A i \in 1..Len(wire') : wire'[i] = Ends(created)
        BY <4>1
      <4> QED BY <3>4, <4>2, <4>3 DEF Ending
    <3>6. WireEnds'
      BY <3>3, <3>5 DEF WireEnds
    <3> QED BY <3>6 DEF WireInv
  <2>5. CASE ~terminated[View]
    <3>1. Calls("wire", <<>>)
      BY <1>3, <2>1, <2>2, <2>5 DEF Attach
    <3>2. wire' = <<b, c, ReturnCall>>
      <4>1. At("wire", "attach")
        BY <1>3 DEF Attach
      <4>2. wire' = <<>> \o Tail(wire)
        BY <3>1, <4>1, AtWire, NoCalls
      <4> HIDE DEF a, b, c
      <4> QED BY <1>0, <2>1, <4>2, Tails
    <3>3. WireNests'
      BY <1>1, <1>2, <2>1, <2>3, <3>2 DEF WireNests
    <3> QED BY <3>3 DEF WireInv
  <2> QED BY <2>4, <2>5
<1>4. CASE AttachBack("wire")
  <2>0. At("wire", "attach_back")
    BY <1>4 DEF AttachBack
  <2>1. WireNests /\ wire = <<b, c, ReturnCall>> /\ wire[1] = b /\ Of("wire") = created
    <3>2. wire # <<>> /\ wire[1].does = "attach_back" /\ Of("wire") = wire[1].of
      BY <2>0, AtWire
    <3>3. WireNests /\ wire = <<b, c, ReturnCall>>
      BY <3>2, WireAt
    <3>4. wire[1] = b
      BY <3>3
    <3> QED BY <3>2, <3>3, <3>4 DEF Do
  <2>3. Fresh' /\ Fresh
    BY <1>2, <2>1 DEF WireNests
  <2>4. CASE terminated[created]
    <3>1. Throws("wire", <<>>)
      BY <1>4, <2>1, <2>4 DEF AttachBack
    <3>2. wire' = <<>>
      BY <2>0, <3>1, AtWire, NoCalls
    <3>3. Settled'
      BY <1>1, <2>4 DEF Settled
    <3>4. WireEnds'
      BY <3>2, <3>3 DEF WireEnds
    <3> QED BY <3>4 DEF WireInv
  <2>5. CASE ~terminated[created]
    <3>1. Calls("wire", <<>>)
      BY <1>4, <2>1, <2>5 DEF AttachBack
    <3>2. wire' = <<c, ReturnCall>>
      <4>1. wire' = <<>> \o Tail(wire)
        BY <2>0, <3>1, AtWire, NoCalls
      <4> HIDE DEF a, b, c
      <4> QED BY <1>0, <2>1, <4>1, Tails
    <3>3. WireNests'
      BY <1>1, <1>2, <2>1, <2>3, <3>2 DEF WireNests
    <3> QED BY <3>3 DEF WireInv
  <2> QED BY <2>4, <2>5
<1> QED BY <1>3, <1>4

\* calls in the place of the first of s.
Joined(calls, s) == calls \o Tail(s)

LEMMA WireJoins ==
  ASSUME LifetimeInv, NEW d, At("wire", d), NEW calls \in Seq(CallSet), Calls("wire", calls)
  PROVE  wire' = Joined(calls, wire)
BY AtWire DEF Joined

LEMMA JoinAny ==
  ASSUME NEW x \in Seq(CallSet), NEW s \in Seq(CallSet), s # <<>>
  PROVE  /\ Joined(x, s) \in Seq(CallSet) /\ Len(Joined(x, s)) = Len(x) + Len(s) - 1
         /\ \A i \in 1..Len(x) : Joined(x, s)[i] = x[i]
         /\ \A i \in 2..Len(s) : Joined(x, s)[i + Len(x) - 1] = s[i]
<1> DEFINE r == Joined(x, s)
<1>1. r = x \o Tail(s)
  BY DEF Joined
<1> HIDE DEF r
<1>2. /\ r \in Seq(CallSet) /\ Len(r) = Len(x) + Len(s) - 1
      /\ \A i \in 1..Len(x) : r[i] = x[i]
      /\ \A i \in 2..Len(s) : r[i + Len(x) - 1] = s[i]
  BY <1>1, InPlace
<1> QED BY <1>2 DEF r

LEMMA JoinOne ==
  ASSUME NEW x \in Seq(CallSet), NEW s \in Seq(CallSet), Len(s) = 2, Len(x) = 1
  PROVE  Joined(x, s) \in Seq(CallSet) /\ Len(Joined(x, s)) = 2 /\ Joined(x, s)[1] = x[1] /\ Joined(x, s)[2] = s[2]
<1>1. s # <<>>
  <2> SUFFICES ASSUME s = <<>> PROVE FALSE
    OBVIOUS
  <2>1. Len(s) = 0
    OBVIOUS
  <2> QED BY <2>1
<1>2. 1 \in 1..1 /\ 2 \in 2..2 /\ 2 + 1 - 1 = 2 /\ 1 + 2 - 1 = 2
  OBVIOUS
<1> DEFINE r == Joined(x, s)
<1>3. /\ r \in Seq(CallSet) /\ Len(r) = Len(x) + Len(s) - 1
      /\ \A i \in 1..Len(x) : r[i] = x[i]
      /\ \A i \in 2..Len(s) : r[i + Len(x) - 1] = s[i]
  BY <1>1, JoinAny
<1> HIDE DEF r
<1>4. r \in Seq(CallSet) /\ Len(r) = 2 /\ r[1] = x[1] /\ r[2] = s[2]
  BY <1>2, <1>3
<1> QED BY <1>4 DEF r

LEMMA JoinTwo ==
  ASSUME NEW x \in Seq(CallSet), NEW s \in Seq(CallSet), Len(s) = 2, Len(x) = 2
  PROVE  /\ Joined(x, s) \in Seq(CallSet) /\ Len(Joined(x, s)) = 3 /\ Joined(x, s)[1] = x[1]
         /\ Joined(x, s)[2] = x[2] /\ Joined(x, s)[3] = s[2]
<1>1. s # <<>>
  <2> SUFFICES ASSUME s = <<>> PROVE FALSE
    OBVIOUS
  <2>1. Len(s) = 0
    OBVIOUS
  <2> QED BY <2>1
<1>2. 1 \in 1..2 /\ 2 \in 1..2 /\ 2 \in 2..2 /\ 2 + 2 - 1 = 3
  OBVIOUS
<1> DEFINE r == Joined(x, s)
<1>3. /\ r \in Seq(CallSet) /\ Len(r) = Len(x) + Len(s) - 1
      /\ \A i \in 1..Len(x) : r[i] = x[i]
      /\ \A i \in 2..Len(s) : r[i + Len(x) - 1] = s[i]
  BY <1>1, JoinAny
<1> HIDE DEF r
<1>4. r \in Seq(CallSet) /\ Len(r) = 3 /\ r[1] = x[1] /\ r[2] = x[2] /\ r[3] = s[2]
  BY <1>2, <1>3
<1> QED BY <1>4 DEF r

LEMMA Put ==
  ASSUME NEW a \in CallSet, NEW b \in CallSet, NEW h \in CallSet, NEW s, s = <<h, b>>
  PROVE  Joined(<<a>>, s) = <<a, b>>
<1> DEFINE x == <<a>>
           r == Joined(x, s)
<1>1. x \in Seq(CallSet) /\ Len(x) = 1 /\ x[1] = a /\ s \in Seq(CallSet) /\ Len(s) = 2 /\ s[2] = b
  OBVIOUS
<1> HIDE DEF x
<1>2. r \in Seq(CallSet) /\ Len(r) = 2 /\ r[1] = a /\ r[2] = b
  BY <1>1, JoinOne
<1> HIDE DEF r
<1>3. r = <<a, b>>
  BY <1>2
<1> QED BY <1>3 DEF r, x

LEMMA PutTwo ==
  ASSUME NEW a \in CallSet, NEW c \in CallSet, NEW b \in CallSet, NEW h \in CallSet, NEW s, s = <<h, b>>
  PROVE  Joined(<<a, c>>, s) = <<a, c, b>>
<1> DEFINE x == <<a, c>>
           r == Joined(x, s)
<1>1. x \in Seq(CallSet) /\ Len(x) = 2 /\ x[1] = a /\ x[2] = c /\ s \in Seq(CallSet) /\ Len(s) = 2 /\ s[2] = b
  OBVIOUS
<1> HIDE DEF x
<1>2. r \in Seq(CallSet) /\ Len(r) = 3 /\ r[1] = a /\ r[2] = c /\ r[3] = b
  BY <1>1, JoinTwo
<1> HIDE DEF r
<1>3. r = <<a, c, b>>
  BY <1>2
<1> QED BY <1>3 DEF r, x

LEMMA WireSwap ==
  ASSUME LifetimeInv, Swap("wire") \/ Before("wire")
  PROVE  WireInv'
<1>0. /\ Write(created, current_def) \in CallSet /\ Write(Eternal, current_def) \in CallSet
      /\ Do("swap", created) \in CallSet /\ Do("before", View) \in CallSet
      /\ ReturnCall \in CallSet /\ ChangeCall \in CallSet /\ Reset \in CallSet
  BY CallsKnown
<1>1. UNCHANGED <<created, current_def, handed, changes, terminated>>
  BY DEF Swap, Before, lifetimeVars
<1>2. /\ Made' = Made /\ Current' = Current /\ ReturnCall' = ReturnCall /\ ChangeCall' = ChangeCall /\ Reset' = Reset
      /\ (Fresh => Fresh') /\ (Settled => Settled') /\ (Room => Room')
      /\ Write(created, Eternal)' = Write(created, Eternal)
  BY <1>1 DEF Made, Current, ReturnCall, ChangeCall, Reset, Fresh, Settled, Room, Do, Write
<1>3. current_def \in Current
  BY CreatedIn
<1>4. CASE Swap("wire")
  <2>0. At("wire", "swap") /\ Calls("wire", <<Write(Of("wire"), current_def)>>)
    BY <1>4 DEF Swap
  <2>1. wire # <<>> /\ wire[1].does = "swap" /\ Of("wire") = wire[1].of
    BY <2>0, AtWire
  <2>2. CASE WireNests /\ wire = <<Do("swap", created), ReturnCall>>
    <3>1. Of("wire") = created /\ current_def = Eternal
      BY <2>1, <2>2 DEF Do, WireNests
    <3>2. <<Write(created, current_def)>> \in Seq(CallSet)
      BY <1>0, OneCall
    <3>3. wire' = Joined(<<Write(created, current_def)>>, wire)
      BY <2>0, <3>1, <3>2, WireJoins
    <3>4. wire' = <<Write(created, Eternal), ReturnCall>>
      BY <1>0, <2>2, <3>1, <3>3, Put
    <3>5. WireNests'
      BY <1>1, <1>2, <2>2, <3>1, <3>4 DEF WireNests
    <3> QED BY <3>5 DEF WireInv
  <2>3. CASE WireBefore /\ wire = <<Reset, ChangeCall>>
    <3>1. Of("wire") = Eternal
      BY <2>1, <2>3 DEF Do, Reset
    <3>2. <<Write(Eternal, current_def)>> \in Seq(CallSet)
      BY <1>0, OneCall
    <3>3. wire' = Joined(<<Write(Eternal, current_def)>>, wire)
      BY <2>0, <3>1, <3>2, WireJoins
    <3>4. wire' = <<Write(Eternal, current_def), ChangeCall>>
      BY <1>0, <2>3, <3>3, Put
    <3>5. Room' /\ Settled'
      BY <1>2, <2>3 DEF WireBefore
    <3>6. wire' = <<Write(Eternal, current_def'), ChangeCall'>> /\ current_def' \in Current'
      BY <1>1, <1>2, <1>3, <3>4
    <3>7. WireResets'
      BY <3>5, <3>6 DEF WireResets, Write
    <3> QED BY <3>7 DEF WireInv
  <2> QED BY <2>1, <2>2, <2>3, WireAt
<1>5. CASE Before("wire")
  <2>0. At("wire", "before") /\ Calls("wire", IF terminated[View] THEN <<>> ELSE <<Reset>>)
    BY <1>5 DEF Before
  <2>1. wire # <<>> /\ wire[1].does = "before"
    BY <2>0, AtWire
  <2>2. WireBefore /\ wire = <<Do("before", View), ChangeCall>>
    BY <2>1, WireAt
  <2>3. Room' /\ Settled'
    BY <1>2, <2>2 DEF WireBefore
  <2>4. CASE terminated[View]
    <3>1. wire' = <<>> \o Tail(wire)
      BY <2>0, <2>4, AtWire, NoCalls
    <3>2. wire' = <<ChangeCall>>
      BY <1>0, <2>2, <3>1, Tails
    <3>3. wire' # <<>> /\ Len(wire') = 1 /\ wire'[1] = ChangeCall'
      BY <1>2, <3>2
    <3>4. terminated'[View]
      BY <1>1, <2>4
    <3>5. WireChanges'
      BY <2>3, <3>3, <3>4 DEF WireChanges
    <3> QED BY <3>5 DEF WireInv
  <2>5. CASE ~terminated[View]
    <3>0. <<Reset>> \in Seq(CallSet)
      BY <1>0, OneCall
    <3>1. wire' = Joined(<<Reset>>, wire)
      BY <2>0, <2>5, <3>0, WireJoins
    <3>2. wire' = <<Reset, ChangeCall>>
      BY <1>0, <2>2, <3>1, Put
    <3>3. WireBefore'
      BY <1>2, <2>3, <3>2 DEF WireBefore
    <3> QED BY <3>3 DEF WireInv
  <2> QED BY <2>4, <2>5
<1> QED BY <1>4, <1>5

LEMMA WireWrite ==
  ASSUME LifetimeInv, WriteCurrent("wire")
  PROVE  WireInv'
<1>0. /\ Write(created, Eternal) \in CallSet /\ Ends(Eternal) \in CallSet /\ Ends(current_def) \in CallSet
      /\ ReturnCall \in CallSet /\ ChangeCall \in CallSet
      /\ \A was \in Current : Write(Eternal, was) \in CallSet /\ Ends(was) \in CallSet
  BY CallsKnown
<1>1. UNCHANGED <<created, handed, changes, terminated>> /\ current_def' = Of("wire") /\ At("wire", "write")
  BY DEF WriteCurrent
<1>2. /\ Made' = Made /\ Current' = Current /\ ReturnCall' = ReturnCall /\ ChangeCall' = ChangeCall
      /\ (Fresh => Fresh') /\ (Room => Room') /\ Ends(Eternal)' = Ends(Eternal) /\ Ends(created)' = Ends(created)
  BY <1>1 DEF Made, Current, ReturnCall, ChangeCall, Fresh, Room, Do, Ends
<1>3. wire # <<>> /\ wire[1].does = "write" /\ Of("wire") = wire[1].of /\ wire[1] = Head(wire)
  BY <1>1, AtWire
<1>4. CASE WireNests /\ wire = <<Write(created, Eternal), ReturnCall>>
  <2>1. Of("wire") = created /\ current_def = Eternal /\ Head(todo["wire"]).was = Eternal
    BY <1>3, <1>4 DEF Write, WireNests, wire
  <2>2. Calls("wire", <<>> \o <<Ends(Eternal)>>)
    BY <2>1 DEF WriteCurrent
  <2>3. <<>> \o <<Ends(Eternal)>> = <<Ends(Eternal)>> /\ <<Ends(Eternal)>> \in Seq(CallSet)
    BY <1>0, OneCall, Tails
  <2>4. wire' = Joined(<<Ends(Eternal)>>, wire)
    BY <1>1, <2>2, <2>3, WireJoins
  <2>5. wire' = <<Ends(Eternal), ReturnCall>>
    BY <1>0, <1>4, <2>4, Put
  <2>6. Fresh' /\ current_def' = created /\ created \in Current /\ created # Eternal
    BY <1>1, <1>2, <1>4, <2>1, CreatedIn DEF WireNests, Fresh
  <2>7. WireReturns'
    BY <1>2, <2>5, <2>6 DEF WireReturns
  <2> QED BY <2>7 DEF WireInv
<1>5. CASE WireResets
  <2>1. PICK was \in Current : wire = <<Write(Eternal, was), ChangeCall>> /\ (terminated[View] \/ (was = current_def /\ Settled))
    BY <1>5 DEF WireResets
  <2>2. Of("wire") = Eternal /\ Head(todo["wire"]).was = was
    BY <1>3, <2>1 DEF Write, wire
  <2>3. \/ Calls("wire", <<>> \o <<Ends(was)>>)
        \/ Calls("wire", <<Ends(current_def)>> \o <<Ends(was)>>)
    BY <2>2 DEF WriteCurrent
  <2>4. Ends(was) \in CallSet /\ Ends(current_def) \in CallSet /\ Tail(wire) = <<ChangeCall>>
    BY <1>0, <2>1
  <2>5. /\ <<>> \o <<Ends(was)>> = <<Ends(was)>> /\ <<Ends(was)>> \in Seq(CallSet)
        /\ <<Ends(current_def)>> \o <<Ends(was)>> = <<Ends(current_def), Ends(was)>>
        /\ <<Ends(current_def), Ends(was)>> \in Seq(CallSet)
    <3>1. <<>> \o <<Ends(was)>> = <<Ends(was)>> /\ <<Ends(was)>> \in Seq(CallSet)
      BY <2>4, OneCall, Tails
    <3>2. <<Ends(current_def)>> \o <<Ends(was)>> = <<Ends(current_def), Ends(was)>>
      BY <2>4, Tails
    <3>3. <<Ends(current_def), Ends(was)>> \in Seq(CallSet)
      BY <2>4
    <3> QED BY <3>1, <3>2, <3>3
  <2>6. wire' = <<Ends(was), ChangeCall>> \/ wire' = <<Ends(current_def), Ends(was), ChangeCall>>
    <3>1. CASE Calls("wire", <<>> \o <<Ends(was)>>)
      <4>1. Calls("wire", <<Ends(was)>>)
        BY <2>5, <3>1
      <4>2. wire' = Joined(<<Ends(was)>>, wire)
        BY <1>1, <2>5, <4>1, WireJoins
      <4> QED BY <1>0, <2>1, <2>4, <4>2, Put
    <3>2. CASE Calls("wire", <<Ends(current_def)>> \o <<Ends(was)>>)
      <4>1. Calls("wire", <<Ends(current_def), Ends(was)>>)
        BY <2>5, <3>2
      <4>2. wire' = Joined(<<Ends(current_def), Ends(was)>>, wire)
        BY <1>1, <2>5, <4>1, WireJoins
      <4> QED BY <1>0, <2>1, <2>4, <4>2, PutTwo
    <3> QED BY <2>3, <3>1, <3>2
  <2>7. \A l \in Current : Ending(Ends(l), Current)'
    BY <1>2 DEF Ending, Ends, Do
  <2>8. current_def \in Current
    BY CreatedIn
  <2> DEFINE x == Ends(current_def)
             y == Ends(was)
  <2>9. x = Ends(current_def) /\ y = Ends(was)
    OBVIOUS
  <2>10. EndingNext(x, Current) /\ EndingNext(y, Current)
    BY <2>1, <2>8 DEF EndingNext, Ends, Do
  <2> HIDE DEF x, y
  <2>11. wire' # <<>> /\ wire'[Len(wire')] = ChangeCall' /\ Contains(wire', y)
    <3>1. CASE wire' = <<y, ChangeCall>>
      <4>1. Len(wire') = 2 /\ wire'[1] = y /\ wire'[2] = ChangeCall
        BY <3>1
      <4> QED BY <1>2, <4>1 DEF Contains
    <3>2. CASE wire' = <<x, y, ChangeCall>>
      <4>1. Len(wire') = 3 /\ wire'[2] = y /\ wire'[3] = ChangeCall
        BY <3>2
      <4> QED BY <1>2, <4>1 DEF Contains
    <3> QED BY <2>6, <2>9, <3>1, <3>2
  <2>12. \A i \in 1..Len(wire') : i < Len(wire') => EndingNext(wire'[i], Current)
    <3>1. CASE wire' = <<y, ChangeCall>>
      <4>1. Len(wire') = 2 /\ wire'[1] = y
        BY <3>1
      <4> QED BY <2>10, <4>1
    <3>2. CASE wire' = <<x, y, ChangeCall>>
      <4>1. Len(wire') = 3 /\ wire'[2] = y /\ wire'[1] = x
        BY <3>2
      <4> QED BY <2>10, <4>1
    <3> QED BY <2>6, <2>9, <3>1, <3>2
  <2>13. \A i \in 1..Len(wire') : i < Len(wire') => Ending(wire[i], Current)'
    BY <1>2, <2>12 DEF Ending, EndingNext
  <2>14. terminated'[View] \/ (current_def' = Eternal /\ (created' = View \/ terminated'[created'] \/ Contains(wire', Ends(created)')))
    <3>1. CASE terminated[View]
      BY <1>1, <3>1
    <3>2. CASE ~terminated[View]
      <4>1. was = current_def /\ (created = View \/ terminated[created] \/ current_def = created)
        BY <2>1, <3>2 DEF Settled
      <4>2. current_def = created => y = Ends(created)
        BY <2>9, <4>1
      <4> QED BY <1>1, <1>2, <2>2, <2>11, <4>1, <4>2
    <3> QED BY <3>1, <3>2
  <2>15. Room'
    BY <1>2, <1>5 DEF WireResets
  <2>16. WireChanges'
    BY <2>11, <2>13, <2>14, <2>15 DEF WireChanges
  <2> QED BY <2>16 DEF WireInv
<1> QED BY <1>3, <1>4, <1>5, WireAt

LEMMA WireReturnStep ==
  ASSUME LifetimeInv, Return("wire")
  PROVE  WireInv'
<1>1. UNCHANGED <<created, current_def, changes, terminated>> /\ At("wire", "return")
  BY DEF Return, lifetimeVars
<1>2. wire # <<>> /\ wire[1].does = "return" /\ Of("wire") = wire[1].of
  BY <1>1, AtWire
<1>3. WireReturns /\ wire = <<ReturnCall>>
  BY <1>2, WireAt
<1>4. Of("wire") = created
  BY <1>2, <1>3 DEF ReturnCall, Do
<1>5. Ends(created) \in CallSet /\ ReturnCall \in CallSet
  BY CallsKnown
<1>6. wire' \in {<<>>, <<Ends(created)>>}
  <2>1. Calls("wire", <<>>) \/ Calls("wire", <<Ends(created)>>)
    BY <1>4 DEF Return
  <2>2. wire' = <<>> \o Tail(wire) \/ wire' = <<Ends(created)>> \o Tail(wire)
    BY <1>1, <1>5, <2>1, AtWire, NoCalls, OneCall
  <2> QED BY <1>3, <1>5, <2>2, Tails
<1>7. Settled'
  <2>1. terminated[View] \/ current_def = created
    BY <1>3, CreatedIn DEF WireReturns
  <2> QED BY <1>1, <2>1 DEF Settled
<1>8. Current' = Current /\ created \in Current
  BY <1>1, <1>3, CreatedIn DEF Current, Made, WireReturns, Fresh
<1>9. \A i \in 1..Len(wire') : Ending(wire[i], Current)'
  <2>1. \A i \in 1..Len(wire') : wire'[i] = Ends(created)
    BY <1>6
  <2>2. EndingNext(Ends(created), Current)
    BY <1>8 DEF EndingNext, Ends, Do
  <2> QED BY <1>8, <2>1, <2>2 DEF Ending, EndingNext
<1>10. WireEnds'
  BY <1>7, <1>9 DEF WireEnds
<1> QED BY <1>10 DEF WireInv

LEMMA WireChange ==
  ASSUME LifetimeInv, [Next]_vars, Change("wire")
  PROVE  WireInv'
<1>1. UNCHANGED <<terminated, current_def, handed, changes>> /\ At("wire", "change")
  BY DEF Change
<1>2. wire # <<>> /\ wire[1].does = "change"
  BY <1>1, AtWire
<1>3. WireChanges /\ wire = <<ChangeCall>> /\ ChangeCall \in CallSet
  BY <1>2, WireAt, CallsKnown
<1>4. CASE terminated[View]
  <2>1. Calls("wire", <<>>) /\ created' = created
    BY <1>4 DEF Change
  <2>2. wire' = <<>> \o Tail(wire)
    BY <1>1, <2>1, AtWire, NoCalls
  <2>3. wire' = <<>>
    BY <1>3, <2>2, Tails
  <2>4. Settled'
    BY <1>1, <1>4 DEF Settled
  <2>5. WireEnds'
    BY <2>3, <2>4 DEF WireEnds
  <2> QED BY <2>5 DEF WireInv
<1>5. CASE ~terminated[View]
  <2> DEFINE n == created + 1
             a == Do("attach", n)
             b == Do("attach_back", n)
             c == Do("swap", n)
             d == Do("return", n)
  <2>1. created' = n /\ Calls("wire", <<a, b, c, d>>)
    BY <1>5 DEF Change
  <2>2. created \in Nat /\ n \in Nat /\ created >= 2 /\ View = 2 /\ Eternal = 0 /\ Made = 3..created
    BY Basics
  <2>3. a \in CallSet /\ b \in CallSet /\ c \in CallSet /\ d \in CallSet
    BY <2>2, Known
  <2> HIDE DEF a, b, c, d
  <2>5. wire' = <<a, b, c, d>> \o Tail(wire)
    <3>1. <<a, b, c, d>> \in Seq(CallSet)
      BY <2>3
    <3> QED BY <1>1, <2>1, <3>1, AtWire
  <2>6. wire' = <<a, b, c, d>>
    BY <1>3, <2>3, <2>5, Tails
  <2>7. current_def = Eternal
    BY <1>3, <1>5 DEF WireChanges
  <2>8. ~Contains(handed, n) /\ ~Contains(handed, Eternal)
    <3>1. handed \in Seq({Eternal} \cup Made)
      BY DEF LifetimeInv, Types
    <3>2. \A i \in 1..Len(handed) : handed[i] \in {Eternal} \cup Made
      BY <3>1
    <3>3. n \notin {Eternal} \cup Made
      BY <2>2
    <3>4. ~Contains(handed, n)
      BY <3>2, <3>3 DEF Contains
    <3> QED BY <1>5, <3>4 DEF LifetimeInv, HandedInv
  <2>9. ~terminated[n]
    <3>1. n \in Lifetime
      <4>1. created < View + changes /\ changes \in 0..MaxChanges
        <5>1. Room
          BY <1>3 DEF WireChanges
        <5> QED BY <5>1 DEF Room, LifetimeInv, Types
      <4> QED BY <2>2, <4>1, LifetimesAssumption DEF Lifetime
    <3>2. ~(n <= created)
      BY <2>2
    <3> QED BY <3>1, <3>2 DEF LifetimeInv, ActionsInv
  <2>10. created' > View /\ created' = n
    BY <2>1, <2>2
  <2>11. Fresh'
    BY <1>1, <2>8, <2>9, <2>10 DEF Fresh
  <2>12. wire' = <<Do("attach", created'), Do("attach_back", created'), Do("swap", created'), Do("return", created')>>
    BY <2>6, <2>10 DEF a, b, c, d
  <2>13. wire' = <<Do("attach", created)', Do("attach_back", created)', Do("swap", created)', ReturnCall'>>
    BY <2>12 DEF Do, ReturnCall
  <2>14. WireNests'
    BY <1>1, <2>7, <2>11, <2>13 DEF WireNests
  <2> QED BY <2>14 DEF WireInv
<1> QED BY <1>4, <1>5

LEMMA WireSet ==
  ASSUME LifetimeInv, Set
  PROVE  WireInv'
<1>1. UNCHANGED <<created, current_def, terminated>> /\ changes' = changes + 1 /\ wire = <<>>
  BY DEF Set, lifetimeVars, wire
<1>2. wire' = <<Do("before", View), ChangeCall>>
  <2>1. todo \in [Threads -> Seq(CallSet)] /\ "wire" \in Threads
    BY Basics DEF Threads
  <2> QED BY <2>1 DEF Set, wire, ChangeCall
<1>3. Settled
  BY <1>1 DEF LifetimeInv, WireInv, WireEnds, WireBefore, WireResets, WireChanges, WireNests, WireReturns
<1>4. Settled'
  BY <1>1, <1>3 DEF Settled
<1>5. Room'
  <2>1. created \in Nat /\ created <= View + changes /\ changes \in Nat /\ View \in Nat
    <3>1. Types /\ View \in Nat
      BY Basics DEF LifetimeInv
    <3>2. created \in Nat /\ created <= View + changes /\ changes \in 0..MaxChanges
      BY <3>1, Zenon DEF Types
    <3> QED BY <3>1, <3>2
  <2> QED BY <1>1, <2>1 DEF Room
<1>6. wire' = <<Do("before", View)', ChangeCall'>>
  BY <1>2 DEF Do, ChangeCall
<1>7. WireBefore'
  BY <1>4, <1>5, <1>6 DEF WireBefore
<1> QED BY <1>7 DEF WireInv

-----------------------------------------------------------------------------
(* The game thread.                                                        *)

LEMMA OwnCalls ==
  ASSUME LifetimeInv, NEW t \in Threads, Step(t)
  PROVE  todo[t] # <<>> /\ \A u \in Threads \ {t} : todo'[u] = todo[u]
<1>1. todo \in [Threads -> Seq(CallSet)]
  BY Basics
<1>2. todo[t] # <<>>
  BY DEF Step, At, Terminate, Take, Erase, Tear, Close, Attach, AttachBack, Swap, WriteCurrent, Return, Before, Change,
     Open, Add, RemoveAction
<1>3. (\E calls : Calls(t, calls)) \/ (\E calls : Throws(t, calls))
  BY DEF Step, Terminate, Take, Erase, Tear, Close, Attach, AttachBack, Swap, WriteCurrent, Return, Before, Change,
     Open, Add, RemoveAction
<1> QED BY <1>1, <1>2, <1>3 DEF Calls, Throws

\* What the other two threads leave alone.
LEMMA OthersLeave ==
  ASSUME LifetimeInv, NEW t \in {"scheduler", "game"}, Step(t)
  PROVE  /\ UNCHANGED <<wire, created, handed, changes>>
         /\ current_def' = current_def \/ (current_def' = Eternal /\ terminated[View])
         /\ created > View /\ terminated'[created] => terminated[created] \/ terminated'[View]
<1>1. t \in Threads /\ t # "wire" /\ "wire" \in Threads
  BY DEF Threads
<1>2. todo[t] # <<>> /\ wire' = wire
  BY <1>1, OwnCalls DEF wire
<1> DEFINE h == Head(todo[t])
<1>3. /\ h.does \notin {"attach", "attach_back", "return", "before", "change"}
      /\ h.does \in {"terminate", "take", "detach", "swap", "write", "close"} => t = "game"
  <2>1. h.does \in {"attach", "attach_back", "return", "before", "change"} => t = "wire"
    BY <1>1, <1>2, Heads
  <2>2. h.does \in {"terminate", "take", "detach", "swap", "write", "close"} => t \in {"wire", "game"}
    BY <1>1, <1>2, Heads
  <2> QED BY <1>1, <2>1, <2>2
<1>4. ~Attach(t) /\ ~AttachBack(t) /\ ~Return(t) /\ ~Before(t) /\ ~Change(t)
  BY <1>3 DEF Attach, AttachBack, Return, Before, Change, At
<1>5. UNCHANGED <<created, handed, changes>>
  BY <1>4 DEF Step, Terminate, Take, Erase, Tear, Close, Swap, WriteCurrent, Open, Add, RemoveAction, lifetimeVars
<1>6. current_def' = current_def \/ (current_def' = Eternal /\ terminated[View])
  <2>1. CASE WriteCurrent(t)
    <3>1. game # <<>> /\ h = game[1] /\ h.does = "write" /\ t = "game" /\ current_def' = h.of
      <4>1. h.does = "write" /\ current_def' = h.of
        BY <2>1 DEF WriteCurrent, At, Of
      <4>2. t = "game" /\ h = todo[t][1]
        BY <1>1, <1>2, <1>3, <4>1, Heads
      <4> QED BY <1>2, <4>1, <4>2 DEF game
    <3>2. h.of = Eternal /\ terminated[View]
      BY <3>1, GameHead DEF LifetimeInv
    <3> QED BY <3>1, <3>2
  <2>2. CASE ~WriteCurrent(t)
    BY <1>4, <2>2 DEF Step, Terminate, Take, Erase, Tear, Close, Swap, Open, Add, RemoveAction, lifetimeVars
  <2> QED BY <2>1, <2>2
<1>7. created > View /\ terminated'[created] => terminated[created] \/ terminated'[View]
  <2>1. CASE Terminate(t)
    <3>1. game # <<>> /\ h = game[1] /\ h.does = "terminate" /\ t = "game" /\ Of(t) = h.of
      <4>1. h.does = "terminate"
        BY <2>1 DEF Terminate, At
      <4>2. t = "game" /\ h = todo[t][1]
        BY <1>1, <1>2, <1>3, <4>1, Heads
      <4> QED BY <1>2, <4>1, <4>2 DEF game, Of
    <3>2. h.of > View => terminated[View]
      BY <3>1, GameHead DEF LifetimeInv
    <3>3. terminated' = terminated \/ terminated' = [terminated EXCEPT ![h.of] = TRUE]
      BY <2>1, <3>1 DEF Terminate
    <3>4. terminated \in [Lifetime -> BOOLEAN] /\ View \in Lifetime /\ created \in Lifetime
      BY Basics
    <3> QED BY <3>2, <3>3, <3>4
  <2>2. CASE ~Terminate(t)
    <3>1. terminated' = terminated
      BY <1>4, <2>2 DEF Step, Take, Erase, Tear, Close, Swap, WriteCurrent, Open, Add, RemoveAction, lifetimeVars
    <3> QED BY <3>1
  <2> QED BY <2>1, <2>2
<1> QED BY <1>2, <1>5, <1>6, <1>7

LEMMA WireStep ==
  ASSUME LifetimeInv, [Next]_vars
  PROVE  WireInv'
<1>1. Lasting /\ Types /\ WireInv
  BY TypesStep DEF LifetimeInv
<1>2. CASE Use \/ Shutdown \/ UNCHANGED vars
  <2>1. UNCHANGED <<created, handed, changes, current_def, terminated>>
    BY <1>2 DEF Use, Shutdown, vars, lifetimeVars
  <2>2. wire' = wire
    BY <1>2, Basics DEF Use, Shutdown, vars, wire, Threads
  <2> QED BY <1>1, <2>1, <2>2, WireKept
<1>3. CASE Set
  BY <1>3, WireSet
<1>4. ASSUME NEW t \in Threads, Step(t) PROVE WireInv'
  <2>1. CASE t = "wire"
    <3>1. ~Open(t) /\ ~Add(t) /\ ~RemoveAction(t)
      <4>1. todo[t] # <<>>
        BY <1>4, OwnCalls
      <4>2. Head(todo[t]).does \notin {"bracket", "closing", "plain", "remove"}
        BY <2>1, <4>1, Heads
      <4> QED BY <4>2 DEF Open, Add, RemoveAction, At
    <3> QED BY <1>4, <2>1, <3>1, WireEndStep, WireAttach, WireSwap, WireWrite, WireReturnStep, WireChange DEF Step
  <2>2. CASE t # "wire"
    <3>1. t \in {"scheduler", "game"}
      BY <2>2 DEF Threads
    <3> QED BY <1>1, <1>4, <3>1, OthersLeave, WireKept
  <2> QED BY <2>1, <2>2
<1> QED BY <1>2, <1>3, <1>4 DEF Next

LEMMA HandedStep ==
  ASSUME LifetimeInv, [Next]_vars
  PROVE  HandedInv'
<1>1. Lasting /\ View \in Lifetime
  BY TypesStep, Basics
<1>2. CASE handed' = handed
  BY <1>1, <1>2 DEF LifetimeInv, HandedInv, Lasting
<1>3. ASSUME NEW t \in Threads, Return(t) PROVE HandedInv'
  <2>1. todo[t] # <<>> /\ Head(todo[t]).does = "return"
    BY <1>3 DEF Return, At
  <2>2. t = "wire"
    BY <2>1, Heads
  <2>3. WireReturns
    BY <1>3, <2>2, AtWire, WireAt DEF Return
  <2>4. handed' = Append(handed, current_def) /\ terminated' = terminated
    BY <1>3 DEF Return, lifetimeVars
  <2>5. handed \in Seq({Eternal} \cup Made) /\ current_def \in {Eternal} \cup Made
    BY DEF LifetimeInv, Types, Current
  <2>6. Contains(handed', Eternal) => Contains(handed, Eternal) \/ current_def = Eternal
    BY <2>4, <2>5 DEF Contains
  <2> QED BY <2>3, <2>4, <2>6 DEF WireReturns, LifetimeInv, HandedInv
<1>4. handed' = handed \/ \E t \in Threads : Return(t)
  BY DEF Next, Step, vars, Set, Use, Shutdown, Terminate, Take, Erase, Tear, Close, Attach,
     AttachBack, Swap, WriteCurrent, Before, Change, Open, Add, RemoveAction
<1> QED BY <1>2, <1>3, <1>4

\* The wire and the scheduler leave to the game thread what it ends.
LEMMA GameLeft ==
  ASSUME LifetimeInv, [Next]_vars, NEW t \in {"wire", "scheduler"}, Step(t)
  PROVE  GameInv'
<1>1. t \in Threads /\ t # "game" /\ "game" \in Threads
  BY DEF Threads
<1>2. todo[t] # <<>> /\ game' = game
  BY <1>1, OwnCalls DEF game
<1> DEFINE h == Head(todo[t])
<1>3. /\ Lasting /\ created' \in Nat /\ created' >= created /\ Types /\ GameInv
  BY TypesStep, ActionsStep DEF LifetimeInv
<1>4. /\ terminated \in [Lifetime -> BOOLEAN] /\ actions \in [Lifetime -> Seq(CallSet)]
      /\ View \in Lifetime /\ Root \in Lifetime /\ Eternal \in Lifetime /\ created \in Lifetime
      /\ Root # View /\ Eternal # View /\ Eternal # Root
  BY Basics
<1>5. \A l \in {Eternal} \cup Made : l # Root /\ l # View
  BY Basics
<1>6. h.does \in {"terminate", "take", "detach"} => t = "wire" /\ h.of \in Current
  <2>1. h.does \in {"terminate", "take", "detach"} => t = "wire"
    BY <1>1, <1>2, Heads
  <2>2. h = todo[t][1]
    BY <1>1, <1>2, Heads
  <2>3. t = "wire" /\ h.does \in {"terminate", "take", "detach"} => Ending(h, Current)
    BY <1>2, <2>2, WireHead DEF LifetimeInv, wire
  <2> QED BY <2>1, <2>3 DEF Ending
<1>7. Current \subseteq {Eternal} \cup Made
  BY DEF Current
<1>8. terminated'[Root] = terminated[Root] /\ terminated'[View] = terminated[View]
  <2>1. CASE Terminate(t)
    <3>1. h.of # Root /\ h.of # View
      BY <1>5, <1>6, <1>7, <2>1 DEF Terminate, At
    <3>2. terminated' = terminated \/ terminated' = [terminated EXCEPT ![h.of] = TRUE]
      BY <2>1 DEF Terminate, Of
    <3> QED BY <1>4, <3>1, <3>2
  <2>2. CASE ~Terminate(t)
    <3>1. terminated' = terminated
      BY <2>2 DEF Step, Take, Erase, Tear, Close, Attach, AttachBack, Swap, WriteCurrent, Return, Before, Change,
           Open, Add, RemoveAction, lifetimeVars
    <3> QED BY <3>1
  <2> QED BY <2>1, <2>2
<1>9. actions'[Root] = actions[Root] /\ (actions[View] = <<>> /\ terminated[View] => actions'[View] = <<>>)
  <2>1. CASE Take(t)
    <3>1. h.of # Root /\ h.of # View
      BY <1>5, <1>6, <1>7, <2>1 DEF Take, At
    <3>2. actions' = [actions EXCEPT ![h.of] = <<>>]
      BY <2>1 DEF Take, Of
    <3> QED BY <1>4, <3>1, <3>2
  <2>2. CASE Erase(t) \/ Tear(t)
    <3>1. Parent(h.of) = View
      BY <1>5, <1>6, <1>7, <2>2 DEF Erase, Tear, At, Parent
    <3>2. \/ actions' = [actions EXCEPT ![View] = Without(actions[View], Ends(h.of))]
          \/ \E rest \in Torn(actions[View]) : actions' = [actions EXCEPT ![View] = rest]
      BY <2>2, <3>1 DEF Erase, Tear, Of
    <3>3. actions[View] = <<>> => /\ Without(actions[View], Ends(h.of)) = <<>>
                                  /\ \A rest \in Torn(actions[View]) : rest = <<>>
      <4>1. actions[View] \in Seq(CallSet)
        BY <1>4
      <4>2. actions[View] = <<>> => ~Contains(actions[View], Ends(h.of))
        BY DEF Contains
      <4>3. actions[View] = <<>> => Without(actions[View], Ends(h.of)) = <<>>
        BY <4>2 DEF Without
      <4>4. \A rest \in Torn(actions[View]) : actions[View] = <<>> => rest = <<>>
        BY <4>1, TornFacts
      <4> QED BY <4>3, <4>4
    <3> QED BY <1>4, <3>2, <3>3
  <2>3. CASE Attach(t)
    <3>1. h = Do("attach", created) /\ Fresh
      BY <1>1, <1>2, <2>3, Heads DEF Attach, At
    <3>2. Of(t) = created /\ Parent(created) = View
      BY <3>1, Basics DEF Of, Do, Fresh, Parent
    <3>3. terminated[View] => actions' = actions
      BY <2>3, <3>2 DEF Attach
    <3>4. ~terminated[View] => actions' = [actions EXCEPT ![View] = Append(@, Ends(created))]
      BY <2>3, <3>2 DEF Attach
    <3> QED BY <1>4, <3>3, <3>4
  <2>4. CASE AttachBack(t)
    <3>1. h = Do("attach_back", created) /\ Fresh
      BY <1>1, <1>2, <2>4, Heads DEF AttachBack, At
    <3>2. Of(t) = created /\ created # Root /\ created # View
      BY <3>1, Basics DEF Of, Do, Fresh
    <3>3. actions' = actions \/ actions' = [actions EXCEPT ![created] = Append(@, Detach(created))]
      BY <2>4, <3>2 DEF AttachBack
    <3> QED BY <1>4, <3>2, <3>3
  <2>5. CASE Add(t) \/ RemoveAction(t)
    <3>1. h.does \in {"closing", "plain", "remove"}
      BY <2>5 DEF Add, RemoveAction, At
    <3>2. Of(t) = used /\ handed[used] \in {Eternal} \cup Made
      BY <1>1, <1>2, <3>1, Heads DEF Of
    <3>3. handed[used] # Root /\ handed[used] # View
      BY <1>5, <3>2
    <3>4. actions' = actions \/ \E s : actions' = [actions EXCEPT ![handed[used]] = s]
      BY <2>5, <3>2 DEF Add, RemoveAction
    <3> QED BY <1>4, <3>3, <3>4
  <2>6. CASE ~(Take(t) \/ Erase(t) \/ Tear(t) \/ Attach(t) \/ AttachBack(t) \/ Add(t) \/ RemoveAction(t))
    <3>1. actions' = actions
      BY <2>6 DEF Step, Terminate, Close, Swap, WriteCurrent, Return, Before, Change, Open, lifetimeVars
    <3> QED BY <3>1
  <2> QED BY <2>1, <2>2, <2>3, <2>4, <2>5, <2>6
<1> QED BY <1>2, <1>3, <1>8, <1>9, GameKept

\* The game thread is past the end of the view.
Finishing ==
  /\ terminated[View] /\ terminated[Root] /\ actions[Root] = <<>> /\ actions[View] = <<>>
  /\ \A i \in 1..Len(game) : GameCall(game[i])

GameCallNext(x) ==
  \/ EndingNext(x, {Eternal} \cup Made)
  \/ x = Reset \/ x = Detach(View)
  \/ \E was \in {Eternal} \cup Made : x = Write(Eternal, was)

LEMMA FinishingStep ==
  ASSUME LifetimeInv, Lasting, Finishing, game # <<>>,
         NEW calls \in Seq(CallSet), \A i \in 1..Len(calls) : GameCallNext(calls[i]), game' = calls \o Tail(game),
         created' = created, actions'[Root] = <<>>, actions'[View] = <<>>
  PROVE  Finishing'
<1>1. View \in Lifetime /\ Root \in Lifetime /\ Made' = Made /\ Made \subseteq Lifetime /\ game \in Seq(CallSet) /\ Lifetime' = Lifetime
  BY Basics, Numbers DEF Made, LifetimeInv, Lifetime
<1>2. \A x : GameCall(x) => GameCallNext(x)
  BY <1>1 DEF GameCall, GameCallNext, Ending, EndingNext, Lasting
<1> DEFINE g == game'
<1>3. g = calls \o Tail(game)
  OBVIOUS
<1> HIDE DEF g
<1>4. /\ Len(g) = Len(calls) + Len(game) - 1 /\ Len(calls) \in Nat /\ Len(game) \in Nat
      /\ \A i \in 1..Len(calls) : g[i] = calls[i]
      /\ \A i \in (Len(calls) + 1)..Len(g) :
           g[i] = game[i - Len(calls) + 1] /\ i - Len(calls) + 1 \in 2..Len(game)
  BY <1>1, <1>3, InPlace
<1>5. \A i \in 1..Len(g) : GameCallNext(g[i])
  <2> SUFFICES ASSUME NEW i \in 1..Len(g) PROVE GameCallNext(g[i])
    OBVIOUS
  <2>1. i \in 1..Len(calls) \/ i \in (Len(calls) + 1)..Len(g)
    BY <1>4
  <2>2. CASE i \in 1..Len(calls)
    BY <1>4, <2>2
  <2>3. CASE i \in (Len(calls) + 1)..Len(g)
    <3>1. g[i] = game[i - Len(calls) + 1] /\ i - Len(calls) + 1 \in 1..Len(game)
      BY <1>4, <2>3
    <3>2. GameCall(g[i])
      BY <3>1 DEF Finishing
    <3> QED BY <1>2, <3>2
  <2> QED BY <2>1, <2>2, <2>3
<1>6. \A i \in 1..Len(game') : GameCall(game[i])'
  BY <1>1, <1>5 DEF g, GameCall, GameCallNext, Ending, EndingNext, Reset, Do, Detach, Write
<1>7. terminated'[View] /\ terminated'[Root]
  BY <1>1 DEF Finishing, Lasting
<1> QED BY <1>6, <1>7 DEF Finishing

LEMMA AtGame ==
  ASSUME LifetimeInv, NEW d, At("game", d)
  PROVE  /\ game # <<>> /\ game[1].does = d /\ game[1] = Head(game) /\ Of("game") = game[1].of /\ game \in Seq(CallSet)
         /\ \A calls \in Seq(CallSet) : Calls("game", calls) => game' = calls \o Tail(game)
<1>1. game # <<>> /\ game \in Seq(CallSet) /\ Head(game).does = d /\ Types /\ "game" \in Threads
  BY Numbers DEF LifetimeInv, At, game, Threads
<1> QED BY <1>1, HeadOf, CallsMade DEF Of, game

\* Before it has ended the view the game thread has one call.
LEMMA GameAt ==
  ASSUME LifetimeInv, game # <<>>
  PROVE  \/ ~terminated[View] /\ actions[Root] = <<Ends(View)>> /\ ~terminated[Root] /\ game = <<Ends(Root)>>
         \/ ~terminated[View] /\ actions[Root] = <<Ends(View)>> /\ terminated[Root] /\ game = <<Do("take", Root)>>
         \/ ~terminated[View] /\ terminated[Root] /\ game = <<Ends(View)>> /\ actions[Root] = <<>>
         \/ terminated[View] /\ terminated[Root] /\ game = <<Do("take", View)>> /\ actions[Root] = <<>>
         \/ Finishing
BY DEF LifetimeInv, GameInv, Finishing

\* The first call of a thread that is past the end of the view.
LEMMA GameFirst ==
  ASSUME LifetimeInv, Finishing, game # <<>>, NEW h, h = game[1]
  PROVE  /\ h.does = "terminate" => h.was = Eternal /\ h.of \in {Eternal} \cup Made
         /\ h.does = "take" => h.was = Eternal /\ h.of \in Made /\ terminated[h.of]
         /\ h.does = "detach" => h = Detach(View) \/ (h.was = Eternal /\ h.of \in Made /\ terminated[h.of])
         /\ h.does = "swap" => h = Reset
         /\ h.does = "write" => \E was \in {Eternal} \cup Made : h = Write(Eternal, was)
<1>1. game \in Seq(CallSet)
  BY Numbers DEF LifetimeInv
<1>2. 1 \in 1..Len(game)
  BY <1>1, HeadOf
<1>3. GameCall(h)
  BY <1>2 DEF Finishing
<1>4. CASE Ending(h, {Eternal} \cup Made)
  BY <1>4 DEF Ending
<1>5. CASE h = Reset
  BY <1>5 DEF Reset, Do
<1>6. CASE h = Detach(View)
  BY <1>6 DEF Detach, Do
<1>7. CASE \E was \in {Eternal} \cup Made : h = Write(Eternal, was)
  <2>1. h.does = "write"
    BY <1>7 DEF Write
  <2> QED BY <1>7, <2>1
<1> QED BY <1>3, <1>4, <1>5, <1>6, <1>7 DEF GameCall

LEMMA GameTerminates ==
  ASSUME LifetimeInv, [Next]_vars, Terminate("game")
  PROVE  GameInv'
<1>1. At("game", "terminate") /\ actions' = actions /\ created' = created
  BY DEF Terminate
<1>2. game # <<>> /\ game[1].does = "terminate" /\ Of("game") = game[1].of /\ game \in Seq(CallSet)
  BY <1>1, AtGame
<1>3. /\ terminated \in [Lifetime -> BOOLEAN] /\ View \in Lifetime /\ Root \in Lifetime /\ Root # View
      /\ Root # Eternal /\ View # Eternal /\ Root \in Nat /\ View \in Nat
  BY Basics
<1>4. CASE ~terminated[View] /\ actions[Root] = <<Ends(View)>> /\ ~terminated[Root] /\ game = <<Ends(Root)>>
  <2>1. Of("game") = Root
    BY <1>2, <1>4 DEF Ends, Do
  <2>2. Calls("game", <<Do("take", Root)>>) /\ terminated' = [terminated EXCEPT ![Root] = TRUE]
    BY <1>3, <2>1 DEF Terminate
  <2>3. <<Do("take", Root)>> \in Seq(CallSet) /\ Do("take", Root) \in CallSet
    BY <1>3, Known, OneCall
  <2>4. game' = <<Do("take", Root)>> \o Tail(game)
    BY <1>1, <2>2, <2>3, AtGame
  <2>5. Tail(game) = <<>>
    BY <1>4
  <2>6. game' = <<Do("take", Root)>>
    BY <2>3, <2>4, <2>5, Tails
  <2>7. ~terminated'[View] /\ terminated'[Root] /\ actions'[Root] = <<Ends(View)>>
    BY <1>1, <1>3, <1>4, <2>2
  <2> QED BY <2>6, <2>7 DEF GameInv, Do, Ends
<1>5. CASE ~terminated[View] /\ terminated[Root] /\ game = <<Ends(View)>> /\ actions[Root] = <<>>
  <2>1. Of("game") = View
    BY <1>2, <1>5 DEF Ends, Do
  <2>2. Calls("game", <<Do("take", View)>>) /\ terminated' = [terminated EXCEPT ![View] = TRUE]
    BY <1>3, <2>1 DEF Terminate
  <2>3. <<Do("take", View)>> \in Seq(CallSet) /\ Do("take", View) \in CallSet
    BY <1>3, Known, OneCall
  <2>4. game' = <<Do("take", View)>> \o Tail(game)
    BY <1>1, <2>2, <2>3, AtGame
  <2>5. Tail(game) = <<>>
    BY <1>5
  <2>6. game' = <<Do("take", View)>>
    BY <2>3, <2>4, <2>5, Tails
  <2>7. terminated'[View] /\ terminated'[Root] /\ actions'[Root] = <<>>
    BY <1>1, <1>3, <1>5, <2>2
  <2> QED BY <2>6, <2>7 DEF GameInv, Do, Ends
<1>6. CASE Finishing
  <2>1. game[1].of \in {Eternal} \cup Made
    BY <1>2, <1>6, GameFirst
  <2>2. \E calls \in Seq(CallSet) : Calls("game", calls) /\ \A i \in 1..Len(calls) : GameCallNext(calls[i])
    <3>1. CASE Of("game") = Eternal
      <4>1. Calls("game", <<>>)
        BY <3>1 DEF Terminate
      <4>2. <<>> \in Seq(CallSet) /\ \A i \in 1..Len(<<>>) : GameCallNext(<<>>[i])
        OBVIOUS
      <4> QED BY <4>1, <4>2
    <3>2. CASE Of("game") # Eternal
      <4> DEFINE l == Of("game")
                 x == Do("take", l)
      <4>1. Calls("game", <<x>>) /\ terminated' = [terminated EXCEPT ![l] = TRUE] /\ l \in Made
        BY <1>2, <2>1, <3>2 DEF Terminate
      <4>2. l \in Lifetime /\ l \in Nat
        BY <4>1, Basics, Numbers DEF LifetimeInv
      <4>3. x \in CallSet /\ terminated'[l]
        BY <1>3, <4>1, <4>2, Known
      <4>4. GameCallNext(x)
        BY <3>2, <4>1, <4>3 DEF GameCallNext, EndingNext, Do
      <4> HIDE DEF x
      <4>5. <<x>> \in Seq(CallSet) /\ \A i \in 1..Len(<<x>>) : GameCallNext(<<x>>[i])
        BY <4>3, <4>4
      <4> QED BY <4>1, <4>5
    <3> QED BY <3>1, <3>2
  <2>3. PICK calls \in Seq(CallSet) : Calls("game", calls) /\ \A i \in 1..Len(calls) : GameCallNext(calls[i])
    BY <2>2
  <2>4. game' = calls \o Tail(game)
    BY <1>1, <2>3, AtGame
  <2>5. Finishing'
    BY <1>1, <1>2, <1>6, <2>3, <2>4, TypesStep, FinishingStep DEF Finishing
  <2> QED BY <2>5 DEF Finishing, GameInv
<1>7. game # <<Do("take", Root)>> /\ game # <<Do("take", View)>>
  BY <1>2 DEF Do
<1> QED BY <1>2, <1>4, <1>5, <1>6, <1>7, GameAt

LEMMA GameTakes ==
  ASSUME LifetimeInv, [Next]_vars, Take("game")
  PROVE  GameInv'
<1>1. At("game", "take") /\ terminated' = terminated /\ created' = created
  BY DEF Take
<1>2. game # <<>> /\ game[1].does = "take" /\ Of("game") = game[1].of /\ game \in Seq(CallSet)
  BY <1>1, AtGame
<1>3. /\ actions \in [Lifetime -> Seq(CallSet)] /\ View \in Lifetime /\ Root \in Lifetime /\ Root # View
      /\ Root # Eternal /\ View # Eternal /\ Root \in Nat /\ View \in Nat
  BY Basics
<1>4. CASE ~terminated[View] /\ actions[Root] = <<Ends(View)>> /\ terminated[Root] /\ game = <<Do("take", Root)>>
  <2>1. Of("game") = Root
    BY <1>2, <1>4 DEF Do
  <2>2. Calls("game", Reverse(actions[Root])) /\ actions' = [actions EXCEPT ![Root] = <<>>]
    BY <2>1 DEF Take
  <2>3. <<Ends(View)>> \in Seq(CallSet) /\ Ends(View) \in CallSet
    BY <1>3, Known, OneCall
  <2>4. Reverse(actions[Root]) = <<Ends(View)>>
    <3> DEFINE s == actions[Root]
               r == Reverse(s)
    <3>0. s = <<Ends(View)>>
      BY <1>4
    <3>1. s \in Seq(CallSet) /\ Len(s) = 1 /\ s[1] = Ends(View)
      BY <2>3, <3>0
    <3> HIDE DEF s
    <3>2. r \in Seq(CallSet) /\ Len(r) = Len(s) /\ \A i \in 1..Len(s) : r[i] = s[Len(s) - i + 1]
      BY <3>1, ReverseFacts
    <3> HIDE DEF r
    <3>3. Len(r) = 1 /\ r[1] = Ends(View)
      BY <3>1, <3>2
    <3>4. r = <<Ends(View)>>
      BY <3>2, <3>3
    <3> QED BY <3>4 DEF r, s
  <2>5. game' = <<Ends(View)>> \o Tail(game)
    BY <1>1, <2>2, <2>3, <2>4, AtGame
  <2>6. Tail(game) = <<>>
    BY <1>4
  <2>7. game' = <<Ends(View)>>
    BY <2>3, <2>5, <2>6, Tails
  <2>8. ~terminated'[View] /\ terminated'[Root] /\ actions'[Root] = <<>>
    BY <1>1, <1>3, <1>4, <2>2
  <2> QED BY <2>7, <2>8 DEF GameInv, Do, Ends
<1> DEFINE l == Of("game")
           s == actions[l]
           calls == Reverse(s)
<1>5. Calls("game", calls) /\ actions' = [actions EXCEPT ![l] = <<>>]
  BY DEF Take
<1>6. l \in Lifetime => s \in Seq(CallSet) /\ Legal(l, s)
  BY Basics, LegalNow
<1>7. l \in Lifetime => /\ calls \in Seq(CallSet) /\ Len(calls) = Len(s)
                        /\ \A i \in 1..Len(s) : calls[i] = s[Len(s) - i + 1] /\ Len(s) - i + 1 \in 1..Len(s)
  BY <1>6, ReverseFacts
<1> HIDE DEF s, calls
<1>8. l \in Lifetime /\ (\A x : ActionOf(l, x) => GameCallNext(x)) => \A i \in 1..Len(calls) : GameCallNext(calls[i])
  BY <1>6, <1>7 DEF Legal
<1>9. l \in Lifetime => game' = calls \o Tail(game)
  BY <1>1, <1>5, <1>7, AtGame
<1>10. CASE terminated[View] /\ terminated[Root] /\ game = <<Do("take", View)>> /\ actions[Root] = <<>>
  <2>1. l = View
    BY <1>2, <1>10 DEF Do
  <2>2. \A x : ActionOf(View, x) => GameCallNext(x)
    BY <1>3 DEF ActionOf, GameCallNext, EndingNext, Ends, Do
  <2>3. \A i \in 1..Len(calls) : GameCallNext(calls[i])
    BY <1>3, <1>8, <2>1, <2>2
  <2>4. game' = calls \o Tail(game) /\ Tail(game) = <<>> /\ calls \in Seq(CallSet)
    BY <1>3, <1>7, <1>9, <1>10, <2>1
  <2>5. game' = calls
    BY <2>4
  <2>6. Made' = Made
    BY <1>1 DEF Made
  <2>7. \A i \in 1..Len(game') : GameCallNext(game'[i])
    BY <2>3, <2>5
  <2>8. \A i \in 1..Len(game') : GameCall(game[i])'
    BY <2>6, <2>7 DEF GameCall, GameCallNext, Ending, EndingNext, Reset, Do, Detach, Write
  <2>9. terminated'[View] /\ terminated'[Root] /\ actions'[Root] = <<>> /\ actions'[View] = <<>>
    BY <1>1, <1>3, <1>5, <1>10, <2>1
  <2> QED BY <2>8, <2>9 DEF GameInv
<1>11. CASE Finishing
  <2>1. l \in Made /\ l # Eternal /\ terminated[l]
    <3>1. game[1].of \in Made /\ terminated[game[1].of]
      BY <1>2, <1>11, GameFirst
    <3>2. \A n \in Made : n # Eternal
      BY Basics
    <3> QED BY <1>2, <3>1, <3>2
  <2>2. l \in Lifetime /\ l # Root /\ l # View
    BY <2>1, Basics, Numbers DEF LifetimeInv
  <2>3. \A x : ActionOf(l, x) => GameCallNext(x)
    BY <1>1, <2>1, <2>2 DEF ActionOf, GameCallNext, EndingNext, Detach, Closing, Do
  <2>4. \A i \in 1..Len(calls) : GameCallNext(calls[i])
    BY <1>8, <2>2, <2>3
  <2>5. game' = calls \o Tail(game) /\ calls \in Seq(CallSet)
    BY <1>7, <1>9, <2>2
  <2>6. actions'[Root] = <<>> /\ actions'[View] = <<>>
    BY <1>3, <1>5, <1>11, <2>2 DEF Finishing
  <2>7. Finishing'
    BY <1>1, <1>2, <1>11, <2>4, <2>5, <2>6, TypesStep, FinishingStep
  <2> QED BY <2>7 DEF Finishing, GameInv
<1>12. game # <<Ends(Root)>> /\ game # <<Ends(View)>>
  BY <1>2 DEF Do, Ends
<1> QED BY <1>2, <1>4, <1>10, <1>11, <1>12, GameAt

\* A step of the game thread past the end of the view.
LEMMA GameGoesOn ==
  ASSUME LifetimeInv, [Next]_vars, Finishing, NEW d, At("game", d),
         NEW calls \in Seq(CallSet), \A i \in 1..Len(calls) : GameCallNext(calls[i]), Calls("game", calls),
         created' = created, actions'[Root] = <<>>, actions'[View] = <<>>
  PROVE  GameInv'
<1>1. game # <<>> /\ game' = calls \o Tail(game) /\ Lasting
  BY AtGame, TypesStep
<1>2. Finishing'
  BY <1>1, FinishingStep
<1> QED BY <1>2 DEF Finishing, GameInv

LEMMA GamePast ==
  ASSUME LifetimeInv, NEW d \in {"close", "detach", "swap", "write"}, At("game", d)
  PROVE  Finishing
<1>1. game # <<>> /\ game[1].does = d
  BY AtGame
<1> QED BY <1>1, GameHead DEF LifetimeInv, Finishing

LEMMA GameDetaches ==
  ASSUME LifetimeInv, [Next]_vars, Erase("game") \/ Tear("game")
  PROVE  GameInv'
<1>1. At("game", "detach") /\ Calls("game", <<>>) /\ created' = created
  BY DEF Erase, Tear
<1>2. Finishing
  BY <1>1, GamePast
<1>3. Parent(Of("game")) \in {Root, View}
  BY Basics
<1> DEFINE p == Parent(Of("game"))
<1>4. actions[p] = <<>> /\ actions \in [Lifetime -> Seq(CallSet)] /\ Root \in Lifetime /\ View \in Lifetime
  BY <1>2, <1>3, Basics DEF Finishing
<1>5. \/ actions' = [actions EXCEPT ![p] = Without(actions[p], Ends(Of("game")))]
      \/ \E rest \in Torn(actions[p]) : actions' = [actions EXCEPT ![p] = rest]
  BY DEF Erase, Tear
<1>6. Without(actions[p], Ends(Of("game"))) = <<>> /\ \A rest \in Torn(actions[p]) : rest = <<>>
  <2>1. ~Contains(actions[p], Ends(Of("game"))) /\ actions[p] \in Seq(CallSet) /\ Len(actions[p]) = 0
    BY <1>3, <1>4 DEF Contains
  <2>2. Without(actions[p], Ends(Of("game"))) = <<>>
    BY <1>4, <2>1 DEF Without
  <2>3. ASSUME NEW rest \in Torn(actions[p]) PROVE rest = <<>>
    <3>1. rest \in Seq(CallSet) /\ \A i \in 1..Len(rest) : \E j \in 1..Len(actions[p]) : rest[i] = actions[p][j]
      BY <2>1, TornFacts
    <3>2. Len(rest) = 0
      <4>1. Len(rest) \in Nat
        BY <3>1
      <4>2. Len(rest) > 0 => 1 \in 1..Len(rest)
        BY <4>1
      <4>3. \A j : j \notin 1..Len(actions[p])
        BY <2>1
      <4> QED BY <3>1, <4>1, <4>2, <4>3
    <3> QED BY <3>1, <3>2
  <2> QED BY <2>2, <2>3
<1>7. actions'[Root] = <<>> /\ actions'[View] = <<>>
  BY <1>2, <1>3, <1>4, <1>5, <1>6 DEF Finishing
<1>8. <<>> \in Seq(CallSet) /\ \A i \in 1..Len(<<>>) : GameCallNext(<<>>[i])
  OBVIOUS
<1> QED BY <1>1, <1>2, <1>7, <1>8, GameGoesOn

LEMMA GameCloses ==
  ASSUME LifetimeInv, [Next]_vars, Close("game")
  PROVE  GameInv'
<1>1. At("game", "close") /\ Calls("game", <<>>) /\ created' = created /\ actions' = actions
  BY DEF Close, lifetimeVars
<1>2. Finishing
  BY <1>1, GamePast
<1>3. <<>> \in Seq(CallSet) /\ \A i \in 1..Len(<<>>) : GameCallNext(<<>>[i])
  OBVIOUS
<1>4. actions'[Root] = <<>> /\ actions'[View] = <<>>
  BY <1>1, <1>2 DEF Finishing
<1> QED BY <1>1, <1>2, <1>3, <1>4, GameGoesOn

LEMMA GameSwaps ==
  ASSUME LifetimeInv, [Next]_vars, Swap("game")
  PROVE  GameInv'
<1>1. At("game", "swap") /\ Calls("game", <<Write(Of("game"), current_def)>>) /\ created' = created /\ actions' = actions
  BY DEF Swap, lifetimeVars
<1>2. Finishing
  BY <1>1, GamePast
<1>3. Of("game") = Eternal
  BY <1>1, <1>2, AtGame, GameFirst DEF Reset, Do
<1>4. current_def \in {Eternal} \cup Made /\ current_def \in Nat /\ Eternal \in Nat
  BY CreatedIn, Basics DEF Current
<1> DEFINE x == Write(Eternal, current_def)
<1>5. x \in CallSet /\ GameCallNext(x)
  BY <1>4, Known DEF GameCallNext
<1>6. Calls("game", <<x>>)
  BY <1>1, <1>3
<1> HIDE DEF x
<1>7. <<x>> \in Seq(CallSet) /\ \A i \in 1..Len(<<x>>) : GameCallNext(<<x>>[i])
  BY <1>5
<1>8. actions'[Root] = <<>> /\ actions'[View] = <<>>
  BY <1>1, <1>2 DEF Finishing
<1> QED BY <1>1, <1>2, <1>6, <1>7, <1>8, GameGoesOn

LEMMA GameWrites ==
  ASSUME LifetimeInv, [Next]_vars, WriteCurrent("game")
  PROVE  GameInv'
<1> DEFINE was == Head(todo["game"]).was
           a == Ends(current_def)
           b == Ends(was)
<1>1. /\ At("game", "write") /\ created' = created /\ actions' = actions
      /\ Calls("game", <<>> \o <<b>>) \/ Calls("game", <<a>> \o <<b>>)
  BY DEF WriteCurrent
<1>2. Finishing
  BY <1>1, GamePast
<1>3. was \in {Eternal} \cup Made
  <2>1. game # <<>> /\ game[1].does = "write" /\ was = game[1].was
    BY <1>1, AtGame DEF game
  <2>2. \E w \in {Eternal} \cup Made : game[1] = Write(Eternal, w)
    BY <1>2, <2>1, GameFirst
  <2> QED BY <2>1, <2>2 DEF Write
<1>4. current_def \in {Eternal} \cup Made /\ \A n \in {Eternal} \cup Made : n \in Nat
  BY CreatedIn, Basics DEF Current
<1>5. a \in CallSet /\ b \in CallSet /\ GameCallNext(a) /\ GameCallNext(b)
  <2>1. a \in CallSet /\ b \in CallSet
    BY <1>3, <1>4, Known
  <2>2. \A n \in {Eternal} \cup Made : GameCallNext(Ends(n))
    BY DEF GameCallNext, EndingNext, Ends, Do
  <2> QED BY <1>3, <1>4, <2>1, <2>2
<1> HIDE DEF a, b
<1>6. Calls("game", <<b>>) \/ Calls("game", <<a, b>>)
  <2>1. <<>> \o <<b>> = <<b>> /\ <<a>> \o <<b>> = <<a, b>>
    BY <1>5, Tails
  <2> QED BY <1>1, <2>1
<1>7. <<b>> \in Seq(CallSet) /\ \A i \in 1..Len(<<b>>) : GameCallNext(<<b>>[i])
  BY <1>5
<1>8. <<a, b>> \in Seq(CallSet) /\ \A i \in 1..Len(<<a, b>>) : GameCallNext(<<a, b>>[i])
  <2>1. <<a, b>> \in Seq(CallSet) /\ Len(<<a, b>>) = 2 /\ <<a, b>>[1] = a /\ <<a, b>>[2] = b
    BY <1>5
  <2> QED BY <1>5, <2>1
<1>9. actions'[Root] = <<>> /\ actions'[View] = <<>>
  BY <1>1, <1>2 DEF Finishing
<1> QED BY <1>1, <1>2, <1>6, <1>7, <1>8, <1>9, GameGoesOn

LEMMA GameStep ==
  ASSUME LifetimeInv, [Next]_vars
  PROVE  GameInv'
<1>1. Lasting /\ Types /\ GameInv
  BY TypesStep DEF LifetimeInv
<1>2. CASE Set \/ Use \/ UNCHANGED vars
  <2>1. UNCHANGED <<created, terminated, actions>> /\ created \in Nat
    BY <1>2, Basics DEF Set, Use, vars, lifetimeVars
  <2>2. game' = game
    BY <1>2, Basics DEF Set, Use, vars, game, Threads
  <2> QED BY <1>1, <2>1, <2>2, GameKept
<1>3. CASE Shutdown
  <2>1. UNCHANGED <<created, terminated, actions>> /\ ~terminated[Root] /\ game = <<>>
    BY <1>3 DEF Shutdown, lifetimeVars, game
  <2>2. game' = <<Ends(Root)>>
    BY <1>3, Basics DEF Shutdown, game, Threads
  <2> QED BY <1>1, <2>1, <2>2 DEF GameInv
<1>4. ASSUME NEW t \in Threads, Step(t) PROVE GameInv'
  <2>1. CASE t = "game"
    <3>1. ~Open(t) /\ ~Add(t) /\ ~RemoveAction(t) /\ ~Attach(t) /\ ~AttachBack(t) /\ ~Return(t) /\ ~Before(t) /\ ~Change(t)
      <4>1. todo[t] # <<>>
        BY <1>4, OwnCalls
      <4>2. Head(todo[t]).does \notin {"bracket", "closing", "plain", "remove", "attach", "attach_back", "return",
                                       "before", "change"}
        BY <2>1, <4>1, Heads
      <4> QED BY <4>2 DEF Open, Add, RemoveAction, Attach, AttachBack, Return, Before, Change, At
    <3> QED BY <1>4, <2>1, <3>1, GameTerminates, GameTakes, GameDetaches, GameCloses, GameSwaps, GameWrites DEF Step
  <2>2. CASE t # "game"
    <3>1. t \in {"wire", "scheduler"}
      BY <2>2 DEF Threads
    <3> QED BY <1>4, <3>1, GameLeft
  <2> QED BY <2>1, <2>2
<1> QED BY <1>2, <1>3, <1>4 DEF Next

\* A thread that ends lifetimes goes on with the rest of its calls.
LEMMA GoesOn ==
  ASSUME LifetimeInv, NEW t \in Threads,
         Terminate(t) \/ Take(t) \/ Erase(t) \/ Tear(t) \/ Close(t) \/ Swap(t) \/ WriteCurrent(t)
  PROVE  todo[t] # <<>> /\ \E calls \in Seq(CallSet) : Calls(t, calls) /\ todo'[t] = calls \o Tail(todo[t])
<1>1. todo[t] # <<>>
  BY DEF Terminate, Take, Erase, Tear, Close, Swap, WriteCurrent, At
<1> DEFINE h == Head(todo[t])
<1>2. h \in CallSet /\ h.of \in Nat
  BY <1>1, Heads DEF CallSet
<1>3. current_def \in Nat /\ Types
  BY CreatedIn, Basics DEF LifetimeInv
<1>4. \E calls \in Seq(CallSet) : Calls(t, calls)
  <2>1. CASE Erase(t) \/ Tear(t) \/ Close(t)
    BY <2>1, NoCalls DEF Erase, Tear, Close
  <2>2. CASE Terminate(t)
    <3>1. <<Do("take", h.of)>> \in Seq(CallSet)
      BY <1>2, Known, OneCall
    <3> QED BY <2>2, <3>1, NoCalls DEF Terminate, Of
  <2>3. CASE Take(t)
    <3>1. h.of \in 1..created
      BY <1>1, <2>3, Heads DEF Take, At
    <3>2. h.of \in Lifetime
      BY <3>1, Basics
    <3>3. Reverse(actions[h.of]) \in Seq(CallSet)
      BY <3>2, Basics, ReverseFacts
    <3> QED BY <2>3, <3>3 DEF Take, Of
  <2>4. CASE Swap(t)
    <3>1. <<Write(h.of, current_def)>> \in Seq(CallSet)
      BY <1>2, <1>3, Known, OneCall
    <3> QED BY <2>4, <3>1 DEF Swap, Of
  <2>5. CASE WriteCurrent(t)
    <3>1. h.was \in {Eternal} \cup Made
      BY <1>1, <2>5, Heads DEF WriteCurrent, At
    <3>2. h.was \in Nat
      BY <3>1, Basics
    <3>3. Ends(h.was) \in CallSet /\ Ends(current_def) \in CallSet
      BY <1>3, <3>2, Known
    <3>4. Calls(t, <<>> \o <<Ends(h.was)>>) \/ Calls(t, <<Ends(current_def)>> \o <<Ends(h.was)>>)
      BY <2>5 DEF WriteCurrent
    <3> HIDE DEF h
    <3>5. <<>> \o <<Ends(h.was)>> \in Seq(CallSet) /\ <<Ends(current_def)>> \o <<Ends(h.was)>> \in Seq(CallSet)
      BY <3>3
    <3> QED BY <3>4, <3>5
  <2> QED BY <2>1, <2>2, <2>3, <2>4, <2>5
<1> QED BY <1>1, <1>3, <1>4, CallsMade

LEMMA StillIn ==
  ASSUME NEW s \in Seq(CallSet), s # <<>>, NEW calls \in Seq(CallSet), NEW x, Contains(s, x), s[1] # x
  PROVE  Contains(calls \o Tail(s), x)
<1>1. PICK i \in 1..Len(s) : s[i] = x
  BY DEF Contains
<1>2. i \in 2..Len(s)
  BY <1>1
<1> DEFINE r == calls \o Tail(s)
<1> HIDE DEF r
<1>3. r[i + Len(calls) - 1] = s[i] /\ i + Len(calls) - 1 \in (Len(calls) + 1)..Len(r) /\ Len(calls) \in Nat
  BY <1>2, InPlace DEF r
<1>4. i + Len(calls) - 1 \in 1..Len(r)
  BY <1>3
<1> QED BY <1>1, <1>3, <1>4 DEF Contains, r

\* The game thread ends a lifetime it is to end, or has it still to do.
LEMMA GameWill ==
  ASSUME LifetimeInv, [Next]_vars, NEW n \in Made, Contains(game, Ends(n))
  PROVE  terminated'[n] \/ Contains(game', Ends(n))
<1>1. game # <<>> /\ game \in Seq(CallSet) /\ "game" \in Threads
  BY Numbers DEF LifetimeInv, Contains, Threads
<1>2. CASE Set \/ Use \/ UNCHANGED vars
  <2>1. game' = game
    BY <1>2, Basics DEF Set, Use, vars, game, Threads
  <2> QED BY <2>1
<1>3. ~Shutdown
  BY <1>1 DEF Shutdown, game
<1>4. ASSUME NEW t \in Threads, Step(t), t # "game" PROVE Contains(game', Ends(n))
  BY <1>1, <1>4, OwnCalls DEF game
<1>5. CASE Step("game")
  <2>1. ~Open("game") /\ ~Add("game") /\ ~RemoveAction("game") /\ ~Attach("game") /\ ~AttachBack("game")
        /\ ~Return("game") /\ ~Before("game") /\ ~Change("game")
    <3>1. Head(todo["game"]).does \notin {"bracket", "closing", "plain", "remove", "attach", "attach_back", "return",
                                     "before", "change"}
      BY <1>1, Heads DEF game
    <3> QED BY <3>1 DEF Open, Add, RemoveAction, Attach, AttachBack, Return, Before, Change, At
  <2>2. PICK calls \in Seq(CallSet) : game' = calls \o Tail(game)
    BY <1>1, <1>5, <2>1, GoesOn DEF Step, game
  <2>3. CASE game[1] # Ends(n)
    <3>1. Contains(calls \o Tail(game), Ends(n))
      BY <1>1, <2>3, StillIn
    <3> QED BY <2>2, <3>1
  <2>4. CASE game[1] = Ends(n)
    <3>1. Head(todo["game"]).does = "terminate" /\ Of("game") = n
      BY <1>1, <2>4, HeadOf DEF game, Of, Ends, Do
    <3>2. Terminate("game")
      BY <1>5, <2>1, <3>1 DEF Step, Take, Erase, Tear, Close, Swap, WriteCurrent, At
    <3>3. n # Eternal /\ n \in Lifetime
      BY Basics, Numbers DEF LifetimeInv
    <3>4. terminated' = [terminated EXCEPT ![n] = TRUE]
      BY <3>1, <3>2, <3>3 DEF Terminate
    <3> QED BY <3>3, <3>4, Basics
  <2> QED BY <2>3, <2>4
<1> QED BY <1>2, <1>3, <1>4, <1>5 DEF Next

\* The view knows how to end a lifetime until the game thread takes its actions.
LEMMA ViewWill ==
  ASSUME LifetimeInv, [Next]_vars, created > View, ~terminated[created], Contains(actions[View], Ends(created))
  PROVE  Contains(actions'[View], Ends(created)) \/ Contains(game', Ends(created))
<1>1. /\ actions \in [Lifetime -> Seq(CallSet)] /\ View \in Lifetime /\ created \in Lifetime /\ created \in Nat
      /\ View # Eternal /\ actions[View] # <<>>
  BY Basics DEF Contains
<1>2. CASE Set \/ Use \/ Shutdown \/ UNCHANGED vars
  <2>1. actions' = actions
    BY <1>2 DEF Set, Use, Shutdown, vars, lifetimeVars
  <2> QED BY <2>1
<1>3. ASSUME NEW t \in Threads, Step(t) PROVE Contains(actions'[View], Ends(created)) \/ Contains(game', Ends(created))
  <2>1. todo[t] # <<>>
    BY <1>3, OwnCalls
  <2> DEFINE h == Head(todo[t])
  <2>2. CASE Take(t)
    <3>1. t \in {"wire", "game"} /\ h = todo[t][1] /\ h.does = "take"
      BY <2>1, <2>2, Heads DEF Take, At
    <3>2. actions' = [actions EXCEPT ![h.of] = <<>>] /\ Calls(t, Reverse(actions[h.of]))
      BY <2>2 DEF Take, Of
    <3>3. CASE h.of # View
      BY <1>1, <3>2, <3>3
    <3>4. CASE h.of = View
      <4>1. t = "game"
        <5>1. t = "wire" => h.of \in Current
          BY <2>1, <3>1, WireHead DEF LifetimeInv, wire, Ending
        <5>2. View \notin Current
          BY Basics DEF Current, Made
        <5> QED BY <3>1, <3>4, <5>1, <5>2
      <4> DEFINE r == Reverse(actions[View])
      <4>2. r \in Seq(CallSet) /\ Contains(r, Ends(created))
        <5>1. PICK i \in 1..Len(actions[View]) : actions[View][i] = Ends(created)
          BY DEF Contains
        <5>2. r \in Seq(CallSet) /\ Len(r) = Len(actions[View])
              /\ \A j \in 1..Len(actions[View]) : r[j] = actions[View][Len(actions[View]) - j + 1]
          BY <1>1, ReverseFacts
        <5> DEFINE s == actions[View]
                   j == Len(s) - i + 1
        <5>3. j \in 1..Len(s) /\ Len(s) - j + 1 = i
          BY <1>1
        <5> HIDE DEF r, j
        <5>4. r[j] = Ends(created) /\ j \in 1..Len(r)
          BY <5>1, <5>2, <5>3
        <5> QED BY <5>2, <5>4 DEF Contains
      <4> HIDE DEF r
      <4>3. At("game", "take") /\ Calls("game", r)
        BY <2>2, <3>2, <3>4, <4>1 DEF Take, r
      <4>4. game' = r \o Tail(game) /\ game \in Seq(CallSet) /\ game # <<>>
        BY <4>2, <4>3, AtGame
      <4> DEFINE g == r \o Tail(game)
      <4>5. \A i \in 1..Len(r) : g[i] = r[i] /\ i \in 1..Len(g)
        BY <4>2, <4>4, InPlace
      <4> HIDE DEF g
      <4>6. Contains(g, Ends(created))
        BY <4>2, <4>5 DEF Contains
      <4> QED BY <4>4, <4>6 DEF g
    <3> QED BY <3>3, <3>4
  <2>3. (~Erase(t) /\ ~Tear(t)) \/ actions'[View] = actions[View]
    <3>1. SUFFICES ASSUME Erase(t) \/ Tear(t) PROVE actions'[View] = actions[View]
      OBVIOUS
    <3>2. t \in {"wire", "game"} /\ h = todo[t][1] /\ h.does = "detach"
      BY <2>1, <3>1, Heads DEF Erase, Tear, At
    <3>3. t # "game"
      BY <1>1, <2>1, <3>2, GameHead DEF LifetimeInv, game
    <3>4. Ending(h, Current)
      BY <2>1, <3>2, <3>3, WireHead DEF LifetimeInv, wire
    <3>5. h.of \in Current \ {Eternal} /\ terminated[h.of]
      BY <3>2, <3>4 DEF Ending
    <3> QED BY <3>5, CreatedIn
  <2>4. CASE Attach(t)
    <3>1. h = Do("attach", created)
      BY <2>1, <2>4, Heads DEF Attach, At
    <3>2. Of(t) = created /\ Parent(created) = View
      BY <3>1, Basics DEF Of, Do, Parent
    <3>3. actions'[View] = actions[View] \/ actions'[View] = Append(actions[View], Ends(created))
      BY <1>1, <2>4, <3>2 DEF Attach
    <3>4. Contains(Append(actions[View], Ends(created)), Ends(created))
      <4> DEFINE s == actions[View]
      <4>1. s \in Seq(CallSet)
        BY <1>1
      <4> HIDE DEF s
      <4>2. Len(Append(s, Ends(created))) = Len(s) + 1 /\ Append(s, Ends(created))[Len(s) + 1] = Ends(created)
            /\ Len(s) + 1 \in 1..(Len(s) + 1)
        BY <4>1
      <4>3. Contains(Append(s, Ends(created)), Ends(created))
        BY <4>2 DEF Contains
      <4> QED BY <4>3 DEF s
    <3> QED BY <3>3, <3>4
  <2>5. CASE AttachBack(t)
    <3>1. h = Do("attach_back", created)
      BY <2>1, <2>5, Heads DEF AttachBack, At
    <3>2. Of(t) = created
      BY <3>1 DEF Of, Do
    <3>3. actions' = actions \/ actions' = [actions EXCEPT ![created] = Append(@, Detach(created))]
      BY <2>5, <3>2 DEF AttachBack
    <3> QED BY <1>1, <3>3, Basics
  <2>6. CASE Add(t) \/ RemoveAction(t)
    <3>1. h.does \in {"closing", "plain", "remove"}
      BY <2>6 DEF Add, RemoveAction, At
    <3>2. Of(t) = used /\ handed[used] \in {Eternal} \cup Made
      BY <2>1, <3>1, Heads DEF Of
    <3>3. handed[used] # View
      BY <3>2, Basics
    <3>4. actions' = actions \/ \E s : actions' = [actions EXCEPT ![handed[used]] = s]
      BY <2>6, <3>2 DEF Add, RemoveAction
    <3> QED BY <1>1, <3>3, <3>4
  <2>7. CASE ~(Take(t) \/ Erase(t) \/ Tear(t) \/ Attach(t) \/ AttachBack(t) \/ Add(t) \/ RemoveAction(t))
    <3>1. actions' = actions
      BY <1>3, <2>7 DEF Step, Terminate, Close, Swap, WriteCurrent, Return, Before, Change, Open, lifetimeVars
    <3> QED BY <3>1
  <2> QED BY <2>2, <2>3, <2>4, <2>5, <2>6, <2>7
<1> QED BY <1>2, <1>3 DEF Next

-----------------------------------------------------------------------------
(* The lifetimes made for values.                                          *)

\* A new lifetime is made when the last one has ended.
LEMMA ChangeAfter ==
  ASSUME LifetimeInv, NEW t \in Threads, Change(t)
  PROVE  /\ t = "wire"
         /\ \/ created' = created
            \/ /\ created' = created + 1 /\ (created = View \/ terminated[created])
               /\ wire' # <<>> /\ wire'[1] = Do("attach", created')
<1>1. todo[t] # <<>> /\ Head(todo[t]).does = "change"
  BY DEF Change, At
<1>2. t = "wire"
  BY <1>1, Heads
<1>3. At("wire", "change")
  BY <1>2 DEF Change
<1>4. WireChanges /\ wire = <<ChangeCall>>
  BY <1>3, AtWire, WireAt
<1>5. CASE terminated[View]
  BY <1>2, <1>5 DEF Change
<1>6. CASE ~terminated[View]
  <2>1. ~Contains(wire, Ends(created))
    <3>1. ChangeCall # Ends(created)
      BY DEF ChangeCall, Ends, Do
    <3>2. ChangeCall \in CallSet
      BY CallsKnown
    <3> HIDE DEF ChangeCall
    <3>3. \A i \in 1..Len(wire) : wire[i] = ChangeCall
      BY <1>4, <3>2
    <3> QED BY <3>1, <3>3 DEF Contains
  <2>2. created = View \/ terminated[created]
    BY <1>4, <1>6, <2>1 DEF WireChanges
  <2> DEFINE n == created + 1
             a == Do("attach", n)
             b == Do("attach_back", n)
             c == Do("swap", n)
             d == Do("return", n)
  <2>3. created' = n /\ Calls("wire", <<a, b, c, d>>)
    BY <1>2, <1>6 DEF Change
  <2>4. n \in Nat
    BY Basics
  <2>5. a \in CallSet /\ b \in CallSet /\ c \in CallSet /\ d \in CallSet
    BY <2>4, Known
  <2> HIDE DEF n, a, b, c, d
  <2>6. <<a, b, c, d>> \in Seq(CallSet)
    BY <2>5
  <2>7. wire' = <<a, b, c, d>> \o Tail(wire)
    BY <1>3, <2>3, <2>6, AtWire
  <2>8. Tail(wire) = <<>>
    BY <1>4
  <2>9. wire' = <<a, b, c, d>>
    <3>1. <<a, b, c, d>> \o <<>> = <<a, b, c, d>>
      BY <2>5, Tails
    <3> QED BY <2>7, <2>8, <3>1
  <2>10. wire' # <<>> /\ wire'[1] = a
    BY <2>5, <2>9
  <2> QED BY <1>2, <2>2, <2>3, <2>10 DEF a, n
<1> QED BY <1>5, <1>6

\* The lifetime on its way to its parent gets there, or is ended.
LEMMA AttachGets ==
  ASSUME LifetimeInv, [Next]_vars, wire # <<>>, wire[1] = Do("attach", created), ~terminated[created]
  PROVE  \/ wire' = wire \/ Contains(actions'[View], Ends(created))
         \/ wire' = <<Ends(created)>> /\ handed' = handed /\ ~Contains(handed, created)
<1>1. wire[1].does = "attach" /\ "wire" \in Threads /\ View \in Lifetime /\ actions \in [Lifetime -> Seq(CallSet)]
  BY Basics DEF Do, Threads
<1>2. CASE Set \/ Use \/ Shutdown \/ UNCHANGED vars
  <2>1. ~Set
    BY DEF Set, wire
  <2>2. wire' = wire
    BY <1>2, <2>1, Basics DEF Use, Shutdown, vars, wire, Threads
  <2> QED BY <2>2
<1>3. ASSUME NEW t \in Threads, Step(t), t # "wire" PROVE wire' = wire
  BY <1>1, <1>3, OwnCalls DEF wire
<1>4. CASE Step("wire")
  <2>1. Head(todo["wire"]) = wire[1]
    BY <1>1, Heads DEF wire
  <2>2. Attach("wire")
    BY <1>1, <1>4, <2>1 DEF Step, Terminate, Take, Erase, Tear, Close, AttachBack, Swap, WriteCurrent, Return, Before,
       Change, Open, Add, RemoveAction, At
  <2>3. At("wire", "attach") /\ Of("wire") = created /\ Fresh /\ handed' = handed
    <3>1. wire[1] = Do(wire[1].does, created) /\ Fresh
      BY <1>1, WireHead DEF LifetimeInv
    <3> QED BY <2>1, <2>2, <3>1 DEF Attach, Of, Do
  <2>4. Parent(Of("wire")) = View
    BY <2>3, Basics DEF Fresh, Parent
  <2>5. \/ Throws("wire", <<Ends(created)>>)
        \/ actions' = [actions EXCEPT ![View] = Append(@, Ends(created))]
    BY <2>2, <2>3, <2>4 DEF Attach
  <2>6. Throws("wire", <<Ends(created)>>) => wire' = <<Ends(created)>>
    <3>1. <<Ends(created)>> \in Seq(CallSet)
      BY CallsKnown, OneCall
    <3> QED BY <2>3, <3>1, AtWire
  <2>7. Contains(Append(actions[View], Ends(created)), Ends(created))
    <3> DEFINE s == actions[View]
    <3>1. s \in Seq(CallSet)
      BY <1>1
    <3> HIDE DEF s
    <3>2. Len(Append(s, Ends(created))) = Len(s) + 1 /\ Append(s, Ends(created))[Len(s) + 1] = Ends(created)
          /\ Len(s) + 1 \in 1..(Len(s) + 1)
      BY <3>1
    <3>3. Contains(Append(s, Ends(created)), Ends(created))
      BY <3>2 DEF Contains
    <3> QED BY <3>3 DEF s
  <2> QED BY <1>1, <2>3, <2>5, <2>6, <2>7 DEF Fresh
<1> QED BY <1>2, <1>3, <1>4 DEF Next

\* ~LifetimeDefinition of the wire's thread ends the lifetime.
LEMMA WireWill ==
  ASSUME LifetimeInv, [Next]_vars, created > View, wire = <<Ends(created)>>, ~terminated'[created]
  PROVE  wire' = wire /\ handed' = handed
<1>1. Ends(created) \in CallSet /\ "wire" \in Threads
  BY CallsKnown DEF Threads
<1>2. wire # <<>> /\ wire[1] = Ends(created)
  BY <1>1
<1>3. CASE Set \/ Use \/ Shutdown \/ UNCHANGED vars
  <2>1. ~Set
    BY <1>2 DEF Set, wire
  <2>2. wire' = wire
    BY <1>3, <2>1, Basics DEF Use, Shutdown, vars, wire, Threads
  <2>3. handed' = handed
    BY <1>3, <2>1 DEF Use, Shutdown, vars
  <2> QED BY <2>2, <2>3
<1>4. ASSUME NEW t \in Threads, Step(t), t # "wire" PROVE wire' = wire /\ handed' = handed
  <2>1. t \in {"scheduler", "game"}
    BY <1>4 DEF Threads
  <2> QED BY <1>4, <2>1, OthersLeave
<1>5. ~Step("wire")
  <2> SUFFICES ASSUME Step("wire") PROVE FALSE
    OBVIOUS
  <2>1. Head(todo["wire"]) = Ends(created)
    BY <1>1, <1>2, Heads DEF wire
  <2>2. Head(todo["wire"]).does = "terminate" /\ Of("wire") = created
    BY <2>1 DEF Ends, Do, Of
  <2>3. Terminate("wire")
    BY <2>2 DEF Step, Take, Erase, Tear, Close, Attach, AttachBack, Swap, WriteCurrent, Return, Before,
       Change, Open, Add, RemoveAction, At
  <2>4. created # Eternal
    BY Basics
  <2>5. terminated' = [terminated EXCEPT ![created] = TRUE]
    BY <2>2, <2>3, <2>4 DEF Terminate
  <2> QED BY <2>5, Basics
<1> QED BY <1>3, <1>4, <1>5 DEF Next

LEMMA MadeStep ==
  ASSUME LifetimeInv, [Next]_vars
  PROVE  MadeInv'
<1>1. Lasting /\ Types /\ MadeInv
  BY TypesStep DEF LifetimeInv
<1>2. /\ created \in Nat /\ created \in Lifetime /\ Made = (View + 1)..created /\ Made \subseteq Lifetime
      /\ View \in Nat
  BY <1>1, Basics, Numbers DEF Made
<1>3. CASE created' = created
  <2>1. Made' = Made
    BY <1>3 DEF Made
  <2>2. \A l \in Made : l # created => terminated'[l]
    BY <1>1, <1>2 DEF MadeInv, Lasting
  <2>3. ASSUME created > View, ~terminated'[created]
        PROVE  \/ wire' # <<>> /\ wire'[1] = Do("attach", created)
               \/ wire' = <<Ends(created)>> /\ ~Contains(handed', created)
               \/ Contains(actions'[View], Ends(created))
               \/ Contains(game', Ends(created))
    <3>1. ~terminated[created]
      BY <1>1, <1>2, <2>3 DEF Lasting
    <3>2. created \in Made
      BY <1>2, <2>3
    <3>3. CASE wire # <<>> /\ wire[1] = Do("attach", created)
      BY <3>1, <3>3, AttachGets
    <3>4. CASE wire = <<Ends(created)>> /\ ~Contains(handed, created)
      BY <2>3, <3>4, WireWill
    <3>5. CASE Contains(actions[View], Ends(created))
      BY <2>3, <3>1, <3>5, ViewWill
    <3>6. CASE Contains(game, Ends(created))
      BY <2>3, <3>2, <3>6, GameWill
    <3> QED BY <1>1, <2>3, <3>1, <3>3, <3>4, <3>5, <3>6 DEF MadeInv
  <2> QED BY <1>3, <2>1, <2>2, <2>3 DEF MadeInv
<1>4. CASE created' # created
  <2>1. \E t \in Threads : Change(t)
    BY <1>4 DEF Next, Step, vars, lifetimeVars, Set, Use, Shutdown, Terminate, Take, Erase, Tear, Close, Attach,
     AttachBack, Swap, WriteCurrent, Return, Before, Open, Add, RemoveAction
  <2>2. /\ created' = created + 1 /\ (created = View \/ terminated[created])
        /\ wire' # <<>> /\ wire'[1] = Do("attach", created')
    BY <1>4, <2>1, ChangeAfter
  <2>3. \A l \in Made' : l # created' => l \in Made /\ (l # created \/ terminated[created])
    BY <1>2, <2>2 DEF Made
  <2>4. \A l \in Made' : l # created' => terminated'[l]
    BY <1>1, <1>2, <2>3 DEF MadeInv, Lasting
  <2> QED BY <2>2, <2>4 DEF MadeInv
<1> QED BY <1>3, <1>4

-----------------------------------------------------------------------------
(* The scheduler's thread.                                                 *)

\* The other two threads leave the scheduler's alone.
LEMMA SchedulerLeft ==
  ASSUME LifetimeInv, NEW t \in Threads, Step(t), t # "scheduler"
  PROVE  /\ ~Open(t) /\ ~Add(t) /\ ~RemoveAction(t)
         /\ todo'["scheduler"] = todo["scheduler"] /\ UNCHANGED <<used, accepted, removed, opened>>
<1>1. todo[t] # <<>> /\ todo'["scheduler"] = todo["scheduler"]
  BY OwnCalls DEF Threads
<1>2. Head(todo[t]).does \notin {"bracket", "closing", "plain", "remove"}
  BY <1>1, Heads
<1>3. ~Open(t) /\ ~Add(t) /\ ~RemoveAction(t)
  BY <1>2 DEF Open, Add, RemoveAction, At
<1> QED BY <1>1, <1>3 DEF Step, Terminate, Take, Erase, Tear, Close, Attach, AttachBack, Swap, WriteCurrent, Return,
   Before, Change, historyVars

\* The scheduler's thread runs no lifetime's end.
LEMMA SchedulerSteps ==
  ASSUME LifetimeInv, Step("scheduler")
  PROVE  /\ Open("scheduler") \/ Add("scheduler") \/ RemoveAction("scheduler")
         /\ used > 0 /\ used \in Nat /\ used' = used /\ used \in 1..Len(handed)
         /\ handed[used] \in {Eternal} \cup Made /\ Of("scheduler") = used
         /\ todo["scheduler"] # <<>> /\ Head(todo["scheduler"]) = todo["scheduler"][1]
         /\ todo["scheduler"][1] = Do(todo["scheduler"][1].does, used)
<1>1. todo["scheduler"] # <<>> /\ "scheduler" \in Threads
  BY OwnCalls DEF Threads
<1> DEFINE h == Head(todo["scheduler"])
<1>2. h.does \notin {"terminate", "take", "detach", "swap", "write", "attach", "attach_back", "return", "before",
                     "change", "close"}
  BY <1>1, Heads
<1>3. Open("scheduler") \/ Add("scheduler") \/ RemoveAction("scheduler")
  BY <1>2 DEF Step, Terminate, Take, Erase, Tear, Close, Attach, AttachBack, Swap, WriteCurrent, Return,
   Before, Change, At
<1>4. h.does \in {"bracket", "closing", "plain", "remove"}
  BY <1>3 DEF Open, Add, RemoveAction, At
<1>5. h = Do(h.does, used) /\ h.of = used /\ used \in 1..Len(handed) /\ h = todo["scheduler"][1]
      /\ handed[used] \in {Eternal} \cup Made
  BY <1>1, <1>4, Heads
<1>6. used \in Nat /\ used > 0
  BY <1>5 DEF LifetimeInv, Types
<1>7. used' = used
  BY <1>3 DEF Open, Add, RemoveAction
<1> QED BY <1>1, <1>3, <1>5, <1>6, <1>7 DEF Of

\* What the scheduler's thread has left to do, by what it is at.
LEMMA SchedulerAt ==
  ASSUME LifetimeInv, Step("scheduler"), NEW s, s = todo["scheduler"]
  PROVE  /\ At("scheduler", "bracket") =>
              /\ s \in {<<Do("bracket", used), Do("plain", used)>>,
                        <<Do("bracket", used), Do("plain", used), Do("remove", used)>>}
              /\ Bracket(used) \notin accepted /\ Plain(used) \notin accepted
         /\ At("scheduler", "closing") =>
              /\ s \in {<<Do("closing", used), Do("plain", used)>>,
                        <<Do("closing", used), Do("plain", used), Do("remove", used)>>}
              /\ Bracket(used) \notin accepted /\ Plain(used) \notin accepted
         /\ At("scheduler", "plain") =>
              s \in {<<Do("plain", used)>>, <<Do("plain", used), Do("remove", used)>>} /\ Plain(used) \notin accepted
         /\ At("scheduler", "remove") => s = <<Do("remove", used)>>
         /\ accepted \subseteq 0..Plain(used)
<1> DEFINE a == Do("bracket", used)
           b == Do("closing", used)
           c == Do("plain", used)
           d == Do("remove", used)
<1>1. a.does = "bracket" /\ b.does = "closing" /\ c.does = "plain" /\ d.does = "remove"
  BY DEF Do
<1>2. used \in Nat /\ s # <<>> /\ Head(s) = s[1]
  BY SchedulerSteps
<1>3. a \in CallSet /\ b \in CallSet /\ c \in CallSet /\ d \in CallSet
  BY <1>2, Known
<1>4. /\ accepted \subseteq 0..Plain(used)
      /\ \/ s = <<d>>
         \/ s \in {<<c>>, <<c, d>>} /\ Plain(used) \notin accepted
         \/ /\ s \in {<<a, c>>, <<a, c, d>>, <<b, c>>, <<b, c, d>>}
            /\ Bracket(used) \notin accepted /\ Plain(used) \notin accepted
  BY <1>2 DEF LifetimeInv, SchedInv
<1> HIDE DEF a, b, c, d
<1>5. /\ s = <<d>> => Head(s) = d
      /\ s \in {<<c>>, <<c, d>>} => Head(s) = c
      /\ s \in {<<a, c>>, <<a, c, d>>} => Head(s) = a
      /\ s \in {<<b, c>>, <<b, c, d>>} => Head(s) = b
  BY <1>3
<1>6. \A k : At("scheduler", k) => Head(s).does = k
  BY DEF At
<1>7. At("scheduler", "bracket") => s \in {<<a, c>>, <<a, c, d>>} /\ Bracket(used) \notin accepted /\ Plain(used) \notin accepted
  BY <1>1, <1>4, <1>5, <1>6
<1>8. At("scheduler", "closing") => s \in {<<b, c>>, <<b, c, d>>} /\ Bracket(used) \notin accepted /\ Plain(used) \notin accepted
  BY <1>1, <1>4, <1>5, <1>6
<1>9. At("scheduler", "plain") => s \in {<<c>>, <<c, d>>} /\ Plain(used) \notin accepted
  BY <1>1, <1>4, <1>5, <1>6
<1>10. At("scheduler", "remove") => s = <<d>>
  BY <1>1, <1>4, <1>5, <1>6
<1> QED BY <1>4, <1>7, <1>8, <1>9, <1>10 DEF a, b, c, d

LEMMA AtScheduler ==
  ASSUME LifetimeInv, todo["scheduler"] # <<>>, NEW s, s = todo["scheduler"]
  PROVE  /\ \A calls \in Seq(CallSet) : Calls("scheduler", calls) => todo'["scheduler"] = calls \o Tail(s)
         /\ \A calls \in Seq(CallSet) : Throws("scheduler", calls) => todo'["scheduler"] = calls
<1>1. Types /\ "scheduler" \in Threads
  BY DEF LifetimeInv, Threads
<1> QED BY <1>1, CallsMade, Thrown

\* Numbers of the actions.
LEMMA Counted ==
  \A n \in Nat : /\ Bracket(n) \in Nat /\ Plain(n) \in Nat /\ Bracket(n) < Plain(n) /\ Plain(n) \in 0..Plain(n)
                 /\ Bracket(n) \in 0..Plain(n) /\ Bracket(n + 1) \notin 0..Plain(n) /\ Plain(n + 1) \notin 0..Plain(n)
                 /\ 0..Plain(n) \subseteq 0..Plain(n + 1)
BY DEF Bracket, Plain

\* Up to three calls.
LEMMA Few ==
  ASSUME NEW a \in CallSet, NEW b \in CallSet, NEW c \in CallSet
  PROVE  /\ Tail(<<a>>) = <<>> /\ Tail(<<a, b>>) = <<b>> /\ Tail(<<a, b, c>>) = <<b, c>>
         /\ <<>> \o <<>> = <<>> /\ <<>> \o <<a>> = <<a>> /\ <<>> \o <<a, b>> = <<a, b>>
         /\ <<a>> \o <<b>> = <<a, b>> /\ <<a>> \o <<b, c>> = <<a, b, c>>
<1>1. Tail(<<a>>) = <<>> /\ Tail(<<a, b>>) = <<b>>
  OBVIOUS
<1>2. Tail(<<a, b, c>>) = <<b, c>>
  OBVIOUS
<1>3. <<>> \o <<>> = <<>> /\ <<>> \o <<a>> = <<a>> /\ <<>> \o <<a, b>> = <<a, b>>
  OBVIOUS
<1>4. <<a>> \o <<b>> = <<a, b>>
  BY Tails
<1>5. <<a>> \o <<b, c>> = <<a, b, c>>
  <2> DEFINE r == <<a>> \o <<b, c>>
  <2>1. r \in Seq(CallSet) /\ Len(r) = 3 /\ r[1] = a
    OBVIOUS
  <2>2. r[2] = b /\ r[3] = c
    OBVIOUS
  <2> HIDE DEF r
  <2>3. r = <<a, b, c>>
    BY <2>1, <2>2
  <2> QED BY <2>3 DEF r
<1> QED BY <1>1, <1>2, <1>3, <1>4, <1>5

LEMMA SchedStep ==
  ASSUME LifetimeInv, [Next]_vars
  PROVE  SchedInv'
<1>1. SchedInv /\ todo \in [Threads -> Seq(CallSet)] /\ "scheduler" \in Threads /\ used \in Nat
  BY Basics DEF LifetimeInv, Threads, Types
<1>2. CASE Set \/ Shutdown \/ UNCHANGED vars
  <2>1. todo'["scheduler"] = todo["scheduler"] /\ used' = used /\ accepted' = accepted
    BY <1>1, <1>2 DEF Set, Shutdown, vars, historyVars
  <2> QED BY <1>1, <2>1 DEF SchedInv
<1>3. CASE Use
  <2> DEFINE n == used + 1
             a == Do("bracket", n)
             c == Do("plain", n)
             d == Do("remove", n)
  <2>1. /\ used' = n /\ accepted' = accepted
        /\ todo' = [todo EXCEPT !["scheduler"] = <<a, c>> \o <<>>]
           \/ todo' = [todo EXCEPT !["scheduler"] = <<a, c>> \o <<d>>]
    BY <1>3 DEF Use, historyVars
  <2>2. n \in Nat /\ n > 0
    BY <1>1
  <2>3. a \in CallSet /\ c \in CallSet /\ d \in CallSet
    BY <2>2, Known
  <2>4. accepted \subseteq 0..Plain(used)
    BY <1>1 DEF SchedInv
  <2>5. accepted \subseteq 0..Plain(n) /\ Bracket(n) \notin accepted /\ Plain(n) \notin accepted
    BY <1>1, <2>4, Counted
  <2> HIDE DEF n, a, c, d
  <2>6. <<a, c>> \o <<>> = <<a, c>> /\ <<a, c>> \o <<d>> = <<a, c, d>>
    <3>1. <<a, c>> \o <<>> = <<a, c>>
      BY <2>3
    <3> QED BY <2>3, <3>1, Tails
  <2>7. todo'["scheduler"] \in {<<a, c>>, <<a, c, d>>}
    BY <1>1, <2>1, <2>6
  <2> QED BY <2>1, <2>2, <2>5, <2>7 DEF SchedInv, a, c, d
<1>4. ASSUME NEW t \in Threads, Step(t), t # "scheduler" PROVE SchedInv'
  <2>1. todo'["scheduler"] = todo["scheduler"] /\ used' = used /\ accepted' = accepted
    BY <1>4, SchedulerLeft
  <2> QED BY <1>1, <2>1 DEF SchedInv
<1>5. CASE Step("scheduler")
  <2> DEFINE s == todo["scheduler"]
             a == Do("bracket", used)
             b == Do("closing", used)
             c == Do("plain", used)
             d == Do("remove", used)
  <2>1. /\ used > 0 /\ used' = used /\ Of("scheduler") = used /\ s # <<>> /\ accepted \subseteq 0..Plain(used)
        /\ Open("scheduler") \/ Add("scheduler") \/ RemoveAction("scheduler")
    BY <1>5, SchedulerSteps, SchedulerAt
  <2>2. /\ a \in CallSet /\ b \in CallSet /\ c \in CallSet /\ d \in CallSet /\ Plain(used) \in 0..Plain(used)
        /\ Bracket(used) \in 0..Plain(used) /\ Bracket(used) # Plain(used)
    <3>1. a \in CallSet /\ b \in CallSet /\ c \in CallSet /\ d \in CallSet
      BY <1>1, Known
    <3>2. /\ Plain(used) \in 0..Plain(used) /\ Bracket(used) \in 0..Plain(used)
          /\ Bracket(used) \in Nat /\ Plain(used) \in Nat /\ Bracket(used) < Plain(used)
      BY <1>1, Counted
    <3>3. Bracket(used) # Plain(used)
      BY <3>2
    <3> QED BY <3>1, <3>2, <3>3
  <2>3. \A calls \in Seq(CallSet) : Calls("scheduler", calls) => todo'["scheduler"] = calls \o Tail(s)
    BY <2>1, AtScheduler
  <2>4. Throws("scheduler", <<>>) => todo'["scheduler"] = <<>>
    BY <2>1, NoCalls, AtScheduler
  <2>5. CASE Open("scheduler")
    <3>1. s \in {<<a, c>>, <<a, c, d>>} /\ Bracket(used) \notin accepted /\ Plain(used) \notin accepted
      BY <1>5, <2>5, SchedulerAt DEF Open
    <3>2. (Calls("scheduler", <<>>) \/ Calls("scheduler", <<b>>)) /\ accepted' = accepted
      BY <2>1, <2>5 DEF Open
    <3> HIDE DEF a, b, c, d
    <3>3. Tail(s) \in {<<c>>, <<c, d>>}
      <4>1. Tail(<<a, c>>) = <<c>> /\ Tail(<<a, c, d>>) = <<c, d>>
        BY <2>2, Few
      <4> QED BY <3>1, <4>1
    <3>4. <<>> \in Seq(CallSet) /\ <<b>> \in Seq(CallSet)
      BY <2>2
    <3>5. todo'["scheduler"] = <<>> \o Tail(s) \/ todo'["scheduler"] = <<b>> \o Tail(s)
      BY <2>3, <3>2, <3>4
    <3>6. \A r \in {<<c>>, <<c, d>>} : <<>> \o r = r /\ <<b>> \o r \in {<<b, c>>, <<b, c, d>>}
      <4>1. <<b>> \o <<c, d>> = <<b, c, d>> /\ <<b>> \o <<c>> = <<b, c>>
        BY <2>2, Few
      <4>2. <<>> \o <<c>> = <<c>> /\ <<>> \o <<c, d>> = <<c, d>>
        BY <2>2, Few
      <4> QED BY <4>1, <4>2
    <3>7. todo'["scheduler"] \in {<<c>>, <<c, d>>, <<b, c>>, <<b, c, d>>}
      BY <3>3, <3>5, <3>6
    <3> QED BY <2>1, <3>1, <3>2, <3>7 DEF SchedInv, b, c, d
  <2>6. CASE Add("scheduler")
    <3> DEFINE k == IF At("scheduler", "closing") THEN Bracket(used) ELSE Plain(used)
    <3>1. /\ Throws("scheduler", <<>>) \/ Calls("scheduler", <<>>)
          /\ accepted' = accepted \/ accepted' = accepted \cup {k}
      BY <2>1, <2>6 DEF Add
    <3>2. accepted' \subseteq 0..Plain(used)
      BY <2>1, <2>2, <3>1
    <3>3. todo'["scheduler"] = <<>> \/ todo'["scheduler"] = <<>> \o Tail(s)
      BY <2>3, <2>4, <3>1, NoCalls
    <3>4. CASE At("scheduler", "closing")
      <4>1. s \in {<<b, c>>, <<b, c, d>>} /\ Plain(used) \notin accepted
        BY <1>5, <3>4, SchedulerAt
      <4> HIDE DEF a, b, c, d
      <4>2. Tail(s) \in {<<c>>, <<c, d>>}
        <5>1. Tail(<<b, c>>) = <<c>> /\ Tail(<<b, c, d>>) = <<c, d>>
          BY <2>2, Few
        <5> QED BY <4>1, <5>1
      <4>3. \A r \in {<<c>>, <<c, d>>} : <<>> \o r = r
        <5>1. <<>> \o <<c>> = <<c>> /\ <<>> \o <<c, d>> = <<c, d>>
          BY <2>2, Few
        <5> QED BY <5>1
      <4>4. Plain(used) \notin accepted'
        BY <2>2, <3>1, <3>4, <4>1
      <4>5. todo'["scheduler"] \in {<<>>, <<c>>, <<c, d>>}
        BY <3>3, <4>2, <4>3
      <4> QED BY <2>1, <3>2, <4>4, <4>5 DEF SchedInv, c, d
    <3>5. CASE At("scheduler", "plain")
      <4>1. s \in {<<c>>, <<c, d>>}
        BY <1>5, <3>5, SchedulerAt
      <4> HIDE DEF a, b, c, d
      <4>2. Tail(s) \in {<<>>, <<d>>}
        <5>1. Tail(<<c>>) = <<>> /\ Tail(<<c, d>>) = <<d>>
          BY <2>2, Few
        <5> QED BY <4>1, <5>1
      <4>3. \A r \in {<<>>, <<d>>} : <<>> \o r = r
        <5>1. <<>> \o <<>> = <<>> /\ <<>> \o <<d>> = <<d>>
          BY <2>2, Few
        <5> QED BY <5>1
      <4>5. todo'["scheduler"] \in {<<>>, <<d>>}
        BY <3>3, <4>2, <4>3
      <4> QED BY <2>1, <3>2, <4>5 DEF SchedInv, d
    <3> QED BY <2>6, <3>4, <3>5 DEF Add
  <2>7. CASE RemoveAction("scheduler")
    <3>1. s = <<d>> /\ Calls("scheduler", <<>>) /\ accepted' = accepted
      BY <1>5, <2>7, SchedulerAt DEF RemoveAction
    <3> HIDE DEF a, b, c, d
    <3>2. Tail(s) = <<>> /\ <<>> \o <<>> = <<>>
      BY <2>2, <3>1, Tails
    <3>3. todo'["scheduler"] = <<>>
      BY <2>3, <3>1, <3>2, NoCalls
    <3> QED BY <2>1, <3>1, <3>3 DEF SchedInv
  <2> QED BY <2>1, <2>5, <2>6, <2>7
<1> QED BY <1>2, <1>3, <1>4, <1>5 DEF Next

-----------------------------------------------------------------------------
(* The invariant holds; what a lifetime that was handed out comes to.      *)

LEMMA LifetimeInit == Init => LifetimeInv
<1> SUFFICES ASSUME Init PROVE LifetimeInv
  OBVIOUS
<1>1. /\ MaxChanges \in Nat /\ Lifetime = 0..(MaxChanges + 2) /\ Eternal = 0 /\ Root = 1 /\ View = 2
      /\ Root # View /\ Eternal \in Lifetime /\ Root \in Lifetime /\ View \in Lifetime /\ View \in Nat
  BY LifetimesAssumption DEF Lifetime, Eternal, Root, View
<1>2. /\ created = View /\ current_def = Eternal /\ handed = <<>> /\ used = 0 /\ changes = 0
      /\ accepted = {} /\ ran = <<>>
      /\ \A l \in Lifetime : terminated[l] = FALSE
      /\ \A t \in Threads : todo[t] = <<>>
  BY DEF Init
<1>3. Made = {}
  BY <1>1, <1>2 DEF Made
<1>4. /\ actions[Root] = <<Ends(View)>> /\ actions[View] = <<Detach(View), Reset>>
      /\ \A l \in Lifetime : l # Root /\ l # View => actions[l] = <<>>
  BY <1>1 DEF Init
<1>5. Ends(View) \in CallSet /\ Detach(View) \in CallSet /\ Reset \in CallSet
  BY <1>1, Known
<1>6. wire = <<>> /\ game = <<>> /\ todo["scheduler"] = <<>>
  BY <1>2 DEF wire, game, Threads
<1>7. Types
  <2>1. terminated \in [Lifetime -> BOOLEAN] /\ ~terminated[Eternal]
    BY <1>1 DEF Init
  <2>2. actions \in [Lifetime -> Seq(CallSet)]
    <3>1. <<Ends(View)>> \in Seq(CallSet) /\ <<Detach(View), Reset>> \in Seq(CallSet) /\ <<>> \in Seq(CallSet)
      BY <1>5
    <3>2. \A l \in Lifetime : actions[l] \in Seq(CallSet)
      BY <1>4, <3>1
    <3>3. actions = [l \in Lifetime |-> actions[l]]
      BY DEF Init
    <3> QED BY <3>2, <3>3
  <2>3. todo \in [Threads -> Seq(CallSet)]
    BY NoCalls DEF Init
  <2>4. handed \in Seq({Eternal} \cup Made) /\ ran \in Seq(Nat) /\ accepted \subseteq Nat /\ Len(handed) = 0
    BY <1>2
  <2>5. created \in Nat /\ created >= View /\ created <= View + changes /\ current_def \in Current
    BY <1>1, <1>2 DEF Current
  <2>6. used \in 0..Len(handed) /\ changes \in 0..MaxChanges
    BY <1>1, <1>2, <2>4
  <2> QED BY <2>1, <2>2, <2>3, <2>4, <2>5, <2>6 DEF Types
<1>8. WireInv
  BY <1>2, <1>6 DEF WireInv, WireEnds, Settled
<1>9. GameInv
  BY <1>1, <1>2, <1>4, <1>6 DEF GameInv
<1>10. ActionsInv
  <2>1. ASSUME NEW l \in Lifetime, NEW j \in 1..Len(actions[l]) PROVE ActionOf(l, actions[l][j])
    <3>1. CASE l = Root
      <4>1. actions[l][j] = Ends(View)
        BY <1>4, <1>5, <2>1, <3>1
      <4> QED BY <3>1, <4>1 DEF ActionOf
    <3>2. CASE l = View
      <4>1. actions[l][j] \in {Detach(View), Reset}
        BY <1>4, <1>5, <2>1, <3>2
      <4> QED BY <3>2, <4>1 DEF ActionOf
    <3>3. CASE l # Root /\ l # View
      <4>1. actions[l] = <<>>
        BY <1>4, <3>3
      <4> QED BY <2>1, <4>1
    <3> QED BY <3>1, <3>2, <3>3
  <2> QED BY <1>2, <2>1 DEF ActionsInv
<1>11. MadeInv
  BY <1>1, <1>2, <1>3 DEF MadeInv
<1>12. HandedInv
  BY <1>2 DEF HandedInv, Contains
<1>13. SchedInv
  BY <1>2, <1>6 DEF SchedInv
<1> QED BY <1>7, <1>8, <1>9, <1>10, <1>11, <1>12, <1>13 DEF LifetimeInv

LEMMA LifetimeStep ==
  ASSUME LifetimeInv, [Next]_vars
  PROVE  LifetimeInv'
BY TypesStep, WireStep, GameStep, ActionsStep, MadeStep, HandedStep, SchedStep DEF LifetimeInv

\* The inductive invariant of the lifetimes (LifetimeImpl, SequentialLifetimes).
THEOREM LifetimesInvariant == Spec => []LifetimeInv
<1>1. LifetimeInv /\ [Next]_vars => LifetimeInv'
  BY LifetimeStep
<1> QED BY LifetimeInit, <1>1, PTL DEF Spec

\* What was handed out before the last lifetime has ended.
LEMMA HandedEnded ==
  ASSUME LifetimeInv
  PROVE  /\ \A l \in ToSet(handed) : l \in {Eternal} \cup Made /\ Contains(handed, l)
         /\ \A l \in ToSet(handed) \ {Eternal, created} : terminated[l]
<1>1. handed \in Seq({Eternal} \cup Made)
  BY DEF LifetimeInv, Types
<1>2. \A l \in ToSet(handed) : l \in {Eternal} \cup Made /\ Contains(handed, l)
  BY <1>1 DEF ToSet, Contains
<1> QED BY <1>2 DEF LifetimeInv, MadeInv

\* When the end of the wire's lifetime returns, every lifetime the handler was
\* given has ended (LifetimeImpl::terminate, attach_nested).
THEOREM LifetimesEndWithRoot == Spec => []EndsWithRoot
<1>1. LifetimeInv => EndsWithRoot
  <2> SUFFICES ASSUME LifetimeInv, terminated[Root], todo["game"] = <<>>, NEW l \in ToSet(handed) \ {Eternal}
               PROVE  terminated[l]
    BY DEF EndsWithRoot
  <2>1. l \in Made /\ Contains(handed, l) /\ (l # created => terminated[l])
    BY HandedEnded
  <2>2. CASE l = created /\ ~terminated[created]
    <3>1. created > View
      BY <2>1, <2>2, Basics DEF Made
    <3>2. game = <<>>
      BY DEF game
    <3>3. ~Contains(game, Ends(created))
      BY <3>2 DEF Contains
    <3>4. game # <<Ends(View)>> /\ game # <<Do("take", Root)>> /\ game # <<Do("take", View)>> /\ game # <<Ends(Root)>>
      BY <3>2
    <3>5. actions[View] = <<>>
      BY <3>2, <3>4 DEF LifetimeInv, GameInv
    <3>6. ~Contains(actions[View], Ends(created))
      BY <3>5 DEF Contains
    <3>7. wire # <<>> /\ wire[1] = Do("attach", created) => ~Contains(handed, created)
      <4>1. wire # <<>> /\ wire[1] = Do("attach", created) => wire[1].does = "attach"
        BY DEF Do
      <4> QED BY <4>1, WireHead DEF LifetimeInv, Fresh
    <3> QED BY <2>1, <2>2, <3>1, <3>3, <3>6, <3>7 DEF LifetimeInv, MadeInv
  <2> QED BY <2>1, <2>2
<1> QED BY <1>1, LifetimesInvariant, PTL

-----------------------------------------------------------------------------
(* The view keeps its promise (ViewContract).                              *)

\* What stands for the variables of ViewContract.
given == ToSet(handed)
ended == {l \in ToSet(handed) \ {Eternal} : terminated[l]}

\* next returns: the handler is given what is current by then.
LEMMA ReturnGives ==
  ASSUME LifetimeInv, NEW t \in Threads, Return(t)
  PROVE  \E l \in Lifetime : Contract!Give(l)
<1>1. t = "wire" /\ At("wire", "return")
  <2>1. todo[t] # <<>> /\ Head(todo[t]).does = "return"
    BY DEF Return, At
  <2>2. t = "wire"
    BY <2>1, Heads
  <2> QED BY <2>2 DEF Return
<1>2. WireReturns
  BY <1>1, AtWire, WireAt
<1>3. handed' = Append(handed, current_def) /\ terminated' = terminated
  BY DEF Return, lifetimeVars
<1>4. handed \in Seq({Eternal} \cup Made) /\ current_def \in {Eternal, created} /\ current_def \in Lifetime
  BY CreatedIn DEF LifetimeInv, Types
<1>0. PICK l \in Lifetime : l = current_def
  BY <1>4
<1>5. given' = given \cup {l}
  <2>1. handed' = Append(handed, l) /\ l \in {Eternal} \cup Made
    BY <1>0, <1>3 DEF LifetimeInv, Types, Current
  <2>2. Len(handed') = Len(handed) + 1 /\ handed'[Len(handed) + 1] = l /\ \A i \in 1..Len(handed) : handed'[i] = handed[i]
    BY <1>4, <2>1
  <2>3. DOMAIN handed = 1..Len(handed) /\ DOMAIN handed' = 1..(Len(handed) + 1) /\ Len(handed) \in Nat
    BY <1>4, <2>1
  <2> DEFINE n == Len(handed)
  <2>4. 1..(n + 1) = 1..n \cup {n + 1}
    BY <2>3
  <2> QED BY <2>2, <2>3, <2>4 DEF given, ToSet
<1>6. \A m \in given : Contains(handed, m) /\ m \in {Eternal} \cup Made
  BY HandedEnded DEF given
<1>7. ~Contains(handed, created) /\ ~Contains(handed, Eternal) /\ (terminated[created] => terminated[View])
  BY <1>2 DEF WireReturns, Fresh
<1>8. l \notin given /\ Eternal \notin given
  BY <1>0, <1>4, <1>6, <1>7
<1>9. \A m \in given : m # Eternal /\ terminated[m]
  BY <1>6, <1>7, <1>8, HandedEnded DEF given
<1>10. ended = given
  BY <1>9 DEF given, ended
<1>11. ended' = {m \in (given \cup {l}) \ {Eternal} : terminated[m]}
  BY <1>3, <1>5 DEF given, ended
<1>12. CASE l = Eternal
  <2>1. ended' = ended
    BY <1>9, <1>10, <1>11, <1>12
  <2>2. terminated[View]
    BY <1>0, <1>2, <1>12 DEF WireReturns
  <2>4. given \ {Eternal} = ended /\ l \notin given /\ given' = given \cup {l} /\ terminated'[View] = terminated[View]
    BY <1>3, <1>5, <1>8, <1>10
  <2>3. Contract!Give(l)
    BY <1>12, <2>1, <2>2, <2>4, Zenon DEF Contract!Give, given, ended
  <2> QED BY <1>4, <2>3
<1>13. CASE l # Eternal
  <2>1. l = created
    BY <1>0, <1>4, <1>13
  <2>2. ended' = IF terminated[l] THEN ended \cup {l} ELSE ended
    BY <1>9, <1>10, <1>11, <1>13
  <2>3. ended' \in {ended} \cup {e \in {ended \cup {l}} : terminated[View]}
    BY <1>7, <2>1, <2>2
  <2>4. given \ {Eternal} = ended /\ l \notin given /\ given' = given \cup {l} /\ terminated'[View] = terminated[View]
    BY <1>3, <1>5, <1>8, <1>10
  <2>5. Contract!Give(l)
    BY <1>13, <2>3, <2>4, Zenon DEF Contract!Give, given, ended
  <2> QED BY <1>4, <2>5
<1> QED BY <1>12, <1>13

LEMMA TerminateEnds ==
  ASSUME LifetimeInv, NEW t \in Threads, Terminate(t)
  PROVE  \/ \E l \in Lifetime : Contract!End(l)
         \/ Contract!Finish
         \/ UNCHANGED <<given, ended, terminated[View]>>
<1>0. Of(t) \in 0..created /\ Of(t) \in Lifetime
  BY Heads, Basics DEF Terminate, At, Of
<1>2. PICK x \in Lifetime : x = Of(t)
  BY <1>0
<1>1. handed' = handed /\ (terminated' = terminated \/ (x # Eternal /\ terminated' = [terminated EXCEPT ![x] = TRUE]))
  BY <1>2 DEF Terminate
<1>3. /\ terminated \in [Lifetime -> BOOLEAN] /\ View \in Lifetime
      /\ \A l \in given : l \in {Eternal} \cup Made
  BY Basics, HandedEnded DEF given
<1>4. given' = given
  BY <1>1 DEF given
<1>5. CASE terminated' = terminated
  BY <1>1, <1>5 DEF given, ended
<1>6. CASE x # Eternal /\ terminated' = [terminated EXCEPT ![x] = TRUE]
  <2>1. \A l \in given : l \in Lifetime /\ l # View
    <3>1. Made \subseteq Lifetime /\ View \notin Made /\ Eternal # View /\ Eternal \in Lifetime
      BY Basics, Numbers DEF LifetimeInv
    <3> QED BY <1>3, <3>1
  <2>2. CASE x = View
    <3>1. \A l \in given : terminated'[l] = terminated[l]
      BY <1>3, <1>6, <2>1, <2>2
    <3>2. ended' = ended
      BY <1>4, <3>1 DEF ended, given
    <3>3. terminated'[View] = TRUE
      BY <1>3, <1>6, <2>2
    <3> QED BY <1>4, <3>2, <3>3 DEF Contract!Finish, given, ended
  <2>3. CASE x # View /\ (x \notin given \/ terminated[x])
    <3>1. \A l \in given : terminated'[l] = terminated[l]
      BY <1>2, <1>3, <1>6, <2>1, <2>3
    <3>2. ended' = ended
      BY <1>4, <3>1 DEF ended, given
    <3>3. terminated'[View] = terminated[View]
      BY <1>3, <1>6, <2>3
    <3> QED BY <1>4, <3>2, <3>3
  <2>4. CASE x # View /\ x \in given /\ ~terminated[x]
    <3>1. \A l \in given : terminated'[l] = (terminated[l] \/ l = x)
      BY <1>2, <1>3, <1>6, <2>1
    <3>2. ended' = ended \cup {x}
      BY <1>4, <1>6, <2>4, <3>1 DEF ended, given
    <3>3. terminated'[View] = terminated[View]
      BY <1>3, <1>6, <2>4
    <3>4. x \in given \ (ended \cup {Eternal})
      BY <1>6, <2>4 DEF ended
    <3>5. Contract!End(x)
      BY <1>4, <3>2, <3>3, <3>4, Zenon DEF Contract!End, given, ended
    <3> QED BY <1>2, <3>5
  <2> QED BY <2>2, <2>3, <2>4
<1> QED BY <1>1, <1>5, <1>6

\* The view keeps its promise (IPropertyBase::view, SequentialLifetimes::next):
\* the lifetimes it gives out end one after the other, and the eternal one
\* comes only from a view that is over.
THEOREM LifetimesKeepPromise == Spec => ViewPromise
<1>1. Init => Contract!Init
  <2> SUFFICES ASSUME Init PROVE Contract!Init
    OBVIOUS
  <2>1. handed = <<>> /\ View \in Lifetime /\ terminated = [l \in Lifetime |-> FALSE]
    BY LifetimeInit, Basics DEF Init
  <2>2. ToSet(handed) = {}
    BY <2>1 DEF ToSet
  <2> QED BY <2>1, <2>2 DEF Contract!Init
<1>2. LifetimeInv /\ [Next]_vars => [Contract!Next]_<<given, ended, terminated[View]>>
  <2> SUFFICES ASSUME LifetimeInv, [Next]_vars PROVE [Contract!Next]_<<given, ended, terminated[View]>>
    OBVIOUS
  <2>1. CASE handed' = handed /\ terminated' = terminated
    BY <2>1 DEF given, ended
  <2>2. ASSUME NEW t \in Threads, Return(t) PROVE Contract!Next
    BY <2>2, ReturnGives DEF Contract!Next
  <2>3. ASSUME NEW t \in Threads, Terminate(t) PROVE [Contract!Next]_<<given, ended, terminated[View]>>
    BY <2>3, TerminateEnds DEF Contract!Next
  <2>4. \/ handed' = handed /\ terminated' = terminated
        \/ \E t \in Threads : Return(t) \/ Terminate(t)
    BY DEF Next, Step, vars, lifetimeVars, Set, Use, Shutdown, Take, Erase, Tear, Close, Attach,
     AttachBack, Swap, WriteCurrent, Before, Change, Open, Add, RemoveAction
  <2> QED BY <2>1, <2>2, <2>3, <2>4
<1>3. <<given, ended, terminated[View]>> = <<ToSet(handed), {l \in ToSet(handed) \ {Eternal} : terminated[l]}, terminated[View]>>
  BY DEF given, ended
<1>4. LifetimeInv /\ [Next]_vars =>
        [Contract!Next]_<<ToSet(handed), {l \in ToSet(handed) \ {Eternal} : terminated[l]}, terminated[View]>>
  BY <1>2 DEF given, ended
<1> QED BY <1>1, <1>4, LifetimesInvariant, PTL DEF Spec, ViewPromise, Contract!Spec

-----------------------------------------------------------------------------
(* Sequences of calls as far as the scheduler's actions go.                *)

NoClose(s) == \A i \in 1..Len(s) : s[i].does # "close"
Once(s) == \A i, j \in 1..Len(s) : \A k \in Nat : s[i] = Closing(k) /\ s[j] = Closing(k) => i = j
Has(s, k) == Contains(s, Closing(k))
Ordered(s, k, m) == \A g, h \in 1..Len(s) : s[g] = Closing(k) /\ s[h] = Closing(m) => g < h

\* r has the actions of s, in the order of s.
Like(r, s) ==
  /\ \A k \in Nat : Has(r, k) <=> Has(s, k)
  /\ Once(s) => Once(r)
  /\ \A k, m \in Nat : Ordered(s, k, m) => Ordered(r, k, m)

LEMMA ClosingCall ==
  /\ \A k \in Nat : Closing(k) \in CallSet /\ Closing(k).does = "close"
  /\ \A k, m : Closing(k) = Closing(m) => k = m
  /\ \A x, k : x.does # "close" => x # Closing(k)
<1>1. \A k : Closing(k).does = "close" /\ Closing(k).of = k
  BY DEF Closing, Do
<1> QED BY <1>1, Known

LEMMA LikeItself == \A s : Like(s, s)
BY DEF Like

LEMMA NoneOf ==
  ASSUME NEW s, NoClose(s)
  PROVE  /\ \A k : ~Has(s, k)
         /\ Once(s) /\ \A k, m : Ordered(s, k, m)
<1>1. \A i \in 1..Len(s) : \A k : s[i] # Closing(k)
  BY ClosingCall DEF NoClose
<1> QED BY <1>1 DEF Has, Contains, Once, Ordered, NoClose

LEMMA LikeNone ==
  ASSUME NEW s, NEW r, NoClose(s), NoClose(r)
  PROVE  Like(r, s)
BY NoneOf DEF Like

\* s and r have the same calls but for some that are no actions, in the same order.
Mapped(r, s, p, q) ==
  /\ \A i \in 1..Len(s) : s[i].does = "close" => p[i] \in 1..Len(r) /\ r[p[i]] = s[i]
  /\ \A i \in 1..Len(r) : r[i].does = "close" => q[i] \in 1..Len(s) /\ s[q[i]] = r[i]
  /\ \A i, j \in 1..Len(r) : r[i].does = "close" /\ r[j].does = "close" =>
       /\ q[i] = q[j] => i = j
       /\ q[i] < q[j] => i < j

LEMMA LikeMapped ==
  ASSUME NEW s, NEW r, NEW p, NEW q, Mapped(r, s, p, q)
  PROVE  Like(r, s)
<1>0. /\ \A i \in 1..Len(s) : s[i].does = "close" => p[i] \in 1..Len(r) /\ r[p[i]] = s[i]
      /\ \A i \in 1..Len(r) : r[i].does = "close" => q[i] \in 1..Len(s) /\ s[q[i]] = r[i]
      /\ \A i, j \in 1..Len(r) : r[i].does = "close" /\ r[j].does = "close" =>
           /\ q[i] = q[j] => i = j
           /\ q[i] < q[j] => i < j
  BY DEF Mapped
<1>1. ASSUME NEW k \in Nat PROVE Has(r, k) <=> Has(s, k)
  <2>1. ASSUME NEW i \in 1..Len(r), r[i] = Closing(k) PROVE Has(s, k)
    <3>1. r[i].does = "close"
      BY <2>1, ClosingCall
    <3> QED BY <1>0, <2>1, <3>1 DEF Has, Contains
  <2>2. ASSUME NEW i \in 1..Len(s), s[i] = Closing(k) PROVE Has(r, k)
    <3>1. s[i].does = "close"
      BY <2>2, ClosingCall
    <3> QED BY <1>0, <2>2, <3>1 DEF Has, Contains
  <2> QED BY <2>1, <2>2 DEF Has, Contains
<1>2. ASSUME Once(s), NEW i \in 1..Len(r), NEW j \in 1..Len(r), NEW k \in Nat, r[i] = Closing(k), r[j] = Closing(k)
      PROVE  i = j
  <2>0. r[i].does = "close" /\ r[j].does = "close"
    BY <1>2, ClosingCall
  <2>1. q[i] \in 1..Len(s) /\ s[q[i]] = r[i] /\ q[j] \in 1..Len(s) /\ s[q[j]] = r[j]
    BY <1>0, <2>0
  <2>2. q[i] = q[j]
    BY <1>2, <2>1 DEF Once
  <2> QED BY <1>0, <2>0, <2>2
<1>3. ASSUME NEW k \in Nat, NEW m \in Nat, Ordered(s, k, m),
             NEW i \in 1..Len(r), NEW j \in 1..Len(r), r[i] = Closing(k), r[j] = Closing(m) PROVE i < j
  <2>1. r[i].does = "close" /\ r[j].does = "close"
    BY <1>3, ClosingCall
  <2>2. q[i] \in 1..Len(s) /\ s[q[i]] = Closing(k) /\ q[j] \in 1..Len(s) /\ s[q[j]] = Closing(m)
    BY <1>0, <1>3, <2>1
  <2>3. q[i] < q[j]
    BY <1>3, <2>2 DEF Ordered
  <2> QED BY <1>0, <2>1, <2>3
<1>4. Once(s) => Once(r)
  BY <1>2 DEF Once
<1>5. ASSUME NEW k \in Nat, NEW m \in Nat, Ordered(s, k, m) PROVE Ordered(r, k, m)
  <2> SUFFICES ASSUME NEW i \in 1..Len(r), NEW j \in 1..Len(r), r[i] = Closing(k), r[j] = Closing(m) PROVE i < j
    BY DEF Ordered
  <2> QED BY <1>3, <1>5
<1> QED BY <1>1, <1>4, <1>5 DEF Like

\* Adding a call that is no action.
LEMMA LikeAppend ==
  ASSUME NEW s \in Seq(CallSet), NEW x \in CallSet, x.does # "close"
  PROVE  Like(Append(s, x), s)
<1> DEFINE r == Append(s, x)
           p == [i \in Nat |-> i]
<1>1. Len(r) = Len(s) + 1 /\ r[Len(s) + 1] = x /\ \A i \in 1..Len(s) : r[i] = s[i]
  OBVIOUS
<1>2. Len(s) \in Nat
  OBVIOUS
<1> HIDE DEF r
<1>3. \A i \in 1..Len(s) : i \in 1..Len(r) /\ p[i] = i
  BY <1>1, <1>2
<1>4. \A i \in 1..Len(r) : p[i] = i /\ i \in Nat /\ (r[i].does = "close" => i \in 1..Len(s))
  <2> SUFFICES ASSUME NEW i \in 1..Len(r) PROVE p[i] = i /\ i \in Nat /\ (r[i].does = "close" => i \in 1..Len(s))
    OBVIOUS
  <2>1. i \in 1..Len(s) \/ i = Len(s) + 1
    BY <1>1, <1>2
  <2>2. i \in Nat
    BY <1>1, <1>2
  <2> QED BY <1>1, <2>1, <2>2
<1> HIDE DEF p
<1>5. Mapped(r, s, p, p)
  BY <1>1, <1>3, <1>4 DEF Mapped
<1>6. Like(r, s)
  BY <1>5, LikeMapped
<1> QED BY <1>6 DEF r

\* calls that are no actions, in the place of one that is none.
LEMMA LikeJoin ==
  ASSUME NEW s \in Seq(CallSet), s # <<>>, s[1].does # "close", NEW calls \in Seq(CallSet), NoClose(calls)
  PROVE  Like(calls \o Tail(s), s)
<1> DEFINE r == calls \o Tail(s)
           d == Len(calls) - 1
           p == [i \in Nat |-> i + d]
           q == [i \in Nat |-> i - d]
<1>1. /\ Len(r) = Len(calls) + Len(s) - 1 /\ Len(calls) \in Nat /\ Len(s) \in Nat /\ Len(s) >= 1
      /\ \A i \in 1..Len(calls) : r[i] = calls[i]
      /\ \A i \in (Len(calls) + 1)..Len(r) : r[i] = s[i - Len(calls) + 1] /\ i - Len(calls) + 1 \in 2..Len(s)
      /\ \A i \in 2..Len(s) : r[i + Len(calls) - 1] = s[i] /\ i + Len(calls) - 1 \in (Len(calls) + 1)..Len(r)
  BY InPlace
<1> HIDE DEF r
<1>2. ASSUME NEW i \in 1..Len(s), s[i].does = "close" PROVE p[i] \in 1..Len(r) /\ r[p[i]] = s[i]
  <2>1. i \in 2..Len(s) /\ i \in Nat
    BY <1>1, <1>2
  <2>2. p[i] = i + Len(calls) - 1
    BY <1>1, <2>1
  <2>3. p[i] \in (Len(calls) + 1)..Len(r) /\ r[p[i]] = s[i]
    BY <1>1, <2>1, <2>2
  <2>4. \A a \in (Len(calls) + 1)..Len(r) : a \in 1..Len(r)
    BY <1>1
  <2> QED BY <2>3, <2>4
<1>3. ASSUME NEW i \in 1..Len(r), r[i].does = "close"
      PROVE  q[i] = i - Len(calls) + 1 /\ i \in Nat /\ q[i] \in 1..Len(s) /\ s[q[i]] = r[i]
  <2>1. i \in Nat /\ (i \in 1..Len(calls) \/ i \in (Len(calls) + 1)..Len(r))
    BY <1>1
  <2>2. i \in (Len(calls) + 1)..Len(r)
    BY <1>1, <1>3, <2>1 DEF NoClose
  <2>3. q[i] = i - Len(calls) + 1
    BY <1>1, <2>1
  <2>4. q[i] \in 2..Len(s) /\ s[q[i]] = r[i]
    BY <1>1, <2>2, <2>3
  <2> QED BY <1>1, <2>1, <2>3, <2>4
<1>4. ASSUME NEW i \in 1..Len(r), NEW j \in 1..Len(r), r[i].does = "close", r[j].does = "close"
      PROVE  (q[i] = q[j] => i = j) /\ (q[i] < q[j] => i < j)
  <2>1. q[i] = i - Len(calls) + 1 /\ q[j] = j - Len(calls) + 1 /\ i \in Nat /\ j \in Nat
    BY <1>3, <1>4
  <2> QED BY <1>1, <2>1
<1> HIDE DEF p, q, d
<1>5. Like(r, s)
  <2>1. \A i \in 1..Len(s) : s[i].does = "close" => p[i] \in 1..Len(r) /\ r[p[i]] = s[i]
    BY <1>2
  <2>2. \A i \in 1..Len(r) : r[i].does = "close" => q[i] \in 1..Len(s) /\ s[q[i]] = r[i]
    BY <1>3
  <2>3. Mapped(r, s, p, q)
    BY <1>4, <2>1, <2>2 DEF Mapped
  <2> QED BY <2>3, LikeMapped
<1> QED BY <1>5 DEF r

\* r is s without what is at p.
Dropped(r, s, p) ==
  /\ r \in Seq(CallSet) /\ s \in Seq(CallSet) /\ p \in 1..Len(s) /\ Len(r) = Len(s) - 1
  /\ \A i \in 1..(p - 1) : r[i] = s[i]
  /\ \A i \in p..(Len(s) - 1) : r[i] = s[i + 1]

LEMMA DropFacts ==
  ASSUME NEW s, NEW r, NEW p, Dropped(r, s, p)
  PROVE  /\ Once(s) => Once(r)
         /\ \A k, m : Ordered(s, k, m) => Ordered(r, k, m)
         /\ \A k : Has(r, k) => Has(s, k)
         /\ \A k : Has(s, k) /\ s[p] # Closing(k) => Has(r, k)
         /\ \A k \in Nat : Once(s) /\ s[p] = Closing(k) => ~Has(r, k)
<1> DEFINE q == [i \in Nat |-> IF i < p THEN i ELSE i + 1]
<1>1. Len(s) \in Nat /\ p \in 1..Len(s) /\ p \in Nat /\ Len(r) = Len(s) - 1
  BY DEF Dropped
<1>2. ASSUME NEW i \in 1..Len(r) PROVE i \in Nat /\ q[i] \in 1..Len(s) /\ s[q[i]] = r[i] /\ q[i] # p
  <2>1. i \in Nat /\ (i \in 1..(p - 1) \/ i \in p..(Len(s) - 1))
    BY <1>1
  <2>2. CASE i \in 1..(p - 1)
    <3>1. q[i] = i /\ i \in 1..Len(s) /\ i # p
      BY <1>1, <2>1, <2>2
    <3>2. r[i] = s[i]
      BY <2>2 DEF Dropped
    <3> QED BY <2>1, <3>1, <3>2
  <2>3. CASE i \in p..(Len(s) - 1)
    <3>1. q[i] = i + 1 /\ i + 1 \in 1..Len(s) /\ i + 1 # p
      BY <1>1, <2>1, <2>3
    <3>2. r[i] = s[i + 1]
      BY <2>3 DEF Dropped
    <3> QED BY <2>1, <3>1, <3>2
  <2> QED BY <2>1, <2>2, <2>3
<1>3. \A i, j \in Nat : (q[i] = q[j] => i = j) /\ (q[i] < q[j] => i < j)
  <2> SUFFICES ASSUME NEW i \in Nat, NEW j \in Nat PROVE (q[i] = q[j] => i = j) /\ (q[i] < q[j] => i < j)
    OBVIOUS
  <2>1. q[i] = (IF i < p THEN i ELSE i + 1) /\ q[j] = (IF j < p THEN j ELSE j + 1)
    OBVIOUS
  <2> HIDE DEF q
  <2> QED BY <1>1, <2>1
<1> HIDE DEF q
<1>4. ASSUME NEW i \in 1..Len(s), i # p PROVE \E j \in 1..Len(r) : r[j] = s[i]
  <2>1. i \in 1..(p - 1) \/ i - 1 \in p..(Len(s) - 1)
    BY <1>1, <1>4
  <2>2. CASE i \in 1..(p - 1)
    <3>1. i \in 1..Len(r) /\ r[i] = s[i]
      BY <1>1, <2>2 DEF Dropped
    <3> QED BY <3>1
  <2>3. CASE i - 1 \in p..(Len(s) - 1)
    <3>1. i - 1 \in 1..Len(r) /\ (i - 1) + 1 = i
      BY <1>1, <2>3
    <3>2. r[i - 1] = s[(i - 1) + 1]
      BY <2>3 DEF Dropped
    <3> QED BY <3>1, <3>2
  <2> QED BY <2>1, <2>2, <2>3
<1>5. ASSUME Once(s) PROVE Once(r)
  <2> SUFFICES ASSUME NEW i \in 1..Len(r), NEW j \in 1..Len(r), NEW k \in Nat,
                      r[i] = Closing(k), r[j] = Closing(k)
               PROVE  i = j
    BY DEF Once
  <2>1. q[i] = q[j]
    BY <1>2, <1>5 DEF Once
  <2> QED BY <1>2, <1>3, <2>1
<1>6. ASSUME NEW k, NEW m, Ordered(s, k, m) PROVE Ordered(r, k, m)
  <2> SUFFICES ASSUME NEW i \in 1..Len(r), NEW j \in 1..Len(r), r[i] = Closing(k), r[j] = Closing(m) PROVE i < j
    BY DEF Ordered
  <2>1. q[i] < q[j]
    BY <1>2, <1>6 DEF Ordered
  <2> QED BY <1>2, <1>3, <2>1
<1>7. ASSUME NEW k, Has(r, k) PROVE Has(s, k)
  BY <1>2, <1>7 DEF Has, Contains
<1>8. ASSUME NEW k, Has(s, k), s[p] # Closing(k) PROVE Has(r, k)
  BY <1>4, <1>8 DEF Has, Contains
<1>9. ASSUME NEW k \in Nat, Once(s), s[p] = Closing(k), Has(r, k) PROVE FALSE
  <2>1. PICK i \in 1..Len(r) : r[i] = Closing(k)
    BY <1>9 DEF Has, Contains
  <2>2. s[q[i]] = Closing(k) /\ q[i] # p /\ q[i] \in 1..Len(s)
    BY <1>2, <1>9, <2>1, ClosingCall
  <2> QED BY <1>1, <1>9, <2>2 DEF Once
<1> QED BY <1>5, <1>6, <1>7, <1>8, <1>9

LEMMA WithoutDrops ==
  ASSUME NEW s \in Seq(CallSet), NEW a, Contains(s, a)
  PROVE  \E p \in 1..Len(s) : s[p] = a /\ Dropped(Without(s, a), s, p)
<1> DEFINE r == Without(s, a)
<1>1. r \in Seq(CallSet) /\ \E p \in 1..Len(s) :
                /\ s[p] = a /\ Len(r) = Len(s) - 1
                /\ \A i \in 1..(p - 1) : r[i] = s[i]
                /\ \A i \in p..(Len(s) - 1) : r[i] = s[i + 1]
  BY WithoutFacts
<1> HIDE DEF r
<1>2. \E p \in 1..Len(s) : s[p] = a /\ Dropped(r, s, p)
  BY <1>1 DEF Dropped
<1> QED BY <1>2 DEF r

\* Taking out a call that is no action.
LEMMA LikeWithout ==
  ASSUME NEW s \in Seq(CallSet), NEW a, a.does # "close"
  PROVE  Like(Without(s, a), s)
<1>1. CASE ~Contains(s, a)
  BY <1>1, WithoutFacts, LikeItself
<1>2. CASE Contains(s, a)
  <2>1. PICK p \in 1..Len(s) : s[p] = a /\ Dropped(Without(s, a), s, p)
    BY <1>2, WithoutDrops
  <2>2. \A k : s[p] # Closing(k)
    BY <2>1, ClosingCall
  <2> QED BY <2>1, <2>2, DropFacts DEF Like
<1> QED BY <1>1, <1>2

\* Taking out an action.
LEMMA TakenOut ==
  ASSUME NEW s \in Seq(CallSet), NEW k \in Nat, Has(s, k), Once(s), NEW r, r = Without(s, Closing(k))
  PROVE  /\ Once(r)
         /\ \A m : Has(r, m) <=> Has(s, m) /\ m # k
         /\ \A m, n : Ordered(s, m, n) => Ordered(r, m, n)
<1>1. PICK p \in 1..Len(s) : s[p] = Closing(k) /\ Dropped(r, s, p)
  BY WithoutDrops DEF Has
<1>2. \A m : m # k => s[p] # Closing(m)
  BY <1>1, ClosingCall
<1>3. ~Has(r, k)
  BY <1>1, DropFacts
<1>4. \A m : Has(r, m) <=> Has(s, m) /\ m # k
  BY <1>1, <1>2, <1>3, DropFacts
<1> QED BY <1>1, <1>4, DropFacts

\* The first call of s is an action, and is done.
LEMMA FirstDone ==
  ASSUME NEW s \in Seq(CallSet), s # <<>>, NEW k \in Nat, s[1] = Closing(k), Once(s), NEW r, r = <<>> \o Tail(s)
  PROVE  /\ Once(r)
         /\ \A m : Has(r, m) <=> Has(s, m) /\ m # k
         /\ \A m, n : Ordered(s, m, n) => Ordered(r, m, n)
         /\ Has(s, k)
         /\ \A m : Has(s, m) => ~Ordered(s, m, k)
<1>1. Tail(s) \in Seq(CallSet) /\ Len(Tail(s)) = Len(s) - 1 /\ Len(s) \in Nat /\ 1 \in 1..Len(s)
      /\ \A i \in 1..Len(Tail(s)) : Tail(s)[i] = s[i + 1]
  BY HeadOf
<1>2. r = Tail(s)
  BY <1>1
<1>3. Dropped(r, s, 1)
  BY <1>1, <1>2 DEF Dropped
<1>4. \A m : m # k => s[1] # Closing(m)
  BY ClosingCall
<1>5. Has(s, k)
  BY <1>1 DEF Has, Contains
<1>6. ~Has(r, k)
  BY <1>3, DropFacts
<1>7. \A m : Has(r, m) <=> Has(s, m) /\ m # k
  BY <1>3, <1>4, <1>6, DropFacts
<1>8. ASSUME NEW m, Has(s, m), Ordered(s, m, k) PROVE FALSE
  <2>1. PICK i \in 1..Len(s) : s[i] = Closing(m)
    BY <1>8 DEF Has, Contains
  <2>2. i < 1
    BY <1>1, <1>8, <2>1 DEF Ordered
  <2> QED BY <2>2
<1> QED BY <1>3, <1>5, <1>7, <1>8, DropFacts

\* An action is added.
LEMMA AddedLast ==
  ASSUME NEW s \in Seq(CallSet), NEW k \in Nat, ~Has(s, k), Once(s), NEW r, r = Append(s, Closing(k))
  PROVE  /\ Once(r)
         /\ \A m : Has(r, m) <=> Has(s, m) \/ m = k
         /\ \A m, n : Ordered(s, m, n) /\ m # k => Ordered(r, m, n)
         /\ \A n : ~Has(s, n) /\ n # k => Ordered(r, k, n)
<1>1. Len(r) = Len(s) + 1 /\ r[Len(s) + 1] = Closing(k) /\ (\A i \in 1..Len(s) : r[i] = s[i]) /\ Len(s) \in Nat
  BY ClosingCall
<1>2. \A i \in 1..Len(r) : i \in Nat /\ (i \in 1..Len(s) \/ i = Len(s) + 1)
  BY <1>1
<1>3. \A i \in 1..Len(s) : s[i] # Closing(k)
  BY DEF Has, Contains
<1>4. \A m : Has(r, m) <=> Has(s, m) \/ m = k
  <2>1. ASSUME NEW m, Has(r, m), m # k PROVE Has(s, m)
    BY <1>1, <1>2, <2>1, ClosingCall DEF Has, Contains
  <2>2. ASSUME NEW m, Has(s, m) PROVE Has(r, m)
    <3>1. PICK i \in 1..Len(s) : s[i] = Closing(m)
      BY <2>2 DEF Has, Contains
    <3>2. i \in 1..Len(r) /\ r[i] = Closing(m)
      BY <1>1, <3>1
    <3> QED BY <3>2 DEF Has, Contains
  <2>3. Has(r, k)
    <3>1. Len(s) + 1 \in 1..Len(r)
      BY <1>1
    <3> QED BY <1>1, <3>1 DEF Has, Contains
  <2> QED BY <2>1, <2>2, <2>3
<1>5. Once(r)
  <2> SUFFICES ASSUME NEW i \in 1..Len(r), NEW j \in 1..Len(r), NEW m \in Nat,
                      r[i] = Closing(m), r[j] = Closing(m)
               PROVE  i = j
    BY DEF Once
  <2>1. CASE i \in 1..Len(s) /\ j \in 1..Len(s)
    BY <1>1, <2>1 DEF Once
  <2>2. CASE i = Len(s) + 1 /\ j \in 1..Len(s)
    BY <1>1, <1>3, <2>2
  <2>3. CASE i \in 1..Len(s) /\ j = Len(s) + 1
    BY <1>1, <1>3, <2>3
  <2> QED BY <1>2, <2>1, <2>2, <2>3
<1>6. ASSUME NEW m, NEW n, Ordered(s, m, n), m # k PROVE Ordered(r, m, n)
  <2> SUFFICES ASSUME NEW i \in 1..Len(r), NEW j \in 1..Len(r), r[i] = Closing(m), r[j] = Closing(n) PROVE i < j
    BY DEF Ordered
  <2>1. i \in 1..Len(s)
    BY <1>1, <1>2, <1>6, ClosingCall
  <2>2. CASE j \in 1..Len(s)
    BY <1>1, <1>6, <2>1, <2>2 DEF Ordered
  <2>3. CASE j = Len(s) + 1
    BY <1>1, <2>1, <2>3
  <2> QED BY <1>2, <2>2, <2>3
<1>7. ASSUME NEW n, ~Has(s, n), n # k PROVE Ordered(r, k, n)
  <2>1. ~Has(r, n)
    BY <1>4, <1>7
  <2> QED BY <2>1 DEF Ordered, Has, Contains
<1> QED BY <1>4, <1>5, <1>6, <1>7

-----------------------------------------------------------------------------
(* Where the actions of the scheduler are: the second inductive invariant. *)

\* The actions a of a lifetime in the place of the call that took them, last first.
LEMMA TakenJoin ==
  ASSUME NEW s \in Seq(CallSet), s # <<>>, s[1].does # "close", NEW a \in Seq(CallSet),
         NEW r, r = Reverse(a) \o Tail(s)
  PROVE  /\ \A k : Has(r, k) <=> Has(a, k) \/ Has(s, k)
         /\ Once(a) /\ Once(s) /\ (\A k \in Nat : ~(Has(a, k) /\ Has(s, k))) => Once(r)
         /\ \A k, m : Ordered(a, m, k) /\ Ordered(s, k, m) /\ ~(Has(a, m) /\ Has(s, k)) => Ordered(r, k, m)
<1> DEFINE b == Reverse(a)
           n == Len(a)
<1>1. /\ b \in Seq(CallSet) /\ Len(b) = n /\ n \in Nat
      /\ \A i \in 1..n : b[i] = a[n - i + 1] /\ n - i + 1 \in 1..n
  BY ReverseFacts
<1>2. r = b \o Tail(s)
  OBVIOUS
<1> HIDE DEF b, n
<1>3. /\ Len(r) = n + Len(s) - 1 /\ Len(s) \in Nat /\ Len(s) >= 1
      /\ \A i \in 1..n : r[i] = b[i] /\ i \in 1..Len(r)
      /\ \A i \in (n + 1)..Len(r) : r[i] = s[i - n + 1] /\ i - n + 1 \in 2..Len(s)
      /\ \A i \in 2..Len(s) : r[i + n - 1] = s[i] /\ i + n - 1 \in (n + 1)..Len(r)
  BY <1>1, <1>2, InPlace
<1>4. ASSUME NEW i \in 1..n PROVE r[i] = a[n - i + 1] /\ n - i + 1 \in 1..n /\ i \in Nat
  <2>1. r[i] = b[i]
    BY <1>3
  <2>2. b[i] = a[n - i + 1] /\ n - i + 1 \in 1..n
    BY <1>1
  <2>3. i \in Nat
    BY <1>1
  <2> QED BY <2>1, <2>2, <2>3
<1>5. ASSUME NEW i \in (n + 1)..Len(r) PROVE r[i] = s[i - n + 1] /\ i - n + 1 \in 1..Len(s) /\ i \in Nat
  <2>1. i - n + 1 \in 2..Len(s) /\ r[i] = s[i - n + 1]
    BY <1>3
  <2> QED BY <1>1, <1>3, <2>1
<1>6. \A i \in 1..Len(r) : i \in 1..n \/ i \in (n + 1)..Len(r)
  BY <1>1, <1>3
<1>7. \A k : s[1] # Closing(k)
  BY ClosingCall
<1>8. n = Len(a)
  BY DEF n
<1>9. ASSUME NEW k PROVE Has(r, k) <=> Has(a, k) \/ Has(s, k)
  <2>1. ASSUME Has(r, k) PROVE Has(a, k) \/ Has(s, k)
    <3>1. PICK i \in 1..Len(r) : r[i] = Closing(k)
      BY <2>1 DEF Has, Contains
    <3>2. CASE i \in 1..n
      BY <1>4, <1>8, <3>1, <3>2 DEF Has, Contains
    <3>3. CASE i \in (n + 1)..Len(r)
      BY <1>5, <3>1, <3>3 DEF Has, Contains
    <3> QED BY <1>6, <3>2, <3>3
  <2>2. ASSUME Has(a, k) PROVE Has(r, k)
    <3>1. PICK i \in 1..n : a[i] = Closing(k)
      BY <1>8, <2>2 DEF Has, Contains
    <3>2. n - i + 1 \in 1..n /\ n - (n - i + 1) + 1 = i
      BY <1>1
    <3>3. r[n - i + 1] = Closing(k) /\ n - i + 1 \in 1..Len(r)
      BY <1>3, <1>4, <3>1, <3>2
    <3> QED BY <3>3 DEF Has, Contains
  <2>3. ASSUME Has(s, k) PROVE Has(r, k)
    <3>1. PICK i \in 1..Len(s) : s[i] = Closing(k)
      BY <2>3 DEF Has, Contains
    <3>2. i \in 2..Len(s)
      BY <1>3, <1>7, <3>1
    <3>3. r[i + n - 1] = Closing(k) /\ i + n - 1 \in (n + 1)..Len(r)
      BY <1>3, <3>1, <3>2
    <3>4. i + n - 1 \in 1..Len(r)
      BY <1>1, <1>3, <3>3
    <3> QED BY <3>3, <3>4 DEF Has, Contains
  <2> QED BY <2>1, <2>2, <2>3
<1>10. ASSUME Once(a), Once(s), \A k \in Nat : ~(Has(a, k) /\ Has(s, k)) PROVE Once(r)
  <2> SUFFICES ASSUME NEW i \in 1..Len(r), NEW j \in 1..Len(r), NEW k \in Nat, r[i] = Closing(k), r[j] = Closing(k)
               PROVE  i = j
    BY DEF Once
  <2>1. CASE i \in 1..n /\ j \in 1..n
    <3>2. n - i + 1 \in 1..Len(a) /\ n - j + 1 \in 1..Len(a) /\ a[n - i + 1] = Closing(k) /\ a[n - j + 1] = Closing(k)
      BY <1>4, <1>8, <2>1
    <3>1. n - i + 1 = n - j + 1
      BY <1>10, <3>2 DEF Once
    <3> QED BY <1>1, <1>4, <2>1, <3>1
  <2>2. CASE i \in (n + 1)..Len(r) /\ j \in (n + 1)..Len(r)
    <3>2. i - n + 1 \in 1..Len(s) /\ j - n + 1 \in 1..Len(s) /\ s[i - n + 1] = Closing(k) /\ s[j - n + 1] = Closing(k)
      BY <1>5, <2>2
    <3>1. i - n + 1 = j - n + 1
      BY <1>10, <3>2 DEF Once
    <3> QED BY <1>1, <1>5, <2>2, <3>1
  <2>3. ~(i \in 1..n /\ j \in (n + 1)..Len(r))
    <3>1. i \in 1..n => Has(a, k)
      BY <1>4, <1>8 DEF Has, Contains
    <3>2. j \in (n + 1)..Len(r) => Has(s, k)
      BY <1>5 DEF Has, Contains
    <3> QED BY <1>10, <3>1, <3>2
  <2>4. ~(j \in 1..n /\ i \in (n + 1)..Len(r))
    <3>1. j \in 1..n => Has(a, k)
      BY <1>4, <1>8 DEF Has, Contains
    <3>2. i \in (n + 1)..Len(r) => Has(s, k)
      BY <1>5 DEF Has, Contains
    <3> QED BY <1>10, <3>1, <3>2
  <2> QED BY <1>6, <2>1, <2>2, <2>3, <2>4
<1>11. ASSUME NEW k, NEW m, Ordered(a, m, k), Ordered(s, k, m), ~(Has(a, m) /\ Has(s, k)) PROVE Ordered(r, k, m)
  <2> SUFFICES ASSUME NEW i \in 1..Len(r), NEW j \in 1..Len(r), r[i] = Closing(k), r[j] = Closing(m) PROVE i < j
    BY DEF Ordered
  <2>1. CASE i \in 1..n /\ j \in 1..n
    <3>2. /\ n - i + 1 \in 1..Len(a) /\ a[n - i + 1] = Closing(k)
          /\ n - j + 1 \in 1..Len(a) /\ a[n - j + 1] = Closing(m)
      BY <1>4, <1>8, <2>1
    <3>1. n - j + 1 < n - i + 1
      BY <1>11, <3>2 DEF Ordered
    <3> QED BY <1>1, <1>4, <2>1, <3>1
  <2>2. CASE i \in (n + 1)..Len(r) /\ j \in (n + 1)..Len(r)
    <3>1. i - n + 1 < j - n + 1
      BY <1>5, <1>11, <2>2 DEF Ordered
    <3> QED BY <1>1, <1>5, <2>2, <3>1
  <2>3. CASE i \in 1..n /\ j \in (n + 1)..Len(r)
    BY <1>1, <2>3
  <2>4. ~(j \in 1..n /\ i \in (n + 1)..Len(r))
    <3>1. j \in 1..n => Has(a, m)
      BY <1>4, <1>8 DEF Has, Contains
    <3>2. i \in (n + 1)..Len(r) => Has(s, k)
      BY <1>5 DEF Has, Contains
    <3> QED BY <1>11, <3>1, <3>2
  <2> QED BY <1>6, <2>1, <2>2, <2>3, <2>4
<1> QED BY <1>9, <1>10, <1>11


\* Where the actions of the scheduler are.
In(l, k) == Has(actions[l], k)
On(t, k) == Has(todo[t], k)
Ran(k) == Contains(ran, k)

\* An accepted action is in one place, once.
PlaceInv ==
  /\ \A l \in Lifetime : Once(actions[l])
  /\ \A t \in Threads : Once(todo[t])
  /\ \A k \in Nat : k \in accepted <=>
       \/ \E l \in Lifetime : In(l, k)
       \/ \E t \in Threads : On(t, k)
       \/ Ran(k) \/ k \in removed
  /\ \A k \in Nat : \A t, u \in Threads : On(t, k) /\ On(u, k) => t = u
  /\ \A k \in Nat : \A l \in Lifetime : In(l, k) => ~Ran(k) /\ k \notin removed /\ \A t \in Threads : ~On(t, k)
  /\ \A k \in Nat : \A t \in Threads : On(t, k) => ~Ran(k) /\ k \notin removed
  /\ \A k \in Nat : ~(Ran(k) /\ k \in removed)
  /\ \A i, j \in 1..Len(ran) : ran[i] = ran[j] => i = j
  /\ removed \subseteq Nat /\ ran \in Seq(Nat) /\ accepted \subseteq Nat

\* It was added to the lifetime it was for.
HomeInv ==
  \A l \in Lifetime : \A k \in Nat : In(l, k) =>
    l # Eternal /\ \E i \in 1..used : k \in {Bracket(i), Plain(i)} /\ l = handed[i]

\* A bracket is added before, and closed after, the plain action of the same lifetime.
OrderOf(i) ==
  LET b == Bracket(i)  p == Plain(i) IN
  /\ b \in accepted /\ (\A l \in Lifetime : ~In(l, b)) => i \in 1..used /\ terminated[handed[i]]
  /\ \A l \in Lifetime : Ordered(actions[l], b, p) /\ (In(l, p) /\ b \in accepted => In(l, b))
  /\ \A t \in Threads : Ordered(todo[t], p, b) /\ (On(t, p) /\ b \in accepted => On(t, b))
  /\ Ran(b) /\ p \in accepted \ removed => \E g, h \in 1..Len(ran) : g < h /\ ran[g] = p /\ ran[h] = b

OrderInv == \A i \in Nat : OrderOf(i)

AccountInv == PlaceInv /\ HomeInv /\ OrderInv

-----------------------------------------------------------------------------
(* Steps that leave them where they are.                                   *)

\* A step that leaves the scheduler's actions where they are.
Quiet ==
  /\ UNCHANGED <<ran, accepted, removed>>
  /\ \A l \in Lifetime : Like(actions'[l], actions[l])
  /\ \A t \in Threads : Like(todo'[t], todo[t])

\* The scheduler goes on in the lifetimes it was handed.
LEMMA HandedStays ==
  ASSUME LifetimeInv, [Next]_vars
  PROVE  /\ used \in Nat /\ \A i \in 1..used : i \in 1..used' /\ handed'[i] = handed[i] /\ handed[i] \in Lifetime
         /\ Lifetime' = Lifetime /\ Threads' = Threads
<1>1. used \in 0..Len(handed) /\ handed \in Seq({Eternal} \cup Made) /\ current_def \in {Eternal} \cup Made
  BY DEF LifetimeInv, Types, Current
<1>2. used' = used \/ used' = used + 1
  BY DEF Next, Step, vars, Set, Use, Shutdown, Terminate, Take, Erase, Tear, Close, Attach, Return,
     AttachBack, Swap, WriteCurrent, Before, Change, Open, Add, RemoveAction
<1>3. handed' = handed \/ handed' = Append(handed, current_def)
  BY DEF Next, Step, vars, Set, Use, Shutdown, Terminate, Take, Erase, Tear, Close, Attach, Return,
     AttachBack, Swap, WriteCurrent, Before, Change, Open, Add, RemoveAction
<1>4. \A i \in 1..Len(handed) : handed'[i] = handed[i]
  BY <1>1, <1>3
<1>5. \A i \in 1..Len(handed) : handed[i] \in {Eternal} \cup Made
  BY <1>1
<1>6. \A l \in {Eternal} \cup Made : l \in Lifetime
  <2>1. Made \subseteq Lifetime /\ Eternal \in Lifetime
    BY Basics, Numbers DEF LifetimeInv
  <2> QED BY <2>1
<1>7. used \in Nat /\ used <= Len(handed) /\ Len(handed) \in Nat
  BY <1>1
<1>8. \A i \in 1..used : i \in 1..Len(handed) /\ i \in 1..used'
  BY <1>2, <1>7
<1> QED BY <1>4, <1>5, <1>6, <1>7, <1>8 DEF Lifetime, Threads

LEMMA QuietPlaces ==
  ASSUME LifetimeInv, AccountInv, [Next]_vars, Quiet
  PROVE  PlaceInv'
<1>0. PlaceInv /\ Lifetime' = Lifetime /\ Threads' = Threads /\ UNCHANGED <<ran, accepted, removed>>
  BY HandedStays DEF AccountInv, Quiet
<1>1. \A l \in Lifetime : \A k \in Nat : In(l, k)' <=> In(l, k)
  BY <1>0 DEF Quiet, Like, In, Has
<1>2. \A t \in Threads : \A k \in Nat : On(t, k)' <=> On(t, k)
  BY <1>0 DEF Quiet, Like, On, Has
<1>3. \A k : Ran(k)' <=> Ran(k)
  BY <1>0 DEF Ran
<1>4. \A l \in Lifetime : Once(actions'[l])
  BY <1>0 DEF Quiet, Like, PlaceInv
<1>5. \A t \in Threads : Once(todo'[t])
  BY <1>0 DEF Quiet, Like, PlaceInv
<1>6. \A k \in Nat : k \in accepted <=>
       \/ \E l \in Lifetime : In(l, k)'
       \/ \E t \in Threads : On(t, k)'
       \/ Ran(k)' \/ k \in removed
  <2> SUFFICES ASSUME NEW k \in Nat PROVE k \in accepted <=>
       \/ \E l \in Lifetime : In(l, k)'
       \/ \E t \in Threads : On(t, k)'
       \/ Ran(k)' \/ k \in removed
    OBVIOUS
  <2>1. k \in accepted <=>
       \/ \E l \in Lifetime : In(l, k)
       \/ \E t \in Threads : On(t, k)
       \/ Ran(k) \/ k \in removed
    BY <1>0 DEF PlaceInv
  <2>2. (\E l \in Lifetime : In(l, k)') <=> \E l \in Lifetime : In(l, k)
    BY <1>1
  <2>3. (\E t \in Threads : On(t, k)') <=> \E t \in Threads : On(t, k)
    BY <1>2
  <2> QED BY <1>3, <2>1, <2>2, <2>3
<1>7. \A k \in Nat : \A t, u \in Threads : On(t, k)' /\ On(u, k)' => t = u
  BY <1>0, <1>2 DEF PlaceInv
<1>8. \A k \in Nat : \A l \in Lifetime : In(l, k)' => ~Ran(k)' /\ k \notin removed /\ \A t \in Threads : ~On(t, k)'
  BY <1>0, <1>1, <1>2, <1>3 DEF PlaceInv
<1>9. \A k \in Nat : \A t \in Threads : On(t, k)' => ~Ran(k)' /\ k \notin removed
  BY <1>0, <1>2, <1>3 DEF PlaceInv
<1>10. /\ \A k \in Nat : ~(Ran(k)' /\ k \in removed)
       /\ \A i, j \in 1..Len(ran) : ran[i] = ran[j] => i = j
       /\ removed \subseteq Nat /\ ran \in Seq(Nat) /\ accepted \subseteq Nat
  BY <1>0, <1>3 DEF PlaceInv
<1> QED BY <1>0, <1>4, <1>5, <1>6, <1>7, <1>8, <1>9, <1>10 DEF PlaceInv

\* A lifetime's actions stay in it, or leave it.
LEMMA HomeKept ==
  ASSUME LifetimeInv, AccountInv, [Next]_vars, \A l \in Lifetime : \A k \in Nat : In(l, k)' => In(l, k)
  PROVE  HomeInv'
<1>1. HomeInv /\ Lifetime' = Lifetime
  BY HandedStays DEF AccountInv
<1>2. ASSUME NEW l \in Lifetime, NEW k \in Nat, In(l, k)'
      PROVE  l # Eternal /\ \E i \in 1..used' : k \in {Bracket(i), Plain(i)} /\ l = handed'[i]
  <2>1. l # Eternal /\ \E i \in 1..used : k \in {Bracket(i), Plain(i)} /\ l = handed[i]
    BY <1>1, <1>2 DEF HomeInv
  <2> QED BY <2>1, HandedStays
<1> QED BY <1>1, <1>2 DEF HomeInv

LEMMA QuietOrder ==
  ASSUME LifetimeInv, AccountInv, [Next]_vars, Quiet, NEW i \in Nat
  PROVE  OrderOf(i)'
<1> DEFINE b == Bracket(i)
           p == Plain(i)
<1>0. b \in Nat /\ p \in Nat /\ Lifetime' = Lifetime /\ Threads' = Threads /\ UNCHANGED <<ran, accepted, removed>>
  BY HandedStays, Counted DEF Quiet
<1>1. /\ b \in accepted /\ (\A l \in Lifetime : ~In(l, b)) => i \in 1..used /\ terminated[handed[i]]
      /\ \A l \in Lifetime : Ordered(actions[l], b, p) /\ (In(l, p) /\ b \in accepted => In(l, b))
      /\ \A t \in Threads : Ordered(todo[t], p, b) /\ (On(t, p) /\ b \in accepted => On(t, b))
      /\ Ran(b) /\ p \in accepted \ removed => \E g, h \in 1..Len(ran) : g < h /\ ran[g] = p /\ ran[h] = b
  BY DEF AccountInv, OrderInv, OrderOf
<1> HIDE DEF b, p
<1>2. \A l \in Lifetime : /\ In(l, b)' <=> In(l, b)
                          /\ In(l, p)' <=> In(l, p)
                          /\ Ordered(actions[l], b, p) => Ordered(actions'[l], b, p)
  BY <1>0 DEF Quiet, Like, In, Has
<1>3. \A t \in Threads : /\ On(t, b)' <=> On(t, b)
                         /\ On(t, p)' <=> On(t, p)
                         /\ Ordered(todo[t], p, b) => Ordered(todo'[t], p, b)
  BY <1>0 DEF Quiet, Like, On, Has
<1>4. i \in 1..used /\ terminated[handed[i]] => i \in 1..used' /\ terminated'[handed'[i]]
  BY HandedStays, TypesStep DEF Lasting
<1>5. b \in accepted /\ (\A l \in Lifetime : ~In(l, b)') => i \in 1..used' /\ terminated'[handed'[i]]
  BY <1>1, <1>2, <1>4
<1>6. \A l \in Lifetime : Ordered(actions'[l], b, p) /\ (In(l, p)' /\ b \in accepted => In(l, b)')
  BY <1>1, <1>2
<1>7. \A t \in Threads : Ordered(todo'[t], p, b) /\ (On(t, p)' /\ b \in accepted => On(t, b)')
  BY <1>1, <1>3
<1>8. Ran(b)' <=> Ran(b)
  BY <1>0 DEF Ran
<1> QED BY <1>0, <1>1, <1>5, <1>6, <1>7, <1>8 DEF OrderOf, b, p

LEMMA QuietStep ==
  ASSUME LifetimeInv, AccountInv, [Next]_vars, Quiet
  PROVE  AccountInv'
<1>1. \A l \in Lifetime : \A k \in Nat : In(l, k)' => In(l, k)
  BY DEF Quiet, Like, In, Has
<1>2. OrderInv'
  BY QuietOrder DEF OrderInv
<1> QED BY <1>1, <1>2, QuietPlaces, HomeKept DEF AccountInv

\* The two parts of Quiet.
LikeTodo == \A t \in Threads : Like(todo'[t], todo[t])
LikeActions == \A l \in Lifetime : Like(actions'[l], actions[l])

\* A thread makes calls in the place of one.
LEMMA JoinQuiet ==
  ASSUME LifetimeInv, NEW t \in Threads, NEW d, d # "close", At(t, d),
         NEW calls \in Seq(CallSet), NoClose(calls), Calls(t, calls)
  PROVE  LikeTodo
<1>1. Types /\ todo[t] # <<>> /\ todo[t] \in Seq(CallSet) /\ Head(todo[t]).does = d
  BY Basics DEF LifetimeInv, At
<1>2. todo'[t] = calls \o Tail(todo[t]) /\ \A u \in Threads : u # t => todo'[u] = todo[u]
  BY <1>1, CallsMade
<1>3. todo[t][1].does # "close"
  BY <1>1, HeadOf
<1>4. Like(todo'[t], todo[t])
  BY <1>1, <1>2, <1>3, LikeJoin
<1>5. \A u \in Threads : Like(todo'[u], todo[u])
  BY <1>2, <1>4, LikeItself
<1> QED BY <1>5 DEF LikeTodo

\* A thread with no action to run drops its calls.
LEMMA ThrowQuiet ==
  ASSUME LifetimeInv, NEW t \in Threads, NoClose(todo[t]),
         NEW calls \in Seq(CallSet), NoClose(calls), Throws(t, calls)
  PROVE  LikeTodo
<1>1. Types
  BY DEF LifetimeInv
<1>2. todo'[t] = calls /\ \A u \in Threads : u # t => todo'[u] = todo[u]
  BY <1>1, Thrown
<1>3. \A u \in Threads : Like(todo'[u], todo[u])
  BY <1>2, LikeNone, LikeItself
<1> QED BY <1>3 DEF LikeTodo

LEMMA NoCloses ==
  /\ NoClose(<<>>)
  /\ \A a \in CallSet : a.does # "close" => NoClose(<<a>>)
  /\ \A a, b \in CallSet : a.does # "close" /\ b.does # "close" => NoClose(<<a, b>>)
  /\ \A a, b, c \in CallSet : a.does # "close" /\ b.does # "close" /\ c.does # "close" => NoClose(<<a, b, c>>)
  /\ \A a, b, c, d \in CallSet :
       a.does # "close" /\ b.does # "close" /\ c.does # "close" /\ d.does # "close" => NoClose(<<a, b, c, d>>)
<1>1. NoClose(<<>>)
  BY DEF NoClose
<1>2. \A a \in CallSet : a.does # "close" => NoClose(<<a>>)
  BY DEF NoClose
<1>3. \A a, b \in CallSet : a.does # "close" /\ b.does # "close" => NoClose(<<a, b>>)
  <2> TAKE a \in CallSet, b \in CallSet
  <2> DEFINE s == <<a, b>>
  <2>1. Len(s) = 2 /\ s[1] = a /\ s[2] = b
    OBVIOUS
  <2> HIDE DEF s
  <2>2. a.does # "close" /\ b.does # "close" => NoClose(s)
    BY <2>1 DEF NoClose
  <2> QED BY <2>2 DEF s
<1>4. \A a, b, c \in CallSet : a.does # "close" /\ b.does # "close" /\ c.does # "close" => NoClose(<<a, b, c>>)
  <2> TAKE a \in CallSet, b \in CallSet, c \in CallSet
  <2> DEFINE s == <<a, b, c>>
  <2>1. Len(s) = 3 /\ s[1] = a /\ s[2] = b /\ s[3] = c
    OBVIOUS
  <2> HIDE DEF s
  <2>2. \A i \in 1..3 : i = 1 \/ i = 2 \/ i = 3
    OBVIOUS
  <2>3. a.does # "close" /\ b.does # "close" /\ c.does # "close" => NoClose(s)
    BY <2>1, <2>2 DEF NoClose
  <2> QED BY <2>3 DEF s
<1>5. \A a, b, c, d \in CallSet :
       a.does # "close" /\ b.does # "close" /\ c.does # "close" /\ d.does # "close" => NoClose(<<a, b, c, d>>)
  <2> TAKE a \in CallSet, b \in CallSet, c \in CallSet, d \in CallSet
  <2> DEFINE s == <<a, b, c, d>>
  <2>1. Len(s) = 4 /\ s[1] = a /\ s[2] = b /\ s[3] = c /\ s[4] = d
    OBVIOUS
  <2> HIDE DEF s
  <2>2. \A i \in 1..4 : i = 1 \/ i = 2 \/ i = 3 \/ i = 4
    OBVIOUS
  <2>3. a.does # "close" /\ b.does # "close" /\ c.does # "close" /\ d.does # "close" => NoClose(s)
    BY <2>1, <2>2 DEF NoClose
  <2> QED BY <2>3 DEF s
<1> QED BY <1>1, <1>2, <1>3, <1>4, <1>5

LEMMA SchedulerRunsNone ==
  ASSUME LifetimeInv
  PROVE  NoClose(todo["scheduler"])
<1> DEFINE a == Do("bracket", used)
           b == Do("closing", used)
           c == Do("plain", used)
           d == Do("remove", used)
<1>1. a.does = "bracket" /\ b.does = "closing" /\ c.does = "plain" /\ d.does = "remove"
  BY DEF Do
<1>2. used \in Nat
  BY DEF LifetimeInv, Types
<1>3. a \in CallSet /\ b \in CallSet /\ c \in CallSet /\ d \in CallSet
  BY <1>2, Known
<1>4. todo["scheduler"] \in {<<>>, <<d>>, <<c>>, <<c, d>>, <<a, c>>, <<a, c, d>>, <<b, c>>, <<b, c, d>>}
  BY DEF LifetimeInv, SchedInv
<1> HIDE DEF a, b, c, d
<1>5. NoClose(<<>>) /\ NoClose(<<d>>) /\ NoClose(<<c>>) /\ NoClose(<<c, d>>)
  BY <1>1, <1>3, NoCloses
<1>6. NoClose(<<a, c>>) /\ NoClose(<<b, c>>)
  BY <1>1, <1>3, NoCloses
<1>7. NoClose(<<a, c, d>>) /\ NoClose(<<b, c, d>>)
  BY <1>1, <1>3, NoCloses
<1> QED BY <1>4, <1>5, <1>6, <1>7

LEMMA NestsRunNone ==
  ASSUME LifetimeInv, WireNests
  PROVE  NoClose(wire)
<1> DEFINE a == Do("attach", created)
           b == Do("attach_back", created)
           c == Do("swap", created)
           d == ReturnCall
           e == Write(created, Eternal)
<1>1. a.does = "attach" /\ b.does = "attach_back" /\ c.does = "swap" /\ d.does = "return" /\ e.does = "write"
  BY DEF Do, ReturnCall, Write
<1>2. a \in CallSet /\ b \in CallSet /\ c \in CallSet /\ d \in CallSet /\ e \in CallSet
  BY CallsKnown
<1>3. wire \in {<<a, b, c, d>>, <<b, c, d>>, <<c, d>>, <<e, d>>}
  BY DEF WireNests
<1> HIDE DEF a, b, c, d, e
<1>4. NoClose(<<a, b, c, d>>)
  BY <1>1, <1>2, NoCloses
<1>5. NoClose(<<b, c, d>>)
  BY <1>1, <1>2, NoCloses
<1>6. NoClose(<<c, d>>) /\ NoClose(<<e, d>>)
  BY <1>1, <1>2, NoCloses
<1> QED BY <1>3, <1>4, <1>5, <1>6

\* The two outer lifetimes have no action of the scheduler's.
LEMMA OuterNone ==
  ASSUME LifetimeInv, NEW l \in {Root, View}
  PROVE  NoClose(actions[l]) /\ \A r \in Torn(actions[l]) : NoClose(r)
<1>1. l \in Lifetime /\ ~(l > View) /\ actions[l] \in Seq(CallSet)
  BY Basics
<1>2. \A x : ActionOf(l, x) => x.does # "close"
  <2>1. \A n : Ends(n).does # "close" /\ Detach(n).does # "close" /\ Reset.does # "close"
    BY DEF Ends, Detach, Reset, Do
  <2> QED BY <1>1, <2>1 DEF ActionOf
<1>3. NoClose(actions[l])
  BY <1>1, <1>2, LegalNow DEF Legal, NoClose
<1>4. ASSUME NEW r \in Torn(actions[l]) PROVE NoClose(r)
  <2>1. \A i \in 1..Len(r) : \E j \in 1..Len(actions[l]) : r[i] = actions[l][j]
    BY <1>1, TornFacts
  <2> QED BY <1>3, <2>1 DEF NoClose
<1> QED BY <1>3, <1>4

\* Lifetimes are changed one at a time.
LEMMA OneChanged ==
  ASSUME LifetimeInv, NEW l \in Lifetime, NEW s, actions' = [actions EXCEPT ![l] = s], Like(s, actions[l])
  PROVE  LikeActions
<1>1. \A m \in Lifetime : actions'[m] = IF m = l THEN s ELSE actions[m]
  BY Basics
<1> QED BY <1>1, LikeItself DEF LikeActions

\* A thread with nothing to do starts.
LEMMA StartQuiet ==
  ASSUME LifetimeInv, Set \/ Use \/ Shutdown
  PROVE  Quiet
<1>1. UNCHANGED <<actions, ran, accepted, removed>>
  BY DEF Set, Use, Shutdown, lifetimeVars, historyVars
<1>2. todo \in [Threads -> Seq(CallSet)] /\ Threads = {"wire", "scheduler", "game"} /\ used \in Nat /\ View \in Nat
  BY Basics DEF Threads, LifetimeInv, Types
<1>3. LikeActions
  BY <1>1, LikeItself DEF LikeActions
<1>4. ASSUME NEW t \in Threads, NEW s, todo' = [todo EXCEPT ![t] = s], todo[t] = <<>>, NoClose(s)
      PROVE  LikeTodo
  <2>1. \A u \in Threads : todo'[u] = IF u = t THEN s ELSE todo[u]
    BY <1>2, <1>4
  <2>2. Like(s, todo[t])
    BY <1>4, NoCloses, LikeNone
  <2> QED BY <2>1, <2>2, LikeItself DEF LikeTodo
<1>5. CASE Set
  <2> DEFINE a == Do("before", View)
             b == Do("change", View)
  <2>1. todo["wire"] = <<>> /\ todo' = [todo EXCEPT !["wire"] = <<a, b>>]
    BY <1>5 DEF Set
  <2>2. a \in CallSet /\ b \in CallSet /\ a.does # "close" /\ b.does # "close"
    BY <1>2, Known DEF Do
  <2> HIDE DEF a, b
  <2>3. NoClose(<<a, b>>)
    BY <2>2, NoCloses
  <2>4. LikeTodo
    BY <1>2, <1>4, <2>1, <2>3
  <2> QED BY <1>1, <1>3, <2>4 DEF Quiet, LikeActions, LikeTodo
<1>6. CASE Use
  <2> DEFINE n == used + 1
             a == Do("bracket", n)
             c == Do("plain", n)
             d == Do("remove", n)
  <2>1. /\ todo["scheduler"] = <<>>
        /\ todo' = [todo EXCEPT !["scheduler"] = <<a, c>> \o <<>>]
           \/ todo' = [todo EXCEPT !["scheduler"] = <<a, c>> \o <<d>>]
    BY <1>6 DEF Use
  <2>2. n \in Nat
    BY <1>2
  <2>3. a \in CallSet /\ c \in CallSet /\ d \in CallSet /\ a.does # "close" /\ c.does # "close" /\ d.does # "close"
    BY <2>2, Known DEF Do
  <2> HIDE DEF n, a, c, d
  <2>4. <<a, c>> \o <<>> = <<a, c>> /\ <<a, c>> \o <<d>> = <<a, c, d>>
    <3>1. <<a, c>> \o <<>> = <<a, c>>
      BY <2>3
    <3> QED BY <2>3, <3>1, Tails
  <2>5. NoClose(<<a, c>>) /\ NoClose(<<a, c, d>>)
    BY <2>3, NoCloses
  <2>6. LikeTodo
    BY <1>2, <1>4, <2>1, <2>4, <2>5
  <2> QED BY <1>1, <1>3, <2>6 DEF Quiet, LikeActions, LikeTodo
<1>7. CASE Shutdown
  <2> DEFINE a == Ends(Root)
  <2>1. todo["game"] = <<>> /\ todo' = [todo EXCEPT !["game"] = <<a>>]
    BY <1>7 DEF Shutdown
  <2>2. Root \in Nat
    BY Basics
  <2>3. a \in CallSet /\ a.does # "close"
    BY <2>2, Known DEF Do, Ends
  <2> HIDE DEF a
  <2>4. NoClose(<<a>>)
    BY <2>3, NoCloses
  <2>5. LikeTodo
    BY <1>2, <1>4, <2>1, <2>4
  <2> QED BY <1>1, <1>3, <2>5 DEF Quiet, LikeActions, LikeTodo
<1> QED BY <1>5, <1>6, <1>7

LEMMA EndQuiet ==
  ASSUME LifetimeInv, NEW t \in Threads, Terminate(t) \/ Erase(t) \/ Tear(t)
  PROVE  Quiet
<1> DEFINE h == Head(todo[t])
<1>1. UNCHANGED <<ran, accepted, removed>> /\ todo[t] # <<>>
  BY DEF Terminate, Erase, Tear, historyVars, At
<1>2. h \in CallSet /\ h.of \in Nat
  BY <1>1, Heads DEF CallSet
<1>3. CASE Terminate(t)
  <2> DEFINE x == Do("take", h.of)
  <2>1. At(t, "terminate") /\ (Calls(t, <<>>) \/ Calls(t, <<x>>)) /\ actions' = actions
    BY <1>3 DEF Terminate, Of
  <2>2. x \in CallSet /\ x.does # "close"
    BY <1>2, Known DEF Do
  <2> HIDE DEF x
  <2>3. NoClose(<<>>) /\ NoClose(<<x>>) /\ <<>> \in Seq(CallSet) /\ <<x>> \in Seq(CallSet)
    BY <2>2, NoCloses
  <2>4. LikeTodo
    BY <2>1, <2>3, JoinQuiet
  <2>5. LikeActions
    BY <2>1, LikeItself DEF LikeActions
  <2> QED BY <1>1, <2>4, <2>5 DEF Quiet, LikeActions, LikeTodo
<1>4. CASE Erase(t) \/ Tear(t)
  <2>1. At(t, "detach") /\ Calls(t, <<>>)
    BY <1>4 DEF Erase, Tear
  <2>2. LikeTodo
    BY <2>1, NoCalls, NoCloses, JoinQuiet
  <2> DEFINE p == Parent(h.of)
  <2>3. p \in {Root, View} /\ p \in Lifetime
    <3>1. p \in {Root, View}
      BY Basics
    <3> QED BY <3>1, Basics
  <2>4. \/ actions' = [actions EXCEPT ![p] = Without(actions[p], Ends(h.of))]
        \/ \E rest \in Torn(actions[p]) : actions' = [actions EXCEPT ![p] = rest]
    BY <1>4 DEF Erase, Tear, Of
  <2> HIDE DEF p
  <2>5. actions[p] \in Seq(CallSet)
    BY <2>3, Basics
  <2>6. Like(Without(actions[p], Ends(h.of)), actions[p])
    <3>1. Ends(h.of).does # "close"
      BY DEF Ends, Do
    <3> QED BY <2>5, <3>1, LikeWithout
  <2>7. \A rest \in Torn(actions[p]) : Like(rest, actions[p])
    BY <2>3, OuterNone, LikeNone
  <2>8. LikeActions
    BY <2>3, <2>4, <2>6, <2>7, OneChanged
  <2> QED BY <1>1, <2>2, <2>8 DEF Quiet, LikeActions, LikeTodo
<1> QED BY <1>3, <1>4

LEMMA AttachQuiet ==
  ASSUME LifetimeInv, NEW t \in Threads, Attach(t) \/ AttachBack(t)
  PROVE  Quiet
<1> DEFINE h == Head(todo[t])
<1>1. UNCHANGED <<ran, accepted, removed>> /\ todo[t] # <<>>
  BY DEF Attach, AttachBack, historyVars, At
<1>2. h.does \in {"attach", "attach_back"}
  BY DEF Attach, AttachBack, At
<1>3. t = "wire" /\ h = Do(h.does, created) /\ h = todo[t][1]
  BY <1>1, <1>2, Heads
<1>4. h.of = created /\ created \in Lifetime /\ created \in Nat /\ View \in Lifetime
  BY <1>3, Basics DEF Do
<1>5. WireNests
  BY <1>1, <1>2, <1>3, WireAt DEF wire
<1>6. Parent(created) = View
  BY <1>5, Basics DEF WireNests, Fresh, Parent
<1>7. NoClose(todo[t])
  BY <1>3, <1>5, NestsRunNone DEF wire
<1>8. /\ Ends(created) \in CallSet /\ Ends(created).does # "close"
      /\ Detach(created) \in CallSet /\ Detach(created).does # "close"
  BY <1>4, Known DEF Ends, Detach, Do
<1>9. NoClose(<<>>) /\ NoClose(<<Ends(created)>>) /\ <<>> \in Seq(CallSet) /\ <<Ends(created)>> \in Seq(CallSet)
  <2> DEFINE x == Ends(created)
  <2>1. x \in CallSet /\ x.does # "close"
    BY <1>8
  <2> HIDE DEF x
  <2>2. NoClose(<<>>) /\ NoClose(<<x>>) /\ <<>> \in Seq(CallSet) /\ <<x>> \in Seq(CallSet)
    BY <2>1, NoCloses
  <2> QED BY <2>2 DEF x
<1>10. /\ At(t, "attach") \/ At(t, "attach_back")
       /\ Throws(t, <<Ends(created)>>) \/ Throws(t, <<>>) \/ Calls(t, <<>>)
       /\ \/ actions' = actions
          \/ actions' = [actions EXCEPT ![View] = Append(actions[View], Ends(created))]
          \/ actions' = [actions EXCEPT ![created] = Append(actions[created], Detach(created))]
  BY <1>4, <1>6 DEF Attach, AttachBack, Of
<1>11. LikeTodo
  BY <1>7, <1>9, <1>10, JoinQuiet, ThrowQuiet
<1>12. Like(Append(actions[View], Ends(created)), actions[View])
  BY <1>4, <1>8, Basics, LikeAppend
<1>13. Like(Append(actions[created], Detach(created)), actions[created])
  BY <1>4, <1>8, Basics, LikeAppend
<1>14. LikeActions
  <2>1. CASE actions' = actions
    BY <2>1, LikeItself DEF LikeActions
  <2> QED BY <1>4, <1>10, <1>12, <1>13, <2>1, OneChanged
<1> QED BY <1>1, <1>11, <1>14 DEF Quiet, LikeActions, LikeTodo

LEMMA CallQuiet ==
  ASSUME LifetimeInv, NEW t \in Threads,
         Swap(t) \/ WriteCurrent(t) \/ Return(t) \/ Before(t) \/ Change(t) \/ Open(t)
  PROVE  Quiet
<1> DEFINE h == Head(todo[t])
<1>1. UNCHANGED <<ran, accepted, removed, actions>> /\ todo[t] # <<>>
  BY DEF Swap, WriteCurrent, Return, Before, Change, Open, historyVars, lifetimeVars, At
<1>2. h \in CallSet /\ h.of \in Nat /\ h.was \in Nat /\ current_def \in Nat /\ created \in Nat
  <2>1. h \in CallSet
    BY <1>1, Heads
  <2>2. current_def \in Lifetime /\ created \in Nat /\ Lifetime \subseteq Nat
    BY CreatedIn, Basics
  <2> QED BY <2>1, <2>2 DEF CallSet
<1>3. LikeActions
  BY <1>1, LikeItself DEF LikeActions
<1>4. ASSUME NEW d, d # "close", At(t, d), NEW calls \in Seq(CallSet), NoClose(calls), Calls(t, calls) PROVE Quiet
  <2>1. LikeTodo
    BY <1>4, JoinQuiet
  <2> QED BY <1>1, <1>3, <2>1 DEF Quiet, LikeActions, LikeTodo
<1>5. ASSUME NEW d, d # "close", At(t, d), NEW x \in CallSet, x.does # "close", Calls(t, <<>>) \/ Calls(t, <<x>>)
      PROVE  Quiet
  <2>1. NoClose(<<>>) /\ NoClose(<<x>>) /\ <<>> \in Seq(CallSet) /\ <<x>> \in Seq(CallSet)
    BY <1>5, NoCloses
  <2> QED BY <1>4, <1>5, <2>1
<1>6. CASE Swap(t)
  <2>1. Write(h.of, current_def) \in CallSet /\ Write(h.of, current_def).does # "close"
    BY <1>2, Known DEF Write
  <2>2. At(t, "swap") /\ Calls(t, <<Write(h.of, current_def)>>)
    BY <1>6 DEF Swap, Of
  <2> QED BY <1>5, <2>1, <2>2
<1>7. CASE WriteCurrent(t)
  <2> DEFINE a == Ends(h.was)
             b == Ends(current_def)
  <2>1. a \in CallSet /\ b \in CallSet /\ a.does # "close" /\ b.does # "close"
    BY <1>2, Known DEF Ends, Do
  <2>2. At(t, "write") /\ (Calls(t, <<>> \o <<a>>) \/ Calls(t, <<b>> \o <<a>>))
    BY <1>7 DEF WriteCurrent
  <2> HIDE DEF a, b
  <2>3. <<>> \o <<a>> = <<a>> /\ <<b>> \o <<a>> = <<b, a>>
    BY <2>1, Few
  <2>4. NoClose(<<a>>) /\ NoClose(<<b, a>>) /\ <<a>> \in Seq(CallSet) /\ <<b, a>> \in Seq(CallSet)
    BY <2>1, NoCloses
  <2> QED BY <1>4, <2>2, <2>3, <2>4
<1>8. CASE Return(t)
  <2>1. Ends(h.of) \in CallSet /\ Ends(h.of).does # "close"
    BY <1>2, Known DEF Ends, Do
  <2>2. At(t, "return") /\ (Calls(t, <<>>) \/ Calls(t, <<Ends(h.of)>>))
    BY <1>8 DEF Return, Of
  <2> QED BY <1>5, <2>1, <2>2
<1>9. CASE Before(t)
  <2>1. Reset \in CallSet /\ Reset.does # "close"
    BY Known DEF Reset, Do
  <2>2. At(t, "before") /\ (Calls(t, <<>>) \/ Calls(t, <<Reset>>))
    BY <1>9 DEF Before
  <2> QED BY <1>5, <2>1, <2>2
<1>10. CASE Change(t)
  <2> DEFINE n == created + 1
             a == Do("attach", n)
             b == Do("attach_back", n)
             c == Do("swap", n)
             d == Do("return", n)
  <2>1. At(t, "change") /\ (Calls(t, <<>>) \/ Calls(t, <<a, b, c, d>>))
    BY <1>10 DEF Change
  <2>2. n \in Nat
    BY <1>2
  <2>3. /\ a \in CallSet /\ b \in CallSet /\ c \in CallSet /\ d \in CallSet
        /\ a.does # "close" /\ b.does # "close" /\ c.does # "close" /\ d.does # "close"
    BY <2>2, Known DEF Do
  <2> HIDE DEF n, a, b, c, d
  <2>4. NoClose(<<a, b, c, d>>) /\ NoClose(<<>>)
    BY <2>3, NoCloses
  <2>5. <<a, b, c, d>> \in Seq(CallSet) /\ <<>> \in Seq(CallSet)
    BY <2>3
  <2> QED BY <1>4, <2>1, <2>4, <2>5
<1>11. CASE Open(t)
  <2>1. Do("closing", h.of) \in CallSet /\ Do("closing", h.of).does # "close"
    BY <1>2, Known DEF Do
  <2>2. At(t, "bracket") /\ (Calls(t, <<>>) \/ Calls(t, <<Do("closing", h.of)>>))
    BY <1>11 DEF Open, Of
  <2> QED BY <1>5, <2>1, <2>2
<1> QED BY <1>6, <1>7, <1>8, <1>9, <1>10, <1>11

-----------------------------------------------------------------------------
(* Steps that move them.                                                   *)

\* What terminate takes from lifetime l is on thread t, last first.
LEMMA TakeMoves ==
  ASSUME LifetimeInv, AccountInv, [Next]_vars, NEW t \in Threads, Take(t)
  PROVE  /\ UNCHANGED <<ran, accepted, removed>>
         /\ \E l \in Lifetime :
              /\ terminated[l]
              /\ \A m \in Lifetime : /\ \A k : In(m, k)' <=> m # l /\ In(m, k)
                                     /\ Once(actions'[m])
                                     /\ \A j, k : Ordered(actions[m], j, k) => Ordered(actions'[m], j, k)
              /\ \A u \in Threads : /\ \A k : On(u, k)' <=> On(u, k) \/ (u = t /\ In(l, k))
                                    /\ Once(todo'[u])
              /\ \A u \in Threads : \A j, k :
                   Ordered(actions[l], k, j) /\ Ordered(todo[u], j, k) /\ ~(In(l, k) /\ On(t, j)) => Ordered(todo'[u], j, k)
<1> DEFINE h == Head(todo[t])
           l == h.of
           a == actions[l]
           s == todo[t]
<1>1. UNCHANGED <<ran, accepted, removed>> /\ todo[t] # <<>> /\ h.does = "take"
  BY DEF Take, historyVars, At
<1>2. h = s[1] /\ l \in 1..created /\ terminated[l]
  BY <1>1, Heads
<1>3. l \in Lifetime /\ actions \in [Lifetime -> Seq(CallSet)] /\ s \in Seq(CallSet) /\ Types
  BY <1>2, Basics DEF LifetimeInv
<1>4. actions' = [actions EXCEPT ![l] = <<>>] /\ Calls(t, Reverse(a))
  BY DEF Take, Of
<1>5. a \in Seq(CallSet)
  BY <1>3
<1> HIDE DEF l, a
<1>6. Reverse(a) \in Seq(CallSet)
  BY <1>5, ReverseFacts
<1>7. todo'[t] = Reverse(a) \o Tail(s) /\ \A u \in Threads : u # t => todo'[u] = todo[u]
  BY <1>1, <1>3, <1>4, <1>6, CallsMade
<1>8. s # <<>> /\ s[1].does # "close"
  BY <1>1, <1>2
<1>9. PlaceInv
  BY DEF AccountInv
<1>10. Once(a) /\ Once(s) /\ \A k \in Nat : ~(Has(a, k) /\ Has(s, k))
  BY <1>3, <1>9 DEF PlaceInv, In, On, a
<1> DEFINE r == todo'[t]
<1>11. r = Reverse(a) \o Tail(s)
  BY <1>7
<1> HIDE DEF r, s
<1>12. /\ \A k : Has(r, k) <=> Has(a, k) \/ Has(s, k)
       /\ Once(r)
       /\ \A k, m : Ordered(a, m, k) /\ Ordered(s, k, m) /\ ~(Has(a, m) /\ Has(s, k)) => Ordered(r, k, m)
  BY <1>3, <1>5, <1>8, <1>10, <1>11, TakenJoin
<1>13. \A m \in Lifetime : actions'[m] = IF m = l THEN <<>> ELSE actions[m]
  BY <1>3, <1>4
<1>14. \A k : ~Has(<<>>, k)
  BY NoCloses, NoneOf
<1>15. Once(<<>>) /\ \A j, k : Ordered(<<>>, j, k)
  BY NoCloses, NoneOf
<1>16. \A m \in Lifetime : /\ \A k : In(m, k)' <=> m # l /\ In(m, k)
                           /\ Once(actions'[m])
                           /\ \A j, k : Ordered(actions[m], j, k) => Ordered(actions'[m], j, k)
  BY <1>9, <1>13, <1>14, <1>15 DEF In, PlaceInv
<1>17. \A u \in Threads : /\ \A k : On(u, k)' <=> On(u, k) \/ (u = t /\ In(l, k))
                          /\ Once(todo'[u])
  <2>1. \A k : On(t, k)' <=> On(t, k) \/ In(l, k)
    BY <1>12 DEF On, In, r, s, a
  <2>2. Once(todo'[t])
    BY <1>12 DEF r
  <2>3. ASSUME NEW u \in Threads, u # t PROVE (\A k : On(u, k)' <=> On(u, k)) /\ Once(todo'[u])
    BY <1>7, <1>9, <2>3 DEF On, PlaceInv
  <2> QED BY <2>1, <2>2, <2>3
<1>18. ASSUME NEW u \in Threads, NEW j, NEW k,
              Ordered(actions[l], k, j), Ordered(todo[u], j, k), ~(In(l, k) /\ On(t, j))
       PROVE  Ordered(todo'[u], j, k)
  <2>1. CASE u # t
    BY <1>7, <1>18, <2>1
  <2>2. CASE u = t
    <3>1. Ordered(r, j, k)
      BY <1>12, <1>18, <2>2 DEF In, On, a, s
    <3> QED BY <2>2, <3>1 DEF r
  <2> QED BY <2>1, <2>2
<1> QED BY <1>1, <1>2, <1>3, <1>16, <1>17, <1>18

LEMMA TakeStep ==
  ASSUME LifetimeInv, AccountInv, [Next]_vars, NEW t \in Threads, Take(t)
  PROVE  AccountInv'
<1>1. UNCHANGED <<ran, accepted, removed>> /\ PlaceInv /\ Lifetime' = Lifetime /\ Threads' = Threads
  BY TakeMoves, HandedStays DEF AccountInv
<1>2. PICK l \in Lifetime :
              /\ terminated[l]
              /\ \A m \in Lifetime : /\ \A k : In(m, k)' <=> m # l /\ In(m, k)
                                     /\ Once(actions'[m])
                                     /\ \A j, k : Ordered(actions[m], j, k) => Ordered(actions'[m], j, k)
              /\ \A u \in Threads : /\ \A k : On(u, k)' <=> On(u, k) \/ (u = t /\ In(l, k))
                                    /\ Once(todo'[u])
              /\ \A u \in Threads : \A j, k :
                   Ordered(actions[l], k, j) /\ Ordered(todo[u], j, k) /\ ~(In(l, k) /\ On(t, j)) => Ordered(todo'[u], j, k)
  BY TakeMoves
<1>3. \A k : Ran(k)' <=> Ran(k)
  BY <1>1 DEF Ran
<1>4. PlaceInv'
  <2>1. \A k \in Nat : k \in accepted <=>
       \/ \E m \in Lifetime : In(m, k)'
       \/ \E u \in Threads : On(u, k)'
       \/ Ran(k)' \/ k \in removed
    <3> SUFFICES ASSUME NEW k \in Nat PROVE
         (\/ \E m \in Lifetime : In(m, k)
          \/ \E u \in Threads : On(u, k)) <=>
         (\/ \E m \in Lifetime : In(m, k)'
          \/ \E u \in Threads : On(u, k)')
      BY <1>1, <1>3 DEF PlaceInv
    <3> QED BY <1>2
  <2>2. \A k \in Nat : \A u, v \in Threads : On(u, k)' /\ On(v, k)' => u = v
    BY <1>1, <1>2 DEF PlaceInv
  <2>3. \A k \in Nat : \A m \in Lifetime : In(m, k)' => ~Ran(k)' /\ k \notin removed /\ \A u \in Threads : ~On(u, k)'
    <3> SUFFICES ASSUME NEW k \in Nat, NEW m \in Lifetime, In(m, k)'
                 PROVE  ~Ran(k)' /\ k \notin removed /\ \A u \in Threads : ~On(u, k)'
      OBVIOUS
    <3>1. In(m, k) /\ m # l
      BY <1>2
    <3>2. ~In(l, k)
      <4>1. \A i \in 1..used : handed[i] \in Lifetime
        BY HandedStays
      <4>2. ASSUME In(l, k) PROVE FALSE
        <5>1. /\ \E i \in 1..used : k \in {Bracket(i), Plain(i)} /\ l = handed[i]
              /\ \E i \in 1..used : k \in {Bracket(i), Plain(i)} /\ m = handed[i]
          BY <3>1, <4>2 DEF AccountInv, HomeInv
        <5>2. \A i, j \in Nat : /\ Bracket(i) = Bracket(j) => i = j
                                /\ Plain(i) = Plain(j) => i = j
                                /\ Bracket(i) # Plain(j)
          BY DEF Bracket, Plain
        <5>3. \A i \in 1..used : i \in Nat
          BY HandedStays
        <5> QED BY <3>1, <5>1, <5>2, <5>3
      <4> QED BY <4>2
    <3> QED BY <1>1, <1>2, <1>3, <3>1, <3>2 DEF PlaceInv
  <2>4. \A k \in Nat : \A u \in Threads : On(u, k)' => ~Ran(k)' /\ k \notin removed
    BY <1>1, <1>2, <1>3 DEF PlaceInv
  <2>5. /\ \A k \in Nat : ~(Ran(k)' /\ k \in removed)
        /\ \A i, j \in 1..Len(ran) : ran[i] = ran[j] => i = j
        /\ removed \subseteq Nat /\ ran \in Seq(Nat) /\ accepted \subseteq Nat
    BY <1>1, <1>3 DEF PlaceInv
  <2> QED BY <1>1, <1>2, <2>1, <2>2, <2>3, <2>4, <2>5 DEF PlaceInv
<1>5. HomeInv'
  BY <1>2, HomeKept
<1>6. ASSUME NEW i \in Nat PROVE OrderOf(i)'
  <2> DEFINE b == Bracket(i)
             p == Plain(i)
  <2>1. /\ b \in accepted /\ (\A m \in Lifetime : ~In(m, b)) => i \in 1..used /\ terminated[handed[i]]
        /\ \A m \in Lifetime : Ordered(actions[m], b, p) /\ (In(m, p) /\ b \in accepted => In(m, b))
        /\ \A u \in Threads : Ordered(todo[u], p, b) /\ (On(u, p) /\ b \in accepted => On(u, b))
        /\ Ran(b) /\ p \in accepted \ removed => \E g, h \in 1..Len(ran) : g < h /\ ran[g] = p /\ ran[h] = b
    BY DEF AccountInv, OrderInv, OrderOf
  <2>2. b \in Nat /\ p \in Nat
    BY Counted
  <2>3. In(l, b) => i \in 1..used /\ l = handed[i]
    <3> SUFFICES ASSUME In(l, b) PROVE i \in 1..used /\ l = handed[i]
      OBVIOUS
    <3>1. \E j \in 1..used : b \in {Bracket(j), Plain(j)} /\ l = handed[j]
      BY <2>2 DEF AccountInv, HomeInv
    <3>2. \A j \in Nat : b \in {Bracket(j), Plain(j)} => i = j
      BY DEF Bracket, Plain
    <3>3. \A j \in 1..used : j \in Nat
      BY HandedStays
    <3> QED BY <3>1, <3>2, <3>3
  <2> HIDE DEF b, p
  <2>4. i \in 1..used /\ terminated[handed[i]] => i \in 1..used' /\ terminated'[handed'[i]]
    BY HandedStays, TypesStep DEF Lasting
  <2>5. b \in accepted /\ (\A m \in Lifetime : ~In(m, b)') => i \in 1..used' /\ terminated'[handed'[i]]
    BY <1>2, <2>1, <2>3, <2>4
  <2>6. \A m \in Lifetime : Ordered(actions'[m], b, p) /\ (In(m, p)' /\ b \in accepted => In(m, b)')
    BY <1>2, <2>1
  <2>7. \A u \in Threads : On(u, p)' /\ b \in accepted => On(u, b)'
    BY <1>2, <2>1
  <2>8. \A u \in Threads : Ordered(todo'[u], p, b)
    <3>1. ~(In(l, b) /\ On(t, p))
      <4>1. In(l, b) => b \in accepted /\ ~On(t, b)
        BY <1>1, <2>2 DEF PlaceInv
      <4> QED BY <2>1, <4>1
    <3> QED BY <1>2, <2>1, <3>1
  <2>9. Ran(b)' <=> Ran(b)
    BY <1>3
  <2> QED BY <1>1, <2>1, <2>5, <2>6, <2>7, <2>8, <2>9 DEF OrderOf, b, p
<1> QED BY <1>4, <1>5, <1>6 DEF AccountInv, OrderInv

LEMMA Pairs ==
  /\ \A i, j \in Nat : /\ Bracket(i) = Bracket(j) => i = j
                       /\ Plain(i) = Plain(j) => i = j
                       /\ Bracket(i) # Plain(j)
  /\ \A i \in Nat : Bracket(i) \in Nat /\ Plain(i) \in Nat
BY DEF Bracket, Plain

LEMMA HomeOf ==
  ASSUME LifetimeInv, AccountInv, [Next]_vars, NEW i \in Nat, NEW l \in Lifetime, In(l, Bracket(i)) \/ In(l, Plain(i))
  PROVE  i \in 1..used /\ l = handed[i] /\ l # Eternal
<1>1. \A j \in 1..used : j \in Nat
  BY HandedStays
<1>2. PICK k \in {Bracket(i), Plain(i)} : In(l, k)
  OBVIOUS
<1>3. l # Eternal /\ \E j \in 1..used : k \in {Bracket(j), Plain(j)} /\ l = handed[j]
  BY <1>2, Pairs DEF AccountInv, HomeInv
<1>4. PICK j \in 1..used : k \in {Bracket(j), Plain(j)} /\ l = handed[j]
  BY <1>3
<1>5. i = j
  BY <1>1, <1>2, <1>4, Pairs
<1> QED BY <1>3, <1>4, <1>5

\* What is closed is the first call of its thread.
LEMMA CloseMoves ==
  ASSUME LifetimeInv, AccountInv, [Next]_vars, NEW t \in Threads, Close(t)
  PROVE  /\ UNCHANGED <<accepted, removed, actions>>
         /\ \E k \in Nat :
              /\ ran' = Append(ran, k)
              /\ On(t, k) /\ \A m : On(t, m) => ~Ordered(todo[t], m, k)
              /\ \A u \in Threads : /\ \A m : On(u, m)' <=> On(u, m) /\ ~(u = t /\ m = k)
                                    /\ Once(todo'[u])
                                    /\ \A m, n : Ordered(todo[u], m, n) => Ordered(todo'[u], m, n)
<1> DEFINE h == Head(todo[t])
           k == h.of
           s == todo[t]
           r == todo'[t]
<1>1. UNCHANGED <<accepted, removed, actions>> /\ s # <<>> /\ h.does = "close" /\ ran' = Append(ran, k) /\ Calls(t, <<>>)
  BY DEF Close, lifetimeVars, At, Of
<1>2. h = s[1] /\ h \in CallSet /\ t \in {"wire", "game"} /\ k \in Nat
  BY <1>1, Heads DEF CallSet
<1>3. h.was = Eternal
  <2>1. CASE t = "wire"
    <3>1. Ending(h, Current)
      BY <1>1, <1>2, <2>1, WireHead DEF LifetimeInv, wire
    <3> QED BY <1>1, <3>1 DEF Ending
  <2>2. CASE t = "game"
    <3>1. game # <<>> /\ h = game[1] /\ game \in Seq(CallSet)
      BY <1>1, <1>2, <2>2, Numbers DEF game, LifetimeInv
    <3>2. GameCall(h)
      <4>1. 1 \in 1..Len(game)
        BY <3>1, HeadOf
      <4>2. \A i \in 1..Len(game) : GameCall(game[i])
        BY <1>1, <3>1, GameHead DEF LifetimeInv
      <4> QED BY <3>1, <4>1, <4>2
    <3>3. Ending(h, {Eternal} \cup Made)
      <4>1. h # Reset /\ h # Detach(View)
        BY <1>1 DEF Reset, Detach, Do
      <4>2. \A was : h # Write(Eternal, was)
        BY <1>1 DEF Write
      <4> QED BY <3>2, <4>1, <4>2 DEF GameCall
    <3> QED BY <1>1, <3>3 DEF Ending
  <2> QED BY <1>2, <2>1, <2>2
<1>4. h = Closing(k)
  <2>1. /\ Closing(k) \in CallSet /\ Closing(k).does = "close" /\ Closing(k).of = k
        /\ Closing(k).was = Eternal
    BY <1>2, Known DEF Closing, Do
  <2> QED BY <1>1, <1>2, <1>3, <2>1, SameCall
<1>5. s \in Seq(CallSet) /\ Types
  BY Basics DEF LifetimeInv
<1>6. r = <<>> \o Tail(s) /\ \A u \in Threads : u # t => todo'[u] = todo[u]
  BY <1>1, <1>5, NoCalls, CallsMade
<1>7. \A u \in Threads : Once(todo[u])
  BY DEF AccountInv, PlaceInv
<1>8. s[1] = Closing(k) /\ Once(s) /\ s # <<>>
  BY <1>1, <1>2, <1>4, <1>7
<1> HIDE DEF r, s, k
<1>9. /\ Once(r)
      /\ \A m : Has(r, m) <=> Has(s, m) /\ m # k
      /\ \A m, n : Ordered(s, m, n) => Ordered(r, m, n)
      /\ Has(s, k)
      /\ \A m : Has(s, m) => ~Ordered(s, m, k)
  BY <1>2, <1>5, <1>6, <1>8, FirstDone
<1>10. ASSUME NEW u \in Threads
       PROVE  /\ \A m : On(u, m)' <=> On(u, m) /\ ~(u = t /\ m = k)
              /\ Once(todo'[u])
              /\ \A m, n : Ordered(todo[u], m, n) => Ordered(todo'[u], m, n)
  <2>1. CASE u = t
    BY <1>9, <2>1 DEF On, r, s
  <2>2. CASE u # t
    BY <1>6, <1>7, <2>2 DEF On
  <2> QED BY <2>1, <2>2
<1>11. On(t, k) /\ \A m : On(t, m) => ~Ordered(todo[t], m, k)
  BY <1>9 DEF On, s
<1> QED BY <1>1, <1>2, <1>10, <1>11

LEMMA CloseStep ==
  ASSUME LifetimeInv, AccountInv, [Next]_vars, NEW t \in Threads, Close(t)
  PROVE  AccountInv'
<1>1. UNCHANGED <<accepted, removed, actions>> /\ PlaceInv /\ Lifetime' = Lifetime /\ Threads' = Threads
  BY CloseMoves, HandedStays DEF AccountInv
<1>2. PICK k \in Nat :
              /\ ran' = Append(ran, k)
              /\ On(t, k) /\ \A m : On(t, m) => ~Ordered(todo[t], m, k)
              /\ \A u \in Threads : /\ \A m : On(u, m)' <=> On(u, m) /\ ~(u = t /\ m = k)
                                    /\ Once(todo'[u])
                                    /\ \A m, n : Ordered(todo[u], m, n) => Ordered(todo'[u], m, n)
  BY CloseMoves
<1>3. ran \in Seq(Nat) /\ ~Ran(k) /\ k \notin removed /\ (\A l \in Lifetime : ~In(l, k)) /\ k \in accepted
      /\ \A u \in Threads : On(u, k) => u = t
  BY <1>1, <1>2 DEF PlaceInv
<1>4. /\ ran' \in Seq(Nat) /\ Len(ran') = Len(ran) + 1 /\ ran'[Len(ran) + 1] = k /\ Len(ran) \in Nat
      /\ \A i \in 1..Len(ran) : ran'[i] = ran[i] /\ i \in 1..Len(ran')
      /\ \A i \in 1..Len(ran') : i \in 1..Len(ran) \/ i = Len(ran) + 1
  BY <1>2, <1>3
<1>5. \A m : Ran(m)' <=> Ran(m) \/ m = k
  <2>1. Len(ran) + 1 \in 1..Len(ran')
    BY <1>4
  <2> QED BY <1>4, <2>1 DEF Ran, Contains
<1>6. \A l \in Lifetime : \A m : In(l, m)' <=> In(l, m)
  BY <1>1 DEF In
<1>7. PlaceInv'
  <2>1. ASSUME NEW m \in Nat PROVE m \in accepted <=>
       \/ \E l \in Lifetime : In(l, m)'
       \/ \E u \in Threads : On(u, m)'
       \/ Ran(m)' \/ m \in removed
    <3>1. m \in accepted <=>
       \/ \E l \in Lifetime : In(l, m)
       \/ \E u \in Threads : On(u, m)
       \/ Ran(m) \/ m \in removed
      BY <1>1 DEF PlaceInv
    <3>2. CASE m = k
      BY <1>3, <1>5, <3>2
    <3>3. CASE m # k
      <4>1. \A u \in Threads : On(u, m)' <=> On(u, m)
        BY <1>2, <3>3
      <4> QED BY <1>5, <1>6, <3>1, <3>3, <4>1
    <3> QED BY <3>2, <3>3
  <2>2. \A m \in Nat : \A u, v \in Threads : On(u, m)' /\ On(v, m)' => u = v
    BY <1>1, <1>2 DEF PlaceInv
  <2>3. \A m \in Nat : \A l \in Lifetime : In(l, m)' => ~Ran(m)' /\ m \notin removed /\ \A u \in Threads : ~On(u, m)'
    <3> SUFFICES ASSUME NEW m \in Nat, NEW l \in Lifetime, In(l, m)
                 PROVE  ~Ran(m)' /\ m \notin removed /\ \A u \in Threads : ~On(u, m)'
      BY <1>6
    <3>1. m # k
      BY <1>3
    <3> QED BY <1>1, <1>2, <1>5, <3>1 DEF PlaceInv
  <2>4. \A m \in Nat : \A u \in Threads : On(u, m)' => ~Ran(m)' /\ m \notin removed
    <3> SUFFICES ASSUME NEW m \in Nat, NEW u \in Threads, On(u, m)'
                 PROVE  ~Ran(m)' /\ m \notin removed
      OBVIOUS
    <3>1. On(u, m) /\ m # k
      BY <1>2, <1>3
    <3> QED BY <1>1, <1>5, <3>1 DEF PlaceInv
  <2>5. \A m \in Nat : ~(Ran(m)' /\ m \in removed)
    BY <1>1, <1>3, <1>5 DEF PlaceInv
  <2>6. ASSUME NEW i \in 1..Len(ran'), NEW j \in 1..Len(ran'), ran'[i] = ran'[j] PROVE i = j
    <3>1. \A g \in 1..Len(ran) : ran'[g] # k
      BY <1>3, <1>4 DEF Ran, Contains
    <3>2. CASE i \in 1..Len(ran) /\ j \in 1..Len(ran)
      BY <1>1, <1>4, <2>6, <3>2 DEF PlaceInv
    <3> QED BY <1>4, <2>6, <3>1, <3>2
  <2>7. \A l \in Lifetime : Once(actions[l])
    BY <1>1 DEF PlaceInv
  <2>8. removed \subseteq Nat /\ accepted \subseteq Nat
    BY <1>1 DEF PlaceInv
  <2> QED BY <1>1, <1>2, <1>4, <2>1, <2>2, <2>3, <2>4, <2>5, <2>6, <2>7, <2>8 DEF PlaceInv
<1>8. HomeInv'
  BY <1>6, HomeKept
<1>9. ASSUME NEW i \in Nat PROVE OrderOf(i)'
  <2> DEFINE b == Bracket(i)
             p == Plain(i)
  <2>1. /\ b \in accepted /\ (\A m \in Lifetime : ~In(m, b)) => i \in 1..used /\ terminated[handed[i]]
        /\ \A m \in Lifetime : Ordered(actions[m], b, p) /\ (In(m, p) /\ b \in accepted => In(m, b))
        /\ \A u \in Threads : Ordered(todo[u], p, b) /\ (On(u, p) /\ b \in accepted => On(u, b))
        /\ Ran(b) /\ p \in accepted \ removed => \E g, h \in 1..Len(ran) : g < h /\ ran[g] = p /\ ran[h] = b
    BY DEF AccountInv, OrderInv, OrderOf
  <2>2. b \in Nat /\ p \in Nat
    BY Counted
  <2> HIDE DEF b, p
  <2>3. i \in 1..used /\ terminated[handed[i]] => i \in 1..used' /\ terminated'[handed'[i]]
    BY HandedStays, TypesStep DEF Lasting
  <2>4. b \in accepted /\ (\A m \in Lifetime : ~In(m, b)') => i \in 1..used' /\ terminated'[handed'[i]]
    BY <1>6, <2>1, <2>3
  <2>5. \A m \in Lifetime : Ordered(actions'[m], b, p) /\ (In(m, p)' /\ b \in accepted => In(m, b)')
    BY <1>1, <1>6, <2>1
  <2>6. ~(k = b /\ On(t, p))
    BY <1>2, <2>1
  <2>7. \A u \in Threads : Ordered(todo'[u], p, b) /\ (On(u, p)' /\ b \in accepted => On(u, b)')
    BY <1>2, <2>1, <2>6
  <2>8. ASSUME Ran(b)', p \in accepted \ removed
        PROVE  \E g, h \in 1..Len(ran') : g < h /\ ran'[g] = p /\ ran'[h] = b
    <3>1. CASE Ran(b)
      <4>1. PICK g \in 1..Len(ran), h \in 1..Len(ran) : g < h /\ ran[g] = p /\ ran[h] = b
        BY <2>1, <2>8, <3>1
      <4> QED BY <1>4, <4>1
    <3>2. CASE b = k
      <4>1. \A m \in Lifetime : ~In(m, p)
        BY <1>3, <2>1, <3>2
      <4>2. \A u \in Threads : ~On(u, p)
        BY <1>3, <2>1, <2>6, <3>2
      <4>3. Ran(p)
        BY <1>1, <2>2, <2>8, <4>1, <4>2 DEF PlaceInv
      <4>4. PICK g \in 1..Len(ran) : ran[g] = p
        BY <4>3 DEF Ran, Contains
      <4>5. g \in 1..Len(ran') /\ ran'[g] = p /\ Len(ran) + 1 \in 1..Len(ran') /\ ran'[Len(ran) + 1] = b /\ g < Len(ran) + 1
        BY <1>4, <3>2, <4>4
      <4> QED BY <4>5
    <3> QED BY <1>5, <2>8, <3>1, <3>2
  <2> QED BY <1>1, <2>4, <2>5, <2>7, <2>8 DEF OrderOf, b, p
<1> QED BY <1>7, <1>8, <1>9 DEF AccountInv, OrderInv

LEMMA AddMoves ==
  ASSUME LifetimeInv, AccountInv, [Next]_vars, NEW t \in Threads, Add(t),
         ~terminated[handed[used]], handed[used] # Eternal
  PROVE  /\ UNCHANGED <<ran, removed>> /\ LikeTodo /\ used' = used /\ handed' = handed
         /\ used \in Nat /\ used \in 1..used /\ handed[used] \in Lifetime
         /\ \E k \in {Bracket(used), Plain(used)} :
              /\ k \notin accepted /\ accepted' = accepted \cup {k}
              /\ k = Bracket(used) => Plain(used) \notin accepted
              /\ \A m \in Lifetime : /\ \A j : In(m, j)' <=> In(m, j) \/ (m = handed[used] /\ j = k)
                                     /\ Once(actions'[m])
                                     /\ \A j, n : Ordered(actions[m], j, n) /\ j # k => Ordered(actions'[m], j, n)
                                     /\ \A n : ~In(m, n) /\ n # k => Ordered(actions'[m], k, n)
<1> DEFINE l == handed[used]
           k == IF At(t, "closing") THEN Bracket(used) ELSE Plain(used)
<1>1. t = "scheduler" /\ Step("scheduler")
  BY SchedulerLeft DEF Step
<1>2. /\ used \in Nat /\ used > 0 /\ used' = used /\ used \in 1..Len(handed)
      /\ l \in {Eternal} \cup Made /\ Of("scheduler") = used /\ todo["scheduler"] # <<>>
  BY <1>1, SchedulerSteps
<1>3. l \in Lifetime /\ actions \in [Lifetime -> Seq(CallSet)] /\ Types
  BY <1>2, Numbers, Basics DEF LifetimeInv
<1>4. /\ UNCHANGED <<ran, removed, handed>> /\ Calls(t, <<>>)
      /\ actions' = [actions EXCEPT ![l] = Append(@, Closing(k))] /\ accepted' = accepted \cup {k}
      /\ At(t, "closing") \/ At(t, "plain")
  BY <1>1, <1>2 DEF Add
<1>5. k \in {Bracket(used), Plain(used)} /\ k \notin accepted /\ (k = Bracket(used) => Plain(used) \notin accepted)
  <2>1. Bracket(used) # Plain(used)
    BY <1>2, Pairs
  <2>2. CASE At(t, "closing")
    BY <1>1, <2>2, SchedulerAt
  <2>3. CASE ~At(t, "closing")
    BY <1>1, <1>4, <2>1, <2>3, SchedulerAt
  <2> QED BY <2>2, <2>3
<1> HIDE DEF k, l
<1>6. k \in Nat
  BY <1>2, <1>5, Pairs
<1>7. PlaceInv
  BY DEF AccountInv
<1>8. actions[l] \in Seq(CallSet) /\ Once(actions[l]) /\ \A m \in Lifetime : ~In(m, k) /\ Once(actions[m])
  BY <1>3, <1>5, <1>6, <1>7 DEF PlaceInv
<1>9. actions'[l] = Append(actions[l], Closing(k)) /\ \A m \in Lifetime : m # l => actions'[m] = actions[m]
  BY <1>3, <1>4
<1>10. ~Has(actions[l], k)
  BY <1>3, <1>8 DEF In
<1>11. /\ Once(actions'[l])
       /\ \A m : Has(actions'[l], m) <=> Has(actions[l], m) \/ m = k
       /\ \A m, n : Ordered(actions[l], m, n) /\ m # k => Ordered(actions'[l], m, n)
       /\ \A n : ~Has(actions[l], n) /\ n # k => Ordered(actions'[l], k, n)
  BY <1>6, <1>8, <1>9, <1>10, AddedLast
<1>12. ASSUME NEW m \in Lifetime
       PROVE  /\ \A j : In(m, j)' <=> In(m, j) \/ (m = l /\ j = k)
              /\ Once(actions'[m])
              /\ \A j, n : Ordered(actions[m], j, n) /\ j # k => Ordered(actions'[m], j, n)
              /\ \A n : ~In(m, n) /\ n # k => Ordered(actions'[m], k, n)
  <2>1. CASE m = l
    BY <1>11, <2>1 DEF In
  <2>2. CASE m # l
    <3>1. actions'[m] = actions[m] /\ ~Has(actions[m], k) /\ Once(actions[m])
      BY <1>8, <1>9, <2>2 DEF In
    <3>2. \A n : Ordered(actions[m], k, n)
      BY <3>1 DEF Ordered, Has, Contains
    <3> QED BY <2>2, <3>1, <3>2 DEF In
  <2> QED BY <2>1, <2>2
<1>13. LikeTodo
  <2>1. <<>> \in Seq(CallSet) /\ NoClose(<<>>)
    BY NoCloses
  <2> QED BY <1>4, <2>1, JoinQuiet
<1>14. used \in 1..used
  BY <1>2
<1> QED BY <1>2, <1>3, <1>4, <1>5, <1>12, <1>13, <1>14 DEF l

LEMMA AddOrder ==
  ASSUME LifetimeInv, AccountInv, [Next]_vars, NEW t \in Threads, Add(t),
         ~terminated[handed[used]], handed[used] # Eternal, NEW i \in Nat
  PROVE  OrderOf(i)'
<1> DEFINE l == handed[used]
           b == Bracket(i)
           p == Plain(i)
<1>1. /\ UNCHANGED <<ran, removed>> /\ LikeTodo /\ used \in Nat /\ l \in Lifetime
  BY AddMoves
<1>2. PICK k \in {Bracket(used), Plain(used)} :
              /\ k \notin accepted /\ accepted' = accepted \cup {k}
              /\ k = Bracket(used) => Plain(used) \notin accepted
              /\ \A m \in Lifetime : /\ \A j : In(m, j)' <=> In(m, j) \/ (m = l /\ j = k)
                                     /\ Once(actions'[m])
                                     /\ \A j, n : Ordered(actions[m], j, n) /\ j # k => Ordered(actions'[m], j, n)
                                     /\ \A n : ~In(m, n) /\ n # k => Ordered(actions'[m], k, n)
  BY AddMoves
<1>3. /\ b \in accepted /\ (\A m \in Lifetime : ~In(m, b)) => i \in 1..used /\ terminated[handed[i]]
      /\ \A m \in Lifetime : Ordered(actions[m], b, p) /\ (In(m, p) /\ b \in accepted => In(m, b))
      /\ \A u \in Threads : Ordered(todo[u], p, b) /\ (On(u, p) /\ b \in accepted => On(u, b))
      /\ Ran(b) /\ p \in accepted \ removed => \E g, h \in 1..Len(ran) : g < h /\ ran[g] = p /\ ran[h] = b
  BY DEF AccountInv, OrderInv, OrderOf
<1>4. b \in Nat /\ p \in Nat /\ b # p /\ (b = k \/ p = k => i = used)
  BY <1>1, <1>2, Pairs
<1>5. b = k => p \notin accepted
  BY <1>2, <1>4
<1>6. \A m \in Lifetime : In(m, b) /\ i = used => m = l
  BY HomeOf
<1>7. p = k /\ b \in accepted => In(l, b)
  <2> SUFFICES ASSUME p = k, b \in accepted PROVE In(l, b)
    OBVIOUS
  <2>1. PICK m \in Lifetime : In(m, b)
    BY <1>3, <1>4
  <2> QED BY <1>4, <1>6, <2>1
<1>8. /\ \A m \in Lifetime : (In(m, p) => p \in accepted) /\ (In(m, b) => ~Ran(b))
      /\ \A u \in Threads : On(u, p) => p \in accepted
      /\ Ran(b) => b \in accepted
  BY <1>4 DEF AccountInv, PlaceInv
<1> HIDE DEF b, p, l
<1>9. Threads' = Threads /\ Lifetime' = Lifetime
  BY HandedStays
<1>10. i \in 1..used /\ terminated[handed[i]] => i \in 1..used' /\ terminated'[handed'[i]]
  BY HandedStays, TypesStep DEF Lasting
<1>11. b \in accepted' /\ (\A m \in Lifetime : ~In(m, b)') => i \in 1..used' /\ terminated'[handed'[i]]
  BY <1>1, <1>2, <1>3, <1>10
<1>12. ASSUME NEW m \in Lifetime
       PROVE  Ordered(actions'[m], b, p) /\ (In(m, p)' /\ b \in accepted' => In(m, b)')
  <2>1. Ordered(actions'[m], b, p)
    BY <1>2, <1>3, <1>4, <1>5, <1>8
  <2>2. In(m, p)' /\ b \in accepted' => In(m, b)'
    BY <1>2, <1>3, <1>4, <1>5, <1>7, <1>8
  <2> QED BY <2>1, <2>2
<1>13. ASSUME NEW u \in Threads
       PROVE  Ordered(todo'[u], p, b) /\ (On(u, p)' /\ b \in accepted' => On(u, b)')
  <2>1. (On(u, p)' <=> On(u, p)) /\ (On(u, b)' <=> On(u, b)) /\ Ordered(todo'[u], p, b)
    BY <1>1, <1>3, <1>4 DEF LikeTodo, Like, On
  <2> QED BY <1>2, <1>3, <1>5, <1>8, <2>1
<1>14. (Ran(b)' <=> Ran(b)) /\ (Ran(b) => p # k)
  <2>1. Ran(b)' <=> Ran(b)
    BY <1>1 DEF Ran
  <2> QED BY <1>7, <1>8, <1>1, <2>1
<1>15. Ran(b)' /\ p \in accepted' \ removed' => \E g, h \in 1..Len(ran') : g < h /\ ran'[g] = p /\ ran'[h] = b
  BY <1>1, <1>2, <1>3, <1>14
<1> QED BY <1>9, <1>11, <1>12, <1>13, <1>15 DEF OrderOf, b, p

LEMMA AddAccepted ==
  ASSUME LifetimeInv, AccountInv, [Next]_vars, NEW t \in Threads, Add(t),
         ~terminated[handed[used]], handed[used] # Eternal
  PROVE  AccountInv'
<1> DEFINE l == handed[used]
<1>1. /\ UNCHANGED <<ran, removed>> /\ LikeTodo /\ used' = used /\ handed' = handed
      /\ used \in Nat /\ used \in 1..used /\ l \in Lifetime
  BY AddMoves
<1>2. PICK k \in {Bracket(used), Plain(used)} :
              /\ k \notin accepted /\ accepted' = accepted \cup {k}
              /\ k = Bracket(used) => Plain(used) \notin accepted
              /\ \A m \in Lifetime : /\ \A j : In(m, j)' <=> In(m, j) \/ (m = l /\ j = k)
                                     /\ Once(actions'[m])
                                     /\ \A j, n : Ordered(actions[m], j, n) /\ j # k => Ordered(actions'[m], j, n)
                                     /\ \A n : ~In(m, n) /\ n # k => Ordered(actions'[m], k, n)
  BY AddMoves
<1>3. k \in Nat /\ PlaceInv /\ HomeInv
  BY <1>1, <1>2, Pairs DEF AccountInv
<1>4. Threads' = Threads /\ Lifetime' = Lifetime
  BY HandedStays
<1>5. \A j : Ran(j)' <=> Ran(j)
  BY <1>1 DEF Ran
<1>6. \A u \in Threads : (\A j \in Nat : On(u, j)' <=> On(u, j)) /\ Once(todo'[u])
  BY <1>1, <1>3 DEF LikeTodo, Like, On, PlaceInv
<1>7. ~Ran(k) /\ k \notin removed /\ \A u \in Threads : ~On(u, k)
  BY <1>2, <1>3 DEF PlaceInv
<1>8. PlaceInv'
  <2>1. ASSUME NEW j \in Nat PROVE j \in accepted' <=>
       \/ \E m \in Lifetime : In(m, j)'
       \/ \E u \in Threads : On(u, j)'
       \/ Ran(j)' \/ j \in removed
    <3>1. j \in accepted <=>
       \/ \E m \in Lifetime : In(m, j)
       \/ \E u \in Threads : On(u, j)
       \/ Ran(j) \/ j \in removed
      BY <1>3 DEF PlaceInv
    <3> QED BY <1>1, <1>2, <1>5, <1>6, <3>1
  <2>2. \A j \in Nat : \A u, v \in Threads : On(u, j)' /\ On(v, j)' => u = v
    BY <1>3, <1>6 DEF PlaceInv
  <2>3. \A j \in Nat : \A m \in Lifetime : In(m, j)' => ~Ran(j)' /\ j \notin removed /\ \A u \in Threads : ~On(u, j)'
    BY <1>2, <1>3, <1>5, <1>6, <1>7 DEF PlaceInv
  <2>4. \A j \in Nat : \A u \in Threads : On(u, j)' => ~Ran(j)' /\ j \notin removed
    BY <1>3, <1>5, <1>6 DEF PlaceInv
  <2>5. \A j \in Nat : ~(Ran(j)' /\ j \in removed)
    BY <1>3, <1>5 DEF PlaceInv
  <2>6. /\ \A i, j \in 1..Len(ran) : ran[i] = ran[j] => i = j
        /\ removed \subseteq Nat /\ ran \in Seq(Nat) /\ accepted \subseteq Nat
    BY <1>3 DEF PlaceInv
  <2>7. accepted' \subseteq Nat
    BY <1>2, <1>3, <2>6
  <2> QED BY <1>1, <1>2, <1>4, <1>6, <2>1, <2>2, <2>3, <2>4, <2>5, <2>6, <2>7 DEF PlaceInv
<1>9. HomeInv'
  <2> SUFFICES ASSUME NEW m \in Lifetime, NEW j \in Nat, In(m, j)'
               PROVE  m # Eternal /\ \E i \in 1..used : j \in {Bracket(i), Plain(i)} /\ m = handed[i]
    BY <1>1, <1>4 DEF HomeInv
  <2>1. CASE In(m, j)
    BY <1>3, <2>1 DEF HomeInv
  <2>2. CASE m = l /\ j = k
    BY <1>1, <1>2, <2>2
  <2> QED BY <1>2, <2>1, <2>2
<1> QED BY <1>8, <1>9, AddOrder DEF AccountInv, OrderInv

LEMMA AddStep ==
  ASSUME LifetimeInv, AccountInv, [Next]_vars, NEW t \in Threads, Add(t)
  PROVE  AccountInv'
<1>1. t = "scheduler" /\ Step("scheduler")
  BY SchedulerLeft DEF Step
<1>2. Of("scheduler") = used
  BY <1>1, SchedulerSteps
<1>3. CASE terminated[handed[used]] \/ handed[used] = Eternal
  <2>1. UNCHANGED <<ran, removed, actions, accepted>> /\ (Calls(t, <<>>) \/ Throws(t, <<>>))
        /\ (At(t, "closing") \/ At(t, "plain"))
    BY <1>1, <1>2, <1>3 DEF Add
  <2>2. <<>> \in Seq(CallSet) /\ NoClose(<<>>) /\ NoClose(todo["scheduler"])
    BY NoCloses, SchedulerRunsNone
  <2>3. Calls(t, <<>>) => LikeTodo
    BY <2>1, <2>2, JoinQuiet
  <2>4. Throws(t, <<>>) => LikeTodo
    BY <1>1, <2>2, ThrowQuiet
  <2>5. LikeTodo
    BY <2>1, <2>3, <2>4
  <2>6. Quiet
    BY <2>1, <2>5, LikeItself DEF Quiet, LikeTodo
  <2> QED BY <2>6, QuietStep
<1>4. CASE ~terminated[handed[used]] /\ handed[used] # Eternal
  BY <1>4, AddAccepted
<1> QED BY <1>3, <1>4

LEMMA RemoveMoves ==
  ASSUME LifetimeInv, AccountInv, [Next]_vars, NEW t \in Threads, RemoveAction(t)
  PROVE  /\ UNCHANGED <<ran, accepted>> /\ LikeTodo
         /\ used \in Nat /\ handed[used] \in Lifetime
         /\ \/ Quiet
            \/ /\ In(handed[used], Plain(used)) /\ removed' = removed \cup {Plain(used)}
               /\ \A m \in Lifetime :
                    /\ \A j : In(m, j)' <=> In(m, j) /\ ~(m = handed[used] /\ j = Plain(used))
                    /\ Once(actions'[m])
                    /\ \A j, n : Ordered(actions[m], j, n) => Ordered(actions'[m], j, n)
<1> DEFINE l == handed[used]
           k == Plain(used)
           a == Closing(k)
<1>1. t = "scheduler" /\ Step("scheduler")
  BY SchedulerLeft DEF Step
<1>2. /\ used \in Nat /\ used > 0 /\ used' = used /\ used \in 1..Len(handed)
      /\ l \in {Eternal} \cup Made /\ Of("scheduler") = used /\ todo["scheduler"] # <<>>
  BY <1>1, SchedulerSteps
<1>3. l \in Lifetime /\ actions \in [Lifetime -> Seq(CallSet)] /\ Types
  BY <1>2, Numbers, Basics DEF LifetimeInv
<1>4. /\ UNCHANGED <<ran, accepted>> /\ Calls(t, <<>>) /\ At(t, "remove")
      /\ actions' = [actions EXCEPT ![l] = Without(@, a)]
      /\ removed' = removed \cup {j \in {k} : Contains(actions[l], a)}
  BY <1>1, <1>2 DEF RemoveAction
<1>5. k \in Nat /\ PlaceInv
  BY <1>2, Pairs DEF AccountInv
<1>6. LikeTodo
  <2>1. <<>> \in Seq(CallSet) /\ NoClose(<<>>)
    BY NoCloses
  <2> QED BY <1>4, <2>1, JoinQuiet
<1> HIDE DEF l, k, a
<1>7. /\ actions[l] \in Seq(CallSet) /\ \A m \in Lifetime : Once(actions[m])
      /\ actions'[l] = Without(actions[l], a) /\ \A m \in Lifetime : m # l => actions'[m] = actions[m]
  BY <1>3, <1>4, <1>5 DEF PlaceInv
<1>8. Contains(actions[l], a) <=> In(l, k)
  BY DEF In, Has, a
<1>9. CASE ~In(l, k)
  <2>1. removed' = removed
    BY <1>4, <1>8, <1>9
  <2>2. actions'[l] = actions[l]
    BY <1>7, <1>8, <1>9, WithoutFacts
  <2>3. \A m \in Lifetime : actions'[m] = actions[m]
    BY <1>7, <2>2
  <2>4. LikeActions
    BY <2>3, LikeItself DEF LikeActions
  <2>5. Quiet
    BY <1>4, <1>6, <2>1, <2>4 DEF Quiet, LikeActions, LikeTodo
  <2> QED BY <1>2, <1>3, <1>4, <1>6, <2>5 DEF l
<1>10. CASE In(l, k)
  <2>1. removed' = removed \cup {k}
    BY <1>4, <1>8, <1>10
  <2>2. Has(actions[l], k) /\ Once(actions[l])
    BY <1>3, <1>7, <1>10 DEF In
  <2>3. /\ Once(actions'[l])
        /\ \A m : Has(actions'[l], m) <=> Has(actions[l], m) /\ m # k
        /\ \A m, n : Ordered(actions[l], m, n) => Ordered(actions'[l], m, n)
    BY <1>5, <1>7, <2>2, TakenOut DEF a
  <2>4. ASSUME NEW m \in Lifetime
        PROVE  /\ \A j : In(m, j)' <=> In(m, j) /\ ~(m = l /\ j = k)
               /\ Once(actions'[m])
               /\ \A j, n : Ordered(actions[m], j, n) => Ordered(actions'[m], j, n)
    <3>1. CASE m = l
      BY <2>3, <3>1 DEF In
    <3>2. CASE m # l
      BY <1>7, <3>2 DEF In
    <3> QED BY <3>1, <3>2
  <2> QED BY <1>2, <1>3, <1>4, <1>6, <1>10, <2>1, <2>4 DEF l, k
<1> QED BY <1>9, <1>10

LEMMA RemoveOrder ==
  ASSUME LifetimeInv, AccountInv, [Next]_vars, NEW t \in Threads, RemoveAction(t), ~Quiet, NEW i \in Nat
  PROVE  OrderOf(i)'
<1> DEFINE l == handed[used]
           k == Plain(used)
           b == Bracket(i)
           p == Plain(i)
<1>1. /\ UNCHANGED <<ran, accepted>> /\ LikeTodo /\ used \in Nat
      /\ removed' = removed \cup {k}
      /\ \A m \in Lifetime :
                    /\ \A j : In(m, j)' <=> In(m, j) /\ ~(m = l /\ j = k)
                    /\ Once(actions'[m])
                    /\ \A j, n : Ordered(actions[m], j, n) => Ordered(actions'[m], j, n)
  BY RemoveMoves
<1>2. /\ b \in accepted /\ (\A m \in Lifetime : ~In(m, b)) => i \in 1..used /\ terminated[handed[i]]
      /\ \A m \in Lifetime : Ordered(actions[m], b, p) /\ (In(m, p) /\ b \in accepted => In(m, b))
      /\ \A u \in Threads : Ordered(todo[u], p, b) /\ (On(u, p) /\ b \in accepted => On(u, b))
      /\ Ran(b) /\ p \in accepted \ removed => \E g, h \in 1..Len(ran) : g < h /\ ran[g] = p /\ ran[h] = b
  BY DEF AccountInv, OrderInv, OrderOf
<1>3. b \in Nat /\ p \in Nat /\ b # k
  BY <1>1, Pairs
<1> HIDE DEF b, p, l, k
<1>4. Threads' = Threads /\ Lifetime' = Lifetime
  BY HandedStays
<1>5. i \in 1..used /\ terminated[handed[i]] => i \in 1..used' /\ terminated'[handed'[i]]
  BY HandedStays, TypesStep DEF Lasting
<1>6. b \in accepted' /\ (\A m \in Lifetime : ~In(m, b)') => i \in 1..used' /\ terminated'[handed'[i]]
  BY <1>1, <1>2, <1>3, <1>5
<1>7. ASSUME NEW m \in Lifetime
      PROVE  Ordered(actions'[m], b, p) /\ (In(m, p)' /\ b \in accepted' => In(m, b)')
  BY <1>1, <1>2, <1>3
<1>8. ASSUME NEW u \in Threads
      PROVE  Ordered(todo'[u], p, b) /\ (On(u, p)' /\ b \in accepted' => On(u, b)')
  <2>1. (On(u, p)' <=> On(u, p)) /\ (On(u, b)' <=> On(u, b)) /\ Ordered(todo'[u], p, b)
    BY <1>1, <1>2, <1>3 DEF LikeTodo, Like, On
  <2> QED BY <1>1, <1>2, <2>1
<1>9. Ran(b)' <=> Ran(b)
  BY <1>1 DEF Ran
<1>10. Ran(b)' /\ p \in accepted' \ removed' => \E g, h \in 1..Len(ran') : g < h /\ ran'[g] = p /\ ran'[h] = b
  BY <1>1, <1>2, <1>9
<1> QED BY <1>4, <1>6, <1>7, <1>8, <1>10 DEF OrderOf, b, p

LEMMA RemoveStep ==
  ASSUME LifetimeInv, AccountInv, [Next]_vars, NEW t \in Threads, RemoveAction(t)
  PROVE  AccountInv'
<1>1. CASE Quiet
  BY <1>1, QuietStep
<1>2. CASE ~Quiet
  <2> DEFINE l == handed[used]
             k == Plain(used)
  <2>1. /\ UNCHANGED <<ran, accepted>> /\ LikeTodo /\ used \in Nat /\ l \in Lifetime
        /\ In(l, k) /\ removed' = removed \cup {k}
        /\ \A m \in Lifetime :
                    /\ \A j : In(m, j)' <=> In(m, j) /\ ~(m = l /\ j = k)
                    /\ Once(actions'[m])
                    /\ \A j, n : Ordered(actions[m], j, n) => Ordered(actions'[m], j, n)
    BY <1>2, RemoveMoves
  <2>2. k \in Nat /\ PlaceInv
    BY <2>1, Pairs DEF AccountInv
  <2>3. \A m \in Lifetime : In(m, k) => m = l
    BY <2>1, HomeOf
  <2> HIDE DEF k, l
  <2>4. Threads' = Threads /\ Lifetime' = Lifetime
    BY HandedStays
  <2>5. \A j : Ran(j)' <=> Ran(j)
    BY <2>1 DEF Ran
  <2>6. \A u \in Threads : (\A j \in Nat : On(u, j)' <=> On(u, j)) /\ Once(todo'[u])
    BY <2>1, <2>2 DEF LikeTodo, Like, On, PlaceInv
  <2>7. ~Ran(k) /\ k \in accepted /\ \A u \in Threads : ~On(u, k)
    BY <2>1, <2>2 DEF PlaceInv
  <2>8. PlaceInv'
    <3>1. ASSUME NEW j \in Nat PROVE j \in accepted' <=>
       \/ \E m \in Lifetime : In(m, j)'
       \/ \E u \in Threads : On(u, j)'
       \/ Ran(j)' \/ j \in removed'
      <4>1. j \in accepted <=>
       \/ \E m \in Lifetime : In(m, j)
       \/ \E u \in Threads : On(u, j)
       \/ Ran(j) \/ j \in removed
        BY <2>2 DEF PlaceInv
      <4>2. CASE j = k
        BY <2>1, <2>7, <4>2
      <4>3. CASE j # k
        BY <2>1, <2>5, <2>6, <4>1, <4>3
      <4> QED BY <4>2, <4>3
    <3>2. \A j \in Nat : \A u, v \in Threads : On(u, j)' /\ On(v, j)' => u = v
      BY <2>2, <2>6 DEF PlaceInv
    <3>3. \A j \in Nat : \A m \in Lifetime : In(m, j)' => ~Ran(j)' /\ j \notin removed' /\ \A u \in Threads : ~On(u, j)'
      <4> SUFFICES ASSUME NEW j \in Nat, NEW m \in Lifetime, In(m, j)'
                   PROVE  ~Ran(j)' /\ j \notin removed' /\ \A u \in Threads : ~On(u, j)'
        OBVIOUS
      <4>1. In(m, j) /\ j # k
        BY <2>1, <2>3
      <4> QED BY <2>1, <2>2, <2>5, <2>6, <4>1 DEF PlaceInv
    <3>4. \A j \in Nat : \A u \in Threads : On(u, j)' => ~Ran(j)' /\ j \notin removed'
      BY <2>1, <2>2, <2>5, <2>6, <2>7 DEF PlaceInv
    <3>5. \A j \in Nat : ~(Ran(j)' /\ j \in removed')
      BY <2>1, <2>2, <2>5, <2>7 DEF PlaceInv
    <3>6. /\ \A i, j \in 1..Len(ran) : ran[i] = ran[j] => i = j
          /\ removed \subseteq Nat /\ ran \in Seq(Nat) /\ accepted \subseteq Nat
      BY <2>2 DEF PlaceInv
    <3>7. removed' \subseteq Nat
      BY <2>1, <2>2, <3>6
    <3> QED BY <2>1, <2>4, <2>6, <3>1, <3>2, <3>3, <3>4, <3>5, <3>6, <3>7 DEF PlaceInv
  <2>9. HomeInv'
    BY <2>1, HomeKept
  <2> QED BY <1>2, <2>8, <2>9, RemoveOrder DEF AccountInv, OrderInv
<1> QED BY <1>1, <1>2

-----------------------------------------------------------------------------
(* Every action is accounted for.                                          *)

LEMMA AccountInit == Init => AccountInv
<1> SUFFICES ASSUME Init PROVE AccountInv
  OBVIOUS
<1>1. /\ accepted = {} /\ removed = {} /\ ran = <<>>
      /\ \A t \in Threads : todo[t] = <<>>
  BY DEF Init
<1>2. LifetimeInv
  BY LifetimeInit
<1>3. ASSUME NEW l \in Lifetime PROVE NoClose(actions[l])
  <2>1. CASE l \in {Root, View}
    BY <1>2, <2>1, OuterNone
  <2>2. CASE l \notin {Root, View}
    <3>1. actions[l] = <<>>
      BY <2>2 DEF Init
    <3> QED BY <3>1, NoCloses
  <2> QED BY <2>1, <2>2
<1>4. \A l \in Lifetime : Once(actions[l]) /\ (\A k : ~In(l, k)) /\ \A j, k : Ordered(actions[l], j, k)
  BY <1>3, NoneOf DEF In
<1>5. NoClose(<<>>)
  BY NoCloses
<1>6. Once(<<>>) /\ (\A k : ~Has(<<>>, k)) /\ \A j, k : Ordered(<<>>, j, k)
  BY <1>5, NoneOf
<1>7. \A t \in Threads : Once(todo[t]) /\ (\A k : ~On(t, k)) /\ \A j, k : Ordered(todo[t], j, k)
  BY <1>1, <1>6 DEF On
<1>8. \A k : ~Ran(k)
  BY <1>1 DEF Ran, Contains
<1>9. PlaceInv
  <2>1. \A i, j \in 1..Len(ran) : ran[i] = ran[j] => i = j
    BY <1>1
  <2>2. removed \subseteq Nat /\ ran \in Seq(Nat) /\ accepted \subseteq Nat
    BY <1>1
  <2> QED BY <1>1, <1>4, <1>7, <1>8, <2>1, <2>2 DEF PlaceInv
<1>10. HomeInv
  BY <1>4 DEF HomeInv
<1>11. OrderInv
  BY <1>1, <1>4, <1>7, <1>8 DEF OrderInv, OrderOf
<1> QED BY <1>9, <1>10, <1>11 DEF AccountInv

LEMMA AccountStep ==
  ASSUME LifetimeInv, AccountInv, [Next]_vars
  PROVE  AccountInv'
<1>1. CASE UNCHANGED vars
  <2>1. UNCHANGED <<actions, todo, accepted, removed, ran>>
    BY <1>1 DEF vars, lifetimeVars, historyVars
  <2>2. Quiet
    BY <2>1, LikeItself DEF Quiet
  <2> QED BY <2>2, QuietStep
<1>2. CASE Set \/ Use \/ Shutdown
  BY <1>2, StartQuiet, QuietStep
<1>3. ASSUME NEW t \in Threads, Step(t) PROVE AccountInv'
  <2>1. CASE Terminate(t) \/ Erase(t) \/ Tear(t)
    BY <2>1, EndQuiet, QuietStep
  <2>2. CASE Attach(t) \/ AttachBack(t)
    BY <2>2, AttachQuiet, QuietStep
  <2>3. CASE Swap(t) \/ WriteCurrent(t) \/ Return(t) \/ Before(t) \/ Change(t) \/ Open(t)
    BY <2>3, CallQuiet, QuietStep
  <2>4. CASE Take(t)
    BY <2>4, TakeStep
  <2>5. CASE Close(t)
    BY <2>5, CloseStep
  <2>6. CASE Add(t)
    BY <2>6, AddStep
  <2>7. CASE RemoveAction(t)
    BY <2>7, RemoveStep
  <2> QED BY <1>3, <2>1, <2>2, <2>3, <2>4, <2>5, <2>6, <2>7 DEF Step
<1> QED BY <1>1, <1>2, <1>3 DEF Next

\* Where the actions are, and in which order (add_action, remove_action,
\* terminate): the inductive invariant of the scheduler's actions.
THEOREM LifetimesAccount == Spec => []AccountInv
<1>1. LifetimeInv /\ AccountInv /\ [Next]_vars => AccountInv'
  BY AccountStep
<1> QED BY AccountInit, <1>1, LifetimesInvariant, PTL DEF Spec

LEMMA TypesOK ==
  ASSUME LifetimeInv
  PROVE  TypeOK
<1>1. /\ Types /\ ActionsInv /\ created \in Nat /\ created >= 2 /\ MaxChanges \in Nat
      /\ Eternal = 0 /\ Root = 1 /\ View = 2
  BY Basics, LifetimesAssumption DEF LifetimeInv
<1>2. ASSUME NEW l \in Lifetime, NEW i \in 1..Len(actions[l])
      PROVE  actions[l][i].does \in {"terminate", "detach", "swap", "close"}
  <2>1. ActionOf(l, actions[l][i])
    BY <1>1 DEF ActionsInv
  <2>2. \A n : /\ Ends(n).does = "terminate" /\ Detach(n).does = "detach" /\ Reset.does = "swap"
               /\ Closing(n).does = "close"
    BY DEF Ends, Detach, Reset, Closing, Do
  <2> QED BY <2>1, <2>2 DEF ActionOf
<1>3. created \in View..(MaxChanges + View)
  BY <1>1 DEF Types
<1>4. current_def \in {Eternal} \cup (View + 1)..created
  BY <1>1 DEF Types, Current, Made
<1>5. /\ terminated \in [Lifetime -> BOOLEAN] /\ ~terminated[Eternal]
      /\ handed \in Seq({Eternal} \cup (View + 1)..created)
      /\ used \in 0..Len(handed) /\ changes \in 0..MaxChanges
  BY <1>1 DEF Types, Made
<1> QED BY <1>2, <1>3, <1>4, <1>5 DEF TypeOK

LEMMA RunOnceHolds ==
  ASSUME AccountInv
  PROVE  RunOnce
<1>1. PlaceInv
  BY DEF AccountInv
<1>2. ASSUME NEW k \in accepted
      PROVE  Cardinality({c \in {"pending", "ran", "removed"} :
               \/ c = "pending" /\ Pending(k)
               \/ c = "ran" /\ Contains(ran, k)
               \/ c = "removed" /\ k \in removed}) = 1
  <2> DEFINE S == {c \in {"pending", "ran", "removed"} :
               \/ c = "pending" /\ Pending(k)
               \/ c = "ran" /\ Contains(ran, k)
               \/ c = "removed" /\ k \in removed}
  <2>1. k \in Nat
    BY <1>1 DEF PlaceInv
  <2>2. Pending(k) <=> (\E l \in Lifetime : In(l, k)) \/ \E t \in Threads : On(t, k)
    BY DEF Pending, In, On, Has
  <2>3. Contains(ran, k) <=> Ran(k)
    BY DEF Ran
  <2>4. /\ Pending(k) \/ Contains(ran, k) \/ k \in removed
        /\ Pending(k) => ~Contains(ran, k) /\ k \notin removed
        /\ ~(Contains(ran, k) /\ k \in removed)
    BY <1>1, <2>1, <2>2, <2>3 DEF PlaceInv
  <2>5. S = {"pending"} \/ S = {"ran"} \/ S = {"removed"}
    BY <2>4
  <2>6. Cardinality({"pending"}) = 1 /\ Cardinality({"ran"}) = 1 /\ Cardinality({"removed"}) = 1
    BY FS_Singleton
  <2> QED BY <2>5, <2>6
<1>3. IsInjective(ran)
  <2>1. ran \in Seq(Nat) /\ DOMAIN ran = 1..Len(ran)
    BY <1>1 DEF PlaceInv
  <2> QED BY <1>1, <2>1 DEF PlaceInv, IsInjective
<1>4. ToSet(ran) \subseteq accepted
  <2>1. ran \in Seq(Nat)
    BY <1>1 DEF PlaceInv
  <2>2. \A k \in ToSet(ran) : k \in Nat /\ Ran(k)
    BY <2>1 DEF ToSet, Ran, Contains
  <2> QED BY <1>1, <2>2 DEF PlaceInv
<1> QED BY <1>2, <1>3, <1>4 DEF RunOnce

\* An action that add_action accepted is pending, run or removed, and only one
\* of these, and a bracket is closed after the plain action added later was run
\* (add_action, remove_action, terminate).
THEOREM LifetimesAccountActions == Spec => []ActionsAccounted
<1>1. LifetimeInv => TypeOK
  BY TypesOK
<1>2. AccountInv => RunOnce
  BY RunOnceHolds
<1>3. LifetimeInv /\ AccountInv => ReverseOrder
  <2> SUFFICES ASSUME LifetimeInv, AccountInv, NEW i \in 1..Len(handed),
                      Contains(ran, Bracket(i)), Plain(i) \in accepted \ removed
               PROVE  \E j, k \in 1..Len(ran) : j < k /\ ran[j] = Plain(i) /\ ran[k] = Bracket(i)
    BY DEF ReverseOrder
  <2>1. i \in Nat
    BY DEF LifetimeInv, Types
  <2>2. OrderOf(i)
    BY <2>1 DEF AccountInv, OrderInv
  <2> QED BY <2>2 DEF OrderOf, Ran
<1>4. LifetimeInv /\ AccountInv => ActionsAccounted
  BY <1>1, <1>2, <1>3 DEF ActionsAccounted
<1> QED BY <1>4, LifetimesInvariant, LifetimesAccount, PTL

=============================================================================
