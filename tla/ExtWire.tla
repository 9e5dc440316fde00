------------------------------ MODULE ExtWire ------------------------------
(***************************************************************************)
(* ExtWire, the wire of a model: what is sent before the counterpart is    *)
(* ready waits in sendQ, and the listener of connected sends it on.        *)
(*                                                                         *)
(* send() looks at sendQ and connected under the lock but calls the real   *)
(* wire after it has let go; connected is set by whichever thread handles  *)
(* the counterpart's message, and its listener, which empties the queue    *)
(* under the lock, runs some time after the value has changed.  set()      *)
(* compares and assigns without a lock: two threads that cross there set   *)
(* one after the other, or notify once more, which sends nothing.          *)
(***************************************************************************)
EXTENDS Naturals, Sequences

CONSTANTS
  Threads,  \* the threads that handle messages of the counterpart
  Senders,  \* the threads that send
  MaxSends  \* bound: sends of a thread through one model

ASSUME MaxSendsAssumption == MaxSends \in Nat

VARIABLES
  connected,  \* Property<bool> connected
  sendQ,      \* messages that wait for the counterpart
  setting,    \* threads between setting connected and the end of its listener
  passed,     \* senders between the look at the queue and the real wire's send
  sent,       \* sends each sender began
  onWire      \* messages given to the real wire

extVars == <<connected, sendQ, setting, passed, sent, onWire>>

Message(s, n) == [sender |-> s, number |-> n]

Messages == [sender : Senders, number : Nat]

NewExtWire ==
  /\ connected = FALSE /\ sendQ = <<>> /\ setting = {}
  /\ passed = {} /\ sent = [s \in Senders |-> 0] /\ onWire = <<>>

\* connected.set(b): nothing happens when it has that value already, and the
\* listener does nothing for false.
SetConnected(t, b) ==
  /\ t \notin setting
  /\ connected' = b
  /\ setting' = IF b /\ ~connected THEN setting \union {t} ELSE setting
  /\ UNCHANGED <<sendQ, passed, sent, onWire>>

\* Mutant: one message for each time the counterpart gets ready.
SendQueued_One(t) ==
  /\ t \in setting
  /\ setting' = setting \ {t}
  /\ IF sendQ = <<>>
       THEN UNCHANGED <<sendQ, onWire>>
       ELSE sendQ' = Tail(sendQ) /\ onWire' = Append(onWire, Head(sendQ))
  /\ UNCHANGED <<connected, passed, sent>>

\* The listener: everything in the queue, under the lock.
SendQueued(t) ==
  /\ t \in setting
  /\ setting' = setting \ {t}
  /\ onWire' = onWire \o sendQ
  /\ sendQ' = <<>>
  /\ UNCHANGED <<connected, passed, sent>>

\* Mutant: a send does not look at the queue.
Send_Overtaking(s) ==
  /\ s \notin passed /\ sent[s] < MaxSends
  /\ sent' = [sent EXCEPT ![s] = @ + 1]
  /\ IF ~connected
       THEN sendQ' = Append(sendQ, Message(s, sent[s] + 1)) /\ UNCHANGED passed
       ELSE passed' = passed \union {s} /\ UNCHANGED sendQ
  /\ UNCHANGED <<connected, setting, onWire>>

\* send() up to the end of its locked part.
Send(s) ==
  /\ s \notin passed /\ sent[s] < MaxSends
  /\ sent' = [sent EXCEPT ![s] = @ + 1]
  /\ IF sendQ # <<>> \/ ~connected
       THEN sendQ' = Append(sendQ, Message(s, sent[s] + 1)) /\ UNCHANGED passed
       ELSE passed' = passed \union {s} /\ UNCHANGED sendQ
  /\ UNCHANGED <<connected, setting, onWire>>

\* realWire->send(...), after the lock.
SendOn(s) ==
  /\ s \in passed
  /\ passed' = passed \ {s}
  /\ onWire' = Append(onWire, Message(s, sent[s]))
  /\ UNCHANGED <<connected, sendQ, setting, sent>>

\* A new model has a new wire.  Nobody sends while it is made.
Renew ==
  /\ passed = {}
  /\ connected' = FALSE /\ sendQ' = <<>> /\ setting' = {}
  /\ passed' = {} /\ sent' = [s \in Senders |-> 0] /\ onWire' = <<>>

ExtNext ==
  \/ \E t \in Threads : SendQueued(t) \/ \E b \in BOOLEAN : SetConnected(t, b)
  \/ \E s \in Senders : Send(s) \/ SendOn(s)
  \/ Renew

ExtSpec == NewExtWire /\ [][ExtNext]_extVars

-----------------------------------------------------------------------------

ExtTypeOK ==
  /\ connected \in BOOLEAN
  /\ sendQ \in Seq(Messages) /\ onWire \in Seq(Messages)
  /\ setting \subseteq Threads /\ passed \subseteq Senders
  /\ sent \in [Senders -> Nat]

\* What is given to the real wire, now or when the counterpart is ready, has
\* what each thread sent in the order it was sent, whatever connected does
\* between a send's look at the queue and its call of the real wire.
Accepted == onWire \o sendQ

SentInOrder ==
  /\ \A i, j \in 1..Len(Accepted) :
       i < j /\ Accepted[i].sender = Accepted[j].sender => Accepted[i].number < Accepted[j].number
  /\ \A s \in Senders \ passed : \A n \in 1..sent[s] :
       \E i \in 1..Len(Accepted) : Accepted[i] = Message(s, n)

\* Nothing stays in the queue of a connected model: somebody is about to send
\* it.  A send that found the queue not empty relies on that.
NothingStuck == connected /\ setting = {} => sendQ = <<>>

\* What send promises each thread (ExtWire.cpp): nothing lost, nothing
\* reordered, and nothing kept back once the counterpart is there.
SendSafe == SentInOrder /\ NothingStuck

=============================================================================
