----------------------------- MODULE SocketWire -----------------------------
(***************************************************************************)
(* The RD wire in one direction: AsyncProcessor at the sending end, and at *)
(* the other end the reading half of SocketWire.cpp (read_header,          *)
(* read_package, send_ack, read_and_dispatch_message) over PkgInputStream. *)
(* The ends are two processes; the other direction is the same and         *)
(* independent of this one, as long as no send blocks for ever.            *)
(*                                                                         *)
(* `line` of AsyncProcessor is what was sent on the socket and is not yet  *)
(* acknowledged.  Here it has two parts: acknowledgements on their way     *)
(* back, for the first `returning` numbers, then packages on their way.    *)
(*                                                                         *)
(* One message is one package (send puts whole messages), so a reader that *)
(* is in step reads length, id and body of a message out of one package.   *)
(* Handlers do not throw: dispatch only queues them.                       *)
(***************************************************************************)
EXTENDS AsyncProcessor

VARIABLES
  returning,          \* how many numbers at the front of line were read and acknowledged
  leftover,           \* packages that can still be read of a connection that broke
  max_received_seqn,
  stray,              \* bytes of duplicates ahead of the next message's length
  in_step,            \* no length was made of them: messages begin where packages do
  dispatched          \* messages handed to the broker, in order

reader == <<max_received_seqn, stray, in_step, dispatched>>
wireVars == <<vars, returning, leftover, reader>>

\* read_integral<int32_t> for the length of a message.
LengthBytes == 4

WireInit ==
  /\ Init
  /\ returning = 0 /\ leftover = <<>>
  /\ max_received_seqn = 0 /\ stray = 0 /\ in_step = TRUE /\ dispatched = <<>>

-----------------------------------------------------------------------------
(* The sending end and the connection.                                     *)

\* Steps of the sending end that the connection and the reader do not see,
\* or only by what is added to the end of line.
SenderStep ==
  /\ \/ Start \/ Put \/ AsyncThread
     \/ ResumeLock \/ Resume \/ PauseLock \/ PauseEnd \/ WireReturn
     \/ Stop \/ Cleanup
  /\ UNCHANGED <<returning, leftover, reader>>

\* A reader accepts or makes a new connection after it has read all it can of
\* the old one.  A length of which only a part came is given up with that.
Reconnect ==
  /\ Connect /\ leftover = <<>>
  /\ returning' = 0
  /\ stray' = 0
  /\ UNCHANGED <<leftover, max_received_seqn, in_step, dispatched>>

\* Mutant of AcknowledgeRead: it is read before it is sent.
AcknowledgeRead_Early ==
  /\ Acknowledge
  /\ returning' = returning - 1
  /\ UNCHANGED <<leftover, reader>>

AcknowledgeRead ==
  /\ returning > 0 /\ Acknowledge
  /\ returning' = returning - 1
  /\ UNCHANGED <<leftover, reader>>

\* A connection ends: of the packages on their way some still arrive.
StillArrive ==
  \E n \in returning..Len(line) : leftover' = SubSeq(line, returning + 1, n)

\* It breaks: some acknowledgements arrive, too, and nothing more is answered.
BreakLink ==
  /\ Break /\ Len(line') <= returning
  /\ returning' = Len(line')
  /\ StillArrive
  /\ UNCHANGED reader

\* It is closed at the sending end.
CloseLink ==
  /\ CloseSockets
  /\ IF socket = "alive" THEN StillArrive ELSE UNCHANGED leftover
  /\ UNCHANGED <<returning, reader>>

-----------------------------------------------------------------------------
(* The reading end.                                                        *)

\* Mutant of Duplicate: the bound is one too high.
Duplicate_OneMore(s) == s <= max_received_seqn + 1 /\ s # 1

\* The first package is never taken for a duplicate: a counterpart that starts
\* anew starts with it.
Duplicate(s) == s <= max_received_seqn /\ s # 1

\* read_package returns `true` for a duplicate, and PkgInputStream takes it for
\* a length: one byte of the package enters the stream, ahead of the length of
\* the next message.
DropDuplicate ==
  /\ stray' = IF in_step THEN stray + 1 ELSE stray
  /\ in_step' = (in_step /\ stray' < LengthBytes)
  /\ UNCHANGED <<max_received_seqn, dispatched>>

\* A new package.  After a stray byte the length is made of it and of what
\* should be a length: the message is 256 times as long at least, and swallows
\* the packages that follow.
Take(s) ==
  /\ max_received_seqn' = s
  /\ in_step' = (in_step /\ stray = 0)
  /\ dispatched' = IF in_step' THEN Append(dispatched, s) ELSE dispatched
  /\ UNCHANGED stray

ReadPackage(s) == IF Duplicate(s) THEN DropDuplicate ELSE Take(s)

\* Mutant of ReadAlive: a duplicate is not acknowledged.
ReadAlive_NewOnly ==
  /\ socket = "alive" /\ returning < Len(line)
  /\ ReadPackage(line[returning + 1])
  /\ IF Duplicate(line[returning + 1])
     THEN /\ line' = SubSeq(line, 1, returning) \o SubSeq(line, returning + 2, Len(line))
          /\ UNCHANGED <<returning, connections, socket, queue, data, pending_queue>>
     ELSE returning' = returning + 1 /\ UNCHANGED <<link, buffers>>
  /\ UNCHANGED <<state, seqns, interrupt_balance, puts, thread, wire, closer, leftover>>

\* A package is read and acknowledged, a duplicate as well.
ReadAlive ==
  /\ socket = "alive" /\ returning < Len(line)
  /\ returning' = returning + 1
  /\ ReadPackage(line[returning + 1])
  /\ UNCHANGED <<vars, leftover>>

\* The connection has ended: its acknowledgement goes nowhere.
ReadDead ==
  /\ socket = "dead" /\ leftover # <<>>
  /\ leftover' = Tail(leftover)
  /\ ReadPackage(Head(leftover))
  /\ UNCHANGED <<vars, returning>>

-----------------------------------------------------------------------------
WireNext ==
  \/ SenderStep \/ Reconnect \/ AcknowledgeRead \/ BreakLink \/ CloseLink
  \/ ReadAlive \/ ReadDead

WireSpec == WireInit /\ [][WireNext]_wireVars

\* As in AsyncProcessor; what has arrived is read, at both ends.
WireFairness ==
  /\ WF_wireVars(Start /\ UNCHANGED <<returning, leftover, reader>>)
  /\ WF_wireVars(AsyncThread /\ UNCHANGED <<returning, leftover, reader>>)
  /\ WF_wireVars((ResumeLock \/ Resume \/ PauseLock \/ PauseEnd)
                 /\ UNCHANGED <<returning, leftover, reader>>)
  /\ WF_wireVars(ReadAlive \/ ReadDead) /\ WF_wireVars(AcknowledgeRead)

WireFairSpec == WireSpec /\ WireFairness

-----------------------------------------------------------------------------
(* Properties.                                                             *)

\* Types of the variables added here.
WireTypes ==
  /\ returning \in 0..Len(line)
  /\ leftover \in Seq(Nat)
  /\ max_received_seqn \in Nat /\ dispatched \in Seq(Nat)
  /\ stray \in 0..LengthBytes /\ in_step \in BOOLEAN /\ (in_step => stray < LengthBytes)

\* Types of the variables of both ends.
WireTypeOK == TypeOK /\ WireTypes

\* The counterpart behaves as AsyncProcessor expects of it: it acknowledges, in
\* the order received, what was received on this connection, and nothing else.
SenderPromise == Spec

\* On the first connection every message is dispatched once, in the order of
\* the sends, whatever the threads of the sending end do.
FirstConnectionExact ==
  connections = 1 =>
    in_step /\ stray = 0 /\ \A i \in 1..Len(dispatched) : dispatched[i] = i

\* Across reconnections and resends no message is dispatched twice, unless the
\* first package was sent again.
TwiceOnlyFromStart ==
  \A i, j \in 1..Len(dispatched) :
    i < j /\ dispatched[i] = dispatched[j] => \E k \in (i + 1)..j : dispatched[k] = 1

\* What the reading end hands on, over connections, resends and duplicates
\* (read_package).
ReaderSafe == FirstConnectionExact /\ TwiceOnlyFromStart

\* On a connection that lasts everything sent is acknowledged in the end,
\* whatever was lost with the connections before.
AllAcknowledged == (<>[]Connected) => <>[](max_sent_seqn <= acknowledged_seqn)

\* What the assertion in SocketWire.cpp:366 says of messages: read whole.
MessagesAreWhole == in_step

\* What IWire.h:36 says of send: the block is sent.  A package the sending end
\* forgets has been read at the other.
ForgottenWasRead ==
  in_step => \A s \in 1..(current_seqn - 1) : \E i \in 1..Len(dispatched) : dispatched[i] = s

=============================================================================
