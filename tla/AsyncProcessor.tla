--------------------------- MODULE AsyncProcessor ---------------------------
(***************************************************************************)
(* The sending half of the RD wire: ByteBufferAsyncProcessor.cpp, with the *)
(* two threads SocketWire.cpp runs over it (the async thread and the wire  *)
(* thread, which also reads) and the callers of send.                      *)
(*                                                                         *)
(* Packages are named by the order in which put accepts them, 1, 2, ...    *)
(* `lock` is held across several steps only by resume and pause, both on   *)
(* the wire thread, so its holder is read off that thread's position; the  *)
(* async thread holds queue_lock and processing_lock for the whole of      *)
(* process().  Waking up is merged into the step that notifies, and the    *)
(* resends of reprocess() are one step: the locks keep every other thread  *)
(* out and a socket that dies under way loses a suffix of them either way. *)
(*                                                                         *)
(* Of the counterpart only its acknowledgements are here: it acknowledges  *)
(* what it receives on a connection in the order received.  terminate() of *)
(* the processor has no caller.                                            *)
(***************************************************************************)
EXTENDS Naturals, Sequences

CONSTANTS
  MaxPackages,     \* bound: packages put
  MaxConnections   \* bound: connections made one after the other

ASSUME AsyncAssumption == MaxPackages \in Nat /\ MaxConnections \in Nat

VARIABLES
  state,             \* StateKind, without Terminating
  data,              \* put, not yet taken by the async thread
  queue,             \* taken, not yet sent
  pending_queue,     \* sent, kept until acknowledged
  max_sent_seqn, current_seqn, acknowledged_seqn,
  interrupt_balance, \* pauses minus resumes
  puts,              \* packages accepted so far
  thread,            \* where the async thread is
  wire,              \* where the wire thread is
  socket,            \* "none", "alive" or "dead": the socket sends go to
  line,              \* sequence numbers sent on this socket, not yet acknowledged
  connections,       \* connections made so far
  closer             \* where the termination of the wire's lifetime is

buffers == <<data, queue, pending_queue>>
seqns == <<max_sent_seqn, current_seqn, acknowledged_seqn>>
link == <<socket, line, connections>>
vars == <<state, buffers, seqns, interrupt_balance, puts, thread, wire, link, closer>>

\* The processor as SocketWire::Base constructs it, after pause("initial").
Init ==
  /\ state = "Initialized"
  /\ data = <<>> /\ queue = <<>> /\ pending_queue = <<>>
  /\ max_sent_seqn = 0 /\ current_seqn = 1 /\ acknowledged_seqn = 0
  /\ interrupt_balance = 1
  /\ puts = 0
  /\ thread = "none"
  /\ wire = "constructed"
  /\ socket = "none" /\ line = <<>> /\ connections = 0
  /\ closer = "none"

-----------------------------------------------------------------------------
(* Locks and wakeups.                                                      *)

LockFree == wire \notin {"resuming", "pausing"}

\* The async thread is inside process().
Processing == thread \in {"process", "sent"}

QueueLockFree == ~Processing

\* Mutant of Notified: notify_all is forgotten.
Notified_Lost(t) == t

\* cv.notify_all: the async thread is the only one that waits on cv.
Notified(t) == IF t = "wait" THEN "check" ELSE t

\* The async thread may take the data: there is some, and nobody has paused.
Ready == data # <<>> /\ interrupt_balance = 0

-----------------------------------------------------------------------------
(* Callers.                                                                *)

Start ==
  /\ state = "Initialized"
  /\ state' = "AsyncProcessing" /\ thread' = "check" /\ wire' = "down"
  /\ UNCHANGED <<buffers, seqns, interrupt_balance, puts, link, closer>>

\* put; once the processor is stopping packages are dropped, which changes nothing.
Put ==
  /\ puts < MaxPackages
  /\ LockFree /\ state = "AsyncProcessing"
  /\ puts' = puts + 1
  /\ data' = Append(data, puts')
  /\ thread' = Notified(thread)
  /\ UNCHANGED <<state, queue, pending_queue, seqns, interrupt_balance, wire, link, closer>>

-----------------------------------------------------------------------------
(* The async thread: ThreadProc and process.                               *)

ThreadReturn ==
  /\ thread = "check" /\ LockFree
  /\ state = "Terminated" \/ (state = "Stopping" /\ ~Ready)
  /\ thread' = "done"
  /\ UNCHANGED <<state, buffers, seqns, interrupt_balance, puts, wire, link, closer>>

ThreadWait ==
  /\ thread = "check" /\ LockFree
  /\ state = "AsyncProcessing" /\ ~Ready
  /\ thread' = "wait"
  /\ UNCHANGED <<state, buffers, seqns, interrupt_balance, puts, wire, link, closer>>

\* add_data: the lock is given back before process() takes the others.
TakeData ==
  /\ thread = "check" /\ LockFree
  /\ state # "Terminated" /\ Ready
  /\ queue' = queue \o data /\ data' = <<>>
  /\ thread' = "taken"
  /\ UNCHANGED <<state, pending_queue, seqns, interrupt_balance, puts, wire, link, closer>>

ProcessBegin ==
  /\ thread = "taken"
  /\ thread' = "process"
  /\ UNCHANGED <<state, buffers, seqns, interrupt_balance, puts, wire, link, closer>>

\* send0 of the front.  On a live socket it succeeds; a dead one reports the
\* failure or swallows the package.
ProcessSend ==
  /\ thread = "process" /\ queue # <<>>
  /\ \/ /\ thread' = "sent"
        /\ line' = IF socket = "alive" THEN Append(line, max_sent_seqn + 1) ELSE line
     \/ /\ socket # "alive"
        /\ thread' = "check" /\ UNCHANGED line
  /\ UNCHANGED <<state, buffers, seqns, interrupt_balance, puts, wire, socket, connections, closer>>

\* The front was sent: it moves to the pending queue.
ProcessMove ==
  /\ thread = "sent"
  /\ max_sent_seqn' = max_sent_seqn + 1
  /\ pending_queue' = Append(pending_queue, Head(queue))
  /\ queue' = Tail(queue)
  /\ thread' = "process"
  /\ UNCHANGED <<state, data, current_seqn, acknowledged_seqn, interrupt_balance, puts, wire, link, closer>>

ProcessEnd ==
  /\ thread = "process" /\ queue = <<>>
  /\ thread' = "check"
  /\ UNCHANGED <<state, buffers, seqns, interrupt_balance, puts, wire, link, closer>>

-----------------------------------------------------------------------------
(* The wire thread: set_socket_provider for one connection after another.  *)

\* A connection is accepted and becomes the socket sends go to.  One accepted
\* after the lifetime has been terminated is closed first.
Connect ==
  /\ wire = "down" /\ closer # "closed"
  /\ connections < MaxConnections
  /\ connections' = connections + 1
  /\ socket' = IF closer = "none" THEN "alive" ELSE "dead"
  /\ line' = <<>>
  /\ wire' = "provided"
  /\ UNCHANGED <<state, buffers, seqns, interrupt_balance, puts, thread, closer>>

ResumeLock ==
  /\ wire = "provided"
  /\ wire' = "resuming"
  /\ UNCHANGED <<state, buffers, seqns, interrupt_balance, puts, thread, link, closer>>

\* Mutant of Acked: the bound is one too high.
Acked_OneMore ==
  IF current_seqn <= acknowledged_seqn + 1 /\ pending_queue # <<>>
  THEN acknowledged_seqn - current_seqn + 2 ELSE 0

\* How many packages at the front of the pending queue have been acknowledged.
Acked == IF current_seqn <= acknowledged_seqn THEN acknowledged_seqn - current_seqn + 1 ELSE 0

\* Mutant of Resent: only new packages are sent.
Resent_Nothing(q, first) == <<>>

\* The numbers under which the packages of q are sent again.
Resent(q, first) == [i \in 1..Len(q) |-> first + i - 1]

\* reprocess, under all three locks: acknowledged packages are dropped and the
\* others sent again.  Its result is ignored; the pause ends either way.
Resume ==
  /\ wire = "resuming" /\ QueueLockFree
  /\ current_seqn' = current_seqn + Acked
  /\ pending_queue' = SubSeq(pending_queue, Acked + 1, Len(pending_queue))
  /\ line' = IF socket = "alive" THEN line \o Resent(pending_queue', current_seqn') ELSE line
  /\ interrupt_balance' = interrupt_balance - 1
  /\ thread' = Notified(thread)
  /\ wire' = "up"
  /\ UNCHANGED <<state, data, queue, max_sent_seqn, acknowledged_seqn, puts, socket, connections, closer>>

\* receiverProc reads an acknowledgement; a dead socket may still hold some.
Acknowledge ==
  /\ wire = "up" /\ line # <<>>
  /\ acknowledged_seqn' = IF Head(line) > acknowledged_seqn THEN Head(line) ELSE acknowledged_seqn
  /\ line' = Tail(line)
  /\ UNCHANGED <<state, buffers, max_sent_seqn, current_seqn, interrupt_balance, puts, thread, wire, socket, connections, closer>>

\* receiverProc ends when the socket does; pause takes the lock ...
PauseLock ==
  /\ wire = "up" /\ socket # "alive"
  /\ interrupt_balance' = interrupt_balance + 1
  /\ wire' = "pausing"
  /\ UNCHANGED <<state, buffers, seqns, puts, thread, link, closer>>

\* ... and keeps it while the async thread is in process().
PauseEnd ==
  /\ wire = "pausing" /\ ~Processing
  /\ wire' = "down"
  /\ UNCHANGED <<state, buffers, seqns, interrupt_balance, puts, thread, link, closer>>

\* The accepting loop ends with the lifetime.
WireReturn ==
  /\ wire = "down" /\ closer # "none"
  /\ wire' = "off"
  /\ UNCHANGED <<state, buffers, seqns, interrupt_balance, puts, thread, link, closer>>

\* The connection breaks: a suffix of what is on it, and of the answers, is lost.
Break ==
  /\ socket = "alive"
  /\ socket' = "dead"
  /\ \E n \in 0..Len(line) : line' = SubSeq(line, 1, n)
  /\ UNCHANGED <<state, buffers, seqns, interrupt_balance, puts, thread, wire, connections, closer>>

-----------------------------------------------------------------------------
(* The action on the server's lifetime.                                    *)

\* stop(timeout): the state is set, then the thread's end is awaited.
Stop ==
  /\ closer = "none" /\ LockFree /\ state = "AsyncProcessing"
  /\ closer' = "stopping" /\ state' = "Stopping"
  /\ thread' = Notified(thread)
  /\ UNCHANGED <<buffers, seqns, interrupt_balance, puts, wire, link>>

\* cleanup0, after the thread has ended or the timeout has passed.
Cleanup ==
  /\ closer = "stopping" /\ LockFree
  /\ closer' = "stopped" /\ state' = "Terminated"
  /\ thread' = Notified(thread)
  /\ UNCHANGED <<buffers, seqns, interrupt_balance, puts, wire, link>>

\* The listening socket and the connection are closed.
CloseSockets ==
  /\ closer = "stopped"
  /\ closer' = "closed"
  /\ socket' = IF socket = "none" THEN "none" ELSE "dead"
  /\ UNCHANGED <<state, buffers, seqns, interrupt_balance, puts, thread, wire, line, connections>>

-----------------------------------------------------------------------------
AsyncThread ==
  \/ ThreadReturn \/ ThreadWait \/ TakeData
  \/ ProcessBegin \/ ProcessSend \/ ProcessMove \/ ProcessEnd

WireThread ==
  \/ Connect \/ ResumeLock \/ Resume \/ Acknowledge
  \/ PauseLock \/ PauseEnd \/ WireReturn

Closing == Stop \/ Cleanup \/ CloseSockets

Next == Start \/ Put \/ AsyncThread \/ WireThread \/ Break \/ Closing

Spec == Init /\ [][Next]_vars

\* Threads that can run do: sends return (the counterpart reads), the locks
\* held are given back.  Nobody has to put, connect, break or close.
Fairness ==
  /\ WF_vars(Start)
  /\ WF_vars(AsyncThread)
  /\ WF_vars(ResumeLock) /\ WF_vars(Resume) /\ WF_vars(PauseLock) /\ WF_vars(PauseEnd)

FairSpec == Spec /\ Fairness

-----------------------------------------------------------------------------
(* Properties.                                                             *)

\* Types of all variables.
TypeOK ==
  /\ state \in {"Initialized", "AsyncProcessing", "Stopping", "Terminated"}
  /\ data \in Seq(Nat) /\ queue \in Seq(Nat) /\ pending_queue \in Seq(Nat)
  /\ max_sent_seqn \in Nat /\ current_seqn \in Nat /\ acknowledged_seqn \in Nat
  /\ interrupt_balance \in {0, 1}
  /\ puts \in 0..MaxPackages
  /\ thread \in {"none", "check", "wait", "taken", "process", "sent", "done"}
  /\ wire \in {"constructed", "down", "provided", "resuming", "up", "pausing", "off"}
  /\ socket \in {"none", "alive", "dead"}
  /\ line \in Seq(Nat)
  /\ connections \in 0..MaxConnections
  /\ closer \in {"none", "stopping", "stopped", "closed"}

\* Through every take, send, failed send, resend and reconnection the three
\* buffers hold, one after the other, exactly the packages from current_seqn on,
\* in the order they were put; so a sequence number always carries the same
\* package (reprocess counts from current_seqn, process from max_sent_seqn).
Conserved ==
  /\ current_seqn + Len(pending_queue) = max_sent_seqn + 1
  /\ max_sent_seqn + Len(queue) + Len(data) = puts
  /\ \A i \in 1..Len(pending_queue) : pending_queue[i] = current_seqn + i - 1
  /\ \A i \in 1..Len(queue) : queue[i] = max_sent_seqn + i
  /\ \A i \in 1..Len(data) : data[i] = max_sent_seqn + Len(queue) + i

\* A package is dropped from the pending queue only after it was acknowledged.
KeepsUnacknowledged == current_seqn <= acknowledged_seqn + 1

\* reprocess never pops an empty pending queue, although an acknowledgement may
\* come before process() has moved the package it is for.
PopsWhatItHas ==
  wire = "resuming" /\ ~Processing =>
    acknowledged_seqn < current_seqn + Len(pending_queue)

\* While a connection lives, every package sent and not acknowledged has been
\* sent on it, whatever was lost with the connections before.
ResentOnTheLine ==
  wire = "up" /\ socket = "alive" =>
    \A s \in current_seqn..max_sent_seqn :
      s <= acknowledged_seqn \/ \E i \in 1..Len(line) : line[i] = s

\* The sending end's bookkeeping, over its two threads and any connections:
\* no package lost, doubled or renumbered between the buffers (process, put),
\* none dropped early, none popped that is not there (reprocess), and all that
\* is unacknowledged sent on the connection that lives (resume).
SenderSafe == Conserved /\ KeepsUnacknowledged /\ PopsWhatItHas /\ ResentOnTheLine

Connected == wire = "up" /\ socket = "alive" /\ state = "AsyncProcessing"

\* A package put while connected is sent unless the connection goes first.
HandedOver ==
  \A p \in 1..MaxPackages :
    (Connected /\ \E i \in 1..Len(data) : data[i] = p) ~> (max_sent_seqn >= p \/ ~Connected)

\* After stop the async thread ends, even paused, asleep or in the middle of
\* process(), and whether or not stop waited long enough.
ThreadEnds == (state = "Stopping") ~> (thread = "done")

\* The async thread does what it is for: it sends while connected (put wakes
\* it), and it ends (stop wakes it).
SenderLive == HandedOver /\ ThreadEnds

\* What IWire.h:36 says of send: the block is sent.  With a connection that
\* lasts, nothing waits for ever.
NothingStranded == (<>[]Connected) => <>[](queue = <<>> /\ data = <<>>)

=============================================================================
