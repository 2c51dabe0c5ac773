-------------------------- MODULE LifecycleProofs --------------------------
(***************************************************************************)
(* Proofs about the threads of the wrapper, for any depth of the queue and *)
(* any number of chunks and signals: no reaped group is signalled, no      *)
(* output is lost, and a stopped wrapper leaves the terminal cooked.       *)
(*                                                                         *)
(* The three invariants do not depend on one another: each is about the    *)
(* main thread and one other.                                              *)
(***************************************************************************)
EXTENDS Lifecycle, SequenceTheorems, TLAPS

Looping == {"top", "suspending", "resuming", "writing"}
Ending == {"giving up", "closing", "failing"}
AfterForwarding == {"killing", "waiting", "reaping", "restoring",
                    "cancelling", "joining", "done"}
AfterReaping == {"restoring", "cancelling", "joining", "done"}

\* The signal thread holds the lock only while signals are forwarded, the main
\* thread forwards none after it has turned that off, and reaps after that.
ForwardingInv ==
    /\ main \in Looping \cup Ending \cup AfterForwarding
    /\ forwarding <=> main \notin AfterForwarding
    /\ ~ LockIsFree => forwarding
    /\ child = "reaped" => main \in AfterReaping

\* The terminal is cooked before the wrapper stops, and a stopped wrapper
\* does nothing.
TerminalInv ==
    /\ main \in {"suspending", "resuming"} => ~ raw
    /\ stopped => main = "resuming"

\* The chunks in the queue: all of it but for the end, which comes last.
EofQueued == queue # <<>> /\ queue[Len(queue)] = "eof"
ChunksQueued == IF EofQueued THEN Len(queue) - 1 ELSE Len(queue)

\* Where the chunks are that have been read and not written.
InReader == IF reader = "sending chunk" THEN 1 ELSE 0
InMain == IF main = "writing" THEN 1 ELSE 0

\* While the main thread is in its loop no chunk is lost; the reader gives up
\* only after that, and the end of the output is the last that it sends.
OutputInv ==
    /\ queue \in Seq({"chunk", "eof"})
    /\ read \in Nat /\ written \in Nat
    /\ \A i \in 1..Len(queue) : queue[i] = "eof" => i = Len(queue)
    /\ cancel => main \in {"joining", "done"}
    /\ EofQueued \/ main = "closing" => reader = "ended"
    /\ main \in Looping => read = written + ChunksQueued + InReader + InMain
    /\ OutputIsComplete

-----------------------------------------------------------------------------
(* Steps of the threads *)

LEMMA QuietSendsNothing == Quiet => attempt'.signal = "none"
  BY DEF Quiet, NoAttempt

\* What a step of a thread other than the main one leaves alone, and which
\* signals it sends.
LEMMA SignalThreadStep ==
    ASSUME SignalThread
    PROVE  /\ UNCHANGED <<forwarding, main, raw, stopped, written, queue, reader, read, cancel>>
           /\ child' = "reaped" => child = "reaped"
           /\ signaller' \in {"locked", "pausing"} =>
                 signaller \in {"locked", "pausing"} \/ forwarding
           /\ attempt'.signal # "none" => signaller \in {"locked", "pausing"}
  <1>1. UNCHANGED <<forwarding, main, raw, stopped, written, queue, reader, read, cancel>>
    BY DEF SignalThread, Coalesce, DropTermination, LockAndResolve, Terminate, Escalate,
           SignallerEnds, signalThread, mainThread, readerThread
  <1>2. child' = "reaped" => child = "reaped"
    BY DEF SignalThread, Coalesce, DropTermination, LockAndResolve, Terminate, Escalate,
           SignallerEnds, Kill, outside
  <1>3. signaller' \in {"locked", "pausing"} =>
           signaller \in {"locked", "pausing"} \/ forwarding
    BY DEF SignalThread, Coalesce, DropTermination, LockAndResolve, Terminate, Escalate,
           SignallerEnds, signalThread
  <1>4. Quiet \/ signaller \in {"locked", "pausing"}
    BY DEF SignalThread, Coalesce, DropTermination, LockAndResolve, Terminate, Escalate,
           SignallerEnds
  <1> QED
    BY <1>1, <1>2, <1>3, <1>4, QuietSendsNothing

LEMMA ReaderThreadStep ==
    ASSUME ReaderThread
    PROVE  /\ UNCHANGED <<child, forwarding, signaller, main, raw, stopped, written, cancel>>
           /\ attempt'.signal = "none"
  BY QuietSendsNothing DEF ReaderThread, outside, signalThread, mainThread

LEMMA WriterThreadStep ==
    ASSUME WriterThread
    PROVE  /\ UNCHANGED <<child, forwarding, signaller, main, raw, stopped, written,
                          queue, reader, read, cancel>>
           /\ attempt'.signal = "none"
  BY QuietSendsNothing
  DEF WriterThread, WriterStep, outside, signalThread, mainThread, readerThread

LEMMA EnvironmentStep ==
    ASSUME Environment
    PROVE  /\ UNCHANGED <<forwarding, signaller, main, raw, written, queue, reader, read, cancel>>
           /\ child' = "reaped" => child = "reaped"
           /\ stopped' => stopped
           /\ attempt'.signal = "none"
  <1>1. UNCHANGED <<forwarding, signaller, main, raw, written, queue, reader, read, cancel>>
    BY DEF Environment, signalThread, readerThread
  <1>2. child' = "reaped" => child = "reaped"
    BY DEF Environment, ProcessesChange, ChildExits, ChildCloses, BackgroundStarts,
           BackgroundEnds, JobStarts, JobEnds, StdoutChanges, SignalArrives, outside
  <1>3. stopped' => stopped
    BY DEF Environment, ProcessesChange, StdoutChanges, SignalArrives
  <1>4. attempt'.signal = "none"
    BY QuietSendsNothing DEF Environment
  <1> QED
    BY <1>1, <1>2, <1>3, <1>4

\* A step of the main thread, loop and teardown, as the properties see it.
LEMMA LoopStep ==
    ASSUME Loop \/ PolledResizeFails
    PROVE  /\ UNCHANGED <<child, forwarding, signaller, reader, read, cancel>>
           /\ main \in Looping
           /\ main' \in Looping \cup {"giving up", "closing"}
           /\ attempt'.signal # "none" => main = "top"
  <1>1. UNCHANGED <<child, forwarding, signaller, reader, read, cancel>>
    BY DEF Loop, PolledResizeFails, outside, signalThread, readerThread
  <1>2. main \in Looping /\ main' \in Looping \cup {"giving up", "closing"}
    BY DEF Loop, SignalHandling, OutputHandling, Suspend, Stop, Resume, Continue, Resize, Take,
           ReceiveChunk, ReceiveEof, Receive, WriteOutput, PolledResizeFails, Looping
  <1>3. Quiet \/ main = "top"
    BY DEF Loop, SignalHandling, OutputHandling, Suspend, Stop, Resume, Continue, Resize, Take,
           PolledResizeFails
  <1> QED
    BY <1>1, <1>2, <1>3, QuietSendsNothing

LEMMA TeardownStep ==
    ASSUME Teardown
    PROVE  /\ UNCHANGED <<signaller, raw, stopped, written, queue, reader, read>>
           /\ main \in Ending \cup AfterForwarding
           /\ main' \in {"failing"} \cup AfterForwarding
           /\ attempt'.signal = "none"
           /\ cancel' => cancel \/ main' = "joining"
  <1>1. UNCHANGED <<signaller, raw, stopped, written, queue, reader, read>>
    BY DEF Teardown, StopForwarding, RestoreTitle, KillChild, Wait, Cancel, Join,
           signalThread, readerThread
  <1>2. main \in Ending \cup AfterForwarding /\ main' \in {"failing"} \cup AfterForwarding
    BY DEF Teardown, StopForwarding, RestoreTitle, KillChild, Wait, Cancel, Join,
           Ending, AfterForwarding
  <1>3. cancel' => cancel \/ main' = "joining"
    BY DEF Teardown, StopForwarding, RestoreTitle, KillChild, Wait, Cancel, Join
  <1>4. attempt'.signal = "none"
    BY QuietSendsNothing DEF Teardown
  <1> QED
    BY <1>1, <1>2, <1>3, <1>4

LEMMA StepCases ==
    ASSUME [Next]_vars
    PROVE  \/ SignalThread \/ ReaderThread \/ WriterThread \/ Environment
           \/ ~ stopped /\ (Loop \/ PolledResizeFails)
           \/ ~ stopped /\ Teardown
           \/ UNCHANGED vars
  BY DEF Next, Running, MainThread

-----------------------------------------------------------------------------
(* Signals and the child *)

LEMMA ForwardingStep == ForwardingInv /\ [Next]_vars => ForwardingInv'
  <1> SUFFICES ASSUME ForwardingInv, [Next]_vars PROVE ForwardingInv'
    OBVIOUS
  <1>1. CASE SignalThread
    BY <1>1, SignalThreadStep DEF ForwardingInv, LockIsFree
  <1>2. CASE ReaderThread \/ WriterThread
    BY <1>2, ReaderThreadStep, WriterThreadStep DEF ForwardingInv, LockIsFree
  <1>3. CASE Environment
    BY <1>3, EnvironmentStep DEF ForwardingInv, LockIsFree
  <1>4. CASE Loop \/ PolledResizeFails
    BY <1>4, LoopStep
    DEF ForwardingInv, LockIsFree, Looping, Ending, AfterForwarding, AfterReaping
  <1>5. CASE Teardown
    <2> USE DEF Looping, Ending, AfterForwarding, AfterReaping
    <2>1. /\ signaller' = signaller
          /\ main \in Ending \cup AfterForwarding
      BY <1>5, TeardownStep
    <2>2. CASE StopForwarding
      BY <2>1, <2>2 DEF StopForwarding, ForwardingInv, LockIsFree, outside
    <2>3. CASE RestoreTitle
      BY <2>1, <2>3 DEF RestoreTitle, ForwardingInv, LockIsFree, outside, signalThread
    <2>4. CASE KillChild
      BY <2>1, <2>4 DEF KillChild, Kill, ForwardingInv, LockIsFree, signalThread
    <2>5. CASE Wait
      BY <2>1, <2>5 DEF Wait, ForwardingInv, LockIsFree, signalThread
    <2>6. CASE Cancel
      BY <2>1, <2>6 DEF Cancel, ForwardingInv, LockIsFree, outside, signalThread
    <2>7. CASE Join
      BY <2>1, <2>7 DEF Join, ForwardingInv, LockIsFree, outside, signalThread
    <2> QED
      BY <1>5, <2>2, <2>3, <2>4, <2>5, <2>6, <2>7 DEF Teardown
  <1>6. CASE UNCHANGED vars
    BY <1>6 DEF vars, outside, signalThread, mainThread, ForwardingInv, LockIsFree
  <1> QED
    BY <1>1, <1>2, <1>3, <1>4, <1>5, <1>6, StepCases

LEMMA ForwardingInvariant == Spec => []ForwardingInv
  <1>1. Init => ForwardingInv
    BY DEF Init, ForwardingInv, LockIsFree, Looping, Ending, AfterForwarding
  <1> QED
    BY <1>1, ForwardingStep, PTL DEF Spec

\* No group is signalled after the child was reaped, neither by the main loop
\* nor by the signal thread in its pause, whenever the signals arrive
\* (the lock around signal_forwarding in pty.rs).
THEOREM ReapedNeverSignalled == Spec => ReapedIsLeftAlone
  <1>1. ForwardingInv /\ [Next]_vars => [attempt'.signal # "none" => child # "reaped"]_vars
    <2> SUFFICES ASSUME ForwardingInv, [Next]_vars, attempt'.signal # "none",
                        ~ UNCHANGED vars
                 PROVE  child # "reaped"
      OBVIOUS
    <2>1. signaller \in {"locked", "pausing"} \/ main = "top"
      BY StepCases, SignalThreadStep, ReaderThreadStep, WriterThreadStep, EnvironmentStep,
         LoopStep, TeardownStep
    <2>2. main \notin AfterForwarding
      BY <2>1 DEF ForwardingInv, LockIsFree, AfterForwarding
    <2> QED
      BY <2>2 DEF ForwardingInv, AfterForwarding, AfterReaping
  <1> QED
    BY <1>1, ForwardingInvariant, PTL DEF Spec, ReapedIsLeftAlone

-----------------------------------------------------------------------------
(* The outer terminal *)

LEMMA TerminalStep == TerminalInv /\ [Next]_vars => TerminalInv'
  <1> SUFFICES ASSUME TerminalInv, [Next]_vars PROVE TerminalInv'
    OBVIOUS
  <1>1. CASE SignalThread \/ ReaderThread \/ WriterThread \/ Environment
    BY <1>1, SignalThreadStep, ReaderThreadStep, WriterThreadStep, EnvironmentStep DEF TerminalInv
  <1>2. CASE ~ stopped /\ Loop
    <2>1. CASE SignalHandling
      <3> USE <1>2 DEF Take, TerminalInv
      <3>1. CASE Suspend
        BY <3>1 DEF Suspend
      <3>2. CASE Stop
        BY <3>2 DEF Stop
      <3>3. CASE Resume
        BY <3>3 DEF Resume
      <3>4. CASE Continue
        BY <3>4 DEF Continue
      <3>5. CASE Resize
        BY <3>5 DEF Resize
      <3> QED
        BY <2>1, <3>1, <3>2, <3>3, <3>4, <3>5 DEF SignalHandling
    <2>2. CASE OutputHandling
      <3>1. stopped' = stopped /\ main' \in {"top", "writing", "closing", "giving up"}
        BY <2>2 DEF OutputHandling, ReceiveChunk, ReceiveEof, Receive, WriteOutput
      <3> QED
        BY <1>2, <3>1 DEF TerminalInv
    <2> QED
      BY <1>2, <2>1, <2>2 DEF Loop
  <1>3. CASE ~ stopped /\ PolledResizeFails
    BY <1>3 DEF PolledResizeFails, TerminalInv
  <1>4. CASE ~ stopped /\ Teardown
    BY <1>4, TeardownStep DEF TerminalInv, AfterForwarding
  <1>5. CASE UNCHANGED vars
    BY <1>5 DEF vars, mainThread, TerminalInv
  <1> QED
    BY <1>1, <1>2, <1>3, <1>4, <1>5, StepCases

\* The outer terminal is out of raw mode for as long as the wrapper is stopped
\* (the suspension in run()).
THEOREM StoppedStaysCooked == Spec => []StoppedIsCooked
  <1>1. Init => TerminalInv
    BY DEF Init, TerminalInv
  <1>2. TerminalInv => StoppedIsCooked
    BY DEF TerminalInv, StoppedIsCooked
  <1> QED
    BY <1>1, <1>2, TerminalStep, PTL DEF Spec

-----------------------------------------------------------------------------
(* The output *)

LEMMA QueueKept ==
    ASSUME UNCHANGED queue
    PROVE  (EofQueued' <=> EofQueued) /\ ChunksQueued' = ChunksQueued
  BY DEF EofQueued, ChunksQueued

\* A message is sent by a reader that has not sent the end.
LEMMA QueueSent ==
    ASSUME queue \in Seq({"chunk", "eof"}), ~ EofQueued,
           \A i \in 1..Len(queue) : queue[i] = "eof" => i = Len(queue),
           NEW m \in {"chunk", "eof"}, queue' = Append(queue, m)
    PROVE  /\ queue' \in Seq({"chunk", "eof"})
           /\ \A i \in 1..Len(queue') : queue'[i] = "eof" => i = Len(queue')
           /\ EofQueued' <=> m = "eof"
           /\ ChunksQueued' = IF m = "eof" THEN ChunksQueued ELSE ChunksQueued + 1
  <1>1. /\ queue' \in Seq({"chunk", "eof"})
        /\ Len(queue) \in Nat /\ Len(queue') = Len(queue) + 1
        /\ queue'[Len(queue) + 1] = m
        /\ \A i \in 1..Len(queue) : queue'[i] = queue[i]
    OBVIOUS
  <1>2. queue # <<>> => Len(queue) \in 1..Len(queue)
    OBVIOUS
  <1>3. \A i \in 1..Len(queue) : queue[i] # "eof"
    BY <1>2 DEF EofQueued
  <1>4. \A i \in 1..Len(queue') : queue'[i] = "eof" => i = Len(queue')
    BY <1>1, <1>3
  <1>5. queue' # <<>>
    BY <1>1
  <1>6. EofQueued' <=> m = "eof"
    BY <1>1, <1>5 DEF EofQueued
  <1> QED
    BY <1>1, <1>4, <1>6 DEF ChunksQueued

\* What is left of a sequence when its first element is taken.
LEMMA TailOf ==
    ASSUME NEW S, NEW q \in Seq(S), q # <<>>
    PROVE  /\ Tail(q) \in Seq(S)
           /\ Len(q) \in Nat /\ Len(q) > 0 /\ Len(Tail(q)) = Len(q) - 1
           /\ \A i \in 1..(Len(q) - 1) : Tail(q)[i] = q[i + 1]
           /\ Tail(q) = <<>> <=> Len(q) = 1
           /\ Head(q) = q[1]
  <1>1. Tail(q) \in Seq(S) /\ Len(Tail(q)) = Len(q) - 1
    OBVIOUS
  <1>2. Len(q) \in Nat /\ Len(q) > 0
    OBVIOUS
  <1>3. \A i \in 1..(Len(q) - 1) : Tail(q)[i] = q[i + 1]
    OBVIOUS
  <1>4. Tail(q) = <<>> <=> Len(Tail(q)) = 0
    BY <1>1, EmptySeq
  <1>5. Tail(q) = <<>> <=> Len(q) = 1
    BY <1>1, <1>2, <1>4
  <1>6. Head(q) = q[1]
    OBVIOUS
  <1> QED
    BY <1>1, <1>2, <1>3, <1>5, <1>6

LEMMA LastStaysLast ==
    ASSUME NEW n \in Nat, n > 0, NEW q, NEW rest,
           \A i \in 1..(n - 1) : rest[i] = q[i + 1],
           \A i \in 1..n : q[i] = "eof" => i = n
    PROVE  /\ \A i \in 1..(n - 1) : rest[i] = "eof" => i = n - 1
           /\ n > 1 => rest[n - 1] = q[n]
           /\ q[1] = "eof" => n = 1
  <1>1. \A i \in 1..(n - 1) : rest[i] = "eof" => i = n - 1
    OBVIOUS
  <1>2. n > 1 => rest[n - 1] = q[n]
    <2>1. n > 1 => n - 1 \in 1..(n - 1) /\ (n - 1) + 1 = n
      OBVIOUS
    <2> QED
      BY <2>1
  <1>3. q[1] = "eof" => n = 1
    OBVIOUS
  <1> QED
    BY <1>1, <1>2, <1>3

\* The first message is the end only if it is the only one.
LEMMA QueueReceived ==
    ASSUME queue \in Seq({"chunk", "eof"}), queue # <<>>, queue' = Tail(queue),
           \A i \in 1..Len(queue) : queue[i] = "eof" => i = Len(queue)
    PROVE  /\ queue' \in Seq({"chunk", "eof"})
           /\ \A i \in 1..Len(queue') : queue'[i] = "eof" => i = Len(queue')
           /\ Head(queue) = "eof" => queue' = <<>> /\ EofQueued /\ ChunksQueued = 0
           /\ Head(queue) = "chunk" => /\ EofQueued' <=> EofQueued
                                       /\ ChunksQueued' = ChunksQueued - 1
  <1> DEFINE n == Len(queue)
  <1>1. /\ queue' \in Seq({"chunk", "eof"})
        /\ n \in Nat /\ n > 0 /\ Len(queue') = n - 1
        /\ Head(queue) = queue[1]
        /\ queue' = <<>> <=> n = 1
    BY TailOf
  <1>2. /\ \A i \in 1..(n - 1) : queue'[i] = "eof" => i = n - 1
        /\ n > 1 => queue'[n - 1] = queue[n]
        /\ queue[1] = "eof" => n = 1
    <2>1. \A i \in 1..(n - 1) : queue'[i] = queue[i + 1]
      BY TailOf
    <2>2. \A i \in 1..n : queue[i] = "eof" => i = n
      OBVIOUS
    <2> HIDE DEF n
    <2> QED
      BY <1>1, <2>1, <2>2, LastStaysLast
  <1>3. /\ EofQueued <=> queue[n] = "eof"
        /\ EofQueued' <=> n # 1 /\ queue'[n - 1] = "eof"
        /\ ChunksQueued = IF EofQueued THEN n - 1 ELSE n
        /\ ChunksQueued' = IF EofQueued' THEN (n - 1) - 1 ELSE n - 1
    <2>1. /\ EofQueued <=> queue[n] = "eof"
          /\ EofQueued' <=> n # 1 /\ queue'[n - 1] = "eof"
      BY <1>1 DEF EofQueued
    <2>2. /\ ChunksQueued = IF EofQueued THEN n - 1 ELSE n
          /\ ChunksQueued' = IF EofQueued' THEN (n - 1) - 1 ELSE n - 1
      BY <1>1 DEF ChunksQueued
    <2> QED
      BY <2>1, <2>2
  <1> HIDE DEF n
  <1>4. ASSUME Head(queue) = "eof"
        PROVE  queue' = <<>> /\ EofQueued /\ ChunksQueued = 0
    BY <1>1, <1>2, <1>3, <1>4
  <1>5. ASSUME Head(queue) = "chunk"
        PROVE  (EofQueued' <=> EofQueued) /\ ChunksQueued' = ChunksQueued - 1
    <2>1. EofQueued' <=> EofQueued
      BY <1>1, <1>2, <1>3, <1>5
    <2> QED
      BY <1>1, <1>3, <2>1
  <1>6. \A i \in 1..Len(queue') : queue'[i] = "eof" => i = Len(queue')
    BY <1>1, <1>2
  <1> QED
    BY <1>1, <1>4, <1>5, <1>6

LEMMA OutputStep == OutputInv /\ [Next]_vars => OutputInv'
  <1> SUFFICES ASSUME OutputInv, [Next]_vars PROVE OutputInv'
    OBVIOUS
  <1>0. {ChunksQueued, InReader, InMain} \subseteq Int
    <2>1. Len(queue) \in Nat
      BY DEF OutputInv
    <2>2. ChunksQueued \in Int
      BY <2>1 DEF ChunksQueued
    <2> QED
      BY <2>2 DEF InReader, InMain
  <1>1. CASE SignalThread \/ WriterThread \/ Environment \/ UNCHANGED vars
    <2>1. UNCHANGED <<main, written, queue, reader, read, cancel>>
      BY <1>1, SignalThreadStep, WriterThreadStep, EnvironmentStep
      DEF vars, mainThread, readerThread
    <2> QED
      BY <2>1, QueueKept DEF OutputInv, InReader, InMain, OutputIsComplete
  <1>2. CASE ReaderThread
    <2>1. UNCHANGED <<main, written, cancel>> /\ InMain' = InMain
      BY <1>2, ReaderThreadStep DEF InMain
    <2>2. CASE ReadChunk
      <3>1. UNCHANGED queue /\ read' = read + 1 /\ reader # "ended"
        BY <2>2 DEF ReadChunk
      <3>2. InReader = 0 /\ InReader' = 1
        BY <2>2 DEF ReadChunk, InReader
      <3>3. main \in Looping => read' = written' + ChunksQueued' + InReader' + InMain'
        BY <1>0, <2>1, <3>1, <3>2, QueueKept DEF OutputInv
      <3>4. read' \in Nat
        BY <3>1 DEF OutputInv
      <3> QED
        BY <2>1, <3>1, <3>3, <3>4, QueueKept DEF OutputInv, OutputIsComplete
    <2>3. CASE ReadEnd \/ GiveUp
      <3>1. UNCHANGED <<queue, read>> /\ (cancel \/ InReader' = InReader) /\ reader # "ended"
        BY <2>3 DEF ReadEnd, GiveUp, InReader
      <3>2. main \in Looping => ~ cancel
        BY DEF OutputInv, Looping
      <3> QED
        BY <1>0, <2>1, <3>1, <3>2, QueueKept DEF OutputInv, OutputIsComplete
    <2>4. CASE SendMessage
      <3> DEFINE m == IF reader = "sending eof" THEN "eof" ELSE "chunk"
      <3>1. /\ queue' = Append(queue, m) /\ m \in {"chunk", "eof"}
            /\ read' = read
            /\ m = "eof" => reader' = "ended"
            /\ reader # "ended"
        BY <2>4 DEF SendMessage
      <3>1a. m = "eof" => InReader = 0 /\ InReader' = 0
        BY <2>4 DEF SendMessage, InReader
      <3>1b. m = "chunk" => InReader = 1 /\ InReader' = 0
        BY <2>4 DEF SendMessage, InReader
      <3> HIDE DEF m
      <3>2. ~ EofQueued /\ main # "closing"
        BY <3>1 DEF OutputInv
      <3>3. /\ queue' \in Seq({"chunk", "eof"})
            /\ \A i \in 1..Len(queue') : queue'[i] = "eof" => i = Len(queue')
            /\ EofQueued' <=> m = "eof"
            /\ ChunksQueued' = IF m = "eof" THEN ChunksQueued ELSE ChunksQueued + 1
        BY <3>1, <3>2, QueueSent DEF OutputInv
      <3>4. main \in Looping => read' = written' + ChunksQueued' + InReader' + InMain'
        BY <1>0, <2>1, <3>1, <3>1a, <3>1b, <3>3 DEF OutputInv
      <3> QED
        BY <2>1, <3>1, <3>2, <3>3, <3>4 DEF OutputInv, OutputIsComplete
    <2> QED
      BY <1>2, <2>2, <2>3, <2>4 DEF ReaderThread
  <1>3. CASE Loop \/ PolledResizeFails
    <2>1. /\ UNCHANGED <<reader, read, cancel>> /\ main \in Looping /\ ~ cancel
          /\ InReader' = InReader
      BY <1>3, LoopStep DEF OutputInv, InReader, Looping
    <2>2. CASE SignalHandling \/ PolledResizeFails
      <3>1. UNCHANGED <<queue, written>> /\ main # "writing"
            /\ main' \in {"top", "suspending", "resuming", "giving up"}
        BY <2>2 DEF SignalHandling, Suspend, Stop, Resume, Continue, Resize, Take,
                    PolledResizeFails, readerThread
      <3>2. InMain = 0 /\ InMain' = 0 /\ main' # "closing"
        BY <3>1 DEF InMain
      <3> QED
        BY <2>1, <3>1, <3>2, QueueKept DEF OutputInv, OutputIsComplete
    <2>3. ASSUME NEW message, Receive(message)
          PROVE  /\ queue # <<>> /\ queue' = Tail(queue) /\ Head(queue) = message
                 /\ written' = written /\ main = "top" /\ InMain = 0
      BY <2>3 DEF Receive, InMain
    <2>4. CASE ReceiveChunk
      <3>1. Receive("chunk") /\ main' = "writing" /\ InMain' = 1
        BY <2>4 DEF ReceiveChunk, InMain
      <3>2. /\ queue' \in Seq({"chunk", "eof"})
            /\ \A i \in 1..Len(queue') : queue'[i] = "eof" => i = Len(queue')
            /\ EofQueued' <=> EofQueued
            /\ ChunksQueued' = ChunksQueued - 1
        BY <2>3, <3>1, QueueReceived DEF OutputInv
      <3>3. read' = written' + ChunksQueued' + InReader' + InMain'
        BY <1>0, <2>1, <2>3, <3>1, <3>2 DEF OutputInv
      <3> QED
        BY <2>1, <2>3, <3>1, <3>2, <3>3 DEF OutputInv, OutputIsComplete
    <2>5. CASE ReceiveEof
      <3>1. Receive("eof") /\ main' = "closing"
        BY <2>5 DEF ReceiveEof
      <3>2. queue' = <<>> /\ ChunksQueued = 0 /\ EofQueued
        BY <2>3, <3>1, QueueReceived DEF OutputInv
      <3>3. reader = "ended" /\ InReader = 0
        BY <3>2 DEF OutputInv, InReader
      <3>4. read = written
        BY <2>1, <2>3, <3>1, <3>2, <3>3 DEF OutputInv
      <3>5. /\ queue' \in Seq({"chunk", "eof"})
            /\ \A i \in 1..Len(queue') : queue'[i] = "eof" => i = Len(queue')
        BY <2>3, <3>1, QueueReceived DEF OutputInv
      <3> QED
        BY <2>1, <2>3, <3>1, <3>2, <3>3, <3>4, <3>5 DEF OutputInv, OutputIsComplete, Looping
    <2>6. CASE WriteOutput
      <3>1. queue' = queue /\ main = "writing" /\ InMain = 1
        BY <2>6 DEF WriteOutput, InMain
      <3>2. CASE stdout = "open"
        <4>1. main' = "top" /\ written' = written + 1 /\ InMain' = 0
          BY <2>6, <3>2 DEF WriteOutput, InMain
        <4>2. read' = written' + ChunksQueued' + InReader' + InMain' /\ written' \in Nat
          BY <1>0, <2>1, <3>1, <4>1, QueueKept DEF OutputInv
        <4> QED
          BY <2>1, <3>1, <4>1, <4>2, QueueKept DEF OutputInv, OutputIsComplete
      <3>3. CASE stdout # "open"
        <4>1. main' = "giving up" /\ written' = written
          BY <2>6, <3>3 DEF WriteOutput
        <4> QED
          BY <2>1, <3>1, <4>1, QueueKept DEF OutputInv, OutputIsComplete, Looping
      <3> QED
        BY <3>2, <3>3
    <2> QED
      BY <1>3, <2>2, <2>4, <2>5, <2>6 DEF Loop, OutputHandling
  <1>4. CASE Teardown
    <2>1. /\ UNCHANGED <<written, queue, reader, read>>
          /\ main' \notin Looping \cup {"closing"}
          /\ cancel' => cancel \/ main' = "joining"
      BY <1>4, TeardownStep DEF AfterForwarding, Looping
    <2>2. cancel => main' \in {"joining", "done"}
      BY <1>4 DEF OutputInv, Teardown, StopForwarding, RestoreTitle, KillChild, Wait,
                  Cancel, Join
    <2> QED
      BY <2>1, <2>2, QueueKept DEF OutputInv, OutputIsComplete
  <1> QED
    BY <1>1, <1>2, <1>3, <1>4, StepCases

LEMMA OutputInvariant == Spec => []OutputInv
  <1>1. Init => OutputInv
    BY DEF Init, OutputInv, EofQueued, ChunksQueued, InReader, InMain, OutputIsComplete, Looping
  <1> QED
    BY <1>1, OutputStep, PTL DEF Spec

\* When the main loop ends because the output has ended, every chunk that was
\* read has been written, however deep the queue is and whatever signals came
\* in between (reader_thread() and run()).
THEOREM OutputArrivesWhole == Spec => []OutputIsComplete
  <1>1. OutputInv => OutputIsComplete
    BY DEF OutputInv
  <1> QED
    BY <1>1, OutputInvariant, PTL
=============================================================================
