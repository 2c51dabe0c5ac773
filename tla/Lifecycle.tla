----------------------------- MODULE Lifecycle -----------------------------
(***************************************************************************)
(* The threads of the wrapper (src/pty.rs) from the spawn of the wrapped   *)
(* command to the join of the last thread: the reader that feeds the       *)
(* bounded queue, the writer that forwards stdin, the signal thread that   *)
(* forwards termination on its own and leaves the other signals to the     *)
(* main loop, and the main loop that writes the output, suspends the       *)
(* wrapper, and tears everything down when the pty ends or a write fails.  *)
(*                                                                         *)
(* Of the signals, TERM stands for INT, TERM, HUP and QUIT, and WINCH for  *)
(* WINCH and USR1.  Two process groups can be signalled: the group of the  *)
(* wrapped command and the job in its foreground.                          *)
(***************************************************************************)
EXTENDS Integers, Sequences

CONSTANTS
    QueueDepth,     \* OUTPUT_QUEUE_DEPTH
    Chunks,         \* bound: the child writes so many chunks
    Arrivals        \* bound: so many signals arrive

ASSUME LifecycleAssumption ==
    /\ QueueDepth \in Nat \ {0}
    /\ Chunks \in Nat /\ Arrivals \in Nat

VARIABLES
    child,          \* the wrapped command: running, exited, or reaped
    job,            \* another group is in the foreground of its terminal
    holders,        \* who has the slave side open: child, job, background
    stdout,         \* open, blocked, or broken
    arrived,        \* signals that have arrived so far
    raised,         \* signals that signal-hook has for the signal thread
    pending,        \* pending_signals
    forwarding,     \* signal_forwarding
    signaller,      \* the signal thread
    group,          \* the group it signals
    main,           \* where the main thread stands
    raw,            \* raw_guard is Some: the outer terminal is in raw mode
    stopped,        \* the wrapper is stopped
    queue,          \* output_rx
    reader,         \* the reader thread
    read,           \* chunks the reader has read
    written,        \* chunks the main loop has written
    writer,         \* the writer thread
    cancel,         \* ThreadCleanup.cancel
    attempt         \* the signal sent by the last step, and the groups it tried

outside == <<child, job, holders, stdout>>
signals == <<arrived, raised, pending>>
signalThread == <<forwarding, signaller, group>>
mainThread == <<main, raw, stopped, written>>
readerThread == <<queue, reader, read>>
vars == <<outside, signals, signalThread, mainThread, readerThread, writer, cancel, attempt>>

Handled == {"TSTP", "CONT", "WINCH"}
Signals == Handled \cup {"TERM"}
NoAttempt == [signal |-> "none", groups |-> {}]
Quiet == attempt' = NoAttempt

-----------------------------------------------------------------------------
(* Sending a signal to a group *)

\* A group exists while it has a process that is not reaped; the job is reaped
\* by the wrapped command, the wrapped command by the wrapper.
Exists(g) == IF g = "job" THEN job ELSE child # "reaped"

\* forward_signal_with_retry(): the group, and the child's own if that fails.
Tried(g) == IF Exists(g) THEN {g} ELSE {g, "child"}
Reached(g) == IF Exists(g) THEN g ELSE "child"

Send(signal, g) == attempt' = [signal |-> signal, groups |-> Tried(g)]

\* The group's processes end.
Kill(g) ==
    /\ job' = (job /\ g # "job")
    /\ child' = IF g = "child" /\ child = "running" THEN "exited" ELSE child
    /\ holders' = holders \ {g}
    /\ UNCHANGED stdout

Foreground == IF job THEN "job" ELSE "child"

-----------------------------------------------------------------------------
(* The signal thread *)

\* A signal for the main loop sets its bit.
Coalesce ==
    /\ signaller = "idle"
    /\ \E s \in raised \cap Handled :
          /\ raised' = raised \ {s}
          /\ pending' = pending \cup {s}
    /\ Quiet
    /\ UNCHANGED <<outside, arrived, signalThread, mainThread, readerThread, writer, cancel>>

MutLockAndResolve ==
    /\ signaller = "idle"
    /\ main = "top"
    /\ "TERM" \in raised
    /\ forwarding
    /\ raised' = raised \ {"TERM"}
    /\ signaller' = "locked"
    /\ group' = Foreground
    /\ Quiet
    /\ UNCHANGED <<outside, arrived, pending, forwarding, mainThread, readerThread, writer, cancel>>

\* A termination signal is dropped once forwarding is off.  Otherwise the
\* thread keeps the lock until it has forwarded the signal and KILL.
DropTermination ==
    /\ signaller = "idle"
    /\ "TERM" \in raised
    /\ ~ forwarding
    /\ raised' = raised \ {"TERM"}
    /\ Quiet
    /\ UNCHANGED <<outside, arrived, pending, signalThread, mainThread, readerThread, writer, cancel>>

\* The group is the one in the foreground now; the cached one, which may be
\* either, if the child can no longer be asked.
LockAndResolve ==
    /\ signaller = "idle"
    /\ "TERM" \in raised
    /\ forwarding
    /\ raised' = raised \ {"TERM"}
    /\ signaller' = "locked"
    /\ group' \in IF child = "running" THEN {Foreground} ELSE {"job", "child"}
    /\ Quiet
    /\ UNCHANGED <<outside, arrived, pending, forwarding, mainThread, readerThread, writer, cancel>>

\* The group may end at once or handle the signal in its own time.
Terminate ==
    /\ signaller = "locked"
    /\ Send("TERM", group)
    /\ Kill(Reached(group)) \/ UNCHANGED outside
    /\ signaller' = "pausing"
    /\ UNCHANGED <<signals, forwarding, group, mainThread, readerThread, writer, cancel>>

Escalate ==
    /\ signaller = "pausing"
    /\ Send("KILL", group)
    /\ Kill(Reached(group))
    /\ signaller' = "idle"
    /\ UNCHANGED <<signals, forwarding, group, mainThread, readerThread, writer, cancel>>

\* Handle::close() ends the iteration.
SignallerEnds ==
    /\ signaller = "idle"
    /\ cancel
    /\ signaller' = "ended"
    /\ Quiet
    /\ UNCHANGED <<outside, signals, forwarding, group, mainThread, readerThread, writer, cancel>>

LockIsFree == signaller \notin {"locked", "pausing"}

SignalThread ==
    \/ Coalesce \/ DropTermination \/ LockAndResolve
    \/ Terminate \/ Escalate \/ SignallerEnds

-----------------------------------------------------------------------------
(* The reader thread *)

ReadChunk ==
    /\ reader = "reading"
    /\ read < Chunks
    /\ read' = read + 1
    /\ reader' = "sending chunk"
    /\ UNCHANGED queue

\* The pty ends when nobody holds the slave side any more.
ReadEnd ==
    /\ reader = "reading"
    /\ holders = {}
    /\ reader' = "sending eof"
    /\ UNCHANGED <<queue, read>>

MutSendOrDrop ==
    /\ reader \in {"sending chunk", "sending eof"}
    /\ Len(queue) < QueueDepth \/ reader = "sending chunk"
    /\ queue' = IF Len(queue) = QueueDepth THEN queue
                ELSE Append(queue, IF reader = "sending eof" THEN "eof" ELSE "chunk")
    /\ reader' = IF reader = "sending eof" THEN "ended" ELSE "reading"
    /\ UNCHANGED read

SendMessage ==
    /\ reader \in {"sending chunk", "sending eof"}
    /\ Len(queue) < QueueDepth
    /\ queue' = Append(queue, IF reader = "sending eof" THEN "eof" ELSE "chunk")
    /\ reader' = IF reader = "sending eof" THEN "ended" ELSE "reading"
    /\ UNCHANGED read

MutNeverGiveUp ==
    /\ reader \in {"sending chunk", "sending eof"}
    /\ Len(queue) = QueueDepth
    /\ UNCHANGED <<queue, reader, read>>

\* A full queue is tried again and again, until the wrapper tears down.
GiveUp ==
    /\ reader \in {"sending chunk", "sending eof"}
    /\ Len(queue) = QueueDepth
    /\ cancel
    /\ reader' = "ended"
    /\ UNCHANGED <<queue, read>>

ReaderThread ==
    /\ ReadChunk \/ ReadEnd \/ SendMessage \/ GiveUp
    /\ Quiet
    /\ UNCHANGED <<outside, signals, signalThread, mainThread, writer, cancel>>

-----------------------------------------------------------------------------
(* The writer thread *)

\* Input is forwarded; a full pty blocks the thread while somebody holds the
\* other side, and a write to a pty that nobody holds fails.
TakeInput == writer = "polling" /\ ~ cancel /\ writer' = "writing"
InputTaken == writer = "writing" /\ holders # {} /\ writer' = "polling"
WriteFails == writer = "writing" /\ holders = {} /\ writer' = "parked"
InputEnds == writer = "polling" /\ ~ cancel /\ writer' = "parked"
WriterEnds == writer \in {"polling", "parked"} /\ cancel /\ writer' = "ended"

WriterStep(action) ==
    /\ action
    /\ Quiet
    /\ UNCHANGED <<outside, signals, signalThread, mainThread, readerThread, cancel>>

WriterThread ==
    WriterStep(TakeInput \/ InputTaken \/ WriteFails \/ InputEnds \/ WriterEnds)

-----------------------------------------------------------------------------
(* The main thread: signals first, then the queue *)

\* take_pending_signal()
Urgent(s) ==
    /\ s \in pending
    /\ s # "TSTP" => "TSTP" \notin pending
    /\ s = "WINCH" => pending = {"WINCH"}

Take(s) ==
    /\ main = "top"
    /\ Urgent(s)
    /\ pending' = pending \ {s}
    /\ UNCHANGED <<arrived, raised>>

\* The group of the last probe may be either one, and be gone by now.
Forward(s) == \E g \in {"child", "job"} : Send(s, g)

MutSuspend ==
    /\ Take("TSTP")
    /\ Forward("TSTP")
    /\ main' = "suspending"
    /\ UNCHANGED <<raw, stopped, written>>

Suspend ==
    /\ Take("TSTP")
    /\ Forward("TSTP")
    /\ raw' = FALSE
    /\ main' = "suspending"
    /\ UNCHANGED <<stopped, written>>

Stop ==
    /\ main = "suspending"
    /\ main' = "resuming"
    /\ stopped' = TRUE
    /\ Quiet
    /\ UNCHANGED <<signals, raw, written>>

Resume ==
    /\ main = "resuming"
    /\ main' = "top"
    /\ raw' = TRUE
    /\ Quiet
    /\ UNCHANGED <<signals, stopped, written>>

Continue ==
    /\ Take("CONT")
    /\ Forward("CONT")
    /\ raw' = TRUE
    /\ UNCHANGED <<main, stopped, written>>

\* A resize that fails ends the wrapper.
Resize ==
    /\ Take("WINCH")
    /\ main' \in {"top", "giving up"}
    /\ Quiet
    /\ UNCHANGED <<raw, stopped, written>>

\* The size of the terminal is polled, too, before each message.
PolledResizeFails ==
    /\ main = "top"
    /\ main' = "giving up"
    /\ Quiet
    /\ UNCHANGED <<outside, signals, signalThread, raw, stopped, written,
                   readerThread, writer, cancel>>

SignalHandling ==
    /\ Suspend \/ Stop \/ Resume \/ Continue \/ Resize
    /\ UNCHANGED queue

Receive(message) ==
    /\ main = "top"
    /\ pending = {}
    /\ queue # <<>>
    /\ Head(queue) = message
    /\ queue' = Tail(queue)
    /\ UNCHANGED <<raw, stopped, written>>

ReceiveChunk == Receive("chunk") /\ main' = "writing"
ReceiveEof == Receive("eof") /\ main' = "closing"

WriteOutput ==
    /\ main = "writing"
    /\ stdout # "blocked"
    /\ IF stdout = "open" THEN main' = "top" /\ written' = written + 1
       ELSE main' = "giving up" /\ UNCHANGED written
    /\ UNCHANGED <<raw, stopped, queue>>

OutputHandling ==
    /\ ReceiveChunk \/ ReceiveEof \/ WriteOutput
    /\ Quiet
    /\ UNCHANGED signals

Loop ==
    /\ SignalHandling \/ OutputHandling
    /\ UNCHANGED <<outside, signalThread, reader, read, writer, cancel>>

-----------------------------------------------------------------------------
(* The main thread: the end *)

MutStopForwarding ==
    /\ main \in {"closing", "failing"}
    /\ forwarding' = FALSE
    /\ main' = IF main = "closing" THEN "waiting" ELSE "killing"
    /\ UNCHANGED <<outside, signaller, group, cancel>>

\* Forwarding ends before the child can be reaped; the lock makes this wait
\* for a termination that is being forwarded.
StopForwarding ==
    /\ main \in {"closing", "failing"}
    /\ LockIsFree
    /\ forwarding' = FALSE
    /\ main' = IF main = "closing" THEN "waiting" ELSE "killing"
    /\ UNCHANGED <<outside, signaller, group, cancel>>

\* The title is given back: before a failure unwinds, and after the child is
\* reaped.  This write, too, waits for stdout.
RestoreTitle ==
    /\ main \in {"giving up", "restoring"}
    /\ stdout # "blocked"
    /\ main' = IF main = "giving up" THEN "failing" ELSE "cancelling"
    /\ UNCHANGED <<outside, signalThread, cancel>>

\* After a failure ChildCleanup kills the child before it waits for it.
KillChild ==
    /\ main = "killing"
    /\ Kill("child")
    /\ main' = "reaping"
    /\ UNCHANGED <<signalThread, cancel>>

Wait ==
    /\ main \in {"waiting", "reaping"}
    /\ child = "exited"
    /\ child' = "reaped"
    /\ main' = IF main = "waiting" THEN "restoring" ELSE "cancelling"
    /\ UNCHANGED <<job, holders, stdout, signalThread, cancel>>

\* ThreadCleanup
Cancel ==
    /\ main = "cancelling"
    /\ cancel' = TRUE
    /\ main' = "joining"
    /\ UNCHANGED <<outside, signalThread>>

Join ==
    /\ main = "joining"
    /\ {reader, writer, signaller} = {"ended"}
    /\ main' = "done"
    /\ UNCHANGED <<outside, signalThread, cancel>>

Teardown ==
    /\ StopForwarding \/ RestoreTitle \/ KillChild \/ Wait \/ Cancel \/ Join
    /\ Quiet
    /\ UNCHANGED <<signals, raw, stopped, written, readerThread, writer>>

MainThread == Loop \/ Teardown

-----------------------------------------------------------------------------
(* The environment *)

\* The wrapped command exits, closes its terminal, or leaves a program in the
\* background that keeps it open.
ChildExits == child = "running" /\ child' = "exited" /\ holders' = holders \ {"child"} /\ UNCHANGED job
ChildCloses == holders' = holders \ {"child"} /\ UNCHANGED <<child, job>>
BackgroundStarts ==
    /\ child = "running" /\ "child" \in holders
    /\ holders' = holders \cup {"background"} /\ UNCHANGED <<child, job>>
BackgroundEnds == holders' = holders \ {"background"} /\ UNCHANGED <<child, job>>
JobStarts ==
    /\ child = "running" /\ "child" \in holders /\ ~ job
    /\ job' = TRUE /\ holders' = holders \cup {"job"} /\ UNCHANGED child
JobEnds == job /\ job' = FALSE /\ holders' = holders \ {"job"} /\ UNCHANGED child

ProcessesChange ==
    /\ \/ ChildExits \/ ChildCloses \/ BackgroundStarts \/ BackgroundEnds
       \/ JobStarts \/ JobEnds
    /\ UNCHANGED <<stdout, signals, stopped>>

StdoutChanges ==
    /\ stdout # "broken"
    /\ stdout' \in {"open", "blocked", "broken"} \ {stdout}
    /\ UNCHANGED <<child, job, holders, signals, stopped>>

\* CONT also continues a stopped wrapper.
SignalArrives ==
    /\ arrived < Arrivals
    /\ main # "done"
    /\ arrived' = arrived + 1
    /\ \E s \in Signals :
          /\ raised' = raised \cup {s}
          /\ stopped' = (stopped /\ s # "CONT")
    /\ UNCHANGED <<outside, pending>>

Environment ==
    /\ ProcessesChange \/ StdoutChanges \/ SignalArrives
    /\ Quiet
    /\ UNCHANGED <<signalThread, main, raw, written, readerThread, writer, cancel>>

-----------------------------------------------------------------------------

Init ==
    /\ child = "running"
    /\ job = FALSE
    /\ holders = {"child"}
    /\ stdout = "open"
    /\ arrived = 0
    /\ raised = {}
    /\ pending = {}
    /\ forwarding = TRUE
    /\ signaller = "idle"
    /\ group = "child"
    /\ main = "top"
    /\ raw = TRUE
    /\ stopped = FALSE
    /\ queue = <<>>
    /\ reader = "reading"
    /\ read = 0
    /\ written = 0
    /\ writer = "polling"
    /\ cancel = FALSE
    /\ attempt = NoAttempt

Running(thread) == ~ stopped /\ thread

Next ==
    \/ Running(SignalThread)
    \/ Running(ReaderThread)
    \/ Running(WriterThread)
    \/ Running(MainThread)
    \/ Running(PolledResizeFails)
    \/ Environment

\* The threads run unless the wrapper is stopped; nothing is assumed of the
\* child, of the consumer of stdout, or of the arrival of signals.
Fairness ==
    /\ WF_vars(Running(SignalThread))
    /\ WF_vars(Running(ReaderThread))
    /\ WF_vars(Running(MainThread))
    /\ WF_vars(Running(WriterStep(WriteFails \/ WriterEnds)))

Spec == Init /\ [][Next]_vars /\ Fairness

-----------------------------------------------------------------------------

\* The group of the wrapped command is never signalled once the child is
\* reaped, when its number may belong to other processes: neither by the main
\* loop nor by the signal thread, which can be in the middle of its pause.
ReapedIsLeftAlone == [][attempt'.signal # "none" => child # "reaped"]_vars

\* All that was read from the pty is written before the wrapper gives up the
\* loop in the ordinary way, in spite of the full queue and the signals.
OutputIsComplete == main = "closing" => written = read /\ queue = <<>>

\* While the wrapper is stopped the outer terminal is not left in raw mode.
StoppedIsCooked == stopped => ~ raw

\* A termination signal is forwarded whatever the main loop waits for, unless
\* the wrapper is stopped or already tears down.
TerminationIsForwarded ==
    "TERM" \in raised ~> attempt.signal = "TERM" \/ stopped \/ ~ forwarding

\* Once the pty is closed for good, the wrapped command has ended and stdout
\* does not block, the wrapper joins all its threads and ends, whatever path
\* took it there.
WrapperEnds ==
    <>[](holders = {} /\ child # "running" /\ stdout # "blocked" /\ ~ stopped)
    => <>(main = "done")
=============================================================================
