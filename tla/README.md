# zor in TLA+

zor runs a command in a pseudo-terminal, passes every byte through, watches the screen, decides
whether the coding agent in the foreground is working, blocked or idle, and tells two consumers:
the outer terminal (OSC 7877 reports between the child's bytes, titles) and an event sink (JSON
lines on a socket or FIFO). `zor observe` does the same for a pane of a multiplexer. This directory
holds the specifications of these parts, the TLC configurations that check them, and proofs of the safety of
all of them. Paths such as `src/state.rs` are
relative to the repository.

## The system

| Component | Source | State it keeps | Operations |
|---|---|---|---|
| State machine | `src/state.rs` | published state, flags, agent, sequence number, pending hold, grace, heartbeat | `observe`, `tick`, `next_deadline` |
| Loss tracker | `src/platform/probe.rs` | tracked process, misses, exit announced | `update` |
| Probe scheduler | `src/platform/probe.rs` | next probe, last full one, acquisition window, missing group | `completed`, `due`, `screen_changed_without_agent`, `pgid_presence` |
| Detection in the main loop | `src/pty.rs` | active agent, last group | one iteration: receive, recheck, probe, tick |
| Output and injection | `src/pty.rs` | queued reports | write chunk, queue, drain |
| Boundary tracker, screen | `src/screen.rs` | sequence state, vt100 grid, title, checkpoint, window | `process`, `resize`, `ground` |
| Event sink | `src/emit/events.rs` | target, retry time, pending record, drop count | `write` (flush, store, flush) |
| Titles | `src/emit/title.rs` | original title, touched | `observe`, `restore` |
| Threads and signals | `src/pty.rs` | bounded queue, pending signals, forwarding flag, cancel flag, raw mode | reader, writer, signal thread, main loop, teardown |
| Rules, bundles | `src/rules/schema.rs`, `bundle.rs`, `eval.rs` | the rule sets, fixed after loading | `load_all`, `load`, `evaluate` |
| Identification | `src/rules/ident.rs` | none | `identify` over a job |
| Detection window | `src/screen.rs` | lines and text of the window | `refresh_window` |
| OSC codec | `src/osc.rs` | none | `format`, `parse` |
| Observer | `src/observe.rs` | a machine and a loss tracker of its own, the agent | sample a multiplexer's pane |

They interact by calls in one thread (the main loop calls screen, scheduler, tracker, machine, titles
and sink in a fixed order), by a bounded channel (reader to main loop), by atomics and one mutex
(signal thread and main loop: pending bits, the cached group, `signal_forwarding`), and by files and
sockets with processes outside.

What is hard in it: a pending transition that several callers confirm, cancel or let time out;
two trackers of one agent (machine and loss tracker) that must agree; a byte stream split at any
point, into which reports are woven; a consumer that stalls in the middle of a record; signals and
the reaping of the child in two threads; a stdout that blocks or breaks at any moment.

What makes each part correct, in a sentence:

- *state machine*: no idle without enough evidence for it, none during the startup grace, no
  publication without a change, and no hold that lasts for ever;
- *tracker and scheduler*: an agent in the foreground is found, one that is gone is given up, and
  not too early;
- *detection*: everybody has the same agent, and what is published reaches the report queue unless
  the queue is full or reports are switched off;
- *output*: reports only between sequences, and all of them in the end; the screen model is never
  inside a string the terminal has left;
- *sink*: whole records in order, the newest in the end, and no waiting;
- *observer*: after every sample, whichever request failed, the consumer has what the machine
  published and machine, tracker and loop have the same agent; the end of the pane is the end of the
  observer;
- *recognition*: the verdict is that of the best matching rule of the best matching process's agent,
  over a window that neither loses nor repeats a line;
- *codec*: what is formatted is what is parsed, and nothing malformed is accepted;
- *threads*: all output is written, no signal goes to a reaped group, none is lost while one may be
  forwarded, and the wrapper ends.

## Modules

    Feed <--refines-- Hysteresis --extends--> Machine <--instance-- Detector --instance--> LossTracker
                                                                                               ^
                                                                         Probing --> Prober ---+
                                              Observer --instance--> Machine, LossTracker
    LossyFeed <--refines-- EventSink              Lifecycle                  Codec
    Ecma48, Titles <-- Boundary <-- Output
    Regions <-- Screen, Rules <-- Recognition --> Identify

- `Machine` is `Machine` of `src/state.rs`. Its variables are the struct's fields plus `out`, the
  events the last call returned. `Observe(i)` has one disjunct for each path through `observe()`:
  `Adopt`/`LoseAgent` are the change of agent, `AgentExited` the exit, `IgnoreVerdict` the paths that
  only drop the hold, `OpenHold`, `ConfirmHold` and `TakeVerdict` the rest. `Tick` is `ForceIdle`,
  `EmitHeartbeat` or `NothingDue`. Instants are the time that is left until them (or since them for
  a hold), and `Elapse` lets one unit pass, so no clock grows without bound.
- `Hysteresis` adds history variables (the idle verdicts in a row, the time they span, the time the
  agent has been known, the time since the last message) that judge the machine from outside, and the properties. `Feed` is what a
  consumer is promised: numbered publications and repetitions of the newest.
- `LossTracker` is `LossTracker::update()`, an action per branch. `Prober` is the scheduler and the
  loop's use of it, in real time, which may start with an agent `assumed` from the command's name;
  `Probing` adds how long and how often an absence was seen.
- `Detector` is one iteration of the main loop, an action per call in the order of the code
  (`pc`). It instantiates `Machine` and `LossTracker` on the same state, and `told` is the last report
  that was queued in band: `Report` is `queue_events()`, which makes none under `--no-osc`, and
  `queue_injection()`, which may have no room (`refused`). An agent forced by `--agent` may be one
  without a rule set (`Ruled`). Whether a probe is full is left open here, and is the subject of `Prober`.
- `EventSink` is the sink with a consumer that reads, stalls, breaks the connection or is restarted
  between any two flushes; `LossyFeed` is what that consumer may rely on.
- `Boundary` is the boundary tracker, the filter in front of vt100 and the checkpoint. A byte is a
  class of bytes; the states of a real terminal are in `Ecma48`, from which the models of the outer
  terminal and of vt100 are made. `Titles` is the title that the wrapper makes of the child's. `Output`
  puts them together with the child's bytes, the queue of reports and titles, and the drain: an
  iteration of the loop is `FollowTitle` (the end of a chunk: `title() != last_title`), any number of
  `MakeReport`, `MakeNoReport` (a publication that makes no valid report, the loss of the agent) and
  `Discover` (`clear_detection_evidence()`), and `Drain`. The child's text may be UTF-8 also inside
  control strings (`wideOsc`, `wideString`).
- `Observer` is `run()` of `src/observe.rs`, an action per step of a sample that can fail by itself: the
  list of panes, the capture, probe and verdict (`Judge`), `Tick`, and the lines written one by one. It
  instantiates the same `Machine` and `LossTracker` as `Detector`. Why a request failed makes no
  difference to the code, so `ListFails` and `CaptureFails` may happen in any sample. A pane whose id
  was given to another process between the list and the capture is still captured, as in the code,
  and found out by the next list (`pane = "replaced"`).
- `Regions` is the detection window and `region_text()`; `Screen` puts it under a terminal in which a
  child writes lines, scrolls, goes home and erases, chunk by chunk: `ChunkEnds` is the end of `process()`,
  which makes a new window only if what it compares (`Compared`) or a callback's event has changed. `Rules` is what `load()` and `load_all()` accept
  and make of rule files, `gate_matches()` and `evaluate()`; `Identify` is `identify()`. `Recognition`
  applies both to the screen and the foreground job, and states the reference definitions they are
  checked against. A line is a record of what the code tests of a
  line (whether it is a horizontal rule, a prompt, which words it has), so no text is put together
  character by character.
- `Codec` is `format()` and `parse()`. The wire is a sequence of tokens, in which all that separates,
  frames or escapes is a token of its own, and so is a word that is looked at as a whole (a field's name, a
  state, a flag); an agent's id, a number and a message are written character by character. `Code` is the
  value of each character's byte. The actions are what can happen to a report on its way: a field is
  added, dropped or moved, or the frame is replaced (`Add`, `Drop`, `Move`, `Reframe`).
- `Lifecycle` is the four threads, from the moment they run to the last join, with the processes on
  the terminal and the reader of stdout as environment. The main thread's position is `main`; each
  step of teardown is an action, because signals and failures come between them.

The theorems about a module `X` and their proofs are in `XProofs`, for `X` one of `Detector`, `Observer`,
`Output`, `EventSink`, `Lifecycle`, `Recognition` and `Codec`; those about `Hysteresis` and `Probing`, which
speak of how long something lasted, are in `TimingProofs`. There are 31 theorems in all.

Operators whose names begin with `Mut` are plausible mistakes in the definition that follows them.
No specification uses them; they exist so that each property can be shown to fail when the code is
wrong in that way. `PROJECT.json` says which one breaks which property.

## Runs

`tlc -config X.cfg M`, for every `X` below; `M` is the part of the name before the underscore.

| Configuration | States | Shows |
|---|---|---|
| `MCHysteresis` | 4,868 | the hysteresis properties, the heartbeat's period and the refinement of `Feed` |
| `MCDetector` | 439,702 | agreement on the agent, settled holds, agents given up |
| `MCProbing` | 14,292 | agents are found, kept, and given up in time |
| `MCEventSink` | 10,742 | records stay whole, the refinement of `LossyFeed` |
| `MCOutput` | 2,536,972 | safe injection, parser and tracker in step, titles that show the state |
| `MCLifecycle` | 698,383 | signals, backpressure and teardown |
| `MCObserver` | 47,447 | the consumer's state and everybody's agent after each sample, and the end of the observer |
| `MCRecognition` | 391,710 | identification, rules, regions and window against their definitions |
| `MCCodec` | 127,130 | round trip and strictness of the report format |

Three further configurations check one sentence of the documents each, which the code does not bear
out; TLC finds a counterexample:

- `MCDetector_LossReachesConsumer`: the loss of an agent is never reported in band. `observe()`
  publishes `none` while it still holds the old agent, and a report of none with an agent is invalid.
  In the observer the same report is an error that ends it (`src/observe.rs:215`, action `Invalid`), so
  `ObserverInStep` and `ConsumerLearnsAgent` speak of the observer while it runs.
- `MCOutput_InjectionIsSafe`: after `ESC ESC [` the tracker is between sequences and the terminal is
  not. `MCOutput` itself excludes such a child (`RepeatedEsc = FALSE`).
- `MCOutput_ReportsArrive`: a UTF-8 continuation byte with the value of a C1 control opens a string in
  the tracker only; the prompt `❯` contains one. `MCOutput` excludes these characters
  (`Continuations = {"cont"}`).

Further disagreements between code and documents, found while modelling, that no configuration shows.
Where a property would be false because of one, the property says in its comment what it leaves out:

- the same agent relaunched with another pid is a replacement for the tracker (and DESIGN.md:153-155)
  but no change for the machine, so the grace does not start again (`src/state.rs:102`): by a verdict, or
  by the cap of a hold over its predecessor, it may be announced idle at once (`GraceSilencesIdle`
  measures the grace from a new identifier);
- between the exit marker and `none` the rules of the exited agent go on publishing what they see on
  the shell's screen (`src/pty.rs:459`, against DESIGN.md:250);
- a prompt drawn during the startup grace is never reported if the agent then stays silent, since the
  rules are applied on change only (`src/pty.rs:455`, against DESIGN.md:248);
- after the end of the pty termination signals are dropped while the child may live on and the wrapper
  waits for it (`src/pty.rs:594`);
- a loss, of which no report is made, queues no title either and leaves the lost agent's glyph in the
  outer one (`src/pty.rs:786`, against DESIGN.md:292-296, "nothing for none"; `TitleShowsState` speaks of
  the newest state of which a report was made); a child that sets its title to what it was takes the
  glyph away (`src/pty.rs:444`); the title restored at the end is empty if no title came after the last
  discovery;
- a cancelled control string that began before a discovery restores the title that the discovery had
  cleared (`src/screen.rs:313`, against DESIGN.md:154; the last disjunct of `TitleIsKept`);
- a character in a title whose continuation byte is 9C, such as the opening quotation mark (E2 80 9C),
  ends the string for the tracker and not for a terminal that decodes UTF-8, and a report may be written
  into the title (`src/screen.rs:145`, against DESIGN.md:104; `MCOutput` excludes these characters, and
  `MCOutput_ReportsArrive` shows their bytes at the beginning of a string);
- a chunk that scrolls and leaves the rows, the cursor and the flags as they were makes no new window,
  so the rules go on seeing the scrollback as it was (`src/screen.rs:323`; `WindowIsTail` promises only
  the viewport as it is);
- the scan of a runtime's arguments goes on after `--` (`src/rules/ident.rs:90`), where DESIGN.md:131 says
  it stops: an argument behind one may name a runtime that would have no name otherwise;
  `AgentIsBestMatch` says so much, and that a `--` never changes a name;
- a score is 3 if the program's name differs from `comm` before the path and the suffix are taken off
  (`src/rules/ident.rs:80`), not after as in DESIGN.md:136, and what is canonicalised is the basename, in the
  wrapper's directory, not the path (`src/rules/ident.rs:38`, against DESIGN.md:133);
- the observer probes every 100 ms and counts each probe as a full one, so the six misses that take the
  wrapper seconds take it 0.6 s (`src/observe.rs:171`); in the wrapper, too, a changed foreground group makes
  each probe a full one, so that they may take far less than the "about thirty seconds" of DESIGN.md:152;
- the id of a rule set is not checked when it is loaded, and an id that is no valid agent's makes its
  processes nobody (`src/rules/ident.rs:67`; `AgentIsBestMatch` assumes valid ids).

### Bounds

- Times are small numbers in the order of the code's: confirmation < cap, grace and heartbeat of a
  few units, so that each deadline can pass before, with and after each other one. `Confirmations` is
  3 as in the code (2 in `MCDetector`). `SeqMax` is reached, so the saturation is exercised.
- Two agents, and in `MCDetector` three processes of them, so that replacement is distinguished from relaunch,
  and a third agent without rules; more add nothing, as only equality of agents is tested.
- `MissLimit` is 3 instead of 6; `RecordSize` 3, so a record can be cut at two places; `Newest` 3, so one
  record can be pending, one dropped and one newest; `Asides` 2, `DropMax` 2 (reached).
- `MaxString` is 2 instead of 65,536: strings of less, just, and more than the limit; `MaxQueued` 3 and
  `MaxQueuedBytes` 4 with sizes 1 and 2, so each limit binds before the other in some behaviour and a
  title can be refused while its report is not; `Reports` 2, each publication with a report or without;
  two texts besides the empty title; characters of two bytes, in strings too.
- `Observer`: `MissLimit` 2, `Startup` 1, `SeqMax` 2; two processes of two agents.
- `Recognition`: 3 rows, up to `MaxWrites` = 2 operations of the child in a chunk, and as much scrollback as can reach the window; three lines and two titles, over
  which the bundles' 12 rules cover twelve of the thirteen regions and every form of a gate (the exception, the progress, is empty in `View`). `Jobs` has each
  runtime with all lists of up to three arguments, and all pairs of processes by name, path, link and
  declaration. Jobs change only before the child writes and while the child writes the job is
  `WatchedJob`: the window does not depend on the job, nor the agent on the screen. `MaxFiles` is 3 and
  the other limits of the loader are just those of the bundles, some of which are over one of them.
- `Codec`: sizes are counted in tokens, `MaxReport` 50, an agent of two bytes, a message of up to
  four (characters of one to four bytes, a surrogate) and the numbers 0, 7 and 10. All valid reports are checked for the round trip; those in `Edited` are changed up to
  `MaxEdits` = 2 times, which is enough for a field that is dropped and replaced, given twice, or moved
  into another frame.
- `QueueDepth` 1 and `Chunks` 2, so the reader blocks on a full queue; `Arrivals` 2 signals of any kinds
  (1 for the counterexample): two signals suffice for one to arrive while the other is handled.

### Fairness

- `Hysteresis`: calls of `tick` and time go on (the loop wakes up at least every 50 ms).
- `Detector`: each call of an iteration is made, time passes, and full probes recur while an agent is
  known: the scheduler then asks for one every five seconds, and nothing is assumed without an agent.
  It is strong fairness because the loop reaches the probe again and again, not always. That full
  probes do recur is what `Probing` shows from the scheduler itself, with weak fairness of probing
  when due and of time only.
- `EventSink`: a call runs to its end, heartbeats come once a state was published, time passes; nothing
  is assumed of the consumer. The refinement's liveness speaks of a consumer that stays healthy.
- `Output`: the loop ends its chunks and its iterations. The child may leave a sequence unfinished for
  ever.
- `Observer`: samples go on, because every request has a deadline, and time passes during the pauses
  again and again (strong fairness, as a pause is left in each sample). Nothing is assumed of the
  requests: all of them may fail for ever.
- `Recognition` and `Codec` have safety properties only. `Codec` stops when no edit is left, and
  the observer when it has ended, so deadlock is not checked in these two.
- `Lifecycle`: each thread runs unless the wrapper is stopped. Nothing is assumed of the child, of the
  consumer of stdout, or of the keyboard; `WrapperEnds` states what it needs of them. Deadlock is not
  checked there because the wrapper ends.

## Proofs

`TimingProofs` proves with TLAPS, of `Hysteresis`, for all values of the constants that satisfy
`MachineAssumption` (any agents, any non-negative times, at least one confirmation, any set of flag
sets that has the empty one):

| Theorem | Says |
|---|---|
| `TypeCorrect` | `HSpec => []TypeOK`, with what was published having a number |
| `HoldJustified` | `HSpec => []HoldIsJustified`: a hold is over a working state or the plain idle of an exit |
| `PlainIdleHeld` | `HSpec => PlainIdleIsHeld`: from working to plain idle only; blocked turns idle at once |
| `GraceSilences` | `HSpec => GraceSilencesIdle`: except exits, and from a new identifier on |
| `RepetitionsExplained` | `HSpec => NoIdlePublication`: an exit, a loss, or the cap's idle after an exit |
| `HeartbeatsPaced` | `HSpec => HeartbeatsArePaced`: a whole period after the message before it |
| `RefinesFeed` | `HSpec => F!Safety`: every step is a step or a stutter of `Feed` |

The argument is one inductive invariant, `HInv`: the types, `HistoryOK`, `HoldIsJustified`, and
`HoldCountsVerdicts`. The last is the strengthening the others need: the machine's own counters are
hidden from the properties, which speak of what was observed, so the invariant has to say that a
hold over a working state has counted no verdict that was not given and no time that did not pass,
and that the grace never runs out before the agent has been known for its length. With it, `ConfirmHold` and
`ForceIdle` can publish idle only when the history allows it. The proof has a lemma for each
action; the action properties then follow from `HInv` in the state before the step. `HeartbeatsPaced`
needs one fact more, that what is left of the period and the time since the last message make up the whole
period (`PeriodCounted`).

`DetectorProofs` proves, for all values that satisfy `DetectorAssumption` (any agents and processes,
each process of a known agent, any flag sets with the empty one), whatever the constants of the
machine and of the tracker are:

| Theorem | Says |
|---|---|
| `AgentsAgree` | `Spec => []OneAgent`: one agent everywhere, and no state or hold without one |
| `ConsumerStaysInStep` | `Spec => []ConsumerInStep`: unless the newest report was refused, or none is wanted |

Their invariant is `LoopInv`. `OneAgent` and `ConsumerInStep` are not inductive by themselves: the
rules' agent changes before the machine hears of it, so the invariant adds to what it says of the tracker (`TrackerFollows`) that the machine has the
loop's agent or none yet (`MachineFollows`), and that a machine without an agent has published
nothing and holds nothing (`QuietWithoutAgent`). The lemmas before the steps say what a call of the machine
may report: nothing, or one publication that the queue takes or refuses.

`OutputProofs` proves, for strings, queues, reports and titles of any size and number:

| Theorem | Says |
|---|---|
| `TrackerStaysInStep` | `Plain /\ Spec => []TrackerFollows` |
| `ParserStaysInStep` | `Plain /\ Spec => []ParserFollows` |
| `InjectionsAreSafe` | `Plain /\ Spec => InjectionIsSafe` |
| `TitlesAreKept` | `Plain /\ Spec => TitleIsKept` |

`Plain` is that the child writes neither a second ESC before a sequence nor characters whose bytes are C1
controls. Without it `TrackerStaysInStep` and `InjectionsAreSafe` are false, as the counterexamples of the
runs show, so the assumption leaves out what those two runs are about, and with it ordinary prompts and titles
that have such characters. The invariant is `OutputInv`. Its core,
`StreamInv`, relates the three automata: for each state of the terminal it says where the tracker and
the parser stand, which differs in an eight-bit CSI, which the parser does not know, and in a discarded
string, of which the parser sees nothing. `TitleInv` says that there is a checkpoint exactly while a
string is not discarded, and that until the string is closed the title is the checkpoint's or cleared;
`QueueInv` types the queue, so that adding to it never empties it.

Two more theorems of `OutputProofs` need no `Plain`:

| Theorem | Says |
|---|---|
| `TitlesShowTheState` | `Spec => []TitleShowsState` |
| `QueueKeepsItsLimits` | `Spec => []OutputTypeOK` |

`TitleShowsState` speaks of a drained queue, so its invariant `ShownInv` speaks of every queue: the last
title in it, or the outer terminal's if there is none, is what will be shown, and that one has the newest
number of which a report was made, and the newest text, unless it was refused or lost sight of. `OutputTypeOK` is inductive (`TypesInv`)
once the bytes of a queue are counted as the places they take (`BytesOf`), a finite set that grows by
the size of what is added.

`LifecycleProofs` proves, for a queue of any depth, any number of chunks and signals, and all that the
processes on the terminal and the reader of stdout may do:

| Theorem | Says |
|---|---|
| `ReapedNeverSignalled` | `Spec => ReapedIsLeftAlone` |
| `StoppedStaysCooked` | `Spec => []StoppedIsCooked` |
| `OutputArrivesWhole` | `Spec => []OutputIsComplete` |

The three invariants are separate. `ForwardingInv` orders the teardown: a thread that holds the
lock finds `signal_forwarding` set, the main thread takes the same lock to clear it, and it reaps the child only
after that. `TerminalInv` is that the main thread's own steps around `suspend_self()` keep the terminal cooked. `OutputInv`
accounts for every chunk between the reader and stdout: while the main thread is in its loop, what was read is
what was written plus what is in the queue and in the hands of the two threads, the end of the output is
the last thing queued, and the reader gives up a chunk only after `cancel`, when the loop is over.

`EventSinkProofs` proves, for records, lines and delays of any size and any number of aborted connections:

| Theorem | Says |
|---|---|
| `SinkTypes` | `Spec => []SinkTypeOK` |
| `SinkInStep` | `Spec => []InStep` |
| `SinkDeliversInOrder` | `Spec => L!Safety`: every step is a step or a stutter of `LossyFeed` |

The invariant `SinkInv` adds two facts to the first two: a sink without a connection starts its pending
record from the first byte and faces a consumer that has received nothing (`FreshLink`), and what is
pending is neither older than what the consumer has nor newer than what was offered (`InOrder`).

`TimingProofs` proves, of `Probing`, for any number of misses, cadences, groups and processes:

| Theorem | Says |
|---|---|
| `ExitsStayBounded` | `PSpec => []ExitsBounded` |
| `LossIsPatient` | `PSpec => LossTakesTime` |

They assume `PatienceAssumption`, that a known agent is probed no more often than during a hold and
that one miss is not enough; in the code the cadences are 100 and 300 ms, the misses six
(`src/platform/probe.rs:62`, `126`, `128`). The invariant `ProbingInv` relates the tracker's counter
to the time: each miss and the announcement of the exit were followed by a pause (`PausesCounted`), of which
the last may still run, and each announcement but the last has cost a miss (`ExitsPaidFor`).

`ObserverProofs` proves `ObserverStaysInStep`, `Spec => []ObserverInStep`, for any agents and processes.
The property speaks of the time between samples, the invariant `ObserverInv` of every point of one:
read to their end, the lines not yet written bring the consumer to the machine's state and number
(`ConsumerWillKnow`), the machine has the active agent once the sample's `observe()` was called, and the
tracked process is one of the active agent (`TrackedIsActive`).

`RecognitionProofs` proves, for terminals of any height and lines of any kind, any rule files, and any
jobs:

| Theorem | Says |
|---|---|
| `EveryTextIsTiled` | `Spec => []RegionsTile` |
| `WindowShowsTheTail` | `Spec => []WindowIsTail` |
| `BestRuleDecides` | `Spec => []FirstBestRuleWins` |
| `AgentIsIdentified` | `Spec => []AgentIsBestMatch` |

The invariants type the state (`JobListed`; `ScreenInv` also says of what the window was made) and say that the rule sets have unique ids
and integers for priorities (`RulesLoaded`); the work is in the lemmas about data.

- `BoxTiles` shows that any text whatever with a prompt box is tiled, `WindowOfText` that
  `refresh_window()`, which counts from the last row with text or the cursor, takes what `WindowIsTail`
  counts as unused rows. What `process()` does not compare is the scrollback alone, so `ScreenInv` keeps the
  window equal to that of the viewport as it is and of the scrollback it was `seen` with.
- `evaluate()` and `identify()` both go through a list and replace the best so far by a better one.
  `ChampionIsBest` says what that finds if being better is a weak order; priorities are one, and so is
  the leader first and then the score. That a definition by recursion has a value at all is
  `StepsMakeFunction`, and what holds of every step is proved by a least counterexample.
- `ScriptIsFirst` follows the scan of a runtime's arguments to the farthest place it reaches; that a `--` never
  changes a name follows from the reference definition.

`RecognitionAssumption` is what a parser of rule files and a listing of processes hand over (a rule file has
its fields and its rules in a sequence; a program and its arguments are names or options), and
`ScreenAssumption` that a line without text is blank, because the rows come right-trimmed, and that the
terminal has a row. A gate is a tree; its recursion is a function on the gates inside it (`Inside`), of
which nothing needs to be proved, since the choice among rules does not depend on why one matches.

`CodecProofs` proves, for agents, messages and sequence numbers of any size within the limits, for any limits
that leave room for them, and for any number of edits:

| Theorem | Says |
|---|---|
| `WireIsFields` | `Spec => []CodecInv` |
| `ReportsRoundTrip` | `Spec => []RoundTrip` |
| `ParsingIsStrict` | `Spec => ParseIsStrict` |

The inductive invariant `CodecInv` is that the wire is always some frame around some fields, the code `7877` first,
and that before the first edit it is what `format()` wrote of a valid report. It is needed because the edits
are defined on the fields that a reader finds in the wire: the properties can only be followed through an
edit if those are the fields that were put there. `RoundTrip` then is a fact about `format()` and `parse()`,
`ReportIsRead`: every well formed report is read as it is written. Its proof follows the code:

- `Pieces`, `Joined`, `Number`, `Taken` go through a sequence and keep a value. `Walk` and `After` say once
  what such a function is: it has a value, and one element more is one step more. `Decimal` and `Unescaped`
  recurse otherwise and have lemmas of their own. The induction over lengths is `AllSequences`, over
  a set instead of an operator, which the provers can instantiate.
- `PiecesOfJoined`: what is joined with a separator that no piece contains is split into the same pieces. It is
  used for the fields and for the flags.
- `MessageBack` and `NumberBack`: unescaping undoes escaping, byte by byte, and the digits of a number have its
  value.
- `Stage` is a place in a report: the fields written so far, the values they read as, and the most they can be long.
  `ReportStages` goes from the code to the message, one lemma for a field and one for a field that may be
  absent, and so also shows that no valid report is longer than the limit.

`ReadIsReport` adds that whatever `parse()` accepts is a well formed report, so it can be formatted and is read
again. For `ParseIsStrict`, `Reads` says without any order which values fields read as: each known field is
valid and the only one of its name. `TakenReads` equates it with the loop of `parse()`, so moving a field changes nothing,
and a field inserted anywhere counts as one at the end (`TailsAre`). The rest is about the frame:
`StripIs` says which wires `strip_frame()` accepts, `TerminatorIs` that a terminator is in a field if it is in
the payload.

The assumptions are those of `Codec`. `TokenAssumption` and `CodeAssumption` say that the words, and the characters
that `format()` writes, exist. `NoValueAssumption` keeps `None` and the error apart from all values.
`LimitAssumption` is what makes the round trip true at all: words, separators, the longest agent, number and
message (three tokens a byte) fit in `MaxReport`. In the code the longest agent has 64 bytes, the longest
message 128, the longest number 20 digits, so a report has at most 34 + 64 + 20 + 384 tokens, in which the
words have less than 60 letters more than tokens: well below the 1024 bytes of `MAX_REPORT_BYTES`.
`ReportAssumption` is what the types `AgentId` and `String` ensure. `WireAssumption` says that an edit adds one
field and does not close the frame with it, that an unknown field has no terminator, and that the text of a
message consists of bytes.

Only checked by TLC, on the instances above, is liveness, which is beyond the proof system: `IdleSettles`,
`HoldResolves`, `GoneIsLost`, `AgentIsFound`, `AbsentIsLost`, `ReportsArrive`, `TerminationIsForwarded`,
`WrapperEnds`, `ConsumerLearnsAgent`, `PaneEndsObserver`, and the liveness of `Feed` and `LossyFeed`. Every
invariant and every action property of the runs that hold is proved.

## Not modelled

- Characters: a line is what the code tests of it, a name one of a few, a pattern the set of words it
  wants. `regex`, `toml`, `vt100` and `String::from_utf8` are taken as they are documented to work.
- Progress, bells and the child's own reports that the screen records; the size of the terminal (a
  resize that fails ends the loop in `Lifecycle`, no more). `resize()` marks the screen as changed, but
  `process()` of the next chunk overwrites the mark (`src/screen.rs:323`).
- The listings of processes (`/proc`, sysctl), the encoding of event records as JSON, the size limits of
  rule files and replies: input, output and formatting. The command line, `zor check` and the nested run
  (`src/main.rs`, `src/cli.rs`) keep no state.
- Failures while the wrapper starts (before its threads run); the exit code; the record of the exit,
  which is offered to the sink once and dropped if another is pending (`src/pty.rs:620`).
- Injection between the bytes of one UTF-8 character, which a read of 8192 bytes can split:
  `InjectionIsSafe` speaks of sequences, as DESIGN.md does.
- The shell's job control: a stopped wrapper goes on only when a CONT comes.

## Plan

1. What the loader guarantees beyond unique ids, that each gate within its limits has a value.
2. The progress and the bells that the screen records.
