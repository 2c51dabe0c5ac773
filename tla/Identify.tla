------------------------------ MODULE Identify ------------------------------
(***************************************************************************)
(* Which process of the foreground job is an agent (src/rules/ident.rs).   *)
(* A process has a pid, the kernel's name for it (comm), argv[0] where the *)
(* platform tells it, the arguments after it, and the agent its            *)
(* environment declares.  An argument is an option, or a file name with    *)
(* its base name in Basename.                                              *)
(***************************************************************************)
EXTENDS Integers, Sequences

CONSTANTS
    Nothing,        \* Option::None
    Basename,       \* basename(): quotes, directories and script suffixes removed
    Canonical,      \* what fs::canonicalize() makes of a name in the working directory
    AgentIds        \* the names that AgentId::new() accepts

Shells == {"sh", "bash", "zsh", "fish"}
Pythons == {"python", "python3"}
Runtimes == Shells \cup Pythons \cup {"node", "bun"}

\* The options that are followed by code or a module instead of a script.
EvalOptions(runtime) ==
    CASE runtime \in Shells  -> {"-c"}
      [] runtime \in Pythons -> {"-c", "-m"}
      [] OTHER               -> {"-e", "--eval", "-p", "--print"}

\* takes_value(): the value is in the next argument unless there is a `=`.
ValueOptions == {"-r", "--require", "-W", "-X", "-o", "-S", "-L"}
JoinedOptions == {"-r=x", "--require=x"}
OtherOptions == {"-", "-x", "--verbose"}
Options == EvalOptions("sh") \cup EvalOptions("python") \cup EvalOptions("node")
           \cup ValueOptions \cup JoinedOptions \cup OtherOptions \cup {"--"}

-----------------------------------------------------------------------------
(* normalized() *)

MutScript(runtime, argv) ==
    LET scan[i \in 1..Len(argv) + 1] ==
            IF i > Len(argv) THEN Nothing
            ELSE IF argv[i] \in EvalOptions(runtime) THEN Nothing
            ELSE IF argv[i] \in Options THEN scan[i + 1]
            ELSE Basename[argv[i]]
    IN  scan[1]

\* The script a runtime was started with: the first argument that is neither an
\* option nor the value of one, unless an eval option comes first.
Script(runtime, argv) ==
    LET scan[i \in 1..Len(argv) + 2] ==
            IF i > Len(argv) THEN Nothing
            ELSE IF argv[i] = "--" THEN scan[i + 1]
            ELSE IF argv[i] \in EvalOptions(runtime) THEN Nothing
            ELSE IF argv[i] \in ValueOptions THEN scan[i + 2]
            ELSE IF argv[i] \in Options THEN scan[i + 1]
            ELSE Basename[argv[i]]
    IN  scan[1]

Original(process) == IF process.argv0 = Nothing THEN process.comm ELSE process.argv0

\* The name to look up; Nothing for tmux and for a runtime without a script.
NameOf(process) ==
    LET base == Basename[Original(process)]
    IN  IF base = "tmux" THEN Nothing
        ELSE IF base \in Runtimes THEN Script(base, process.argv)
        ELSE base

Score(process) ==
    IF Basename[Original(process)] \in Runtimes \/ Original(process) # process.comm
    THEN 3 ELSE 2

-----------------------------------------------------------------------------
(* identify() *)

\* The first rule set with a property, as a sequence of at most one.
FirstSet(sets, Test(_)) ==
    LET hits == {i \in DOMAIN sets : Test(sets[i])}
    IN  IF hits = {} THEN <<>> ELSE <<sets[CHOOSE i \in hits : \A j \in hits : i <= j]>>

Named(sets, name) == FirstSet(sets, LAMBDA set : name \in set.process_names)

\* The rule set of a process, by its name or by what a link of that name in the
\* working directory points to.
SetOf(process, sets) ==
    LET name == NameOf(process)
    IN  IF name = Nothing THEN <<>>
        ELSE IF Named(sets, name) # <<>> THEN Named(sets, name)
        ELSE IF Canonical[name] # Nothing THEN Named(sets, Canonical[name])
        ELSE <<>>

\* Is the process at i a better match than the best one before it?
Better(job, i, best) ==
    LET leads(p) == job.processes[p].pid = job.leader
    IN  \/ leads(i) /\ ~ leads(best)
        \/ /\ leads(i) = leads(best)
           /\ Score(job.processes[i]) > Score(job.processes[best])

\* The index of the best match among the first n processes; 0 for none.
BestMatch(job, sets) ==
    LET best[n \in 0..Len(job.processes)] ==
            IF n = 0 THEN 0
            ELSE IF SetOf(job.processes[n], sets) = <<>> THEN best[n - 1]
            ELSE IF best[n - 1] = 0 \/ Better(job, n, best[n - 1]) THEN n
            ELSE best[n - 1]
    IN  best[Len(job.processes)]

\* An agent id that is no valid one makes no match, nor does another process then.
Match(set, process) ==
    IF set.id \in AgentIds THEN [agent |-> set.id, pid |-> process.pid] ELSE Nothing

Declared(process, sets) == FirstSet(sets, LAMBDA set : set.id = process.env_agent)

Identified(job, sets) ==
    LET declaring == {i \in DOMAIN job.processes : Declared(job.processes[i], sets) # <<>>}
        first == CHOOSE i \in declaring : \A j \in declaring : i <= j
        best == BestMatch(job, sets)
    IN  IF declaring # {}
        THEN Match(Declared(job.processes[first], sets)[1], job.processes[first])
        ELSE IF best = 0 THEN Nothing
        ELSE Match(SetOf(job.processes[best], sets)[1], job.processes[best])
=============================================================================
