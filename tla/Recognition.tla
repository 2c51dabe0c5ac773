---------------------------- MODULE Recognition ----------------------------
(***************************************************************************)
(* From the foreground job and the screen to a verdict: the rule files are *)
(* loaded, the job is searched for an agent, the terminal's rows and its   *)
(* scrollback become the detection window, and the agent's rules are       *)
(* applied to it (observation() and the full probe of src/pty.rs, and      *)
(* src/observe.rs).                                                        *)
(***************************************************************************)
EXTENDS Rules, Identify, Screen

CONSTANTS
    Files,          \* the rule files
    Bundles,        \* sequences of rule directories, each a sequence of files
    Jobs,           \* the foreground jobs
    WatchedJob      \* bound: the job that is in front while the child writes

\* What can be parsed as a rule file: its rules come in a sequence.
IsFile(file) ==
    /\ DOMAIN file = {"id", "aliases", "process_names", "prompt_marker",
                      "block_markers", "rules"}
    /\ file.rules \in Seq(Range(file.rules))
    /\ \A rule \in Range(file.rules) :
          /\ DOMAIN rule = {"id", "state", "priority", "region", "visible", "gate"}
          /\ rule.priority \in Int

\* The program and the arguments of a process are names or options.
IsJob(j) ==
    /\ j.processes \in Seq(Range(j.processes))
    /\ \A process \in Range(j.processes) :
          /\ Original(process) \in DOMAIN Basename
          /\ process.argv \in Seq(Options \cup DOMAIN Basename)

ASSUME RecognitionAssumption ==
    /\ \A name \in DOMAIN Basename : Basename[name] # Nothing
    /\ DOMAIN IdOrder \subseteq Nat
    /\ \A file \in Files : IsFile(file) /\ file.id \in Range(IdOrder)
    /\ Bundles \subseteq Seq(Seq(Files))
    /\ \A j \in Jobs : IsJob(j)
    /\ WatchedJob \in Jobs

VARIABLES
    sets,           \* the rule sets
    job

vars == <<sets, job, screenVars>>

ChildWrites == job = WatchedJob /\ ScreenNext /\ UNCHANGED <<sets, job>>

\* Only before the child writes; the window does not depend on the job.
JobChanges ==
    /\ live = Cleared /\ history = <<>> /\ cursor = 1 /\ title = <<>> /\ writes = 0
    /\ job' \in (IF job = WatchedJob THEN Jobs ELSE {}) \cup {WatchedJob}
    /\ UNCHANGED <<sets, screenVars>>

-----------------------------------------------------------------------------

\* The program ends at once when a rule file is bad.
Init ==
    /\ ScreenInit
    /\ \E directories \in Bundles : sets = LoadAll(directories)
    /\ sets # NoSets
    /\ job = WatchedJob

Next == ChildWrites \/ JobChanges

Spec == Init /\ [][Next]_vars

-----------------------------------------------------------------------------
(* Reference definitions *)

\* An argument is the value of an option if that option is not itself a value.
IsValue(argv) ==
    LET value[i \in DOMAIN argv] ==
            i > 1 /\ argv[i - 1] \in ValueOptions /\ ~ value[i - 1]
    IN  value

\* What a process runs is its program or, for a runtime, the first script among
\* its arguments, unless code or one of `stops` comes before it; DESIGN.md,
\* Identification.
Runs(process, stops) ==
    LET base == Basename[Original(process)]
        argv == process.argv
        own(i) == ~ IsValue(argv)[i]
        scripts == {i \in DOMAIN argv : own(i) /\ argv[i] \notin Options}
        ends == {i \in DOMAIN argv : own(i) /\ argv[i] \in EvalOptions(base) \cup stops}
    IN  IF base = "tmux" THEN {}
        ELSE IF base \notin Runtimes THEN {base}
        ELSE {Basename[argv[i]] : i \in {s \in scripts :
                 \A j \in scripts \cup ends : s <= j}}

\* The first rule set that lists one of the names: a set of at most one index.
Listing(names) ==
    LET hits == {s \in DOMAIN sets : names \cap sets[s].process_names # {}}
    IN  {s \in hits : \A k \in hits : s <= k}

\* The rule set of what a process runs, by its name or else by what a file of
\* that name in the working directory links to.
Matched(process) ==
    LET names == Runs(process, {})
        linked == {Canonical[name] : name \in names} \ {Nothing}
    IN  IF Listing(names) # {} THEN Listing(names) ELSE Listing(linked)

Candidates(j) == {i \in DOMAIN j.processes : Matched(j.processes[i]) # {}}

Wins(j, i) ==
    LET leads(k) == j.processes[k].pid = j.leader
        score(k) == Score(j.processes[k])
    IN  \A k \in Candidates(j) \ {i} :
           \/ leads(i) /\ ~ leads(k)
           \/ leads(i) = leads(k) /\ score(i) > score(k)
           \/ leads(i) = leads(k) /\ score(i) = score(k) /\ i < k

-----------------------------------------------------------------------------
(* What recognition guarantees *)

\* A job's agent is the one that its first declaring process declares, with the
\* pid of that process, or else that of its best match: the leader, then the
\* higher score, then the earlier process; so much only if every rule set's id
\* can be an agent's, which load() leaves open (identify()).  The name that is
\* looked up is that of the program or script run; code given to a runtime on
\* its command line is nobody.  The scan passes over a `--` (ident.rs:90-92)
\* where DESIGN.md says it stops: an argument behind one may name a runtime that
\* would have no name otherwise, but never changes a name.
AgentIsBestMatch ==
    LET declaring == {i \in DOMAIN job.processes :
                         \E s \in DOMAIN sets : sets[s].id = job.processes[i].env_agent}
        chosen == IF declaring # {} THEN {i \in declaring : \A k \in declaring : i <= k}
                  ELSE {i \in Candidates(job) : Wins(job, i)}
        agents(i) == IF declaring # {} THEN {job.processes[i].env_agent}
                     ELSE {sets[s].id : s \in Matched(job.processes[i])}
        found == Identified(job, sets)
    IN  /\ \A i \in DOMAIN job.processes :
              LET process == job.processes[i]
                  names == {NameOf(process)} \ {Nothing}
              IN  /\ Runs(process, {}) = names
                  /\ Runs(process, {"--"}) # {} => Runs(process, {"--"}) = names
        /\ (\A s \in DOMAIN sets : sets[s].id \in AgentIds) =>
              IF chosen = {} THEN found = Nothing
              ELSE \E i \in chosen : found.pid = job.processes[i].pid /\ found.agent \in agents(i)

\* Of the rules that match, the one of the highest priority decides, and the
\* earliest of those; nothing matching means idle.  This takes the loader's
\* unique ids, since evaluate() finds the winner again by its id.
FirstBestRuleWins ==
    \A s \in DOMAIN sets :
        LET rules == sets[s].rules
            hits == {i \in DOMAIN rules : Matches(rules[i], sets[s], View)}
            best == {i \in hits : \A j \in hits :
                        \/ rules[i].priority > rules[j].priority
                        \/ rules[i].priority = rules[j].priority /\ i <= j}
            verdict == Evaluate(sets[s], View)
        IN  IF hits = {} THEN verdict = Default
            ELSE \E i \in best : verdict = [state |-> rules[i].state,
                                            visible |-> rules[i].visible,
                                            rule |-> rules[i].id]
=============================================================================
