---------------------------- MODULE MCRecognition ----------------------------
(* A small instance of recognition for TLC. *)
EXTENDS Recognition

Lowercase == [busy |-> "busy", Esc |-> "esc", esc |-> "esc", yes |-> "yes"]

\* Lines: a horizontal rule, the prompt with text after it, and a line that
\* starts with the rule set's block marker, two dashes, and is no horizontal rule.
Ruler == [Blank EXCEPT !.run = 2]
Busy == [Blank EXCEPT !.rest = TRUE, !.prompt = {">"}, !.words = {"busy", "Esc"}]
Ask == [Blank EXCEPT !.run = 2, !.rest = TRUE, !.starts = {"--"}, !.words = {"yes"}]
MCLines == {Ruler, Busy, Ask}
MCTitles == {<<>>, <<Busy>>}
MCIdOrder == <<"claude", "codex">>
MCBadPatterns == {{"bad"}}

Has(words) == [NoGate EXCEPT !.contains = words]
Rule(id, state, priority, kind, n, visible, gate) ==
    [id |-> id, state |-> state, priority |-> priority, region |-> [kind |-> kind, n |-> n],
     visible |-> visible, gate |-> gate]

Set(id, names, rules) ==
    [id |-> id, aliases |-> {}, process_names |-> names, prompt_marker |-> ">",
     block_markers |-> {"--"}, rules |-> rules]

\* Rules over most regions, with ties of priority and gates in gates.
Claude == Set("claude", {}, <<
    Rule("title", "working", 3, "title", 0, {"working"}, Has({"busy"})),
    Rule("viewer", "skip", 2, "above_prompt_box", 0, {},
         [Has({"esc"}) EXCEPT !.not = <<Has({"yes"})>>]),
    Rule("ask", "blocked", 2, "whole_unless_at_prompt", 0, {"blocker"},
         [NoGate EXCEPT !.line_regex = {{"yes"}}, !.any = <<Has({"Esc"}),
             [NoGate EXCEPT !.regex = {{"yes"}}, !.all = <<Has({"yes"})>>]>>]),
    Rule("last", "working", 1, "last_line_above_prompt_box", 0, {},
         [NoGate EXCEPT !.line_regex = {{"busy", "Esc"}}]),
    Rule("box", "idle", 1, "prompt_box", 0, {"idle"}, [NoGate EXCEPT !.not = <<Has({"busy"})>>])
    >>)
Codex == Set("codex", {"codex", "claude"}, <<
    Rule("marker", "blocked", 5, "after_last_prompt_marker", 0, {}, Has({"yes"})),
    Rule("rule", "idle", 5, "after_last_rule", 0, {}, Has({"yes"})),
    Rule("tail", "working", 4, "bottom_non_empty", 2, {}, Has({"busy"})),
    Rule("head", "blocked", 4, "top_non_empty", 1, {"blocker"}, Has({"yes"})),
    Rule("bottom", "working", 3, "bottom", 1, {"working"}, Has({"yes"})),
    Rule("top", "skip", 3, "top", 1, {}, Has({"esc"})),
    Rule("any", "idle", 0, "whole", 0, {"idle"}, [NoGate EXCEPT !.regex = {{"Esc"}}])
    >>)

\* Files that are refused: an id twice, another state's flag, an empty gate, a
\* gate too deep, and a pattern that does not compile.
Twice == Set("claude", {"claude"}, <<
    Rule("r", "working", 1, "whole", 0, {}, Has({"yes"})),
    Rule("r", "blocked", 2, "whole", 0, {}, Has({"busy"}))>>)
Wrong(visible, gate) ==
    Set("claude", {}, <<Rule("r", "idle", 1, "whole", 0, visible, gate)>>)
Deep == [NoGate EXCEPT !.all = <<[NoGate EXCEPT !.all = <<Has({"yes"})>>]>>]
Bad == {Wrong({"blocker"}, Has({"yes"})), Wrong({}, NoGate),
        Wrong({}, [NoGate EXCEPT !.all = <<Deep>>]), Wrong({}, [NoGate EXCEPT !.regex = {{"bad"}}])}
MCFiles == {Claude, Codex, Twice, Wrong({}, Has({"yes"}))} \cup Bad
MCBundles == {<<<<file>>>> : file \in Bad \cup {Twice}} \cup {<<<<Claude, Codex>>>>, <<<<Codex>>, <<Claude>>>>,
    <<<<Codex, Wrong({}, Has({"yes"}))>>, <<>>, <<Claude>>>>}

\* Names: programs, scripts given by their paths, and a link in the directory
\* where the wrapper runs.
Names == {"claude", "codex", "node", "sh", "python", "tmux", "vim", "link"}
MCBasename == [s \in Names \cup {"/x/claude.js", "/x/node", "a.js"} |->
    CASE s = "/x/claude.js" -> "claude" [] s = "/x/node" -> "node"
      [] s = "a.js" -> "a" [] OTHER -> s]
MCCanonical == [n \in Names \cup {"a"} |-> IF n = "link" THEN "codex" ELSE Nothing]

Process(pid, comm, argv0, argv, env) ==
    [pid |-> pid, comm |-> comm, argv0 |-> argv0, argv |-> argv, env_agent |-> env]
Arguments == {"--", "-c", "-e", "-m", "-r", "-r=x", "-x", "/x/claude.js", "a.js"}
RuntimeJobs == {[leader |-> 1, processes |-> <<Process(1, comm, Nothing, argv, Nothing)>>] :
    comm \in {"node", "sh", "python"}, argv \in UNION {[1..n -> Arguments] : n \in 0..3}}
Some(pid) == {Process(pid, "vim", Nothing, <<>>, env) : env \in {Nothing, "codex", "nobody"}}
    \cup {Process(pid, comm, argv0, <<"/x/claude.js">>, Nothing) :
             comm \in {"claude", "codex", "link", "tmux"}, argv0 \in {Nothing, "/x/claude.js", "/x/node"}}
MixedJobs == {[leader |-> leader, processes |-> <<p, q>>] :
    leader \in 1..3, p \in Some(1), q \in Some(2)}
MCWatchedJob == [leader |-> 1, processes |-> <<Process(1, "claude", Nothing, <<>>, Nothing)>>]
MCJobs == RuntimeJobs \cup MixedJobs \cup {MCWatchedJob, [leader |-> 1, processes |-> <<>>]}
=============================================================================
