------------------------------- MODULE Rules -------------------------------
(***************************************************************************)
(* Rule sets: what the loader accepts (src/rules/schema.rs, bundle.rs) and *)
(* what the rules say of a view of the screen (src/rules/eval.rs).         *)
(*                                                                         *)
(* A gate is a record: contains, a set of words; regex and line_regex,     *)
(* sets of patterns, a pattern being the set of words that it wants in the *)
(* text or in one line; and the sequences of gates all, any and not.       *)
(***************************************************************************)
EXTENDS Regions, SequencesExt

CONSTANTS
    Lower,          \* to_lowercase(), a function on words
    BadPatterns,    \* patterns that do not compile
    MaxRules, MaxDepth, MaxDirect, MaxGates, MaxMatchers, MaxFiles,
    IdOrder,        \* the ids of rule sets in their order (BTreeMap)
    NoSets          \* the error of the loader

NoGate == [contains |-> {}, regex |-> {}, line_regex |-> {},
           all |-> <<>>, any |-> <<>>, not |-> <<>>]

Children(gate) == gate.all \o gate.any \o gate.not
Matchers(gate) ==
    Cardinality(gate.contains) + Cardinality(gate.regex) + Cardinality(gate.line_regex)

Sum(Count(_), seq) == MapThenSumSet(LAMBDA i : Count(seq[i]), DOMAIN seq)

\* The gate at level 0, and at each level the gates right inside those of the
\* one before.  No gate that load() accepts has any below MaxDepth.
Level(gate) ==
    LET level[depth \in 0..MaxDepth + 1] ==
            IF depth = 0 THEN {gate} ELSE UNION {Range(Children(g)) : g \in level[depth - 1]}
    IN  level

Inside(gate) == UNION {Level(gate)[depth] : depth \in 0..MaxDepth + 1}

-----------------------------------------------------------------------------
(* load() *)

\* A visible_* flag belongs to the state it is named after; skip has none.
FlagsOf(state) ==
    CASE state = "idle"    -> {"idle"}
      [] state = "blocked" -> {"blocker"}
      [] state = "working" -> {"working"}
      [] state = "skip"    -> {}

\* validate_gate(): each gate by itself, and its depth
ValidGate(gate) ==
    /\ Level(gate)[MaxDepth + 1] = {}
    /\ \A g \in Inside(gate) :
          /\ Matchers(g) + Len(Children(g)) \in 1..MaxDirect
          /\ (g.regex \cup g.line_regex) \cap BadPatterns = {}

\* validate_gate(): the totals over a gate and those inside it
Gates(gate) ==
    LET gates[g \in Inside(gate)] == 1 + Sum(LAMBDA child : gates[child], Children(g))
    IN  gates[gate]
AllMatchers(gate) ==
    LET matchers[g \in Inside(gate)] ==
            Matchers(g) + Sum(LAMBDA child : matchers[child], Children(g))
    IN  matchers[gate]

UniqueIds(rules) ==
    \A i, j \in DOMAIN rules : rules[i].id = rules[j].id => i = j

Loads(set) ==
    /\ Len(set.rules) <= MaxRules
    /\ UniqueIds(set.rules)
    /\ \A i \in DOMAIN set.rules :
          /\ set.rules[i].visible \subseteq FlagsOf(set.rules[i].state)
          /\ ValidGate(set.rules[i].gate)
    /\ Sum(LAMBDA rule : Gates(rule.gate), set.rules) <= MaxGates
    /\ Sum(LAMBDA rule : AllMatchers(rule.gate), set.rules) <= MaxMatchers

\* What load() makes of an accepted file: the needles in lower case, and the id
\* and the aliases for want of process names.
Lowered(gate) ==
    LET lowered[g \in Inside(gate)] ==
            LET each(gates) == [i \in DOMAIN gates |-> lowered[gates[i]]]
            IN  [g EXCEPT !.contains = {Lower[word] : word \in @}, !.all = each(@),
                          !.any = each(@), !.not = each(@)]
    IN  lowered[gate]

Loaded(set) ==
    LET names == set.process_names
        lowered == [i \in DOMAIN set.rules |-> [set.rules[i] EXCEPT !.gate = Lowered(@)]]
    IN  [set EXCEPT
            !.rules = lowered,
            !.process_names = IF names = {} THEN {set.id} \cup set.aliases ELSE names]

\* load_all(): the directories in their order, the files of each sorted by their
\* names; the last set of an id counts, at the place of its id among all ids.
\* Any bad file is an error of the whole.
LoadAll(directories) ==
    LET files == FlattenSeq(directories)
        of(id) == Where(files, LAMBDA set : set.id = id)
    IN  IF Len(files) > MaxFiles \/ \E i \in DOMAIN files : ~ Loads(files[i])
        THEN NoSets
        ELSE [place \in {p \in DOMAIN IdOrder : of(IdOrder[p]) # {}} |->
                 Loaded(files[Greatest(of(IdOrder[place]))])]

-----------------------------------------------------------------------------
(* gate_matches() *)

Words(text) == UNION {text[i].words : i \in DOMAIN text}
LowerWords(text) == {Lower[word] : word \in Words(text)}

GateMatches(gate, text) ==
    LET matches[g \in Inside(gate)] ==
            /\ g.contains \subseteq LowerWords(text)
            /\ \A pattern \in g.regex : pattern \subseteq Words(text)
            /\ \A pattern \in g.line_regex : \E i \in DOMAIN text : pattern \subseteq text[i].words
            /\ \A child \in Range(g.all) : matches[child]
            /\ g.any = <<>> \/ \E child \in Range(g.any) : matches[child]
            /\ \A child \in Range(g.not) : ~ matches[child]
    IN  matches[gate]

Matches(rule, set, view) == GateMatches(rule.gate, RegionText(rule.region, set, view))

-----------------------------------------------------------------------------
(* evaluate() *)

\* The verdict when no rule matches.
Default == [state |-> "idle", visible |-> {}, rule |-> "none"]

\* A matching rule replaces the winner so far only if its priority is higher;
\* the rule is then found again by the winner's id.
MutWinner(set, view) ==
    LET winner[n \in 0..Len(set.rules)] ==
            IF n = 0 THEN 0
            ELSE IF /\ Matches(set.rules[n], set, view)
                    /\ winner[n - 1] = 0
                       \/ set.rules[n].priority >= set.rules[winner[n - 1]].priority
            THEN n ELSE winner[n - 1]
    IN  winner[Len(set.rules)]

Winner(set, view) ==
    LET winner[n \in 0..Len(set.rules)] ==
            IF n = 0 THEN 0
            ELSE IF /\ Matches(set.rules[n], set, view)
                    /\ winner[n - 1] = 0
                       \/ set.rules[n].priority > set.rules[winner[n - 1]].priority
            THEN n ELSE winner[n - 1]
    IN  winner[Len(set.rules)]

Evaluate(set, view) ==
    LET winner == Winner(set, view)
        named == Where(set.rules, LAMBDA rule : rule.id = set.rules[winner].id)
        rule == set.rules[CHOOSE i \in named : \A j \in named : i <= j]
    IN  IF winner = 0 THEN Default
        ELSE [state |-> rule.state, visible |-> rule.visible, rule |-> rule.id]
=============================================================================
