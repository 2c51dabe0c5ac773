------------------------------ MODULE Regions ------------------------------
(***************************************************************************)
(* The detection window of src/screen.rs and the regions of it that rules  *)
(* look at (src/rules/eval.rs).  A text is the sequence of its lines, each *)
(* ended by a newline; a line is a record of what the code can tell about  *)
(* it, right-trimmed:                                                      *)
(*   run     the length of the run of box-drawing dashes it starts with    *)
(*   rest    something follows that run                                    *)
(*   prompt  the prompt markers that are the line, or its start and are    *)
(*           followed by a space                                           *)
(*   starts  the block markers it starts with                              *)
(*   words   the words in it                                               *)
(***************************************************************************)
EXTENDS Integers, Sequences, FiniteSets

Blank == [run |-> 0, rest |-> FALSE, prompt |-> {}, starts |-> {}, words |-> {}]

Empty(line) == line.run = 0 /\ ~ line.rest

Where(lines, Test(_)) == {i \in DOMAIN lines : Test(lines[i])}
Greatest(S) == CHOOSE i \in S : \A j \in S : j <= i
Upto(lines, i) == SubSeq(lines, 1, i)
From(lines, i) == SubSeq(lines, i, Len(lines))

-----------------------------------------------------------------------------
(* The window *)

NonEmpty(lines) == Where(lines, LAMBDA line : ~ Empty(line))

\* The trailing blank lines are cut off.
Trimmed(lines) ==
    IF NonEmpty(lines) = {} THEN <<>> ELSE Upto(lines, Greatest(NonEmpty(lines)))

\* The last row of the viewport that counts: the cursor's, or a later one with
\* text; all of a blank viewport counts.
LiveEnd(live, cursor) ==
    IF NonEmpty(live) = {} THEN Len(live) ELSE Greatest(NonEmpty(live) \cup {cursor})

\* refresh_window(): as many lines as the viewport has rows, reaching back into
\* the scrollback on the primary screen.
Window(alternate, history, live, cursor) ==
    LET kept == From(history, IF Len(history) > Len(live)
                              THEN Len(history) - Len(live) + 1 ELSE 1)
        end == Len(kept) + LiveEnd(live, cursor)
        start == IF end > Len(live) THEN end - Len(live) + 1 ELSE 1
    IN  Trimmed(IF alternate THEN live ELSE SubSeq(kept \o live, start, end))

-----------------------------------------------------------------------------
(* Horizontal rules and prompt markers *)

HorizontalRule(line) == line.run >= 3 \/ (line.run = 2 /\ ~ line.rest)
Rulers(lines) == Where(lines, HorizontalRule)

\* marker_index(); without a marker in the rule set there is no marker line.
MarkerLines(lines, marker) == Where(lines, LAMBDA line : marker \in line.prompt)

\* The prompt box lies between the last two horizontal rules.
HasBox(lines) == Cardinality(Rulers(lines)) >= 2
BoxBottom(lines) == Greatest(Rulers(lines))
BoxTop(lines) == Greatest(Rulers(lines) \ {BoxBottom(lines)})

-----------------------------------------------------------------------------
(* region_text() *)

MutPromptBox(lines) ==
    IF HasBox(lines) THEN SubSeq(lines, BoxTop(lines) + 1, BoxBottom(lines)) ELSE <<>>

PromptBox(lines) ==
    IF HasBox(lines) THEN SubSeq(lines, BoxTop(lines) + 1, BoxBottom(lines) - 1) ELSE <<>>

AbovePromptBox(lines) ==
    IF HasBox(lines) THEN Upto(lines, BoxTop(lines) - 1) ELSE lines

LastLineAbovePromptBox(lines) ==
    LET above == AbovePromptBox(lines)
    IN  IF NonEmpty(above) = {} THEN <<>> ELSE <<above[Greatest(NonEmpty(above))]>>

\* The lines after the last of the given ones; nothing when there is none.
After(lines, indices) ==
    IF indices = {} THEN <<>> ELSE From(lines, Greatest(indices) + 1)

WholeUnlessAtPrompt(lines, set) ==
    LET markers == MarkerLines(lines, set.prompt_marker)
        after == After(lines, markers)
    IN  IF markers = {} \/ \E i \in DOMAIN after : after[i].starts \cap set.block_markers # {}
        THEN lines ELSE <<>>

\* The n-th of a set of indices, counted from the greatest or the least one;
\* nothing when there are fewer.
NthFromEnd(indices, n) == {i \in indices : Cardinality({j \in indices : j >= i}) = n}
NthFromStart(indices, n) == {i \in indices : Cardinality({j \in indices : j <= i}) = n}
AtLeastOne(n) == IF n = 0 THEN 1 ELSE n

RegionText(region, set, view) ==
    LET lines == view.lines
        n == region.n
        size == Len(lines)
    IN  CASE region.kind = "whole"    -> lines
          [] region.kind = "title"    -> view.title
          [] region.kind = "progress" -> view.progress
          [] region.kind = "bottom"   -> From(lines, IF n > size THEN 1 ELSE size - n + 1)
          [] region.kind = "top"      -> Upto(lines, IF n > size THEN size ELSE n)
          [] region.kind = "bottom_non_empty" ->
                LET nth == NthFromEnd(NonEmpty(lines), AtLeastOne(n))
                IN  IF nth = {} THEN <<>> ELSE From(lines, Greatest(nth))
          [] region.kind = "top_non_empty" ->
                LET nth == NthFromStart(NonEmpty(lines), AtLeastOne(n))
                IN  IF nth = {} THEN <<>> ELSE Upto(lines, Greatest(nth))
          [] region.kind = "prompt_box" -> PromptBox(lines)
          [] region.kind = "above_prompt_box" -> AbovePromptBox(lines)
          [] region.kind = "last_line_above_prompt_box" -> LastLineAbovePromptBox(lines)
          [] region.kind = "after_last_rule" -> After(lines, Rulers(lines))
          [] region.kind = "after_last_prompt_marker" ->
                After(lines, MarkerLines(lines, set.prompt_marker))
          [] region.kind = "whole_unless_at_prompt" -> WholeUnlessAtPrompt(lines, set)
=============================================================================
