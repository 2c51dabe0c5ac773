------------------------------- MODULE Screen -------------------------------
(***************************************************************************)
(* The screen model of src/screen.rs: the terminal's rows and scrollback,  *)
(* of which refresh_window() makes the text that the rules read, after a   *)
(* call of process() that changed what it compares.  The terminal is the   *)
(* vt100 crate's, cut down to what moves text: lines are written, the      *)
(* screen scrolls, the cursor goes home, text is erased.                   *)
(***************************************************************************)
EXTENDS Regions

CONSTANTS
    Lines,          \* the lines the child may write
    Titles,         \* the titles it may set, as texts
    Rows,           \* the height of the terminal
    MaxWrites       \* bound: what the child does in one chunk of its output

\* A line of a terminal is right-trimmed: with no text in it, it is blank.
ASSUME ScreenAssumption ==
    /\ Rows \in Nat \ {0}
    /\ MaxWrites \in Nat
    /\ \A line \in Lines : Empty(line) => line = Blank

VARIABLES
    alternate,      \* the alternate screen is shown; it has no scrollback
    history,        \* the last lines of the scrollback
    live,           \* the rows of the viewport
    cursor,         \* its row
    title,
    event,          \* a callback reported something in this chunk
    writes,         \* what the child did so far in this chunk; 0 between chunks
    before,         \* what process() compares, from before this chunk
    window,         \* the lines of the window, from when it was last made
    seen            \* history variable: the scrollback it was made of

screenVars == <<alternate, history, live, cursor, title, event, writes, before, window, seen>>

Cleared == [row \in 1..Rows |-> Blank]

View == [lines |-> window, title |-> title, progress |-> <<>>]

-----------------------------------------------------------------------------
(* The child's output, handled by process() chunk by chunk *)

MutCompared == <<live, alternate>>

\* The scrollback is not compared.
Compared == <<live, cursor, alternate>>

Writing ==
    /\ writes < MaxWrites
    /\ writes' = writes + 1
    /\ UNCHANGED <<alternate, before, window, seen>>

\* A line that scrolls out of a primary screen goes to the scrollback, of which
\* no more than Rows - 1 lines can ever reach the window.
Scrolled(line) ==
    IF alternate THEN <<>>
    ELSE LET all == Append(history, line)
         IN  IF Len(all) < Rows THEN all ELSE Tail(all)

Scrolls == live' = Append(Tail(live), Blank) /\ history' = Scrolled(live[1])

WriteLine(line) ==
    /\ Writing
    /\ live' = [live EXCEPT ![cursor] = line]
    /\ UNCHANGED <<history, cursor, title, event>>

LineFeed ==
    /\ Writing
    /\ IF cursor < Rows THEN cursor' = cursor + 1 /\ UNCHANGED <<live, history>>
       ELSE Scrolls /\ UNCHANGED cursor
    /\ UNCHANGED <<title, event>>

\* CSI S: the screen scrolls under the cursor.
ScrollUp == Writing /\ Scrolls /\ UNCHANGED <<cursor, title, event>>

GoHome == Writing /\ cursor' = 1 /\ UNCHANGED <<history, live, title, event>>

EraseBelow ==
    /\ Writing
    /\ live' = [row \in 1..Rows |-> IF row < cursor THEN live[row] ELSE Blank]
    /\ UNCHANGED <<history, cursor, title, event>>

ChildSetsTitle ==
    /\ Writing
    /\ title' \in Titles
    /\ event' = TRUE
    /\ UNCHANGED <<history, live, cursor>>

\* The window is made anew only if a callback or a comparison tells of a change;
\* `moved` is what the model has not got of those compared: the cursor's column
\* and blanks at the end of rows.
ChunkEnds ==
    /\ writes > 0
    /\ \E moved \in BOOLEAN :
          IF Compared # before \/ event \/ moved
          THEN window' = Window(alternate, history, live, cursor) /\ seen' = history
          ELSE UNCHANGED <<window, seen>>
    /\ before' = Compared
    /\ event' = FALSE
    /\ writes' = 0
    /\ UNCHANGED <<alternate, history, live, cursor, title>>

ScreenInit ==
    /\ alternate \in BOOLEAN
    /\ history = <<>>
    /\ live = Cleared
    /\ cursor = 1
    /\ title = <<>>
    /\ event = FALSE
    /\ writes = 0
    /\ before = <<live, cursor, alternate>>
    /\ window = Window(alternate, history, live, cursor)
    /\ seen = history

ScreenNext ==
    \/ \E line \in Lines : WriteLine(line)
    \/ LineFeed \/ ScrollUp \/ GoHome \/ EraseBelow
    \/ ChildSetsTitle
    \/ ChunkEnds

-----------------------------------------------------------------------------
(* What the view of the screen guarantees *)

\* A screen with a prompt box is cut into the text above it, the box between
\* its two horizontal rules, and the text after: no line is lost or read twice,
\* and no rule is left in the last two parts.
Tiled(lines) ==
    LET box == PromptBox(lines)
        after == After(lines, Rulers(lines))
    IN  HasBox(lines) =>
            /\ lines = AbovePromptBox(lines) \o <<lines[BoxTop(lines)]>> \o box
                       \o <<lines[BoxBottom(lines)]>> \o after
            /\ Rulers(box) = {} /\ Rulers(after) = {}

\* Every text the rules can be given is tiled in this way (region_text()).
RegionsTile == Tiled(View.lines)

\* DESIGN.md, the detection text: after a chunk the window has all the text of
\* the viewport as it is now and, unless that is blank, for the rows below both
\* the text and the cursor as many of the last lines of the scrollback as there
\* are.  Only the viewport is never stale: a chunk that scrolls and leaves the
\* rows and the cursor as they were makes no new window (screen.rs:323-332), so
\* the lines of the scrollback are those of when it was last made.
WindowIsTail ==
    LET unused == {row \in 1..Rows : row > cursor /\ \A r \in row..Rows : Empty(live[r])}
        reach == IF alternate THEN 0
                 ELSE IF Len(seen) < Cardinality(unused) THEN Len(seen)
                 ELSE Cardinality(unused)
    IN  writes = 0 =>
           IF live = Cleared THEN window = <<>>
           ELSE window = From(seen, Len(seen) - reach + 1) \o Trimmed(live)
=============================================================================
