------------------------------- MODULE Titles -------------------------------
(***************************************************************************)
(* The titles the wrapper gives the outer terminal (src/emit/title.rs): a  *)
(* glyph for the agent's state before the child's own title, or before the *)
(* agent's name.  The state is told by the number of the publication that  *)
(* announced it.                                                           *)
(***************************************************************************)
EXTENDS Integers

CONSTANTS Modes     \* the modes in use: "never", "prefix" and "replace"

VARIABLES
    mode,
    original,       \* the child's title when a title was last made
    changed         \* the wrapper has given the terminal a title

titleVars == <<mode, original, changed>>

NoText == 3         \* the empty title
AgentName == 4      \* the name of the agent, as a title

\* observe(): the frame it returns, if any
Framed(text, number) ==
    IF mode = "never" THEN <<>>
    ELSE <<[title |-> TRUE, number |-> number, size |-> 1,
            text |-> IF mode = "prefix" THEN text ELSE AgentName]>>

\* The child's title is noted in every mode.
Observe(text) ==
    /\ original' = text
    /\ changed' = (changed \/ mode # "never")
    /\ UNCHANGED mode

TitlesInit ==
    /\ mode \in Modes
    /\ original = NoText
    /\ changed = FALSE
=============================================================================
