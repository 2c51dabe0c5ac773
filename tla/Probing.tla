------------------------------ MODULE Probing ------------------------------
(***************************************************************************)
(* What the prober must conclude from what it sees, judged from outside by *)
(* two history variables over the probes of the present absence: the full  *)
(* probes in a row, the last one included, that did not find the agent.    *)
(***************************************************************************)
EXTENDS Prober

\* A pending hold makes probes more frequent, and one miss is not enough.
ASSUME PatienceAssumption ==
    /\ HoldCadence <= IdentifiedCadence
    /\ MissLimit > 1

VARIABLES
    absent,     \* time since the first probe of the absence, or Unset
    exits       \* exits announced during the absence

probingVars == <<proberVars, absent, exits>>

\* The longest absence that matters: all misses at the fastest cadence.
Patience == (MissLimit - 1) * HoldCadence

\* Did this step look for the tracked agent in vain?
LookedInVain == tracked # NoProcess /\ (tracked' = NoProcess \/ outcome' = "exited"
                                        \/ misses' > misses)

RememberProbe ==
    /\ absent' = IF ~ LookedInVain
                 THEN IF misses' = 0 /\ ~ announced' THEN Unset ELSE absent
                 ELSE IF absent = Unset THEN 0 ELSE absent
    /\ exits' = IF outcome' = "exited" THEN exits + 1
                ELSE IF tracked' = NoProcess \/ (misses' = 0 /\ ~ announced') THEN 0
                ELSE exits

RememberTime ==
    /\ absent' = Older(absent, Patience)
    /\ UNCHANGED exits

PInit == ProberInit /\ absent = Unset /\ exits = 0

PNext ==
    \/ Output /\ RememberProbe
    \/ Wake /\ RememberProbe
    \/ LetTimePass /\ RememberTime
    \/ ForegroundChanges /\ UNCHANGED <<absent, exits>>

PSpec ==
    /\ PInit /\ [][PNext]_probingVars
    /\ WF_probingVars(Wake /\ RememberProbe) /\ WF_probingVars(LetTimePass /\ RememberTime)

-----------------------------------------------------------------------------

\* A program that takes the agent's place in the foreground does not flicker
\* the indicator: the agent is lost only after it was missed for the time that
\* all the misses take at the fastest cadence, or, when the shell is back, for
\* one probe more than the one that announced the exit.
LossTakesTime ==
    [][outcome' = "lost" =>
          absent' >= IF Listed.shell THEN HoldCadence ELSE Patience]_probingVars

\* An exit can be announced again while the shell and other programs take
\* turns, but not for ever: each repetition costs a miss.
ExitsBounded == exits <= MissLimit

\* An agent that stays in the foreground is found and then kept, whatever was
\* tracked before, given up or assumed from the command's name, and even if the
\* same process was tracked and given up before: if only the screen goes on
\* changing while there is no agent, or some agent is known again and again.
AgentIsFound ==
    \A p \in Processes :
        /\ <>[](Listed.found = p)
        /\ []<><<Output /\ RememberProbe>>_probingVars \/ []<>Identified
        => <>[](tracked = p)

\* An agent that is never seen in the foreground again is given up, be there
\* the shell, other programs, another agent, or no foreground group at all.
AbsentIsLost ==
    \A p \in Processes : tracked = p ~> (tracked # p \/ Listed.found = p)
=============================================================================
