--------------------------- MODULE ObserverProofs ---------------------------
(***************************************************************************)
(* Proofs about zor observe, for any agents and processes, any parameters  *)
(* of the machine and of the tracker, and requests that fail at any time:  *)
(* what the consumer of the report lines was told last is the state of the *)
(* machine, and machine, tracker and observer have the same agent.         *)
(***************************************************************************)
EXTENDS Observer, SequenceTheorems, TLAPS

Items(s) == {s[n] : n \in DOMAIN s}

\* An event tells a consumer of this state, with this sequence number.
Tells(event, state, number) ==
    event.kind \in Reported /\ event.state = state /\ event.seq = number

Silent(event) == event.kind \notin Reported

\* A consumer that was told t and gets the lines l knows of this state in the end.
Learns(l, t, state, number) ==
    \/ /\ \A m \in DOMAIN l : Silent(l[m])
       /\ t.state = state /\ t.seq = number
    \/ \E k \in DOMAIN l :
          /\ Tells(l[k], state, number)
          /\ \A m \in DOMAIN l : m > k => Silent(l[m])

\* The lines of a sample are made by observe() and tick(), and all are written
\* before the next sample.
LinesOfSample ==
    /\ lines \in Seq(Items(lines))
    /\ pc \in {"list", "capture", "judge", "tick", "write", "sleep"}
    /\ pc \notin {"tick", "write"} => lines = <<>>

\* While the observer runs, the lines it has not written bring the consumer up to
\* the state of the machine.
ConsumerWillKnow == ended = "no" => Learns(lines, told, current, seq)

\* A forced agent is not tracked; another one is the observer's.
TrackedIsActive ==
    /\ forced => tracked = NoProcess
    /\ tracked # NoProcess => tracked.agent = active

\* Every sample that is judged gives the machine the observer's agent.
MachineIsActive ==
    agent = active \/ (forced /\ agent = NoAgent /\ seq = 0 /\ pc \notin {"tick", "write"})

ObserverInv == LinesOfSample /\ ConsumerWillKnow /\ TrackedIsActive /\ MachineIsActive

-----------------------------------------------------------------------------
(* What a consumer learns from a sequence of lines *)

LEMMA SequenceOfItems ==
    ASSUME NEW S, NEW s \in Seq(S)
    PROVE  s \in Seq(Items(s))
  <1>1. PICK n \in Nat : s \in [1..n -> S]
    BY SeqDef
  <1>2. s \in [1..n -> Items(s)]
    BY <1>1 DEF Items
  <1> QED
    BY <1>2, SeqDef

\* A line can always be appended.
LEMMA AppendAny ==
    ASSUME NEW S, NEW l \in Seq(S), NEW e
    PROVE  /\ l \in Seq(S \cup {e})
           /\ Append(l, e) \in Seq(S \cup {e})
           /\ Append(l, e) = l \o <<e>>
  <1>1. PICK n \in Nat : l \in [1..n -> S]
    BY SeqDef
  <1>2. l \in [1..n -> S \cup {e}]
    BY <1>1
  <1>3. l \in Seq(S \cup {e})
    BY <1>2, SeqDef
  <1> QED
    BY <1>3, AppendProperties, AppendIsConcat

LEMMA NothingToRead ==
    ASSUME NEW t, NEW state, NEW number
    PROVE  Learns(<<>>, t, state, number) <=> t.state = state /\ t.seq = number
  <1>1. DOMAIN <<>> = {}
    OBVIOUS
  <1> QED
    BY <1>1 DEF Learns

\* The fields of an event do not matter for the facts about sequences.
LEMMA LastOfAppend ==
    ASSUME NEW S, NEW l \in Seq(S), NEW e
    PROVE  /\ DOMAIN (l \o <<e>>) = 1..(Len(l) + 1)
           /\ (l \o <<e>>)[Len(l) + 1] = e
           /\ Len(l) + 1 \in DOMAIN (l \o <<e>>)
           /\ \A m \in DOMAIN (l \o <<e>>) : ~ (m > Len(l) + 1)
  <1> DEFINE All == S \cup {e}
             q == <<e>>
  <1>1. l \in Seq(All)
    BY AppendAny
  <1>2. q \in Seq(All) /\ Len(q) = 1 /\ q[1] = e
    OBVIOUS
  <1> HIDE DEF All, q
  <1>3. Len(l) \in Nat
    BY <1>1, LenProperties
  <1>4. /\ l \o q \in Seq(All)
        /\ Len(l \o q) = Len(l) + Len(q)
        /\ \A i \in 1..(Len(l) + Len(q)) :
              (l \o q)[i] = IF i <= Len(l) THEN l[i] ELSE q[i - Len(l)]
    BY <1>1, <1>2, ConcatProperties
  <1>5. DOMAIN (l \o q) = 1..(Len(l) + 1)
    BY <1>2, <1>4, LenProperties
  <1>6. Len(l) + 1 \in 1..(Len(l) + 1) /\ ~ (Len(l) + 1 <= Len(l))
        /\ (Len(l) + 1) - Len(l) = 1
    BY <1>3
  <1>7. (l \o q)[Len(l) + 1] = e
    BY <1>2, <1>4, <1>6
  <1>8. \A m \in 1..(Len(l) + 1) : ~ (m > Len(l) + 1)
    BY <1>3
  <1> QED
    BY <1>5, <1>6, <1>7, <1>8 DEF q

\* The last line decides.
LEMMA LastLineTells ==
    ASSUME NEW S, NEW l \in Seq(S), NEW e, NEW t, NEW state, NEW number,
           Tells(e, state, number)
    PROVE  Learns(l \o <<e>>, t, state, number)
  <1> DEFINE q == l \o <<e>>
             n == Len(l) + 1
  <1>1. n \in DOMAIN q /\ q[n] = e /\ \A m \in DOMAIN q : ~ (m > n)
    BY LastOfAppend
  <1> HIDE DEF q, n
  <1>2. Learns(q, t, state, number)
    BY <1>1 DEF Learns
  <1> QED
    BY <1>2 DEF q

\* One line is read: the others make up for it, or it told the rest.
LEMMA ReadingOneLine ==
    ASSUME NEW S, NEW l \in Seq(S), l # <<>>, NEW t, NEW t1, NEW state, NEW number,
           Learns(l, t, state, number),
           IF Silent(Head(l)) THEN t1 = t
           ELSE t1.state = Head(l).state /\ t1.seq = Head(l).seq
    PROVE  Learns(Tail(l), t1, state, number)
  <1> DEFINE r == Tail(l)
  <1>1. /\ r \in Seq(S) /\ Len(l) \in Nat /\ Len(l) # 0
        /\ Len(r) = Len(l) - 1 /\ Head(l) = l[1]
        /\ \A i \in 1..Len(r) : r[i] = l[i + 1]
    BY HeadTailProperties, EmptySeq, LenProperties
  <1> HIDE DEF r
  <1>2. DOMAIN l = 1..Len(l) /\ DOMAIN r = 1..Len(r)
    BY <1>1, LenProperties
  <1>3. 1 \in DOMAIN l /\ \A i \in DOMAIN r : i + 1 \in DOMAIN l /\ r[i] = l[i + 1]
    BY <1>1, <1>2
  <1>4. CASE /\ \A m \in DOMAIN l : Silent(l[m])
             /\ t.state = state /\ t.seq = number
    <2>1. t1 = t
      BY <1>1, <1>3, <1>4
    <2>2. \A m \in DOMAIN r : Silent(r[m])
      BY <1>3, <1>4
    <2>3. Learns(r, t1, state, number)
      BY <1>4, <2>1, <2>2 DEF Learns
    <2> QED
      BY <2>3 DEF r
  <1>5. ASSUME NEW k \in DOMAIN l, Tells(l[k], state, number),
               \A m \in DOMAIN l : m > k => Silent(l[m])
        PROVE  Learns(Tail(l), t1, state, number)
    <2>1. k \in Nat /\ k >= 1 /\ k <= Len(l)
      BY <1>1, <1>2
    <2>2. CASE k = 1
      <3>1. ~ Silent(Head(l)) /\ Head(l).state = state /\ Head(l).seq = number
        BY <1>1, <1>5, <2>2 DEF Tells, Silent
      <3>2. \A m \in DOMAIN r : m + 1 > k
        BY <1>1, <1>2, <2>2
      <3>3. \A m \in DOMAIN r : Silent(r[m])
        BY <1>3, <1>5, <3>2
      <3>4. Learns(r, t1, state, number)
        BY <3>1, <3>3 DEF Learns
      <3> QED
        BY <3>4 DEF r
    <2>3. CASE k # 1
      <3>1. k - 1 \in DOMAIN r /\ (k - 1) + 1 = k
        BY <1>1, <1>2, <2>1, <2>3
      <3>2. Tells(r[k - 1], state, number)
        BY <1>3, <1>5, <3>1
      <3>3. \A m \in DOMAIN r : m > k - 1 => m + 1 > k
        BY <1>1, <1>2, <2>1
      <3>4. \A m \in DOMAIN r : m > k - 1 => Silent(r[m])
        BY <1>3, <1>5, <3>3
      <3> DEFINE j == k - 1
      <3>5. j \in DOMAIN r /\ Tells(r[j], state, number)
            /\ \A m \in DOMAIN r : m > j => Silent(r[m])
        BY <3>1, <3>2, <3>4
      <3> HIDE DEF j
      <3>6. Learns(r, t1, state, number)
        BY <3>5 DEF Learns
      <3> QED
        BY <3>6 DEF r
    <2> QED
      BY <2>2, <2>3
  <1> QED
    BY <1>4, <1>5 DEF Learns

-----------------------------------------------------------------------------
(* What a call of the machine puts into the lines *)

\* Nothing new is told, after events that are no reports; or the call ends with
\* the report of what it published.
Brings(b) ==
    \/ current' = current /\ seq' = seq /\ out' = b
    \/ \E e : Tells(e, current', seq') /\ out' = Append(b, e)

LEMMA PublicationTells ==
    ASSUME NEW s, NEW f, NEW x, NEW a, NEW b, M!Publish(s, f, x, a, b)
    PROVE  Brings(b)
  <1> DEFINE e == M!Changed(s, f, x, a)
  <1>1. e.kind = "changed" /\ e.state = s /\ e.seq = M!NextSeq
    BY DEF M!Changed
  <1>2. current' = s /\ seq' = M!NextSeq /\ out' = Append(b, e)
    BY DEF M!Publish
  <1> HIDE DEF e
  <1>3. Tells(e, current', seq')
    BY <1>1, <1>2 DEF Tells, Reported
  <1> QED
    BY <1>2, <1>3 DEF Brings

LEMMA ObserveBrings ==
    ASSUME NEW i, M!Observe(i)
    PROVE  \E b \in {<<>>, <<M!Lost>>, <<M!Found(i.agent)>>} : Brings(b)
  <1>1. M!Announce(i.agent) \in {<<>>, <<M!Found(i.agent)>>}
    BY DEF M!Announce
  <1>2. ASSUME NEW b, M!Keep(b) PROVE Brings(b)
    BY <1>2 DEF M!Keep, Brings
  <1>3. CASE M!LoseAgent
    <2>1. Brings(<<M!Lost>>)
      BY <1>3, PublicationTells DEF M!LoseAgent
    <2> QED
      BY <2>1
  <1>4. CASE ~ M!LoseAgent
    <2>1. \/ M!AgentExited(i.agent)
          \/ M!IgnoreVerdict(i.verdict, i.agent)
          \/ M!OpenHold(i.verdict, i.agent)
          \/ M!ConfirmHold(i.verdict, i.agent)
          \/ M!TakeVerdict(i.verdict, i.agent)
      BY <1>4 DEF M!Observe
    <2>2. Brings(M!Announce(i.agent))
      <3>1. CASE M!AgentExited(i.agent)
        BY <3>1, PublicationTells DEF M!AgentExited
      <3>2. CASE M!IgnoreVerdict(i.verdict, i.agent)
        BY <1>2, <3>2 DEF M!IgnoreVerdict
      <3>3. CASE M!OpenHold(i.verdict, i.agent)
        BY <1>2, <3>3 DEF M!OpenHold
      <3>4. CASE M!ConfirmHold(i.verdict, i.agent)
        BY <1>2, <3>4, PublicationTells DEF M!ConfirmHold
      <3>5. CASE M!TakeVerdict(i.verdict, i.agent)
        BY <1>2, <3>5, PublicationTells DEF M!TakeVerdict
      <3> QED
        BY <2>1, <3>1, <3>2, <3>3, <3>4, <3>5
    <2> QED
      BY <1>1, <2>2
  <1> QED
    BY <1>3, <1>4

\* tick() reports the state it leaves, or nothing.
LEMMA TickBrings ==
    ASSUME M!Tick
    PROVE  \/ current' = current /\ seq' = seq /\ out' = <<>>
           \/ \E e : Tells(e, current', seq') /\ out' = <<e>>
  <1>1. CASE M!ForceIdle
    <2>1. Brings(<<>>)
      BY <1>1, PublicationTells DEF M!ForceIdle
    <2>2. \A e : Append(<<>>, e) = <<e>>
      OBVIOUS
    <2> QED
      BY <2>1, <2>2 DEF Brings
  <1>2. CASE M!EmitHeartbeat
    <2>1. current' = current /\ seq' = seq /\ out' = <<M!Repeat>>
      BY <1>2 DEF M!EmitHeartbeat
    <2>2. Tells(M!Repeat, current', seq')
      BY <2>1 DEF Tells, Reported, M!Repeat
    <2> QED
      BY <2>1, <2>2
  <1>3. CASE M!NothingDue
    BY <1>3 DEF M!NothingDue
  <1> QED
    BY <1>1, <1>2, <1>3 DEF M!Tick

-----------------------------------------------------------------------------
(* The steps *)

LEMMA InitEstablishesObserver == Init => ObserverInv
  <1> SUFFICES ASSUME Init PROVE ObserverInv
    OBVIOUS
  <1>1. lines = <<>> /\ pc = "list" /\ lines \in Seq(Items(lines))
    BY EmptySeq DEF Init
  <1>2. told.state = current /\ told.seq = seq
    BY DEF Init, M!Init
  <1>3. ConsumerWillKnow
    BY <1>1, <1>2, NothingToRead DEF ConsumerWillKnow
  <1>4. TrackedIsActive
    BY DEF Init, T!TrackerInit, TrackedIsActive
  <1>5. MachineIsActive
    BY DEF Init, M!Init, MachineIsActive
  <1> QED
    BY <1>1, <1>3, <1>4, <1>5 DEF ObserverInv, LinesOfSample

\* A step of the sample without a call, and one that ends the observer.
LEMMA QuietKeeps ==
    ASSUME ObserverInv, UNCHANGED <<current, agent, seq>>, tracked' = tracked,
           active' = active, forced' = forced, lines' = lines, told' = told, ended' = ended,
           \/ pc' = pc
           \/ /\ pc \notin {"tick", "write"} \/ lines = <<>>
              /\ pc' \in {"list", "capture", "judge", "sleep"}
    PROVE  ObserverInv'
  <1>1. LinesOfSample'
    BY DEF ObserverInv, LinesOfSample, Items
  <1>2. ConsumerWillKnow'
    BY DEF ObserverInv, ConsumerWillKnow, Learns
  <1>3. TrackedIsActive' /\ MachineIsActive'
    BY DEF ObserverInv, TrackedIsActive, MachineIsActive
  <1> QED
    BY <1>1, <1>2, <1>3 DEF ObserverInv

LEMMA ReturnKeeps ==
    ASSUME ObserverInv, Quiet, NEW how, how # "no", Return(how)
    PROVE  ObserverInv'
  <1>1. /\ lines' = <<>> /\ pc' = pc /\ ended' # "no"
        /\ tracked' = tracked /\ active' = active /\ forced' = forced
        /\ agent' = agent /\ seq' = seq
    BY DEF Return, Quiet, T!NoUpdate, M!NoCall
  <1>2. lines' \in Seq(Items(lines'))
    BY <1>1, EmptySeq
  <1> QED
    BY <1>1, <1>2
    DEF ObserverInv, LinesOfSample, ConsumerWillKnow, TrackedIsActive, MachineIsActive, Items

\* What the tracker finds becomes the active agent.
LEMMA JudgeTracks ==
    ASSUME ObserverInv, Track, active' = ActiveAfter, forced' = forced
    PROVE  TrackedIsActive'
  <1>1. TrackedIsActive
    BY DEF ObserverInv
  <1>2. CASE forced
    BY <1>1, <1>2 DEF Track, T!NoUpdate, TrackedIsActive
  <1>3. CASE ~ forced
    <2>1. \/ outcome' = "found"
          \/ outcome' = "exited" /\ tracked' = tracked
          \/ outcome' = "lost" /\ tracked' = NoProcess
          \/ outcome' = "none" /\ tracked' = tracked
      BY <1>3
      DEF Track, T!Update, T!Seen, T!NothingTracked, T!ShellIsBack, T!ShellIsStillThere,
          T!Miss, T!LastMiss, T!Forget
    <2>2. CASE outcome' = "found"
      BY <1>3, <2>2 DEF ActiveAfter, TrackedIsActive
    <2>3. CASE outcome' = "exited" /\ tracked' = tracked
      BY <1>3, <2>3 DEF ActiveAfter, TrackedIsActive
    <2>4. CASE outcome' = "lost" /\ tracked' = NoProcess
      BY <1>3, <2>4 DEF TrackedIsActive
    <2>5. CASE outcome' = "none" /\ tracked' = tracked
      BY <1>1, <1>3, <2>5 DEF ActiveAfter, TrackedIsActive
    <2> QED
      BY <2>1, <2>2, <2>3, <2>4, <2>5
  <1> QED
    BY <1>2, <1>3

\* observe() makes the agent of the call the machine's.
LEMMA ObserveAdopts ==
    ASSUME NEW i, M!Observe(i)
    PROVE  agent' = i.agent
  <1>1. CASE i.agent = NoAgent /\ agent # NoAgent
    BY <1>1 DEF M!Observe, M!LoseAgent
  <1>2. CASE ~ (i.agent = NoAgent /\ agent # NoAgent)
    <2>1. M!Adopt(i.agent)
      BY <1>2
      DEF M!Observe, M!AgentExited, M!IgnoreVerdict, M!OpenHold, M!ConfirmHold, M!TakeVerdict
    <2> QED
      BY <2>1 DEF M!Adopt
  <1> QED
    BY <1>1, <1>2

LEMMA JudgeKeeps == ObserverInv /\ Judge => ObserverInv'
  <1> SUFFICES ASSUME ObserverInv, Judge PROVE ObserverInv'
    OBVIOUS
  <1>1. /\ lines = <<>> /\ ended = "no" /\ ended' = ended
        /\ lines' = out' /\ pc' = "tick" /\ told' = told
    BY DEF Judge, ObserverInv, LinesOfSample
  <1>2. told.state = current /\ told.seq = seq
    BY <1>1, NothingToRead DEF ObserverInv, ConsumerWillKnow
  <1>3. PICK i : M!Observe(i) /\ i.agent = active'
    <2>1. PICK verdict \in VerdictsFor(active') :
             M!Observe([verdict |-> verdict, agent |-> active', exited |-> outcome' = "exited"])
      BY DEF Judge
    <2>2. [verdict |-> verdict, agent |-> active', exited |-> outcome' = "exited"].agent = active'
      OBVIOUS
    <2> QED
      BY <2>1, <2>2
  <1>4. PICK b \in {<<>>, <<M!Lost>>, <<M!Found(i.agent)>>} : Brings(b)
    BY <1>3, ObserveBrings
  <1>5. Silent(M!Lost) /\ Silent(M!Found(i.agent))
    BY DEF Silent, Reported, M!Lost, M!Found
  <1>6. b = <<>> \/ \E x : Silent(x) /\ b = <<x>>
    BY <1>4, <1>5
  <1>7. ASSUME NEW x, Silent(x), b = <<x>>
        PROVE  b \in Seq({x}) /\ DOMAIN b = {1} /\ b[1] = x
    BY <1>7
  <1>8. /\ \E S : b \in Seq(S)
        /\ \A m \in DOMAIN b : Silent(b[m])
    <2>1. CASE b = <<>>
      <3>1. b \in Seq({}) /\ DOMAIN b = {}
        BY <2>1, EmptySeq
      <3> QED
        BY <3>1
    <2>2. ASSUME NEW x, Silent(x), b = <<x>>
          PROVE  /\ \E S : b \in Seq(S)
                 /\ \A m \in DOMAIN b : Silent(b[m])
      BY <1>7, <2>2
    <2> QED
      BY <1>6, <2>1, <2>2
  <1>9. PICK S : b \in Seq(S)
    BY <1>8
  <1>10. (\E Z : lines' \in Seq(Z)) /\ Learns(lines', told, current', seq')
    <2>1. CASE current' = current /\ seq' = seq /\ out' = b
      BY <1>1, <1>2, <1>8, <1>9, <2>1 DEF Learns
    <2>2. ASSUME NEW e, Tells(e, current', seq'), out' = Append(b, e)
          PROVE  (\E Z : lines' \in Seq(Z)) /\ Learns(lines', told, current', seq')
      <3>1. Append(b, e) = b \o <<e>> /\ Append(b, e) \in Seq(S \cup {e})
        BY <1>9, AppendAny
      <3>2. Learns(b \o <<e>>, told, current', seq')
        BY <1>9, <2>2, LastLineTells
      <3> QED
        BY <1>1, <2>2, <3>1, <3>2
    <2> QED
      BY <1>4, <2>1, <2>2 DEF Brings
  <1>11. LinesOfSample'
    BY <1>1, <1>10, SequenceOfItems DEF LinesOfSample, Items
  <1>12. ConsumerWillKnow'
    BY <1>1, <1>10 DEF ConsumerWillKnow, Learns
  <1>13. TrackedIsActive'
    BY JudgeTracks DEF Judge
  <1>14. MachineIsActive'
    BY <1>3, ObserveAdopts DEF MachineIsActive
  <1> QED
    BY <1>11, <1>12, <1>13, <1>14 DEF ObserverInv

LEMMA TickKeeps == ObserverInv /\ Tick => ObserverInv'
  <1> SUFFICES ASSUME ObserverInv, Tick PROVE ObserverInv'
    OBVIOUS
  <1>1. /\ ended = "no" /\ ended' = ended /\ lines' = lines \o out' /\ pc' = "write"
        /\ told' = told /\ tracked' = tracked /\ active' = active /\ forced' = forced
    BY DEF Tick, T!NoUpdate
  <1>2. lines \in Seq(Items(lines)) /\ Learns(lines, told, current, seq)
    BY <1>1 DEF ObserverInv, LinesOfSample, ConsumerWillKnow
  <1>3. (\E Z : lines' \in Seq(Z)) /\ Learns(lines', told, current', seq')
    <2>1. CASE current' = current /\ seq' = seq /\ out' = <<>>
      <3>1. lines \o <<>> = lines
        BY <1>2, ConcatEmptySeq
      <3> QED
        BY <1>1, <1>2, <2>1, <3>1
    <2>2. ASSUME NEW e, Tells(e, current', seq'), out' = <<e>>
          PROVE  (\E Z : lines' \in Seq(Z)) /\ Learns(lines', told, current', seq')
      <3>1. Append(lines, e) = lines \o <<e>>
            /\ Append(lines, e) \in Seq(Items(lines) \cup {e})
        BY <1>2, AppendAny
      <3>2. Learns(lines \o <<e>>, told, current', seq')
        BY <1>2, <2>2, LastLineTells
      <3> QED
        BY <1>1, <2>2, <3>1, <3>2
    <2> QED
      BY <2>1, <2>2, TickBrings DEF Tick
  <1>4. LinesOfSample'
    <2>1. lines' \in Seq(Items(lines'))
      BY <1>3, SequenceOfItems
    <2> QED
      BY <1>1, <2>1 DEF LinesOfSample, Items
  <1>5. ConsumerWillKnow'
    BY <1>1, <1>3 DEF ConsumerWillKnow, Learns
  <1>6. TrackedIsActive'
    BY <1>1 DEF ObserverInv, TrackedIsActive
  <1>7. MachineIsActive'
    <2>1. agent' = agent
      BY DEF Tick, M!Tick, M!ForceIdle, M!EmitHeartbeat, M!NothingDue
    <2> QED
      BY <1>1, <2>1 DEF Tick, ObserverInv, MachineIsActive
  <1> QED
    BY <1>4, <1>5, <1>6, <1>7 DEF ObserverInv

LEMMA WriteKeeps == ObserverInv /\ Write => ObserverInv'
  <1> SUFFICES ASSUME ObserverInv, Write PROVE ObserverInv'
    OBVIOUS
  <1>1. /\ ended = "no" /\ ended' = ended /\ pc = "write" /\ pc' = pc /\ lines # <<>>
        /\ lines' = Tail(lines) /\ current' = current /\ seq' = seq
        /\ agent' = agent
        /\ tracked' = tracked /\ active' = active /\ forced' = forced
    BY DEF Write, Quiet, T!NoUpdate, M!NoCall
  <1>2. lines \in Seq(Items(lines)) /\ Learns(lines, told, current, seq)
    BY <1>1 DEF ObserverInv, LinesOfSample, ConsumerWillKnow
  <1>3. IF Silent(Head(lines)) THEN told' = told
        ELSE told'.state = Head(lines).state /\ told'.seq = Head(lines).seq
    BY DEF Write, Silent
  <1>4. Learns(Tail(lines), told', current, seq)
    BY <1>1, <1>2, <1>3, ReadingOneLine
  <1>5. Tail(lines) \in Seq(Items(lines))
    BY <1>1, <1>2, HeadTailProperties
  <1>6. LinesOfSample'
    <2>1. lines' \in Seq(Items(lines'))
      BY <1>1, <1>5, SequenceOfItems
    <2> QED
      BY <1>1, <2>1 DEF LinesOfSample, Items
  <1>7. ConsumerWillKnow'
    BY <1>1, <1>4 DEF ConsumerWillKnow, Learns
  <1>8. TrackedIsActive' /\ MachineIsActive'
    BY <1>1 DEF ObserverInv, TrackedIsActive, MachineIsActive
  <1> QED
    BY <1>6, <1>7, <1>8 DEF ObserverInv

LEMMA ObserverStep == ObserverInv /\ [Next]_vars => ObserverInv'
  <1> SUFFICES ASSUME ObserverInv, [Next]_vars PROVE ObserverInv'
    OBVIOUS
  <1>1. CASE \E to \in {"list", "capture", "judge", "sleep"} :
               /\ pc \notin {"tick", "write"} \/ lines = <<>>
               /\ Proceed(to) /\ Quiet
    BY <1>1, QuietKeeps DEF Proceed, Quiet, M!NoCall, T!NoUpdate
  <1>2. CASE \E how \in {"gone", "failed", "invalid", "closed"} : Return(how) /\ Quiet
    BY <1>2, ReturnKeeps
  <1>3. CASE List
    BY <1>1, <1>2, <1>3 DEF List
  <1>4. CASE ListFails
    BY <1>1, <1>2, <1>4 DEF ListFails
  <1>5. CASE Capture
    BY <1>1, <1>5 DEF Capture
  <1>6. CASE CaptureFails
    BY <1>2, <1>6 DEF CaptureFails
  <1>7. CASE Invalid
    BY <1>2, <1>7 DEF Invalid
  <1>8. CASE WriteFails
    BY <1>2, <1>8 DEF WriteFails
  <1>9. CASE AllWritten
    BY <1>1, <1>9 DEF AllWritten
  <1>10. CASE Wake
    BY <1>1, <1>10 DEF Wake
  <1>11. CASE Elapse
    BY <1>11, QuietKeeps DEF Elapse, M!Elapse, T!NoUpdate
  <1>12. CASE PaneEnds
    BY <1>12, QuietKeeps DEF PaneEnds, Quiet, M!NoCall, T!NoUpdate
  <1>13. CASE JobChanges
    BY <1>13, QuietKeeps DEF JobChanges, Quiet, M!NoCall, T!NoUpdate
  <1>14. CASE UNCHANGED vars
    BY <1>14, QuietKeeps DEF vars, M!vars, T!trackerVars, observer
  <1> QED
    BY <1>3, <1>4, <1>5, <1>6, <1>7, <1>8, <1>9, <1>10, <1>11, <1>12, <1>13, <1>14,
       JudgeKeeps, TickKeeps, WriteKeeps
    DEF Next, Sample

LEMMA ObserverInvariance == Spec => []ObserverInv
  BY InitEstablishesObserver, ObserverStep, PTL DEF Spec

\* Between two samples the consumer has been told the machine's state and its
\* number, and machine, tracker and observer have the same agent (the machine not
\* yet, of a forced one, before its first sample), through samples that fail and
\* agents that come and go (run()).
THEOREM ObserverStaysInStep == Spec => []ObserverInStep
  <1>1. ObserverInv => ObserverInStep
    <2> SUFFICES ASSUME ObserverInv, pc \in {"list", "capture"}, ended = "no"
                 PROVE  /\ told.state = current /\ told.seq = seq
                        /\ agent = active \/ (forced /\ agent = NoAgent /\ seq = 0)
                        /\ tracked # NoProcess => tracked.agent = active
      BY DEF ObserverInStep
    <2>1. lines = <<>>
      BY DEF ObserverInv, LinesOfSample
    <2>2. told.state = current /\ told.seq = seq
      BY <2>1, NothingToRead DEF ObserverInv, ConsumerWillKnow
    <2> QED
      BY <2>2 DEF ObserverInv, TrackedIsActive, MachineIsActive
  <1> QED
    BY <1>1, ObserverInvariance, PTL

=============================================================================
