---------------------------- MODULE CodecProofs ----------------------------
(***************************************************************************)
(* Proofs about the report codec, for agents, messages and numbers of any  *)
(* size within the limits, for any limits that leave room for them, and    *)
(* for any number of edits: what format() writes, parse() reads back, and  *)
(* the order of the fields, unknown fields and the frame do not matter.    *)
(***************************************************************************)
EXTENDS Codec, SequenceTheorems, FiniteSetTheorems, WellFoundedInduction, TLAPS

-----------------------------------------------------------------------------
(* Induction, over sets of numbers *)

\* A set of numbers that has every number whose predecessors it has is Nat.
LEMMA AllNumbers ==
    ASSUME NEW S, \A n \in Nat : (\A k \in 0..(n - 1) : k \in S) => n \in S
    PROVE  \A n \in Nat : n \in S
  <1> DEFINE R == {pair \in Nat \X Nat : pair[1] < pair[2]}
             Missing == Nat \ S
  <1>1. IsWellFoundedOn(R, Nat)
    BY NatLessThanWellFounded, Zenon DEF OpToRel
  <1>2. ASSUME Missing # {} PROVE FALSE
    <2>1. PICK x \in Missing : \A y \in Missing : ~ (<<y, x>> \in R)
      <3>1. Missing \subseteq Nat
        OBVIOUS
      <3> HIDE DEF R, Missing
      <3> QED
        BY <1>1, <1>2, <3>1, WFMin, Zenon
    <2>2. \A k \in 0..(x - 1) : k \in Nat /\ <<k, x>> \in R
      OBVIOUS
    <2>3. \A k \in 0..(x - 1) : k \in S
      BY <2>1, <2>2
    <2> QED
      BY <2>1, <2>3
  <1> QED
    BY <1>2

\* A set that has 0, and with a number below N the next one, has all up to N.
LEMMA AllUpTo ==
    ASSUME NEW N \in Nat, NEW S, 0 \in S, \A n \in 1..N : n - 1 \in S => n \in S
    PROVE  \A n \in 0..N : n \in S
  <1> DEFINE T == S \cup {n \in Nat : n > N}
  <1>1. ASSUME NEW n \in Nat, \A k \in 0..(n - 1) : k \in T
        PROVE  n \in T
    <2>1. CASE n = 0 \/ n > N
      BY <2>1
    <2>2. CASE n \in 1..N
      <3>1. n - 1 \in 0..(n - 1) /\ n - 1 \in Nat /\ ~ (n - 1 > N)
        BY <2>2
      <3>2. n - 1 \in S
        BY <1>1, <3>1
      <3> QED
        BY <2>2, <3>2
    <2> QED
      BY <2>1, <2>2
  <1>2. \A n \in Nat : n \in T
    <2> HIDE DEF T
    <2> QED
      BY <1>1, AllNumbers
  <1> QED
    BY <1>2

\* A set of sequences that has the empty one, and with each sequence those that
\* are one element longer, has all.
LEMMA AllSequences ==
    ASSUME NEW S, NEW T, <<>> \in T, \A s \in Seq(S), e \in S : s \in T => Append(s, e) \in T
    PROVE  \A s \in Seq(S) : s \in T
  <1> TAKE s \in Seq(S)
  <1> DEFINE N == Len(s)
             Begin(n) == SubSeq(s, 1, n)
             Had == {n \in 0..N : Begin(n) \in T}
  <1>1. N \in Nat /\ Begin(N) = s /\ Begin(0) = <<>>
    OBVIOUS
  <1>2. 0 \in Had
    <2> HIDE DEF N, Begin
    <2> QED
      BY <1>1
  <1>3. ASSUME NEW n \in 1..N, n - 1 \in Had
        PROVE  n \in Had
    <2>1. Begin(n - 1) \in Seq(S) /\ s[n] \in S /\ Begin(n) = Append(Begin(n - 1), s[n])
      BY <1>1
    <2>2. Begin(n - 1) \in T /\ n \in 0..N
      BY <1>1, <1>3
    <2>3. Append(Begin(n - 1), s[n]) \in T
      <3> HIDE DEF Begin
      <3> QED
        BY <2>1, <2>2, Zenon
    <2> HIDE DEF N, Begin
    <2> QED
      BY <2>1, <2>2, <2>3
  <1>4. \A n \in 0..N : n \in Had
    <2> HIDE DEF N, Had
    <2> QED
      BY <1>1, <1>2, <1>3, AllUpTo
  <1> HIDE DEF N, Begin
  <1> QED
    BY <1>1, <1>4

-----------------------------------------------------------------------------
(* Going through a sequence, one element after another *)

\* From the value v, a step for each element.
Walk(s, S, V, v, step) == s \in Seq(S) /\ v \in V /\ step \in [V \X S -> V]

\* f has the value before the first element and after each of them.
Follows(f, s, v, step) ==
    f[0] = v /\ \A i \in 1..Len(s) : f[i] = step[<<f[i - 1], s[i]>>]

\* There are results that follow from each other along any sequence.
LEMMA SomethingFollows ==
    ASSUME NEW S, NEW s \in Seq(S), NEW V, NEW v \in V, NEW step \in [V \X S -> V]
    PROVE  \E f \in [0..Len(s) -> V] : Follows(f, s, v, step)
  <1> DEFINE N == Len(s)
             Good(f, m) == f[0] = v /\ \A i \in 1..m : f[i] = step[<<f[i - 1], s[i]>>]
             Made == {m \in 0..N : \E f \in [0..m -> V] : Good(f, m)}
  <1>1. N \in Nat /\ \A i \in 1..N : s[i] \in S
    OBVIOUS
  <1>2. 0 \in Made
    <2>1. [i \in 0..0 |-> v] \in [0..0 -> V] /\ Good([i \in 0..0 |-> v], 0)
      OBVIOUS
    <2>2. 0 \in 0..N
      BY <1>1
    <2> HIDE DEF Good, N
    <2> QED
      BY <2>1, <2>2
  <1>3. ASSUME NEW m \in 1..N, m - 1 \in Made
        PROVE  m \in Made
    <2>1. PICK f \in [0..(m - 1) -> V] : Good(f, m - 1)
      BY <1>3
    <2>2. m \in Nat /\ m - 1 \in 0..(m - 1) /\ s[m] \in S
      BY <1>1
    <2>3. f[m - 1] \in V
      BY <2>1, <2>2
    <2> DEFINE w == step[<<f[m - 1], s[m]>>]
               g == [i \in 0..m |-> IF i = m THEN w ELSE f[i]]
    <2>4. w \in V
      BY <2>2, <2>3
    <2> HIDE DEF w
    <2>5. g \in [0..m -> V]
      BY <2>1, <2>2, <2>4
    <2>6. g[m] = w /\ \A i \in 0..(m - 1) : g[i] = f[i]
      BY <2>2
    <2>7. Good(g, m)
      <3>1. g[0] = v
        BY <2>1, <2>2, <2>6
      <3>2. ASSUME NEW i \in 1..m
            PROVE  g[i] = step[<<g[i - 1], s[i]>>]
        <4>1. i - 1 \in 0..(m - 1) /\ g[i - 1] = f[i - 1]
          BY <2>2, <2>6
        <4>2. CASE i = m
          BY <2>6, <4>1, <4>2 DEF w
        <4>3. CASE i # m
          <5>1. i \in 1..(m - 1) /\ i \in 0..(m - 1)
            BY <2>2, <4>3
          <5> QED
            BY <2>1, <2>6, <4>1, <5>1
        <4> QED
          BY <4>2, <4>3
      <3> QED
        BY <3>1, <3>2
    <2> HIDE DEF g
    <2> QED
      BY <1>1, <2>5, <2>7
  <1>4. N \in Made
    <2> HIDE DEF Made, N
    <2>1. \A m \in 0..N : m \in Made
      BY <1>1, <1>2, <1>3, AllUpTo
    <2> QED
      BY <1>1, <2>1
  <1> QED
    BY <1>4 DEF Follows

\* The value after the last element.
After(s, V, v, step) ==
    (CHOOSE f \in [0..Len(s) -> V] : Follows(f, s, v, step))[Len(s)]

\* f makes the same steps as long as it is in V.
MakesSteps(f, s, V, v, step) ==
    f[0] = v /\ \A i \in 1..Len(s) : f[i - 1] \in V => f[i] = step[<<f[i - 1], s[i]>>]

\* Whatever makes the same steps comes to that value.
LEMMA SameSteps ==
    ASSUME NEW S, NEW s, NEW V, NEW v, NEW step, NEW f,
           Walk(s, S, V, v, step), MakesSteps(f, s, V, v, step)
    PROVE  f[Len(s)] = After(s, V, v, step) /\ \A i \in 0..Len(s) : f[i] \in V
  <1>0. s \in Seq(S) /\ v \in V /\ step \in [V \X S -> V]
    BY DEF Walk
  <1> DEFINE N == Len(s)
             g == CHOOSE h \in [0..N -> V] : Follows(h, s, v, step)
             Same == {i \in 0..N : f[i] = g[i]}
  <1>1. N \in Nat
    BY <1>0
  <1>2. g \in [0..N -> V] /\ Follows(g, s, v, step)
    <2>1. \E h \in [0..N -> V] : Follows(h, s, v, step)
      BY <1>0, SomethingFollows
    <2> QED
      BY <2>1
  <1>3. After(s, V, v, step) = g[N]
    BY DEF After
  <1> HIDE DEF g
  <1>4. 0 \in Same
    BY <1>1, <1>2 DEF Follows, MakesSteps
  <1>5. ASSUME NEW i \in 1..N, i - 1 \in Same
        PROVE  i \in Same
    <2>1. i - 1 \in 0..N /\ i \in 0..N /\ f[i - 1] = g[i - 1]
      BY <1>1, <1>5
    <2>2. g[i - 1] \in V
      BY <1>2, <2>1
    <2>3. f[i] = step[<<f[i - 1], s[i]>>]
      BY <2>1, <2>2 DEF MakesSteps
    <2>4. g[i] = step[<<g[i - 1], s[i]>>]
      BY <1>2 DEF Follows
    <2> QED
      BY <2>1, <2>3, <2>4
  <1>6. \A i \in 0..N : i \in Same
    <2> HIDE DEF Same, N
    <2> QED
      BY <1>1, <1>4, <1>5, AllUpTo
  <1>7. \A i \in 0..N : f[i] = g[i] /\ g[i] \in V
    BY <1>2, <1>6
  <1> QED
    BY <1>1, <1>3, <1>7

\* Going through nothing leaves the value that it starts with.
LEMMA AfterNothing ==
    ASSUME NEW V, NEW v, NEW S, NEW step, Walk(<<>>, S, V, v, step)
    PROVE  After(<<>>, V, v, step) = v
  <1> DEFINE s == <<>>
  <1>1. s \in Seq(S) /\ Len(s) = 0 /\ Walk(s, S, V, v, step)
    OBVIOUS
  <1> HIDE DEF s
  <1>2. PICK f \in [0..Len(s) -> V] : Follows(f, s, v, step)
    BY <1>1, SomethingFollows DEF Walk
  <1>3. MakesSteps(f, s, V, v, step) /\ f[0] = v
    BY <1>2 DEF Follows, MakesSteps
  <1>4. f[Len(s)] = After(s, V, v, step) /\ \A i \in 0..Len(s) : f[i] \in V
    BY <1>1, <1>3, SameSteps
  <1> QED
    BY <1>1, <1>3, <1>4 DEF s

\* Going through one element more is one step more.
LEMMA AfterOneMore ==
    ASSUME NEW S, NEW s, NEW V, NEW v, NEW step, NEW e,
           Walk(s, S, V, v, step), e \in S
    PROVE  /\ After(s, V, v, step) \in V
           /\ After(Append(s, e), V, v, step) = step[<<After(s, V, v, step), e>>]
  <1> DEFINE t == Append(s, e)
             N == Len(s)
  <1>0. s \in Seq(S) /\ v \in V /\ step \in [V \X S -> V]
    BY DEF Walk
  <1>1. N \in Nat /\ t \in Seq(S) /\ Len(t) = N + 1 /\ t[N + 1] = e /\ \A i \in 1..N : t[i] = s[i]
    BY <1>0
  <1> HIDE DEF t
  <1>2. PICK f \in [0..Len(t) -> V] : Follows(f, t, v, step)
    BY <1>0, <1>1, SomethingFollows
  <1>3. f[0] = v /\ \A i \in 1..(N + 1) : f[i] = step[<<f[i - 1], t[i]>>]
    BY <1>1, <1>2 DEF Follows
  <1>4. \A i \in 1..N : f[i] = step[<<f[i - 1], s[i]>>]
    BY <1>1, <1>3
  <1>5. f[N] = After(s, V, v, step) /\ \A i \in 0..N : f[i] \in V
    <2>1. MakesSteps(f, s, V, v, step)
      BY <1>3, <1>4 DEF MakesSteps
    <2> QED
      BY <2>1, SameSteps, Zenon
  <1>6. f[Len(t)] = After(t, V, v, step)
    <2>1. MakesSteps(f, t, V, v, step) /\ Walk(t, S, V, v, step)
      BY <1>0, <1>1, <1>2 DEF Follows, MakesSteps, Walk
    <2>2. f[Len(t)] = After(t, V, v, step) /\ \A i \in 0..Len(t) : f[i] \in V
      <3>1. MakesSteps(f, t, V, v, step)
        BY <2>1
      <3>2. Walk(t, S, V, v, step)
        BY <2>1
      <3> QED
        BY <3>1, <3>2, SameSteps
    <2> QED
      BY <2>2
  <1>7. N + 1 \in 1..(N + 1) /\ (N + 1) - 1 = N /\ N \in 0..N
    BY <1>1
  <1>8. f[N + 1] = step[<<f[N], e>>]
    BY <1>1, <1>3, <1>7
  <1> QED
    BY <1>1, <1>5, <1>6, <1>7, <1>8 DEF t

-----------------------------------------------------------------------------
(* Concatenations *)

\* The recursion of FlattenSeq().
Flattens(f, seqs) ==
    f = [i \in 1..Len(seqs) |-> IF i = 1 THEN seqs[i] ELSE f[i - 1] \o seqs[i]]

Concat(S) == [p \in Seq(S) \X Seq(S) |-> p[1] \o p[2]]

\* Joining two sequences, as a step.
LEMMA ConcatSteps ==
    ASSUME NEW S
    PROVE  /\ Concat(S) \in [Seq(S) \X Seq(S) -> Seq(S)]
           /\ \A s, t \in Seq(S) : Concat(S)[<<s, t>>] = s \o t
  <1>1. \A s, t \in Seq(S) : s \o t \in Seq(S)
    OBVIOUS
  <1>2. ASSUME NEW p \in Seq(S) \X Seq(S)
        PROVE  p[1] \o p[2] \in Seq(S)
    BY <1>1
  <1> QED
    BY <1>2 DEF Concat

\* FlattenSeq goes through the sequences and joins them.
LEMMA FlattenIsAfter ==
    ASSUME NEW S, NEW seqs \in Seq(Seq(S))
    PROVE  FlattenSeq(seqs) = After(seqs, Seq(S), <<>>, Concat(S))
  <1> DEFINE N == Len(seqs)
             V == Seq(S)
             cat == Concat(S)
             none == <<>>
  <1>1. N \in Nat /\ \A i \in 1..N : seqs[i] \in V
    OBVIOUS
  <1>2. none \in V /\ cat \in [V \X V -> V] /\ \A s, t \in V : cat[<<s, t>>] = s \o t
    <2>1. none \in V
      OBVIOUS
    <2>2. cat \in [V \X V -> V] /\ \A s, t \in V : cat[<<s, t>>] = s \o t
      BY ConcatSteps, Zenon
    <2> QED
      BY <2>1, <2>2
  <1>3. \A s \in V : none \o s = s
    OBVIOUS
  <1>0. seqs \in Seq(V)
    OBVIOUS
  <1> SUFFICES FlattenSeq(seqs) = After(seqs, V, none, cat)
    OBVIOUS
  <1>4. CASE N = 0
    <2>1. seqs = none
      BY <1>4
    <2>2. FlattenSeq(seqs) = none
      BY <1>4, <2>1 DEF FlattenSeq
    <2>3. After(<<>>, V, <<>>, cat) = <<>>
      <3>1. Walk(<<>>, V, V, <<>>, cat)
        <4> HIDE DEF V, cat
        <4> QED
          BY <1>2 DEF Walk
      <3> HIDE DEF V, cat
      <3> QED
        BY <3>1, AfterNothing, Zenon
    <2> HIDE DEF V, cat
    <2> QED
      BY <2>1, <2>2, <2>3
  <1> HIDE DEF V, cat, none
  <1>5. CASE N # 0
    <2>1. PICK f \in [0..N -> V] : Follows(f, seqs, none, cat)
      BY <1>0, <1>2, SomethingFollows
    <2> DEFINE h == [i \in 1..N |-> f[i]]
    <2>2. \A i \in 1..N : f[i] = f[i - 1] \o seqs[i]
      <3>1. \A i \in 1..N : f[i - 1] \in V
        <4>1. \A i \in 1..N : i - 1 \in 0..N
          BY <1>1
        <4> QED
          BY <4>1
      <3> QED
        BY <1>1, <1>2, <2>1, <3>1 DEF Follows
    <2>3. ASSUME NEW i \in 1..N
          PROVE  h[i] = IF i = 1 THEN seqs[i] ELSE h[i - 1] \o seqs[i]
      <3>1. CASE i = 1
        <4>1. f[1] = f[0] \o seqs[1] /\ f[0] = none
          <5>1. 1 \in 1..N /\ 1 - 1 = 0
            BY <1>1, <3>1
          <5> QED
            BY <2>1, <2>2, <5>1 DEF Follows
        <4> QED
          BY <1>1, <1>3, <3>1, <4>1
      <3>2. CASE i # 1
        <4>1. i - 1 \in 1..N
          BY <1>1, <3>2
        <4>2. h[i] = f[i] /\ h[i - 1] = f[i - 1]
          BY <4>1
        <4> QED
          BY <2>2, <3>2, <4>2
      <3> QED
        BY <3>1, <3>2
    <2>4. \E g : Flattens(g, seqs)
      <3>1. Flattens(h, seqs)
        BY <2>3 DEF Flattens
      <3> QED
        BY <3>1
    <2> DEFINE g == CHOOSE x : Flattens(x, seqs)
    <2>5. Flattens(g, seqs)
      BY <2>4
    <2>6. FlattenSeq(seqs) = g[N]
      BY <1>5 DEF FlattenSeq, Flattens
    <2> HIDE DEF g, h
    <2>7. \A i \in 1..N : g[i] = IF i = 1 THEN seqs[i] ELSE g[i - 1] \o seqs[i]
      BY <2>5, Zenon DEF Flattens
    <2> DEFINE k == [i \in 0..N |-> IF i = 0 THEN none ELSE g[i]]
    <2>8. k[0] = none /\ k[N] = g[N] /\ \A i \in 1..N : k[i] = g[i]
      BY <1>1, <1>5
    <2> HIDE DEF k
    <2>9. ASSUME NEW i \in 1..N, k[i - 1] \in V
          PROVE  k[i] = cat[<<k[i - 1], seqs[i]>>]
      <3>1. cat[<<k[i - 1], seqs[i]>>] = k[i - 1] \o seqs[i]
        BY <1>1, <1>2, <2>9
      <3>2. CASE i = 1
        <4>1. 1 \in 1..N /\ 1 - 1 = 0
          BY <1>1, <3>2
        <4>2. k[1] = seqs[1] /\ none \o seqs[1] = seqs[1]
          BY <1>1, <1>3, <2>7, <2>8, <4>1
        <4> QED
          BY <2>8, <3>1, <3>2, <4>1, <4>2
      <3>3. CASE i # 1
        <4>1. i - 1 \in 1..N
          BY <1>1, <3>3
        <4> QED
          BY <2>7, <2>8, <3>1, <3>3, <4>1
      <3> QED
        BY <3>2, <3>3
    <2>10. MakesSteps(k, seqs, V, none, cat)
      BY <2>8, <2>9 DEF MakesSteps
    <2>11. k[N] = After(seqs, V, none, cat)
      <3>1. Walk(seqs, V, V, none, cat)
        BY <1>0, <1>2 DEF Walk
      <3>2. k[Len(seqs)] = After(seqs, V, none, cat) /\ \A i \in 0..Len(seqs) : k[i] \in V
        BY <2>10, <3>1, SameSteps, Zenon
      <3> QED
        BY <3>2
    <2> QED
      BY <2>6, <2>8, <2>11
  <1> QED
    BY <1>4, <1>5

\* Flattening nothing gives nothing.
LEMMA FlattenNothing == FlattenSeq(<<>>) = <<>>
  BY DEF FlattenSeq

\* One more sequence comes to the end.
LEMMA FlattenOneMore ==
    ASSUME NEW S, NEW seqs \in Seq(Seq(S)), NEW more \in Seq(S)
    PROVE  /\ FlattenSeq(seqs) \in Seq(S)
           /\ FlattenSeq(Append(seqs, more)) = FlattenSeq(seqs) \o more
  <1> DEFINE V == Seq(S)
             cat == Concat(S)
             none == <<>>
             t == Append(seqs, more)
  <1>1. none \in V
    OBVIOUS
  <1>2. cat \in [V \X V -> V] /\ \A u, v \in V : cat[<<u, v>>] = u \o v
    BY ConcatSteps, Zenon
  <1>3. t \in Seq(V) /\ seqs \in Seq(V) /\ more \in V
    OBVIOUS
  <1>4. FlattenSeq(seqs) = After(seqs, V, none, cat)
    BY FlattenIsAfter, Zenon
  <1>5. FlattenSeq(t) = After(t, V, none, cat)
    BY <1>3, FlattenIsAfter
  <1> HIDE DEF V, cat, none
  <1>6. /\ After(seqs, V, none, cat) \in V
        /\ After(t, V, none, cat) = cat[<<After(seqs, V, none, cat), more>>]
    <2>1. Walk(seqs, V, V, none, cat)
      BY <1>1, <1>2, <1>3 DEF Walk
    <2>2. /\ After(seqs, V, none, cat) \in V
          /\ After(Append(seqs, more), V, none, cat) = cat[<<After(seqs, V, none, cat), more>>]
      <3> HIDE DEF t
      <3> QED
        BY <1>3, <2>1, AfterOneMore
    <2> QED
      BY <2>2
  <1>7. FlattenSeq(t) = FlattenSeq(seqs) \o more /\ FlattenSeq(seqs) \in V
    BY <1>2, <1>3, <1>4, <1>5, <1>6
  <1> QED
    BY <1>7 DEF V

-----------------------------------------------------------------------------
(* Splitting at a separator *)

Splits(f, s, separator) ==
    f = [i \in 0..Len(s) |-> IF i = 0 THEN <<<<>>>> ELSE WithToken(f[i - 1], s[i], separator)]

SomePieces == Seq(Seq(Tokens)) \ {<<>>}
OneToken(separator) == [p \in SomePieces \X Tokens |-> WithToken(p[1], p[2], separator)]

\* What split() has so far is never empty.
LEMMA TokensMakePieces ==
    ASSUME NEW separator
    PROVE  /\ <<<<>>>> \in SomePieces
           /\ OneToken(separator) \in [SomePieces \X Tokens -> SomePieces]
           /\ \A p \in SomePieces, c \in Tokens :
                 OneToken(separator)[<<p, c>>] = WithToken(p, c, separator)
  <1>1. <<<<>>>> \in SomePieces
    BY DEF SomePieces
  <1>2. ASSUME NEW p \in SomePieces, NEW c \in Tokens
        PROVE  WithToken(p, c, separator) \in SomePieces
    <2> DEFINE N == Len(p)
               q == [p EXCEPT ![N] = Append(@, c)]
    <2>1. p \in Seq(Seq(Tokens)) /\ N \in Nat /\ N \in 1..N
      BY DEF SomePieces
    <2>2. CASE c = separator
      <3>1. <<>> \in Seq(Tokens)
        OBVIOUS
      <3>2. Append(p, <<>>) \in Seq(Seq(Tokens)) /\ Len(Append(p, <<>>)) = N + 1
        BY <2>1, <3>1
      <3> QED
        BY <2>1, <2>2, <3>2 DEF WithToken, SomePieces
    <2>3. CASE c # separator
      <3>1. p[N] \in Seq(Tokens)
        BY <2>1
      <3>2. Append(p[N], c) \in Seq(Tokens)
        BY <3>1
      <3>3. q \in Seq(Seq(Tokens)) /\ Len(q) = N
        BY <2>1, <3>2
      <3>4. q # <<>>
        <4> HIDE DEF q
        <4> QED
          BY <2>1, <3>3
      <3>5. WithToken(p, c, separator) = q
        BY <2>3 DEF WithToken
      <3> HIDE DEF q
      <3> QED
        BY <3>3, <3>4, <3>5 DEF SomePieces
    <2> QED
      BY <2>2, <2>3
  <1> QED
    BY <1>1, <1>2 DEF OneToken

\* Pieces goes through the tokens and keeps the pieces so far.
LEMMA PiecesIsAfter ==
    ASSUME NEW s \in Seq(Tokens), NEW separator
    PROVE  /\ Walk(s, Tokens, SomePieces, <<<<>>>>, OneToken(separator))
           /\ Pieces(s, separator) = After(s, SomePieces, <<<<>>>>, OneToken(separator))
  <1> DEFINE N == Len(s)
             none == <<<<>>>>
             step == OneToken(separator)
  <1>1. Walk(s, Tokens, SomePieces, none, step)
    BY TokensMakePieces, Zenon DEF Walk
  <1>2. \A p \in SomePieces, c \in Tokens : step[<<p, c>>] = WithToken(p, c, separator)
    BY TokensMakePieces, Zenon
  <1>3. N \in Nat /\ \A i \in 1..N : s[i] \in Tokens
    OBVIOUS
  <1> HIDE DEF none, step
  <1>4. PICK f \in [0..N -> SomePieces] : Follows(f, s, none, step)
    BY <1>1, SomethingFollows DEF Walk
  <1>5. Splits(f, s, separator)
    <2>1. ASSUME NEW i \in 1..N
          PROVE  f[i] = WithToken(f[i - 1], s[i], separator)
      <3>1. i - 1 \in 0..N /\ s[i] \in Tokens
        BY <1>3
      <3>2. f[i - 1] \in SomePieces /\ f[i] = step[<<f[i - 1], s[i]>>]
        BY <1>4, <3>1 DEF Follows
      <3> QED
        BY <1>2, <3>1, <3>2
    <2>2. f[0] = none
      BY <1>4 DEF Follows
    <2> QED
      <3>1. \A i \in 0..N : f[i] = IF i = 0 THEN none ELSE WithToken(f[i - 1], s[i], separator)
        BY <1>3, <2>1, <2>2
      <3>2. f = [i \in 0..N |-> f[i]]
        OBVIOUS
      <3>3. f = [i \in 0..N |-> IF i = 0 THEN none ELSE WithToken(f[i - 1], s[i], separator)]
        BY <3>1, <3>2, Zenon
      <3> QED
        BY <3>3, Zenon DEF Splits, none
  <1> DEFINE g == CHOOSE x : Splits(x, s, separator)
  <1>6. Splits(g, s, separator)
    BY <1>5
  <1>7. Pieces(s, separator) = g[N]
    BY DEF Pieces, Splits
  <1> HIDE DEF g
  <1>8. g[0] = none /\ \A i \in 1..N : g[i] = WithToken(g[i - 1], s[i], separator)
    <2>1. \A i \in 0..N : g[i] = IF i = 0 THEN none ELSE WithToken(g[i - 1], s[i], separator)
      BY <1>6, Zenon DEF Splits, none
    <2>2. 0 \in 0..N /\ \A i \in 1..N : i \in 0..N /\ i # 0
      BY <1>3
    <2> QED
      BY <2>1, <2>2, Zenon
  <1>9. MakesSteps(g, s, SomePieces, none, step)
    BY <1>2, <1>3, <1>8 DEF MakesSteps
  <1>10. g[Len(s)] = After(s, SomePieces, none, step) /\ \A i \in 0..Len(s) : g[i] \in SomePieces
    BY <1>1, <1>9, SameSteps
  <1> QED
    BY <1>1, <1>7, <1>10 DEF none, step

\* split() of nothing is one empty piece.
LEMMA PiecesOfNothing ==
    ASSUME NEW separator
    PROVE  Pieces(<<>>, separator) = <<<<>>>>
  <1>1. <<>> \in Seq(Tokens)
    OBVIOUS
  <1>2. /\ Walk(<<>>, Tokens, SomePieces, <<<<>>>>, OneToken(separator))
        /\ Pieces(<<>>, separator) = After(<<>>, SomePieces, <<<<>>>>, OneToken(separator))
    BY <1>1, PiecesIsAfter, Zenon
  <1> QED
    BY <1>2, AfterNothing, Zenon

\* One more token comes to the last piece, or begins another one.
LEMMA PiecesOneMore ==
    ASSUME NEW s \in Seq(Tokens), NEW c \in Tokens, NEW separator
    PROVE  /\ Pieces(s, separator) \in SomePieces
           /\ Pieces(Append(s, c), separator) = WithToken(Pieces(s, separator), c, separator)
  <1> DEFINE t == Append(s, c)
             a == After(s, SomePieces, <<<<>>>>, OneToken(separator))
  <1>1. t \in Seq(Tokens)
    OBVIOUS
  <1>2. Pieces(t, separator) = After(t, SomePieces, <<<<>>>>, OneToken(separator))
    <2> HIDE DEF t
    <2> QED
      BY <1>1, PiecesIsAfter, Zenon
  <1>3. Pieces(s, separator) = a /\ Walk(s, Tokens, SomePieces, <<<<>>>>, OneToken(separator))
    BY PiecesIsAfter, Zenon
  <1>4. /\ a \in SomePieces
        /\ After(t, SomePieces, <<<<>>>>, OneToken(separator)) = OneToken(separator)[<<a, c>>]
    BY <1>3, AfterOneMore
  <1>5. OneToken(separator)[<<a, c>>] = WithToken(a, c, separator)
    BY <1>4, TokensMakePieces, Zenon
  <1> QED
    BY <1>2, <1>3, <1>4, <1>5

-----------------------------------------------------------------------------
(* What is joined is split again *)

Parts(pieces, separator) ==
    [i \in DOMAIN pieces |-> IF i = 1 THEN pieces[i] ELSE <<separator>> \o pieces[i]]

\* No pieces are joined to nothing.
LEMMA JoinedNothing ==
    ASSUME NEW separator
    PROVE  Joined(<<>>, separator) = <<>>
  <1>1. Parts(<<>>, separator) = <<>>
    BY DEF Parts
  <1> QED
    BY <1>1, FlattenNothing, Zenon DEF Joined, Parts

\* One piece more is written behind the others and a separator.
LEMMA JoinedOneMore ==
    ASSUME NEW S, NEW p \in Seq(Seq(S)), NEW x \in Seq(S), NEW separator \in S
    PROVE  /\ Joined(p, separator) \in Seq(S)
           /\ p = <<>> => Joined(Append(p, x), separator) = x
           /\ p # <<>> => Joined(Append(p, x), separator) = (Joined(p, separator) \o <<separator>>) \o x
  <1> DEFINE q == Append(p, x)
             N == Len(p)
             b == Parts(p, separator)
             more == IF p = <<>> THEN x ELSE <<separator>> \o x
  <1>1. N \in Nat /\ q \in Seq(Seq(S)) /\ Len(q) = N + 1 /\ q[N + 1] = x /\ \A i \in 1..N : q[i] = p[i]
    OBVIOUS
  <1>2. /\ \A y \in Seq(S) : <<separator>> \o y \in Seq(S)
        /\ p # <<>> => N # 0
    OBVIOUS
  <1>3. b \in Seq(Seq(S)) /\ Len(b) = N
    <2>1. \A i \in 1..N : p[i] \in Seq(S)
      OBVIOUS
    <2> DEFINE F(i) == IF i = 1 THEN p[i] ELSE <<separator>> \o p[i]
    <2>2. \A i \in 1..N : F(i) \in Seq(S)
      BY <1>2, <2>1
    <2>3. b = [i \in 1..N |-> F(i)]
      BY <1>1 DEF Parts
    <2> HIDE DEF F, b, N
    <2> QED
      BY <1>1, <2>2, <2>3
  <1>4. more \in Seq(S)
    BY <1>2
  <1>5. Parts(q, separator) = Append(b, more)
    <2> HIDE DEF q, more
    <2>1. Append(b, more) \in Seq(Seq(S)) /\ Len(Append(b, more)) = N + 1 /\ Append(b, more)[N + 1] = more
          /\ \A i \in 1..N : Append(b, more)[i] = b[i]
      <3> HIDE DEF b
      <3> QED
        BY <1>3, <1>4
    <2> DEFINE w == Append(b, more)
    <2>2. w = [i \in 1..(N + 1) |-> w[i]]
      <3>1. w \in Seq(Seq(S)) /\ Len(w) = N + 1
        BY <2>1
      <3> HIDE DEF w
      <3> QED
        BY <3>1
    <2>3. Parts(q, separator) = [i \in 1..(N + 1) |-> IF i = 1 THEN q[i] ELSE <<separator>> \o q[i]]
      BY <1>1 DEF Parts
    <2>4. ASSUME NEW i \in 1..(N + 1)
          PROVE  (IF i = 1 THEN q[i] ELSE <<separator>> \o q[i]) = Append(b, more)[i]
      <3>1. CASE i = N + 1
        <4>1. i = 1 <=> p = <<>>
          BY <1>1, <3>1
        <4> QED
          BY <1>1, <2>1, <3>1, <4>1 DEF more
      <3>2. CASE i # N + 1
        <4>1. i \in 1..N /\ i \in DOMAIN p
          BY <1>1, <3>2
        <4>2. b[i] = IF i = 1 THEN p[i] ELSE <<separator>> \o p[i]
          BY <4>1 DEF Parts
        <4> HIDE DEF b
        <4> QED
          BY <1>1, <2>1, <4>1, <4>2
      <3> QED
        BY <3>1, <3>2
    <2> HIDE DEF b
    <2> QED
      BY <2>2, <2>3, <2>4, Zenon
  <1>6. Joined(p, separator) = FlattenSeq(b) /\ Joined(q, separator) = FlattenSeq(Append(b, more))
    BY <1>5, Zenon DEF Joined, Parts
  <1>7. FlattenSeq(b) \in Seq(S) /\ FlattenSeq(Append(b, more)) = FlattenSeq(b) \o more
    <2> HIDE DEF b, more
    <2> QED
      BY <1>3, <1>4, FlattenOneMore, Zenon
  <1>8. p = <<>> => Joined(q, separator) = x
    <2>1. p = <<>> => Joined(p, separator) = <<>>
      BY JoinedNothing, Zenon
    <2>2. p = <<>> => more = x /\ <<>> \o x = x
      OBVIOUS
    <2> HIDE DEF q, b, more
    <2> QED
      BY <1>6, <1>7, <2>1, <2>2
  <1>9. p # <<>> => Joined(q, separator) = (Joined(p, separator) \o <<separator>>) \o x
    <2>1. p # <<>> => more = <<separator>> \o x
      OBVIOUS
    <2>2. \A u \in Seq(S) : u \o (<<separator>> \o x) = (u \o <<separator>>) \o x
      OBVIOUS
    <2> HIDE DEF q, b, more
    <2> QED
      BY <1>6, <1>7, <2>1, <2>2
  <1> HIDE DEF b
  <1> QED
    BY <1>6, <1>7, <1>8, <1>9

\* Pieces of tokens are sequences of tokens, and at least one.
LEMMA PiecesTyped ==
    ASSUME NEW separator, NEW s \in Seq(Tokens)
    PROVE  Pieces(s, separator) \in SomePieces
  <1> DEFINE c == "v"
  <1>1. c \in Tokens
    BY TokenAssumption DEF Names
  <1> HIDE DEF c
  <1> QED
    BY <1>1, PiecesOneMore, Zenon

Without(separator) == {x \in Seq(Tokens) : separator \notin ToSet(x)}
Extend(p, x) == [p EXCEPT ![Len(p)] = @ \o x]

\* What has no separator comes to the last piece as a whole.
LEMMA PiecesExtend ==
    ASSUME NEW separator, NEW s \in Seq(Tokens), NEW x \in Without(separator)
    PROVE  Pieces(s \o x, separator) = Extend(Pieces(s, separator), x)
  <1> DEFINE p == Pieces(s, separator)
             T == {y \in Seq(Tokens) :
                      separator \notin ToSet(y) => Pieces(s \o y, separator) = Extend(p, y)}
  <1>1. p \in Seq(Seq(Tokens)) /\ Len(p) \in Nat /\ Len(p) \in 1..Len(p)
    <2>1. p \in SomePieces
      BY PiecesTyped, Zenon
    <2> HIDE DEF p
    <2> QED
      BY <2>1 DEF SomePieces
  <1>2. <<>> \in T
    <2>1. s \o <<>> = s
      OBVIOUS
    <2>2. Extend(p, <<>>) = p
      <3>1. p[Len(p)] \in Seq(Tokens)
        <4> HIDE DEF p
        <4> QED
          BY <1>1
      <3>2. p[Len(p)] \o <<>> = p[Len(p)]
        <4> HIDE DEF p
        <4> QED
          BY <3>1
      <3> HIDE DEF p
      <3> QED
        BY <1>1, <3>2 DEF Extend
    <2> HIDE DEF p
    <2> QED
      BY <2>1, <2>2 DEF p
  <1>3. ASSUME NEW y \in Seq(Tokens), NEW c \in Tokens, y \in T
        PROVE  Append(y, c) \in T
    <2> DEFINE z == Append(y, c)
    <2>1. z \in Seq(Tokens) /\ Len(z) = Len(y) + 1 /\ z[Len(y) + 1] = c /\ \A i \in 1..Len(y) : z[i] = y[i]
      OBVIOUS
    <2> SUFFICES ASSUME separator \notin ToSet(z)
                 PROVE  Pieces(s \o z, separator) = Extend(p, z)
      BY <2>1
    <2>2. c # separator /\ separator \notin ToSet(y)
      <3>1. DOMAIN z = 1..(Len(y) + 1) /\ DOMAIN y = 1..Len(y) /\ Len(y) \in Nat
        BY <2>1
      <3> HIDE DEF z
      <3> QED
        BY <2>1, <3>1 DEF ToSet
    <2>3. s \o z = Append(s \o y, c) /\ s \o y \in Seq(Tokens)
      OBVIOUS
    <2>4. Pieces(Append(s \o y, c), separator) = WithToken(Pieces(s \o y, separator), c, separator)
      BY <2>3, PiecesOneMore, Zenon
    <2>5. Pieces(s \o y, separator) = Extend(p, y)
      BY <1>3, <2>2
    <2>6. WithToken(Extend(p, y), c, separator) = Extend(p, z)
      <3> DEFINE N == Len(p)
                 e == [p EXCEPT ![N] = @ \o y]
      <3>1. p[N] \in Seq(Tokens) /\ N \in Nat /\ N \in 1..N
        <4> HIDE DEF p
        <4> QED
          BY <1>1
      <3>2. p[N] \o y \in Seq(Tokens) /\ Append(p[N] \o y, c) = p[N] \o z
        <4> DEFINE u == p[N]
        <4> HIDE DEF u
        <4>1. u \in Seq(Tokens)
          BY <3>1 DEF u
        <4>2. u \o y \in Seq(Tokens) /\ Append(u \o y, c) = u \o Append(y, c)
          BY <4>1
        <4> QED
          BY <4>2 DEF u
      <3>3. e \in Seq(Seq(Tokens)) /\ Len(e) = N /\ e[N] = p[N] \o y
        <4> HIDE DEF p
        <4> QED
          BY <1>1, <3>1, <3>2
      <3>4. Extend(p, y) = e
        BY DEF Extend
      <3>5. WithToken(e, c, separator) = [e EXCEPT ![N] = Append(@, c)]
        <4> HIDE DEF e
        <4> QED
          BY <2>2, <3>3 DEF WithToken
      <3>6. [e EXCEPT ![N] = Append(@, c)] = [p EXCEPT ![N] = p[N] \o z]
        <4>1. [e EXCEPT ![N] = Append(@, c)] = [e EXCEPT ![N] = p[N] \o z]
          <5> HIDE DEF e, p
          <5> QED
            BY <3>2, <3>3
        <4> HIDE DEF p, z
        <4> QED
          BY <1>1, <4>1
      <3> HIDE DEF p, e, z
      <3> QED
        BY <3>4, <3>5, <3>6 DEF Extend
    <2> HIDE DEF z
    <2> QED
      BY <2>3, <2>4, <2>5, <2>6
  <1>4. \A y \in Seq(Tokens) : y \in T
    <2> HIDE DEF T
    <2> QED
      BY <1>2, <1>3, AllSequences, Zenon
  <1> QED
    BY <1>4 DEF Without

\* split() undoes joining.
LEMMA PiecesOfJoined ==
    ASSUME NEW separator \in Tokens, NEW fs \in Seq(Without(separator)), fs # <<>>
    PROVE  Pieces(Joined(fs, separator), separator) = fs
  <1> DEFINE Clean == Without(separator)
             T == {p \in Seq(Clean) : p # <<>> => Pieces(Joined(p, separator), separator) = p}
  <1>0. \A x \in Clean : x \in Seq(Tokens)
    BY DEF Without
  <1>1. \A p \in Seq(Clean) : p \in Seq(Seq(Tokens))
    <2> HIDE DEF Clean
    <2> QED
      BY <1>0
  <1> HIDE DEF Clean
  <1>2. <<>> \in T
    OBVIOUS
  <1>3. ASSUME NEW p \in Seq(Clean), NEW x \in Clean, p \in T
        PROVE  Append(p, x) \in T
    <2> DEFINE q == Append(p, x)
    <2>1. q \in Seq(Clean) /\ p \in Seq(Seq(Tokens)) /\ x \in Seq(Tokens)
      BY <1>0, <1>1
    <2> SUFFICES q \in T
      OBVIOUS
    <2>2. CASE p = <<>>
      <3>1. Joined(q, separator) = x
        BY <2>1, <2>2, JoinedOneMore, Zenon
      <3>2. x = <<>> \o x /\ <<>> \in Seq(Tokens)
        BY <2>1
      <3>3. Pieces(<<>> \o x, separator) = Extend(<<<<>>>>, x)
        <4>1. Pieces(<<>> \o x, separator) = Extend(Pieces(<<>>, separator), x)
          BY <3>2, PiecesExtend, Zenon DEF Clean
        <4> QED
          BY <4>1, PiecesOfNothing, Zenon
      <3>4. Extend(<<<<>>>>, x) = <<x>> /\ q = <<x>>
        BY <2>1, <2>2, <3>2 DEF Extend
      <3> HIDE DEF q
      <3> QED
        BY <2>1, <3>1, <3>2, <3>3, <3>4
    <2>3. CASE p # <<>>
      <3> DEFINE j == Joined(p, separator)
      <3>1. j \in Seq(Tokens) /\ Joined(q, separator) = (j \o <<separator>>) \o x
        BY <2>1, <2>3, JoinedOneMore, Zenon
      <3> HIDE DEF j
      <3>2. j \o <<separator>> = Append(j, separator) /\ Append(j, separator) \in Seq(Tokens)
        BY <3>1
      <3>3. Pieces(j, separator) = p
        BY <1>3, <2>3 DEF j
      <3>4. Pieces(Append(j, separator), separator) = Append(p, <<>>)
        <4>1. Pieces(Append(j, separator), separator) = WithToken(Pieces(j, separator), separator, separator)
          BY <3>1, PiecesOneMore, Zenon
        <4> QED
          BY <3>3, <4>1 DEF WithToken
      <3>5. Pieces(Append(j, separator) \o x, separator) = Extend(Append(p, <<>>), x)
        <4>1. Pieces(Append(j, separator) \o x, separator) = Extend(Pieces(Append(j, separator), separator), x)
          BY <3>2, PiecesExtend, Zenon DEF Clean
        <4> QED
          BY <3>4, <4>1
      <3>6. Extend(Append(p, <<>>), x) = q
        <4> DEFINE r == Append(p, <<>>)
                   N == Len(p)
        <4>1. <<>> \in Seq(Tokens) /\ <<>> \o x = x
          BY <2>1
        <4>2. r \in Seq(Seq(Tokens)) /\ N \in Nat /\ Len(r) = N + 1 /\ r[N + 1] = <<>>
              /\ \A i \in 1..N : r[i] = p[i]
          BY <2>1, <4>1
        <4>3. q \in Seq(Seq(Tokens)) /\ Len(q) = N + 1 /\ q[N + 1] = x /\ \A i \in 1..N : q[i] = p[i]
          BY <2>1
        <4> HIDE DEF r, q
        <4>4. Extend(r, x) = [r EXCEPT ![N + 1] = x]
          BY <4>1, <4>2 DEF Extend
        <4>5. [r EXCEPT ![N + 1] = x] \in Seq(Seq(Tokens)) /\ Len([r EXCEPT ![N + 1] = x]) = N + 1
          BY <2>1, <4>2
        <4>6. ASSUME NEW i \in 1..(N + 1)
              PROVE  [r EXCEPT ![N + 1] = x][i] = q[i]
          <5>1. i = N + 1 \/ i \in 1..N
            BY <4>2
          <5>2. N + 1 \in DOMAIN r /\ i \in DOMAIN r
            BY <4>2
          <5> QED
            BY <4>2, <4>3, <5>1, <5>2
        <4>7. [r EXCEPT ![N + 1] = x] = q
          BY <4>3, <4>5, <4>6, SeqEqual
        <4> QED
          BY <4>4, <4>7 DEF r
      <3> HIDE DEF q
      <3> QED
        BY <2>1, <3>1, <3>2, <3>5, <3>6
    <2> QED
      BY <2>2, <2>3
  <1>4. \A p \in Seq(Clean) : p \in T
    <2> HIDE DEF T
    <2> QED
      BY <1>2, <1>3, AllSequences, Zenon
  <1> QED
    BY <1>4 DEF Clean

-----------------------------------------------------------------------------
(* Characters and their bytes *)

\* What an escaped message consists of.
Safe == {c \in DOMAIN Code : IsLiteral(Code[c]) \/ c = "%"}
DigitChars == {c \in DOMAIN Code : Code[c] \in 48..57}

\* A character is a token with the value of a byte.
LEMMA CodeIs == \A c \in DOMAIN Code : Code[c] \in Bytes /\ c \in Tokens
  BY CodeAssumption

\* The tokens that separate, frame or escape are no literal characters.
LEMMA Marks ==
    /\ "%" \in DOMAIN Code /\ Code["%"] = 37 /\ ~ IsLiteral(37)
    /\ ";" \in DOMAIN Code /\ Code[";"] = 59 /\ ~ IsLiteral(59)
    /\ "BEL" \in DOMAIN Code /\ Code["BEL"] = 7 /\ ~ IsLiteral(7)
    /\ "ESC" \in DOMAIN Code /\ Code["ESC"] = 27 /\ ~ IsLiteral(27)
  <1>1. ~ IsLiteral(37) /\ ~ IsLiteral(59) /\ ~ IsLiteral(7) /\ ~ IsLiteral(27)
    BY DEF IsLiteral, Alphanumeric
  <1>2. {"%", ";", "BEL", "ESC"} \subseteq DOMAIN Code
    BY CodeAssumption
  <1>3. Code["%"] = 37 /\ Code[";"] = 59 /\ Code["BEL"] = 7 /\ Code["ESC"] = 27
    BY CodeAssumption
  <1> QED
    BY <1>1, <1>2, <1>3

\* A literal byte has a character, whose value it is.
LEMMA CharacterOf ==
    ASSUME NEW byte \in Bytes, IsLiteral(byte)
    PROVE  Character[byte] \in DOMAIN Code /\ Code[Character[byte]] = byte
  <1>1. PICK c \in DOMAIN Code : Code[c] = byte
    BY CodeAssumption
  <1>2. byte \in {Code[d] : d \in DOMAIN Code}
    BY <1>1
  <1>3. Character[byte] = CHOOSE d \in DOMAIN Code : Code[d] = byte
    BY <1>2, Zenon DEF Character
  <1> QED
    BY <1>1, <1>3, Zenon

\* A digit is written, and read, as a character.
LEMMA HexDigitIs ==
    ASSUME NEW n \in 0..15
    PROVE  /\ HexDigit(n) \in DOMAIN Code
           /\ Code[HexDigit(n)] = IF n < 10 THEN 48 + n ELSE 55 + n
           /\ HexDigit(n) \in DOMAIN HexValue /\ HexValue[HexDigit(n)] = n
           /\ HexDigit(n) \in Safe
  <1> DEFINE byte == IF n < 10 THEN 48 + n ELSE 55 + n
             c == HexDigit(n)
  <1>1. byte \in Bytes /\ IsLiteral(byte) /\ byte \in 48..57 \cup 65..70
    BY DEF IsLiteral, Alphanumeric, Bytes
  <1>2. c = Character[byte]
    BY DEF HexDigit
  <1>3. c \in DOMAIN Code /\ Code[c] = byte
    <2> HIDE DEF byte, c
    <2> QED
      BY <1>1, <1>2, CharacterOf, Zenon
  <1> HIDE DEF c
  <1>4. c \in DOMAIN HexValue /\ HexValue[c] = n
    <2>1. c \in {d \in DOMAIN Code : Code[d] \in 48..57 \cup 65..70 \cup 97..102}
      BY <1>1, <1>3
    <2>2. HexValue[c] = IF Code[c] <= 57 THEN Code[c] - 48
                        ELSE IF Code[c] >= 97 THEN Code[c] - 87 ELSE Code[c] - 55
      BY <2>1, Zenon DEF HexValue
    <2>3. c \in DOMAIN HexValue
      BY <2>1, Zenon DEF HexValue
    <2> QED
      BY <1>3, <2>2, <2>3
  <1>5. c \in Safe
    BY <1>1, <1>3 DEF Safe
  <1> QED
    BY <1>3, <1>4, <1>5 DEF c

\* A hexadecimal digit counts for a nibble.
LEMMA HexValueIs ==
    ASSUME NEW c \in DOMAIN HexValue
    PROVE  HexValue[c] \in 0..15
  <1>1. c \in DOMAIN Code /\ Code[c] \in 48..57 \cup 65..70 \cup 97..102
    BY Zenon DEF HexValue
  <1>2. HexValue[c] = IF Code[c] <= 57 THEN Code[c] - 48
                      ELSE IF Code[c] >= 97 THEN Code[c] - 87 ELSE Code[c] - 55
    BY <1>1, Zenon DEF HexValue
  <1> QED
    BY <1>1, <1>2

\* Nothing in an escaped message separates or ends anything.
LEMMA SafeIs ==
    /\ \A c \in Safe : c \in DOMAIN Code /\ c \in Tokens
    /\ ";" \notin Safe /\ "BEL" \notin Safe /\ "ESC" \notin Safe /\ "%" \in Safe
  <1>1. \A c \in Safe : c \in DOMAIN Code /\ c \in Tokens
    BY CodeIs DEF Safe
  <1>2. ";" \notin Safe /\ "BEL" \notin Safe /\ "ESC" \notin Safe /\ "%" \in Safe
    BY Marks DEF Safe
  <1> QED
    BY <1>1, <1>2

\* A byte is written as its character or as an escape with its two nibbles.
LEMMA EncodedIs ==
    ASSUME NEW byte \in Bytes
    PROVE  /\ Encoded(byte) \in Seq(Safe) /\ Len(Encoded(byte)) <= 3
           /\ \/ /\ Len(Encoded(byte)) = 1 /\ Encoded(byte)[1] # "%" /\ Code[Encoded(byte)[1]] = byte
              \/ /\ Len(Encoded(byte)) = 3 /\ Encoded(byte)[1] = "%"
                 /\ {Encoded(byte)[2], Encoded(byte)[3]} \subseteq DOMAIN HexValue
                 /\ 16 * HexValue[Encoded(byte)[2]] + HexValue[Encoded(byte)[3]] = byte
  <1>1. CASE IsLiteral(byte)
    <2> DEFINE c == Character[byte]
    <2>1. c \in DOMAIN Code /\ Code[c] = byte
      BY <1>1, CharacterOf
    <2>2. Encoded(byte) = <<c>>
      BY <1>1 DEF Encoded
    <2> HIDE DEF c
    <2>3. c # "%"
      BY <1>1, <2>1, Marks
    <2>4. c \in Safe
      BY <1>1, <2>1 DEF Safe
    <2> QED
      BY <2>1, <2>2, <2>3, <2>4
  <1>2. CASE ~ IsLiteral(byte)
    <2> DEFINE h == HexDigit(byte \div 16)
               l == HexDigit(byte % 16)
    <2>1. byte \div 16 \in 0..15 /\ byte % 16 \in 0..15 /\ 16 * (byte \div 16) + (byte % 16) = byte
      BY DEF Bytes
    <2>2. /\ h \in Safe /\ h \in DOMAIN HexValue /\ HexValue[h] = byte \div 16
          /\ l \in Safe /\ l \in DOMAIN HexValue /\ HexValue[l] = byte % 16
      BY <2>1, HexDigitIs, Zenon
    <2>3. Encoded(byte) = <<"%", h, l>>
      BY <1>2 DEF Encoded
    <2> HIDE DEF h, l
    <2>4. "%" \in Safe
      BY SafeIs
    <2> QED
      BY <2>1, <2>2, <2>3, <2>4
  <1> QED
    BY <1>1, <1>2

\* percent_encode() of nothing is nothing.
LEMMA EncodeNothing == PercentEncode(<<>>) = <<>>
  <1>1. [i \in DOMAIN <<>> |-> Encoded(<<>>[i])] = <<>>
    OBVIOUS
  <1> QED
    BY <1>1, FlattenNothing, Zenon DEF PercentEncode

\* A message of one byte more is written with that byte behind it.
LEMMA EncodeOneMore ==
    ASSUME NEW m \in Seq(Bytes), NEW byte \in Bytes
    PROVE  /\ PercentEncode(m) \in Seq(Safe)
           /\ PercentEncode(Append(m, byte)) = PercentEncode(m) \o Encoded(byte)
  <1> DEFINE q == Append(m, byte)
             N == Len(m)
             F(s) == [i \in DOMAIN s |-> Encoded(s[i])]
             more == Encoded(byte)
             b == F(m)
             w == Append(b, more)
  <1>1. N \in Nat /\ q \in Seq(Bytes) /\ Len(q) = N + 1 /\ q[N + 1] = byte /\ \A i \in 1..N : q[i] = m[i]
    OBVIOUS
  <1>2. more \in Seq(Safe) /\ \A i \in 1..N : Encoded(m[i]) \in Seq(Safe)
    <2>1. \A i \in 1..N : m[i] \in Bytes
      OBVIOUS
    <2> QED
      BY <2>1, EncodedIs
  <1>3. b \in Seq(Seq(Safe)) /\ Len(b) = N /\ \A i \in 1..N : b[i] = Encoded(m[i])
    BY <1>1, <1>2
  <1> HIDE DEF more, b, q
  <1>4. w \in Seq(Seq(Safe)) /\ Len(w) = N + 1 /\ w[N + 1] = more /\ \A i \in 1..N : w[i] = b[i]
    BY <1>1, <1>2, <1>3
  <1>5. F(q) = w
    <2> HIDE DEF w
    <2>1. ASSUME NEW i \in 1..(N + 1)
          PROVE  Encoded(q[i]) = w[i]
      <3>1. i = N + 1 \/ i \in 1..N
        BY <1>1
      <3> QED
        BY <1>1, <1>3, <1>4, <3>1 DEF more
    <2>2. w = [i \in 1..(N + 1) |-> w[i]] /\ DOMAIN q = 1..(N + 1)
      BY <1>1, <1>4
    <2> HIDE DEF N
    <2> QED
      BY <2>1, <2>2, Zenon
  <1>6. FlattenSeq(b) \in Seq(Safe) /\ FlattenSeq(w) = FlattenSeq(b) \o more
    BY <1>2, <1>3, FlattenOneMore, Zenon
  <1> HIDE DEF w
  <1> QED
    BY <1>5, <1>6, Zenon DEF PercentEncode, q, b, more

\* percent_encode() writes at most three characters for a byte.
LEMMA EncodedLength ==
    ASSUME NEW m \in Seq(Bytes)
    PROVE  PercentEncode(m) \in Seq(Safe) /\ Len(PercentEncode(m)) <= 3 * Len(m)
  <1> DEFINE T == {s \in Seq(Bytes) : PercentEncode(s) \in Seq(Safe) /\ Len(PercentEncode(s)) <= 3 * Len(s)}
  <1>1. <<>> \in T
    <2>1. Len(<<>>) = 0 /\ <<>> \in Seq(Safe) /\ <<>> \in Seq(Bytes)
      OBVIOUS
    <2>2. PercentEncode(<<>>) \in Seq(Safe) /\ Len(PercentEncode(<<>>)) = 0
      BY <2>1, EncodeNothing, Zenon
    <2>3. 0 <= 3 * Len(<<>>)
      BY <2>1
    <2>4. Len(PercentEncode(<<>>)) <= 3 * Len(<<>>)
      BY <2>2, <2>3, Zenon
    <2> QED
      BY <2>1, <2>2, <2>4, Zenon
  <1>2. ASSUME NEW s \in Seq(Bytes), NEW byte \in Bytes, s \in T
        PROVE  Append(s, byte) \in T
    <2> DEFINE u == PercentEncode(s)
               e == Encoded(byte)
    <2>1. u \in Seq(Safe) /\ PercentEncode(Append(s, byte)) = u \o e
      BY EncodeOneMore, Zenon
    <2>2. e \in Seq(Safe) /\ Len(e) <= 3
      BY EncodedIs, Zenon
    <2>3. Len(u) <= 3 * Len(s)
      BY <1>2
    <2> HIDE DEF u, e
    <2>4. u \o e \in Seq(Safe) /\ Len(u \o e) = Len(u) + Len(e) /\ Len(Append(s, byte)) = Len(s) + 1
          /\ Append(s, byte) \in Seq(Bytes)
      BY <2>1, <2>2
    <2>5. Len(u \o e) <= 3 * Len(Append(s, byte))
      BY <2>1, <2>2, <2>3, <2>4
    <2> QED
      BY <2>1, <2>4, <2>5
  <1>3. \A s \in Seq(Bytes) : s \in T
    <2> HIDE DEF T
    <2> QED
      BY <1>1, <1>2, AllSequences, Zenon
  <1> QED
    BY <1>3

-----------------------------------------------------------------------------
(* What is escaped is read again *)

\* What is read from place i on, if f is what is read from the later ones.
FromHere(f, value, i) ==
    IF i > Len(value) THEN <<>>
    ELSE IF value[i] # "%" THEN Prepended(Code[value[i]], f[i + 1])
    ELSE IF i + 2 <= Len(value) /\ {value[i + 1], value[i + 2]} \subseteq DOMAIN HexValue
    THEN Prepended(16 * HexValue[value[i + 1]] + HexValue[value[i + 2]], f[i + 3])
    ELSE Error

Unescapes(f, value) == f = [i \in 1..Len(value) + 3 |-> FromHere(f, value, i)]

Decoded == Seq(Bytes) \cup {Error}

\* Neither an error nor an absent value is a value.
LEMMA ErrorIsNone ==
    /\ \A s \in Seq(Bytes) : s # Error /\ s # Nothing
    /\ \A s \in Seq(Tokens) : s # Error /\ s # Nothing
    /\ \A n \in Nat : n # Error /\ n # Nothing
    /\ \A c \in Tokens : c # Error /\ c # Nothing
  <1>1. \A s \in Seq(Bytes) : s \in Seq(Nat)
    <2>1. \A byte \in Bytes : byte \in Nat
      BY DEF Bytes
    <2> QED
      BY <2>1
  <1>2. Nothing \notin Plain /\ Error \notin Plain
    BY NoValueAssumption
  <1> QED
    BY <1>1, <1>2, Zenon DEF Plain

\* A byte before what was decoded; an error stays one.
LEMMA PrependedIs ==
    ASSUME NEW byte \in Bytes, NEW d \in Decoded
    PROVE  /\ Prepended(byte, d) \in Decoded
           /\ Prepended(byte, d) # Error => d # Error /\ d \in Seq(Bytes) /\ Prepended(byte, d) = <<byte>> \o d
  <1>1. CASE d = Error
    BY <1>1 DEF Prepended, Decoded
  <1>2. CASE d # Error
    <2>1. d \in Seq(Bytes)
      BY <1>2 DEF Decoded
    <2>2. <<byte>> \o d \in Seq(Bytes)
      BY <2>1
    <2> QED
      BY <1>2, <2>1, <2>2 DEF Prepended, Decoded
  <1> QED
    BY <1>1, <1>2

\* Decoding from a place on gives bytes or an error.
LEMMA FromHereIs ==
    ASSUME NEW value \in Seq(DOMAIN Code), NEW f, NEW i \in 1..Len(value) + 3,
           i <= Len(value) => f[i + 1] \in Decoded,
           i + 2 <= Len(value) => f[i + 3] \in Decoded
    PROVE  FromHere(f, value, i) \in Decoded
  <1>1. CASE i > Len(value)
    <2>1. <<>> \in Seq(Bytes)
      OBVIOUS
    <2> QED
      BY <1>1, <2>1 DEF FromHere, Decoded
  <1>2. CASE i <= Len(value) /\ value[i] # "%"
    <2>1. value[i] \in DOMAIN Code
      BY <1>2
    <2>2. Code[value[i]] \in Bytes
      BY <2>1, CodeIs
    <2>3. Prepended(Code[value[i]], f[i + 1]) \in Decoded
      BY <1>2, <2>2, PrependedIs
    <2>4. ~ (i > Len(value))
      BY <1>2
    <2> QED
      BY <1>2, <2>3, <2>4, Zenon DEF FromHere
  <1>3. CASE i <= Len(value) /\ value[i] = "%"
    <2> DEFINE ok == i + 2 <= Len(value) /\ {value[i + 1], value[i + 2]} \subseteq DOMAIN HexValue
               byte == 16 * HexValue[value[i + 1]] + HexValue[value[i + 2]]
    <2>1. CASE ok
      <3>1. HexValue[value[i + 1]] \in 0..15 /\ HexValue[value[i + 2]] \in 0..15
        BY <2>1, HexValueIs
      <3>2. byte \in Bytes
        <4>1. \A h, l \in 0..15 : 16 * h + l \in Bytes
          BY DEF Bytes
        <4> QED
          BY <3>1, <4>1, Zenon
      <3>3. f[i + 3] \in Decoded
        BY <2>1
      <3> HIDE DEF byte
      <3>4. Prepended(byte, f[i + 3]) \in Decoded
        BY <3>2, <3>3, PrependedIs, Zenon
      <3>5. ~ (i > Len(value))
        BY <1>3
      <3>6. FromHere(f, value, i) = Prepended(byte, f[i + 3])
        BY <1>3, <2>1, <3>5, Zenon DEF FromHere, byte
      <3> QED
        BY <3>4, <3>6
    <2>2. CASE ~ ok
      <3>1. ~ (i > Len(value))
        BY <1>3
      <3>2. FromHere(f, value, i) = Error
        BY <1>3, <2>2, <3>1, Zenon DEF FromHere
      <3> QED
        BY <3>2 DEF Decoded
    <2> QED
      BY <2>1, <2>2
  <1> QED
    BY <1>1, <1>2, <1>3

\* What is read from each place of a value on.
LEMMA SomethingUnescapes ==
    ASSUME NEW value \in Seq(DOMAIN Code)
    PROVE  \E f \in [1..Len(value) + 3 -> Decoded] : Unescapes(f, value)
  <1> DEFINE N == Len(value)
             Late(n) == (N + 1 - n)..(N + 3)
             Good(f, n) == \A i \in Late(n) : f[i] = FromHere(f, value, i)
             Made == {n \in 0..N : \E f \in [Late(n) -> Decoded] : Good(f, n)}
  <1>1. N \in Nat
    OBVIOUS
  <1>2. 0 \in Made
    <2> DEFINE f == [i \in Late(0) |-> <<>>]
    <2>1. <<>> \in Decoded
      BY DEF Decoded
    <2>2. f \in [Late(0) -> Decoded]
      <3> HIDE DEF Late
      <3> QED
        BY <2>1
    <2>3. \A i \in Late(0) : i > N
      BY <1>1
    <2>4. Good(f, 0)
      <3> HIDE DEF Late
      <3> QED
        BY <2>3 DEF FromHere
    <2>5. 0 \in 0..N
      BY <1>1
    <2> HIDE DEF Late, Good, f, N
    <2> QED
      BY <2>2, <2>4, <2>5, Zenon
  <1>3. ASSUME NEW n \in 1..N, n - 1 \in Made
        PROVE  n \in Made
    <2> DEFINE k == N + 1 - n
    <2>1. PICK f \in [Late(n - 1) -> Decoded] : Good(f, n - 1)
      BY <1>3
    <2>2. /\ k \in 1..N /\ k \notin Late(n - 1) /\ Late(n) = {k} \cup Late(n - 1)
          /\ \A i \in Late(n) : i + 1 \in Late(n - 1) \/ i > N
          /\ \A i \in Late(n) : i + 3 \in Late(n - 1) \/ i + 2 > N
          /\ \A i \in Late(n) : i \in Int
      BY <1>1
    <2> DEFINE w == FromHere(f, value, k)
               g == [i \in Late(n) |-> IF i = k THEN w ELSE f[i]]
    <2>3. w \in Decoded
      <3>1. k \in Late(n) /\ k \in 1..N + 3 /\ k \in Int
        BY <1>1, <2>2
      <3>2. k <= N => f[k + 1] \in Decoded
        BY <1>1, <2>1, <2>2, <3>1
      <3>3. k + 2 <= N => f[k + 3] \in Decoded
        BY <1>1, <2>1, <2>2, <3>1
      <3> HIDE DEF k, Late
      <3> QED
        BY <3>1, <3>2, <3>3, FromHereIs
    <2> HIDE DEF w, k, Late
    <2>4. g \in [Late(n) -> Decoded]
      BY <2>1, <2>2, <2>3
    <2>5. g[k] = w /\ \A i \in Late(n - 1) : g[i] = f[i]
      BY <2>2
    <2>6. ASSUME NEW i \in Late(n)
          PROVE  g[i] = FromHere(g, value, i)
      <3>1. i \in Int /\ N \in Int
        BY <1>1, <2>2
      <3>2. ~ (i > N) => g[i + 1] = f[i + 1]
        BY <2>2, <2>5
      <3>3. i + 2 <= N => g[i + 3] = f[i + 3]
        <4>1. i + 2 <= N => ~ (i + 2 > N)
          BY <3>1
        <4> QED
          BY <2>2, <2>5, <4>1
      <3> HIDE DEF g
      <3>4. FromHere(g, value, i) = FromHere(f, value, i)
        BY <3>2, <3>3, Zenon DEF FromHere
      <3>5. CASE i = k
        BY <2>5, <3>4, <3>5 DEF w
      <3>6. CASE i # k
        <4>1. i \in Late(n - 1)
          BY <2>2, <3>6
        <4> QED
          BY <2>1, <2>5, <3>4, <4>1
      <3> QED
        BY <3>5, <3>6
    <2>7. n \in 0..N
      BY <1>1
    <2> HIDE DEF g
    <2> QED
      BY <2>4, <2>6, <2>7
  <1>4. \A n \in 0..N : n \in Made
    <2> HIDE DEF Made, N
    <2> QED
      BY <1>1, <1>2, <1>3, AllUpTo
  <1>5. N \in 0..N /\ Late(N) = 1..N + 3
    BY <1>1
  <1>6. PICK f \in [Late(N) -> Decoded] : Good(f, N)
    <2> HIDE DEF Late
    <2> QED
      BY <1>4, <1>5
  <1>7. Unescapes(f, value)
    <2>1. f = [i \in Late(N) |-> f[i]]
      <3> HIDE DEF Late
      <3> QED
        OBVIOUS
    <2>2. f = [i \in Late(N) |-> FromHere(f, value, i)]
      <3> HIDE DEF Late
      <3> QED
        BY <1>6, <2>1, Zenon
    <2> HIDE DEF Late
    <2> QED
      BY <1>5, <2>2, Zenon DEF Unescapes
  <1> HIDE DEF Late
  <1> QED
    BY <1>5, <1>7

\* percent_decode() has a value, found from the end of the text.
LEMMA UnescapedIs ==
    ASSUME NEW value \in Seq(DOMAIN Code)
    PROVE  \E f \in [1..Len(value) + 3 -> Decoded] :
              /\ Unescaped(value) = f[1] /\ Unescaped(value) \in Decoded
              /\ \A i \in 1..Len(value) + 3 : f[i] = FromHere(f, value, i)
  <1> DEFINE N == Len(value)
             f == CHOOSE g : Unescapes(g, value)
  <1>1. N \in Nat /\ 1 \in 1..N + 3
    OBVIOUS
  <1>2. Unescapes(f, value)
    <2>1. \E g : Unescapes(g, value)
      BY SomethingUnescapes
    <2> QED
      BY <2>1
  <1>3. Unescaped(value) = f[1]
    BY DEF Unescaped, Unescapes, FromHere
  <1> HIDE DEF f, N
  <1>4. \A i \in 1..N + 3 : f[i] = FromHere(f, value, i)
    BY <1>2, Zenon DEF Unescapes, N
  <1>5. f = [i \in 1..N + 3 |-> f[i]]
    BY <1>2, <1>4, Zenon DEF Unescapes, N
  <1> DEFINE Had == {n \in 0..N + 2 : f[N + 3 - n] \in Decoded}
  <1>6. \A n \in 0..N + 2 : n \in Had
    <2>1. ASSUME NEW n \in Nat, \A k \in 0..(n - 1) : k \in 0..N + 2 => f[N + 3 - k] \in Decoded
          PROVE  n \in 0..N + 2 => f[N + 3 - n] \in Decoded
      <3> SUFFICES ASSUME n \in 0..N + 2
                   PROVE  f[N + 3 - n] \in Decoded
        OBVIOUS
      <3> DEFINE i == N + 3 - n
      <3>1. i \in 1..N + 3 /\ i \in Int
        BY <1>1
      <3>2. i <= N => f[i + 1] \in Decoded
        <4>1. i <= N => n - 1 \in 0..(n - 1) /\ n - 1 \in 0..N + 2 /\ N + 3 - (n - 1) = i + 1
          BY <1>1
        <4> HIDE DEF i
        <4> QED
          BY <2>1, <4>1
      <3>3. i + 2 <= N => f[i + 3] \in Decoded
        <4>1. i + 2 <= N => n - 3 \in 0..(n - 1) /\ n - 3 \in 0..N + 2 /\ N + 3 - (n - 3) = i + 3
          BY <1>1
        <4> HIDE DEF i
        <4> QED
          BY <2>1, <4>1
      <3> HIDE DEF i
      <3>4. FromHere(f, value, i) \in Decoded
        BY <3>1, <3>2, <3>3, FromHereIs DEF N
      <3>5. f[i] \in Decoded
        BY <1>4, <3>1, <3>4
      <3> QED
        BY <3>5 DEF i
    <2> DEFINE Had2 == {n \in Nat : n \in 0..N + 2 => f[N + 3 - n] \in Decoded}
    <2>2. ASSUME NEW n \in Nat, \A k \in 0..(n - 1) : k \in Had2
          PROVE  n \in Had2
      BY <2>1, <2>2
    <2>3. \A n \in Nat : n \in Had2
      <3> HIDE DEF Had2
      <3> QED
        BY <2>2, AllNumbers
    <2> QED
      BY <1>1, <2>3
  <1>7. ASSUME NEW i \in 1..N + 3
        PROVE  f[i] \in Decoded
    <2>1. N + 3 - i \in 0..N + 2 /\ N + 3 - (N + 3 - i) = i
      BY <1>1
    <2> QED
      BY <1>6, <2>1
  <1>8. f \in [1..N + 3 -> Decoded]
    BY <1>5, <1>7
  <1> QED
    BY <1>1, <1>3, <1>4, <1>7, <1>8 DEF N

\* A byte that is escaped comes to the end of what is read.
LEMMA UnescapedOneMore ==
    ASSUME NEW value \in Seq(DOMAIN Code), NEW byte \in Bytes, Unescaped(value) # Error
    PROVE  Unescaped(value \o Encoded(byte)) = Unescaped(value) \o <<byte>>
  <1> DEFINE e == Encoded(byte)
             w == value \o e
             N == Len(value)
             M == Len(w)
  <1>1. e \in Seq(DOMAIN Code) /\ Len(e) \in {1, 3}
    <2>1. \A c \in Safe : c \in DOMAIN Code
      BY SafeIs
    <2>2. e \in Seq(Safe) /\ Len(e) \in {1, 3}
      BY EncodedIs
    <2> HIDE DEF e
    <2> QED
      BY <2>1, <2>2
  <1>2. /\ \/ Len(e) = 1 /\ e[1] # "%" /\ Code[e[1]] = byte
           \/ /\ Len(e) = 3 /\ e[1] = "%" /\ {e[2], e[3]} \subseteq DOMAIN HexValue
              /\ 16 * HexValue[e[2]] + HexValue[e[3]] = byte
    BY EncodedIs, Zenon
  <1> HIDE DEF e
  <1>3. /\ w \in Seq(DOMAIN Code) /\ M = N + Len(e) /\ N \in Nat /\ M \in Nat /\ M > N
        /\ \A i \in 1..N : w[i] = value[i]
        /\ w[N + 1] = e[1] /\ (Len(e) = 3 => w[N + 2] = e[2] /\ w[N + 3] = e[3])
    <2>1. w \in Seq(DOMAIN Code) /\ M = N + Len(e) /\ N \in Nat /\ \A i \in 1..N : w[i] = value[i]
      BY <1>1
    <2>2. \A i \in 1..Len(e) : w[N + i] = e[i]
      BY <1>1
    <2>3. 1 \in 1..Len(e) /\ (Len(e) = 3 => 2 \in 1..Len(e) /\ 3 \in 1..Len(e)) /\ Len(e) \in Nat
      <3> DEFINE k == Len(e)
      <3>1. k \in {1, 3}
        BY <1>1
      <3> HIDE DEF k
      <3>2. 1 \in 1..k /\ (k = 3 => 2 \in 1..k /\ 3 \in 1..k) /\ k \in Nat
        BY <3>1
      <3> QED
        BY <3>2 DEF k
    <2> HIDE DEF w, N, M
    <2>4. M \in Nat /\ M > N
      BY <1>1, <2>1
    <2> QED
      BY <2>1, <2>2, <2>3, <2>4
  <1> HIDE DEF w
  <1>4. PICK f \in [1..N + 3 -> Decoded] :
           Unescaped(value) = f[1] /\ \A i \in 1..N + 3 : f[i] = FromHere(f, value, i)
    BY UnescapedIs
  <1>5. PICK g \in [1..M + 3 -> Decoded] :
           Unescaped(w) = g[1] /\ \A i \in 1..M + 3 : g[i] = FromHere(g, w, i)
    BY <1>3, UnescapedIs
  <1> HIDE DEF N, M
  <1> DEFINE Same(i) == f[i] # Error => g[i] = f[i] \o <<byte>>
             Had == {n \in 0..N : Same(N + 1 - n)}
  <1>6. Same(N + 1)
    <2>1. N + 1 \in 1..N + 3 /\ N + 1 > N /\ N + 1 \in 1..M + 3 /\ ~ (N + 1 > M)
      BY <1>1, <1>3
    <2>2. f[N + 1] = <<>>
      <3>1. f[N + 1] = FromHere(f, value, N + 1)
        BY <1>4, <2>1
      <3> QED
        BY <2>1, <3>1, Zenon DEF FromHere, N
    <2>3. \A i \in 1..M + 3 : i = M + 1 => g[i] = <<>>
      <3> TAKE i \in 1..M + 3
      <3> HAVE i = M + 1
      <3>1. g[i] = FromHere(g, w, i) /\ i > M
        BY <1>3, <1>5
      <3> QED
        BY <3>1, Zenon DEF FromHere, M
    <2>4. g[N + 1] = FromHere(g, w, N + 1)
      BY <1>5, <2>1
    <2>5. <<>> # Error /\ Prepended(byte, <<>>) = <<>> \o <<byte>>
      <3>1. <<>> \in Seq(Bytes)
        OBVIOUS
      <3>2. <<>> # Error
        BY <3>1, ErrorIsNone, Zenon
      <3> QED
        BY <3>2 DEF Prepended
    <2>6. CASE Len(e) = 1
      <3>1. N + 1 + 1 \in 1..M + 3 /\ N + 1 + 1 = M + 1 /\ e[1] # "%" /\ Code[e[1]] = byte
        BY <1>2, <1>3, <2>6
      <3>2. g[N + 1] = Prepended(Code[w[N + 1]], g[N + 1 + 1])
        BY <1>3, <2>1, <2>4, <3>1 DEF FromHere, M
      <3> QED
        BY <1>3, <2>2, <2>3, <2>5, <3>1, <3>2
    <2>7. CASE Len(e) = 3
      <3>1. /\ e[1] = "%" /\ {e[2], e[3]} \subseteq DOMAIN HexValue
            /\ 16 * HexValue[e[2]] + HexValue[e[3]] = byte
        BY <1>2, <2>7
      <3>2. /\ N + 1 + 3 \in 1..M + 3 /\ N + 1 + 3 = M + 1 /\ N + 1 + 2 <= M
            /\ N + 1 + 1 = N + 2 /\ N + 1 + 2 = N + 3
        BY <1>3, <2>7
      <3>3. w[N + 1 + 1] = e[2] /\ w[N + 1 + 2] = e[3] /\ w[N + 1] = "%"
        BY <1>3, <2>7, <3>1, <3>2
      <3>4. g[N + 1] = Prepended(16 * HexValue[e[2]] + HexValue[e[3]], g[N + 1 + 3])
        <4>1. {w[N + 1 + 1], w[N + 1 + 2]} \subseteq DOMAIN HexValue
          BY <3>1, <3>3, Zenon
        <4> QED
          BY <2>1, <2>4, <3>2, <3>3, <4>1, Zenon DEF FromHere, M
      <3>5. g[N + 1] = Prepended(byte, g[N + 1 + 3]) /\ g[N + 1 + 3] = <<>>
        BY <2>3, <3>1, <3>2, <3>4
      <3> QED
        BY <2>2, <2>5, <3>5
    <2> QED
      BY <1>1, <2>6, <2>7
  <1>7. ASSUME NEW i \in 1..N, \A j \in i + 1..N + 1 : Same(j)
        PROVE  Same(i)
    <2> SUFFICES ASSUME f[i] # Error
                 PROVE  g[i] = f[i] \o <<byte>>
      OBVIOUS
    <2>1. /\ i \in Int /\ i \in 1..N + 3 /\ i \in 1..M + 3 /\ ~ (i > N) /\ ~ (i > M) /\ w[i] = value[i]
          /\ i + 1 \in i + 1..N + 1 /\ i + 1 \in 1..N + 3
      BY <1>3
    <2>2. f[i] = FromHere(f, value, i) /\ g[i] = FromHere(g, w, i)
      BY <1>4, <1>5, <2>1
    <2>3. ASSUME NEW b \in Bytes, NEW j \in i + 1..N + 1, j \in 1..N + 3,
                 f[i] = Prepended(b, f[j]), g[i] = Prepended(b, g[j])
          PROVE  g[i] = f[i] \o <<byte>>
      <3> DEFINE d == f[j]
      <3>1. d \in Decoded
        BY <1>4, <2>3
      <3> HIDE DEF d
      <3>2. d # Error /\ d \in Seq(Bytes) /\ Prepended(b, d) = <<b>> \o d
        BY <2>3, <3>1, PrependedIs DEF d
      <3>3. g[j] = d \o <<byte>>
        BY <1>7, <2>3, <3>2 DEF d
      <3>4. d \o <<byte>> \in Seq(Bytes) /\ <<b>> \o (d \o <<byte>>) = (<<b>> \o d) \o <<byte>>
        BY <3>2
      <3>5. d \o <<byte>> # Error
        BY <3>4, ErrorIsNone, Zenon
      <3>6. Prepended(b, d \o <<byte>>) = <<b>> \o (d \o <<byte>>)
        BY <3>5, Zenon DEF Prepended
      <3> QED
        BY <2>3, <3>2, <3>3, <3>4, <3>6 DEF d
    <2>4. CASE value[i] # "%"
      <3>1. value[i] \in DOMAIN Code
        BY DEF N
      <3>2. Code[value[i]] \in Bytes
        BY <3>1, CodeIs
      <3>3. f[i] = Prepended(Code[value[i]], f[i + 1]) /\ g[i] = Prepended(Code[value[i]], g[i + 1])
        BY <2>1, <2>2, <2>4, Zenon DEF FromHere, N, M
      <3> QED
        BY <2>1, <2>3, <3>2, <3>3
    <2>5. CASE value[i] = "%"
      <3>1. i + 2 <= N /\ {value[i + 1], value[i + 2]} \subseteq DOMAIN HexValue
        BY <2>1, <2>2, <2>5, Zenon DEF FromHere, N
      <3> DEFINE b == 16 * HexValue[value[i + 1]] + HexValue[value[i + 2]]
      <3>2. f[i] = Prepended(b, f[i + 3])
        BY <2>1, <2>2, <2>5, <3>1, Zenon DEF FromHere, N
      <3>3. w[i + 1] = value[i + 1] /\ w[i + 2] = value[i + 2] /\ i + 2 <= M
            /\ i + 3 \in i + 1..N + 1 /\ i + 3 \in 1..N + 3
        BY <1>3, <2>1, <3>1
      <3>4. g[i] = Prepended(b, g[i + 3])
        BY <2>1, <2>2, <2>5, <3>1, <3>3, Zenon DEF FromHere, M
      <3>5. b \in Bytes
        <4>1. \A h, l \in 0..15 : 16 * h + l \in Bytes
          BY DEF Bytes
        <4>2. HexValue[value[i + 1]] \in 0..15 /\ HexValue[value[i + 2]] \in 0..15
          BY <3>1, HexValueIs
        <4> QED
          BY <4>1, <4>2, Zenon
      <3> HIDE DEF b
      <3> QED
        BY <2>3, <3>2, <3>3, <3>4, <3>5
    <2> QED
      BY <2>4, <2>5
  <1>8. \A n \in Nat : n \in 0..N => Same(N + 1 - n)
    <2> DEFINE Had2 == {n \in Nat : n \in 0..N => Same(N + 1 - n)}
    <2>1. ASSUME NEW n \in Nat, \A k \in 0..(n - 1) : k \in Had2
          PROVE  n \in Had2
      <3> SUFFICES ASSUME n \in 0..N
                   PROVE  Same(N + 1 - n)
        OBVIOUS
      <3>1. CASE n = 0
        <4>1. N + 1 - n = N + 1
          BY <1>3, <3>1
        <4> HIDE DEF Same
        <4> QED
          BY <1>6, <4>1
      <3>2. CASE n # 0
        <4>1. N + 1 - n \in 1..N
          BY <1>3, <3>2
        <4>2. ASSUME NEW j \in (N + 1 - n) + 1..N + 1
              PROVE  Same(j)
          <5>1. N + 1 - j \in 0..(n - 1) /\ N + 1 - j \in 0..N /\ N + 1 - (N + 1 - j) = j
            BY <1>3, <4>1
          <5> HIDE DEF Same
          <5>2. Same(N + 1 - (N + 1 - j))
            BY <2>1, <5>1
          <5> QED
            BY <5>1, <5>2
        <4> HIDE DEF Same
        <4> QED
          BY <1>7, <4>1, <4>2
      <3> QED
        BY <3>1, <3>2
    <2>2. \A n \in Nat : n \in Had2
      <3> HIDE DEF Had2
      <3> QED
        BY <2>1, AllNumbers
    <2> HIDE DEF Same
    <2> QED
      BY <2>2
  <1>9. Same(1)
    <2>1. N \in 0..N /\ N \in Nat /\ N + 1 - N = 1
      BY <1>3
    <2> HIDE DEF Same
    <2>2. Same(N + 1 - N)
      BY <1>8, <2>1
    <2> QED
      BY <2>1, <2>2
  <1> QED
    BY <1>4, <1>5, <1>9 DEF w, e

\* Every message is read back.
LEMMA MessageBack ==
    ASSUME NEW m \in Seq(Bytes)
    PROVE  Unescaped(PercentEncode(m)) = m
  <1> DEFINE T == {s \in Seq(Bytes) : Unescaped(PercentEncode(s)) = s}
  <1>1. <<>> \in T
    <2>1. <<>> \in Seq(DOMAIN Code) /\ Len(<<>>) = 0 /\ 1 \in 1..0 + 3 /\ <<>> \in Seq(Bytes)
      OBVIOUS
    <2>2. PICK f \in [1..Len(<<>>) + 3 -> Decoded] :
             Unescaped(<<>>) = f[1] /\ \A i \in 1..Len(<<>>) + 3 : f[i] = FromHere(f, <<>>, i)
      BY <2>1, UnescapedIs
    <2>3. Unescaped(<<>>) = FromHere(f, <<>>, 1)
      BY <2>1, <2>2
    <2>4. FromHere(f, <<>>, 1) = <<>>
      <3>1. 1 > Len(<<>>)
        BY <2>1
      <3> QED
        BY <3>1, Zenon DEF FromHere
    <2>5. Unescaped(PercentEncode(<<>>)) = <<>>
      BY <2>3, <2>4, EncodeNothing, Zenon
    <2> QED
      BY <2>1, <2>5, Zenon
  <1>2. ASSUME NEW s \in Seq(Bytes), NEW byte \in Bytes, s \in T
        PROVE  Append(s, byte) \in T
    <2>1. PercentEncode(s) \in Seq(Safe) /\ PercentEncode(Append(s, byte)) = PercentEncode(s) \o Encoded(byte)
      BY EncodeOneMore
    <2>2. PercentEncode(s) \in Seq(DOMAIN Code)
      <3>1. \A c \in Safe : c \in DOMAIN Code
        BY SafeIs
      <3> DEFINE u == PercentEncode(s)
      <3>2. u \in Seq(Safe)
        BY <2>1
      <3> HIDE DEF u
      <3>3. u \in Seq(DOMAIN Code)
        BY <3>1, <3>2
      <3> QED
        BY <3>3 DEF u
    <2>3. Unescaped(PercentEncode(s)) = s /\ s # Error
      BY <1>2, ErrorIsNone
    <2>4. Unescaped(PercentEncode(s) \o Encoded(byte)) = s \o <<byte>>
      <3>1. Unescaped(PercentEncode(s)) # Error
        BY <2>3
      <3>2. Unescaped(PercentEncode(s) \o Encoded(byte)) = Unescaped(PercentEncode(s)) \o <<byte>>
        BY <2>2, <3>1, UnescapedOneMore
      <3> QED
        BY <2>3, <3>2
    <2>5. s \o <<byte>> = Append(s, byte) /\ Append(s, byte) \in Seq(Bytes)
      OBVIOUS
    <2> QED
      BY <2>1, <2>4, <2>5
  <1>3. \A s \in Seq(Bytes) : s \in T
    <2> HIDE DEF T
    <2> QED
      BY <1>1, <1>2, AllSequences, Zenon
  <1> QED
    BY <1>3

-----------------------------------------------------------------------------
(* Numbers *)

Counts(f, s) == f = [i \in 0..Len(s) |-> IF i = 0 THEN 0 ELSE 10 * f[i - 1] + Code[s[i]] - 48]
OneDigit == [p \in Int \X DOMAIN Code |-> 10 * p[1] + Code[p[2]] - 48]

\* A digit more: ten times the number and the digit's value.
LEMMA OneDigitIs ==
    /\ OneDigit \in [Int \X DOMAIN Code -> Int]
    /\ \A n \in Int, c \in DOMAIN Code : OneDigit[<<n, c>>] = 10 * n + Code[c] - 48
  <1>1. \A c \in DOMAIN Code : Code[c] \in Int
    BY CodeIs DEF Bytes
  <1>2. ASSUME NEW p \in Int \X DOMAIN Code
        PROVE  10 * p[1] + Code[p[2]] - 48 \in Int
    <2>1. p[1] \in Int /\ p[2] \in DOMAIN Code
      OBVIOUS
    <2>2. Code[p[2]] \in Int
      BY <1>1, <2>1
    <2> QED
      BY <2>1, <2>2
  <1> QED
    BY <1>2 DEF OneDigit

\* Number goes through the digits.
LEMMA NumberIsAfter ==
    ASSUME NEW s \in Seq(DOMAIN Code)
    PROVE  Walk(s, DOMAIN Code, Int, 0, OneDigit) /\ Number(s) = After(s, Int, 0, OneDigit)
  <1> DEFINE N == Len(s)
             S == DOMAIN Code
  <1>1. Walk(s, S, Int, 0, OneDigit)
    <2>1. 0 \in Int /\ OneDigit \in [Int \X S -> Int]
      BY OneDigitIs
    <2> QED
      BY <2>1 DEF Walk
  <1>2. \A n \in Int, c \in S : OneDigit[<<n, c>>] = 10 * n + Code[c] - 48
    BY OneDigitIs, Zenon
  <1>3. N \in Nat /\ \A i \in 1..N : s[i] \in S
    OBVIOUS
  <1> HIDE DEF S
  <1>4. PICK f \in [0..N -> Int] : Follows(f, s, 0, OneDigit)
    BY <1>1, SomethingFollows DEF Walk
  <1>5. Counts(f, s)
    <2>1. ASSUME NEW i \in 1..N
          PROVE  f[i] = 10 * f[i - 1] + Code[s[i]] - 48
      <3>1. i - 1 \in 0..N /\ s[i] \in S
        BY <1>3
      <3>2. f[i - 1] \in Int /\ f[i] = OneDigit[<<f[i - 1], s[i]>>]
        BY <1>4, <3>1 DEF Follows
      <3> QED
        BY <1>2, <3>1, <3>2
    <2>2. f[0] = 0
      BY <1>4 DEF Follows
    <2>3. \A i \in 0..N : f[i] = IF i = 0 THEN 0 ELSE 10 * f[i - 1] + Code[s[i]] - 48
      BY <1>3, <2>1, <2>2
    <2>4. f = [i \in 0..N |-> f[i]]
      OBVIOUS
    <2>5. f = [i \in 0..N |-> IF i = 0 THEN 0 ELSE 10 * f[i - 1] + Code[s[i]] - 48]
      BY <2>3, <2>4, Zenon
    <2> QED
      BY <2>5, Zenon DEF Counts
  <1> DEFINE g == CHOOSE x : Counts(x, s)
  <1>6. Counts(g, s)
    BY <1>5
  <1>7. Number(s) = g[N]
    BY DEF Number, Counts
  <1> HIDE DEF g
  <1>8. g[0] = 0 /\ \A i \in 1..N : g[i] = 10 * g[i - 1] + Code[s[i]] - 48
    <2>1. \A i \in 0..N : g[i] = IF i = 0 THEN 0 ELSE 10 * g[i - 1] + Code[s[i]] - 48
      BY <1>6, Zenon DEF Counts
    <2>2. 0 \in 0..N /\ \A i \in 1..N : i \in 0..N /\ i # 0
      BY <1>3
    <2> QED
      BY <2>1, <2>2, Zenon
  <1>9. MakesSteps(g, s, Int, 0, OneDigit)
    <2>1. ASSUME NEW i \in 1..N, g[i - 1] \in Int
          PROVE  g[i] = OneDigit[<<g[i - 1], s[i]>>]
      BY <1>2, <1>3, <1>8, <2>1
    <2> QED
      BY <1>8, <2>1 DEF MakesSteps
  <1>10. g[Len(s)] = After(s, Int, 0, OneDigit) /\ \A i \in 0..Len(s) : g[i] \in Int
    BY <1>1, <1>9, SameSteps
  <1> QED
    BY <1>1, <1>7, <1>10 DEF S

\* The number of the digits with one more.
LEMMA NumberOneMore ==
    ASSUME NEW s \in Seq(DOMAIN Code), NEW c \in DOMAIN Code
    PROVE  Number(s) \in Int /\ Number(Append(s, c)) = 10 * Number(s) + Code[c] - 48
  <1> DEFINE t == Append(s, c)
             a == After(s, Int, 0, OneDigit)
  <1>1. t \in Seq(DOMAIN Code)
    OBVIOUS
  <1>2. Number(t) = After(t, Int, 0, OneDigit)
    <2> HIDE DEF t
    <2> QED
      BY <1>1, NumberIsAfter, Zenon
  <1>3. Number(s) = a /\ Walk(s, DOMAIN Code, Int, 0, OneDigit)
    BY NumberIsAfter, Zenon
  <1>4. a \in Int /\ After(t, Int, 0, OneDigit) = OneDigit[<<a, c>>]
    BY <1>3, AfterOneMore
  <1>5. OneDigit[<<a, c>>] = 10 * a + Code[c] - 48
    BY <1>4, OneDigitIs, Zenon
  <1> QED
    BY <1>2, <1>3, <1>4, <1>5

\* The number of no digits.
LEMMA NumberOfNothing == Number(<<>>) = 0
  <1>1. <<>> \in Seq(DOMAIN Code)
    OBVIOUS
  <1>2. Walk(<<>>, DOMAIN Code, Int, 0, OneDigit) /\ Number(<<>>) = After(<<>>, Int, 0, OneDigit)
    BY <1>1, NumberIsAfter, Zenon
  <1> QED
    BY <1>2, AfterNothing, Zenon

\* A number of digits is not negative.
LEMMA NumberOfDigits ==
    ASSUME NEW s \in Seq(DigitChars)
    PROVE  s \in Seq(DOMAIN Code) /\ Number(s) \in Nat
  <1> DEFINE T == {d \in Seq(DigitChars) : d \in Seq(DOMAIN Code) /\ Number(d) \in Nat}
  <1>0. \A c \in DigitChars : c \in DOMAIN Code /\ Code[c] \in 48..57
    BY DEF DigitChars
  <1>1. <<>> \in T
    BY NumberOfNothing
  <1>2. ASSUME NEW d \in Seq(DigitChars), NEW c \in DigitChars, d \in T
        PROVE  Append(d, c) \in T
    <2>1. c \in DOMAIN Code /\ Code[c] \in 48..57 /\ d \in Seq(DOMAIN Code) /\ Number(d) \in Nat
      BY <1>0, <1>2
    <2>2. Number(Append(d, c)) = 10 * Number(d) + Code[c] - 48
      BY <2>1, NumberOneMore
    <2>3. Append(d, c) \in Seq(DOMAIN Code) /\ Append(d, c) \in Seq(DigitChars)
      BY <2>1
    <2>4. Number(Append(d, c)) \in Nat
      BY <2>1, <2>2
    <2> QED
      BY <2>3, <2>4
  <1>3. \A d \in Seq(DigitChars) : d \in T
    <2> HIDE DEF T
    <2> QED
      BY <1>1, <1>2, AllSequences, Zenon
  <1> QED
    BY <1>3

\* The digits of the numbers up to n.
Digits(f, n) ==
    f = [k \in 0..n |-> IF k < 10 THEN <<HexDigit(k)>> ELSE Append(f[k \div 10], HexDigit(k % 10))]

\* The digits of a number do not depend on how far they are tabulated.
LEMMA DigitsAgree ==
    ASSUME NEW M \in Nat, NEW N \in Nat, NEW f, NEW g, Digits(f, M), Digits(g, N)
    PROVE  \A k \in Nat : k <= M /\ k <= N => f[k] = g[k]
  <1> DEFINE T == {k \in Nat : k <= M /\ k <= N => f[k] = g[k]}
  <1>1. ASSUME NEW k \in Nat, \A j \in 0..(k - 1) : j \in T
        PROVE  k \in T
    <2> SUFFICES ASSUME k <= M, k <= N
                 PROVE  f[k] = g[k]
      OBVIOUS
    <2>1. k \in 0..M /\ k \in 0..N
      OBVIOUS
    <2>2. f[k] = IF k < 10 THEN <<HexDigit(k)>> ELSE Append(f[k \div 10], HexDigit(k % 10))
      BY <2>1, Zenon DEF Digits
    <2>3. g[k] = IF k < 10 THEN <<HexDigit(k)>> ELSE Append(g[k \div 10], HexDigit(k % 10))
      BY <2>1, Zenon DEF Digits
    <2>4. CASE k < 10
      BY <2>2, <2>3, <2>4, Zenon
    <2>5. CASE ~ (k < 10)
      <3>1. k \div 10 \in 0..(k - 1) /\ k \div 10 <= M /\ k \div 10 <= N
        BY <2>5
      <3>2. f[k \div 10] = g[k \div 10]
        BY <1>1, <3>1
      <3> QED
        BY <2>2, <2>3, <2>5, <3>2, Zenon
    <2> QED
      BY <2>4, <2>5
  <1>2. \A k \in Nat : k \in T
    <2> HIDE DEF T
    <2> QED
      BY <1>1, AllNumbers
  <1> QED
    BY <1>2

\* All numbers up to any one have digits.
LEMMA SomeDigits == \A n \in Nat : \E f : Digits(f, n)
  <1> DEFINE T == {n \in Nat : \E f : Digits(f, n)}
  <1>1. ASSUME NEW n \in Nat, \A k \in 0..(n - 1) : k \in T
        PROVE  n \in T
    <2>1. CASE n = 0
      <3> DEFINE f == [k \in 0..n |-> <<HexDigit(k)>>]
      <3>1. \A k \in 0..n : f[k] = IF k < 10 THEN <<HexDigit(k)>> ELSE Append(f[k \div 10], HexDigit(k % 10))
        BY <2>1
      <3>2. f = [k \in 0..n |-> f[k]]
        OBVIOUS
      <3> HIDE DEF f
      <3>3. f = [k \in 0..n |-> IF k < 10 THEN <<HexDigit(k)>> ELSE Append(f[k \div 10], HexDigit(k % 10))]
        BY <3>1, <3>2, Zenon
      <3> QED
        BY <3>3 DEF Digits
    <2>2. CASE n # 0
      <3>1. n - 1 \in 0..(n - 1) /\ n - 1 \in Nat
        BY <2>2
      <3>2. PICK f : Digits(f, n - 1)
        BY <1>1, <3>1
      <3> DEFINE more == IF n < 10 THEN <<HexDigit(n)>> ELSE Append(f[n \div 10], HexDigit(n % 10))
                 g == [k \in 0..n |-> IF k = n THEN more ELSE f[k]]
      <3>3. \A k \in 0..(n - 1) : f[k] = IF k < 10 THEN <<HexDigit(k)>> ELSE Append(f[k \div 10], HexDigit(k % 10))
        BY <3>2, Zenon DEF Digits
      <3>4. g[n] = more /\ \A k \in 0..(n - 1) : g[k] = f[k]
        <4>1. n \in 0..n /\ \A k \in 0..(n - 1) : k \in 0..n /\ k # n
          OBVIOUS
        <4> HIDE DEF more
        <4> QED
          BY <4>1
      <3>5. g = [k \in 0..n |-> g[k]]
        OBVIOUS
      <3> HIDE DEF g
      <3>6. ASSUME NEW k \in 0..n
            PROVE  g[k] = IF k < 10 THEN <<HexDigit(k)>> ELSE Append(g[k \div 10], HexDigit(k % 10))
        <4>1. k < 10 \/ (~ (k < 10) /\ k \div 10 \in 0..(n - 1))
          OBVIOUS
        <4>2. ~ (k < 10) => g[k \div 10] = f[k \div 10]
          BY <3>4, <4>1, Zenon
        <4>3. CASE k = n
          BY <3>4, <4>2, <4>3, Zenon
        <4>4. CASE k # n
          <5>1. k \in 0..(n - 1)
            BY <4>4
          <5> QED
            BY <3>3, <3>4, <4>2, <5>1, Zenon
        <4> QED
          BY <4>3, <4>4
      <3>7. g = [k \in 0..n |-> IF k < 10 THEN <<HexDigit(k)>> ELSE Append(g[k \div 10], HexDigit(k % 10))]
        BY <3>5, <3>6, Zenon
      <3>8. Digits(g, n)
        BY <3>7, Zenon DEF Digits
      <3> QED
        BY <3>8
    <2> QED
      BY <2>1, <2>2
  <1>2. \A n \in Nat : n \in T
    <2> HIDE DEF T
    <2> QED
      BY <1>1, AllNumbers
  <1> QED
    BY <1>2

\* Decimal writes what is left of a division by ten, and behind it the rest.
LEMMA DecimalRecursion ==
    ASSUME NEW n \in Nat
    PROVE  Decimal(n) = IF n < 10 THEN <<HexDigit(n)>> ELSE Append(Decimal(n \div 10), HexDigit(n % 10))
  <1> DEFINE D(k) == CHOOSE f : Digits(f, k)
  <1>1. \A k \in Nat : Digits(D(k), k) /\ Decimal(k) = D(k)[k]
    <2>1. \A k \in Nat : \E f : Digits(f, k)
      BY SomeDigits
    <2>2. \A k \in Nat : Digits(D(k), k)
      BY <2>1
    <2>3. \A k \in Nat : Decimal(k) = D(k)[k]
      BY DEF Decimal, Digits
    <2> QED
      BY <2>2, <2>3
  <1> HIDE DEF D
  <1>2. n \div 10 \in Nat /\ n \div 10 <= n /\ n \in 0..n
    OBVIOUS
  <1>3. D(n)[n] = IF n < 10 THEN <<HexDigit(n)>> ELSE Append(D(n)[n \div 10], HexDigit(n % 10))
    <2>1. Digits(D(n), n)
      BY <1>1
    <2> QED
      BY <1>2, <2>1, Zenon DEF Digits
  <1>4. D(n)[n \div 10] = D(n \div 10)[n \div 10]
    <2> DEFINE m == n \div 10
    <2>1. m \in Nat /\ m <= n /\ m <= m
      BY <1>2
    <2>2. Digits(D(n), n) /\ Digits(D(m), m)
      BY <1>1, <2>1
    <2> HIDE DEF m
    <2>3. D(n)[m] = D(m)[m]
      BY <2>1, <2>2, DigitsAgree
    <2> QED
      BY <2>3 DEF m
  <1>5. Decimal(n) = D(n)[n] /\ Decimal(n \div 10) = D(n \div 10)[n \div 10]
    BY <1>1, <1>2
  <1> QED
    BY <1>3, <1>4, <1>5, Zenon

\* The character of a digit has its value.
LEMMA DigitIs ==
    ASSUME NEW n \in 0..9
    PROVE  HexDigit(n) \in DigitChars /\ Code[HexDigit(n)] = 48 + n
  <1>1. n \in 0..15 /\ n < 10
    OBVIOUS
  <1>2. HexDigit(n) \in DOMAIN Code /\ Code[HexDigit(n)] = 48 + n
    BY <1>1, HexDigitIs
  <1> QED
    BY <1>2 DEF DigitChars

\* Every number is read back.
LEMMA NumberBack ==
    ASSUME NEW n \in Nat
    PROVE  Decimal(n) \in Seq(DigitChars) /\ Decimal(n) # <<>> /\ Number(Decimal(n)) = n
  <1> DEFINE T == {k \in Nat : Decimal(k) \in Seq(DigitChars) /\ Decimal(k) # <<>> /\ Number(Decimal(k)) = k}
  <1>1. ASSUME NEW k \in Nat, \A j \in 0..(k - 1) : j \in T
        PROVE  k \in T
    <2>1. CASE k < 10
      <3> DEFINE c == HexDigit(k)
      <3>1. c \in DigitChars /\ Code[c] = 48 + k
        BY <2>1, DigitIs
      <3>2. Decimal(k) = <<c>>
        BY <2>1, DecimalRecursion, Zenon
      <3> HIDE DEF c
      <3>3. c \in DOMAIN Code /\ <<>> \in Seq(DOMAIN Code) /\ Append(<<>>, c) = <<c>> /\ <<c>> \in Seq(DigitChars)
        BY <3>1 DEF DigitChars
      <3>4. Number(Append(<<>>, c)) = 10 * Number(<<>>) + Code[c] - 48
        BY <3>3, NumberOneMore
      <3>5. Number(<<c>>) = k
        BY <3>1, <3>3, <3>4, NumberOfNothing
      <3>6. <<c>> # <<>>
        OBVIOUS
      <3> QED
        BY <3>2, <3>3, <3>5, <3>6, Zenon
    <2>2. CASE ~ (k < 10)
      <3> DEFINE c == HexDigit(k % 10)
                 d == Decimal(k \div 10)
      <3>1. k % 10 \in 0..9 /\ k \div 10 \in 0..(k - 1) /\ 10 * (k \div 10) + (k % 10) = k
        BY <2>2
      <3>2. c \in DigitChars /\ Code[c] = 48 + (k % 10)
        BY <3>1, DigitIs
      <3>3. d \in Seq(DigitChars) /\ Number(d) = k \div 10
        BY <1>1, <3>1
      <3>4. Decimal(k) = Append(d, c)
        BY <2>2, DecimalRecursion, Zenon
      <3> HIDE DEF c, d
      <3>5. d \in Seq(DOMAIN Code) /\ c \in DOMAIN Code
        BY <3>2, <3>3, NumberOfDigits DEF DigitChars
      <3>6. Number(Append(d, c)) = 10 * Number(d) + Code[c] - 48
        BY <3>5, NumberOneMore
      <3>7. Append(d, c) \in Seq(DigitChars) /\ Append(d, c) # <<>>
        BY <3>2, <3>3
      <3>8. Number(Append(d, c)) = k
        BY <3>1, <3>2, <3>3, <3>6
      <3> QED
        BY <3>4, <3>7, <3>8
    <2> QED
      BY <2>1, <2>2
  <1>2. \A k \in Nat : k \in T
    <2> HIDE DEF T
    <2> QED
      BY <1>1, AllNumbers
  <1> QED
    BY <1>2

\* A smaller number is not longer.
LEMMA DecimalGrows ==
    ASSUME NEW n \in Nat, NEW k \in 0..n
    PROVE  Len(Decimal(k)) <= Len(Decimal(n))
  <1> DEFINE L(i) == Len(Decimal(i))
             T == {i \in Nat : \A j \in 0..i : L(j) <= L(i)}
  <1>1. ASSUME NEW i \in Nat
        PROVE  L(i) \in Nat /\ L(i) >= 1
    <2> DEFINE d == Decimal(i)
    <2>1. d \in Seq(DigitChars) /\ d # <<>>
      BY NumberBack
    <2> HIDE DEF d
    <2>2. Len(d) \in Nat /\ Len(d) >= 1
      BY <2>1
    <2> QED
      BY <2>2 DEF d
  <1>2. ASSUME NEW i \in Nat
        PROVE  /\ i < 10 => L(i) = 1
               /\ ~ (i < 10) => L(i) = L(i \div 10) + 1
    <2>1. CASE i < 10
      <3>1. Decimal(i) = <<HexDigit(i)>>
        BY <2>1, DecimalRecursion, Zenon
      <3> QED
        BY <2>1, <3>1
    <2>2. CASE ~ (i < 10)
      <3> DEFINE d == Decimal(i \div 10)
      <3>1. Decimal(i) = Append(d, HexDigit(i % 10))
        BY <2>2, DecimalRecursion, Zenon
      <3>2. d \in Seq(DigitChars)
        <4>1. i \div 10 \in Nat
          OBVIOUS
        <4> QED
          BY <4>1, NumberBack
      <3>3. i % 10 \in 0..9
        OBVIOUS
      <3>4. HexDigit(i % 10) \in DigitChars
        BY <3>3, DigitIs
      <3> HIDE DEF d
      <3>5. Len(Append(d, HexDigit(i % 10))) = Len(d) + 1
        BY <3>2, <3>4
      <3> QED
        BY <2>2, <3>1, <3>5 DEF d
    <2> QED
      BY <2>1, <2>2
  <1> HIDE DEF L
  <1>3. ASSUME NEW i \in Nat, \A j \in 0..(i - 1) : j \in T
        PROVE  i \in T
    <2>1. ASSUME NEW j \in 0..i
          PROVE  L(j) <= L(i)
      <3>1. CASE j < 10
        BY <1>1, <1>2, <3>1
      <3>2. CASE ~ (j < 10)
        <4>1. j \div 10 \in 0..(i \div 10) /\ i \div 10 \in 0..(i - 1) /\ ~ (i < 10) /\ j \in Nat
          BY <3>2
        <4>2. L(j \div 10) <= L(i \div 10)
          BY <1>3, <4>1
        <4>3. L(j) = L(j \div 10) + 1 /\ L(i) = L(i \div 10) + 1
          BY <1>2, <3>2, <4>1
        <4>4. L(j \div 10) \in Nat /\ L(i \div 10) \in Nat
          BY <1>1, <4>1
        <4> QED
          BY <4>2, <4>3, <4>4
      <3> QED
        BY <3>1, <3>2
    <2> QED
      BY <2>1
  <1>4. \A i \in Nat : i \in T
    <2> HIDE DEF T
    <2> QED
      BY <1>3, AllNumbers
  <1>5. L(k) <= L(n)
    BY <1>4
  <1> QED
    BY <1>5 DEF L

-----------------------------------------------------------------------------
(* One field *)

\* A set of numbers that is not empty has a least.
LEMMA LeastNumber ==
    ASSUME NEW S, S \subseteq Nat, S # {}
    PROVE  \E n \in S : \A k \in S : n <= k
  <1> SUFFICES ASSUME \A n \in S : \E k \in S : k < n
               PROVE  FALSE
    <2>1. \A n, k \in S : n <= k \/ k < n
      OBVIOUS
    <2> QED
      BY <2>1
  <1> DEFINE T == Nat \ S
  <1>1. ASSUME NEW n \in Nat, \A k \in 0..(n - 1) : k \in T
        PROVE  n \in T
    BY <1>1
  <1>2. \A n \in Nat : n \in T
    <2> HIDE DEF T
    <2> QED
      BY <1>1, AllNumbers
  <1> QED
    BY <1>2

\* A field is split at its first `=`.
LEMMA SplitIs ==
    ASSUME NEW f \in Seq(Tokens), IsField(f)
    PROVE  /\ Split(f) \in 1..Len(f) /\ f[Split(f)] = "=" /\ \A j \in 1..Split(f) - 1 : f[j] # "="
           /\ NameOf(f) \in Seq(Tokens) /\ Len(NameOf(f)) = Split(f) - 1
           /\ \A j \in 1..Split(f) - 1 : NameOf(f)[j] = f[j]
           /\ ValueIn(f) \in Seq(Tokens) /\ Len(ValueIn(f)) = Len(f) - Split(f)
           /\ \A j \in 1..Len(f) - Split(f) : ValueIn(f)[j] = f[Split(f) + j]
  <1> DEFINE N == Len(f)
             S == {i \in 1..N : f[i] = "="}
             At(i) == f[i] = "=" /\ \A j \in 1..i - 1 : f[j] # "="
             k == Split(f)
  <1>1. N \in Nat /\ DOMAIN f = 1..N
    OBVIOUS
  <1>2. S \subseteq Nat /\ S # {}
    BY <1>1 DEF IsField, ToSet
  <1>3. PICK n \in S : \A i \in S : n <= i
    <2> HIDE DEF S
    <2> QED
      BY <1>2, LeastNumber
  <1>4. n \in DOMAIN f /\ At(n)
    BY <1>1, <1>3
  <1>5. k \in DOMAIN f /\ At(k)
    <2>1. k = CHOOSE i \in DOMAIN f : At(i)
      BY DEF Split
    <2> HIDE DEF k, At
    <2> QED
      BY <1>4, <2>1
  <1>6. NameOf(f) = SubSeq(f, 1, k - 1) /\ ValueIn(f) = SubSeq(f, k + 1, N)
    BY DEF NameOf, ValueIn
  <1> HIDE DEF k
  <1>7. k \in 1..N /\ k \in Int
    BY <1>1, <1>5
  <1>8. /\ SubSeq(f, 1, k - 1) \in Seq(Tokens) /\ Len(SubSeq(f, 1, k - 1)) = k - 1
        /\ \A j \in 1..k - 1 : SubSeq(f, 1, k - 1)[j] = f[j]
    BY <1>7
  <1>9. /\ SubSeq(f, k + 1, N) \in Seq(Tokens) /\ Len(SubSeq(f, k + 1, N)) = N - k
        /\ \A j \in 1..N - k : SubSeq(f, k + 1, N)[j] = f[k + j]
    <2> DEFINE v == SubSeq(f, k + 1, N)
    <2>1. v \in Seq(Tokens) /\ Len(v) = N - k
      BY <1>7
    <2>2. \A j \in 1..N - k : v[j] = f[(k + 1) + j - 1] /\ (k + 1) + j - 1 = k + j
      BY <1>7
    <2> HIDE DEF v
    <2> QED
      BY <2>1, <2>2 DEF v
  <1> QED
    BY <1>5, <1>6, <1>7, <1>8, <1>9 DEF k

\* A field's name is a token and neither separates nor assigns.
LEMMA NamesAre ==
    /\ \A name \in Names : name \in Tokens /\ name # "=" /\ name # ";"
    /\ "=" \in Tokens /\ ";" \in Tokens
  <1>1. Names \subseteq Tokens /\ "=" \in Tokens
    BY TokenAssumption
  <1>2. \A name \in Names : name # "=" /\ name # ";"
    BY DEF Names
  <1>3. ";" \in Tokens
    BY Marks, CodeIs
  <1> QED
    BY <1>1, <1>2, <1>3

\* A field that is written is one, of that name and that value.
LEMMA FieldIs ==
    ASSUME NEW name \in Names, NEW value \in Seq(Tokens)
    PROVE  /\ Field(name, value) \in Seq(Tokens) /\ Len(Field(name, value)) = Len(value) + 2
           /\ \A i \in 1..Len(value) + 2 :
                 Field(name, value)[i] = IF i = 1 THEN name ELSE IF i = 2 THEN "=" ELSE value[i - 2]
           /\ IsField(Field(name, value))
           /\ NameOf(Field(name, value)) = <<name>> /\ ValueIn(Field(name, value)) = value
           /\ Gives(Field(name, value), name)
  <1> DEFINE f == Field(name, value)
             N == Len(value)
             eq == "="
  <1>1. name \in Tokens /\ eq \in Tokens /\ name # eq /\ N \in Nat
    <2>1. name \in Tokens /\ eq \in Tokens /\ name # eq
      BY NamesAre, Zenon
    <2>2. N \in Nat
      OBVIOUS
    <2> QED
      BY <2>1, <2>2
  <1>2. f = <<name, eq>> \o value
    BY DEF Field
  <1> HIDE DEF f, eq
  <1>3. f \in Seq(Tokens) /\ Len(f) = N + 2 /\ f[1] = name /\ f[2] = eq
    BY <1>1, <1>2
  <1>4. \A i \in 1..N : f[i + 2] = value[i]
    BY <1>1, <1>2
  <1>5. \A i \in 1..N + 2 : f[i] = IF i = 1 THEN name ELSE IF i = 2 THEN eq ELSE value[i - 2]
    <2> TAKE i \in 1..N + 2
    <2>1. i = 1 \/ i = 2 \/ (i # 1 /\ i # 2 /\ i - 2 \in 1..N /\ (i - 2) + 2 = i)
      BY <1>1
    <2> QED
      BY <1>3, <1>4, <2>1
  <1>6. IsField(f)
    <2>1. 2 \in DOMAIN f
      BY <1>1, <1>3
    <2> QED
      BY <1>3, <2>1 DEF IsField, ToSet, eq
  <1>7. Split(f) = 2
    <2>1. Split(f) \in 1..N + 2 /\ f[Split(f)] = eq /\ \A j \in 1..Split(f) - 1 : f[j] # eq
      BY <1>3, <1>6, SplitIs DEF eq
    <2>2. Split(f) # 1
      BY <1>1, <1>3, <2>1
    <2>3. ~ (Split(f) > 2)
      <3>1. Split(f) > 2 => 2 \in 1..Split(f) - 1
        BY <1>1, <2>1
      <3> QED
        BY <1>3, <2>1, <3>1
    <2> QED
      BY <1>1, <2>1, <2>2, <2>3
  <1>8. NameOf(f) \in Seq(Tokens) /\ Len(NameOf(f)) = 1 /\ NameOf(f)[1] = name
    <2>1. /\ NameOf(f) \in Seq(Tokens) /\ Len(NameOf(f)) = Split(f) - 1
          /\ \A j \in 1..Split(f) - 1 : NameOf(f)[j] = f[j]
      BY <1>3, <1>6, SplitIs
    <2>2. 1 \in 1..2 - 1
      OBVIOUS
    <2> QED
      BY <1>3, <1>7, <2>1, <2>2
  <1>9. NameOf(f) = <<name>>
    <2> DEFINE u == NameOf(f)
    <2> HIDE DEF u
    <2>1. u \in Seq(Tokens) /\ Len(u) = 1 /\ u[1] = name
      BY <1>8 DEF u
    <2>2. u = <<name>>
      BY <1>1, <2>1
    <2> QED
      BY <2>2 DEF u
  <1>10. ValueIn(f) = value
    <2> DEFINE u == ValueIn(f)
    <2>1. u \in Seq(Tokens) /\ Len(u) = Len(f) - Split(f) /\ \A j \in 1..Len(f) - Split(f) : u[j] = f[Split(f) + j]
      BY <1>3, <1>6, SplitIs
    <2> HIDE DEF u
    <2>2. Len(u) = N /\ \A j \in 1..N : u[j] = f[2 + j] /\ 2 + j = j + 2
      BY <1>1, <1>3, <1>7, <2>1
    <2>3. \A j \in 1..N : u[j] = value[j]
      BY <1>4, <2>2
    <2>4. u = value
      BY <2>1, <2>2, <2>3, SeqEqual
    <2> QED
      BY <2>4 DEF u
  <1> QED
    BY <1>3, <1>5, <1>6, <1>9, <1>10 DEF f, eq, Gives

\* A field gives the value of one name.
LEMMA OneName ==
    ASSUME NEW f, NEW name \in Names, Gives(f, name)
    PROVE  /\ IsField(f) /\ IsKnown(f) /\ NameOf(f)[1] = name
           /\ \A other \in Names : Gives(f, other) => other = name
  <1>1. IsField(f) /\ NameOf(f) = <<name>>
    BY DEF Gives
  <1>2. \A other \in Names : <<other>> = <<name>> => other = name
    OBVIOUS
  <1>3. NameOf(f)[1] = name
    BY <1>1
  <1> QED
    BY <1>1, <1>2, <1>3 DEF Gives, IsKnown

\* What a field of a name may have for a value.
Kind(name) ==
    CASE name = "v"       -> {"1"}
      [] name = "state"   -> States
      [] name = "agent"   -> {a \in Seq(Tokens) : AgentIdOf(a) = a}
      [] name = "seq"     -> 0..MaxSeq
      [] name = "visible" -> SUBSET Flags
      [] name = "exited"  -> {"0", "1"}
      [] name = "message" -> {m \in Seq(Bytes) : Len(m) <= MaxMessage /\ IsUtf8(m)}

\* What parse() takes for the value of each name.
LEMMA KindIs ==
    /\ Kind("v") = {"1"} /\ Kind("state") = States /\ Kind("seq") = 0..MaxSeq
    /\ Kind("agent") = {a \in Seq(Tokens) : AgentIdOf(a) = a}
    /\ Kind("visible") = SUBSET Flags /\ Kind("exited") = {"0", "1"}
    /\ Kind("message") = {m \in Seq(Bytes) : Len(m) <= MaxMessage /\ IsUtf8(m)}
  BY DEF Kind

\* How the value of each name is read.
LEMMA ValueOfIs ==
    ASSUME NEW value
    PROVE  /\ ValueOf("v", value) = OneOf(value, {"1"}) /\ ValueOf("state", value) = OneOf(value, States)
           /\ ValueOf("agent", value) = AgentIdOf(value) /\ ValueOf("seq", value) = SeqIn(value)
           /\ ValueOf("visible", value) = FlagsIn(value)
           /\ ValueOf("exited", value) = OneOf(value, {"0", "1"})
           /\ ValueOf("message", value) = MessageIn(value)
  BY DEF ValueOf

\* A value of a name is neither an error nor absent.
LEMMA KindIsPlain ==
    ASSUME NEW name \in Names, NEW x \in Kind(name)
    PROVE  x \in Values /\ x # Error /\ x # Nothing
  <1>1. MaxSeq \in Nat
    BY LimitAssumption
  <1>2. CASE name \in {"v", "state", "exited"}
    <2>1. x \in Tokens
      BY <1>2, KindIs, TokenAssumption
    <2> QED
      BY <2>1, ErrorIsNone DEF Values, Plain
  <1>3. CASE name = "agent"
    <2>1. x \in Seq(Tokens)
      BY <1>3, KindIs
    <2> QED
      BY <2>1, ErrorIsNone DEF Values, Plain
  <1>4. CASE name = "seq"
    <2>1. x \in Nat
      BY <1>1, <1>4, KindIs
    <2> QED
      BY <2>1, ErrorIsNone DEF Values, Plain
  <1>5. CASE name = "visible"
    <2>1. x \in SUBSET Flags
      BY <1>5, KindIs
    <2> QED
      BY <2>1, NoValueAssumption DEF Values
  <1>6. CASE name = "message"
    <2>1. x \in Seq(Bytes)
      BY <1>6, KindIs
    <2>2. \A byte \in Bytes : byte \in Nat
      BY DEF Bytes
    <2>3. x \in Seq(Nat)
      BY <2>1, <2>2
    <2> QED
      BY <2>1, <2>3, ErrorIsNone DEF Values, Plain
  <1> QED
    BY <1>2, <1>3, <1>4, <1>5, <1>6 DEF Names

\* A field is read as what its name asks for, or not at all.
LEMMA ValueOfKind ==
    ASSUME NEW name \in Names, NEW value \in Seq(Tokens),
           name = "message" => value \in Seq(DOMAIN Code), ValueOf(name, value) # Error
    PROVE  ValueOf(name, value) \in Kind(name)
  <1>1. ASSUME NEW words, OneOf(value, words) # Error
        PROVE  OneOf(value, words) \in words
    BY <1>1 DEF OneOf
  <1>2. CASE name = "v"
    BY <1>1, <1>2, KindIs, ValueOfIs
  <1>3. CASE name = "state"
    BY <1>1, <1>3, KindIs, ValueOfIs
  <1>4. CASE name = "exited"
    BY <1>1, <1>4, KindIs, ValueOfIs
  <1>5. CASE name = "agent"
    <2>1. AgentIdOf(value) # Error
      BY <1>5, ValueOfIs
    <2>2. AgentIdOf(value) = value
      BY <2>1, Zenon DEF AgentIdOf
    <2> QED
      BY <1>5, <2>2, KindIs, ValueOfIs
  <1>6. CASE name = "seq"
    <2>1. SeqIn(value) # Error
      BY <1>6, ValueOfIs
    <2>2. /\ \A i \in DOMAIN value : value[i] \in DOMAIN Code /\ Code[value[i]] \in 48..57
          /\ Number(value) <= MaxSeq /\ SeqIn(value) = Number(value)
      BY <2>1, Zenon DEF SeqIn
    <2>3. value \in Seq(DigitChars)
      <3>1. \A i \in 1..Len(value) : value[i] \in DigitChars
        BY <2>2 DEF DigitChars
      <3> QED
        BY <3>1
    <2>4. Number(value) \in Nat
      BY <2>3, NumberOfDigits
    <2>5. SeqIn(value) \in 0..MaxSeq
      BY <2>2, <2>4, LimitAssumption
    <2> QED
      BY <1>6, <2>5, KindIs, ValueOfIs
  <1>7. CASE name = "visible"
    <2>1. FlagsIn(value) # Error
      BY <1>7, ValueOfIs
    <2>2. FlagsIn(value) \in SUBSET Flags
      BY <2>1 DEF FlagsIn
    <2> QED
      BY <1>7, <2>2, KindIs, ValueOfIs
  <1>8. CASE name = "message"
    <2> DEFINE bytes == Unescaped(value)
    <2>1. MessageIn(value) # Error
      BY <1>8, ValueOfIs
    <2>2. bytes # Error /\ MessageIn(value) = bytes /\ ~ (Len(bytes) > MaxMessage) /\ IsUtf8(bytes)
      BY <2>1, Zenon DEF MessageIn
    <2>3. bytes \in Decoded
      BY <1>8, UnescapedIs
    <2> HIDE DEF bytes
    <2>4. bytes \in Seq(Bytes)
      BY <2>2, <2>3 DEF Decoded
    <2>5. Len(bytes) <= MaxMessage
      BY <2>2, <2>4, LimitAssumption
    <2>6. MessageIn(value) \in {m \in Seq(Bytes) : Len(m) <= MaxMessage /\ IsUtf8(m)}
      BY <2>2, <2>4, <2>5
    <2> QED
      BY <1>8, <2>6, KindIs, ValueOfIs
  <1> QED
    BY <1>2, <1>3, <1>4, <1>5, <1>6, <1>7, <1>8 DEF Names

-----------------------------------------------------------------------------
(* One field after another *)

Seen == {s \in [Names -> Values \cup {Nothing}] :
            \A name \in Names : s[name] = Nothing \/ s[name] \in Kind(name)}
Taking == Seen \cup {Error}
Nowhere == [name \in Names |-> Nothing]

\* A message is written in characters.
Readable == {f \in Seq(Tokens) : Gives(f, "message") => ValueIn(f) \in Seq(DOMAIN Code)}

\* The values seen so far are no error, and at first there are none.
LEMMA SeenIsNoError ==
    /\ \A s \in Seen : s # Error
    /\ Nowhere \in Seen
  <1>1. \A s \in Seen : s # Error
    BY NoValueAssumption, Zenon DEF Seen
  <1>2. Nowhere \in Seen
    BY DEF Seen, Nowhere
  <1> QED
    BY <1>1, <1>2

\* What parse() does with a field: refuse it, skip it or take its value once.
LEMMA TakeFieldIs ==
    ASSUME NEW seen \in Taking, NEW f \in Readable
    PROVE  /\ TakeField(seen, f) \in Taking
           /\ seen = Error \/ ~ IsField(f) => TakeField(seen, f) = Error
           /\ seen # Error /\ IsField(f) /\ ~ IsKnown(f) => TakeField(seen, f) = seen
           /\ \A name \in Names :
                 seen # Error /\ Gives(f, name) =>
                    TakeField(seen, f) =
                       IF seen[name] # Nothing \/ ValueOf(name, ValueIn(f)) = Error THEN Error
                       ELSE [seen EXCEPT ![name] = ValueOf(name, ValueIn(f))]
  <1>1. seen = Error \/ ~ IsField(f) => TakeField(seen, f) = Error
    BY Zenon DEF TakeField
  <1>2. seen # Error /\ IsField(f) /\ ~ IsKnown(f) => TakeField(seen, f) = seen
    BY Zenon DEF TakeField
  <1>3. ASSUME NEW name \in Names, seen # Error, Gives(f, name)
        PROVE  /\ TakeField(seen, f) =
                     IF seen[name] # Nothing \/ ValueOf(name, ValueIn(f)) = Error THEN Error
                     ELSE [seen EXCEPT ![name] = ValueOf(name, ValueIn(f))]
               /\ TakeField(seen, f) \in Taking
    <2> DEFINE x == ValueOf(name, ValueIn(f))
               next == [seen EXCEPT ![name] = x]
    <2>1. IsField(f) /\ IsKnown(f) /\ NameOf(f)[1] = name
      BY <1>3, OneName
    <2>2. TakeField(seen, f) = IF seen[name] # Nothing \/ x = Error THEN Error ELSE next
      BY <1>3, <2>1, Zenon DEF TakeField
    <2>3. seen \in Seen /\ f \in Seq(Tokens)
      BY <1>3 DEF Taking, Readable
    <2>4. ValueIn(f) \in Seq(Tokens) /\ (name = "message" => ValueIn(f) \in Seq(DOMAIN Code))
      BY <1>3, <2>1, <2>3, SplitIs DEF Readable
    <2>5. x # Error => x \in Kind(name) /\ x \in Values
      <3>1. x # Error => x \in Kind(name)
        BY <2>4, ValueOfKind
      <3> HIDE DEF x
      <3> QED
        BY <3>1, KindIsPlain
    <2> HIDE DEF x
    <2>6. x # Error => next \in Seen
      <3> SUFFICES ASSUME x # Error
                   PROVE  next \in Seen
        OBVIOUS
      <3>1. next \in [Names -> Values \cup {Nothing}]
        BY <2>3, <2>5 DEF Seen
      <3>2. \A n \in Names : next[n] = IF n = name THEN x ELSE seen[n]
        BY <2>3 DEF Seen
      <3>3. \A n \in Names : next[n] = Nothing \/ next[n] \in Kind(n)
        BY <2>3, <2>5, <3>2 DEF Seen
      <3> HIDE DEF next
      <3> QED
        BY <3>1, <3>3 DEF Seen
    <2> HIDE DEF next
    <2>7. TakeField(seen, f) \in Taking
      BY <2>2, <2>6 DEF Taking
    <2> QED
      BY <2>2, <2>7 DEF x, next
  <1>4. TakeField(seen, f) \in Taking
    <2>1. CASE seen # Error /\ IsKnown(f)
      <3>1. PICK name \in Names : Gives(f, name)
        BY <2>1 DEF IsKnown
      <3> QED
        BY <1>3, <2>1, <3>1
    <2>2. CASE ~ (seen # Error /\ IsKnown(f))
      <3>1. TakeField(seen, f) = Error \/ TakeField(seen, f) = seen
        BY <1>1, <1>2, <2>2
      <3> QED
        BY <3>1 DEF Taking
    <2> QED
      BY <2>1, <2>2
  <1> QED
    BY <1>1, <1>2, <1>3, <1>4

Takes(g, s) == g = [i \in 0..Len(s) |-> IF i = 0 THEN Nowhere ELSE TakeField(g[i - 1], s[i])]
OneField == [p \in Taking \X Readable |-> TakeField(p[1], p[2])]

\* Taking a field, as a step.
LEMMA OneFieldIs ==
    /\ Nowhere \in Taking /\ OneField \in [Taking \X Readable -> Taking]
    /\ \A seen \in Taking, f \in Readable : OneField[<<seen, f>>] = TakeField(seen, f)
  <1>1. Nowhere \in Taking
    BY SeenIsNoError DEF Taking
  <1>2. ASSUME NEW p \in Taking \X Readable
        PROVE  TakeField(p[1], p[2]) \in Taking
    BY TakeFieldIs
  <1> QED
    BY <1>1, <1>2 DEF OneField

\* parse() goes through the fields and takes them.
LEMMA TakenIsAfter ==
    ASSUME NEW s \in Seq(Readable)
    PROVE  Walk(s, Readable, Taking, Nowhere, OneField) /\ Taken(s) = After(s, Taking, Nowhere, OneField)
  <1> DEFINE N == Len(s)
             none == Nowhere
  <1>1. Walk(s, Readable, Taking, none, OneField)
    BY OneFieldIs, Zenon DEF Walk
  <1>2. \A seen \in Taking, f \in Readable : OneField[<<seen, f>>] = TakeField(seen, f)
    BY OneFieldIs, Zenon
  <1>3. N \in Nat /\ \A i \in 1..N : s[i] \in Readable
    OBVIOUS
  <1> HIDE DEF none
  <1>4. PICK g \in [0..N -> Taking] : Follows(g, s, none, OneField)
    BY <1>1, SomethingFollows DEF Walk
  <1>5. Takes(g, s)
    <2>1. ASSUME NEW i \in 1..N
          PROVE  g[i] = TakeField(g[i - 1], s[i])
      <3>1. i - 1 \in 0..N /\ s[i] \in Readable
        BY <1>3
      <3>2. g[i - 1] \in Taking /\ g[i] = OneField[<<g[i - 1], s[i]>>]
        BY <1>4, <3>1 DEF Follows
      <3> QED
        BY <1>2, <3>1, <3>2
    <2>2. g[0] = none
      BY <1>4 DEF Follows
    <2>3. \A i \in 0..N : g[i] = IF i = 0 THEN none ELSE TakeField(g[i - 1], s[i])
      BY <1>3, <2>1, <2>2
    <2>4. g = [i \in 0..N |-> g[i]]
      OBVIOUS
    <2>5. g = [i \in 0..N |-> IF i = 0 THEN none ELSE TakeField(g[i - 1], s[i])]
      BY <2>3, <2>4, Zenon
    <2> QED
      BY <2>5, Zenon DEF Takes, none
  <1> DEFINE h == CHOOSE x : Takes(x, s)
  <1>6. Takes(h, s)
    BY <1>5
  <1>7. Taken(s) = h[N]
    BY DEF Taken, Takes, Nowhere
  <1> HIDE DEF h
  <1>8. h[0] = none /\ \A i \in 1..N : h[i] = TakeField(h[i - 1], s[i])
    <2>1. \A i \in 0..N : h[i] = IF i = 0 THEN none ELSE TakeField(h[i - 1], s[i])
      BY <1>6, Zenon DEF Takes, none
    <2>2. 0 \in 0..N /\ \A i \in 1..N : i \in 0..N /\ i # 0
      BY <1>3
    <2> QED
      BY <2>1, <2>2, Zenon
  <1>9. MakesSteps(h, s, Taking, none, OneField)
    <2>1. ASSUME NEW i \in 1..N, h[i - 1] \in Taking
          PROVE  h[i] = OneField[<<h[i - 1], s[i]>>]
      BY <1>2, <1>3, <1>8, <2>1
    <2> QED
      BY <1>8, <2>1 DEF MakesSteps
  <1>10. h[Len(s)] = After(s, Taking, none, OneField) /\ \A i \in 0..Len(s) : h[i] \in Taking
    BY <1>1, <1>9, SameSteps
  <1> QED
    BY <1>1, <1>7, <1>10 DEF none

\* Taking one field more.
LEMMA TakenOneMore ==
    ASSUME NEW s \in Seq(Readable), NEW f \in Readable
    PROVE  Taken(s) \in Taking /\ Taken(Append(s, f)) = TakeField(Taken(s), f)
  <1> DEFINE t == Append(s, f)
             a == After(s, Taking, Nowhere, OneField)
  <1>1. t \in Seq(Readable)
    OBVIOUS
  <1>2. Taken(t) = After(t, Taking, Nowhere, OneField)
    <2> HIDE DEF t
    <2> QED
      BY <1>1, TakenIsAfter, Zenon
  <1>3. Taken(s) = a /\ Walk(s, Readable, Taking, Nowhere, OneField)
    BY TakenIsAfter, Zenon
  <1>4. a \in Taking /\ After(t, Taking, Nowhere, OneField) = OneField[<<a, f>>]
    BY <1>3, AfterOneMore
  <1>5. OneField[<<a, f>>] = TakeField(a, f)
    BY <1>4, OneFieldIs, Zenon
  <1> QED
    BY <1>2, <1>3, <1>4, <1>5

\* Before the first field nothing was seen.
LEMMA TakenNothing == Taken(<<>>) = Nowhere
  <1>1. <<>> \in Seq(Readable)
    OBVIOUS
  <1>2. Walk(<<>>, Readable, Taking, Nowhere, OneField) /\ Taken(<<>>) = After(<<>>, Taking, Nowhere, OneField)
    BY <1>1, TakenIsAfter, Zenon
  <1> QED
    BY <1>2, AfterNothing, Zenon

-----------------------------------------------------------------------------
(* What the fields say, whatever their order *)

\* Each field is one, no name is given twice, and seen has what is given.
Reads(fs, seen) ==
    /\ seen \in Seen
    /\ \A i \in DOMAIN fs : IsField(fs[i])
    /\ \A i, j \in DOMAIN fs, name \in Names : Gives(fs[i], name) /\ Gives(fs[j], name) => i = j
    /\ \A i \in DOMAIN fs, name \in Names :
          Gives(fs[i], name) => seen[name] \in Kind(name) /\ seen[name] = ValueOf(name, ValueIn(fs[i]))
    /\ \A name \in Names : seen[name] # Nothing => \E i \in DOMAIN fs : Gives(fs[i], name)

\* No fields read as no values.
LEMMA ReadsNothing ==
    /\ Reads(<<>>, Nowhere)
    /\ \A seen : Reads(<<>>, seen) => seen = Nowhere
  <1>1. Reads(<<>>, Nowhere)
    BY SeenIsNoError DEF Reads, Nowhere
  <1>2. ASSUME NEW seen, Reads(<<>>, seen)
        PROVE  seen = Nowhere
    <2>1. seen \in [Names -> Values \cup {Nothing}] /\ \A name \in Names : seen[name] = Nothing
      BY <1>2 DEF Reads, Seen
    <2> QED
      BY <2>1 DEF Nowhere
  <1> QED
    BY <1>1, <1>2

\* A field behind others that parse() does not refuse is read.
LEMMA ReadsOneMore ==
    ASSUME NEW fs \in Seq(Readable), NEW f \in Readable, NEW seen, Reads(fs, seen),
           TakeField(seen, f) # Error
    PROVE  Reads(Append(fs, f), TakeField(seen, f))
  <1> DEFINE t == Append(fs, f)
             N == Len(fs)
             next == TakeField(seen, f)
  <1>1. /\ N \in Nat /\ DOMAIN fs = 1..N /\ DOMAIN t = 1..N + 1 /\ t[N + 1] = f
        /\ \A i \in 1..N : t[i] = fs[i]
    OBVIOUS
  <1>2. seen \in Seen /\ seen \in Taking /\ seen # Error /\ f \in Seq(Tokens)
    BY SeenIsNoError DEF Reads, Taking, Readable
  <1>3. IsField(f)
    BY <1>2, TakeFieldIs
  <1> HIDE DEF t, N
  <1>4. \A i \in 1..N + 1 : i \in 1..N \/ i = N + 1
    BY <1>1
  <1>5. \A i \in 1..N : i \in 1..N + 1 /\ i # N + 1
    BY <1>1
  <1>6. N + 1 \in 1..N + 1
    BY <1>1
  <1>7. CASE ~ IsKnown(f)
    <2>1. next = seen
      BY <1>2, <1>3, <1>7, TakeFieldIs
    <2>2. \A name \in Names : ~ Gives(f, name)
      BY <1>7 DEF IsKnown
    <2>3. \A i \in 1..N + 1, name \in Names : Gives(t[i], name) => i \in 1..N /\ Gives(fs[i], name)
      BY <1>1, <1>4, <2>2
    <2>4. \A i \in 1..N + 1 : IsField(t[i])
      BY <1>1, <1>3, <1>4 DEF Reads
    <2>5. \A i, j \in 1..N + 1, name \in Names : Gives(t[i], name) /\ Gives(t[j], name) => i = j
      BY <1>1, <2>3 DEF Reads
    <2>6. \A i \in 1..N + 1, name \in Names :
             Gives(t[i], name) => seen[name] \in Kind(name) /\ seen[name] = ValueOf(name, ValueIn(t[i]))
      BY <1>1, <2>3 DEF Reads
    <2>7. \A name \in Names : seen[name] # Nothing => \E i \in 1..N + 1 : Gives(t[i], name)
      BY <1>1, <1>5 DEF Reads
    <2>8. Reads(t, seen)
      BY <1>1, <1>2, <2>4, <2>5, <2>6, <2>7 DEF Reads
    <2> QED
      BY <2>1, <2>8 DEF t
  <1>8. CASE IsKnown(f)
    <2>1. PICK given \in Names : Gives(f, given)
      BY <1>8 DEF IsKnown
    <2> DEFINE x == ValueOf(given, ValueIn(f))
    <2>2. next = IF seen[given] # Nothing \/ x = Error THEN Error ELSE [seen EXCEPT ![given] = x]
      BY <1>2, <2>1, TakeFieldIs
    <2>3. seen[given] = Nothing /\ x # Error /\ next = [seen EXCEPT ![given] = x]
      BY <2>2
    <2>4. \A name \in Names : Gives(f, name) => name = given
      BY <2>1, OneName
    <2>5. x \in Kind(given)
      <3>1. ValueIn(f) \in Seq(Tokens) /\ (given = "message" => ValueIn(f) \in Seq(DOMAIN Code))
        BY <1>2, <1>3, <2>1, SplitIs DEF Readable
      <3> QED
        BY <2>3, <3>1, ValueOfKind
    <2>6. next \in Seen
      <3>1. next \in Taking
        BY <1>2, TakeFieldIs
      <3> QED
        BY <3>1 DEF Taking
    <2>7. \A name \in Names : next[name] = IF name = given THEN x ELSE seen[name]
      BY <1>2, <2>3 DEF Seen
    <2> HIDE DEF x, next
    <2>8. \A i \in 1..N : ~ Gives(fs[i], given)
      <3>1. Nothing \notin Kind(given)
        BY KindIsPlain
      <3> QED
        BY <1>1, <2>3, <3>1 DEF Reads
    <2>9. \A i \in 1..N + 1, name \in Names :
             Gives(t[i], name) => IF name = given THEN i = N + 1 ELSE i \in 1..N /\ Gives(fs[i], name)
      BY <1>1, <1>4, <2>4, <2>8
    <2>10. \A i \in 1..N + 1 : IsField(t[i])
      BY <1>1, <1>3, <1>4 DEF Reads
    <2>11. \A i, j \in 1..N + 1, name \in Names : Gives(t[i], name) /\ Gives(t[j], name) => i = j
      BY <1>1, <2>9 DEF Reads
    <2>12. ASSUME NEW i \in 1..N + 1, NEW name \in Names, Gives(t[i], name)
           PROVE  next[name] \in Kind(name) /\ next[name] = ValueOf(name, ValueIn(t[i]))
      <3>1. CASE name = given
        <4>1. t[i] = f
          BY <1>1, <2>9, <2>12, <3>1
        <4> QED
          BY <2>5, <2>7, <3>1, <4>1 DEF x
      <3>2. CASE name # given
        <4>1. i \in 1..N /\ Gives(fs[i], name) /\ t[i] = fs[i] /\ next[name] = seen[name]
          BY <1>1, <2>7, <2>9, <2>12, <3>2
        <4> QED
          BY <1>1, <4>1 DEF Reads
      <3> QED
        BY <3>1, <3>2
    <2>13. ASSUME NEW name \in Names, next[name] # Nothing
           PROVE  \E i \in 1..N + 1 : Gives(t[i], name)
      <3>1. CASE name = given
        BY <1>1, <1>6, <2>1, <3>1
      <3>2. CASE name # given
        BY <1>1, <1>5, <2>7, <2>13, <3>2 DEF Reads
      <3> QED
        BY <3>1, <3>2
    <2>14. Reads(t, next)
      BY <1>1, <2>6, <2>10, <2>11, <2>12, <2>13 DEF Reads
    <2> QED
      BY <2>14 DEF t, next
  <1> QED
    BY <1>7, <1>8

\* What reads with a field at the end reads without it.
LEMMA ReadsOneLess ==
    ASSUME NEW fs \in Seq(Readable), NEW f \in Readable, NEW seen, Reads(Append(fs, f), seen)
    PROVE  \E s \in Seen : Reads(fs, s) /\ TakeField(s, f) = seen
  <1> DEFINE t == Append(fs, f)
             N == Len(fs)
  <1>1. /\ N \in Nat /\ DOMAIN fs = 1..N /\ DOMAIN t = 1..N + 1 /\ t[N + 1] = f
        /\ \A i \in 1..N : t[i] = fs[i]
    OBVIOUS
  <1>0. Reads(t, seen)
    OBVIOUS
  <1> HIDE DEF t, N
  <1>2. \A i \in 1..N + 1 : i \in 1..N \/ i = N + 1
    BY <1>1
  <1>3. \A i \in 1..N : i \in 1..N + 1 /\ i # N + 1
    BY <1>1
  <1>4. N + 1 \in 1..N + 1
    BY <1>1
  <1>5. seen \in Seen /\ IsField(f)
    BY <1>0, <1>1, <1>4 DEF Reads
  <1>6. CASE ~ IsKnown(f)
    <2>1. \A name \in Names : ~ Gives(f, name)
      BY <1>6 DEF IsKnown
    <2>2. \A i \in 1..N : IsField(fs[i])
      BY <1>0, <1>1, <1>3 DEF Reads
    <2>3. \A i, j \in 1..N, name \in Names : Gives(fs[i], name) /\ Gives(fs[j], name) => i = j
      BY <1>0, <1>1, <1>3 DEF Reads
    <2>4. \A i \in 1..N, name \in Names :
             Gives(fs[i], name) => seen[name] \in Kind(name) /\ seen[name] = ValueOf(name, ValueIn(fs[i]))
      BY <1>0, <1>1, <1>3 DEF Reads
    <2>5. ASSUME NEW name \in Names, seen[name] # Nothing
          PROVE  \E i \in 1..N : Gives(fs[i], name)
      <3>1. PICK i \in 1..N + 1 : Gives(t[i], name)
        BY <1>0, <1>1, <2>5 DEF Reads
      <3>2. i \in 1..N
        BY <1>1, <1>2, <2>1, <3>1
      <3> QED
        BY <1>1, <3>1, <3>2
    <2>6. Reads(fs, seen)
      BY <1>1, <1>5, <2>2, <2>3, <2>4, <2>5 DEF Reads
    <2>7. TakeField(seen, f) = seen
      BY <1>5, <1>6, SeenIsNoError, TakeFieldIs DEF Taking
    <2> QED
      BY <1>5, <2>6, <2>7
  <1>7. CASE IsKnown(f)
    <2>1. PICK given \in Names : Gives(f, given)
      BY <1>7 DEF IsKnown
    <2> DEFINE s == [seen EXCEPT ![given] = Nothing]
               x == ValueOf(given, ValueIn(f))
    <2>2. seen[given] \in Kind(given) /\ seen[given] = x
      BY <1>0, <1>1, <1>4, <2>1 DEF Reads
    <2>3. \A name \in Names : Gives(f, name) => name = given
      BY <2>1, OneName
    <2>4. seen \in [Names -> Values \cup {Nothing}]
      BY <1>5 DEF Seen
    <2>5. s \in [Names -> Values \cup {Nothing}] /\ \A name \in Names : s[name] = IF name = given THEN Nothing ELSE seen[name]
      BY <2>4
    <2>6. [s EXCEPT ![given] = x] = seen
      BY <2>2, <2>4
    <2> HIDE DEF s, x
    <2>7. s \in Seen
      BY <1>5, <2>5 DEF Seen
    <2>8. \A i \in 1..N : ~ Gives(fs[i], given)
      <3>1. \A i \in 1..N + 1 : Gives(t[i], given) => i = N + 1
        BY <1>0, <1>1, <1>4, <2>1 DEF Reads
      <3> QED
        BY <1>1, <1>3, <3>1
    <2>9. \A i \in 1..N : IsField(fs[i])
      BY <1>0, <1>1, <1>3 DEF Reads
    <2>10. \A i, j \in 1..N, name \in Names : Gives(fs[i], name) /\ Gives(fs[j], name) => i = j
      BY <1>0, <1>1, <1>3 DEF Reads
    <2>11. ASSUME NEW i \in 1..N, NEW name \in Names, Gives(fs[i], name)
           PROVE  s[name] \in Kind(name) /\ s[name] = ValueOf(name, ValueIn(fs[i]))
      <3>1. name # given /\ s[name] = seen[name] /\ i \in 1..N + 1 /\ t[i] = fs[i]
        BY <1>1, <1>3, <2>5, <2>8, <2>11
      <3> QED
        BY <1>0, <1>1, <2>11, <3>1 DEF Reads
    <2>12. ASSUME NEW name \in Names, s[name] # Nothing
           PROVE  \E i \in 1..N : Gives(fs[i], name)
      <3>1. name # given /\ seen[name] # Nothing
        BY <2>5, <2>12
      <3>2. PICK i \in 1..N + 1 : Gives(t[i], name)
        BY <1>0, <1>1, <3>1 DEF Reads
      <3>3. i \in 1..N
        BY <1>1, <1>2, <2>3, <3>1, <3>2
      <3> QED
        BY <1>1, <3>2, <3>3
    <2>13. Reads(fs, s)
      BY <1>1, <2>7, <2>9, <2>10, <2>11, <2>12 DEF Reads
    <2>14. TakeField(s, f) = seen
      <3>1. TakeField(s, f) = IF s[given] # Nothing \/ x = Error THEN Error ELSE [s EXCEPT ![given] = x]
        BY <2>1, <2>7, SeenIsNoError, TakeFieldIs DEF Taking, x
      <3>2. s[given] = Nothing /\ x # Error
        BY <2>2, <2>5, KindIsPlain
      <3> QED
        BY <2>6, <3>1, <3>2
    <2> QED
      BY <2>7, <2>13, <2>14
  <1> QED
    BY <1>6, <1>7

\* The loop over the fields finds what they say, and fails if they do not agree.
LEMMA TakenReads ==
    ASSUME NEW fs \in Seq(Readable)
    PROVE  /\ Taken(fs) \in Taking
           /\ Taken(fs) # Error => Reads(fs, Taken(fs))
           /\ \A seen : Reads(fs, seen) => Taken(fs) = seen
  <1> DEFINE T == {s \in Seq(Readable) :
                      /\ Taken(s) # Error => Reads(s, Taken(s))
                      /\ \A seen \in Seen : Reads(s, seen) => Taken(s) = seen}
  <1>1. <<>> \in T
    BY TakenNothing, ReadsNothing
  <1>2. ASSUME NEW s \in Seq(Readable), NEW f \in Readable, s \in T
        PROVE  Append(s, f) \in T
    <2>1. Taken(s) \in Taking /\ Taken(Append(s, f)) = TakeField(Taken(s), f) /\ Append(s, f) \in Seq(Readable)
      BY TakenOneMore
    <2>2. ASSUME Taken(Append(s, f)) # Error
          PROVE  Reads(Append(s, f), Taken(Append(s, f)))
      <3>1. Taken(s) # Error
        BY <2>1, <2>2, TakeFieldIs
      <3>2. Reads(s, Taken(s))
        BY <1>2, <3>1
      <3>3. Reads(Append(s, f), TakeField(Taken(s), f))
        BY <2>1, <2>2, <3>2, ReadsOneMore
      <3> QED
        BY <2>1, <3>3
    <2>3. ASSUME NEW seen \in Seen, Reads(Append(s, f), seen)
          PROVE  Taken(Append(s, f)) = seen
      <3>1. PICK r \in Seen : Reads(s, r) /\ TakeField(r, f) = seen
        BY <2>3, ReadsOneLess
      <3>2. Taken(s) = r
        BY <1>2, <3>1
      <3> QED
        BY <2>1, <3>1, <3>2
    <2> QED
      BY <2>1, <2>2, <2>3
  <1>3. \A s \in Seq(Readable) : s \in T
    <2> HIDE DEF T
    <2> QED
      BY <1>1, <1>2, AllSequences, Zenon
  <1>4. Taken(fs) \in Taking
    <2>1. fs = <<>> \/ \E p \in Seq(Readable), f \in Readable : fs = Append(p, f)
      <3> SUFFICES ASSUME fs # <<>>
                   PROVE  \E p \in Seq(Readable), f \in Readable : fs = Append(p, f)
        OBVIOUS
      <3> DEFINE N == Len(fs)
                 p == SubSeq(fs, 1, N - 1)
      <3>1. N \in Nat /\ N >= 1 /\ fs[N] \in Readable /\ p \in Seq(Readable) /\ fs = Append(p, fs[N])
        OBVIOUS
      <3> QED
        BY <3>1
    <2> QED
      BY <2>1, TakenNothing, TakenOneMore, TakeFieldIs, OneFieldIs
  <1>5. \A seen : Reads(fs, seen) => seen \in Seen
    BY DEF Reads
  <1> QED
    BY <1>3, <1>4, <1>5

-----------------------------------------------------------------------------
(* The frame *)

\* strip_prefix() with one token or with two.
LEMMA PrefixIs ==
    ASSUME NEW S, NEW a \in S, NEW b \in S, NEW t \in Seq(S)
    PROVE  /\ IsPrefix(<<a, b>>, t) <=> Len(t) >= 2 /\ t[1] = a /\ t[2] = b
           /\ IsPrefix(<<a>>, t) <=> Len(t) >= 1 /\ t[1] = a
  <1>1. ASSUME Len(t) >= 2
        PROVE  SubSeq(<<a, b>>, 1, 2) = SubSeq(t, 1, 2) <=> t[1] = a /\ t[2] = b
    <2> DEFINE u == SubSeq(t, 1, 2)
    <2>1. u \in Seq(S) /\ Len(u) = 2 /\ u[1] = t[1] /\ u[2] = t[2]
      BY <1>1
    <2>2. SubSeq(<<a, b>>, 1, 2) = <<a, b>>
      <3> DEFINE w == <<a, b>>
      <3>1. w \in Seq(S) /\ Len(w) = 2
        OBVIOUS
      <3> HIDE DEF w
      <3>2. SubSeq(w, 1, 2) = w
        BY <3>1
      <3> QED
        BY <3>2 DEF w
    <2> HIDE DEF u
    <2>3. u = <<a, b>> <=> u[1] = a /\ u[2] = b
      BY <2>1
    <2> QED
      BY <2>1, <2>2, <2>3 DEF u
  <1>2. ASSUME Len(t) >= 1
        PROVE  SubSeq(<<a>>, 1, 1) = SubSeq(t, 1, 1) <=> t[1] = a
    <2> DEFINE u == SubSeq(t, 1, 1)
    <2>1. u \in Seq(S) /\ Len(u) = 1 /\ u[1] = t[1]
      BY <1>2
    <2>2. SubSeq(<<a>>, 1, 1) = <<a>>
      <3> DEFINE w == <<a>>
      <3>1. w \in Seq(S) /\ Len(w) = 1
        OBVIOUS
      <3> HIDE DEF w
      <3>2. SubSeq(w, 1, 1) = w
        BY <3>1
      <3> QED
        BY <3>2 DEF w
    <2> HIDE DEF u
    <2>3. u = <<a>> <=> u[1] = a
      BY <2>1
    <2> QED
      BY <2>1, <2>2, <2>3 DEF u
  <1>3. Len(<<a, b>>) = 2 /\ Len(<<a>>) = 1 /\ Len(t) \in Nat
    OBVIOUS
  <1>4. IsPrefix(<<a, b>>, t) <=> 2 <= Len(t) /\ SubSeq(<<a, b>>, 1, 2) = SubSeq(t, 1, 2)
    BY <1>3, Zenon DEF IsPrefix
  <1>5. IsPrefix(<<a>>, t) <=> 1 <= Len(t) /\ SubSeq(<<a>>, 1, 1) = SubSeq(t, 1, 1)
    BY <1>3, Zenon DEF IsPrefix
  <1> QED
    BY <1>1, <1>2, <1>3, <1>4, <1>5

\* strip_suffix() with one token or with two.
LEMMA SuffixIs ==
    ASSUME NEW S, NEW a \in S, NEW b \in S, NEW t \in Seq(S)
    PROVE  /\ IsSuffix(<<a, b>>, t) <=> Len(t) >= 2 /\ t[Len(t) - 1] = a /\ t[Len(t)] = b
           /\ IsSuffix(<<b>>, t) <=> Len(t) >= 1 /\ t[Len(t)] = b
  <1> DEFINE N == Len(t)
             r == Reverse(t)
  <1>1. r \in Seq(S) /\ Len(r) = N /\ N \in Nat /\ \A i \in 1..N : r[i] = t[(N - i) + 1]
    <2> DEFINE F(i) == t[(N - i) + 1]
    <2>1. N \in Nat /\ \A i \in 1..N : F(i) \in S
      <3>1. \A i \in 1..N : (N - i) + 1 \in 1..N
        OBVIOUS
      <3> QED
        BY <3>1
    <2>2. r = [i \in 1..N |-> F(i)]
      BY DEF Reverse
    <2> HIDE DEF F, r, N
    <2>3. r \in Seq(S) /\ Len(r) = N /\ \A i \in 1..N : r[i] = F(i)
      BY <2>1, <2>2
    <2> QED
      BY <2>1, <2>3 DEF F
  <1>2. Reverse(<<a, b>>) = <<b, a>> /\ Reverse(<<b>>) = <<b>>
    <2>1. Reverse(<<a, b>>) = [i \in 1..2 |-> <<a, b>>[(2 - i) + 1]]
      BY DEF Reverse
    <2>2. Reverse(<<b>>) = [i \in 1..1 |-> <<b>>[(1 - i) + 1]]
      BY DEF Reverse
    <2>3. [i \in 1..2 |-> <<a, b>>[(2 - i) + 1]] = <<b, a>>
      OBVIOUS
    <2>4. [i \in 1..1 |-> <<b>>[(1 - i) + 1]] = <<b>>
      OBVIOUS
    <2> QED
      BY <2>1, <2>2, <2>3, <2>4, Zenon
  <1> HIDE DEF r, N
  <1>3. IsPrefix(<<b, a>>, r) <=> Len(r) >= 2 /\ r[1] = b /\ r[2] = a
    <2>1. r \in Seq(S)
      BY <1>1
    <2> QED
      BY <2>1, PrefixIs, Zenon
  <1>4. IsPrefix(<<b>>, r) <=> Len(r) >= 1 /\ r[1] = b
    <2>1. r \in Seq(S)
      BY <1>1
    <2> QED
      BY <2>1, PrefixIs, Zenon
  <1>5. N >= 1 => r[1] = t[N]
    <2>1. N >= 1 => 1 \in 1..N /\ (N - 1) + 1 = N
      BY <1>1
    <2> QED
      BY <1>1, <2>1
  <1>6. N >= 2 => r[2] = t[N - 1]
    <2>1. N >= 2 => 2 \in 1..N /\ (N - 2) + 1 = N - 1
      BY <1>1
    <2> QED
      BY <1>1, <2>1
  <1>7. /\ IsSuffix(<<a, b>>, t) <=> IsPrefix(<<b, a>>, r)
        /\ IsSuffix(<<b>>, t) <=> IsPrefix(<<b>>, r)
    BY <1>2, Zenon DEF IsSuffix, r
  <1>8. N >= 2 => N >= 1
    BY <1>1
  <1> QED
    BY <1>1, <1>3, <1>4, <1>5, <1>6, <1>7, <1>8 DEF N

\* The tokens of the frames, the separator and the code.
LEMMA WordsAre ==
    /\ "ESC" \in Tokens /\ "]" \in Tokens /\ "\\" \in Tokens /\ "BEL" \in Tokens
    /\ ";" \in Tokens /\ "7877" \in Tokens
  BY TokenAssumption, Marks, CodeIs

\* What closes a frame, by its last tokens.
LEMMA ClosedIs ==
    ASSUME NEW t \in Seq(Tokens)
    PROVE  /\ IsSuffix(<<"ESC", "\\">>, t) <=> Len(t) >= 2 /\ t[Len(t) - 1] = "ESC" /\ t[Len(t)] = "\\"
           /\ IsSuffix(<<"BEL">>, t) <=> Len(t) >= 1 /\ t[Len(t)] = "BEL"
           /\ IsPrefix(<<"ESC", "]">>, t) <=> Len(t) >= 2 /\ t[1] = "ESC" /\ t[2] = "]"
  <1> DEFINE esc == "ESC"
             st == "\\"
             bel == "BEL"
             osc == "]"
  <1>1. esc \in Tokens /\ st \in Tokens /\ bel \in Tokens /\ osc \in Tokens
    BY WordsAre
  <1> HIDE DEF esc, st, bel, osc
  <1>2. IsSuffix(<<esc, st>>, t) <=> Len(t) >= 2 /\ t[Len(t) - 1] = esc /\ t[Len(t)] = st
    BY <1>1, SuffixIs
  <1>3. IsSuffix(<<bel>>, t) <=> Len(t) >= 1 /\ t[Len(t)] = bel
    BY <1>1, SuffixIs
  <1>4. IsPrefix(<<esc, osc>>, t) <=> Len(t) >= 2 /\ t[1] = esc /\ t[2] = osc
    BY <1>1, PrefixIs
  <1> QED
    BY <1>2, <1>3, <1>4, Zenon DEF esc, st, bel, osc

\* Joining two sequences, place by place.
LEMMA ConcatIs ==
    ASSUME NEW S, NEW a, NEW b, a \in Seq(S), b \in Seq(S)
    PROVE  /\ a \o b \in Seq(S) /\ Len(a \o b) = Len(a) + Len(b)
           /\ \A i \in 1..Len(a) : (a \o b)[i] = a[i]
           /\ \A i \in 1..Len(b) : (a \o b)[Len(a) + i] = b[i]
  OBVIOUS

\* A sequence joined from two can be cut into them.
LEMMA CutIs ==
    ASSUME NEW S, NEW a \in Seq(S), NEW b \in Seq(S)
    PROVE  /\ SubSeq(a \o b, 1, Len(a \o b) - Len(b)) = a
           /\ SubSeq(a \o b, Len(a) + 1, Len(a \o b)) = b
  <1> DEFINE t == a \o b
             M == Len(a)
             N == Len(b)
  <1>1. M \in Nat /\ N \in Nat /\ t \in Seq(S) /\ Len(t) = M + N
    OBVIOUS
  <1>2. \A i \in 1..M : t[i] = a[i]
    OBVIOUS
  <1>3. \A i \in 1..N : t[M + i] = b[i]
    OBVIOUS
  <1> HIDE DEF t
  <1>4. SubSeq(t, 1, Len(t) - N) = a
    <2> DEFINE u == SubSeq(t, 1, M)
    <2>1. u \in Seq(S) /\ Len(u) = M /\ \A i \in 1..M : u[i] = t[i]
      BY <1>1
    <2> HIDE DEF u
    <2>2. u = a
      BY <1>2, <2>1, SeqEqual
    <2>3. Len(t) - N = M
      BY <1>1
    <2> QED
      BY <2>2, <2>3 DEF u
  <1>5. SubSeq(t, M + 1, Len(t)) = b
    <2> DEFINE u == SubSeq(t, M + 1, M + N)
    <2>1. u \in Seq(S) /\ Len(u) = N
      BY <1>1
    <2>2. \A i \in 1..N : u[i] = t[(M + 1) + i - 1] /\ (M + 1) + i - 1 = M + i
      BY <1>1
    <2> HIDE DEF u
    <2>3. u = b
      BY <1>3, <2>1, <2>2, SeqEqual
    <2> QED
      BY <1>1, <2>3 DEF u
  <1> QED
    BY <1>4, <1>5 DEF t

FrameType == [open : {<<>>, <<"ESC", "]">>}, close : {<<>>, <<"ESC", "\\">>, <<"BEL">>}]

\* What a frame opens and closes with, and when it is whole.
LEMMA FrameIs ==
    ASSUME NEW ends \in FrameType
    PROVE  /\ ends.open \in Seq(Tokens) /\ ends.close \in Seq(Tokens)
           /\ ends.open = <<>> \/ ends.open = <<"ESC", "]">>
           /\ ends.close = <<>> \/ ends.close = <<"ESC", "\\">> \/ ends.close = <<"BEL">>
           /\ ends = Bare <=> ends.open = <<>> /\ ends.close = <<>>
           /\ ends \in Proper <=> (ends.open = <<>> <=> ends.close = <<>>)
  <1>1. /\ ends.open \in {<<>>, <<"ESC", "]">>} /\ ends.close \in {<<>>, <<"ESC", "\\">>, <<"BEL">>}
        /\ ends = [open |-> ends.open, close |-> ends.close]
    BY DEF FrameType
  <1>2. <<>> \in Seq(Tokens) /\ <<"ESC", "]">> \in Seq(Tokens) /\ <<"ESC", "\\">> \in Seq(Tokens) /\ <<"BEL">> \in Seq(Tokens)
    <2>1. <<>> \in Seq(Tokens) /\ \A a, b \in Tokens : <<a>> \in Seq(Tokens) /\ <<a, b>> \in Seq(Tokens)
      OBVIOUS
    <2> QED
      BY <2>1, WordsAre, Zenon
  <1>3. <<"ESC", "]">> # <<>> /\ <<"ESC", "\\">> # <<>> /\ <<"BEL">> # <<>>
    OBVIOUS
  <1>4. ends.open \in Seq(Tokens) /\ ends.close \in Seq(Tokens)
    BY <1>1, <1>2, Zenon
  <1>5. ends.open = <<>> \/ ends.open = <<"ESC", "]">>
    BY <1>1, Zenon
  <1>6. ends.close = <<>> \/ ends.close = <<"ESC", "\\">> \/ ends.close = <<"BEL">>
    BY <1>1, Zenon
  <1>7. ends = Bare <=> ends.open = <<>> /\ ends.close = <<>>
    <2>1. Bare.open = <<>> /\ Bare.close = <<>>
      BY Zenon DEF Bare
    <2> QED
      BY <1>1, <2>1, Zenon DEF Bare
  <1>8. ends = StFrame <=> ends.open = <<"ESC", "]">> /\ ends.close = <<"ESC", "\\">>
    <2>1. StFrame.open = <<"ESC", "]">> /\ StFrame.close = <<"ESC", "\\">>
      BY Zenon DEF StFrame
    <2> QED
      BY <1>1, <2>1, Zenon DEF StFrame
  <1>9. ends = BelFrame <=> ends.open = <<"ESC", "]">> /\ ends.close = <<"BEL">>
    <2>1. BelFrame.open = <<"ESC", "]">> /\ BelFrame.close = <<"BEL">>
      BY Zenon DEF BelFrame
    <2> QED
      BY <1>1, <2>1, Zenon DEF BelFrame
  <1>10. ends \in Proper <=> ends = Bare \/ ends = StFrame \/ ends = BelFrame
    BY Zenon DEF Proper
  <1> DEFINE o == ends.open
             c == ends.close
  <1>11. ends \in Proper <=> (o = <<>> <=> c = <<>>)
    <2> HIDE DEF o, c
    <2>1. ends = Bare <=> o = <<>> /\ c = <<>>
      BY <1>7 DEF o, c
    <2>2. ends = StFrame <=> o = <<"ESC", "]">> /\ c = <<"ESC", "\\">>
      BY <1>8 DEF o, c
    <2>3. ends = BelFrame <=> o = <<"ESC", "]">> /\ c = <<"BEL">>
      BY <1>9 DEF o, c
    <2>4. o = <<>> \/ o = <<"ESC", "]">>
      BY <1>5 DEF o
    <2>5. c = <<>> \/ c = <<"ESC", "\\">> \/ c = <<"BEL">>
      BY <1>6 DEF c
    <2> QED
      BY <1>3, <1>10, <2>1, <2>2, <2>3, <2>4, <2>5, Zenon
  <1> QED
    BY <1>4, <1>5, <1>6, <1>7, <1>11

\* Each proper frame is taken off, and no other.
LEMMA StripIs ==
    ASSUME NEW J \in Seq(Tokens), Len(J) >= 1, J[1] # "ESC", ~ IsClosed(J), NEW ends \in FrameType
    PROVE  StripFrame((ends.open \o J) \o ends.close) =
              IF ends \notin Proper \/ (ends = Bare /\ HasTerminator(J)) THEN Error ELSE J
  <1> DEFINE o == ends.open
             c == ends.close
             input == (o \o J) \o c
             rest == SubSeq(input, 3, Len(input))
             n == Len(J)
             m == Len(c)
             tail == J \o c
  <1>1. /\ o \in Seq(Tokens) /\ c \in Seq(Tokens)
        /\ o = <<>> \/ o = <<"ESC", "]">>
        /\ c = <<>> \/ c = <<"ESC", "\\">> \/ c = <<"BEL">>
        /\ ends = Bare <=> o = <<>> /\ c = <<>>
        /\ ends \in Proper <=> (o = <<>> <=> c = <<>>)
    BY FrameIs
  <1> HIDE DEF o, c
  <1>2. o \in Seq(Tokens) /\ c \in Seq(Tokens)
    BY <1>1
  <1>3. /\ tail \in Seq(Tokens) /\ Len(tail) = n + m /\ n \in Nat /\ m \in Nat /\ n >= 1
        /\ tail[1] = J[1] /\ tail[n] = J[n] /\ \A i \in 1..m : tail[n + i] = c[i]
    <2>1. tail \in Seq(Tokens) /\ Len(tail) = n + m /\ n \in Nat /\ m \in Nat
      BY <1>2
    <2>2. \A i \in 1..n : tail[i] = J[i]
      BY <1>2
    <2>3. \A i \in 1..m : tail[n + i] = c[i]
      BY <1>2
    <2>4. 1 \in 1..n /\ n \in 1..n
      BY <2>1
    <2> QED
      BY <2>1, <2>2, <2>3, <2>4
  <1>4. input = o \o tail
    BY <1>2
  <1>5. SubSeq(tail, 1, Len(tail) - m) = J
    BY <1>2, CutIs
  <1> HIDE DEF tail, input, m, n
  <1>6. ASSUME o = <<"ESC", "]">>
        PROVE  IsPrefix(<<"ESC", "]">>, input) /\ rest = tail
    <2> DEFINE p == <<"ESC", "]">>
    <2>1. p \in Seq(Tokens) /\ Len(p) = 2 /\ p[1] = "ESC" /\ p[2] = "]" /\ o = p
      <3>1. p \in Seq(Tokens)
        BY <1>2, <1>6
      <3> QED
        BY <1>6, <3>1
    <2> HIDE DEF p
    <2>2. input \in Seq(Tokens) /\ Len(input) >= 2 /\ input[1] = p[1] /\ input[2] = p[2]
      <3>1. tail \in Seq(Tokens) /\ Len(tail) \in Nat
        BY <1>3
      <3>0. p \in Seq(Tokens) /\ tail \in Seq(Tokens)
        BY <2>1, <3>1
      <3>2. (p \o tail) \in Seq(Tokens) /\ Len(p \o tail) = Len(p) + Len(tail)
            /\ \A i \in 1..Len(p) : (p \o tail)[i] = p[i]
        BY <3>0, ConcatIs
      <3>3. 1 \in 1..Len(p) /\ 2 \in 1..Len(p) /\ input = p \o tail
        BY <1>4, <2>1
      <3> QED
        BY <2>1, <3>1, <3>2, <3>3
    <2>3. IsPrefix(<<"ESC", "]">>, input)
      BY <2>1, <2>2, ClosedIs
    <2>4. SubSeq(p \o tail, Len(p) + 1, Len(p \o tail)) = tail
      BY <1>3, <2>1, CutIs
    <2>5. Len(p) + 1 = 3 /\ input = p \o tail
      BY <1>4, <2>1
    <2> QED
      BY <2>3, <2>4, <2>5
  <1>7. ASSUME o = <<>>
        PROVE  ~ IsPrefix(<<"ESC", "]">>, input) /\ input = tail
    <2>1. <<>> \o tail = tail
      BY <1>3
    <2>2. input = tail
      BY <1>4, <1>7, <2>1
    <2> QED
      BY <1>3, <2>2, ClosedIs
  <1> HIDE DEF rest
  <1>8. StripFrame(input) =
           IF IsPrefix(<<"ESC", "]">>, input)
           THEN IF IsSuffix(<<"ESC", "\\">>, rest) THEN SubSeq(rest, 1, Len(rest) - 2)
                ELSE IF IsSuffix(<<"BEL">>, rest) THEN SubSeq(rest, 1, Len(rest) - 1)
                ELSE Error
           ELSE IF HasTerminator(input) THEN Error ELSE input
    BY DEF StripFrame, rest
  <1>9. <<"ESC", "]">> # <<>> /\ <<"ESC", "\\">> # <<>> /\ <<"BEL">> # <<>>
    OBVIOUS
  <1>10. CASE c = <<>>
    <2>1. tail = J
      BY <1>10, <1>3 DEF tail
    <2>2. ~ IsSuffix(<<"ESC", "\\">>, tail) /\ ~ IsSuffix(<<"BEL">>, tail)
      BY <2>1, Zenon DEF IsClosed
    <2>3. CASE o = <<>>
      BY <1>1, <1>7, <1>8, <1>10, <2>1, <2>3, Zenon DEF input, o, c
    <2>4. CASE o = <<"ESC", "]">>
      BY <1>1, <1>6, <1>8, <1>9, <1>10, <2>2, <2>4, Zenon DEF input, o, c
    <2> QED
      BY <1>1, <2>3, <2>4
  <1>11. CASE c = <<"ESC", "\\">>
    <2>1. m = 2 /\ tail[n + 1] = "ESC" /\ tail[n + 2] = "\\"
      <3>1. m = 2 /\ c[1] = "ESC" /\ c[2] = "\\"
        BY <1>11 DEF m
      <3>2. 1 \in 1..m /\ 2 \in 1..m
        BY <3>1
      <3> QED
        BY <1>3, <3>1, <3>2
    <2>2. Len(tail) = n + 2 /\ n + 1 \in DOMAIN tail /\ n + 1 < Len(tail) /\ (n + 1) + 1 = n + 2
          /\ (n + 2) - 1 = n + 1
      BY <1>3, <2>1
    <2>3. IsSuffix(<<"ESC", "\\">>, tail)
      BY <1>3, <2>1, <2>2, ClosedIs
    <2>4. HasTerminator(tail)
      BY <2>1, <2>2 DEF HasTerminator
    <2>5. SubSeq(tail, 1, Len(tail) - 2) = J
      BY <1>5, <2>1
    <2>6. CASE o = <<>>
      BY <1>1, <1>7, <1>8, <1>9, <1>11, <2>4, <2>6, Zenon DEF input, o, c
    <2>7. CASE o = <<"ESC", "]">>
      BY <1>1, <1>6, <1>8, <1>9, <1>11, <2>3, <2>5, <2>7, Zenon DEF input, o, c
    <2> QED
      BY <1>1, <2>6, <2>7
  <1>12. CASE c = <<"BEL">>
    <2>1. m = 1 /\ tail[n + 1] = "BEL"
      <3>1. m = 1 /\ c[1] = "BEL"
        BY <1>12 DEF m
      <3>2. 1 \in 1..m
        BY <3>1
      <3> QED
        BY <1>3, <3>1, <3>2
    <2>2. Len(tail) = n + 1 /\ n + 1 \in DOMAIN tail
      BY <1>3, <2>1
    <2>3. IsSuffix(<<"BEL">>, tail) /\ ~ IsSuffix(<<"ESC", "\\">>, tail)
      BY <1>3, <2>1, <2>2, ClosedIs
    <2>4. HasTerminator(tail)
      BY <2>1, <2>2 DEF HasTerminator
    <2>5. SubSeq(tail, 1, Len(tail) - 1) = J
      BY <1>5, <2>1
    <2>6. CASE o = <<>>
      BY <1>1, <1>7, <1>8, <1>9, <1>12, <2>4, <2>6, Zenon DEF input, o, c
    <2>7. CASE o = <<"ESC", "]">>
      BY <1>1, <1>6, <1>8, <1>9, <1>12, <2>3, <2>5, <2>7, Zenon DEF input, o, c
    <2> QED
      BY <1>1, <2>6, <2>7
  <1> QED
    BY <1>1, <1>10, <1>11, <1>12

-----------------------------------------------------------------------------
(* Fields on the wire *)

Sound == {f \in Readable : ";" \notin ToSet(f) /\ ~ IsClosed(f)}
TheCode == <<"7877">>

\* The fields of a wire: the code comes first.
Fields == {fs \in Seq(Sound) : fs # <<>> /\ fs[1] = TheCode}

\* A sequence over a set is one over any set around it.
LEMMA SeqWider ==
    ASSUME NEW S, NEW T, \A x \in S : x \in T
    PROVE  \A s \in Seq(S) : s \in Seq(T)
  OBVIOUS

\* A sound field can be read and has no separator in it.
LEMMA SoundIs ==
    /\ \A f \in Sound : f \in Readable /\ f \in Seq(Tokens) /\ f \in Without(";")
    /\ \A fs \in Seq(Sound) : fs \in Seq(Seq(Tokens)) /\ fs \in Seq(Without(";")) /\ fs \in Seq(Readable)
  <1>1. \A f \in Sound : f \in Readable /\ f \in Seq(Tokens) /\ f \in Without(";")
    BY DEF Sound, Readable, Without
  <1>2. \A fs \in Seq(Sound) : fs \in Seq(Seq(Tokens))
    <2>1. \A f \in Sound : f \in Seq(Tokens)
      BY <1>1
    <2> QED
      BY <2>1, SeqWider
  <1>3. \A fs \in Seq(Sound) : fs \in Seq(Without(";"))
    <2> DEFINE W == Without(";")
    <2>1. \A f \in Sound : f \in W
      BY <1>1
    <2> HIDE DEF W
    <2>2. \A fs \in Seq(Sound) : fs \in Seq(W)
      BY <2>1, SeqWider
    <2> QED
      BY <2>2 DEF W
  <1>4. \A fs \in Seq(Sound) : fs \in Seq(Readable)
    <2>1. \A f \in Sound : f \in Readable
      BY <1>1
    <2> QED
      BY <2>1, SeqWider
  <1> QED
    BY <1>1, <1>2, <1>3, <1>4

\* A sequence of one token.
LEMMA OneToken1 ==
    ASSUME NEW c \in Tokens
    PROVE  <<c>> \in Seq(Tokens) /\ Len(<<c>>) = 1 /\ <<c>>[1] = c /\ ToSet(<<c>>) = {c}
  BY DEF ToSet

\* The code of the report is a sound field of one token.
LEMMA CodeIsSound ==
    TheCode \in Sound /\ TheCode \in Seq(Tokens) /\ Len(TheCode) = 1 /\ TheCode[1] = "7877"
  <1>1. TheCode \in Seq(Tokens) /\ Len(TheCode) = 1 /\ TheCode[1] = "7877" /\ ToSet(TheCode) = {"7877"}
    BY WordsAre, OneToken1, Zenon DEF TheCode
  <1>2. ~ IsField(TheCode)
    BY <1>1 DEF IsField
  <1>3. ~ IsClosed(TheCode)
    BY <1>1, ClosedIs DEF IsClosed
  <1>4. ";" \notin ToSet(TheCode)
    BY <1>1
  <1>5. TheCode \in Readable
    BY <1>1, <1>2 DEF Readable, Gives
  <1> QED
    BY <1>1, <1>3, <1>4, <1>5 DEF Sound

\* The ends of a sequence that is joined from two and a token between them.
LEMMA LastIs ==
    ASSUME NEW S, NEW u \in Seq(S), NEW c \in S, NEW x \in Seq(S), NEW t, t = (u \o <<c>>) \o x
    PROVE  /\ t \in Seq(S) /\ Len(t) = Len(u) + 1 + Len(x) /\ (Len(u) >= 1 => t[1] = u[1])
           /\ Len(x) = 0 => t[Len(t)] = c
           /\ Len(x) = 1 => t[Len(t) - 1] = c /\ t[Len(t)] = x[1]
           /\ Len(x) >= 2 => t[Len(t) - 1] = x[Len(x) - 1] /\ t[Len(t)] = x[Len(x)]
  <1> DEFINE w == u \o <<c>>
             M == Len(w)
             N == Len(x)
  <1>1. w \in Seq(S) /\ M \in Nat /\ M = Len(u) + 1 /\ Len(u) \in Nat /\ w[M] = c /\ (Len(u) >= 1 => w[1] = u[1])
    OBVIOUS
  <1> HIDE DEF w
  <1>2. t \in Seq(S) /\ Len(t) = M + N /\ N \in Nat
    BY <1>1 DEF w
  <1>3. \A i \in 1..M : t[i] = w[i]
    BY <1>1 DEF w
  <1>4. \A i \in 1..N : t[M + i] = x[i]
    BY <1>1 DEF w
  <1> HIDE DEF M, N
  <1>5. Len(u) >= 1 => t[1] = u[1]
    BY <1>1, <1>3
  <1>6. N = 0 => t[Len(t)] = c
    BY <1>1, <1>2, <1>3
  <1>7. N = 1 => t[Len(t) - 1] = c /\ t[Len(t)] = x[1]
    <2>1. N = 1 => (M + N) - 1 = M /\ M \in 1..M /\ M + N = M + 1 /\ 1 \in 1..N
      BY <1>1, <1>2
    <2> QED
      BY <1>1, <1>2, <1>3, <1>4, <2>1
  <1>8. N >= 2 => t[Len(t) - 1] = x[N - 1] /\ t[Len(t)] = x[N]
    <2>1. N >= 2 => (M + N) - 1 = M + (N - 1) /\ N - 1 \in 1..N /\ N \in 1..N
      BY <1>1, <1>2
    <2> QED
      BY <1>2, <1>4, <2>1
  <1> QED
    BY <1>1, <1>2, <1>5, <1>6, <1>7, <1>8 DEF N

\* After a separator, what is closed is closed by the last field.
LEMMA ClosedAfter ==
    ASSUME NEW u \in Seq(Tokens), NEW x \in Seq(Tokens)
    PROVE  IsClosed((u \o <<";">>) \o x) => IsClosed(x)
  <1> DEFINE semi == ";"
             esc == "ESC"
             st == "\\"
             bel == "BEL"
             t == (u \o <<semi>>) \o x
             N == Len(x)
             M == Len(t)
  <1>1. semi \in Tokens /\ semi # bel /\ semi # st /\ semi # esc
    BY WordsAre
  <1>2. \A s \in Seq(Tokens) :
           IsClosed(s) <=> (Len(s) >= 2 /\ s[Len(s) - 1] = esc /\ s[Len(s)] = st) \/ (Len(s) >= 1 /\ s[Len(s)] = bel)
    BY ClosedIs, Zenon DEF IsClosed
  <1> HIDE DEF semi, esc, st, bel
  <1>3. /\ t \in Seq(Tokens) /\ Len(t) = Len(u) + 1 + Len(x)
        /\ Len(x) = 0 => t[Len(t)] = semi
        /\ Len(x) = 1 => t[Len(t) - 1] = semi /\ t[Len(t)] = x[1]
        /\ Len(x) >= 2 => t[Len(t) - 1] = x[Len(x) - 1] /\ t[Len(t)] = x[Len(x)]
    BY <1>1, LastIs
  <1> HIDE DEF t
  <1>4. N \in Nat
    OBVIOUS
  <1>5. IsClosed(t) => (t[M - 1] = esc /\ t[M] = st) \/ t[M] = bel
    BY <1>2, <1>3
  <1>6. N >= 2 => ((x[N - 1] = esc /\ x[N] = st) \/ x[N] = bel => IsClosed(x))
    BY <1>2, <1>4
  <1>7. N = 1 => (x[1] = bel => IsClosed(x))
    BY <1>2, <1>4
  <1> HIDE DEF M, N
  <1>8. IsClosed(t) => IsClosed(x)
    <2>1. CASE N = 0
      BY <1>1, <1>3, <1>5, <2>1 DEF M, N
    <2>2. CASE N = 1
      BY <1>1, <1>3, <1>5, <1>7, <2>2 DEF M, N
    <2>3. CASE N >= 2
      BY <1>3, <1>5, <1>6, <2>3 DEF M, N
    <2> QED
      BY <1>4, <2>1, <2>2, <2>3
  <1> QED
    BY <1>8 DEF t, semi

\* A payload begins with the code, and does not close a frame.
LEMMA PayloadIs ==
    ASSUME NEW fs \in Fields
    PROVE  /\ Joined(fs, ";") \in Seq(Tokens) /\ Len(Joined(fs, ";")) >= 1
           /\ Joined(fs, ";")[1] = "7877" /\ ~ IsClosed(Joined(fs, ";"))
  <1> DEFINE J(p) == Joined(p, ";")
             Begins(p) == J(p) \in Seq(Tokens) /\ Len(J(p)) >= 1 /\ J(p)[1] = "7877" /\ ~ IsClosed(J(p))
             T == {p \in Seq(Sound) : p \in Fields => Begins(p)}
  <1>1. <<>> \in T
    BY DEF Fields
  <1>2. ASSUME NEW p \in Seq(Sound), NEW x \in Sound, p \in T
        PROVE  Append(p, x) \in T
    <2> DEFINE q == Append(p, x)
    <2>1. q \in Seq(Sound) /\ p \in Seq(Seq(Tokens)) /\ x \in Seq(Tokens) /\ ~ IsClosed(x) /\ ";" \in Tokens
      <3>1. q \in Seq(Sound)
        OBVIOUS
      <3>2. p \in Seq(Seq(Tokens)) /\ x \in Seq(Tokens)
        BY SoundIs
      <3> HIDE DEF q
      <3> QED
        BY <3>1, <3>2, WordsAre, Zenon DEF Sound
    <2>2. p = <<>> => q[1] = x
      OBVIOUS
    <2>3. p # <<>> => q[1] = p[1]
      OBVIOUS
    <2>4. /\ J(p) \in Seq(Tokens)
          /\ p = <<>> => J(q) = x
          /\ p # <<>> => J(q) = (J(p) \o <<";">>) \o x
      BY <2>1, JoinedOneMore
    <2> SUFFICES ASSUME q \in Fields
                 PROVE  Begins(q)
      BY <2>1
    <2>5. q[1] = TheCode
      BY DEF Fields
    <2> HIDE DEF q, J
    <2>6. CASE p = <<>>
      <3>1. x = TheCode /\ J(q) = x
        BY <2>2, <2>4, <2>5, <2>6
      <3>2. Len(TheCode) >= 1
        BY CodeIsSound
      <3> QED
        BY <2>1, <3>1, <3>2, CodeIsSound, Zenon
    <2>7. CASE p # <<>>
      <3>1. Begins(p)
        BY <1>2, <2>3, <2>5, <2>7 DEF Fields
      <3> DEFINE u == J(p)
                 semi == ";"
                 t == (u \o <<semi>>) \o x
      <3>2. u \in Seq(Tokens) /\ Len(u) >= 1 /\ u[1] = "7877" /\ semi \in Tokens
        BY <2>1, <3>1
      <3>3. J(q) = t
        BY <2>4, <2>7
      <3>4. ~ IsClosed(t)
        BY <2>1, <3>2, ClosedAfter
      <3> HIDE DEF u, semi
      <3>5. t \in Seq(Tokens) /\ Len(t) = Len(u) + 1 + Len(x) /\ t[1] = u[1]
        <4>1. x \in Seq(Tokens)
          BY <2>1
        <4> QED
          BY <3>2, <4>1, LastIs
      <3> HIDE DEF t
      <3>6. Len(t) >= 1
        <4>1. Len(x) \in Nat /\ Len(u) \in Nat
          <5>1. x \in Seq(Tokens) /\ u \in Seq(Tokens)
            BY <2>1, <3>2
          <5> QED
            BY <5>1, LenProperties
        <4> QED
          BY <3>5, <4>1
      <3> QED
        BY <3>2, <3>3, <3>4, <3>5, <3>6
    <2> QED
      BY <2>6, <2>7
  <1>3. \A p \in Seq(Sound) : p \in T
    <2> HIDE DEF T
    <2> QED
      BY <1>1, <1>2, AllSequences, Zenon
  <1>4. fs \in Seq(Sound)
    BY DEF Fields
  <1> QED
    BY <1>3, <1>4

\* What parse() makes of a wire: the limit, the frame, and then the fields.
LEMMA ParseIs ==
    ASSUME NEW fs \in Fields, NEW ends \in FrameType
    PROVE  /\ Assembled(ends, fs) \in Seq(Tokens)
           /\ FieldsOf(Assembled(ends, fs), ends) = fs
           /\ Parse(Assembled(ends, fs)) =
                 IF \/ Len(Assembled(ends, fs)) > MaxReport
                    \/ ends \notin Proper
                    \/ ends = Bare /\ HasTerminator(Joined(fs, ";"))
                 THEN Error ELSE ReportOf(Taken(Tail(fs)))
  <1> DEFINE J == Joined(fs, ";")
             o == ends.open
             c == ends.close
             input == Assembled(ends, fs)
             payload == StripFrame(input)
             bad == ends \notin Proper \/ (ends = Bare /\ HasTerminator(J))
  <1>1. J \in Seq(Tokens) /\ Len(J) >= 1 /\ J[1] = "7877" /\ ~ IsClosed(J)
    BY PayloadIs
  <1>2. Pieces(J, ";") = fs
    <2>1. fs \in Seq(Without(";")) /\ fs # <<>> /\ ";" \in Tokens
      BY SoundIs, WordsAre DEF Fields
    <2> QED
      BY <2>1, PiecesOfJoined
  <1>3. input = (o \o J) \o c /\ o \in Seq(Tokens) /\ c \in Seq(Tokens)
    BY FrameIs DEF Assembled
  <1>4. payload = IF bad THEN Error ELSE J
    <2>1. J[1] # "ESC"
      BY <1>1
    <2>2. payload = StripFrame((ends.open \o J) \o ends.close)
      BY <1>3
    <2> HIDE DEF J
    <2> QED
      BY <1>1, <2>1, <2>2, StripIs
  <1>5. J # Error
    BY <1>1, ErrorIsNone
  <1>6. fs[1] = <<"7877">>
    BY DEF Fields, TheCode
  <1>7. Parse(input) = IF Len(input) > MaxReport \/ payload = Error THEN Error
                       ELSE IF Pieces(payload, ";")[1] # <<"7877">> THEN Error
                       ELSE ReportOf(Taken(Tail(Pieces(payload, ";"))))
    BY DEF Parse
  <1> HIDE DEF J, payload, o, c, input
  <1>8. Parse(input) = IF Len(input) > MaxReport \/ bad THEN Error ELSE ReportOf(Taken(Tail(fs)))
    <2> HIDE DEF bad
    <2> QED
      BY <1>2, <1>4, <1>5, <1>6, <1>7, Zenon
  <1>9. input \in Seq(Tokens)
    <2>1. o \o J \in Seq(Tokens)
      BY <1>1, <1>3
    <2> QED
      BY <1>3, <2>1
  <1>10. FieldsOf(input, ends) = fs
    <2> DEFINE m == Len(o)
               n == Len(J)
    <2>1. (o \o J) \o c = o \o (J \o c) /\ J \o c \in Seq(Tokens)
      BY <1>1, <1>3
    <2>2. Len(input) - Len(c) = m + n /\ m \in Nat /\ n \in Nat
      BY <1>1, <1>3
    <2>3. SubSeq((o \o J) \o c, 1, Len((o \o J) \o c) - Len(c)) = o \o J
      <3>1. o \o J \in Seq(Tokens) /\ c \in Seq(Tokens)
        BY <1>1, <1>3
      <3> QED
        BY <3>1, CutIs
    <2>4. SubSeq(input, 1, m + n) = o \o J
      BY <1>3, <2>2, <2>3
    <2>5. SubSeq(o \o J, m + 1, m + n) = J
      <3>1. SubSeq(o \o J, Len(o) + 1, Len(o \o J)) = J
        BY <1>1, <1>3, CutIs
      <3>2. Len(o \o J) = m + n
        BY <1>1, <1>3
      <3> QED
        BY <3>1, <3>2
    <2>6. SubSeq(input, m + 1, m + n) = J
      <3> DEFINE v == SubSeq(input, 1, m + n)
                 a == SubSeq(input, m + 1, m + n)
                 b == SubSeq(v, m + 1, m + n)
      <3>1. input \in Seq(Tokens) /\ m \in Nat /\ n \in Nat /\ m + n \in 0..Len(input)
        <4>1. Len(input) \in Nat /\ Len(c) \in Nat
          BY <1>3, <1>9
        <4> QED
          BY <1>9, <2>2, <4>1
      <3> HIDE DEF m, n
      <3>2. v \in Seq(Tokens) /\ Len(v) = m + n /\ \A i \in 1..m + n : v[i] = input[i]
        BY <3>1
      <3> HIDE DEF v
      <3>3. a \in Seq(Tokens) /\ Len(a) = n /\ \A i \in 1..n : a[i] = input[m + i]
        <4>1. a \in Seq(Tokens) /\ Len(a) = n
          BY <3>1
        <4>2. \A i \in 1..n : a[i] = input[(m + 1) + i - 1] /\ (m + 1) + i - 1 = m + i
          BY <3>1
        <4> QED
          BY <4>1, <4>2
      <3>4. b \in Seq(Tokens) /\ Len(b) = n /\ \A i \in 1..n : b[i] = v[m + i]
        <4>1. b \in Seq(Tokens) /\ Len(b) = n
          BY <3>1, <3>2
        <4>2. \A i \in 1..n : b[i] = v[(m + 1) + i - 1] /\ (m + 1) + i - 1 = m + i
          BY <3>1, <3>2
        <4> QED
          BY <4>1, <4>2
      <3>5. \A i \in 1..n : m + i \in 1..m + n
        BY <3>1
      <3> HIDE DEF a, b
      <3>6. \A i \in 1..n : a[i] = b[i]
        BY <3>2, <3>3, <3>4, <3>5
      <3>7. a = b
        BY <3>3, <3>4, <3>6, SeqEqual
      <3> QED
        BY <2>4, <2>5, <3>7 DEF a, b, v
    <2>7. FieldsOf(input, ends) = Pieces(SubSeq(input, Len(o) + 1, Len(input) - Len(c)), ";")
      BY DEF FieldsOf, o, c
    <2> QED
      BY <1>2, <2>2, <2>6, <2>7
  <1> QED
    BY <1>8, <1>9, <1>10 DEF input, J

-----------------------------------------------------------------------------
(* The flags *)

Distinct(s) == \A i, j \in DOMAIN s : s[i] = s[j] => i = j

\* Pieces of one token at most, joined, are about twice as many tokens.
LEMMA JoinedLength ==
    ASSUME NEW S, NEW separator \in S, NEW fs \in Seq({p \in Seq(S) : Len(p) <= 1})
    PROVE  Joined(fs, separator) \in Seq(S) /\ Len(Joined(fs, separator)) <= 2 * Len(fs)
           /\ (fs # <<>> => Len(Joined(fs, separator)) <= 2 * Len(fs) - 1)
  <1> DEFINE Short == {p \in Seq(S) : Len(p) <= 1}
             J(p) == Joined(p, separator)
             Good(p) == J(p) \in Seq(S) /\ Len(J(p)) <= 2 * Len(p) /\ (p # <<>> => Len(J(p)) <= 2 * Len(p) - 1)
             T == {p \in Seq(Short) : Good(p)}
  <1>1. <<>> \in T
    <2>1. J(<<>>) = <<>>
      BY JoinedNothing
    <2>2. <<>> \in Seq(S) /\ Len(<<>>) <= 2 * Len(<<>>) /\ <<>> \in Seq(Short)
      OBVIOUS
    <2>3. Good(<<>>)
      BY <2>1, <2>2, Zenon
    <2> HIDE DEF Good, Short
    <2> QED
      BY <2>2, <2>3
  <1>2. ASSUME NEW p \in Seq(Short), NEW x \in Short, p \in T
        PROVE  Append(p, x) \in T
    <2> DEFINE q == Append(p, x)
    <2>0. \A y \in Short : y \in Seq(S)
      OBVIOUS
    <2>1. p \in Seq(Seq(S)) /\ x \in Seq(S) /\ Len(x) <= 1 /\ Len(x) \in Nat
      <3>1. p \in Seq(Seq(S))
        <4> HIDE DEF Short
        <4> QED
          BY <2>0
      <3> QED
        BY <3>1
    <2>2. /\ J(p) \in Seq(S)
          /\ p = <<>> => J(q) = x
          /\ p # <<>> => J(q) = (J(p) \o <<separator>>) \o x
      BY <2>1, JoinedOneMore
    <2>3. q \in Seq(Short) /\ Len(q) = Len(p) + 1 /\ q # <<>> /\ Len(p) \in Nat /\ (p = <<>> => Len(p) = 0)
      <3> HIDE DEF Short
      <3> QED
        OBVIOUS
    <2> DEFINE u == J(p)
               t == (u \o <<separator>>) \o x
    <2>4. u \in Seq(S) /\ Len(u) \in Nat /\ (p # <<>> => Len(u) <= 2 * Len(p) - 1)
      BY <1>2, <2>2
    <2> HIDE DEF q, J
    <2>5. CASE p = <<>>
      <3>1. J(q) \in Seq(S) /\ Len(J(q)) <= 1
        BY <2>1, <2>2, <2>5
      <3>2. Len(q) = 1
        BY <2>3, <2>5
      <3>3. Good(q)
        BY <3>1, <3>2
      <3> QED
        BY <2>3, <3>3 DEF q
    <2>6. CASE p # <<>>
      <3> HIDE DEF u
      <3>1. t \in Seq(S) /\ Len(t) = Len(u) + 1 + Len(x)
        BY <2>1, <2>4, LastIs
      <3>2. J(q) = t
        BY <2>2, <2>6 DEF u
      <3> HIDE DEF t
      <3>3. Len(t) <= 2 * Len(q) - 1
        BY <2>1, <2>3, <2>4, <2>6, <3>1
      <3>4. Len(q) \in Nat
        BY <2>3
      <3>5. Good(q)
        BY <3>1, <3>2, <3>3, <3>4
      <3> QED
        BY <2>3, <3>5 DEF q
    <2> QED
      BY <2>5, <2>6
  <1>3. \A p \in Seq(Short) : p \in T
    <2> HIDE DEF T
    <2> QED
      BY <1>1, <1>2, AllSequences, Zenon
  <1> QED
    BY <1>3

FlagTokens == Flags \cup {","}
FlagWords == {p \in Seq(FlagTokens) : Len(p) <= 1 /\ \E flag \in Flags : p = <<flag>>}

\* The tokens of a list of flags neither separate fields nor frame.
LEMMA FlagTokensAre ==
    /\ \A c \in FlagTokens : c \in Tokens /\ c # ";" /\ c # "BEL" /\ c # "ESC"
    /\ \A flag \in Flags : flag \in Tokens /\ flag # "," /\ <<flag>> # <<>>
    /\ "," \in FlagTokens
  <1>1. Flags \subseteq Tokens /\ "," \in Tokens
    BY TokenAssumption
  <1>2. \A flag \in Flags : <<flag>> # <<>>
    OBVIOUS
  <1> QED
    BY <1>1, <1>2 DEF FlagTokens, Flags

\* A flag's name has no comma in it.
LEMMA FlagWordsAre ==
    /\ \A flag \in Flags : <<flag>> \in FlagWords
    /\ \A p \in FlagWords : p \in Without(",")
    /\ \A p \in FlagWords : p \in {q \in Seq(FlagTokens) : Len(q) <= 1}
  <1>1. \A S : \A x \in S : <<x>> \in Seq(S) /\ Len(<<x>>) <= 1
    OBVIOUS
  <1>2. \A flag \in Flags : flag \in FlagTokens
    BY DEF FlagTokens
  <1>3. \A flag \in Flags : <<flag>> \in FlagWords
    BY <1>1, <1>2, Zenon DEF FlagWords
  <1>4. \A flag \in Flags : <<flag>> \in Without(",")
    <2>1. \A flag \in Flags : <<flag>> \in Seq(Tokens) /\ ToSet(<<flag>>) = {flag}
      BY FlagTokensAre, OneToken1
    <2> QED
      BY <2>1, FlagTokensAre DEF Without
  <1> QED
    BY <1>3, <1>4, Zenon DEF FlagWords

\* A name that is not there yet is added at the end.
LEMMA OneFlag ==
    ASSUME NEW s \in Seq(FlagWords), NEW name \in Flags, NEW visible, NEW t, t = s \o Only(name, visible),
           Distinct(s), <<name>> \notin ToSet(s)
    PROVE  /\ t \in Seq(FlagWords) /\ Len(t) <= Len(s) + 1 /\ Distinct(t)
           /\ \A y : y \in ToSet(t) <=> y \in ToSet(s) \/ (name \in visible /\ y = <<name>>)
  <1> DEFINE x == <<name>>
             P == name \in visible
  <1>0. x \in FlagWords
    BY FlagWordsAre
  <1>1. CASE P
    <2>0. t = s \o <<<<name>>>>
      BY <1>1 DEF Only
    <2>1. t = s \o <<x>>
      BY <2>0
    <2> HIDE DEF x
    <2>2. t \in Seq(FlagWords) /\ Len(t) = Len(s) + 1 /\ Len(s) \in Nat /\ t[Len(s) + 1] = x
          /\ \A i \in 1..Len(s) : t[i] = s[i]
      BY <1>0, <2>1
    <2> DEFINE n == Len(s)
    <2>3. DOMAIN s = 1..n /\ DOMAIN t = 1..n + 1
      BY <2>2
    <2>4. \A i \in 1..n + 1 : i \in 1..n \/ i = n + 1
      BY <2>2
    <2>5. \A i \in 1..n : s[i] # x
      BY <2>3 DEF ToSet, x
    <2> HIDE DEF n
    <2>6. Distinct(t)
      BY <2>2, <2>3, <2>4, <2>5 DEF Distinct, n
    <2>7. \A y : y \in ToSet(t) <=> y \in ToSet(s) \/ y = x
      <3>1. n + 1 \in 1..n + 1 /\ \A i \in 1..n : i \in 1..n + 1
        BY <2>2 DEF n
      <3> QED
        BY <2>2, <2>3, <2>4, <3>1 DEF ToSet, n
    <2> QED
      BY <1>1, <2>2, <2>6, <2>7 DEF x
  <1>2. CASE ~ P
    <2>1. Only(name, visible) = <<>>
      BY <1>2 DEF Only
    <2>2. t = s /\ Len(s) \in Nat
      BY <2>1
    <2> QED
      BY <1>2, <2>2
  <1> QED
    BY <1>1, <1>2

\* The flags that are written: each once, and those that are set.
LEMMA FlagNamesAre ==
    ASSUME NEW visible \in SUBSET Flags
    PROVE  /\ FlagNames(visible) \in Seq(FlagWords) /\ Len(FlagNames(visible)) <= 3
           /\ Distinct(FlagNames(visible))
           /\ \A flag \in Flags : <<flag>> \in ToSet(FlagNames(visible)) <=> flag \in visible
  <1> DEFINE idle == "idle"
             blocker == "blocker"
             working == "working"
             A == <<>> \o Only(idle, visible)
             B == A \o Only(blocker, visible)
             C == B \o Only(working, visible)
  <1>1. idle \in Flags /\ blocker \in Flags /\ working \in Flags
        /\ idle # blocker /\ blocker # working /\ idle # working
    BY DEF Flags
  <1>2. \A flag \in Flags : flag = idle \/ flag = blocker \/ flag = working
    BY DEF Flags
  <1>3. \A flag, other : <<flag>> = <<other>> => flag = other
    OBVIOUS
  <1>4. FlagNames(visible) = (Only(idle, visible) \o Only(blocker, visible)) \o Only(working, visible)
    BY DEF FlagNames
  <1>5. <<>> \in Seq(FlagWords) /\ Len(<<>>) = 0 /\ Distinct(<<>>) /\ \A y : y \notin ToSet(<<>>)
    BY DEF Distinct, ToSet
  <1> HIDE DEF idle, blocker, working
  <1>6. FlagNames(visible) = C
    <2>1. Only(idle, visible) \in Seq(FlagWords)
      <3>1. <<idle>> \in FlagWords
        BY <1>1, FlagWordsAre
      <3>2. \A S : \A x \in S : <<x>> \in Seq(S)
        OBVIOUS
      <3> QED
        BY <1>5, <3>1, <3>2, Zenon DEF Only
    <2>2. A = Only(idle, visible)
      BY <2>1
    <2> QED
      BY <1>4, <2>2
  <1>7. /\ A \in Seq(FlagWords) /\ Len(A) <= Len(<<>>) + 1 /\ Distinct(A)
        /\ \A y : y \in ToSet(A) <=> y \in ToSet(<<>>) \/ (idle \in visible /\ y = <<idle>>)
    BY <1>1, <1>5, OneFlag
  <1> HIDE DEF A
  <1>8. <<blocker>> \notin ToSet(A)
    BY <1>1, <1>3, <1>5, <1>7
  <1>9. /\ B \in Seq(FlagWords) /\ Len(B) <= Len(A) + 1 /\ Distinct(B)
        /\ \A y : y \in ToSet(B) <=> y \in ToSet(A) \/ (blocker \in visible /\ y = <<blocker>>)
    BY <1>1, <1>7, <1>8, OneFlag
  <1> HIDE DEF B
  <1>10. <<working>> \notin ToSet(B)
    BY <1>1, <1>3, <1>5, <1>7, <1>9
  <1>11. /\ C \in Seq(FlagWords) /\ Len(C) <= Len(B) + 1 /\ Distinct(C)
         /\ \A y : y \in ToSet(C) <=> y \in ToSet(B) \/ (working \in visible /\ y = <<working>>)
    BY <1>1, <1>9, <1>10, OneFlag
  <1> HIDE DEF C
  <1>12. Len(C) <= 3
    <2>1. Len(A) \in Nat /\ Len(B) \in Nat /\ Len(C) \in Nat
      BY <1>7, <1>9, <1>11, LenProperties
    <2> QED
      BY <1>5, <1>7, <1>9, <1>11, <2>1
  <1>13. \A flag \in Flags : <<flag>> \in ToSet(C) <=> flag \in visible
    BY <1>1, <1>2, <1>3, <1>5, <1>7, <1>9, <1>11
  <1> QED
    BY <1>6, <1>11, <1>12, <1>13

\* The flags are read back.
LEMMA FlagsBack ==
    ASSUME NEW visible \in SUBSET Flags
    PROVE  /\ Joined(FlagNames(visible), ",") \in Seq(FlagTokens) /\ Len(Joined(FlagNames(visible), ",")) <= 5
           /\ FlagsIn(Joined(FlagNames(visible), ",")) = visible
  <1> DEFINE comma == ","
             t == FlagNames(visible)
             value == Joined(t, comma)
             W == {q \in Seq(FlagTokens) : Len(q) <= 1}
  <1>1. /\ t \in Seq(FlagWords) /\ Len(t) <= 3 /\ Distinct(t)
        /\ \A flag \in Flags : <<flag>> \in ToSet(t) <=> flag \in visible
    BY FlagNamesAre
  <1>2. comma \in FlagTokens /\ comma \in Tokens
    BY FlagTokensAre
  <1>3. t \in Seq(W) /\ t \in Seq(Without(comma))
    <2>1. (\A p \in FlagWords : p \in W) /\ (\A p \in FlagWords : p \in Without(comma))
      BY FlagWordsAre
    <2> HIDE DEF W, t, comma
    <2> QED
      BY <1>1, <2>1, SeqWider
  <1> HIDE DEF t, comma
  <1>4. value \in Seq(FlagTokens) /\ Len(value) <= 5
    <2>1. value \in Seq(FlagTokens) /\ Len(value) <= 2 * Len(t) /\ (t # <<>> => Len(value) <= 2 * Len(t) - 1)
      BY <1>2, <1>3, JoinedLength
    <2>2. t = <<>> => Len(t) = 0
      OBVIOUS
    <2>3. Len(t) \in Nat /\ Len(t) <= 3
      BY <1>1
    <2> HIDE DEF value
    <2>4. Len(value) \in Nat
      BY <2>1
    <2> QED
      BY <2>1, <2>2, <2>3, <2>4
  <1>5. CASE t = <<>>
    <2>1. visible = {}
      <3>1. \A y : y \notin ToSet(t)
        BY <1>5 DEF ToSet
      <3> QED
        BY <1>1, <3>1
    <2>2. value = <<>>
      BY <1>5, JoinedNothing
    <2>3. FlagsIn(value) = visible
      BY <2>1, <2>2 DEF FlagsIn
    <2> QED
      BY <1>4, <2>3 DEF t, comma
  <1>6. CASE t # <<>>
    <2>1. Pieces(value, comma) = t
      BY <1>2, <1>3, <1>6, PiecesOfJoined
    <2>2. \A i \in DOMAIN t : \E flag \in Flags : t[i] = <<flag>>
      <3>1. \A i \in DOMAIN t : t[i] \in FlagWords
        BY <1>1
      <3> QED
        BY <3>1 DEF FlagWords
    <2>3. value # <<>>
      <3>1. ASSUME value = <<>>
            PROVE  FALSE
        <4>1. t = <<<<>>>>
          BY <2>1, <3>1, PiecesOfNothing
        <4>2. 1 \in DOMAIN t /\ t[1] = <<>>
          BY <4>1
        <4> QED
          BY <2>2, <4>2, FlagTokensAre
      <3> QED
        BY <3>1
    <2>4. {flag \in Flags : \E i \in DOMAIN t : t[i] = <<flag>>} = visible
      <3>1. \A flag \in Flags : (\E i \in DOMAIN t : t[i] = <<flag>>) <=> <<flag>> \in ToSet(t)
        BY DEF ToSet
      <3> QED
        BY <1>1, <3>1
    <2> HIDE DEF value
    <2>5. \A i, j \in DOMAIN t : t[i] = t[j] => i = j
      BY <1>1 DEF Distinct
    <2>6. FlagsIn(value) = visible
      BY <2>1, <2>2, <2>3, <2>4, <2>5, Zenon DEF FlagsIn, comma
    <2> QED
      BY <1>4, <2>6 DEF t, comma, value
  <1> QED
    BY <1>5, <1>6

-----------------------------------------------------------------------------
(* The fields of a report *)

IsMark(c) == c = ";" \/ c = "BEL" \/ c = "ESC"
Unmarked == {x \in Seq(Tokens) : \A i \in DOMAIN x : ~ IsMark(x[i])}

\* A sequence of tokens that are no marks is unmarked.
LEMMA UnmarkedIs ==
    /\ \A S : (\A c \in S : c \in Tokens /\ ~ IsMark(c)) => \A x \in Seq(S) : x \in Unmarked
    /\ \A c \in Tokens : ~ IsMark(c) => <<c>> \in Unmarked /\ Len(<<c>>) = 1
  <1>1. ASSUME NEW S, \A c \in S : c \in Tokens /\ ~ IsMark(c), NEW x \in Seq(S)
        PROVE  x \in Unmarked
    <2>1. x \in Seq(Tokens)
      BY <1>1, SeqWider
    <2>2. \A i \in DOMAIN x : x[i] \in S
      OBVIOUS
    <2> QED
      BY <1>1, <2>1, <2>2 DEF Unmarked
  <1>2. ASSUME NEW c \in Tokens, ~ IsMark(c)
        PROVE  <<c>> \in Unmarked /\ Len(<<c>>) = 1
    <2>1. <<c>> \in Seq({c}) /\ Len(<<c>>) = 1
      OBVIOUS
    <2>2. <<c>> \in Unmarked
      BY <1>1, <1>2, <2>1
    <2> QED
      BY <2>1, <2>2
  <1> QED
    BY <1>1, <1>2

\* A field with an unmarked value is sound and two tokens longer.
LEMMA UnmarkedField ==
    ASSUME NEW name \in Names, NEW value \in Unmarked, name = "message" => value \in Seq(DOMAIN Code)
    PROVE  Field(name, value) \in Sound /\ Len(Field(name, value)) = Len(value) + 2
  <1> DEFINE f == Field(name, value)
             n == Len(value)
             eq == "="
  <1>1. value \in Seq(Tokens) /\ n \in Nat /\ \A i \in 1..n : ~ IsMark(value[i])
    BY DEF Unmarked
  <1>2. /\ f \in Seq(Tokens) /\ Len(f) = n + 2
        /\ \A i \in 1..n + 2 : f[i] = IF i = 1 THEN name ELSE IF i = 2 THEN eq ELSE value[i - 2]
        /\ ValueIn(f) = value /\ Gives(f, name)
    BY <1>1, FieldIs
  <1>3. ~ IsMark(name) /\ ~ IsMark(eq)
    BY DEF IsMark, Names
  <1> HIDE DEF f, n, eq
  <1>4. \A i \in DOMAIN f : ~ IsMark(f[i])
    <2>1. \A i \in 1..n + 2 : i = 1 \/ i = 2 \/ (i - 2 \in 1..n /\ i # 1 /\ i # 2)
      BY <1>1
    <2>2. DOMAIN f = 1..n + 2
      BY <1>2
    <2> QED
      BY <1>1, <1>2, <1>3, <2>1, <2>2
  <1>5. ";" \notin ToSet(f)
    BY <1>4 DEF ToSet, IsMark
  <1>6. ~ IsClosed(f)
    <2>1. IsClosed(f) => \E i \in DOMAIN f : f[i] = "ESC" \/ f[i] = "BEL"
      <3>1. Len(f) \in Nat /\ DOMAIN f = 1..Len(f)
        BY <1>2
      <3>2. Len(f) >= 2 => Len(f) - 1 \in 1..Len(f)
        BY <3>1
      <3>3. Len(f) >= 1 => Len(f) \in 1..Len(f)
        BY <3>1
      <3> QED
        BY <1>2, <3>1, <3>2, <3>3, ClosedIs DEF IsClosed
    <2> QED
      BY <1>4, <2>1 DEF IsMark
  <1>7. f \in Readable
    <2>1. Gives(f, "message") => name = "message"
      BY <1>2, OneName DEF Names
    <2> QED
      BY <1>2, <2>1 DEF Readable
  <1> QED
    BY <1>2, <1>5, <1>6, <1>7 DEF Sound, f, n

\* How far the fields have been written: what they are read as, and their length.
Stage(p, s, n) ==
    /\ p \in Fields /\ s \in Seen /\ Taken(Tail(p)) = s
    /\ Len(Joined(p, ";")) <= n

\* Fields with one more are fields, written that much longer.
LEMMA OneMoreField ==
    ASSUME NEW p \in Fields, NEW f \in Sound
    PROVE  /\ Append(p, f) \in Fields
           /\ Tail(p) \in Seq(Readable) /\ Tail(Append(p, f)) = Append(Tail(p), f)
           /\ Len(Joined(Append(p, f), ";")) = Len(Joined(p, ";")) + 1 + Len(f)
  <1>1. p \in Seq(Sound) /\ p # <<>> /\ p[1] = TheCode
    BY DEF Fields
  <1> DEFINE S == Sound
             g == Append(p, f)
  <1>2. g \in Seq(Sound) /\ g # <<>> /\ g[1] = p[1]
    <2> HIDE DEF S
    <2>1. p \in Seq(S) /\ f \in S /\ p # <<>>
      BY <1>1 DEF S
    <2>2. g \in Seq(S) /\ g # <<>> /\ g[1] = p[1]
      BY <2>1
    <2> QED
      BY <2>2 DEF S
  <1>3. Tail(p) \in Seq(Sound) /\ Tail(g) = Append(Tail(p), f)
    <2> HIDE DEF S
    <2>1. p \in Seq(S) /\ f \in S /\ p # <<>>
      BY <1>1 DEF S
    <2>2. Tail(p) \in Seq(S) /\ Tail(g) = Append(Tail(p), f)
      BY <2>1
    <2> QED
      BY <2>2 DEF S
  <1>4. Tail(p) \in Seq(Readable)
    BY <1>3, SoundIs
  <1>5. Len(Joined(g, ";")) = Len(Joined(p, ";")) + 1 + Len(f)
    <2> DEFINE semi == ";"
               u == Joined(p, semi)
               t == (u \o <<semi>>) \o f
    <2>1. p \in Seq(Seq(Tokens)) /\ f \in Seq(Tokens) /\ semi \in Tokens
      BY <1>1, SoundIs, WordsAre
    <2>2. u \in Seq(Tokens) /\ Joined(g, semi) = t
      BY <1>1, <2>1, JoinedOneMore
    <2> HIDE DEF u, semi
    <2>3. Len(t) = Len(u) + 1 + Len(f)
      BY <2>1, <2>2, LastIs
    <2> QED
      BY <2>2, <2>3 DEF u, semi
  <1> QED
    BY <1>1, <1>2, <1>3, <1>4, <1>5 DEF Fields

\* The first stage of a report: the code and no values.
LEMMA FirstStage == Stage(<<TheCode>>, Nowhere, 1)
  <1> DEFINE S == Sound
             x == TheCode
  <1>1. x \in S /\ x \in Seq(Tokens) /\ Len(x) = 1
    BY CodeIsSound
  <1> HIDE DEF S, x
  <1>2. <<x>> \in Seq(S) /\ <<x>> # <<>> /\ <<x>>[1] = x /\ Tail(<<x>>) = <<>>
    BY <1>1
  <1>3. Joined(<<x>>, ";") = x
    <2>1. <<x>> = Append(<<>>, x)
      OBVIOUS
    <2>2. <<>> \in Seq(Seq(Tokens))
      OBVIOUS
    <2>3. Joined(Append(<<>>, x), ";") = x
      BY <1>1, <2>2, JoinedOneMore, WordsAre
    <2> QED
      BY <2>1, <2>3, Zenon
  <1>4. <<x>> \in Fields
    BY <1>2 DEF Fields, S, x
  <1>5. Taken(Tail(<<x>>)) = Nowhere
    BY <1>2, TakenNothing, Zenon
  <1>6. Len(Joined(<<x>>, ";")) <= 1
    <2> DEFINE l == Len(Joined(<<x>>, ";"))
    <2>1. l = Len(x)
      BY <1>3, Zenon
    <2> HIDE DEF l
    <2>2. l <= 1
      BY <1>1, <2>1
    <2> QED
      BY <2>2 DEF l
  <1>7. Stage(<<x>>, Nowhere, 1)
    BY <1>4, <1>5, <1>6, SeenIsNoError, Zenon DEF Stage
  <1> QED
    BY <1>7 DEF x

\* A field more is read as one value more.
LEMMA NextStage ==
    ASSUME NEW p, NEW s, NEW n \in Nat, Stage(p, s, n), NEW name \in Names, s[name] = Nothing,
           NEW value \in Unmarked, name = "message" => value \in Seq(DOMAIN Code),
           ValueOf(name, value) # Error, NEW k \in Nat, Len(value) <= k
    PROVE  Stage(Append(p, Field(name, value)), [s EXCEPT ![name] = ValueOf(name, value)], n + (3 + k))
  <1> DEFINE f == Field(name, value)
             x == ValueOf(name, value)
  <1>1. p \in Fields /\ s \in Seen /\ Taken(Tail(p)) = s /\ Len(Joined(p, ";")) <= n
    BY DEF Stage
  <1>2. f \in Sound /\ Len(f) = Len(value) + 2
    BY UnmarkedField
  <1>3. value \in Seq(Tokens)
    BY DEF Unmarked
  <1>4. Gives(f, name) /\ ValueIn(f) = value
    BY <1>3, FieldIs
  <1>5. /\ Append(p, f) \in Fields /\ Tail(p) \in Seq(Readable) /\ Tail(Append(p, f)) = Append(Tail(p), f)
        /\ Len(Joined(Append(p, f), ";")) = Len(Joined(p, ";")) + 1 + Len(f)
    BY <1>1, <1>2, OneMoreField
  <1>6. f \in Readable /\ s # Error /\ s \in Taking
    BY <1>1, <1>2, SoundIs, SeenIsNoError DEF Taking
  <1> HIDE DEF f
  <1>7. Taken(Tail(Append(p, f))) = TakeField(s, f)
    BY <1>1, <1>5, <1>6, TakenOneMore
  <1>8. TakeField(s, f) = [s EXCEPT ![name] = x]
    BY <1>4, <1>6, TakeFieldIs
  <1>9. [s EXCEPT ![name] = x] \in Seen
    <2>1. x \in Kind(name)
      BY <1>3, ValueOfKind
    <2>2. x \in Values
      BY <2>1, KindIsPlain
    <2> HIDE DEF x
    <2> QED
      BY <1>1, <2>1, <2>2 DEF Seen
  <1>10. Len(Joined(Append(p, f), ";")) <= n + (3 + k)
    <2>1. Len(value) \in Nat /\ Len(Joined(p, ";")) \in Nat
      <3>1. Joined(p, ";") \in Seq(Tokens)
        BY <1>1, PayloadIs
      <3> QED
        BY <1>3, <3>1, LenProperties
    <2>2. \A l, m \in Nat : l <= n /\ m <= k => l + 1 + (m + 2) <= n + (3 + k)
      OBVIOUS
    <2>3. Len(Joined(p, ";")) + 1 + (Len(value) + 2) <= n + (3 + k)
      BY <1>1, <2>1, <2>2, Zenon
    <2> QED
      BY <1>2, <1>5, <2>3, Zenon
  <1> QED
    BY <1>5, <1>7, <1>8, <1>9, <1>10 DEF Stage, f

\* So is a field that may be missing.
LEMMA OptionStage ==
    ASSUME NEW p, NEW s, NEW n \in Nat, Stage(p, s, n), NEW name \in Names, s[name] = Nothing,
           NEW value \in Unmarked \cup {Nothing}, NEW x,
           value = Nothing => x = Nothing,
           value # Nothing => /\ name = "message" => value \in Seq(DOMAIN Code)
                              /\ x = ValueOf(name, value) /\ x # Error,
           NEW k \in Nat, value # Nothing => Len(value) <= k
    PROVE  Stage(p \o Option(name, value), [s EXCEPT ![name] = x], n + (3 + k))
  <1>1. p \in Fields /\ s \in Seen /\ Len(Joined(p, ";")) <= n
    BY DEF Stage
  <1>2. p \in Seq(Sound)
    BY <1>1 DEF Fields
  <1>3. CASE value = Nothing
    <2>1. p \o Option(name, value) = p
      <3>1. Option(name, value) = <<>>
        BY <1>3 DEF Option
      <3> DEFINE S == Sound
      <3> HIDE DEF S
      <3>2. p \in Seq(S)
        BY <1>2 DEF S
      <3> QED
        BY <3>1, <3>2
    <2>2. [s EXCEPT ![name] = x] = s
      <3>1. s \in [Names -> Values \cup {Nothing}]
        BY <1>1 DEF Seen
      <3> QED
        BY <1>3, <3>1
    <2>3. Len(Joined(p, ";")) <= n + (3 + k)
      <3>1. Joined(p, ";") \in Seq(Tokens)
        BY <1>1, PayloadIs
      <3>2. Len(Joined(p, ";")) \in Nat
        BY <3>1, LenProperties
      <3>3. \A l \in Nat : l <= n => l <= n + (3 + k)
        OBVIOUS
      <3> QED
        BY <1>1, <3>2, <3>3, Zenon
    <2> QED
      BY <1>1, <2>1, <2>2, <2>3 DEF Stage
  <1>4. CASE value # Nothing
    <2>1. value \in Unmarked
      BY <1>4
    <2>2. Stage(Append(p, Field(name, value)), [s EXCEPT ![name] = x], n + (3 + k))
      BY <1>4, <2>1, NextStage
    <2>3. p \o Option(name, value) = Append(p, Field(name, value))
      <3> DEFINE f == Field(name, value)
                 S == Sound
      <3>1. Option(name, value) = <<f>>
        BY <1>4 DEF Option
      <3>2. f \in S
        BY <1>4, <2>1, UnmarkedField
      <3> HIDE DEF f, S
      <3>3. p \in Seq(S)
        BY <1>2 DEF S
      <3> QED
        BY <3>1, <3>2, <3>3 DEF f
    <2> QED
      BY <2>2, <2>3
  <1> QED
    BY <1>3, <1>4

\* What the values of a report are written as has no mark, and is read back.
LEMMA WordBack ==
    ASSUME NEW c \in Tokens, ~ IsMark(c), NEW words, c \in words
    PROVE  <<c>> \in Unmarked /\ Len(<<c>>) = 1 /\ OneOf(<<c>>, words) = c /\ c # Error /\ c # Nothing
  <1>1. <<c>> \in Unmarked /\ Len(<<c>>) = 1 /\ <<c>>[1] = c
    BY UnmarkedIs
  <1>2. OneOf(<<c>>, words) = c
    BY <1>1, Zenon DEF OneOf
  <1> QED
    BY <1>1, <1>2, ErrorIsNone

\* An agent's id is read as it is written.
LEMMA AgentBack ==
    ASSUME NEW a \in Kind("agent")
    PROVE  a \in Unmarked /\ Len(a) <= MaxAgent /\ AgentIdOf(a) = a /\ a # Error
  <1>1. a \in Seq(Tokens) /\ AgentIdOf(a) = a
    BY KindIs
  <1>2. a # Error
    BY <1>1, ErrorIsNone
  <1>3. /\ Len(a) \in 1..MaxAgent
        /\ \A i \in DOMAIN a : a[i] \in DOMAIN Code /\ (Alphanumeric(Code[a[i]]) \/ Code[a[i]] \in {45, 46, 95})
    BY <1>1, <1>2, Zenon DEF AgentIdOf
  <1>4. \A i \in DOMAIN a : ~ IsMark(a[i])
    <2>1. \A c : IsMark(c) => Code[c] = 59 \/ Code[c] = 7 \/ Code[c] = 27
      BY Marks DEF IsMark
    <2>2. \A n : Alphanumeric(n) \/ n \in {45, 46, 95} => n # 59 /\ n # 7 /\ n # 27
      BY DEF Alphanumeric
    <2> QED
      BY <1>3, <2>1, <2>2
  <1>5. Len(a) <= MaxAgent
    BY <1>3, LimitAssumption
  <1> QED
    BY <1>1, <1>2, <1>4, <1>5 DEF Unmarked

\* A sequence number is read as it is written, and none is longer than the largest.
LEMMA SeqBack ==
    ASSUME NEW n \in 0..MaxSeq
    PROVE  Decimal(n) \in Unmarked /\ Len(Decimal(n)) <= Len(Decimal(MaxSeq)) /\ SeqIn(Decimal(n)) = n /\ n # Error
  <1> DEFINE value == Decimal(n)
  <1>1. MaxSeq \in Nat /\ n \in Nat /\ n <= MaxSeq
    BY LimitAssumption
  <1>2. value \in Seq(DigitChars) /\ value # <<>> /\ Number(value) = n
    BY <1>1, NumberBack
  <1>3. \A c \in DigitChars : c \in Tokens /\ ~ IsMark(c)
    <2>1. \A c : IsMark(c) => Code[c] = 59 \/ Code[c] = 7 \/ Code[c] = 27
      BY Marks DEF IsMark
    <2>2. \A k \in 48..57 : k # 59 /\ k # 7 /\ k # 27
      OBVIOUS
    <2> QED
      BY <2>1, <2>2, CodeIs, Zenon DEF DigitChars
  <1> HIDE DEF value
  <1>4. value \in Unmarked
    BY <1>2, <1>3, UnmarkedIs
  <1>5. \A i \in DOMAIN value : value[i] \in DOMAIN Code /\ Code[value[i]] \in 48..57
    <2>1. \A i \in DOMAIN value : value[i] \in DigitChars
      BY <1>2
    <2> QED
      BY <2>1 DEF DigitChars
  <1>6. SeqIn(value) = n
    BY <1>1, <1>2, <1>5, Zenon DEF SeqIn
  <1>7. Len(Decimal(n)) <= Len(Decimal(MaxSeq))
    BY <1>1, DecimalGrows
  <1> QED
    BY <1>1, <1>4, <1>6, <1>7, ErrorIsNone DEF value

\* The flags are read as they are written, in five tokens at most.
LEMMA FlagsUnmarked ==
    ASSUME NEW visible \in SUBSET Flags
    PROVE  /\ Joined(FlagNames(visible), ",") \in Unmarked /\ Len(Joined(FlagNames(visible), ",")) <= 5
           /\ FlagsIn(Joined(FlagNames(visible), ",")) = visible /\ visible # Error
  <1>1. \A c \in FlagTokens : c \in Tokens /\ ~ IsMark(c)
    BY FlagTokensAre DEF IsMark
  <1> QED
    BY <1>1, FlagsBack, UnmarkedIs, NoValueAssumption

\* A message is read as it is written, at most three tokens for a byte.
LEMMA MessageIsBack ==
    ASSUME NEW m \in Kind("message")
    PROVE  /\ PercentEncode(m) \in Unmarked /\ PercentEncode(m) \in Seq(DOMAIN Code)
           /\ Len(PercentEncode(m)) <= 3 * MaxMessage
           /\ MessageIn(PercentEncode(m)) = m /\ m # Error
  <1> DEFINE value == PercentEncode(m)
  <1>1. m \in Seq(Bytes) /\ Len(m) <= MaxMessage /\ IsUtf8(m) /\ Len(m) \in Nat
    BY KindIs
  <1>2. value \in Seq(Safe) /\ Len(value) <= 3 * Len(m) /\ Unescaped(value) = m
    BY <1>1, EncodedLength, MessageBack
  <1>3. \A c \in Safe : c \in Tokens /\ ~ IsMark(c) /\ c \in DOMAIN Code
    BY SafeIs DEF IsMark
  <1>4. m # Error
    BY <1>1, ErrorIsNone
  <1> HIDE DEF value
  <1>5. value \in Unmarked /\ value \in Seq(DOMAIN Code)
    BY <1>2, <1>3, UnmarkedIs, SeqWider
  <1>6. MessageIn(value) = m
    <2>1. ~ (Len(m) > MaxMessage)
      BY <1>1, LimitAssumption
    <2> QED
      BY <1>1, <1>2, <1>4, <2>1, Zenon DEF MessageIn
  <1>7. Len(value) <= 3 * MaxMessage
    <2>1. value \in Seq(Tokens)
      BY <1>5 DEF Unmarked
    <2>2. Len(value) \in Nat /\ MaxMessage \in Nat
      BY <2>1, LimitAssumption
    <2> QED
      BY <1>1, <1>2, <2>2
  <1> QED
    BY <1>4, <1>5, <1>6, <1>7 DEF value

\* What a report may be: what parse() returns, and what may be formatted.
WellFormed ==
    {r \in [state : States, agent : Kind("agent") \cup {Nothing}, seq : 0..MaxSeq,
            visible : SUBSET Flags, exited : BOOLEAN, message : Kind("message") \cup {Nothing}] :
        r.state = "none" <=> r.agent = Nothing}

\* Sequences that are made element by element.
LEMMA ThreeMore ==
    ASSUME NEW S, NEW p \in Seq(S), NEW a \in S, NEW b \in S, NEW c \in S
    PROVE  /\ p \o <<a, b, c>> = Append(Append(Append(p, a), b), c)
           /\ <<a, b, c>> = Append(Append(<<a>>, b), c)
  OBVIOUS

\* The fields of a report, read in the order in which they are written.
LEMMA ReportStages ==
    ASSUME NEW r \in WellFormed
    PROVE  \E s : /\ Stage(FieldsFor(r), s, 30 + MaxAgent + Len(Decimal(MaxSeq)) + 3 * MaxMessage)
                  /\ s["v"] = "1" /\ s["state"] = r.state /\ s["agent"] = r.agent /\ s["seq"] = r.seq
                  /\ s["visible"] = r.visible /\ s["exited"] = (IF r.exited THEN "1" ELSE "0")
                  /\ s["message"] = r.message
  <1> DEFINE d == Len(Decimal(MaxSeq))
             vis == Joined(FlagNames(r.visible), ",")
             bit == IF r.exited THEN "1" ELSE "0"
             msg == IF r.message = Nothing THEN Nothing ELSE PercentEncode(r.message)
             dec == Decimal(r.seq)
  <1>1. /\ r.state \in States /\ r.agent \in Kind("agent") \cup {Nothing} /\ r.seq \in 0..MaxSeq
        /\ r.visible \in SUBSET Flags /\ r.exited \in BOOLEAN /\ r.message \in Kind("message") \cup {Nothing}
    BY DEF WellFormed
  <1>2. MaxSeq \in Nat /\ MaxAgent \in Nat /\ MaxMessage \in Nat /\ d \in Nat
    <2>1. MaxSeq \in Nat /\ MaxAgent \in Nat /\ MaxMessage \in Nat
      BY LimitAssumption
    <2>2. d \in Nat
      BY <2>1, NumberBack, LenProperties
    <2> QED
      BY <2>1, <2>2
  <1>3. \A name \in Names : Nowhere[name] = Nothing
    BY DEF Nowhere
  <1>4. /\ "v" \in Names /\ "state" \in Names /\ "agent" \in Names /\ "seq" \in Names
        /\ "visible" \in Names /\ "exited" \in Names /\ "message" \in Names
    BY DEF Names
  <1>5. /\ <<"1">> \in Unmarked /\ Len(<<"1">>) = 1 /\ ValueOf("v", <<"1">>) = "1" /\ "1" # Error
    <2>1. "1" \in Tokens /\ ~ IsMark("1")
      BY TokenAssumption DEF IsMark
    <2> QED
      BY <2>1, WordBack, ValueOfIs
  <1>6. /\ <<r.state>> \in Unmarked /\ Len(<<r.state>>) = 1 /\ ValueOf("state", <<r.state>>) = r.state
        /\ r.state # Error
    <2>1. r.state \in Tokens
      BY <1>1, TokenAssumption
    <2>2. ~ IsMark(r.state)
      BY <1>1 DEF IsMark, States
    <2> QED
      BY <1>1, <2>1, <2>2, WordBack, ValueOfIs
  <1>7. /\ <<bit>> \in Unmarked /\ Len(<<bit>>) = 1 /\ ValueOf("exited", <<bit>>) = bit /\ bit # Error
    <2>1. bit \in {"0", "1"}
      BY Zenon
    <2>2. \A c \in {"0", "1"} : c \in Tokens /\ ~ IsMark(c)
      BY TokenAssumption DEF IsMark
    <2> HIDE DEF bit
    <2> QED
      BY <2>1, <2>2, WordBack, ValueOfIs
  <1>8. dec \in Unmarked /\ Len(dec) <= d /\ ValueOf("seq", dec) = r.seq /\ r.seq # Error
    BY <1>1, SeqBack, ValueOfIs
  <1>9. vis \in Unmarked /\ Len(vis) <= 5 /\ ValueOf("visible", vis) = r.visible /\ r.visible # Error
    BY <1>1, FlagsUnmarked, ValueOfIs
  <1>10. /\ r.agent \in Unmarked \cup {Nothing}
         /\ r.agent # Nothing => /\ r.agent = ValueOf("agent", r.agent) /\ r.agent # Error
                                 /\ Len(r.agent) <= MaxAgent
    BY <1>1, AgentBack, ValueOfIs
  <1>11. /\ msg \in Unmarked \cup {Nothing}
         /\ msg = Nothing => r.message = Nothing
         /\ msg # Nothing => /\ msg \in Seq(DOMAIN Code)
                             /\ r.message = ValueOf("message", msg) /\ r.message # Error
                             /\ Len(msg) <= 3 * MaxMessage
    <2>1. CASE r.message = Nothing
      BY <2>1
    <2>2. CASE r.message # Nothing
      <3>1. msg = PercentEncode(r.message) /\ r.message \in Kind("message")
        BY <1>1, <2>2
      <3>2. PercentEncode(r.message) # Nothing
        BY <3>1, MessageIsBack, ErrorIsNone DEF Unmarked
      <3> QED
        BY <3>1, <3>2, MessageIsBack, ValueOfIs
    <2> QED
      BY <2>1, <2>2
  <1> DEFINE p1 == <<TheCode>>
             s1 == Nowhere
             p2 == Append(p1, Field("v", <<"1">>))
             s2 == [s1 EXCEPT !["v"] = ValueOf("v", <<"1">>)]
             p3 == Append(p2, Field("state", <<r.state>>))
             s3 == [s2 EXCEPT !["state"] = ValueOf("state", <<r.state>>)]
             p4 == p3 \o Option("agent", r.agent)
             s4 == [s3 EXCEPT !["agent"] = r.agent]
             p5 == Append(p4, Field("seq", dec))
             s5 == [s4 EXCEPT !["seq"] = ValueOf("seq", dec)]
             p6 == Append(p5, Field("visible", vis))
             s6 == [s5 EXCEPT !["visible"] = ValueOf("visible", vis)]
             p7 == Append(p6, Field("exited", <<bit>>))
             s7 == [s6 EXCEPT !["exited"] = ValueOf("exited", <<bit>>)]
             p8 == p7 \o Option("message", msg)
             s8 == [s7 EXCEPT !["message"] = r.message]
  <1> DEFINE Reset(s, X) == \A name \in Names : name \notin X => s[name] = Nothing
  <1>12. Stage(p1, s1, 1)
    BY FirstStage
  <1>13. Stage(p2, s2, 5) /\ s2["v"] = "1" /\ Reset(s2, {"v"})
    <2> HIDE DEF p1
    <2>1. Stage(p2, s2, 1 + (3 + 1))
      <3> DEFINE name == "v"
                 value == <<"1">>
                 n == 1
                 k == 1
      <3>1. name \in Names /\ name # "message" /\ n \in Nat /\ k \in Nat
        BY <1>2, <1>4
      <3>2. value \in Unmarked /\ Len(value) <= k /\ ValueOf(name, value) # Error
        BY <1>5
      <3>3. s1[name] = Nothing /\ Stage(p1, s1, n)
        BY <1>3, <1>4, <1>12
      <3> HIDE DEF name, value, n, k
      <3>4. Stage(Append(p1, Field(name, value)), [s1 EXCEPT ![name] = ValueOf(name, value)], n + (3 + k))
        BY <3>1, <3>2, <3>3, NextStage
      <3> QED
        BY <3>4 DEF name, value, n, k
    <2> QED
      BY <1>3, <1>4, <1>5, <2>1 DEF Nowhere
  <1> HIDE DEF p2, s2
  <1>14. Stage(p3, s3, 9) /\ s3["v"] = "1" /\ s3["state"] = r.state /\ Reset(s3, {"v", "state"})
    <2>1. s2 \in [Names -> Values \cup {Nothing}] /\ s2["state"] = Nothing
      BY <1>4, <1>13 DEF Stage, Seen
    <2>2. Stage(p3, s3, 5 + (3 + 1))
      <3> DEFINE name == "state"
                 value == <<r.state>>
                 n == 5
                 k == 1
      <3>1. name \in Names /\ name # "message" /\ n \in Nat /\ k \in Nat
        BY <1>2, <1>4
      <3>2. value \in Unmarked /\ Len(value) <= k /\ ValueOf(name, value) # Error
        BY <1>6
      <3>3. s2[name] = Nothing /\ Stage(p2, s2, n)
        BY <1>13, <2>1
      <3> HIDE DEF name, value, n, k
      <3>4. Stage(Append(p2, Field(name, value)), [s2 EXCEPT ![name] = ValueOf(name, value)], n + (3 + k))
        BY <3>1, <3>2, <3>3, NextStage
      <3> QED
        BY <3>4 DEF name, value, n, k
    <2> QED
      BY <1>4, <1>6, <1>13, <2>1, <2>2
  <1> HIDE DEF p3, s3
  <1>15. /\ Stage(p4, s4, 12 + MaxAgent) /\ s4["v"] = "1" /\ s4["state"] = r.state /\ s4["agent"] = r.agent
         /\ Reset(s4, {"v", "state", "agent"})
    <2>1. s3 \in [Names -> Values \cup {Nothing}] /\ s3["agent"] = Nothing
      BY <1>4, <1>14 DEF Stage, Seen
    <2>2. Stage(p4, s4, 9 + (3 + MaxAgent))
      BY <1>2, <1>4, <1>10, <1>14, <2>1, OptionStage
    <2>3. 9 + (3 + MaxAgent) = 12 + MaxAgent
      BY <1>2
    <2> QED
      BY <1>4, <1>14, <2>1, <2>2, <2>3
  <1> HIDE DEF p4, s4
  <1>16. /\ Stage(p5, s5, 15 + MaxAgent + d) /\ s5["v"] = "1" /\ s5["state"] = r.state /\ s5["agent"] = r.agent
         /\ s5["seq"] = r.seq /\ Reset(s5, {"v", "state", "agent", "seq"})
    <2>1. s4 \in [Names -> Values \cup {Nothing}] /\ s4["seq"] = Nothing
      BY <1>4, <1>15 DEF Stage, Seen
    <2> HIDE DEF d, dec
    <2>2. Stage(p5, s5, (12 + MaxAgent) + (3 + d))
      <3> DEFINE name == "seq"
                 value == dec
                 n == 12 + MaxAgent
                 k == d
      <3>1. name \in Names /\ name # "message" /\ n \in Nat /\ k \in Nat
        BY <1>2, <1>4
      <3>2. value \in Unmarked /\ Len(value) <= k /\ ValueOf(name, value) # Error
        BY <1>8
      <3>3. s4[name] = Nothing /\ Stage(p4, s4, n)
        BY <1>15, <2>1
      <3> HIDE DEF name, value, n, k
      <3>4. Stage(Append(p4, Field(name, value)), [s4 EXCEPT ![name] = ValueOf(name, value)], n + (3 + k))
        BY <3>1, <3>2, <3>3, NextStage
      <3> QED
        BY <3>4 DEF name, value, n, k
    <2>3. (12 + MaxAgent) + (3 + d) = 15 + MaxAgent + d
      BY <1>2
    <2> QED
      BY <1>4, <1>8, <1>15, <2>1, <2>2, <2>3
  <1> HIDE DEF p5, s5, d
  <1>17. /\ Stage(p6, s6, 23 + MaxAgent + d) /\ s6["v"] = "1" /\ s6["state"] = r.state /\ s6["agent"] = r.agent
         /\ s6["seq"] = r.seq /\ s6["visible"] = r.visible
         /\ Reset(s6, {"v", "state", "agent", "seq", "visible"})
    <2>1. s5 \in [Names -> Values \cup {Nothing}] /\ s5["visible"] = Nothing
      BY <1>4, <1>16 DEF Stage, Seen
    <2> HIDE DEF vis
    <2>2. Stage(p6, s6, (15 + MaxAgent + d) + (3 + 5))
      <3> DEFINE name == "visible"
                 value == vis
                 n == 15 + MaxAgent + d
                 k == 5
      <3>1. name \in Names /\ name # "message" /\ n \in Nat /\ k \in Nat
        BY <1>2, <1>4
      <3>2. value \in Unmarked /\ Len(value) <= k /\ ValueOf(name, value) # Error
        BY <1>9
      <3>3. s5[name] = Nothing /\ Stage(p5, s5, n)
        BY <1>16, <2>1
      <3> HIDE DEF name, value, n, k
      <3>4. Stage(Append(p5, Field(name, value)), [s5 EXCEPT ![name] = ValueOf(name, value)], n + (3 + k))
        BY <3>1, <3>2, <3>3, NextStage
      <3> QED
        BY <3>4 DEF name, value, n, k
    <2>3. (15 + MaxAgent + d) + (3 + 5) = 23 + MaxAgent + d
      BY <1>2
    <2> QED
      BY <1>4, <1>9, <1>16, <2>1, <2>2, <2>3
  <1> HIDE DEF p6, s6
  <1>18. /\ Stage(p7, s7, 27 + MaxAgent + d) /\ s7["v"] = "1" /\ s7["state"] = r.state /\ s7["agent"] = r.agent
         /\ s7["seq"] = r.seq /\ s7["visible"] = r.visible /\ s7["exited"] = bit /\ s7["message"] = Nothing
    <2>1. s6 \in [Names -> Values \cup {Nothing}] /\ s6["exited"] = Nothing /\ s6["message"] = Nothing
      BY <1>4, <1>17 DEF Stage, Seen
    <2> HIDE DEF bit
    <2>2. Stage(p7, s7, (23 + MaxAgent + d) + (3 + 1))
      <3> DEFINE name == "exited"
                 value == <<bit>>
                 n == 23 + MaxAgent + d
                 k == 1
      <3>1. name \in Names /\ name # "message" /\ n \in Nat /\ k \in Nat
        BY <1>2, <1>4
      <3>2. value \in Unmarked /\ Len(value) <= k /\ ValueOf(name, value) # Error
        BY <1>7
      <3>3. s6[name] = Nothing /\ Stage(p6, s6, n)
        BY <1>17, <2>1
      <3> HIDE DEF name, value, n, k
      <3>4. Stage(Append(p6, Field(name, value)), [s6 EXCEPT ![name] = ValueOf(name, value)], n + (3 + k))
        BY <3>1, <3>2, <3>3, NextStage
      <3> QED
        BY <3>4 DEF name, value, n, k
    <2>3. (23 + MaxAgent + d) + (3 + 1) = 27 + MaxAgent + d
      BY <1>2
    <2> QED
      BY <1>4, <1>7, <1>17, <2>1, <2>2, <2>3
  <1> HIDE DEF p7, s7
  <1>19. /\ Stage(p8, s8, 30 + MaxAgent + d + 3 * MaxMessage) /\ s8["v"] = "1" /\ s8["state"] = r.state
         /\ s8["agent"] = r.agent /\ s8["seq"] = r.seq /\ s8["visible"] = r.visible /\ s8["exited"] = bit
         /\ s8["message"] = r.message
    <2>1. s7 \in [Names -> Values \cup {Nothing}]
      BY <1>18 DEF Stage, Seen
    <2> HIDE DEF msg, bit
    <2>2. Stage(p8, s8, (27 + MaxAgent + d) + (3 + 3 * MaxMessage))
      <3> DEFINE name == "message"
                 n == 27 + MaxAgent + d
                 k == 3 * MaxMessage
                 x == r.message
      <3>1. name \in Names /\ n \in Nat /\ k \in Nat
        BY <1>2, <1>4
      <3>2. /\ msg \in Unmarked \cup {Nothing}
            /\ msg = Nothing => x = Nothing
            /\ msg # Nothing => msg \in Seq(DOMAIN Code) /\ x = ValueOf(name, msg) /\ x # Error /\ Len(msg) <= k
        BY <1>11
      <3>3. s7[name] = Nothing /\ Stage(p7, s7, n)
        BY <1>18
      <3> HIDE DEF name, n, k, x
      <3>4. Stage(p7 \o Option(name, msg), [s7 EXCEPT ![name] = x], n + (3 + k))
        BY <3>1, <3>2, <3>3, OptionStage
      <3> QED
        BY <3>4 DEF name, n, k, x
    <2>3. (27 + MaxAgent + d) + (3 + 3 * MaxMessage) = 30 + MaxAgent + d + 3 * MaxMessage
      BY <1>2
    <2> QED
      BY <1>4, <1>18, <2>1, <2>2, <2>3
  <1> HIDE DEF s8, msg, dec, vis, bit
  <1>20. FieldsFor(r) = p8
    <2> DEFINE v == Field("v", <<"1">>)
               st == Field("state", <<r.state>>)
               se == Field("seq", dec)
               fl == Field("visible", vis)
               ex == Field("exited", <<bit>>)
               S == Sound
    <2>1. FieldsFor(r) = ((<<TheCode, v, st>> \o Option("agent", r.agent)) \o <<se, fl, ex>>) \o Option("message", msg)
      BY DEF FieldsFor, TheCode, msg, dec, vis, bit
    <2>2. <<TheCode, v, st>> = p3
      <3>1. p3 = Append(Append(<<TheCode>>, v), st)
        BY DEF p3, p2
      <3> HIDE DEF v, st
      <3> QED
        BY <3>1
    <2>3. p4 \o <<se, fl, ex>> = p7
      <3>1. p7 = Append(Append(Append(p4, se), fl), ex)
        BY DEF p7, p6, p5
      <3>2. p4 \in Seq(S)
        BY <1>15 DEF Stage, Fields
      <3>3. se \in S /\ fl \in S /\ ex \in S
        BY <1>4, <1>7, <1>8, <1>9, UnmarkedField
      <3> HIDE DEF se, fl, ex, S
      <3>4. p4 \o <<se, fl, ex>> = Append(Append(Append(p4, se), fl), ex)
        BY <3>2, <3>3
      <3> QED
        BY <3>1, <3>4
    <2>4. p4 = p3 \o Option("agent", r.agent)
      BY DEF p4
    <2> QED
      BY <2>1, <2>2, <2>3, <2>4, Zenon
  <1> QED
    BY <1>19, <1>20 DEF d, bit

\* The worst case of a formatted report is within the limit.
LEMMA ReportIsRead ==
    ASSUME NEW r \in WellFormed
    PROVE  FieldsFor(r) \in Fields /\ Parse(Format(r)) = r
  <1> DEFINE fs == FieldsFor(r)
             d == Len(Decimal(MaxSeq))
             n == 30 + MaxAgent + d + 3 * MaxMessage
             input == Assembled(StFrame, fs)
  <1>1. PICK s : /\ Stage(fs, s, n)
                 /\ s["v"] = "1" /\ s["state"] = r.state /\ s["agent"] = r.agent /\ s["seq"] = r.seq
                 /\ s["visible"] = r.visible /\ s["exited"] = (IF r.exited THEN "1" ELSE "0")
                 /\ s["message"] = r.message
    BY ReportStages
  <1>2. fs \in Fields /\ s \in Seen /\ Taken(Tail(fs)) = s /\ Len(Joined(fs, ";")) <= n
    BY <1>1 DEF Stage
  <1>3. StFrame \in FrameType /\ StFrame \in Proper /\ StFrame # Bare
        /\ StFrame.open = <<"ESC", "]">> /\ StFrame.close = <<"ESC", "\\">>
    BY DEF FrameType, Proper, StFrame, Bare
  <1>4. Len(input) <= MaxReport
    <2> DEFINE J == Joined(fs, ";")
               o == StFrame.open
               c == StFrame.close
    <2>1. o \in Seq(Tokens) /\ c \in Seq(Tokens) /\ Len(o) = 2 /\ Len(c) = 2
      BY <1>3, FrameIs
    <2>2. J \in Seq(Tokens)
      BY <1>2, PayloadIs
    <2>3. input = (o \o J) \o c
      BY DEF Assembled
    <2>4. Len(J) <= n
      BY <1>2
    <2> HIDE DEF J, o, c, input
    <2>5. Len(input) = 2 + Len(J) + 2 /\ Len(J) \in Nat
      <3> DEFINE u == o \o J
      <3>1. u \in Seq(Tokens) /\ Len(u) = Len(o) + Len(J) /\ Len(J) \in Nat
        <4>1. Len(J) \in Nat
          BY <2>2, LenProperties
        <4>2. o \in Seq(Tokens) /\ J \in Seq(Tokens)
          BY <2>1, <2>2
        <4>3. u \in Seq(Tokens) /\ Len(u) = Len(o) + Len(J)
          BY <4>2, ConcatIs
        <4> QED
          BY <4>1, <4>3
      <3> HIDE DEF u
      <3>2. Len(u \o c) = Len(u) + Len(c)
        <4>1. u \in Seq(Tokens) /\ c \in Seq(Tokens)
          BY <2>1, <3>1
        <4> QED
          BY <4>1, ConcatIs
      <3> QED
        BY <2>1, <2>3, <3>1, <3>2 DEF u
    <2>6. n + 4 <= MaxReport /\ n \in Nat /\ MaxReport \in Nat
      <3>1. MaxSeq \in Nat /\ MaxAgent \in Nat /\ MaxMessage \in Nat /\ MaxReport \in Nat
            /\ 34 + MaxAgent + d + 3 * MaxMessage <= MaxReport
        BY LimitAssumption
      <3>2. d \in Nat
        BY <3>1, NumberBack, LenProperties
      <3> HIDE DEF d
      <3> QED
        BY <3>1, <3>2
    <2> HIDE DEF n
    <2> QED
      BY <2>4, <2>5, <2>6
  <1>5. input \in Seq(Tokens) /\ Parse(input) = ReportOf(s)
    <2>1. ~ (Len(input) > MaxReport)
      <3>1. input \in Seq(Tokens)
        BY <1>2, <1>3, ParseIs
      <3>2. Len(input) \in Nat /\ MaxReport \in Nat
        BY <3>1, LimitAssumption, LenProperties
      <3> HIDE DEF input
      <3> QED
        BY <1>4, <3>2
    <2> QED
      BY <1>2, <1>3, <2>1, ParseIs
  <1>6. ReportOf(s) = r
    <2>1. s # Error
      BY <1>2, SeenIsNoError
    <2>2. /\ r.state \in States /\ r.agent \in Kind("agent") \cup {Nothing} /\ r.seq \in 0..MaxSeq
          /\ r.visible \in SUBSET Flags /\ r.exited \in BOOLEAN /\ r.message \in Kind("message") \cup {Nothing}
          /\ (r.state = "none" <=> r.agent = Nothing)
          /\ r = [state |-> r.state, agent |-> r.agent, seq |-> r.seq, visible |-> r.visible,
                  exited |-> r.exited, message |-> r.message]
      BY DEF WellFormed
    <2>3. Nothing \notin {s["v"], s["state"], s["seq"]} /\ s["visible"] # Nothing
      <3>1. "1" # Nothing
        BY TokenAssumption, ErrorIsNone
      <3>2. r.state # Nothing
        BY <2>2, TokenAssumption, ErrorIsNone
      <3>3. r.seq # Nothing /\ r.visible # Nothing
        BY <2>2, LimitAssumption, ErrorIsNone, NoValueAssumption
      <3> QED
        BY <1>1, <3>1, <3>2, <3>3
    <2>4. (s["exited"] = "1") = r.exited
      <3>1. "0" # "1"
        OBVIOUS
      <3> QED
        BY <1>1, <2>2, <3>1
    <2>5. NewReport(r.state, r.agent, r.seq, r.visible, r.exited, r.message) = r
      <3>1. ~ (r.message # Nothing /\ Len(r.message) > MaxMessage)
        <4>1. ASSUME r.message # Nothing
              PROVE  ~ (Len(r.message) > MaxMessage)
          <5>1. r.message \in Seq(Bytes) /\ Len(r.message) <= MaxMessage
            BY <2>2, <4>1, KindIs
          <5> DEFINE l == Len(r.message)
          <5>2. l \in Nat /\ MaxMessage \in Nat /\ l <= MaxMessage
            BY <5>1, LimitAssumption
          <5> HIDE DEF l
          <5>3. ~ (l > MaxMessage)
            BY <5>2
          <5> QED
            BY <5>3 DEF l
        <4> QED
          BY <4>1
      <3>2. ~ ((r.state = "none") # (r.agent = Nothing))
        BY <2>2
      <3> QED
        BY <2>2, <3>1, <3>2, Zenon DEF NewReport
    <2>6. ReportOf(s) = NewReport(s["state"], s["agent"], s["seq"], s["visible"], s["exited"] = "1", s["message"])
      BY <2>1, <2>3, Zenon DEF ReportOf
    <2>7. ReportOf(s) = NewReport(r.state, r.agent, r.seq, r.visible, r.exited, r.message)
      BY <1>1, <2>4, <2>6
    <2> QED
      BY <2>5, <2>7
  <1>7. Parse(Format(r)) = r
    BY <1>5, <1>6 DEF Format
  <1> QED
    BY <1>2, <1>7

-----------------------------------------------------------------------------
(* What is read is a report *)

\* Values that make a report make a well formed one.
LEMMA ReadIsReport ==
    ASSUME NEW s \in Seen
    PROVE  /\ ReportOf(s) # Error => ReportOf(s) \in WellFormed
           /\ ReportOf(s) # Error => s["v"] # Nothing /\ s["state"] # Nothing /\ s["seq"] # Nothing
  <1> DEFINE visible == IF s["visible"] = Nothing THEN {} ELSE s["visible"]
             exited == s["exited"] = "1"
             state == s["state"]
             agent == s["agent"]
             n == s["seq"]
             message == s["message"]
             r == [state |-> state, agent |-> agent, seq |-> n, visible |-> visible,
                   exited |-> exited, message |-> message]
             bad == Nothing \in {s["v"], s["state"], s["seq"]}
  <1>1. s # Error
    BY SeenIsNoError
  <1>2. ReportOf(s) = IF bad THEN Error ELSE NewReport(state, agent, n, visible, exited, message)
    BY <1>1, Zenon DEF ReportOf
  <1>3. NewReport(state, agent, n, visible, exited, message) =
           IF (state = "none") # (agent = Nothing) THEN Error
           ELSE IF message # Nothing /\ Len(message) > MaxMessage THEN Error ELSE r
    BY Zenon DEF NewReport
  <1>4. \A name \in Names : s[name] = Nothing \/ s[name] \in Kind(name)
    BY DEF Seen
  <1>5. /\ state = Nothing \/ state \in States
        /\ agent = Nothing \/ agent \in Kind("agent")
        /\ n = Nothing \/ n \in 0..MaxSeq
        /\ message = Nothing \/ message \in Kind("message")
        /\ s["visible"] = Nothing \/ s["visible"] \in SUBSET Flags
    BY <1>4, KindIs DEF Names
  <1>6. visible \in SUBSET Flags
    BY <1>5
  <1>7. exited \in BOOLEAN
    OBVIOUS
  <1>8. ~ bad => state # Nothing /\ n # Nothing /\ s["v"] # Nothing
    OBVIOUS
  <1> HIDE DEF visible, exited, state, agent, n, message, bad
  <1>9. ASSUME ReportOf(s) # Error
        PROVE  r \in WellFormed /\ ReportOf(s) = r /\ ~ bad
    <2>1. ~ bad
      BY <1>2, <1>9
    <2>2. (state = "none") = (agent = Nothing) /\ ReportOf(s) = r
      BY <1>2, <1>3, <1>9, <2>1, Zenon
    <2>3. r \in [state : States, agent : Kind("agent") \cup {Nothing}, seq : 0..MaxSeq,
                 visible : SUBSET Flags, exited : BOOLEAN, message : Kind("message") \cup {Nothing}]
      BY <1>5, <1>6, <1>7, <1>8, <2>1
    <2>4. r.state = state /\ r.agent = agent
      OBVIOUS
    <2> HIDE DEF r
    <2>5. r \in WellFormed
      BY <2>2, <2>3, <2>4 DEF WellFormed
    <2> QED
      BY <2>1, <2>2, <2>5
  <1> QED
    BY <1>8, <1>9 DEF state, n

\* What a wire of fields is read as is a report, or nothing.
LEMMA ParseIsReport ==
    ASSUME NEW fs \in Fields, NEW ends \in FrameType, Parse(Assembled(ends, fs)) # Error
    PROVE  /\ Parse(Assembled(ends, fs)) \in WellFormed
           /\ Parse(Assembled(ends, fs)) = ReportOf(Taken(Tail(fs)))
           /\ ~ (Len(Assembled(ends, fs)) > MaxReport) /\ ends \in Proper
           /\ Tail(fs) \in Seq(Readable) /\ Reads(Tail(fs), Taken(Tail(fs)))
           /\ \A name \in {"v", "state", "seq"} : Taken(Tail(fs))[name] # Nothing
  <1> DEFINE s == Taken(Tail(fs))
  <1>1. /\ Parse(Assembled(ends, fs)) = ReportOf(s)
        /\ ~ (Len(Assembled(ends, fs)) > MaxReport) /\ ends \in Proper
    BY ParseIs
  <1>2. Tail(fs) \in Seq(Readable)
    BY OneMoreField, CodeIsSound
  <1>3. s # Error
    BY <1>1 DEF ReportOf
  <1>4. Reads(Tail(fs), s)
    BY <1>2, <1>3, TakenReads
  <1>5. s \in Seen
    BY <1>4 DEF Reads
  <1> HIDE DEF s
  <1>6. ReportOf(s) \in WellFormed /\ s["v"] # Nothing /\ s["state"] # Nothing /\ s["seq"] # Nothing
    BY <1>1, <1>5, ReadIsReport
  <1> QED
    BY <1>1, <1>2, <1>4, <1>6 DEF s

-----------------------------------------------------------------------------
(* The wire on its way *)

\* The inductive invariant: the wire is a frame around fields, and is what was
\* formatted as long as nothing was edited.
CodecInv ==
    /\ sent \in Reports
    /\ frame \in Frames \cup {StFrame}
    /\ edits \in Nat
    /\ \E fields \in Fields : wire = Assembled(frame, fields)
    /\ edits = 0 => wire = Format(sent)

\* The frames in use are frames with their two ends or without one.
LEMMA FramesAre == \A ends \in Frames \cup {StFrame} : ends \in FrameType
  <1>1. StFrame \in FrameType
    BY DEF FrameType, StFrame
  <1> QED
    BY <1>1, WireAssumption DEF FrameType

\* The fields that are added can stand in a payload.
LEMMA SpareIsSound == \A field \in Spare : field \in Sound
  BY WireAssumption DEF Sound, Readable

\* What Report::new() gives is well formed.
LEMMA ReportsAreWellFormed == \A r \in Reports : r \in WellFormed
  <1> SUFFICES ASSUME NEW r \in Reports
               PROVE  r \in WellFormed
    OBVIOUS
  <1>1. /\ r \in [state : States, agent : Agents \cup {Nothing}, seq : Numbers,
                  visible : SUBSET Flags, exited : BOOLEAN, message : Messages \cup {Nothing}]
        /\ NewReport(r.state, r.agent, r.seq, r.visible, r.exited, r.message) # Error
    BY DEF Reports
  <1>2. r.agent \in Kind("agent") \cup {Nothing}
    BY <1>1, ReportAssumption, KindIs
  <1>3. r.seq \in 0..MaxSeq
    BY <1>1, ReportAssumption
  <1>4. /\ ~ ((r.state = "none") # (r.agent = Nothing))
        /\ ~ (r.message # Nothing /\ Len(r.message) > MaxMessage)
    BY <1>1, Zenon DEF NewReport
  <1>5. r.message \in Kind("message") \cup {Nothing}
    <2>1. CASE r.message # Nothing
      <3>1. r.message \in Seq(Bytes) /\ IsUtf8(r.message)
        BY <1>1, <2>1, ReportAssumption
      <3>2. Len(r.message) \in Nat /\ MaxMessage \in Nat
        BY <3>1, LimitAssumption, LenProperties
      <3>3. \A l, m \in Nat : ~ (l > m) => l <= m
        OBVIOUS
      <3>4. Len(r.message) <= MaxMessage
        BY <1>4, <2>1, <3>2, <3>3
      <3> QED
        BY <3>1, <3>4, KindIs
    <2> QED
      BY <2>1
  <1>6. r \in [state : States, agent : Kind("agent") \cup {Nothing}, seq : 0..MaxSeq,
               visible : SUBSET Flags, exited : BOOLEAN, message : Kind("message") \cup {Nothing}]
    BY <1>1, <1>2, <1>3, <1>5
  <1> QED
    BY <1>1, <1>4, <1>6 DEF WellFormed

\* A sequence without one element, place by place.
LEMMA RemoveAtIs ==
    ASSUME NEW S, NEW s \in Seq(S), NEW place \in 1..Len(s)
    PROVE  /\ RemoveAt(s, place) \in Seq(S) /\ Len(RemoveAt(s, place)) = Len(s) - 1
           /\ \A i \in 1..Len(s) - 1 : RemoveAt(s, place)[i] = IF i < place THEN s[i] ELSE s[i + 1]
  <1> DEFINE N == Len(s)
             a == SubSeq(s, 1, place - 1)
             b == SubSeq(s, place + 1, N)
             t == a \o b
  <1>1. N \in Nat /\ place \in 1..N /\ place \in Nat
    OBVIOUS
  <1>2. a \in Seq(S) /\ Len(a) = place - 1 /\ \A i \in 1..place - 1 : a[i] = s[i]
    OBVIOUS
  <1>3. b \in Seq(S) /\ Len(b) = N - place /\ \A i \in 1..N - place : b[i] = s[i + place]
    OBVIOUS
  <1> HIDE DEF N, a, b
  <1>4. /\ t \in Seq(S) /\ Len(t) = N - 1
        /\ \A i \in 1..place - 1 : t[i] = a[i]
        /\ \A i \in 1..N - place : t[(place - 1) + i] = b[i]
    <2>1. /\ t \in Seq(S) /\ Len(t) = Len(a) + Len(b)
          /\ \A i \in 1..Len(a) : t[i] = a[i]
          /\ \A i \in 1..Len(b) : t[Len(a) + i] = b[i]
      <3>1. a \in Seq(S) /\ b \in Seq(S)
        BY <1>2, <1>3
      <3> QED
        BY <3>1, ConcatIs
    <2> HIDE DEF t
    <2> QED
      BY <1>1, <1>2, <1>3, <2>1
  <1> HIDE DEF t
  <1>5. ASSUME NEW i \in 1..N - 1
        PROVE  t[i] = IF i < place THEN s[i] ELSE s[i + 1]
    <2>1. CASE i < place
      <3>1. i \in 1..place - 1
        BY <1>1, <2>1
      <3> QED
        BY <1>2, <1>4, <2>1, <3>1
    <2>2. CASE ~ (i < place)
      <3> DEFINE j == i - (place - 1)
      <3>1. j \in 1..N - place /\ (place - 1) + j = i /\ j + place = i + 1
        BY <1>1, <2>2
      <3> HIDE DEF j
      <3> QED
        BY <1>3, <1>4, <2>2, <3>1
    <2> QED
      BY <2>1, <2>2
  <1> QED
    BY <1>4, <1>5 DEF RemoveAt, t, a, b, N

\* A sequence with one element more, place by place.
LEMMA InsertAtIs ==
    ASSUME NEW S, NEW s \in Seq(S), NEW place \in 1..Len(s) + 1, NEW e \in S
    PROVE  /\ InsertAt(s, place, e) \in Seq(S) /\ Len(InsertAt(s, place, e)) = Len(s) + 1
           /\ \A i \in 1..Len(s) + 1 :
                 InsertAt(s, place, e)[i] = IF i < place THEN s[i] ELSE IF i = place THEN e ELSE s[i - 1]
  <1> DEFINE N == Len(s)
             a == SubSeq(s, 1, place - 1)
             b == SubSeq(s, place, N)
             m == a \o <<e>>
             t == m \o b
  <1>1. N \in Nat /\ place \in 1..N + 1 /\ place \in Nat
    OBVIOUS
  <1>2. a \in Seq(S) /\ Len(a) = place - 1 /\ \A i \in 1..place - 1 : a[i] = s[i]
    OBVIOUS
  <1>3. b \in Seq(S) /\ Len(b) = N - place + 1 /\ \A i \in 1..N - place + 1 : b[i] = s[(i + place) - 1]
    OBVIOUS
  <1> HIDE DEF N, a, b
  <1>4. m \in Seq(S) /\ Len(m) = place /\ m[place] = e /\ \A i \in 1..place - 1 : m[i] = s[i]
    BY <1>1, <1>2
  <1> HIDE DEF m
  <1>5. /\ t \in Seq(S) /\ Len(t) = N + 1
        /\ \A i \in 1..place : t[i] = m[i]
        /\ \A i \in 1..N - place + 1 : t[place + i] = b[i]
    <2>1. /\ t \in Seq(S) /\ Len(t) = Len(m) + Len(b)
          /\ \A i \in 1..Len(m) : t[i] = m[i]
          /\ \A i \in 1..Len(b) : t[Len(m) + i] = b[i]
      <3>1. m \in Seq(S) /\ b \in Seq(S)
        BY <1>3, <1>4
      <3> QED
        BY <3>1, ConcatIs
    <2> HIDE DEF t
    <2> QED
      BY <1>1, <1>3, <1>4, <2>1
  <1> HIDE DEF t
  <1>6. ASSUME NEW i \in 1..N + 1
        PROVE  t[i] = IF i < place THEN s[i] ELSE IF i = place THEN e ELSE s[i - 1]
    <2>1. CASE i < place
      <3>1. i \in 1..place - 1 /\ i \in 1..place
        BY <1>1, <2>1
      <3> QED
        BY <1>4, <1>5, <2>1, <3>1
    <2>2. CASE i = place
      <3>1. i \in 1..place /\ ~ (i < place)
        BY <1>1, <2>2
      <3> QED
        BY <1>4, <1>5, <2>2, <3>1
    <2>3. CASE i > place
      <3> DEFINE j == i - place
      <3>1. j \in 1..N - place + 1 /\ place + j = i /\ (j + place) - 1 = i - 1 /\ i # place /\ ~ (i < place)
        BY <1>1, <2>3
      <3> HIDE DEF j
      <3> QED
        BY <1>3, <1>5, <3>1
    <2> QED
      BY <1>1, <2>1, <2>2, <2>3
  <1> QED
    BY <1>5, <1>6 DEF InsertAt, t, m, a, b, N

\* The code stays in front, whatever is done behind it.
LEMMA EditedFields ==
    ASSUME NEW fs \in Fields
    PROVE  /\ Len(fs) \in Nat \ {0}
           /\ \A field \in Sound, place \in 2..Len(fs) + 1 : InsertAt(fs, place, field) \in Fields
           /\ \A place \in 2..Len(fs) : RemoveAt(fs, place) \in Fields /\ Len(RemoveAt(fs, place)) = Len(fs) - 1
           /\ \A place \in 2..Len(fs) : fs[place] \in Sound
  <1> DEFINE S == Sound
             N == Len(fs)
  <1>1. fs \in Seq(S) /\ fs[1] = TheCode /\ fs # <<>>
    BY DEF Fields
  <1> HIDE DEF S
  <1>2. N \in Nat /\ N # 0 /\ DOMAIN fs = 1..N
    BY <1>1
  <1> HIDE DEF N
  <1>3. ASSUME NEW field \in S, NEW place \in 2..N + 1
        PROVE  InsertAt(fs, place, field) \in Fields
    <2> DEFINE t == InsertAt(fs, place, field)
    <2>1. place \in 1..Len(fs) + 1 /\ 1 \in 1..Len(fs) + 1 /\ 1 < place
      BY <1>2 DEF N
    <2>2. /\ t \in Seq(S) /\ Len(t) = Len(fs) + 1
          /\ \A i \in 1..Len(fs) + 1 : t[i] = IF i < place THEN fs[i] ELSE IF i = place THEN field ELSE fs[i - 1]
      BY <1>1, <2>1, InsertAtIs
    <2> HIDE DEF t
    <2>3. t[1] = TheCode
      BY <1>1, <2>1, <2>2
    <2>4. t # <<>>
      BY <1>2, <2>2 DEF N
    <2> QED
      BY <2>2, <2>3, <2>4 DEF Fields, S, t
  <1>4. ASSUME NEW place \in 2..N
        PROVE  RemoveAt(fs, place) \in Fields /\ Len(RemoveAt(fs, place)) = Len(fs) - 1
    <2> DEFINE t == RemoveAt(fs, place)
    <2>1. place \in 1..Len(fs) /\ 1 \in 1..Len(fs) - 1 /\ 1 < place /\ Len(fs) - 1 # 0
      BY <1>2 DEF N
    <2>2. /\ t \in Seq(S) /\ Len(t) = Len(fs) - 1
          /\ \A i \in 1..Len(fs) - 1 : t[i] = IF i < place THEN fs[i] ELSE fs[i + 1]
      BY <1>1, <2>1, RemoveAtIs
    <2> HIDE DEF t
    <2>3. t[1] = TheCode
      BY <1>1, <2>1, <2>2
    <2>4. t # <<>>
      BY <1>2, <2>1, <2>2 DEF N
    <2> QED
      BY <2>2, <2>3, <2>4 DEF Fields, S, t
  <1>5. \A place \in 2..N : fs[place] \in S
    BY <1>1, <1>2
  <1> QED
    BY <1>2, <1>3, <1>4, <1>5 DEF N, S

\* The wire is its frame around fields, which parse() finds again.
LEMMA TheWire ==
    ASSUME CodecInv
    PROVE  /\ frame \in FrameType
           /\ \E fs \in Fields : wire = Assembled(frame, fs) /\ FieldsOf(wire, frame) = fs
  <1>1. frame \in FrameType
    BY FramesAre DEF CodecInv
  <1>2. PICK fs \in Fields : wire = Assembled(frame, fs)
    BY DEF CodecInv
  <1>3. FieldsOf(wire, frame) = fs
    BY <1>1, <1>2, ParseIs
  <1> QED
    BY <1>1, <1>2, <1>3

\* What an edit makes of the fields, for each kind of edit.
LEMMA EditIs ==
    ASSUME CodecInv, Next, NEW fs \in Fields, FieldsOf(wire, frame) = fs
    PROVE  \E gs \in Fields, ends \in Frames \cup {StFrame} :
              /\ Edit(ends, gs)
              /\ \/ /\ ends = frame /\ kind' \in {"extend", "add"}
                    /\ \E field \in Spare, place \in 2..Len(fs) + 1 :
                          /\ gs = InsertAt(fs, place, field)
                          /\ kind' = "extend" => IsField(field) /\ ~ IsKnown(field)
                 \/ ends = frame /\ kind' = "drop"
                 \/ /\ ends = frame /\ kind' = "move"
                    /\ \E from \in 2..Len(fs), to \in 2..Len(fs) :
                          gs = InsertAt(RemoveAt(fs, from), to, fs[from])
                 \/ kind' = "reframe" /\ gs = fs
  <1>1. frame \in Frames \cup {StFrame}
    BY DEF CodecInv
  <1>2. CASE Add
    <2>1. PICK field \in Spare, place \in 2..Len(fs) + 1 :
             /\ Edit(frame, InsertAt(fs, place, field))
             /\ kind' = IF IsField(field) /\ ~ IsKnown(field) THEN "extend" ELSE "add"
      BY <1>2 DEF Add
    <2>2. InsertAt(fs, place, field) \in Fields
      BY SpareIsSound, EditedFields
    <2>3. kind' \in {"extend", "add"} /\ (kind' = "extend" => IsField(field) /\ ~ IsKnown(field))
      BY <2>1
    <2> QED
      BY <1>1, <2>1, <2>2, <2>3
  <1>3. CASE Drop
    <2>1. PICK place \in 2..Len(fs) : Edit(frame, RemoveAt(fs, place)) /\ kind' = "drop"
      BY <1>3 DEF Drop
    <2>2. RemoveAt(fs, place) \in Fields
      BY EditedFields
    <2> QED
      BY <1>1, <2>1, <2>2
  <1>4. CASE Move
    <2>1. PICK from \in 2..Len(fs), to \in 2..Len(fs) :
             Edit(frame, InsertAt(RemoveAt(fs, from), to, fs[from])) /\ kind' = "move"
      BY <1>4 DEF Move
    <2>2. /\ Len(fs) \in Nat /\ RemoveAt(fs, from) \in Fields /\ Len(RemoveAt(fs, from)) = Len(fs) - 1
          /\ fs[from] \in Sound
      BY EditedFields
    <2>3. to \in 2..Len(RemoveAt(fs, from)) + 1
      BY <2>2
    <2>4. InsertAt(RemoveAt(fs, from), to, fs[from]) \in Fields
      BY <2>2, <2>3, EditedFields
    <2> QED
      BY <1>1, <2>1, <2>4
  <1>5. CASE Reframe
    <2>1. PICK ends \in Frames \ {frame} : Edit(ends, fs) /\ kind' = "reframe"
      BY <1>5 DEF Reframe
    <2> QED
      BY <2>1
  <1> QED
    BY <1>2, <1>3, <1>4, <1>5 DEF Next

\* A formatted report is its fields in the frame of format().
LEMMA CodecInvInit == Init => CodecInv
  <1> SUFFICES ASSUME Init
               PROVE  CodecInv
    OBVIOUS
  <1>1. sent \in Reports /\ wire = Format(sent) /\ frame = StFrame /\ edits = 0
    BY DEF Init
  <1>2. FieldsFor(sent) \in Fields
    BY <1>1, ReportsAreWellFormed, ReportIsRead
  <1>3. wire = Assembled(frame, FieldsFor(sent))
    BY <1>1 DEF Format
  <1> QED
    BY <1>1, <1>2, <1>3 DEF CodecInv

\* Every edit leaves a frame around fields, the code first.
LEMMA CodecInvStep == CodecInv /\ [Next]_vars => CodecInv'
  <1> SUFFICES ASSUME CodecInv, [Next]_vars
               PROVE  CodecInv'
    OBVIOUS
  <1>1. CASE Next
    <2>1. PICK fs \in Fields : FieldsOf(wire, frame) = fs
      BY TheWire
    <2>2. PICK gs \in Fields, ends \in Frames \cup {StFrame} : Edit(ends, gs)
      BY <1>1, <2>1, EditIs
    <2>3. edits' \in Nat /\ edits' # 0
      BY <2>2 DEF Edit, CodecInv
    <2> QED
      BY <2>2, <2>3 DEF Edit, CodecInv
  <1>2. CASE UNCHANGED vars
    BY <1>2 DEF CodecInv, vars, Assembled, Format
  <1> QED
    BY <1>1, <1>2

\* Whatever happens to a report on its way, the wire is a frame around fields
\* that begin with the code, and the reader takes them apart where the writer
\* put them together.
THEOREM WireIsFields == Spec => []CodecInv
  <1>1. Init => CodecInv
    BY CodecInvInit
  <1>2. CodecInv /\ [Next]_vars => CodecInv'
    BY CodecInvStep
  <1> QED
    BY <1>1, <1>2, PTL DEF Spec

\* What format() writes, parse() reads back as the same report; and whatever
\* parse() accepts, of any frame and fields, can be formatted and is the same
\* again: for all agents, messages, sequence numbers and limits.
THEOREM ReportsRoundTrip == Spec => []RoundTrip
  <1>1. CodecInv => RoundTrip
    <2> SUFFICES ASSUME CodecInv
                 PROVE  RoundTrip
      OBVIOUS
    <2>1. edits = 0 => Parse(wire) = sent
      <3>1. sent \in WellFormed
        BY ReportsAreWellFormed DEF CodecInv
      <3> QED
        BY <3>1, ReportIsRead DEF CodecInv
    <2>2. Parse(wire) # Error => Parse(Format(Parse(wire))) = Parse(wire)
      <3>1. Parse(wire) # Error => Parse(wire) \in WellFormed
        BY TheWire, ParseIsReport
      <3> QED
        BY <3>1, ReportIsRead
    <2> QED
      BY <2>1, <2>2 DEF RoundTrip
  <1> QED
    BY <1>1, WireIsFields, PTL

-----------------------------------------------------------------------------
(* The order of the fields *)

\* The elements of a sequence, in another order.
Reordered(a, b, p) ==
    /\ p \in [DOMAIN b -> DOMAIN a]
    /\ \A i \in DOMAIN b : b[i] = a[p[i]]
    /\ \A i, j \in DOMAIN b : p[i] = p[j] => i = j
    /\ \A i \in DOMAIN a : \E j \in DOMAIN b : p[j] = i

\* Which values fields read as does not depend on their order.
LEMMA ReadsReordered ==
    ASSUME NEW a, NEW b, NEW p, Reordered(a, b, p), NEW seen
    PROVE  Reads(a, seen) <=> Reads(b, seen)
  <1>1. /\ \A i \in DOMAIN b : p[i] \in DOMAIN a /\ b[i] = a[p[i]]
        /\ \A i, j \in DOMAIN b : p[i] = p[j] => i = j
        /\ \A i \in DOMAIN a : \E j \in DOMAIN b : p[j] = i
    BY DEF Reordered
  <1>2. \A i \in DOMAIN a : \E j \in DOMAIN b : p[j] = i /\ b[j] = a[i]
    BY <1>1
  <1>3. ASSUME Reads(a, seen)
        PROVE  Reads(b, seen)
    <2>1. /\ seen \in Seen
          /\ \A i \in DOMAIN a : IsField(a[i])
          /\ \A i, j \in DOMAIN a, name \in Names : Gives(a[i], name) /\ Gives(a[j], name) => i = j
          /\ \A i \in DOMAIN a, name \in Names :
                Gives(a[i], name) => seen[name] \in Kind(name) /\ seen[name] = ValueOf(name, ValueIn(a[i]))
          /\ \A name \in Names : seen[name] # Nothing => \E i \in DOMAIN a : Gives(a[i], name)
      BY <1>3 DEF Reads
    <2>2. \A i \in DOMAIN b : IsField(b[i])
      BY <1>1, <2>1
    <2>3. \A i, j \in DOMAIN b, name \in Names : Gives(b[i], name) /\ Gives(b[j], name) => i = j
      <3> TAKE i, j \in DOMAIN b, name \in Names
      <3> QED
        BY <1>1, <2>1
    <2>4. \A i \in DOMAIN b, name \in Names :
             Gives(b[i], name) => seen[name] \in Kind(name) /\ seen[name] = ValueOf(name, ValueIn(b[i]))
      <3> TAKE i \in DOMAIN b, name \in Names
      <3> QED
        BY <1>1, <2>1
    <2>5. \A name \in Names : seen[name] # Nothing => \E i \in DOMAIN b : Gives(b[i], name)
      BY <1>2, <2>1
    <2> QED
      BY <2>1, <2>2, <2>3, <2>4, <2>5 DEF Reads
  <1>4. ASSUME Reads(b, seen)
        PROVE  Reads(a, seen)
    <2>1. /\ seen \in Seen
          /\ \A i \in DOMAIN b : IsField(b[i])
          /\ \A i, j \in DOMAIN b, name \in Names : Gives(b[i], name) /\ Gives(b[j], name) => i = j
          /\ \A i \in DOMAIN b, name \in Names :
                Gives(b[i], name) => seen[name] \in Kind(name) /\ seen[name] = ValueOf(name, ValueIn(b[i]))
          /\ \A name \in Names : seen[name] # Nothing => \E i \in DOMAIN b : Gives(b[i], name)
      BY <1>4 DEF Reads
    <2>2. \A i \in DOMAIN a : IsField(a[i])
      BY <1>2, <2>1
    <2>3. \A i, j \in DOMAIN a, name \in Names : Gives(a[i], name) /\ Gives(a[j], name) => i = j
      <3> TAKE i, j \in DOMAIN a, name \in Names
      <3>1. PICK k \in DOMAIN b, l \in DOMAIN b : p[k] = i /\ b[k] = a[i] /\ p[l] = j /\ b[l] = a[j]
        BY <1>2
      <3> QED
        BY <2>1, <3>1
    <2>4. \A i \in DOMAIN a, name \in Names :
             Gives(a[i], name) => seen[name] \in Kind(name) /\ seen[name] = ValueOf(name, ValueIn(a[i]))
      <3> TAKE i \in DOMAIN a, name \in Names
      <3>1. PICK k \in DOMAIN b : b[k] = a[i]
        BY <1>2
      <3> QED
        BY <2>1, <3>1
    <2>5. \A name \in Names : seen[name] # Nothing => \E i \in DOMAIN a : Gives(a[i], name)
      BY <1>1, <2>1
    <2> QED
      BY <2>1, <2>2, <2>3, <2>4, <2>5 DEF Reads
  <1> QED
    BY <1>3, <1>4

\* What parse() takes does not depend on the order of the fields.
LEMMA TakenReordered ==
    ASSUME NEW a \in Seq(Readable), NEW b \in Seq(Readable), NEW p, Reordered(a, b, p)
    PROVE  Taken(a) = Taken(b)
  <1>1. \A seen : Reads(a, seen) <=> Reads(b, seen)
    BY ReadsReordered
  <1>2. /\ Taken(a) # Error => Reads(a, Taken(a))
        /\ \A seen : Reads(a, seen) => Taken(a) = seen
    BY TakenReads
  <1>3. /\ Taken(b) # Error => Reads(b, Taken(b))
        /\ \A seen : Reads(b, seen) => Taken(b) = seen
    BY TakenReads
  <1>4. CASE Taken(a) # Error
    BY <1>1, <1>2, <1>3, <1>4
  <1>5. CASE Taken(b) # Error
    BY <1>1, <1>2, <1>3, <1>5
  <1> QED
    BY <1>4, <1>5

\* Wherever an element is inserted, the sequence is one with it at the end, reordered.
LEMMA InsertedReordered ==
    ASSUME NEW S, NEW s \in Seq(S), NEW place \in 1..Len(s) + 1, NEW e \in S
    PROVE  \E p : Reordered(Append(s, e), InsertAt(s, place, e), p)
  <1> DEFINE N == Len(s)
             a == Append(s, e)
             b == InsertAt(s, place, e)
             p == [i \in 1..N + 1 |-> IF i < place THEN i ELSE IF i = place THEN N + 1 ELSE i - 1]
  <1>1. N \in Nat /\ place \in 1..N + 1
    OBVIOUS
  <1>2. DOMAIN a = 1..N + 1 /\ a[N + 1] = e /\ \A i \in 1..N : a[i] = s[i]
    OBVIOUS
  <1>3. /\ b \in Seq(S) /\ Len(b) = N + 1
        /\ \A i \in 1..N + 1 : b[i] = IF i < place THEN s[i] ELSE IF i = place THEN e ELSE s[i - 1]
    BY InsertAtIs
  <1> HIDE DEF a, b, N
  <1>4. DOMAIN b = 1..N + 1
    BY <1>1, <1>3
  <1>5. \A i \in 1..N + 1 : p[i] = IF i < place THEN i ELSE IF i = place THEN N + 1 ELSE i - 1
    OBVIOUS
  <1>6. p \in [1..N + 1 -> 1..N + 1]
    BY <1>1
  <1> HIDE DEF p
  <1>7. ASSUME NEW i \in 1..N + 1
        PROVE  b[i] = a[p[i]]
    <2>1. CASE i < place
      <3>1. i \in 1..N
        BY <1>1, <2>1
      <3> QED
        BY <1>2, <1>3, <1>5, <2>1, <3>1
    <2>2. CASE i = place
      BY <1>1, <1>2, <1>3, <1>5, <2>2
    <2>3. CASE i > place
      <3>1. i - 1 \in 1..N /\ ~ (i < place) /\ i # place
        BY <1>1, <2>3
      <3> QED
        BY <1>2, <1>3, <1>5, <3>1
    <2> QED
      BY <1>1, <2>1, <2>2, <2>3
  <1>8. \A i, j \in 1..N + 1 : p[i] = p[j] => i = j
    BY <1>1, <1>5
  <1>9. ASSUME NEW i \in 1..N + 1
        PROVE  \E j \in 1..N + 1 : p[j] = i
    <2>1. CASE i < place
      BY <1>5, <2>1
    <2>2. CASE i = N + 1
      BY <1>1, <1>5, <2>2
    <2>3. CASE ~ (i < place) /\ i # N + 1
      <3>1. i + 1 \in 1..N + 1 /\ ~ (i + 1 < place) /\ i + 1 # place /\ (i + 1) - 1 = i
        BY <1>1, <2>3
      <3> QED
        BY <1>5, <3>1
    <2> QED
      BY <2>1, <2>2, <2>3
  <1>10. Reordered(a, b, p)
    BY <1>2, <1>4, <1>6, <1>7, <1>8, <1>9 DEF Reordered
  <1> QED
    BY <1>10 DEF a, b

\* What is taken out and put back where it was leaves the sequence as it is.
LEMMA PutBack ==
    ASSUME NEW S, NEW s \in Seq(S), NEW place \in 1..Len(s)
    PROVE  InsertAt(RemoveAt(s, place), place, s[place]) = s
  <1> DEFINE N == Len(s)
             r == RemoveAt(s, place)
             e == s[place]
             t == InsertAt(r, place, e)
  <1>1. N \in Nat /\ place \in 1..N /\ e \in S /\ N >= 1
    OBVIOUS
  <1>2. /\ r \in Seq(S) /\ Len(r) = N - 1
        /\ \A i \in 1..N - 1 : r[i] = IF i < place THEN s[i] ELSE s[i + 1]
    BY RemoveAtIs
  <1> HIDE DEF r, N, e
  <1>3. place \in 1..Len(r) + 1 /\ Len(r) + 1 = N
    BY <1>1, <1>2
  <1>4. /\ t \in Seq(S) /\ Len(t) = N
        /\ \A i \in 1..N : t[i] = IF i < place THEN r[i] ELSE IF i = place THEN e ELSE r[i - 1]
    <2>1. /\ t \in Seq(S) /\ Len(t) = Len(r) + 1
          /\ \A i \in 1..Len(r) + 1 : t[i] = IF i < place THEN r[i] ELSE IF i = place THEN e ELSE r[i - 1]
      <3>1. r \in Seq(S) /\ e \in S /\ place \in 1..Len(r) + 1
        BY <1>1, <1>2, <1>3
      <3> QED
        BY <3>1, InsertAtIs
    <2> HIDE DEF t
    <2> QED
      BY <1>3, <2>1
  <1> HIDE DEF t
  <1>5. ASSUME NEW i \in 1..N
        PROVE  t[i] = s[i]
    <2>1. CASE i < place
      <3>1. i \in 1..N - 1
        BY <1>1, <2>1
      <3> QED
        BY <1>2, <1>4, <2>1, <3>1
    <2>2. CASE i = place
      BY <1>1, <1>4, <2>2 DEF e
    <2>3. CASE i > place
      <3>1. i - 1 \in 1..N - 1 /\ ~ (i < place) /\ i # place /\ ~ (i - 1 < place) /\ (i - 1) + 1 = i
        BY <1>1, <2>3
      <3> QED
        BY <1>2, <1>4, <3>1
    <2> QED
      BY <1>1, <2>1, <2>2, <2>3
  <1>6. t = s
    BY <1>1, <1>4, <1>5, SeqEqual DEF N
  <1> QED
    BY <1>6 DEF t, r, e

\* The length of what is joined does not depend on the order.
Size(p) == IF p = <<>> THEN 0 ELSE Len(Joined(p, ";")) + 1

\* A field more is as many tokens more as it has, and a separator.
LEMMA SizeOneMore ==
    ASSUME NEW p \in Seq(Seq(Tokens)), NEW x \in Seq(Tokens)
    PROVE  Size(p) \in Nat /\ Size(Append(p, x)) = Size(p) + 1 + Len(x) /\ Len(x) \in Nat
  <1> DEFINE semi == ";"
             J(q) == Joined(q, semi)
             u == J(p)
             t == (u \o <<semi>>) \o x
             q == Append(p, x)
  <1>1. /\ J(p) \in Seq(Tokens)
        /\ p = <<>> => J(q) = x
        /\ p # <<>> => J(q) = t
    BY JoinedOneMore, WordsAre
  <1>2. q # <<>>
    <2> DEFINE S == Seq(Tokens)
    <2>1. x \in S /\ p \in Seq(S)
      OBVIOUS
    <2> HIDE DEF S
    <2> QED
      BY <2>1
  <1>3. semi \in Tokens
    BY WordsAre
  <1>4. Size(q) = Len(J(q)) + 1 /\ Size(p) = IF p = <<>> THEN 0 ELSE Len(u) + 1
    BY <1>2, Zenon DEF Size
  <1>5. u \in Seq(Tokens)
    BY <1>1
  <1> HIDE DEF u, semi, q
  <1>6. Len(t) = Len(u) + 1 + Len(x)
    BY <1>3, <1>5, LastIs
  <1>7. Len(u) \in Nat /\ Len(x) \in Nat
    BY <1>5, LenProperties
  <1>8. CASE p = <<>>
    <2>1. Size(q) = Len(x) + 1 /\ Size(p) = 0
      BY <1>1, <1>4, <1>8
    <2> QED
      BY <1>7, <2>1 DEF q
  <1>9. CASE p # <<>>
    <2>1. Size(q) = (Len(u) + 1 + Len(x)) + 1 /\ Size(p) = Len(u) + 1
      BY <1>1, <1>4, <1>6, <1>9
    <2> QED
      BY <1>7, <2>1 DEF q
  <1> QED
    BY <1>8, <1>9

\* To insert before the last element is to insert, and then to append it.
LEMMA InsertBefore ==
    ASSUME NEW S, NEW q \in Seq(S), NEW y \in S, NEW x \in S, NEW k \in 1..Len(q) + 1
    PROVE  InsertAt(Append(q, y), k, x) = Append(InsertAt(q, k, x), y)
  <1> DEFINE N == Len(q)
             p == Append(q, y)
             a == InsertAt(p, k, x)
             b == InsertAt(q, k, x)
             c == Append(b, y)
  <1>1. N \in Nat /\ k \in 1..N + 1
    OBVIOUS
  <1>2. p \in Seq(S) /\ Len(p) = N + 1 /\ p[N + 1] = y /\ \A i \in 1..N : p[i] = q[i]
    OBVIOUS
  <1>3. /\ b \in Seq(S) /\ Len(b) = N + 1
        /\ \A i \in 1..N + 1 : b[i] = IF i < k THEN q[i] ELSE IF i = k THEN x ELSE q[i - 1]
    BY InsertAtIs
  <1> HIDE DEF p, b, N
  <1>4. c \in Seq(S) /\ Len(c) = N + 2 /\ c[N + 2] = y /\ \A i \in 1..N + 1 : c[i] = b[i]
    BY <1>1, <1>3
  <1>5. k \in 1..Len(p) + 1
    BY <1>1, <1>2
  <1>6. /\ a \in Seq(S) /\ Len(a) = N + 2
        /\ \A i \in 1..N + 2 : a[i] = IF i < k THEN p[i] ELSE IF i = k THEN x ELSE p[i - 1]
    <2>1. /\ a \in Seq(S) /\ Len(a) = Len(p) + 1
          /\ \A i \in 1..Len(p) + 1 : a[i] = IF i < k THEN p[i] ELSE IF i = k THEN x ELSE p[i - 1]
      <3>1. p \in Seq(S)
        BY <1>2
      <3> QED
        BY <1>5, <3>1, InsertAtIs
    <2> HIDE DEF a
    <2> QED
      BY <1>1, <1>2, <2>1
  <1> HIDE DEF a, c
  <1>7. ASSUME NEW i \in 1..N + 2
        PROVE  a[i] = c[i]
    <2>1. CASE i < k
      <3>1. i \in 1..N /\ i \in 1..N + 1
        BY <1>1, <2>1
      <3> QED
        BY <1>2, <1>3, <1>4, <1>6, <2>1, <3>1
    <2>2. CASE i = k
      <3>1. i \in 1..N + 1 /\ ~ (i < k)
        BY <1>1, <2>2
      <3> QED
        BY <1>3, <1>4, <1>6, <2>2, <3>1
    <2>3. CASE i > k /\ i # N + 2
      <3>1. i - 1 \in 1..N /\ i \in 1..N + 1 /\ ~ (i < k) /\ i # k
        BY <1>1, <2>3
      <3> QED
        BY <1>2, <1>3, <1>4, <1>6, <3>1
    <2>4. CASE i = N + 2
      <3>1. i - 1 = N + 1 /\ ~ (i < k) /\ i # k
        BY <1>1, <2>4
      <3> QED
        BY <1>2, <1>4, <1>6, <2>4, <3>1
    <2> QED
      BY <1>1, <2>1, <2>2, <2>3, <2>4
  <1>8. a = c
    <2>1. Len(a) = Len(c) /\ \A i \in 1..Len(a) : a[i] = c[i]
      BY <1>4, <1>6, <1>7
    <2> QED
      BY <1>4, <1>6, <2>1, SeqEqual
  <1> QED
    BY <1>8 DEF a, c, b, p

\* To insert at the end is to append.
LEMMA InsertLast ==
    ASSUME NEW S, NEW s \in Seq(S), NEW e \in S
    PROVE  InsertAt(s, Len(s) + 1, e) = Append(s, e)
  <1> DEFINE N == Len(s)
             a == Append(s, e)
             k == N + 1
             b == InsertAt(s, k, e)
  <1>1. N \in Nat /\ k \in 1..N + 1
    OBVIOUS
  <1>2. a \in Seq(S) /\ Len(a) = N + 1 /\ a[N + 1] = e /\ \A i \in 1..N : a[i] = s[i]
    OBVIOUS
  <1>3. /\ b \in Seq(S) /\ Len(b) = N + 1
        /\ \A i \in 1..N + 1 : b[i] = IF i < k THEN s[i] ELSE IF i = k THEN e ELSE s[i - 1]
    <2> HIDE DEF k
    <2> QED
      BY <1>1, InsertAtIs
  <1> HIDE DEF a, b, N
  <1>4. \A i \in 1..N + 1 : a[i] = b[i]
    BY <1>1, <1>2, <1>3
  <1>5. a = b
    <2>1. Len(a) = Len(b) /\ \A i \in 1..Len(a) : a[i] = b[i]
      BY <1>2, <1>3, <1>4
    <2> QED
      BY <1>2, <1>3, <2>1, SeqEqual
  <1> QED
    BY <1>5 DEF a, b, N

\* A field adds the same number of tokens wherever it is inserted.
LEMMA SizeInserted ==
    ASSUME NEW p \in Seq(Seq(Tokens)), NEW k \in 1..Len(p) + 1, NEW x \in Seq(Tokens)
    PROVE  Size(InsertAt(p, k, x)) = Size(Append(p, x))
  <1> DEFINE S == Seq(Tokens)
             Good(q) == \A i \in 1..Len(q) + 1 : Size(InsertAt(q, i, x)) = Size(Append(q, x))
             T == {q \in Seq(S) : Good(q)}
  <1>1. ASSUME NEW q \in Seq(S)
        PROVE  Size(InsertAt(q, Len(q) + 1, x)) = Size(Append(q, x))
    <2> HIDE DEF S
    <2> QED
      BY <1>1, InsertLast DEF S
  <1>2. <<>> \in T
    <2>1. <<>> \in Seq(S) /\ Len(<<>>) = 0
      OBVIOUS
    <2>2. \A i \in 1..Len(<<>>) + 1 : i = Len(<<>>) + 1
      BY <2>1
    <2>3. Good(<<>>)
      BY <1>1, <2>1, <2>2, Zenon
    <2> HIDE DEF Good
    <2> QED
      BY <2>1, <2>3
  <1>3. ASSUME NEW q \in Seq(S), NEW y \in S, q \in T
        PROVE  Append(q, y) \in T
    <2> DEFINE z == Append(q, y)
    <2>1. z \in Seq(S) /\ Len(z) = Len(q) + 1 /\ Len(q) \in Nat
      <3> HIDE DEF S
      <3> QED
        OBVIOUS
    <2>2. ASSUME NEW i \in 1..Len(z) + 1
          PROVE  Size(InsertAt(z, i, x)) = Size(Append(z, x))
      <3>1. CASE i = Len(z) + 1
        BY <1>1, <2>1, <3>1
      <3>2. CASE i # Len(z) + 1
        <4>1. i \in 1..Len(q) + 1
          BY <2>1, <3>2
        <4> DEFINE b == InsertAt(q, i, x)
        <4>2. InsertAt(z, i, x) = Append(b, y)
          <5> HIDE DEF S
          <5> QED
            BY <4>1, InsertBefore DEF S
        <4>3. b \in Seq(S)
          <5>1. x \in S
            OBVIOUS
          <5> HIDE DEF S
          <5> QED
            BY <4>1, <5>1, InsertAtIs
        <4>4. Size(b) = Size(Append(q, x))
          BY <1>3, <4>1
        <4> HIDE DEF b
        <4>5. Size(Append(b, y)) = Size(b) + 1 + Len(y) /\ Len(y) \in Nat /\ Size(b) \in Nat
          BY <4>3, SizeOneMore
        <4>6. Size(Append(q, x)) = Size(q) + 1 + Len(x) /\ Size(q) \in Nat /\ Len(x) \in Nat
          BY SizeOneMore
        <4>7. Size(z) = Size(q) + 1 + Len(y)
          BY SizeOneMore
        <4> HIDE DEF z
        <4>8. Size(Append(z, x)) = Size(z) + 1 + Len(x)
          BY <2>1, SizeOneMore
        <4> QED
          BY <4>2, <4>4, <4>5, <4>6, <4>7, <4>8
      <3> QED
        BY <3>1, <3>2
    <2> HIDE DEF z
    <2>3. z \in T
      BY <2>1, <2>2
    <2> QED
      BY <2>3 DEF z
  <1>4. \A q \in Seq(S) : q \in T
    <2> HIDE DEF T, S
    <2> QED
      BY <1>2, <1>3, AllSequences, Zenon
  <1> QED
    BY <1>4

\* Neither does it that a terminator is in it: no separator is part of one.
LEMMA BetweenIs ==
    ASSUME NEW S, NEW u \in Seq(S), NEW c \in S, NEW x \in Seq(S), NEW t, t = (u \o <<c>>) \o x
    PROVE  /\ t \in Seq(S) /\ Len(t) = Len(u) + 1 + Len(x) /\ t[Len(u) + 1] = c
           /\ \A i \in 1..Len(u) : t[i] = u[i]
           /\ \A i \in 1..Len(x) : t[Len(u) + 1 + i] = x[i]
  <1> DEFINE w == u \o <<c>>
  <1>1. w \in Seq(S) /\ Len(w) = Len(u) + 1 /\ w[Len(u) + 1] = c /\ Len(u) \in Nat /\ \A i \in 1..Len(u) : w[i] = u[i]
    OBVIOUS
  <1> HIDE DEF w
  <1>2. /\ w \o x \in Seq(S) /\ Len(w \o x) = Len(w) + Len(x)
        /\ \A i \in 1..Len(w) : (w \o x)[i] = w[i]
        /\ \A i \in 1..Len(x) : (w \o x)[Len(w) + i] = x[i]
    <2>1. w \in Seq(S)
      BY <1>1
    <2> QED
      BY <2>1, ConcatIs
  <1>3. t = w \o x
    BY DEF w
  <1>4. \A i \in 1..Len(u) : i \in 1..Len(w)
    BY <1>1
  <1>5. Len(u) + 1 \in 1..Len(w)
    BY <1>1
  <1>6. Len(t) = Len(u) + 1 + Len(x) /\ t \in Seq(S)
    BY <1>1, <1>2, <1>3
  <1>7. t[Len(u) + 1] = c /\ \A i \in 1..Len(u) : t[i] = u[i]
    BY <1>1, <1>2, <1>3, <1>4, <1>5
  <1>8. \A i \in 1..Len(x) : t[Len(u) + 1 + i] = x[i]
    BY <1>1, <1>2, <1>3
  <1> QED
    BY <1>6, <1>7, <1>8

\* A terminator is in one of two parts with a separator between them.
LEMMA TerminatorBetween ==
    ASSUME NEW u \in Seq(Tokens), NEW x \in Seq(Tokens)
    PROVE  HasTerminator((u \o <<";">>) \o x) <=> HasTerminator(u) \/ HasTerminator(x)
  <1> DEFINE semi == ";"
             esc == "ESC"
             st == "\\"
             bel == "BEL"
             t == (u \o <<semi>>) \o x
             M == Len(u)
             N == Len(x)
             L == Len(t)
             Hit(s, i, n) == s[i] = bel \/ (i < n /\ s[i] = esc /\ s[i + 1] = st)
  <1>1. semi \in Tokens /\ semi # bel /\ semi # st /\ semi # esc
    BY WordsAre
  <1>2. \A s \in Seq(Tokens) : HasTerminator(s) <=> \E i \in 1..Len(s) : Hit(s, i, Len(s))
    <2> TAKE s \in Seq(Tokens)
    <2>1. DOMAIN s = 1..Len(s)
      OBVIOUS
    <2> QED
      BY <2>1, Zenon DEF HasTerminator
  <1> HIDE DEF semi, esc, st, bel
  <1>3. M \in Nat /\ N \in Nat
    BY LenProperties
  <1>4. /\ t \in Seq(Tokens) /\ L = M + 1 + N /\ t[M + 1] = semi
        /\ \A i \in 1..M : t[i] = u[i]
        /\ \A i \in 1..N : t[M + 1 + i] = x[i]
    BY <1>1, BetweenIs
  <1>5. /\ HasTerminator(t) <=> \E i \in 1..L : Hit(t, i, L)
        /\ HasTerminator(u) <=> \E i \in 1..M : Hit(u, i, M)
        /\ HasTerminator(x) <=> \E i \in 1..N : Hit(x, i, N)
    <2> HIDE DEF Hit
    <2> QED
      BY <1>2, <1>4
  <1> HIDE DEF t, M, N, L
  <1>6. ASSUME NEW i \in 1..M, Hit(u, i, M)
        PROVE  \E j \in 1..L : Hit(t, j, L)
    <2>1. i \in 1..L /\ (i < M => i < L /\ i + 1 \in 1..M)
      BY <1>3, <1>4
    <2>2. Hit(t, i, L)
      BY <1>4, <1>6, <2>1
    <2> HIDE DEF Hit
    <2> QED
      BY <2>1, <2>2
  <1>7. ASSUME NEW i \in 1..N, Hit(x, i, N)
        PROVE  \E j \in 1..L : Hit(t, j, L)
    <2> DEFINE j == M + 1 + i
    <2>1. j \in 1..L /\ (i < N => j < L /\ i + 1 \in 1..N /\ j + 1 = M + 1 + (i + 1))
      BY <1>3, <1>4
    <2>2. t[j] = x[i] /\ (i < N => t[j + 1] = x[i + 1])
      BY <1>4, <2>1
    <2> HIDE DEF j
    <2>3. Hit(t, j, L)
      BY <1>7, <2>1, <2>2
    <2> HIDE DEF Hit
    <2> QED
      BY <2>1, <2>3
  <1>8. ASSUME NEW i \in 1..L, Hit(t, i, L)
        PROVE  (\E j \in 1..M : Hit(u, j, M)) \/ (\E j \in 1..N : Hit(x, j, N))
    <2>1. CASE i \in 1..M
      <3>1. t[i] = u[i]
        BY <1>4, <2>1
      <3>2. i = M => t[i + 1] = semi
        BY <1>4
      <3>3. i < M => t[i + 1] = u[i + 1]
        BY <1>3, <1>4, <2>1
      <3>4. i = M \/ i < M
        BY <1>3, <2>1
      <3>5. Hit(u, i, M)
        BY <1>1, <1>8, <3>1, <3>2, <3>3, <3>4
      <3> HIDE DEF Hit
      <3> QED
        BY <2>1, <3>5
    <2>2. CASE i = M + 1
      BY <1>1, <1>4, <1>8, <2>2
    <2>3. CASE i \in M + 2..L
      <3> DEFINE j == i - (M + 1)
      <3>1. /\ j \in 1..N /\ i = M + 1 + j
            /\ i < L => j < N /\ j + 1 \in 1..N /\ i + 1 = M + 1 + (j + 1)
        BY <1>3, <1>4, <2>3
      <3> HIDE DEF j
      <3>2. t[i] = x[j] /\ (i < L => t[i + 1] = x[j + 1])
        BY <1>4, <3>1
      <3>3. Hit(x, j, N)
        BY <1>8, <3>1, <3>2
      <3> HIDE DEF Hit
      <3> QED
        BY <3>1, <3>3
    <2>4. i \in 1..M \/ i = M + 1 \/ i \in M + 2..L
      BY <1>3, <1>4
    <2> QED
      BY <2>1, <2>2, <2>3, <2>4
  <1> HIDE DEF Hit
  <1>9. HasTerminator(t) <=> HasTerminator(u) \/ HasTerminator(x)
    BY <1>5, <1>6, <1>7, <1>8
  <1> QED
    BY <1>9 DEF t, semi

\* Fields with one more have a terminator if either has one.
LEMMA TerminatorOneMore ==
    ASSUME NEW p \in Seq(Seq(Tokens)), NEW x \in Seq(Tokens)
    PROVE  HasTerminator(Joined(Append(p, x), ";")) <=> HasTerminator(Joined(p, ";")) \/ HasTerminator(x)
  <1>1. /\ Joined(p, ";") \in Seq(Tokens)
        /\ p = <<>> => Joined(Append(p, x), ";") = x
        /\ p # <<>> => Joined(Append(p, x), ";") = (Joined(p, ";") \o <<";">>) \o x
    BY JoinedOneMore, WordsAre
  <1>2. CASE p = <<>>
    <2>1. Joined(p, ";") = <<>>
      BY <1>2, JoinedNothing
    <2>2. ~ HasTerminator(<<>>)
      BY DEF HasTerminator
    <2> QED
      BY <1>1, <1>2, <2>1, <2>2, Zenon
  <1>3. CASE p # <<>>
    <2> DEFINE u == Joined(p, ";")
    <2>1. u \in Seq(Tokens)
      BY <1>1
    <2>2. HasTerminator((u \o <<";">>) \o x) <=> HasTerminator(u) \/ HasTerminator(x)
      <3> HIDE DEF u
      <3> QED
        BY <2>1, TerminatorBetween
    <2> QED
      BY <1>1, <1>3, <2>2, Zenon
  <1> QED
    BY <1>2, <1>3

\* Joined fields have a terminator if one of them has.
LEMMA TerminatorIs ==
    ASSUME NEW p \in Seq(Seq(Tokens))
    PROVE  HasTerminator(Joined(p, ";")) <=> \E i \in DOMAIN p : HasTerminator(p[i])
  <1> DEFINE S == Seq(Tokens)
             H(q) == HasTerminator(Joined(q, ";"))
             Good(q) == H(q) <=> \E i \in DOMAIN q : HasTerminator(q[i])
             T == {q \in Seq(S) : Good(q)}
  <1>1. <<>> \in T
    <2>1. ~ HasTerminator(<<>>)
      BY DEF HasTerminator
    <2>2. ~ H(<<>>)
      BY <2>1, JoinedNothing
    <2>3. DOMAIN <<>> = {} /\ <<>> \in Seq(S)
      OBVIOUS
    <2> HIDE DEF H
    <2> QED
      BY <2>2, <2>3
  <1>2. ASSUME NEW q \in Seq(S), NEW y \in S, q \in T
        PROVE  Append(q, y) \in T
    <2> DEFINE z == Append(q, y)
               n == Len(q)
    <2>1. H(z) <=> H(q) \/ HasTerminator(y)
      BY TerminatorOneMore
    <2>2. /\ z \in Seq(S) /\ DOMAIN z = 1..n + 1 /\ DOMAIN q = 1..n /\ n \in Nat
          /\ z[n + 1] = y /\ \A i \in 1..n : z[i] = q[i]
      <3> HIDE DEF S
      <3> QED
        OBVIOUS
    <2>3. H(q) <=> \E i \in DOMAIN q : HasTerminator(q[i])
      BY <1>2
    <2> HIDE DEF z, H, n
    <2>4. n + 1 \in 1..n + 1 /\ \A i \in 1..n + 1 : i \in 1..n \/ i = n + 1
      BY <2>2
    <2>5. \A i \in 1..n : i \in 1..n + 1
      BY <2>2
    <2>6. (\E i \in DOMAIN z : HasTerminator(z[i])) <=> (\E i \in DOMAIN q : HasTerminator(q[i])) \/ HasTerminator(y)
      BY <2>2, <2>4, <2>5
    <2>7. z \in T
      BY <2>1, <2>2, <2>3, <2>6
    <2> QED
      BY <2>7 DEF z
  <1>3. \A q \in Seq(S) : q \in T
    <2> HIDE DEF T, S
    <2> QED
      BY <1>1, <1>2, AllSequences, Zenon
  <1> QED
    BY <1>3

-----------------------------------------------------------------------------
(* A field is read the same wherever it is *)

\* A field inserted anywhere behind the code counts as one at the end.
LEMMA TailsAre ==
    ASSUME NEW fs \in Fields, NEW f \in Sound, NEW place \in 2..Len(fs) + 1
    PROVE  Taken(Tail(InsertAt(fs, place, f))) = Taken(Tail(Append(fs, f)))
  <1> DEFINE N == Len(fs)
             s == Tail(fs)
             g == InsertAt(fs, place, f)
             R == Readable
  <1>1. N \in Nat /\ N # 0 /\ fs # <<>> /\ place - 1 \in 1..(N - 1) + 1 /\ place \in 1..N + 1
    BY EditedFields DEF Fields
  <1>2. fs \in Seq(R) /\ f \in R
    BY SoundIs DEF Fields
  <1> HIDE DEF R
  <1>3. s \in Seq(R) /\ Len(s) = N - 1 /\ \A i \in 1..N - 1 : s[i] = fs[i + 1]
    BY <1>1, <1>2
  <1>4. /\ g \in Seq(R) /\ Len(g) = N + 1
        /\ \A i \in 1..N + 1 : g[i] = IF i < place THEN fs[i] ELSE IF i = place THEN f ELSE fs[i - 1]
    BY <1>1, <1>2, InsertAtIs
  <1> DEFINE a == Tail(g)
             k == place - 1
             b == InsertAt(s, k, f)
  <1>5. a \in Seq(R) /\ Len(a) = N /\ \A i \in 1..N : a[i] = g[i + 1]
    <2>1. g # <<>>
      BY <1>1, <1>4
    <2> HIDE DEF g, N
    <2> QED
      BY <1>1, <1>4, <2>1
  <1> HIDE DEF g, s, a, N
  <1>6. k \in 1..Len(s) + 1
    BY <1>1, <1>3
  <1>7. /\ b \in Seq(R) /\ Len(b) = N
        /\ \A i \in 1..N : b[i] = IF i < k THEN s[i] ELSE IF i = k THEN f ELSE s[i - 1]
    <2>1. s \in Seq(R)
      BY <1>3
    <2> HIDE DEF k
    <2>2. /\ b \in Seq(R) /\ Len(b) = Len(s) + 1
          /\ \A i \in 1..Len(s) + 1 : b[i] = IF i < k THEN s[i] ELSE IF i = k THEN f ELSE s[i - 1]
      BY <1>2, <1>6, <2>1, InsertAtIs
    <2>3. Len(s) + 1 = N
      BY <1>1, <1>3
    <2> HIDE DEF b
    <2> QED
      BY <2>2, <2>3
  <1> HIDE DEF b
  <1>8. ASSUME NEW i \in 1..N
        PROVE  a[i] = b[i]
    <2>1. i + 1 \in 1..N + 1 /\ (i + 1) - 1 = i
      BY <1>1
    <2>2. CASE i < k
      <3>1. i \in 1..N - 1 /\ i + 1 < place
        BY <1>1, <2>2
      <3> QED
        BY <1>3, <1>4, <1>5, <1>7, <2>1, <2>2, <3>1
    <2>3. CASE i = k
      <3>1. ~ (i < k) /\ ~ (i + 1 < place) /\ i + 1 = place
        BY <1>1, <2>3
      <3> QED
        BY <1>4, <1>5, <1>7, <2>1, <2>3, <3>1
    <2>4. CASE i > k
      <3>1. ~ (i < k) /\ i # k /\ ~ (i + 1 < place) /\ i + 1 # place /\ i - 1 \in 1..N - 1 /\ (i - 1) + 1 = i
        BY <1>1, <2>4
      <3> QED
        BY <1>3, <1>4, <1>5, <1>7, <2>1, <3>1
    <2> QED
      BY <1>1, <2>2, <2>3, <2>4
  <1>9. a = b
    <2>1. Len(a) = Len(b) /\ \A i \in 1..Len(a) : a[i] = b[i]
      BY <1>5, <1>7, <1>8
    <2> QED
      BY <1>5, <1>7, <2>1, SeqEqual
  <1>10. Taken(Append(s, f)) = Taken(b)
    <2>1. s \in Seq(Readable) /\ f \in Readable /\ b \in Seq(Readable) /\ Append(s, f) \in Seq(Readable)
      <3>1. Append(s, f) \in Seq(R)
        BY <1>2, <1>3
      <3> QED
        BY <1>2, <1>3, <1>7, <3>1 DEF R
    <2>2. \E p : Reordered(Append(s, f), b, p)
      <3> HIDE DEF k
      <3> QED
        BY <1>6, <2>1, InsertedReordered DEF b
    <2> QED
      BY <2>1, <2>2, TakenReordered
  <1>11. Tail(Append(fs, f)) = Append(s, f)
    BY OneMoreField DEF s
  <1> QED
    BY <1>9, <1>10, <1>11 DEF a, g

\* So the whole wire is read the same.
LEMMA ParseInserted ==
    ASSUME NEW fs \in Fields, NEW f \in Sound, NEW place \in 2..Len(fs) + 1, NEW ends \in FrameType
    PROVE  Parse(Assembled(ends, InsertAt(fs, place, f))) = Parse(Assembled(ends, Append(fs, f)))
  <1> DEFINE g == InsertAt(fs, place, f)
             h == Append(fs, f)
  <1>1. g \in Fields /\ h \in Fields
    BY EditedFields, OneMoreField
  <1>2. Taken(Tail(g)) = Taken(Tail(h))
    BY TailsAre
  <1>3. fs \in Seq(Seq(Tokens)) /\ f \in Seq(Tokens)
    BY SoundIs DEF Fields
  <1>4. place \in 1..Len(fs) + 1
    BY EditedFields
  <1>5. HasTerminator(Joined(g, ";")) <=> HasTerminator(Joined(h, ";"))
    <2>1. PICK p : Reordered(h, g, p)
      <3> DEFINE S == Seq(Tokens)
      <3> HIDE DEF S
      <3> QED
        BY <1>3, <1>4, InsertedReordered DEF S
    <2>2. g \in Seq(Seq(Tokens)) /\ h \in Seq(Seq(Tokens))
      BY <1>1, SoundIs DEF Fields
    <2> HIDE DEF g, h
    <2>3. /\ HasTerminator(Joined(g, ";")) <=> \E i \in DOMAIN g : HasTerminator(g[i])
          /\ HasTerminator(Joined(h, ";")) <=> \E i \in DOMAIN h : HasTerminator(h[i])
      BY <2>2, TerminatorIs
    <2>4. /\ \A i \in DOMAIN g : p[i] \in DOMAIN h /\ g[i] = h[p[i]]
          /\ \A i \in DOMAIN h : \E j \in DOMAIN g : p[j] = i
      BY <2>1 DEF Reordered
    <2>5. (\E i \in DOMAIN g : HasTerminator(g[i])) <=> (\E i \in DOMAIN h : HasTerminator(h[i]))
      BY <2>4
    <2> QED
      BY <2>3, <2>5
  <1>6. Len(Joined(g, ";")) = Len(Joined(h, ";"))
    <2>1. Size(g) = Size(h)
      BY <1>3, <1>4, SizeInserted
    <2>2. g # <<>> /\ h # <<>>
      BY <1>1 DEF Fields
    <2>3. Joined(g, ";") \in Seq(Tokens) /\ Joined(h, ";") \in Seq(Tokens)
      BY <1>1, PayloadIs
    <2>4. Len(Joined(g, ";")) \in Nat /\ Len(Joined(h, ";")) \in Nat
      BY <2>3, LenProperties
    <2>5. Size(g) = Len(Joined(g, ";")) + 1 /\ Size(h) = Len(Joined(h, ";")) + 1
      BY <2>2, Zenon DEF Size
    <2> HIDE DEF g, h
    <2>6. \A l, m \in Nat : l + 1 = m + 1 => l = m
      OBVIOUS
    <2> QED
      BY <2>1, <2>4, <2>5, <2>6, Zenon
  <1>7. Len(Assembled(ends, g)) = Len(Assembled(ends, h))
    <2> DEFINE o == ends.open
               c == ends.close
               u == Joined(g, ";")
               v == Joined(h, ";")
    <2>1. o \in Seq(Tokens) /\ c \in Seq(Tokens) /\ u \in Seq(Tokens) /\ v \in Seq(Tokens) /\ Len(u) = Len(v)
      BY <1>1, <1>6, FrameIs, PayloadIs
    <2>2. Assembled(ends, g) = (o \o u) \o c /\ Assembled(ends, h) = (o \o v) \o c
      BY DEF Assembled
    <2> HIDE DEF o, c, u, v
    <2>3. Len((o \o u) \o c) = Len((o \o v) \o c)
      BY <2>1
    <2> QED
      BY <2>2, <2>3
  <1> HIDE DEF g, h
  <1>8. /\ Parse(Assembled(ends, g)) =
              IF \/ Len(Assembled(ends, g)) > MaxReport
                 \/ ends \notin Proper
                 \/ ends = Bare /\ HasTerminator(Joined(g, ";"))
              THEN Error ELSE ReportOf(Taken(Tail(g)))
        /\ Parse(Assembled(ends, h)) =
              IF \/ Len(Assembled(ends, h)) > MaxReport
                 \/ ends \notin Proper
                 \/ ends = Bare /\ HasTerminator(Joined(h, ";"))
              THEN Error ELSE ReportOf(Taken(Tail(h)))
    BY <1>1, ParseIs
  <1>9. Parse(Assembled(ends, g)) = Parse(Assembled(ends, h))
    <2> DEFINE Bad(x) == \/ Len(Assembled(ends, x)) > MaxReport
                         \/ ends \notin Proper
                         \/ ends = Bare /\ HasTerminator(Joined(x, ";"))
    <2>1. Bad(g) <=> Bad(h)
      BY <1>5, <1>7
    <2>2. /\ Parse(Assembled(ends, g)) = IF Bad(g) THEN Error ELSE ReportOf(Taken(Tail(g)))
          /\ Parse(Assembled(ends, h)) = IF Bad(h) THEN Error ELSE ReportOf(Taken(Tail(h)))
      BY <1>8
    <2> HIDE DEF Bad
    <2> QED
      BY <1>2, <2>1, <2>2
  <1> QED
    BY <1>9 DEF g, h

\* A field that is moved is read where it is as it was read where it was.
LEMMA ParseMoved ==
    ASSUME NEW fs \in Fields, NEW from \in 2..Len(fs), NEW to \in 2..Len(fs), NEW ends \in FrameType
    PROVE  Parse(Assembled(ends, InsertAt(RemoveAt(fs, from), to, fs[from]))) = Parse(Assembled(ends, fs))
  <1> DEFINE r == RemoveAt(fs, from)
             f == fs[from]
  <1>1. r \in Fields /\ Len(r) = Len(fs) - 1 /\ f \in Sound /\ Len(fs) \in Nat
    BY EditedFields
  <1>2. from \in 2..Len(r) + 1 /\ to \in 2..Len(r) + 1
    BY <1>1
  <1>3. InsertAt(r, from, f) = fs
    <2>1. fs \in Seq(Sound) /\ from \in 1..Len(fs)
      BY <1>1 DEF Fields
    <2> QED
      BY <2>1, PutBack
  <1> HIDE DEF r, f
  <1>4. Parse(Assembled(ends, InsertAt(r, to, f))) = Parse(Assembled(ends, Append(r, f)))
    BY <1>1, <1>2, ParseInserted
  <1>5. Parse(Assembled(ends, InsertAt(r, from, f))) = Parse(Assembled(ends, Append(r, f)))
    BY <1>1, <1>2, ParseInserted
  <1> QED
    BY <1>3, <1>4, <1>5 DEF r, f

\* What is at most a number is not above it.
LEMMA NotMore == \A l, m \in Nat : l <= m => ~ (l > m)
  OBVIOUS

\* An unknown field without a terminator changes nothing but the length.
LEMMA ParseExtended ==
    ASSUME NEW fs \in Fields, NEW f \in Sound, IsField(f), ~ IsKnown(f), ~ HasTerminator(f),
           NEW place \in 2..Len(fs) + 1, NEW ends \in FrameType,
           Len(Assembled(ends, fs)) <= MaxReport,
           Len(Assembled(ends, InsertAt(fs, place, f))) <= MaxReport
    PROVE  Parse(Assembled(ends, InsertAt(fs, place, f))) = Parse(Assembled(ends, fs))
  <1> DEFINE g == InsertAt(fs, place, f)
             h == Append(fs, f)
  <1>1. g \in Fields /\ h \in Fields
    BY EditedFields, OneMoreField
  <1>2. Taken(Tail(g)) = Taken(Tail(fs))
    <2>1. Tail(fs) \in Seq(Readable) /\ Tail(h) = Append(Tail(fs), f) /\ f \in Readable
      BY OneMoreField, SoundIs
    <2>2. Taken(Tail(fs)) \in Taking /\ Taken(Tail(h)) = TakeField(Taken(Tail(fs)), f)
      BY <2>1, TakenOneMore
    <2>3. TakeField(Taken(Tail(fs)), f) = Taken(Tail(fs))
      <3>1. CASE Taken(Tail(fs)) = Error
        BY <2>1, <2>2, <3>1, TakeFieldIs
      <3>2. CASE Taken(Tail(fs)) # Error
        BY <2>1, <2>2, <3>2, TakeFieldIs
      <3> QED
        BY <3>1, <3>2
    <2> QED
      BY <2>2, <2>3, TailsAre
  <1>3. HasTerminator(Joined(g, ";")) <=> HasTerminator(Joined(fs, ";"))
    <2>1. fs \in Seq(Seq(Tokens)) /\ g \in Seq(Seq(Tokens)) /\ f \in Seq(Tokens)
      BY <1>1, SoundIs DEF Fields
    <2>2. place \in 1..Len(fs) + 1 /\ Len(fs) \in Nat
      BY EditedFields
    <2> DEFINE S == Seq(Tokens)
               N == Len(fs)
    <2>3. /\ Len(g) = N + 1
          /\ \A i \in 1..N + 1 : g[i] = IF i < place THEN fs[i] ELSE IF i = place THEN f ELSE fs[i - 1]
      <3> HIDE DEF S
      <3> QED
        BY <2>1, <2>2, InsertAtIs DEF S
    <2>4. /\ HasTerminator(Joined(g, ";")) <=> \E i \in DOMAIN g : HasTerminator(g[i])
          /\ HasTerminator(Joined(fs, ";")) <=> \E i \in DOMAIN fs : HasTerminator(fs[i])
      <3> HIDE DEF g
      <3> QED
        BY <2>1, TerminatorIs
    <2>5. DOMAIN g = 1..N + 1 /\ DOMAIN fs = 1..N
      <3> HIDE DEF g, S
      <3> QED
        BY <2>1, <2>3 DEF S
    <2> HIDE DEF g, N
    <2>6. ASSUME NEW i \in 1..N, HasTerminator(fs[i])
          PROVE  \E j \in 1..N + 1 : HasTerminator(g[j])
      <3>1. CASE i < place
        <4>1. i \in 1..N + 1
          BY <2>2 DEF N
        <4> QED
          BY <2>3, <2>6, <3>1, <4>1
      <3>2. CASE ~ (i < place)
        <4>1. i + 1 \in 1..N + 1 /\ ~ (i + 1 < place) /\ i + 1 # place /\ (i + 1) - 1 = i
          BY <2>2, <3>2 DEF N
        <4> QED
          BY <2>3, <2>6, <4>1
      <3> QED
        BY <3>1, <3>2
    <2>7. ASSUME NEW i \in 1..N + 1, HasTerminator(g[i])
          PROVE  \E j \in 1..N : HasTerminator(fs[j])
      <3>1. CASE i < place
        <4>1. i \in 1..N
          BY <2>2, <3>1 DEF N
        <4> QED
          BY <2>3, <2>7, <3>1, <4>1
      <3>2. CASE i = place
        <4>1. ~ (i < place)
          BY <2>2, <3>2
        <4> QED
          BY <2>3, <2>7, <3>2, <4>1
      <3>3. CASE i > place
        <4>1. i - 1 \in 1..N /\ ~ (i < place) /\ i # place
          BY <2>2, <3>3 DEF N
        <4> QED
          BY <2>3, <2>7, <4>1
      <3> QED
        BY <2>2, <3>1, <3>2, <3>3 DEF N
    <2> QED
      BY <2>4, <2>5, <2>6, <2>7
  <1> DEFINE bad(x) == ends \notin Proper \/ (ends = Bare /\ HasTerminator(Joined(x, ";")))
  <1>4. /\ ~ (Len(Assembled(ends, g)) > MaxReport)
        /\ ~ (Len(Assembled(ends, fs)) > MaxReport)
    <2>1. Assembled(ends, g) \in Seq(Tokens) /\ Assembled(ends, fs) \in Seq(Tokens)
      BY <1>1, ParseIs
    <2>2. Len(Assembled(ends, g)) \in Nat /\ Len(Assembled(ends, fs)) \in Nat /\ MaxReport \in Nat
      BY <2>1, LimitAssumption, LenProperties
    <2> QED
      BY <2>2, NotMore, Zenon
  <1> HIDE DEF g
  <1>5. /\ Parse(Assembled(ends, g)) = IF bad(g) THEN Error ELSE ReportOf(Taken(Tail(g)))
        /\ Parse(Assembled(ends, fs)) = IF bad(fs) THEN Error ELSE ReportOf(Taken(Tail(fs)))
    BY <1>1, <1>4, ParseIs
  <1>6. bad(g) <=> bad(fs)
    BY <1>3
  <1> HIDE DEF bad
  <1>7. Parse(Assembled(ends, g)) = Parse(Assembled(ends, fs))
    BY <1>2, <1>5, <1>6
  <1> QED
    BY <1>7 DEF g

\* A frame of its own, or none, changes nothing: a payload is read as it is.
LEMMA ParseReframed ==
    ASSUME NEW fs \in Fields, NEW ends \in FrameType \cap Proper,
           Len(Assembled(ends, fs)) <= MaxReport, ~ HasTerminator(Joined(fs, ";"))
    PROVE  Parse(Assembled(ends, fs)) = ReportOf(Taken(Tail(fs)))
  <1>1. ~ (Len(Assembled(ends, fs)) > MaxReport)
    <2>1. Assembled(ends, fs) \in Seq(Tokens)
      BY ParseIs
    <2>2. Len(Assembled(ends, fs)) \in Nat /\ MaxReport \in Nat
      BY <2>1, LimitAssumption, LenProperties
    <2> QED
      BY <2>2, NotMore, Zenon
  <1> QED
    BY <1>1, ParseIs

\* What is read has each name once at most, and the three that are needed once.
LEMMA GivenIs ==
    ASSUME NEW fs \in Fields, NEW seen, Reads(Tail(fs), seen), NEW name \in Names
    PROVE  /\ Cardinality({i \in DOMAIN fs : Gives(fs[i], name)}) <= 1
           /\ seen[name] # Nothing => Cardinality({i \in DOMAIN fs : Gives(fs[i], name)}) = 1
  <1> DEFINE N == Len(fs)
             s == Tail(fs)
             G == {i \in DOMAIN fs : Gives(fs[i], name)}
  <1>1. /\ \A i, j \in DOMAIN s : Gives(s[i], name) /\ Gives(s[j], name) => i = j
        /\ seen[name] # Nothing => \E i \in DOMAIN s : Gives(s[i], name)
    BY DEF Reads
  <1>2. fs \in Seq(Sound) /\ fs # <<>> /\ fs[1] = TheCode
    BY DEF Fields
  <1>3. N \in Nat /\ N # 0 /\ DOMAIN fs = 1..N /\ DOMAIN s = 1..N - 1 /\ \A i \in 1..N - 1 : s[i] = fs[i + 1]
    <2> DEFINE S == Sound
    <2> HIDE DEF S
    <2> QED
      BY <1>2 DEF S
  <1>4. ~ Gives(fs[1], name)
    <2>1. "=" \notin ToSet(TheCode)
      <3>1. TheCode \in Seq(Tokens) /\ Len(TheCode) = 1 /\ TheCode[1] = "7877" /\ "7877" # "="
        BY CodeIsSound
      <3>2. \A i \in DOMAIN TheCode : i = 1
        BY <3>1
      <3> QED
        BY <3>1, <3>2, Zenon DEF ToSet
    <2> QED
      BY <1>2, <2>1, Zenon DEF Gives, IsField
  <1> HIDE DEF s, N
  <1>5. \A i \in G : i - 1 \in DOMAIN s /\ Gives(s[i - 1], name) /\ i \in Nat
    <2> TAKE i \in G
    <2>1. i \in 1..N /\ Gives(fs[i], name) /\ i # 1
      BY <1>3, <1>4
    <2>2. i - 1 \in 1..N - 1 /\ (i - 1) + 1 = i /\ i \in Nat
      BY <1>3, <2>1
    <2> QED
      BY <1>3, <2>1, <2>2
  <1>6. \A i, j \in G : i = j
    <2> TAKE i, j \in G
    <2> HIDE DEF G
    <2>1. i - 1 = j - 1 /\ i \in Nat /\ j \in Nat
      BY <1>1, <1>5
    <2> QED
      BY <2>1
  <1>7. seen[name] # Nothing => G # {}
    <2>1. ASSUME NEW i \in DOMAIN s, Gives(s[i], name)
          PROVE  i + 1 \in G
      BY <1>3, <2>1
    <2> QED
      BY <1>1, <2>1
  <1> HIDE DEF G
  <1>8. G = {} => Cardinality(G) = 0
    BY FS_EmptySet
  <1>9. G # {} => Cardinality(G) = 1
    <2>1. ASSUME NEW i \in G
          PROVE  Cardinality(G) = 1
      <3>1. G = {i}
        BY <1>6, <2>1
      <3> QED
        BY <3>1, FS_Singleton
    <2> QED
      BY <2>1
  <1> QED
    BY <1>7, <1>8, <1>9 DEF G

\* A report is read the same whatever the order of its fields, with an unknown
\* field that fits, and in either frame or none; and what is read at all is in
\* a proper frame, fits, and has each name once at most and the three that are
\* needed once (strip_frame() and the loop of parse()).
THEOREM ParsingIsStrict == Spec => ParseIsStrict
  <1> DEFINE before == Parse(wire)
             after == Parse(wire')
             fit == Len(wire) <= MaxReport /\ Len(wire') <= MaxReport
             payload == Joined(FieldsOf(wire, frame), ";")
             Moved == kind' = "move" => after = before
             Extended == kind' = "extend" /\ fit => after = before
             Framed == kind' = "reframe" /\ fit /\ {frame, frame'} \subseteq Proper /\ ~ HasTerminator(payload)
                          => after = before
             Strict == after # Error =>
                          /\ frame' \in Proper /\ Len(wire') <= MaxReport
                          /\ \A name \in Names : Given(wire', frame', name) <= 1
                          /\ \A name \in {"v", "state", "seq"} : Given(wire', frame', name) = 1
  <1>1. CodecInv /\ Next => Moved /\ Extended /\ Framed /\ Strict
    <2> SUFFICES ASSUME CodecInv, Next
                 PROVE  Moved /\ Extended /\ Framed /\ Strict
      OBVIOUS
    <2>1. PICK fs \in Fields : frame \in FrameType /\ wire = Assembled(frame, fs) /\ FieldsOf(wire, frame) = fs
      BY TheWire
    <2>2. PICK gs \in Fields, ends \in Frames \cup {StFrame} :
             /\ Edit(ends, gs)
             /\ \/ /\ ends = frame /\ kind' \in {"extend", "add"}
                   /\ \E field \in Spare, place \in 2..Len(fs) + 1 :
                         /\ gs = InsertAt(fs, place, field)
                         /\ kind' = "extend" => IsField(field) /\ ~ IsKnown(field)
                \/ ends = frame /\ kind' = "drop"
                \/ /\ ends = frame /\ kind' = "move"
                   /\ \E from \in 2..Len(fs), to \in 2..Len(fs) :
                         gs = InsertAt(RemoveAt(fs, from), to, fs[from])
                \/ kind' = "reframe" /\ gs = fs
      BY <2>1, EditIs
    <2>3. ends \in FrameType /\ wire' = Assembled(ends, gs) /\ frame' = ends
      BY <2>2, FramesAre DEF Edit
    <2>4. Moved
      <3>1. ASSUME kind' = "move"
            PROVE  after = before
        <4>1. ends = frame /\ \E from \in 2..Len(fs), to \in 2..Len(fs) :
                                 gs = InsertAt(RemoveAt(fs, from), to, fs[from])
          BY <2>2, <3>1
        <4> QED
          BY <2>1, <2>3, <4>1, ParseMoved
      <3> QED
        BY <3>1
    <2>5. Extended
      <3>1. ASSUME kind' = "extend", fit
            PROVE  after = before
        <4>1. PICK field \in Spare, place \in 2..Len(fs) + 1 :
                 ends = frame /\ gs = InsertAt(fs, place, field) /\ IsField(field) /\ ~ IsKnown(field)
          BY <2>2, <3>1
        <4>2. field \in Sound /\ ~ HasTerminator(field)
          BY <4>1, SpareIsSound, WireAssumption
        <4> QED
          BY <2>1, <2>3, <3>1, <4>1, <4>2, ParseExtended
      <3> QED
        BY <3>1
    <2>6. Framed
      <3>1. ASSUME kind' = "reframe", fit, {frame, frame'} \subseteq Proper, ~ HasTerminator(payload)
            PROVE  after = before
        <4>1. gs = fs /\ ends \in FrameType \cap Proper /\ frame \in FrameType \cap Proper
          BY <2>1, <2>2, <2>3, <3>1
        <4>2. ~ HasTerminator(Joined(fs, ";"))
          BY <2>1, <3>1
        <4> QED
          BY <2>1, <2>3, <3>1, <4>1, <4>2, ParseReframed
      <3> QED
        BY <3>1
    <2>7. Strict
      <3>1. ASSUME after # Error
            PROVE  /\ frame' \in Proper /\ Len(wire') <= MaxReport
                   /\ \A name \in Names : Given(wire', frame', name) <= 1
                   /\ \A name \in {"v", "state", "seq"} : Given(wire', frame', name) = 1
        <4> DEFINE seen == Taken(Tail(gs))
        <4>1. /\ ~ (Len(wire') > MaxReport) /\ frame' \in Proper
              /\ Reads(Tail(gs), seen) /\ \A name \in {"v", "state", "seq"} : seen[name] # Nothing
          BY <2>3, <3>1, ParseIsReport
        <4>2. FieldsOf(wire', frame') = gs /\ wire' \in Seq(Tokens)
          BY <2>3, ParseIs
        <4>3. \A name : Given(wire', frame', name) = Cardinality({i \in DOMAIN gs : Gives(gs[i], name)})
          BY <4>2, Zenon DEF Given
        <4> HIDE DEF seen
        <4>4. Len(wire') <= MaxReport
          <5>1. Len(wire') \in Nat /\ MaxReport \in Nat
            BY <4>2, LimitAssumption, LenProperties
          <5> QED
            BY <4>1, <5>1
        <4>5. \A name \in Names : Given(wire', frame', name) <= 1
          BY <4>1, <4>3, GivenIs
        <4>6. \A name \in {"v", "state", "seq"} : Given(wire', frame', name) = 1
          <5>1. {"v", "state", "seq"} \subseteq Names
            BY DEF Names
          <5> QED
            BY <4>1, <4>3, <5>1, GivenIs
        <4> QED
          BY <4>1, <4>4, <4>5, <4>6
      <3> QED
        BY <3>1
    <2> QED
      BY <2>4, <2>5, <2>6, <2>7
  <1>2. CodecInv /\ [Next]_vars => [Moved /\ Extended /\ Framed /\ Strict]_vars
    <2> HIDE DEF Moved, Extended, Framed, Strict
    <2> QED
      BY <1>1
  <1>3. Spec => [][Moved /\ Extended /\ Framed /\ Strict]_vars
    <2> HIDE DEF Moved, Extended, Framed, Strict
    <2> QED
      BY <1>2, WireIsFields, PTL DEF Spec
  <1> QED
    BY <1>3, PTL DEF ParseIsStrict
=============================================================================
