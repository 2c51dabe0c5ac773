------------------------- MODULE RecognitionProofs -------------------------
(***************************************************************************)
(* Proofs about recognition, for terminals of any height and any lines,    *)
(* any rule files and any jobs: which rows and how much of the scrollback  *)
(* are in the text that rules read, how a prompt box divides it, which     *)
(* rule decides, and which process is the agent.                           *)
(***************************************************************************)
EXTENDS Recognition, SequenceTheorems, FiniteSetTheorems, WellFoundedInduction, TLAPS

-----------------------------------------------------------------------------
(* The greatest index *)

\* Of the distances to a bound that the indices do not pass, one is least.
LEMMA SomeIsGreatest ==
    ASSUME NEW n \in Nat, NEW T \in SUBSET (1..n), T # {}
    PROVE  \E x \in T : \A y \in T : y <= x
  <1> DEFINE R == {pair \in Nat \X Nat : pair[1] < pair[2]}
             U == {n - x : x \in T}
  <1>1. IsWellFoundedOn(R, Nat)
    BY NatLessThanWellFounded, Zenon DEF OpToRel
  <1>2. U \subseteq Nat /\ U # {}
    <2>1. \A x \in T : n - x \in Nat
      OBVIOUS
    <2> QED
      BY <2>1
  <1>3. PICK u \in U : \A d \in U : ~ (<<d, u>> \in R)
    <2> HIDE DEF U, R
    <2> QED
      BY <1>1, <1>2, WFMin, Zenon
  <1>4. PICK x \in T : u = n - x
    BY <1>3
  <1>5. ASSUME NEW y \in T
        PROVE  y <= x
    <2>1. n - y \in U /\ n - y \in Nat /\ u \in Nat
      BY <1>2
    <2>2. ~ (n - y < u)
      BY <1>3, <2>1
    <2> QED
      BY <1>4, <2>2
  <1> QED
    BY <1>5

LEMMA GreatestIsLast ==
    ASSUME NEW n \in Nat, NEW T \in SUBSET (1..n), T # {}
    PROVE  Greatest(T) \in T /\ \A j \in T : j <= Greatest(T)
  BY SomeIsGreatest DEF Greatest

LEMMA LastIsGreatest ==
    ASSUME NEW n \in Nat, NEW T \in SUBSET (1..n), NEW g \in T, \A j \in T : j <= g
    PROVE  Greatest(T) = g
  <1>1. Greatest(T) \in T /\ \A j \in T : j <= Greatest(T)
    BY GreatestIsLast
  <1>2. \A x \in T : x \in Int
    OBVIOUS
  <1>3. g \in Int /\ Greatest(T) \in Int
    BY <1>1, <1>2
  <1>4. g <= Greatest(T) /\ Greatest(T) <= g
    BY <1>1
  <1> QED
    BY <1>3, <1>4

-----------------------------------------------------------------------------
(* Slices and concatenations, by their elements *)

LEMMA Joined ==
    ASSUME NEW S, NEW s \in Seq(S), NEW t \in Seq(S)
    PROVE  /\ s \o t \in Seq(S) /\ Len(s \o t) = Len(s) + Len(t)
           /\ \A i \in 1..Len(s) : (s \o t)[i] = s[i]
           /\ \A i \in 1..Len(t) : (s \o t)[Len(s) + i] = t[i]
  <1> DEFINE both == s \o t
  <1>1. /\ both \in Seq(S) /\ Len(both) = Len(s) + Len(t)
        /\ \A i \in 1..(Len(s) + Len(t)) : both[i] = IF i <= Len(s) THEN s[i] ELSE t[i - Len(s)]
    BY ConcatProperties, Zenon
  <1>2. Len(s) \in Nat /\ Len(t) \in Nat
    OBVIOUS
  <1> HIDE DEF both
  <1>3. ASSUME NEW i \in 1..Len(s)
        PROVE  both[i] = s[i]
    <2>1. i \in 1..(Len(s) + Len(t)) /\ i <= Len(s)
      BY <1>2
    <2> QED
      BY <1>1, <2>1
  <1>4. ASSUME NEW i \in 1..Len(t)
        PROVE  both[Len(s) + i] = t[i]
    <2>1. /\ Len(s) + i \in 1..(Len(s) + Len(t)) /\ ~ (Len(s) + i <= Len(s))
          /\ Len(s) + i - Len(s) = i
      BY <1>2
    <2>2. both[Len(s) + i] = t[Len(s) + i - Len(s)]
      BY <1>1, <2>1
    <2> QED
      BY <2>1, <2>2
  <1> QED
    BY <1>1, <1>3, <1>4 DEF both

LEMMA Slice ==
    ASSUME NEW S, NEW s \in Seq(S), NEW from \in 1..(Len(s) + 1), NEW to \in (from - 1)..Len(s)
    PROVE  /\ SubSeq(s, from, to) \in Seq(S) /\ Len(SubSeq(s, from, to)) = to - from + 1
           /\ \A i \in 1..(to - from + 1) : SubSeq(s, from, to)[i] = s[from + i - 1]
  <1> DEFINE part == SubSeq(s, from, to)
  <1>1. \A i \in from..to : s[i] \in S
    OBVIOUS
  <1>2. /\ part \in Seq(S) /\ Len(part) = IF from <= to THEN to - from + 1 ELSE 0
        /\ \A i \in 1..(to - from + 1) : part[i] = s[from + i - 1]
    BY <1>1, SubSeqProperties
  <1> HIDE DEF part
  <1>3. Len(part) = to - from + 1
    <2>1. CASE from <= to
      BY <1>2, <2>1
    <2>2. CASE ~ (from <= to)
      <3>1. to - from + 1 = 0
        BY <2>2
      <3> QED
        BY <1>2, <2>2, <3>1
    <2> QED
      BY <2>1, <2>2
  <1> QED
    BY <1>2, <1>3 DEF part

-----------------------------------------------------------------------------
(* Regions *)

\* The box's two rules are the last two, and no third lies after the first.
LEMMA BoxIsLast ==
    ASSUME NEW S, NEW lines \in Seq(S), HasBox(lines)
    PROVE  /\ BoxTop(lines) \in 1..Len(lines) /\ BoxBottom(lines) \in 1..Len(lines)
           /\ BoxTop(lines) < BoxBottom(lines)
           /\ \A i \in 1..Len(lines) :
                 HorizontalRule(lines[i]) /\ i # BoxBottom(lines) => i <= BoxTop(lines)
           /\ Rulers(lines) # {}
  <1> DEFINE T == Rulers(lines)
             b == BoxBottom(lines)
             t == BoxTop(lines)
             n == Len(lines)
  <1>1. n \in Nat /\ DOMAIN lines = 1..n
    OBVIOUS
  <1>2. T \in SUBSET (1..n) /\ \A i \in 1..n : HorizontalRule(lines[i]) => i \in T
    BY <1>1 DEF Rulers, Where
  <1>3. Cardinality(T) >= 2
    BY DEF HasBox
  <1>4. T # {}
    <2>1. T = {} => Cardinality(T) = 0
      BY FS_EmptySet
    <2> HIDE DEF T
    <2> QED
      BY <1>3, <2>1
  <1>5. b = Greatest(T) /\ t = Greatest(T \ {b})
    BY DEF BoxBottom, BoxTop
  <1> HIDE DEF T, b, t, n
  <1>6. b \in T /\ \A j \in T : j <= b
    BY <1>1, <1>2, <1>4, <1>5, GreatestIsLast
  <1>7. T \ {b} # {}
    <2>1. SUFFICES ASSUME T = {b} PROVE FALSE
      BY <1>6
    <2>2. Cardinality({b}) = 1
      BY FS_Singleton
    <2> QED
      BY <1>3, <2>1, <2>2
  <1>8. t \in T \ {b} /\ \A j \in T \ {b} : j <= t
    <2>1. T \ {b} \in SUBSET (1..n)
      BY <1>2
    <2> QED
      BY <1>1, <1>5, <1>7, <2>1, GreatestIsLast
  <1>9. t \in 1..n /\ b \in 1..n /\ t < b
    BY <1>1, <1>2, <1>6, <1>8
  <1>10. \A i \in 1..n : HorizontalRule(lines[i]) /\ i # b => i <= t
    BY <1>2, <1>8
  <1> QED
    BY <1>4, <1>9, <1>10 DEF T, b, t, n

LEMMA NoRuleWithin ==
    ASSUME NEW S, NEW lines \in Seq(S), NEW from \in 1..(Len(lines) + 1),
           NEW to \in 0..Len(lines),
           \A i \in from..to : ~ HorizontalRule(lines[i])
    PROVE  Rulers(SubSeq(lines, from, to)) = {}
  <1> DEFINE part == SubSeq(lines, from, to)
  <1>1. \A i \in from..to : lines[i] \in S
    OBVIOUS
  <1>2. /\ part \in Seq(S) /\ Len(part) = IF from <= to THEN to - from + 1 ELSE 0
        /\ \A i \in 1..(to - from + 1) : part[i] = lines[from + i - 1]
    BY <1>1, SubSeqProperties
  <1> HIDE DEF part
  <1>3. ASSUME NEW i \in DOMAIN part
        PROVE  ~ HorizontalRule(part[i])
    <2>1. DOMAIN part = 1..Len(part)
      BY <1>2
    <2>2. i \in 1..(to - from + 1) /\ from + i - 1 \in from..to
      BY <1>2, <2>1
    <2> QED
      BY <1>2, <2>2
  <1>4. Rulers(part) = {}
    BY <1>3 DEF Rulers, Where
  <1> QED
    BY <1>4 DEF part

LEMMA BoxTiles ==
    ASSUME NEW S, NEW lines \in Seq(S)
    PROVE  Tiled(lines)
  <1> DEFINE b == BoxBottom(lines)
             t == BoxTop(lines)
             n == Len(lines)
  <1>1. SUFFICES ASSUME HasBox(lines)
                 PROVE  /\ lines = AbovePromptBox(lines) \o <<lines[t]>> \o PromptBox(lines)
                              \o <<lines[b]>> \o After(lines, Rulers(lines))
                        /\ Rulers(PromptBox(lines)) = {}
                        /\ Rulers(After(lines, Rulers(lines))) = {}
    BY DEF Tiled
  <1>2. /\ t \in 1..n /\ b \in 1..n /\ t < b /\ n \in Nat
        /\ \A i \in 1..n : HorizontalRule(lines[i]) /\ i # b => i <= t
        /\ Rulers(lines) # {}
    BY <1>1, BoxIsLast
  <1>3. /\ AbovePromptBox(lines) = SubSeq(lines, 1, t - 1)
        /\ PromptBox(lines) = SubSeq(lines, t + 1, b - 1)
        /\ After(lines, Rulers(lines)) = SubSeq(lines, b + 1, n)
    BY <1>1, <1>2 DEF AbovePromptBox, PromptBox, After, Upto, From, BoxBottom
  <1> HIDE DEF b, t
  <1>4. SubSeq(lines, 1, t - 1) \o <<lines[t]>> = SubSeq(lines, 1, t)
    <2>1. 1 \in 1..Len(lines) /\ t \in 1..Len(lines)
      BY <1>2
    <2> QED
      BY <2>1, SubSeqRecursiveSecond
  <1>5. SubSeq(lines, 1, t) \o SubSeq(lines, t + 1, b - 1) = SubSeq(lines, 1, b - 1)
    <2>1. /\ 1 \in 1..(Len(lines) + 1) /\ t \in (1 - 1)..Len(lines)
          /\ b - 1 \in t..Len(lines)
      BY <1>2
    <2> QED
      BY <2>1, ConcatAdjacentSubSeq
  <1>6. SubSeq(lines, 1, b - 1) \o <<lines[b]>> = SubSeq(lines, 1, b)
    <2>1. 1 \in 1..Len(lines) /\ b \in 1..Len(lines)
      BY <1>2
    <2> QED
      BY <2>1, SubSeqRecursiveSecond
  <1>7. SubSeq(lines, 1, b) \o SubSeq(lines, b + 1, n) = lines
    <2>1. /\ 1 \in 1..(Len(lines) + 1) /\ b \in (1 - 1)..Len(lines)
          /\ n \in b..Len(lines)
      BY <1>2
    <2>2. SubSeq(lines, 1, b) \o SubSeq(lines, b + 1, n) = SubSeq(lines, 1, n)
      BY <2>1, ConcatAdjacentSubSeq
    <2> QED
      BY <2>2, SubSeqFull
  <1>8. Rulers(SubSeq(lines, t + 1, b - 1)) = {}
    <2>1. t + 1 \in 1..(Len(lines) + 1) /\ b - 1 \in 0..Len(lines)
      BY <1>2
    <2>2. \A i \in (t + 1)..(b - 1) : i \in 1..n /\ i # b /\ ~ (i <= t)
      BY <1>2
    <2> QED
      BY <1>2, <2>1, <2>2, NoRuleWithin
  <1>9. Rulers(SubSeq(lines, b + 1, n)) = {}
    <2>1. b + 1 \in 1..(Len(lines) + 1) /\ n \in 0..Len(lines)
      BY <1>2
    <2>2. \A i \in (b + 1)..n : i \in 1..n /\ i # b /\ ~ (i <= t)
      BY <1>2
    <2> QED
      BY <1>2, <2>1, <2>2, NoRuleWithin
  <1> HIDE DEF n
  <1> QED
    BY <1>3, <1>4, <1>5, <1>6, <1>7, <1>8, <1>9
-----------------------------------------------------------------------------
(* The window *)

\* What is left of a text whose last line with something in it is known.
LEMMA TrimmedAt ==
    ASSUME NEW S, NEW s \in Seq(S), NEW g \in 1..Len(s), ~ Empty(s[g]),
           \A i \in 1..Len(s) : i > g => Empty(s[i])
    PROVE  Trimmed(s) = SubSeq(s, 1, g)
  <1>1. Len(s) \in Nat /\ DOMAIN s = 1..Len(s)
    OBVIOUS
  <1>2. /\ NonEmpty(s) \in SUBSET (1..Len(s)) /\ g \in NonEmpty(s)
        /\ \A j \in NonEmpty(s) : ~ Empty(s[j])
    BY <1>1 DEF NonEmpty, Where
  <1>3. \A j \in NonEmpty(s) : j <= g
    BY <1>2
  <1>4. Greatest(NonEmpty(s)) = g
    BY <1>1, <1>2, <1>3, LastIsGreatest
  <1> QED
    BY <1>2, <1>4 DEF Trimmed, Upto

\* A slice that begins in a first text and ends in a second one.
LEMMA SliceOfTwo ==
    ASSUME NEW S, NEW h \in Seq(S), NEW l \in Seq(S),
           NEW start \in 1..(Len(h) + 1), NEW e \in 1..Len(l)
    PROVE  SubSeq(h \o l, start, Len(h) + e) = SubSeq(h, start, Len(h)) \o SubSeq(l, 1, e)
  <1> DEFINE both == h \o l
             lhs == SubSeq(both, start, Len(h) + e)
             a == SubSeq(h, start, Len(h))
             b == SubSeq(l, 1, e)
             rhs == a \o b
             m == Len(h) - start + 1
  <1>1. Len(h) \in Nat /\ Len(l) \in Nat /\ m \in Nat /\ m + start = Len(h) + 1
    OBVIOUS
  <1>2. /\ both \in Seq(S) /\ Len(both) = Len(h) + Len(l)
        /\ \A i \in 1..Len(h) : both[i] = h[i]
        /\ \A i \in 1..Len(l) : both[Len(h) + i] = l[i]
    BY Joined
  <1>3. a \in Seq(S) /\ Len(a) = m /\ \A i \in 1..m : a[i] = h[start + i - 1]
    <2>1. Len(h) \in (start - 1)..Len(h)
      BY <1>1
    <2> QED
      BY <2>1, Slice
  <1>4. b \in Seq(S) /\ Len(b) = e /\ \A i \in 1..e : b[i] = l[1 + i - 1]
    <2>1. 1 \in 1..(Len(l) + 1) /\ e \in (1 - 1)..Len(l) /\ e - 1 + 1 = e
      BY <1>1
    <2>2. /\ b \in Seq(S) /\ Len(b) = e - 1 + 1
          /\ \A i \in 1..(e - 1 + 1) : b[i] = l[1 + i - 1]
      BY <2>1, Slice
    <2> QED
      BY <2>1, <2>2
  <1> HIDE DEF both
  <1>5. lhs \in Seq(S) /\ Len(lhs) = m + e /\ \A i \in 1..(m + e) : lhs[i] = both[start + i - 1]
    <2>1. /\ start \in 1..(Len(both) + 1) /\ Len(h) + e \in (start - 1)..Len(both)
          /\ Len(h) + e - start + 1 = m + e
      BY <1>1, <1>2
    <2>2. /\ lhs \in Seq(S) /\ Len(lhs) = Len(h) + e - start + 1
          /\ \A i \in 1..(Len(h) + e - start + 1) : lhs[i] = both[start + i - 1]
      BY <1>2, <2>1, Slice
    <2> QED
      BY <2>1, <2>2
  <1> HIDE DEF a, b, lhs, m
  <1>6. /\ rhs \in Seq(S) /\ Len(rhs) = m + e
        /\ \A i \in 1..m : rhs[i] = a[i]
        /\ \A i \in 1..e : rhs[m + i] = b[i]
    <2>1. /\ rhs \in Seq(S) /\ Len(rhs) = Len(a) + Len(b)
          /\ \A i \in 1..Len(a) : rhs[i] = a[i]
          /\ \A i \in 1..Len(b) : rhs[Len(a) + i] = b[i]
      <3>1. a \in Seq(S) /\ b \in Seq(S)
        BY <1>3, <1>4
      <3> QED
        BY <3>1, Joined
    <2> QED
      BY <1>3, <1>4, <2>1
  <1> HIDE DEF rhs
  <1>7. ASSUME NEW i \in 1..(m + e)
        PROVE  lhs[i] = rhs[i]
    <2>1. CASE i <= m
      <3>1. start + i - 1 \in 1..Len(h) /\ i \in 1..m
        BY <1>1, <2>1
      <3> QED
        BY <1>2, <1>3, <1>5, <1>6, <3>1
    <2>2. CASE ~ (i <= m)
      <3>1. PICK j \in 1..e : i = m + j
        <4>1. i - m \in 1..e /\ i = m + (i - m)
          BY <1>1, <2>2
        <4> QED
          BY <4>1
      <3>2. start + i - 1 = Len(h) + j /\ 1 + j - 1 = j /\ j \in 1..Len(l)
        BY <1>1, <3>1
      <3>3. lhs[i] = both[Len(h) + j] /\ rhs[i] = b[j] /\ b[j] = l[j]
        BY <1>4, <1>5, <1>6, <3>1, <3>2
      <3> QED
        BY <1>2, <3>2, <3>3
    <2> QED
      BY <2>1, <2>2
  <1>8. lhs = rhs
    BY <1>1, <1>5, <1>6, <1>7, SeqEqual
  <1> QED
    BY <1>8 DEF lhs, rhs, a, b, both

\* The rows below both the text and the cursor.
LEMMA UnusedRows ==
    ASSUME NEW n \in Nat, NEW S, NEW l \in Seq(S), Len(l) = n, NEW c \in 1..n, NEW last \in 1..n,
           c <= last, last = c \/ ~ Empty(l[last]),
           \A i \in 1..n : i > last => Empty(l[i])
    PROVE  Cardinality({row \in 1..n : row > c /\ \A r \in row..n : Empty(l[r])}) = n - last
  <1> DEFINE U == {row \in 1..n : row > c /\ \A r \in row..n : Empty(l[r])}
  <1>1. ASSUME NEW row \in 1..n, row > c, \A r \in row..n : Empty(l[r])
        PROVE  row \in (last + 1)..n
    <2>1. ~ (row <= last)
      <3>1. SUFFICES ASSUME row <= last PROVE FALSE
        OBVIOUS
      <3>2. last # c
        BY <1>1, <3>1
      <3>3. last \in row..n
        BY <3>1
      <3> QED
        BY <1>1, <3>2, <3>3
    <2> QED
      BY <2>1
  <1>2. ASSUME NEW row \in (last + 1)..n
        PROVE  row \in U
    <2>1. row \in 1..n /\ row > c /\ \A r \in row..n : r \in 1..n /\ r > last
      OBVIOUS
    <2> QED
      BY <2>1
  <1>3. U = (last + 1)..n
    BY <1>1, <1>2
  <1>4. Cardinality((last + 1)..n) = n - last
    <2>1. last + 1 \in Int /\ n \in Int
      OBVIOUS
    <2>2. Cardinality((last + 1)..n) = IF last + 1 > n THEN 0 ELSE n - (last + 1) + 1
      BY <2>1, FS_Interval
    <2>3. CASE last + 1 > n
      BY <2>2, <2>3
    <2>4. CASE ~ (last + 1 > n)
      BY <2>2, <2>4
    <2> QED
      BY <2>3, <2>4
  <1> QED
    BY <1>3, <1>4

Reach(h, l, c, n) ==
    LET unused == {row \in 1..n : row > c /\ \A r \in row..n : Empty(l[r])}
    IN  IF Len(h) < Cardinality(unused) THEN Len(h) ELSE Cardinality(unused)

\* The window of a primary screen that shows some text.
LEMMA WindowOfText ==
    ASSUME NEW n \in Nat, NEW S, NEW h \in Seq(S), NEW l \in Seq(S),
           Len(l) = n, Len(h) < n, NEW c \in 1..n, NonEmpty(l) # {}
    PROVE  Window(FALSE, h, l, c) = From(h, Len(h) - Reach(h, l, c, n) + 1) \o Trimmed(l)
  <1> DEFINE text == Greatest(NonEmpty(l))
             last == Greatest(NonEmpty(l) \cup {c})
             m == Len(h)
             end == m + last
             start == IF end > n THEN end - n + 1 ELSE 1
             w == SubSeq(h \o l, start, end)
             g == m + text - start + 1
  <1>1. m \in Nat /\ DOMAIN l = 1..n /\ DOMAIN h = 1..m
    OBVIOUS
  <1>2. /\ NonEmpty(l) \in SUBSET (1..n)
        /\ \A i \in 1..n : i \in NonEmpty(l) <=> ~ Empty(l[i])
    BY <1>1 DEF NonEmpty, Where
  <1>3. text \in NonEmpty(l) /\ \A j \in NonEmpty(l) : j <= text
    BY <1>2, GreatestIsLast
  <1>4. last \in NonEmpty(l) \cup {c} /\ \A j \in NonEmpty(l) \cup {c} : j <= last
    <2>1. NonEmpty(l) \cup {c} \in SUBSET (1..n) /\ NonEmpty(l) \cup {c} # {}
      BY <1>2
    <2> QED
      BY <2>1, GreatestIsLast
  <1>5. From(h, IF Len(h) > Len(l) THEN Len(h) - Len(l) + 1 ELSE 1) = h
    <2>1. ~ (Len(h) > Len(l))
      BY <1>1
    <2> QED
      BY <2>1, SubSeqFull DEF From
  <1>6. Window(FALSE, h, l, c) = Trimmed(w)
    BY <1>5 DEF Window, LiveEnd
  <1> HIDE DEF text, last, m
  <1>7. /\ text \in 1..n /\ last \in 1..n /\ c <= last /\ text <= last
        /\ ~ Empty(l[text])
        /\ last = c \/ ~ Empty(l[last])
        /\ \A i \in 1..n : i > text => Empty(l[i])
    BY <1>2, <1>3, <1>4
  <1>8. /\ start \in 1..(m + 1) /\ end \in 1..(m + n) /\ start <= end
        /\ g \in 1..(end - start + 1) /\ start + g - 1 = m + text
    BY <1>1, <1>7
  <1>9. start = m - Reach(h, l, c, n) + 1
    <2>1. \A i \in 1..n : i > last => Empty(l[i])
      BY <1>7
    <2>2. Cardinality({row \in 1..n : row > c /\ \A r \in row..n : Empty(l[r])}) = n - last
      BY <1>7, <2>1, UnusedRows
    <2>3. Reach(h, l, c, n) = IF m < n - last THEN m ELSE n - last
      BY <2>2 DEF Reach, m
    <2> HIDE DEF m
    <2>4. CASE end > n
      BY <1>1, <1>7, <2>3, <2>4
    <2>5. CASE ~ (end > n)
      BY <1>1, <1>7, <2>3, <2>5
    <2> QED
      BY <2>4, <2>5
  <1> HIDE DEF start, end, g
  <1>10. Trimmed(l) = SubSeq(l, 1, text)
    <2>1. text \in 1..Len(l) /\ ~ Empty(l[text]) /\ \A i \in 1..Len(l) : i > text => Empty(l[i])
      BY <1>7
    <2> QED
      BY <2>1, TrimmedAt
  <1>11. /\ h \o l \in Seq(S) /\ Len(h \o l) = m + n
         /\ \A i \in 1..n : (h \o l)[m + i] = l[i]
    <2>1. /\ h \o l \in Seq(S) /\ Len(h \o l) = Len(h) + Len(l)
          /\ \A i \in 1..Len(l) : (h \o l)[Len(h) + i] = l[i]
      <3>1. h \o l \in Seq(S) /\ Len(h \o l) = Len(h) + Len(l)
        BY Joined
      <3>2. \A i \in 1..Len(l) : (h \o l)[Len(h) + i] = l[i]
        BY Joined
      <3> QED
        BY <3>1, <3>2
    <2> QED
      BY <2>1 DEF m
  <1>12. /\ w \in Seq(S) /\ Len(w) = end - start + 1
         /\ \A i \in 1..(end - start + 1) : w[i] = (h \o l)[start + i - 1]
    <2>1. start \in 1..(Len(h \o l) + 1) /\ end \in (start - 1)..Len(h \o l)
      BY <1>1, <1>8, <1>11
    <2> QED
      BY <1>11, <2>1, Slice
  <1> HIDE DEF w
  <1>13. Trimmed(w) = SubSeq(w, 1, g)
    <2>1. g \in 1..Len(w) /\ ~ Empty(w[g])
      <3>1. w[g] = (h \o l)[m + text]
        BY <1>8, <1>12
      <3> QED
        BY <1>7, <1>8, <1>11, <1>12, <3>1
    <2>2. ASSUME NEW i \in 1..Len(w), i > g
          PROVE  Empty(w[i])
      <3>1. i \in 1..(end - start + 1)
        BY <1>12
      <3>2. start + i - 1 > m + text /\ start + i - 1 <= m + n
        BY <1>1, <1>7, <1>8, <2>2, <3>1
      <3>3. PICK j \in 1..n : j > text /\ m + j = start + i - 1
        <4>1. start + i - 1 - m \in 1..n /\ start + i - 1 - m > text
          BY <1>1, <1>7, <1>8, <3>1, <3>2
        <4> QED
          BY <1>1, <1>8, <4>1
      <3>4. w[i] = l[j]
        BY <1>11, <1>12, <3>1, <3>3
      <3> QED
        BY <1>7, <3>3, <3>4
    <2> QED
      BY <1>12, <2>1, <2>2, TrimmedAt
  <1>14. SubSeq(w, 1, g) = SubSeq(h \o l, start, m + text)
    <2>1. /\ h \o l \in Seq(S) /\ start \in 1..Len(h \o l) /\ end \in 1..Len(h \o l)
          /\ 1 \in 1..(end - start + 1) /\ g \in 1..(end - start + 1)
      BY <1>1, <1>8, <1>11
    <2>2. SubSeq(SubSeq(h \o l, start, end), 1, g) = SubSeq(h \o l, start + 1 - 1, start + g - 1)
      BY <2>1, SubSeqOfSubSeq
    <2>3. start + 1 - 1 = start /\ start \in Int
      BY <1>8
    <2> QED
      BY <1>8, <2>2, <2>3 DEF w
  <1>15. SubSeq(h \o l, start, m + text) = From(h, start) \o SubSeq(l, 1, text)
    BY <1>7, <1>8, SliceOfTwo DEF From, m
  <1> QED
    BY <1>6, <1>9, <1>10, <1>13, <1>14, <1>15 DEF m

-----------------------------------------------------------------------------
(* The invariant *)

Line == Lines \cup {Blank}

\* The lines are the child's or blank, and no more are kept of the scrollback
\* than can reach the window.
IsScreen(a, h, l, c) ==
    /\ l \in Seq(Line) /\ Len(l) = Rows
    /\ c \in 1..Rows
    /\ h \in Seq(Line) /\ Len(h) < Rows
    /\ a => h = <<>>

\* The window is that of the rows and the cursor before this chunk, even if it
\* was not made for them.
ScreenInv ==
    /\ alternate \in BOOLEAN
    /\ IsScreen(alternate, history, live, cursor)
    /\ before = <<before[1], before[2], alternate>>
    /\ IsScreen(alternate, seen, before[1], before[2])
    /\ window = Window(alternate, seen, before[1], before[2])
    /\ writes \in Nat
    /\ writes = 0 => before = Compared

LEMMA RowsOfBlank == Cleared \in Seq(Line) /\ Len(Cleared) = Rows
  <1>1. Cleared \in [1..Rows -> Line] /\ Rows \in Nat
    BY ScreenAssumption DEF Cleared, Line
  <1>2. Cleared \in Seq(Line)
    BY <1>1, SeqDef
  <1> QED
    BY <1>1, <1>2, LenProperties

LEMMA ScrolledScreen ==
    ASSUME IsScreen(alternate, history, live, cursor), Scrolls
    PROVE  IsScreen(alternate, history', live', cursor)
  <1> USE DEF IsScreen
  <1>1. Rows \in Nat \ {0} /\ Blank \in Line /\ live # <<>>
    BY ScreenAssumption DEF Line
  <1>2. live' = Append(Tail(live), Blank) /\ history' = Scrolled(live[1])
    BY DEF Scrolls
  <1>3. Tail(live) \in Seq(Line) /\ Len(Tail(live)) = Rows - 1 /\ live[1] \in Line
    BY <1>1, HeadTailProperties
  <1>4. live' \in Seq(Line) /\ Len(live') = Rows
    BY <1>1, <1>2, <1>3, AppendProperties
  <1>5. /\ history' \in Seq(Line) /\ Len(history') < Rows
        /\ alternate => history' = <<>>
    <2> DEFINE all == Append(history, live[1])
    <2>1. CASE alternate
      BY <1>1, <1>2, <2>1 DEF Scrolled
    <2>2. CASE ~ alternate
      <3>1. all \in Seq(Line) /\ Len(all) = Len(history) + 1 /\ all # <<>>
        BY <1>3, AppendProperties
      <3>2. history' = IF Len(all) < Rows THEN all ELSE Tail(all)
        BY <1>2, <2>2 DEF Scrolled
      <3> HIDE DEF all
      <3>3. Tail(all) \in Seq(Line) /\ Len(Tail(all)) = Len(history)
        BY <3>1, HeadTailProperties
      <3> QED
        BY <1>2, <2>2, <3>1, <3>2, <3>3
    <2> QED
      BY <2>1, <2>2
  <1> QED
    BY <1>4, <1>5

\* What the child does within a chunk leaves the last window and what it was
\* made of alone.
LEMMA WritingKeepsWindow ==
    ASSUME ScreenInv, Writing, IsScreen(alternate, history', live', cursor')
    PROVE  ScreenInv'
  <1>1. writes' = writes + 1 /\ UNCHANGED <<alternate, before, window, seen>>
    BY DEF Writing
  <1>2. writes' \in Nat /\ writes' # 0
    BY <1>1 DEF ScreenInv
  <1> QED
    BY <1>1, <1>2 DEF ScreenInv

LEMMA ScreenStep == ScreenInv /\ [ScreenNext]_screenVars => ScreenInv'
  <1> SUFFICES ASSUME ScreenInv, [ScreenNext]_screenVars PROVE ScreenInv'
    OBVIOUS
  <1>1. Rows \in Nat \ {0} /\ Blank \in Line
    BY ScreenAssumption DEF Line
  <1>2. IsScreen(alternate, history, live, cursor)
    BY DEF ScreenInv
  <1>3. ASSUME NEW line \in Lines, WriteLine(line)
        PROVE  ScreenInv'
    <2>1. line \in Line /\ live \in Seq(Line) /\ cursor \in 1..Len(live)
      BY <1>2 DEF Line, IsScreen
    <2>2. live' \in Seq(Line) /\ Len(live') = Len(live)
      BY <1>3, <2>1, ExceptSeq DEF WriteLine
    <2>3. IsScreen(alternate, history', live', cursor')
      BY <1>2, <1>3, <2>2 DEF WriteLine, IsScreen
    <2> QED
      BY <1>3, <2>3, WritingKeepsWindow DEF WriteLine
  <1>4. CASE LineFeed
    <2>1. IsScreen(alternate, history', live', cursor')
      <3>1. CASE cursor < Rows
        BY <1>1, <1>2, <1>4, <3>1 DEF LineFeed, IsScreen
      <3>2. CASE ~ (cursor < Rows)
        BY <1>2, <1>4, <3>2, ScrolledScreen DEF LineFeed
      <3> QED
        BY <3>1, <3>2
    <2> QED
      BY <1>4, <2>1, WritingKeepsWindow DEF LineFeed
  <1>5. CASE ScrollUp
    BY <1>2, <1>5, ScrolledScreen, WritingKeepsWindow DEF ScrollUp
  <1>6. CASE GoHome
    <2>1. IsScreen(alternate, history', live', cursor')
      BY <1>1, <1>2, <1>6 DEF GoHome, IsScreen
    <2> QED
      BY <1>6, <2>1, WritingKeepsWindow DEF GoHome
  <1>7. CASE EraseBelow
    <2>1. live' \in [1..Rows -> Line]
      <3>1. live' = [row \in 1..Rows |-> IF row < cursor THEN live[row] ELSE Blank]
        BY <1>7 DEF EraseBelow
      <3>2. \A row \in 1..Rows : live[row] \in Line
        BY <1>1, <1>2 DEF IsScreen
      <3> QED
        BY <1>1, <3>1, <3>2
    <2>2. live' \in Seq(Line)
      BY <1>1, <2>1, SeqDef
    <2>3. Len(live') = Rows
      BY <1>1, <2>1, <2>2, LenProperties
    <2>4. IsScreen(alternate, history', live', cursor')
      BY <1>2, <1>7, <2>2, <2>3 DEF EraseBelow, IsScreen
    <2> QED
      BY <1>7, <2>4, WritingKeepsWindow DEF EraseBelow
  <1>8. CASE ChildSetsTitle
    BY <1>2, <1>8, WritingKeepsWindow DEF ChildSetsTitle
  <1>9. CASE ChunkEnds
    <2>1. /\ before' = <<live, cursor, alternate>> /\ Compared' = before'
          /\ UNCHANGED <<alternate, history, live, cursor>>
      BY <1>9 DEF ChunkEnds, Compared
    <2>2. \/ window' = Window(alternate, history, live, cursor) /\ seen' = history
          \/ before = <<live, cursor, alternate>> /\ window' = window /\ seen' = seen
      BY <1>9 DEF ChunkEnds, Compared
    <2>3. before'[1] = live /\ before'[2] = cursor
      BY <2>1
    <2>4. IsScreen(alternate', seen', before'[1], before'[2])
      BY <1>2, <2>1, <2>2, <2>3 DEF ScreenInv
    <2>5. window' = Window(alternate', seen', before'[1], before'[2])
      BY <2>1, <2>2, <2>3 DEF ScreenInv
    <2>6. before' = <<before'[1], before'[2], alternate'>>
      BY <2>1, <2>3
    <2>7. IsScreen(alternate', history', live', cursor') /\ writes' \in Nat
      BY <1>2, <1>9, <2>1 DEF ChunkEnds
    <2> QED
      BY <2>1, <2>4, <2>5, <2>6, <2>7 DEF ScreenInv
  <1>10. CASE UNCHANGED screenVars
    BY <1>10 DEF screenVars, ScreenInv, Compared
  <1> QED
    BY <1>3, <1>4, <1>5, <1>6, <1>7, <1>8, <1>9, <1>10 DEF ScreenNext

LEMMA ScreenAlways == Spec => []ScreenInv
  <1>1. ScreenInit => ScreenInv
    <2>1. 1 \in 1..Rows /\ 0 < Rows
      BY ScreenAssumption
    <2> QED
      BY <2>1, RowsOfBlank DEF ScreenInit, ScreenInv, IsScreen, Compared
  <1>2. Init => ScreenInit
    BY DEF Init
  <1>3. [Next]_vars => [ScreenNext]_screenVars
    BY DEF Next, ChildWrites, JobChanges, vars
  <1> QED
    BY <1>1, <1>2, <1>3, ScreenStep, PTL DEF Spec

-----------------------------------------------------------------------------
(* The properties *)

LEMMA TrimmedIsText ==
    ASSUME NEW S, NEW s \in Seq(S)
    PROVE  Trimmed(s) \in Seq(S)
  <1> DEFINE g == Greatest(NonEmpty(s))
  <1>1. CASE NonEmpty(s) = {}
    BY <1>1 DEF Trimmed
  <1>2. CASE NonEmpty(s) # {}
    <2>1. Len(s) \in Nat /\ NonEmpty(s) \in SUBSET (1..Len(s))
      BY DEF NonEmpty, Where
    <2>2. g \in 1..Len(s)
      BY <1>2, <2>1, GreatestIsLast
    <2> HIDE DEF g
    <2>3. SubSeq(s, 1, g) \in Seq(S)
      <3>1. \A i \in 1..g : s[i] \in S
        BY <2>1, <2>2
      <3> QED
        BY <2>2, <3>1, SubSeqProperties
    <2> QED
      BY <1>2, <2>3 DEF Trimmed, Upto, g
  <1> QED
    BY <1>1, <1>2

\* What the window of a primary screen is before its blank end is cut off.
LEMMA WindowOfPrimary ==
    ASSUME NEW h, NEW l, NEW c, IsScreen(FALSE, h, l, c),
           NEW end, end = Len(h) + LiveEnd(l, c),
           NEW start, start = IF end > Rows THEN end - Rows + 1 ELSE 1
    PROVE  /\ Window(FALSE, h, l, c) = Trimmed(SubSeq(h \o l, start, end))
           /\ LiveEnd(l, c) \in 1..Rows
  <1>1. Rows \in Nat \ {0} /\ Len(h) \in Nat /\ DOMAIN l = 1..Rows
    BY ScreenAssumption DEF IsScreen
  <1>2. LiveEnd(l, c) \in 1..Rows
    <2>1. NonEmpty(l) \cup {c} \in SUBSET (1..Rows) /\ NonEmpty(l) \cup {c} # {}
      BY <1>1 DEF IsScreen, NonEmpty, Where
    <2>2. Greatest(NonEmpty(l) \cup {c}) \in 1..Rows
      BY <1>1, <2>1, GreatestIsLast
    <2> QED
      BY <1>1, <2>2 DEF LiveEnd, IsScreen
  <1>3. From(h, IF Len(h) > Len(l) THEN Len(h) - Len(l) + 1 ELSE 1) = h
    <2>1. ~ (Len(h) > Len(l)) /\ h \in Seq(Line)
      BY <1>1 DEF IsScreen
    <2> QED
      BY <2>1, SubSeqFull DEF From
  <1> QED
    BY <1>2, <1>3 DEF Window, IsScreen

LEMMA WindowIsText ==
    ASSUME NEW a \in BOOLEAN, NEW h, NEW l, NEW c, IsScreen(a, h, l, c)
    PROVE  Window(a, h, l, c) \in Seq(Line)
  <1>1. CASE a
    <2>1. Window(a, h, l, c) = Trimmed(l)
      BY <1>1 DEF Window
    <2> QED
      BY <2>1, TrimmedIsText DEF IsScreen
  <1>2. CASE ~ a
    <2> DEFINE end == Len(h) + LiveEnd(l, c)
               start == IF end > Rows THEN end - Rows + 1 ELSE 1
    <2>1. a = FALSE /\ IsScreen(FALSE, h, l, c)
      BY <1>2 DEF IsScreen
    <2>2. Window(a, h, l, c) = Trimmed(SubSeq(h \o l, start, end)) /\ LiveEnd(l, c) \in 1..Rows
      BY <2>1, WindowOfPrimary
    <2>3. /\ h \o l \in Seq(Line) /\ Len(h \o l) = Len(h) + Rows
          /\ Len(h) \in Nat /\ Rows \in Nat
      <3>1. h \in Seq(Line) /\ l \in Seq(Line) /\ Len(l) = Rows
        BY DEF IsScreen
      <3>2. h \o l \in Seq(Line) /\ Len(h \o l) = Len(h) + Len(l)
        BY <3>1, Joined
      <3> QED
        BY <3>1, <3>2, ScreenAssumption
    <2>4. start \in 1..Len(h \o l) /\ end \in 1..Len(h \o l)
      BY <2>2, <2>3
    <2> HIDE DEF start, end
    <2>5. SubSeq(h \o l, start, end) \in Seq(Line)
      <3>1. \A i \in start..end : (h \o l)[i] \in Line
        BY <2>3, <2>4
      <3> QED
        BY <2>4, <3>1, SubSeqProperties
    <2> QED
      BY <2>2, <2>5, TrimmedIsText
  <1> QED
    BY <1>1, <1>2

\* A screen without any text has no window: the scrollback is not shown for it.
LEMMA WindowOfBlank ==
    ASSUME NEW a \in BOOLEAN, NEW h, NEW l, NEW c, IsScreen(a, h, l, c), l = Cleared
    PROVE  Window(a, h, l, c) = <<>>
  <1>1. Empty(Blank)
    BY DEF Empty, Blank
  <1>2. /\ Rows \in Nat \ {0} /\ Len(h) \in Nat /\ \A row \in 1..Rows : Empty(l[row])
        /\ DOMAIN l = 1..Rows /\ NonEmpty(l) = {}
    BY <1>1, ScreenAssumption DEF IsScreen, Cleared, NonEmpty, Where
  <1>3. CASE a
    BY <1>2, <1>3 DEF Window, Trimmed
  <1>4. CASE ~ a
    <2> DEFINE m == Len(h)
               w == SubSeq(h \o l, m + 1, m + Rows)
    <2>1. LiveEnd(l, c) = Rows
      BY <1>2 DEF LiveEnd, IsScreen
    <2>3. a = FALSE /\ IsScreen(FALSE, h, l, c)
      BY <1>4 DEF IsScreen
    <2>4. Window(a, h, l, c) = Trimmed(w)
      <3> DEFINE start == m + 1
                 end == m + Rows
      <3>1. end = Len(h) + LiveEnd(l, c) /\ start = IF end > Rows THEN end - Rows + 1 ELSE 1
        BY <1>2, <2>1
      <3> HIDE DEF start, end
      <3>2. Window(FALSE, h, l, c) = Trimmed(SubSeq(h \o l, start, end))
        BY <2>3, <3>1, WindowOfPrimary
      <3> QED
        BY <2>3, <3>2 DEF start, end
    <2>5. /\ h \o l \in Seq(Line)
          /\ \A i \in 1..(m + Rows) :
                (h \o l)[i] = IF i <= m THEN h[i] ELSE l[i - m]
          /\ Len(h \o l) = m + Rows
      <3>1. h \in Seq(Line) /\ l \in Seq(Line) /\ Len(l) = Rows
        BY DEF IsScreen
      <3>2. /\ h \o l \in Seq(Line) /\ Len(h \o l) = Len(h) + Len(l)
            /\ \A i \in 1..(Len(h) + Len(l)) :
                  (h \o l)[i] = IF i <= Len(h) THEN h[i] ELSE l[i - Len(h)]
        BY <3>1, ConcatProperties, Zenon
      <3> QED
        BY <3>1, <3>2
    <2>6. w \in Seq(Line) /\ Len(w) = Rows /\ \A i \in 1..Rows : w[i] = l[i]
      <3>1. \A i \in (m + 1)..(m + Rows) : (h \o l)[i] \in Line
        BY <1>2, <2>5
      <3>2. m + 1 <= m + Rows /\ m + Rows - (m + 1) + 1 = Rows
        BY <1>2
      <3>3. /\ w \in Seq(Line) /\ Len(w) = Rows
            /\ \A i \in 1..Rows : w[i] = (h \o l)[m + 1 + i - 1]
        BY <1>2, <3>1, <3>2, SubSeqProperties
      <3>4. \A i \in 1..Rows : m + 1 + i - 1 \in 1..(m + Rows) /\ ~ (m + 1 + i - 1 <= m) /\ m + 1 + i - 1 - m = i
        BY <1>2
      <3>5. ASSUME NEW i \in 1..Rows
            PROVE  w[i] = l[i]
        <4>1. w[i] = (h \o l)[m + 1 + i - 1]
          BY <3>3
        <4>2. (h \o l)[m + 1 + i - 1] = l[m + 1 + i - 1 - m]
          BY <2>5, <3>4
        <4> QED
          BY <3>4, <4>1, <4>2
      <3> QED
        BY <3>3, <3>5
    <2> HIDE DEF w
    <2>7. NonEmpty(w) = {}
      BY <1>2, <2>6 DEF NonEmpty, Where
    <2> QED
      BY <2>4, <2>7 DEF Trimmed
  <1> QED
    BY <1>3, <1>4

LEMMA WindowInv == ScreenInv => WindowIsTail
  <1> SUFFICES ASSUME ScreenInv, writes = 0
               PROVE  IF live = Cleared THEN window = <<>>
                      ELSE window = From(seen, Len(seen)
                              - (IF alternate THEN 0 ELSE Reach(seen, live, cursor, Rows)) + 1)
                                 \o Trimmed(live)
    BY DEF WindowIsTail, Reach
  <1>1. /\ window = Window(alternate, seen, live, cursor)
        /\ IsScreen(alternate, seen, live, cursor) /\ alternate \in BOOLEAN
    <2>1. before[1] = live /\ before[2] = cursor
      BY DEF ScreenInv, Compared
    <2> QED
      BY <2>1 DEF ScreenInv
  <1>2. CASE live = Cleared
    BY <1>1, <1>2, WindowOfBlank
  <1>3. CASE live # Cleared
    <2>1. Rows \in Nat \ {0} /\ Len(seen) \in Nat /\ DOMAIN live = 1..Rows
      BY <1>1, ScreenAssumption DEF IsScreen
    <2>2. NonEmpty(live) # {}
      <3>1. SUFFICES ASSUME \A row \in 1..Rows : Empty(live[row]) PROVE FALSE
        BY <2>1 DEF NonEmpty, Where
      <3>2. \A row \in 1..Rows : live[row] = Blank
        BY <1>1, <2>1, <3>1, ScreenAssumption DEF IsScreen, Line
      <3>3. live = [row \in 1..Rows |-> Blank]
        BY <1>1, <2>1, <3>2 DEF IsScreen
      <3> QED
        BY <1>3, <3>3 DEF Cleared
    <2>3. CASE alternate
      <3>1. window = Trimmed(live) /\ seen = <<>>
        BY <1>1, <2>3 DEF Window, IsScreen
      <3>2. From(seen, Len(seen) - 0 + 1) = <<>>
        BY <3>1 DEF From
      <3>3. <<>> \o Trimmed(live) = Trimmed(live)
        BY <1>1, TrimmedIsText, ConcatEmptySeq DEF IsScreen
      <3> QED
        BY <1>3, <2>3, <3>1, <3>2, <3>3
    <2>4. CASE ~ alternate
      <3>1. window = From(seen, Len(seen) - Reach(seen, live, cursor, Rows) + 1)
                        \o Trimmed(live)
        BY <1>1, <2>1, <2>2, <2>4, WindowOfText DEF IsScreen
      <3> QED
        BY <1>3, <2>4, <3>1
    <2> QED
      BY <2>3, <2>4
  <1> QED
    BY <1>2, <1>3

\* Whatever the child writes, the text that the rules read is cut without loss
\* and without overlap by the regions around a prompt box (region_text()).
THEOREM EveryTextIsTiled == Spec => []RegionsTile
  <1>1. ScreenInv => RegionsTile
    <2>1. ScreenInv => window \in Seq(Line)
      BY WindowIsText DEF ScreenInv
    <2> QED
      BY <2>1, BoxTiles DEF RegionsTile, View
  <1> QED
    BY <1>1, ScreenAlways, PTL

\* After every chunk the window has all the text of the viewport as it is and,
\* for every row that is not used, one of the last lines of the scrollback as it
\* was when the window was last made (process(), refresh_window()).
THEOREM WindowShowsTheTail == Spec => []WindowIsTail
  BY WindowInv, ScreenAlways, PTL

-----------------------------------------------------------------------------
(* The first best of those that match *)

LEMMA SomeIsLeast ==
    ASSUME NEW S, S \subseteq Nat, S # {}
    PROVE  \E x \in S : \A y \in S : x <= y
  <1> DEFINE R == {pair \in Nat \X Nat : pair[1] < pair[2]}
  <1>1. IsWellFoundedOn(R, Nat)
    BY NatLessThanWellFounded, Zenon DEF OpToRel
  <1>2. PICK x \in S : \A y \in S : ~ (<<y, x>> \in R)
    <2> HIDE DEF R
    <2> QED
      BY <1>1, WFMin, Zenon
  <1>3. ASSUME NEW y \in S
        PROVE  x <= y
    <2>1. ~ (y < x) /\ x \in Nat /\ y \in Nat
      BY <1>2
    <2> QED
      BY <2>1
  <1> QED
    BY <1>3

\* The value after n steps, each of which makes it of the one before.
Steps(f, N, v, step) == f[0] = v /\ \A n \in 1..N : f[n] = step[<<n, f[n - 1]>>]

LEMMA StepsMakeFunction ==
    ASSUME NEW N \in Nat, NEW V, NEW v \in V, NEW step \in [(1..N) \X V -> V]
    PROVE  \E f \in [0..N -> V] : Steps(f, N, v, step)
  <1> DEFINE Made(f, m) == f[0] = v /\ \A n \in 1..m : f[n] = step[<<n, f[n - 1]>>]
             Unmade == {m \in 0..N : ~ \E f \in [0..m -> V] : Made(f, m)}
  <1>1. SUFFICES ASSUME Unmade # {} PROVE FALSE
    <2>1. N \in 0..N
      OBVIOUS
    <2> QED
      BY <2>1 DEF Steps
  <1>2. PICK m \in Unmade : \A k \in Unmade : m <= k
    <2>1. Unmade \subseteq Nat
      OBVIOUS
    <2> HIDE DEF Unmade
    <2> QED
      BY <1>1, <2>1, SomeIsLeast
  <1>3. m # 0
    <2>1. SUFFICES ASSUME m = 0 PROVE FALSE
      OBVIOUS
    <2>2. [i \in 0..0 |-> v] \in [0..0 -> V] /\ Made([i \in 0..0 |-> v], 0)
      OBVIOUS
    <2> QED
      BY <2>1, <2>2
  <1>4. m - 1 \in 0..N /\ m \in 1..N /\ m - 1 \notin Unmade
    BY <1>2, <1>3
  <1>5. PICK f \in [0..(m - 1) -> V] : Made(f, m - 1)
    BY <1>4
  <1> DEFINE g == [i \in 0..m |-> IF i = m THEN step[<<m, f[m - 1]>>] ELSE f[i]]
  <1>6. step[<<m, f[m - 1]>>] \in V
    BY <1>4, <1>5
  <1>7. g \in [0..m -> V]
    BY <1>4, <1>5, <1>6
  <1>8. Made(g, m)
    <2>1. g[0] = v
      BY <1>4, <1>5
    <2>2. ASSUME NEW n \in 1..m
          PROVE  g[n] = step[<<n, g[n - 1]>>]
      <3>1. g[n - 1] = f[n - 1] /\ n - 1 \in 0..(m - 1)
        BY <1>4
      <3>2. CASE n = m
        <4>1. g[m] = step[<<m, f[m - 1]>>]
          BY <1>4
        <4> QED
          BY <3>1, <3>2, <4>1
      <3>3. CASE n # m
        <4>1. n \in 1..(m - 1) /\ g[n] = f[n]
          BY <3>3, <1>4
        <4> QED
          BY <3>1, <4>1, <1>5
      <3> QED
        BY <3>2, <3>3
    <2> QED
      BY <2>1, <2>2
  <1> QED
    BY <1>2, <1>7, <1>8

\* Going through 1..N, the champion is replaced by a candidate that is better.
Replaces(f, n, candidates, better) ==
    n \in candidates /\ (f[n - 1] = 0 \/ <<n, f[n - 1]>> \in better)

IsChampion(f, N, candidates, better) ==
    /\ f[0] = 0
    /\ \A n \in 1..N :
          /\ Replaces(f, n, candidates, better) => f[n] = n
          /\ ~ Replaces(f, n, candidates, better) => f[n] = f[n - 1]

LEMMA ChampionIsPlace ==
    ASSUME NEW N \in Nat, NEW f, f[0] = 0, \A n \in 1..N : f[n] = n \/ f[n] = f[n - 1]
    PROVE  \A n \in 0..N : f[n] \in 0..N
  <1> DEFINE Wrong == {n \in 0..N : f[n] \notin 0..N}
  <1>1. ASSUME Wrong # {} PROVE FALSE
    <2>1. PICK n \in Wrong : \A k \in Wrong : n <= k
      <3>1. Wrong \subseteq Nat
        OBVIOUS
      <3> HIDE DEF Wrong
      <3> QED
        BY <1>1, <3>1, SomeIsLeast
    <2>2. n \in 1..N /\ n - 1 \in 0..N
      BY <2>1
    <2>3. n - 1 \notin Wrong
      BY <2>1, <2>2
    <2> QED
      BY <2>1, <2>2, <2>3
  <1> QED
    BY <1>1

LEMMA ChampionExists ==
    ASSUME NEW N \in Nat, NEW candidates, NEW better
    PROVE  \E f \in [0..N -> 0..N] : IsChampion(f, N, candidates, better)
  <1> DEFINE step == [p \in (1..N) \X (0..N) |->
                IF p[1] \in candidates /\ (p[2] = 0 \/ p \in better) THEN p[1] ELSE p[2]]
  <1>1. step \in [(1..N) \X (0..N) -> 0..N]
    OBVIOUS
  <1>2. 0 \in 0..N
    OBVIOUS
  <1>3. \A n \in 1..N : \A c \in 0..N :
           /\ n \in candidates /\ (c = 0 \/ <<n, c>> \in better) => step[<<n, c>>] = n
           /\ ~ (n \in candidates /\ (c = 0 \/ <<n, c>> \in better)) => step[<<n, c>>] = c
    OBVIOUS
  <1> HIDE DEF step
  <1>4. PICK f \in [0..N -> 0..N] : Steps(f, N, 0, step)
    BY <1>1, <1>2, StepsMakeFunction
  <1>5. \A n \in 1..N : f[n - 1] \in 0..N
    OBVIOUS
  <1>6. IsChampion(f, N, candidates, better)
    BY <1>3, <1>4, <1>5 DEF Steps, IsChampion, Replaces
  <1> QED
    BY <1>6

\* If being better is a weak order, the last champion is better than all
\* candidates before it and no worse than those after it.
LEMMA ChampionIsBest ==
    ASSUME NEW N \in Nat, NEW candidates \in SUBSET (1..N), NEW better, NEW f,
           IsChampion(f, N, candidates, better),
           \A a, b, c \in 1..N : <<a, b>> \in better /\ <<b, c>> \in better => <<a, c>> \in better,
           \A a, b, c \in 1..N : <<a, b>> \in better /\ <<c, b>> \notin better => <<a, c>> \in better
    PROVE  /\ f[N] = 0 => candidates = {}
           /\ f[N] # 0 =>
                 /\ f[N] \in candidates
                 /\ \A j \in candidates : j < f[N] => <<f[N], j>> \in better
                 /\ \A j \in candidates : j > f[N] => <<j, f[N]>> \notin better
  <1> DEFINE Best(n) ==
               /\ f[n] \in 0..n
               /\ f[n] = 0 => \A j \in candidates : j > n
               /\ f[n] # 0 =>
                     /\ f[n] \in candidates
                     /\ \A j \in candidates : j < f[n] => <<f[n], j>> \in better
                     /\ \A j \in candidates : j > f[n] /\ j <= n => <<j, f[n]>> \notin better
             Wrong == {n \in 0..N : ~ Best(n)}
  <1>1. ASSUME Wrong # {} PROVE FALSE
    <2>1. PICK n \in Wrong : \A k \in Wrong : n <= k
      <3>1. Wrong \subseteq Nat
        OBVIOUS
      <3> HIDE DEF Wrong
      <3> QED
        BY <1>1, <3>1, SomeIsLeast
    <2>2. Best(0)
      BY DEF IsChampion
    <2>3. n \in 1..N /\ n - 1 \in 0..N
      BY <2>1, <2>2
    <2>4. n - 1 \notin Wrong
      BY <2>1, <2>3
    <2>5. Best(n - 1)
      BY <2>3, <2>4
    <2> DEFINE c == f[n - 1]
    <2>6. /\ c \in 0..(n - 1)
          /\ c = 0 => \A j \in candidates : j >= n
          /\ c # 0 =>
                /\ c \in candidates /\ c \in 1..N
                /\ \A j \in candidates : j < c => <<c, j>> \in better
                /\ \A j \in candidates : j > c /\ j < n => <<j, c>> \notin better
      BY <2>3, <2>5
    <2>7. /\ n \in candidates /\ (c = 0 \/ <<n, c>> \in better) => f[n] = n
          /\ ~ (n \in candidates /\ (c = 0 \/ <<n, c>> \in better)) => f[n] = c
      BY <2>3 DEF IsChampion, Replaces
    <2> HIDE DEF c
    <2>8. CASE n \in candidates /\ (c = 0 \/ <<n, c>> \in better)
      <3>1. f[n] = n
        BY <2>7, <2>8
      <3>2. ASSUME NEW j \in candidates, j < n
            PROVE  <<n, j>> \in better
        <4>1. c # 0 /\ <<n, c>> \in better /\ j \in 1..N
          BY <2>3, <2>6, <2>8, <3>2
        <4>2. CASE j = c
          BY <4>1, <4>2
        <4>3. CASE j < c
          <5>1. <<c, j>> \in better
            BY <2>6, <4>1, <4>3
          <5> QED
            BY <2>3, <2>6, <4>1, <5>1
        <4>4. CASE j > c
          <5>1. <<j, c>> \notin better
            BY <2>6, <3>2, <4>1, <4>4
          <5> QED
            BY <2>3, <2>6, <4>1, <5>1
        <4> QED
          BY <2>6, <4>1, <4>2, <4>3, <4>4
      <3>3. Best(n)
        BY <2>3, <2>8, <3>1, <3>2
      <3> QED
        BY <2>1, <3>3
    <2>9. CASE ~ (n \in candidates /\ (c = 0 \/ <<n, c>> \in better))
      <3>1. f[n] = c
        BY <2>7, <2>9
      <3>2. c \in 0..n
        BY <2>3, <2>6
      <3>3. c = 0 => \A j \in candidates : j > n
        BY <2>3, <2>6, <2>9
      <3>4. c # 0 => \A j \in candidates : j > c /\ j <= n => <<j, c>> \notin better
        BY <2>3, <2>6, <2>9
      <3>5. Best(n)
        BY <2>6, <3>1, <3>2, <3>3, <3>4
      <3> QED
        BY <2>1, <3>5
    <2> QED
      BY <2>8, <2>9
  <1>2. Best(N)
    <2>1. N \in 0..N
      OBVIOUS
    <2> QED
      BY <1>1, <2>1
  <1> QED
    BY <1>2

-----------------------------------------------------------------------------
(* The rule sets that are loaded *)

LEMMA FilesOneAfterAnother ==
    ASSUME NEW S, NEW seqs \in Seq(Seq(S))
    PROVE  FlattenSeq(seqs) \in Seq(S)
  <1> DEFINE N == Len(seqs)
             step == [p \in (1..N) \X Seq(S) |-> p[2] \o seqs[p[1]]]
             Flattens(h) == h = [i \in 1..N |-> IF i = 1 THEN seqs[i] ELSE h[i - 1] \o seqs[i]]
             flatten == CHOOSE h : Flattens(h)
  <1>1. N \in Nat /\ \A i \in 1..N : seqs[i] \in Seq(S)
    OBVIOUS
  <1>2. CASE N = 0
    <2>1. seqs = <<>>
      BY <1>2
    <2> QED
      BY <1>2, <2>1 DEF FlattenSeq
  <1>3. CASE N # 0
    <2>1. step \in [(1..N) \X Seq(S) -> Seq(S)] /\ <<>> \in Seq(S)
      BY <1>1
    <2>2. PICK f \in [0..N -> Seq(S)] : Steps(f, N, <<>>, step)
      <3> HIDE DEF step, N
      <3> QED
        BY <1>1, <2>1, StepsMakeFunction
    <2>3. Flattens([i \in 1..N |-> f[i]])
      <3> DEFINE h == [i \in 1..N |-> f[i]]
      <3>1. ASSUME NEW i \in 1..N
            PROVE  h[i] = IF i = 1 THEN seqs[i] ELSE h[i - 1] \o seqs[i]
        <4>1. f[i - 1] \in Seq(S) /\ i - 1 \in 0..N /\ seqs[i] \in Seq(S)
          <5>1. i - 1 \in 0..N /\ seqs[i] \in Seq(S)
            BY <1>1
          <5> HIDE DEF N, step
          <5> QED
            BY <5>1
        <4>2. f[i] = f[i - 1] \o seqs[i]
          BY <1>1, <2>2, <4>1 DEF Steps
        <4>3. CASE i = 1
          <5>1. f[i - 1] = <<>>
            BY <2>2, <4>3 DEF Steps
          <5> QED
            BY <4>1, <4>2, <4>3, <5>1
        <4>4. CASE i # 1
          <5>1. h[i - 1] = f[i - 1] /\ h[i] = f[i]
            BY <1>1, <4>4
          <5> QED
            BY <4>2, <4>4, <5>1
        <4> QED
          BY <4>3, <4>4
      <3> QED
        BY <3>1
    <2>4. Flattens(flatten)
      <3> HIDE DEF Flattens
      <3> QED
        BY <2>3
    <2>5. FlattenSeq(seqs) = flatten[N]
      BY <1>3 DEF FlattenSeq
    <2> HIDE DEF flatten, step
    <2>6. /\ flatten[1] = seqs[1]
          /\ \A i \in 2..N : flatten[i] = flatten[i - 1] \o seqs[i]
      <3>1. \A i \in 1..N :
               flatten[i] = IF i = 1 THEN seqs[i] ELSE flatten[i - 1] \o seqs[i]
        <4> HIDE DEF N
        <4> QED
          BY <2>4, Zenon
      <3>2. 1 \in 1..N /\ \A i \in 2..N : i \in 1..N /\ i # 1
        BY <1>1, <1>3
      <3> QED
        BY <3>1, <3>2
    <2> HIDE DEF N, Flattens
    <2> DEFINE Wrong == {i \in 1..N : flatten[i] \notin Seq(S)}
    <2>7. ASSUME Wrong # {} PROVE FALSE
      <3>1. PICK i \in Wrong : \A k \in Wrong : i <= k
        <4>1. Wrong \subseteq Nat
          OBVIOUS
        <4> HIDE DEF Wrong
        <4> QED
          BY <2>7, <4>1, SomeIsLeast
      <3>2. i # 1 /\ i \in 2..N
        BY <1>1, <2>6, <3>1
      <3>3. i - 1 \in 1..N /\ i - 1 \notin Wrong
        BY <1>1, <3>1, <3>2
      <3>4. flatten[i - 1] \in Seq(S) /\ seqs[i] \in Seq(S)
        BY <1>1, <3>2, <3>3
      <3>5. flatten[i - 1] \o seqs[i] \in Seq(S)
        BY <3>4
      <3> QED
        BY <2>6, <3>1, <3>2, <3>5
    <2>8. N \in 1..N
      BY <1>1, <1>3
    <2> QED
      BY <2>5, <2>7, <2>8
  <1> QED
    BY <1>2, <1>3

\* What evaluate() needs of a rule set.
IsLoaded(set) ==
    /\ Len(set.rules) \in Nat /\ DOMAIN set.rules = 1..Len(set.rules)
    /\ \A i \in DOMAIN set.rules : set.rules[i].priority \in Int
    /\ UniqueIds(set.rules)

RulesLoaded == DOMAIN sets \subseteq Nat /\ \A s \in DOMAIN sets : IsLoaded(sets[s])

LEMMA LoadingKeepsRules ==
    ASSUME NEW file, IsFile(file), UniqueIds(file.rules)
    PROVE  IsLoaded(Loaded(file))
  <1> DEFINE old == file.rules
             new == [i \in DOMAIN old |-> [old[i] EXCEPT !.gate = Lowered(@)]]
             names == IF file.process_names = {} THEN {file.id} \cup file.aliases
                      ELSE file.process_names
  <1>1. Loaded(file).rules = new
    <2>1. Loaded(file) = [file EXCEPT !.rules = new, !.process_names = names]
      BY DEF Loaded
    <2> HIDE DEF new, names
    <2> QED
      BY <2>1 DEF IsFile
  <1>2. Len(old) \in Nat /\ DOMAIN old = 1..Len(old)
    BY LenProperties DEF IsFile
  <1>3. ASSUME NEW i \in DOMAIN old
        PROVE  new[i].priority = old[i].priority /\ new[i].id = old[i].id
                /\ old[i].priority \in Int
    <2>1. old[i] \in Range(old)
      BY DEF Range
    <2>2. "priority" \in DOMAIN old[i] /\ "id" \in DOMAIN old[i] /\ old[i].priority \in Int
      BY <2>1 DEF IsFile
    <2> QED
      BY <2>2
  <1>4. Len(new) = Len(old) /\ DOMAIN new = 1..Len(old)
    <2>1. new \in Seq({new[i] : i \in 1..Len(old)})
      <3>1. new \in [1..Len(old) -> {new[i] : i \in 1..Len(old)}]
        BY <1>2
      <3> HIDE DEF new
      <3> QED
        BY <1>2, <3>1, SeqDef
    <2>2. DOMAIN new = 1..Len(old)
      BY <1>2
    <2> HIDE DEF new
    <2> QED
      BY <1>2, <2>1, <2>2, LenProperties
  <1> HIDE DEF new, old
  <1>5. UniqueIds(new)
    BY <1>2, <1>3, <1>4 DEF UniqueIds, old
  <1> QED
    BY <1>1, <1>2, <1>3, <1>4, <1>5 DEF IsLoaded

LEMMA LoadedRules == Init => RulesLoaded
  <1> SUFFICES ASSUME NEW directories \in Bundles, sets = LoadAll(directories), sets # NoSets
               PROVE  RulesLoaded
    BY DEF Init
  <1> DEFINE files == FlattenSeq(directories)
             of(id) == Where(files, LAMBDA set : set.id = id)
             places == {p \in DOMAIN IdOrder : of(IdOrder[p]) # {}}
             last(place) == files[Greatest(of(IdOrder[place]))]
  <1>1. files \in Seq(Files)
    BY FilesOneAfterAnother, RecognitionAssumption
  <1>2. /\ \A i \in DOMAIN files : Loads(files[i])
        /\ sets = [place \in places |-> Loaded(last(place))]
    BY DEF LoadAll
  <1>3. Len(files) \in Nat /\ DOMAIN files = 1..Len(files)
    BY <1>1, LenProperties
  <1>4. places \subseteq Nat
    BY RecognitionAssumption
  <1>5. ASSUME NEW place \in places
        PROVE  IsLoaded(Loaded(last(place)))
    <2> DEFINE T == of(IdOrder[place])
    <2>1. T \in SUBSET (1..Len(files)) /\ T # {}
      BY <1>3, <1>5 DEF Where
    <2> HIDE DEF T, files
    <2>2. Greatest(T) \in DOMAIN files
      BY <1>3, <2>1, GreatestIsLast
    <2>3. last(place) = files[Greatest(T)]
      BY DEF T
    <2>4. last(place) \in Files /\ Loads(last(place))
      BY <1>1, <1>2, <2>2, <2>3
    <2>5. IsFile(last(place)) /\ UniqueIds(last(place).rules)
      BY <2>4, RecognitionAssumption DEF Loads
    <2> HIDE DEF last
    <2> QED
      BY <2>5, LoadingKeepsRules
  <1> HIDE DEF places, last
  <1> QED
    BY <1>2, <1>4, <1>5 DEF RulesLoaded

-----------------------------------------------------------------------------
(* The winner of evaluate() *)

Hits(set, view) == {i \in DOMAIN set.rules : Matches(set.rules[i], set, view)}

Higher(rules) ==
    {p \in (1..Len(rules)) \X (1..Len(rules)) : rules[p[1]].priority > rules[p[2]].priority}

\* The recursion of Winner().
Elects(f, set, view) ==
    f = [n \in 0..Len(set.rules) |->
            IF n = 0 THEN 0
            ELSE IF /\ Matches(set.rules[n], set, view)
                    /\ f[n - 1] = 0
                       \/ set.rules[n].priority > set.rules[f[n - 1]].priority
            THEN n ELSE f[n - 1]]

LEMMA WinnerIsElected ==
    ASSUME NEW set, NEW view, \E f : Elects(f, set, view)
    PROVE  \E f : Elects(f, set, view) /\ Winner(set, view) = f[Len(set.rules)]
  <1> DEFINE w == CHOOSE f : Elects(f, set, view)
  <1>1. Elects(w, set, view)
    OBVIOUS
  <1>2. Winner(set, view) = w[Len(set.rules)]
    BY DEF Winner, Elects
  <1> HIDE DEF w
  <1> QED
    BY <1>1, <1>2

LEMMA ElectedIsChampion ==
    ASSUME NEW set, NEW view, IsLoaded(set), NEW f,
           \A n \in 0..Len(set.rules) : f[n] \in 0..Len(set.rules)
    PROVE  Elects(f, set, view) <=>
              /\ f = [n \in 0..Len(set.rules) |-> f[n]]
              /\ IsChampion(f, Len(set.rules), Hits(set, view), Higher(set.rules))
  <1> DEFINE N == Len(set.rules)
             wins(n) == /\ Matches(set.rules[n], set, view)
                        /\ f[n - 1] = 0
                           \/ set.rules[n].priority > set.rules[f[n - 1]].priority
  <1>1. N \in Nat /\ DOMAIN set.rules = 1..N
    BY DEF IsLoaded
  <1>2. \A n \in 1..N : wins(n) <=> Replaces(f, n, Hits(set, view), Higher(set.rules))
    <2> SUFFICES ASSUME NEW n \in 1..N
                 PROVE  wins(n) <=> Replaces(f, n, Hits(set, view), Higher(set.rules))
      OBVIOUS
    <2>1. n \in Hits(set, view) <=> Matches(set.rules[n], set, view)
      BY <1>1 DEF Hits
    <2>2. f[n - 1] \in 0..N
      <3>1. n - 1 \in 0..N
        BY <1>1
      <3> QED
        BY <3>1
    <2>3. f[n - 1] # 0 =>
             (<<n, f[n - 1]>> \in Higher(set.rules)
              <=> set.rules[n].priority > set.rules[f[n - 1]].priority)
      BY <1>1, <2>2 DEF Higher
    <2> QED
      BY <2>1, <2>3 DEF Replaces
  <1> DEFINE value(n) == IF n = 0 THEN 0 ELSE IF wins(n) THEN n ELSE f[n - 1]
  <1>3. Elects(f, set, view) <=> f = [n \in 0..N |-> value(n)]
    BY DEF Elects
  <1>4. IsChampion(f, N, Hits(set, view), Higher(set.rules))
        <=> \A n \in 0..N : f[n] = value(n)
    <2>1. 0 \in 0..N /\ \A n \in 0..N : n = 0 \/ n \in 1..N
      BY <1>1
    <2>2. \A n \in 1..N : n \in 0..N /\ n # 0
      BY <1>1
    <2> HIDE DEF wins
    <2> QED
      BY <1>2, <2>1, <2>2 DEF IsChampion
  <1> HIDE DEF value
  <1> QED
    BY <1>3, <1>4

LEMMA ElectedIsRule ==
    ASSUME NEW set, NEW view, IsLoaded(set), NEW f, Elects(f, set, view)
    PROVE  \A n \in 0..Len(set.rules) : f[n] \in 0..Len(set.rules)
  <1> DEFINE N == Len(set.rules)
  <1>1. N \in Nat
    BY DEF IsLoaded
  <1>2. f[0] = 0 /\ \A n \in 1..N : f[n] = n \/ f[n] = f[n - 1]
    <2>1. \A n \in 0..N : f[n] = IF n = 0 THEN 0
              ELSE IF /\ Matches(set.rules[n], set, view)
                      /\ f[n - 1] = 0
                         \/ set.rules[n].priority > set.rules[f[n - 1]].priority
              THEN n ELSE f[n - 1]
      BY Zenon DEF Elects
    <2>2. 0 \in 0..N /\ \A n \in 1..N : n \in 0..N /\ n # 0
      BY <1>1
    <2> QED
      BY <2>1, <2>2
  <1> QED
    BY <1>1, <1>2, ChampionIsPlace

\* A rule that matches, of the highest priority, and of those the first.
IsFirstBest(i, set, view) ==
    /\ i \in Hits(set, view)
    /\ \A j \in Hits(set, view) :
          \/ set.rules[i].priority > set.rules[j].priority
          \/ set.rules[i].priority = set.rules[j].priority /\ i <= j

LEMMA WinnerIsFirstBest ==
    ASSUME NEW set, NEW view, IsLoaded(set)
    PROVE  /\ Winner(set, view) = 0 => Hits(set, view) = {}
           /\ Winner(set, view) # 0 => IsFirstBest(Winner(set, view), set, view)
  <1> DEFINE N == Len(set.rules)
             H == Hits(set, view)
             B == Higher(set.rules)
             priority(i) == set.rules[i].priority
  <1>1. N \in Nat /\ DOMAIN set.rules = 1..N /\ \A i \in 1..N : priority(i) \in Int
    BY DEF IsLoaded
  <1>2. H \in SUBSET (1..N)
    BY <1>1 DEF Hits
  <1>3. \A a, b \in 1..N : <<a, b>> \in B <=> priority(a) > priority(b)
    BY DEF Higher
  <1>4. \E f : Elects(f, set, view)
    <2>1. PICK f \in [0..N -> 0..N] : IsChampion(f, N, H, B)
      BY <1>1, ChampionExists
    <2>2. f = [n \in 0..N |-> f[n]] /\ \A n \in 0..N : f[n] \in 0..N
      OBVIOUS
    <2> QED
      BY <2>1, <2>2, ElectedIsChampion
  <1>5. PICK f : Elects(f, set, view) /\ Winner(set, view) = f[N]
    BY <1>4, WinnerIsElected
  <1>6. \A n \in 0..N : f[n] \in 0..N
    BY <1>5, ElectedIsRule
  <1>7. IsChampion(f, N, H, B)
    BY <1>5, <1>6, ElectedIsChampion
  <1> HIDE DEF N, H, B, priority
  <1>8. /\ \A a, b, c \in 1..N : <<a, b>> \in B /\ <<b, c>> \in B => <<a, c>> \in B
        /\ \A a, b, c \in 1..N : <<a, b>> \in B /\ <<c, b>> \notin B => <<a, c>> \in B
    BY <1>1, <1>3
  <1>9. /\ f[N] = 0 => H = {}
        /\ f[N] # 0 =>
              /\ f[N] \in H
              /\ \A j \in H : j < f[N] => <<f[N], j>> \in B
              /\ \A j \in H : j > f[N] => <<j, f[N]>> \notin B
    BY <1>1, <1>2, <1>7, <1>8, ChampionIsBest
  <1>10. ASSUME f[N] # 0, NEW j \in H
         PROVE  \/ priority(f[N]) > priority(j)
                \/ priority(f[N]) = priority(j) /\ f[N] <= j
    <2>1. f[N] \in 1..N /\ j \in 1..N /\ priority(f[N]) \in Int /\ priority(j) \in Int
      BY <1>1, <1>2, <1>9, <1>10
    <2>2. j < f[N] => priority(f[N]) > priority(j)
      BY <1>3, <1>9, <1>10, <2>1
    <2>3. j > f[N] => ~ (priority(j) > priority(f[N]))
      BY <1>3, <1>9, <1>10, <2>1
    <2> QED
      BY <2>1, <2>2, <2>3
  <1> QED
    BY <1>5, <1>9, <1>10 DEF H, priority, IsFirstBest

LEMMA VerdictIsFirstBest ==
    ASSUME NEW set, NEW view, IsLoaded(set)
    PROVE  LET rules == set.rules
               hits == {i \in DOMAIN rules : Matches(rules[i], set, view)}
               best == {i \in hits : \A j \in hits :
                           \/ rules[i].priority > rules[j].priority
                           \/ rules[i].priority = rules[j].priority /\ i <= j}
               verdict == Evaluate(set, view)
           IN  IF hits = {} THEN verdict = Default
               ELSE \E i \in best : verdict = [state |-> rules[i].state,
                                               visible |-> rules[i].visible,
                                               rule |-> rules[i].id]
  <1> DEFINE H == Hits(set, view)
             w == Winner(set, view)
             rules == set.rules
             said(i) == [state |-> rules[i].state, visible |-> rules[i].visible,
                         rule |-> rules[i].id]
             best == {i \in H : IsFirstBest(i, set, view)}
  <1>1. /\ w = 0 => H = {}
        /\ w # 0 => IsFirstBest(w, set, view)
    BY WinnerIsFirstBest
  <1>2. H \subseteq DOMAIN rules /\ 0 \notin DOMAIN rules
    BY DEF Hits, IsLoaded
  <1>3. CASE w = 0
    <2>1. Evaluate(set, view) = Default
      BY <1>3 DEF Evaluate
    <2> QED
      BY <1>1, <1>3, <2>1 DEF Hits
  <1>4. CASE w # 0
    <2> DEFINE named == Where(rules, LAMBDA rule : rule.id = rules[w].id)
    <2>1. w \in H /\ w \in DOMAIN rules /\ w \in Nat /\ w \in best
      BY <1>1, <1>2, <1>4 DEF IsLoaded, IsFirstBest
    <2>2. named = {w}
      BY <2>1 DEF Where, IsLoaded, UniqueIds
    <2>3. (CHOOSE i \in named : \A j \in named : i <= j) = w
      <3> HIDE DEF named
      <3>1. w \in named /\ \A j \in named : w <= j
        BY <2>1, <2>2
      <3> QED
        BY <2>2, <3>1
    <2>4. Evaluate(set, view) = said(w)
      <3>1. Evaluate(set, view) = said(CHOOSE i \in named : \A j \in named : i <= j)
        BY <1>4 DEF Evaluate
      <3> HIDE DEF named
      <3> QED
        BY <2>3, <3>1
    <2> QED
      BY <2>1, <2>4 DEF Hits, IsFirstBest
  <1> QED
    BY <1>3, <1>4

LEMMA RulesStayLoaded == RulesLoaded /\ [Next]_vars => RulesLoaded'
  BY DEF Next, ChildWrites, JobChanges, vars, RulesLoaded

\* Whatever the screen shows and however rules are nested and ordered, the first
\* of the matching rules of the highest priority decides (evaluate()).
THEOREM BestRuleDecides == Spec => []FirstBestRuleWins
  <1>1. RulesLoaded => FirstBestRuleWins
    BY VerdictIsFirstBest DEF RulesLoaded, FirstBestRuleWins
  <1> QED
    BY <1>1, LoadedRules, RulesStayLoaded, PTL DEF Spec

-----------------------------------------------------------------------------
(* The script of a runtime *)

Arguments == Seq(Options \cup DOMAIN Basename)

LEMMA OptionKinds ==
    ASSUME NEW runtime
    PROVE  /\ EvalOptions(runtime) \subseteq Options
           /\ ValueOptions \subseteq Options /\ "--" \in Options
           /\ "--" \notin ValueOptions \cup EvalOptions(runtime)
           /\ EvalOptions(runtime) \cap ValueOptions = {}
  <1>1. EvalOptions(runtime) \in {{"-c"}, {"-c", "-m"}, {"-e", "--eval", "-p", "--print"}}
    BY DEF EvalOptions
  <1>2. /\ {"-c", "-m", "-e", "--eval", "-p", "--print", "--"} \subseteq Options
        /\ ValueOptions \subseteq Options
    BY DEF Options, EvalOptions, ValueOptions, Shells, Pythons
  <1> QED
    BY <1>1, <1>2 DEF ValueOptions

\* The recursion of Script().
Scans(f, runtime, argv) ==
    f = [i \in 1..Len(argv) + 2 |->
            IF i > Len(argv) THEN Nothing
            ELSE IF argv[i] = "--" THEN f[i + 1]
            ELSE IF argv[i] \in EvalOptions(runtime) THEN Nothing
            ELSE IF argv[i] \in ValueOptions THEN f[i + 2]
            ELSE IF argv[i] \in Options THEN f[i + 1]
            ELSE Basename[argv[i]]]

LEMMA ScriptScans ==
    ASSUME NEW runtime, NEW argv, \E f : Scans(f, runtime, argv)
    PROVE  \E f : Scans(f, runtime, argv) /\ Script(runtime, argv) = f[1]
  <1> DEFINE scan == CHOOSE f : Scans(f, runtime, argv)
  <1>1. Scans(scan, runtime, argv)
    OBVIOUS
  <1>2. Script(runtime, argv) = scan[1]
    BY DEF Script, Scans
  <1> HIDE DEF scan
  <1> QED
    BY <1>1, <1>2

\* What one argument contributes, if the scan gives `one` and `two` from the
\* next argument and from the one after it.
Scanned(x, runtime, one, two) ==
    IF x = "--" THEN one
    ELSE IF x \in EvalOptions(runtime) THEN Nothing
    ELSE IF x \in ValueOptions THEN two
    ELSE IF x \in Options THEN one
    ELSE Basename[x]

LEMMA ScanExists ==
    ASSUME NEW runtime, NEW argv \in Arguments
    PROVE  \E f : Scans(f, runtime, argv)
  <1> DEFINE L == Len(argv)
             W == {Nothing} \cup {Basename[argv[i]] : i \in 1..L}
             step == [p \in (1..L) \X (W \X W) |->
                         <<Scanned(argv[L + 1 - p[1]], runtime, p[2][1], p[2][2]), p[2][1]>>]
             none == <<Nothing, Nothing>>
  <1>1. L \in Nat
    BY DEF Arguments
  <1>2. step \in [(1..L) \X (W \X W) -> W \X W]
    <2>1. ASSUME NEW n \in 1..L, NEW one \in W, NEW two \in W
          PROVE  Scanned(argv[L + 1 - n], runtime, one, two) \in W
      <3>1. L + 1 - n \in 1..L
        BY <1>1
      <3>2. Basename[argv[L + 1 - n]] \in W /\ Nothing \in W
        BY <3>1
      <3> HIDE DEF W
      <3> QED
        BY <3>2 DEF Scanned
    <2> HIDE DEF W, L
    <2> QED
      BY <2>1
  <1>3. none \in W \X W
    OBVIOUS
  <1>4. PICK g \in [0..L -> W \X W] : Steps(g, L, none, step)
    <2> HIDE DEF W, L, step, none
    <2> QED
      BY <1>1, <1>2, <1>3, StepsMakeFunction
  <1>5. g[0] = none /\ \A n \in 1..L : g[n] = step[<<n, g[n - 1]>>]
    BY <1>4 DEF Steps
  <1>6. \A n \in 1..L : /\ g[n][1] = Scanned(argv[L + 1 - n], runtime, g[n - 1][1], g[n - 1][2])
                        /\ g[n][2] = g[n - 1][1]
    <2> SUFFICES ASSUME NEW n \in 1..L
                 PROVE  /\ g[n][1] = Scanned(argv[L + 1 - n], runtime, g[n - 1][1], g[n - 1][2])
                        /\ g[n][2] = g[n - 1][1]
      OBVIOUS
    <2>1. n - 1 \in 0..L
      BY <1>1
    <2> HIDE DEF W, L
    <2>2. g[n - 1] \in W \X W
      BY <2>1
    <2>3. <<n, g[n - 1]>> \in (1..L) \X (W \X W)
      BY <2>2
    <2>4. step[<<n, g[n - 1]>>] =
             <<Scanned(argv[L + 1 - n], runtime, g[n - 1][1], g[n - 1][2]), g[n - 1][1]>>
      BY <2>3
    <2> HIDE DEF step
    <2> QED
      BY <1>5, <2>4
  <1> HIDE DEF step, W
  <1> DEFINE f == [i \in 1..L + 2 |-> IF i > L THEN Nothing ELSE g[L + 1 - i][1]]
  <1>7. ASSUME NEW i \in 1..L
        PROVE  f[i] = Scanned(argv[i], runtime, f[i + 1], f[i + 2])
    <2> DEFINE n == L + 1 - i
    <2>1. n \in 1..L /\ L + 1 - n = i /\ i \in 1..L + 2 /\ ~ (i > L)
      BY <1>1
    <2>2. f[i] = g[n][1]
      BY <2>1
    <2>3. f[i + 1] = g[n - 1][1]
      <3>1. CASE i = L
        <4>1. f[i + 1] = Nothing /\ n - 1 = 0
          BY <1>1, <3>1
        <4> QED
          BY <1>5, <4>1
      <3>2. CASE i # L
        <4>1. i + 1 \in 1..L + 2 /\ ~ (i + 1 > L) /\ L + 1 - (i + 1) = n - 1
          BY <1>1, <3>2
        <4> QED
          BY <4>1
      <3> QED
        BY <3>1, <3>2
    <2>4. f[i + 2] = g[n - 1][2]
      <3>1. CASE i = L
        <4>1. f[i + 2] = Nothing /\ n - 1 = 0
          BY <1>1, <3>1
        <4> QED
          BY <1>5, <4>1
      <3>2. CASE i = L - 1
        <4>1. f[i + 2] = Nothing /\ n - 1 = 1 /\ 1 \in 1..L
          BY <1>1, <3>2
        <4>2. g[n - 1][2] = g[0][1]
          BY <1>6, <4>1
        <4> QED
          BY <1>5, <4>1, <4>2
      <3>3. CASE i < L - 1
        <4>1. /\ i + 2 \in 1..L + 2 /\ ~ (i + 2 > L) /\ L + 1 - (i + 2) = (n - 1) - 1
              /\ n - 1 \in 1..L
          BY <1>1, <3>3
        <4>2. f[i + 2] = g[(n - 1) - 1][1]
          BY <4>1
        <4> QED
          BY <1>6, <4>1, <4>2
      <3> QED
        BY <1>1, <3>1, <3>2, <3>3
    <2> HIDE DEF f, n
    <2> QED
      BY <1>6, <2>1, <2>2, <2>3, <2>4
  <1>8. \A i \in 1..L + 2 : f[i] = IF i > L THEN Nothing
                                   ELSE Scanned(argv[i], runtime, f[i + 1], f[i + 2])
    <2>1. \A i \in 1..L + 2 : i > L => f[i] = Nothing
      OBVIOUS
    <2>2. \A i \in 1..L + 2 : ~ (i > L) => i \in 1..L
      BY <1>1
    <2> HIDE DEF f
    <2> QED
      BY <1>7, <2>1, <2>2
  <1>9. f = [i \in 1..L + 2 |-> f[i]]
    OBVIOUS
  <1> HIDE DEF f
  <1>10. f = [i \in 1..L + 2 |-> IF i > L THEN Nothing
                                 ELSE Scanned(argv[i], runtime, f[i + 1], f[i + 2])]
    BY <1>8, <1>9
  <1>11. Scans(f, runtime, argv)
    BY <1>10 DEF Scans, Scanned
  <1> QED
    BY <1>11

LEMMA ValuesExist ==
    ASSUME NEW argv \in Arguments
    PROVE  \E v : v = [i \in DOMAIN argv |->
                          i > 1 /\ argv[i - 1] \in ValueOptions /\ ~ v[i - 1]]
  <1> DEFINE L == Len(argv)
             step == [p \in (1..L) \X BOOLEAN |->
                         p[1] > 1 /\ argv[p[1] - 1] \in ValueOptions /\ ~ p[2]]
  <1>1. L \in Nat /\ DOMAIN argv = 1..L
    BY DEF Arguments
  <1>2. step \in [(1..L) \X BOOLEAN -> BOOLEAN]
    OBVIOUS
  <1>3. PICK g \in [0..L -> BOOLEAN] : Steps(g, L, FALSE, step)
    <2> HIDE DEF L, step
    <2> QED
      BY <1>1, <1>2, StepsMakeFunction
  <1> DEFINE v == [i \in 1..L |-> g[i]]
  <1>4. ASSUME NEW i \in 1..L
        PROVE  v[i] = (i > 1 /\ argv[i - 1] \in ValueOptions /\ ~ v[i - 1])
    <2>1. i - 1 \in 0..L /\ g[i - 1] \in BOOLEAN
      BY <1>1
    <2>2. g[i] = step[<<i, g[i - 1]>>]
      BY <1>3 DEF Steps
    <2>3. step[<<i, g[i - 1]>>] = (i > 1 /\ argv[i - 1] \in ValueOptions /\ ~ g[i - 1])
      BY <2>1
    <2>4. i > 1 => v[i - 1] = g[i - 1]
      BY <1>1
    <2> HIDE DEF step
    <2> QED
      BY <2>2, <2>3, <2>4
  <1>5. v = [i \in DOMAIN argv |-> i > 1 /\ argv[i - 1] \in ValueOptions /\ ~ v[i - 1]]
    <2>1. v = [i \in 1..L |-> v[i]]
      OBVIOUS
    <2> HIDE DEF v
    <2>2. v = [i \in 1..L |-> i > 1 /\ argv[i - 1] \in ValueOptions /\ ~ v[i - 1]]
      BY <1>4, <2>1
    <2> QED
      BY <1>1, <2>2
  <1> HIDE DEF v
  <1> QED
    BY <1>5

LEMMA ValueByValue ==
    ASSUME NEW argv \in Arguments, NEW i \in 1..Len(argv)
    PROVE  IsValue(argv)[i] <=>
              i > 1 /\ argv[i - 1] \in ValueOptions /\ ~ IsValue(argv)[i - 1]
  <1> DEFINE Tells(v) == v = [j \in DOMAIN argv |->
                                 j > 1 /\ argv[j - 1] \in ValueOptions /\ ~ v[j - 1]]
             value == CHOOSE v : Tells(v)
  <1>1. Tells(value)
    <2>1. \E v : Tells(v)
      BY ValuesExist
    <2> HIDE DEF Tells
    <2> QED
      BY <2>1
  <1>2. IsValue(argv) = value
    BY DEF IsValue
  <1>3. i \in DOMAIN argv
    BY DEF Arguments
  <1> HIDE DEF value
  <1>4. value[i] = (i > 1 /\ argv[i - 1] \in ValueOptions /\ ~ value[i - 1])
    BY <1>1, <1>3, Zenon
  <1> QED
    BY <1>2, <1>4

\* The scan comes to the first argument that is no option and no value, unless
\* an option that is followed by code comes before it.
LEMMA ScriptIsFirst ==
    ASSUME NEW runtime, NEW argv \in Arguments
    PROVE  LET own(i) == ~ IsValue(argv)[i]
               scripts == {i \in DOMAIN argv : own(i) /\ argv[i] \notin Options}
               evals == {i \in DOMAIN argv : own(i) /\ argv[i] \in EvalOptions(runtime)}
               name == Script(runtime, argv)
           IN  {Basename[argv[i]] : i \in {s \in scripts : \A j \in scripts \cup evals : s <= j}}
               = IF name = Nothing THEN {} ELSE {name}
  <1> DEFINE L == Len(argv)
             own(i) == ~ IsValue(argv)[i]
             scripts == {i \in DOMAIN argv : own(i) /\ argv[i] \notin Options}
             evals == {i \in DOMAIN argv : own(i) /\ argv[i] \in EvalOptions(runtime)}
             first == {s \in scripts : \A j \in scripts \cup evals : s <= j}
             name == Script(runtime, argv)
  <1>1. L \in Nat /\ DOMAIN argv = 1..L /\ \A i \in 1..L : argv[i] \in Options \cup DOMAIN Basename
    BY DEF Arguments
  <1>2. PICK f : Scans(f, runtime, argv) /\ name = f[1]
    BY ScanExists, ScriptScans
  <1>3. \A i \in 1..L + 2 :
           f[i] = IF i > L THEN Nothing ELSE Scanned(argv[i], runtime, f[i + 1], f[i + 2])
    BY <1>2, Zenon DEF Scans, Scanned
  <1>4. \A i \in 1..L : own(i) <=> ~ (i > 1 /\ argv[i - 1] \in ValueOptions /\ own(i - 1))
    BY ValueByValue
  <1> HIDE DEF name, own
  <1> DEFINE passed(j) == own(j) => argv[j] \in Options \ EvalOptions(runtime)
             reached == {i \in 1..L + 2 : /\ f[i] = name
                                          /\ i <= L => own(i)
                                          /\ \A j \in 1..L : j < i => passed(j)}
  <1>5. 1 \in reached
    BY <1>1, <1>2, <1>4
  <1>6. PICK m \in reached : \A i \in reached : i <= m
    <2>1. L + 2 \in Nat /\ reached \in SUBSET (1..L + 2) /\ reached # {}
      BY <1>1, <1>5
    <2> HIDE DEF reached
    <2> QED
      BY <2>1, SomeIsGreatest
  <1>7. m \in 1..L + 2 /\ f[m] = name /\ \A j \in 1..L : j < m => passed(j)
    BY <1>6
  <1>8. \A j \in scripts \cup evals : j \in 1..L /\ ~ passed(j)
    BY <1>1 DEF passed
  <1>9. \A j \in scripts \cup evals : m <= j
    BY <1>1, <1>7, <1>8
  <1> SUFFICES {Basename[argv[i]] : i \in first} = IF name = Nothing THEN {} ELSE {name}
    BY DEF name, own
  <1>10. CASE m > L
    <2>1. scripts \cup evals = {}
      BY <1>1, <1>8, <1>9, <1>10
    <2>2. name = Nothing
      BY <1>3, <1>7, <1>10
    <2> QED
      BY <2>1, <2>2
  <1>11. CASE m <= L
    <2>1. m \in 1..L /\ own(m)
      BY <1>1, <1>6, <1>11
    <2>2. name = Scanned(argv[m], runtime, f[m + 1], f[m + 2])
      BY <1>1, <1>3, <1>7, <2>1
    <2>3. CASE argv[m] \notin Options
      <3>1. name = Basename[argv[m]]
        BY <2>2, <2>3, OptionKinds DEF Scanned
      <3>2. name # Nothing
        BY <1>1, <2>1, <2>3, <3>1, RecognitionAssumption
      <3>3. m \in scripts
        BY <1>1, <2>1, <2>3
      <3>4. first = {m}
        <4>1. m \in first
          BY <1>9, <3>3
        <4>2. \A s \in first : s <= m /\ m <= s /\ s \in 1..L
          BY <1>8, <1>9, <3>3
        <4>3. \A s \in first : s = m
          BY <1>1, <2>1, <4>2
        <4> HIDE DEF first
        <4> QED
          BY <4>1, <4>3
      <3> HIDE DEF first
      <3> QED
        BY <3>1, <3>2, <3>4
    <2>4. CASE argv[m] \in EvalOptions(runtime)
      <3>1. name = Nothing /\ argv[m] \in Options
        BY <2>2, <2>4, OptionKinds DEF Scanned
      <3>2. m \in evals
        BY <1>1, <2>1, <2>4
      <3>3. first = {}
        <4>1. \A s \in first : s <= m /\ m <= s /\ s \in 1..L
          BY <1>8, <1>9, <3>2
        <4>2. \A s \in first : s = m /\ argv[s] \notin Options
          BY <1>1, <2>1, <4>1
        <4> QED
          BY <3>1, <4>2
      <3> HIDE DEF first
      <3> QED
        BY <3>1, <3>3
    <2>5. CASE argv[m] \in Options \ EvalOptions(runtime)
      <3>1. passed(m)
        BY <2>5
      <3>2. CASE argv[m] \in ValueOptions
        <4>1. name = f[m + 2]
          BY <2>2, <2>5, <3>2, OptionKinds DEF Scanned
        <4>2. m + 1 <= L => ~ own(m + 1)
          <5>1. ASSUME m + 1 <= L PROVE ~ own(m + 1)
            <6>1. m + 1 \in 1..L /\ (m + 1) - 1 = m /\ m + 1 > 1
              BY <1>1, <2>1, <5>1
            <6>2. own(m + 1)
                  <=> ~ (m + 1 > 1 /\ argv[(m + 1) - 1] \in ValueOptions /\ own((m + 1) - 1))
              BY <1>4, <6>1
            <6> QED
              BY <2>1, <3>2, <6>1, <6>2
          <5> QED
            BY <5>1
        <4>3. m + 2 <= L => own(m + 2)
          <5>1. ASSUME m + 2 <= L PROVE own(m + 2)
            <6>1. m + 2 \in 1..L /\ (m + 2) - 1 = m + 1 /\ m + 1 <= L
              BY <1>1, <2>1, <5>1
            <6> QED
              BY <1>4, <4>2, <6>1
          <5> QED
            BY <5>1
        <4>4. \A j \in 1..L : j < m + 2 => passed(j)
          <5>1. ASSUME NEW j \in 1..L, j < m + 2 PROVE passed(j)
            <6>1. j < m \/ j = m \/ j = m + 1
              BY <1>1, <2>1, <5>1
            <6>2. j = m + 1 => passed(j)
              BY <1>1, <4>2
            <6> QED
              BY <1>7, <3>1, <6>1, <6>2
          <5> QED
            BY <5>1
        <4>5. m + 2 \in reached
          BY <1>1, <2>1, <4>1, <4>3, <4>4
        <4> QED
          BY <1>1, <1>6, <2>1, <4>5
      <3>3. CASE argv[m] \notin ValueOptions
        <4>1. name = f[m + 1]
          BY <2>2, <2>5, <3>3, OptionKinds DEF Scanned
        <4>2. m + 1 <= L => own(m + 1)
          <5>1. ASSUME m + 1 <= L PROVE own(m + 1)
            <6>1. m + 1 \in 1..L /\ (m + 1) - 1 = m
              BY <1>1, <2>1, <5>1
            <6> QED
              BY <1>4, <3>3, <6>1
          <5> QED
            BY <5>1
        <4>3. \A j \in 1..L : j < m + 1 => j < m \/ j = m
          BY <1>1, <2>1
        <4>4. \A j \in 1..L : j < m + 1 => passed(j)
          BY <1>7, <3>1, <4>3
        <4>5. m + 1 \in reached
          BY <1>1, <2>1, <4>1, <4>2, <4>4
        <4> QED
          BY <1>1, <1>6, <2>1, <4>5
      <3> QED
        BY <3>2, <3>3
    <2> QED
      BY <1>1, <2>1, <2>3, <2>4, <2>5
  <1>12. m > L \/ m <= L
    BY <1>1, <1>7
  <1> QED
    BY <1>10, <1>11, <1>12

\* normalized(): the name of a process is that of the program it runs.
IsProcess(process) ==
    Original(process) \in DOMAIN Basename /\ process.argv \in Arguments

LEMMA NameIsRun ==
    ASSUME NEW process, IsProcess(process)
    PROVE  Runs(process, {}) = {NameOf(process)} \ {Nothing}
  <1> DEFINE base == Basename[Original(process)]
  <1>1. base # Nothing
    BY RecognitionAssumption DEF IsProcess
  <1>2. CASE base = "tmux"
    BY <1>2 DEF Runs, NameOf
  <1>3. CASE base # "tmux" /\ base \notin Runtimes
    BY <1>1, <1>3 DEF Runs, NameOf
  <1>4. CASE base # "tmux" /\ base \in Runtimes
    <2> DEFINE argv == process.argv
               own(i) == ~ IsValue(argv)[i]
               scripts == {i \in DOMAIN argv : own(i) /\ argv[i] \notin Options}
               evals == {i \in DOMAIN argv : own(i) /\ argv[i] \in EvalOptions(base)}
               ends == {i \in DOMAIN argv : own(i) /\ argv[i] \in EvalOptions(base) \cup {}}
               run == {Basename[argv[i]] : i \in {s \in scripts :
                          \A j \in scripts \cup evals : s <= j}}
    <2>1. NameOf(process) = Script(base, argv)
      BY <1>4 DEF NameOf
    <2>2. Runs(process, {}) = run
      <3>1. ends = evals
        OBVIOUS
      <3>2. Runs(process, {}) = {Basename[argv[i]] : i \in {s \in scripts :
                                   \A j \in scripts \cup ends : s <= j}}
        BY <1>4 DEF Runs
      <3> HIDE DEF ends, evals, scripts
      <3> QED
        BY <3>1, <3>2
    <2>3. run = IF Script(base, argv) = Nothing THEN {} ELSE {Script(base, argv)}
      BY ScriptIsFirst DEF IsProcess
    <2> HIDE DEF run
    <2> QED
      BY <2>1, <2>2, <2>3
  <1> QED
    BY <1>2, <1>3, <1>4

\* What more ends the scan can only leave a process without a name.
LEMMA StopsOnlyHide ==
    ASSUME NEW process, IsProcess(process), NEW stops, Runs(process, stops) # {}
    PROVE  Runs(process, stops) = Runs(process, {})
  <1> DEFINE base == Basename[Original(process)]
             argv == process.argv
             own(i) == ~ IsValue(argv)[i]
             scripts == {i \in DOMAIN argv : own(i) /\ argv[i] \notin Options}
             ends(S) == {i \in DOMAIN argv : own(i) /\ argv[i] \in EvalOptions(base) \cup S}
             first(S) == {s \in scripts : \A j \in scripts \cup ends(S) : s <= j}
             run(S) == {Basename[argv[i]] : i \in first(S)}
  <1>1. CASE base = "tmux" \/ base \notin Runtimes
    BY <1>1 DEF Runs
  <1>2. CASE base # "tmux" /\ base \in Runtimes
    <2>1. Runs(process, stops) = run(stops) /\ Runs(process, {}) = run({})
      BY <1>2 DEF Runs
    <2>2. ends({}) \subseteq ends(stops)
      OBVIOUS
    <2>3. scripts \subseteq Nat
      BY DEF IsProcess, Arguments
    <2> HIDE DEF scripts, ends
    <2>4. first(stops) \subseteq first({})
      BY <2>2
    <2>5. first(stops) # {}
      BY <2>1
    <2>6. \A s, t \in first({}) : s = t
      BY <2>3
    <2> HIDE DEF first
    <2>7. first(stops) = first({})
      BY <2>4, <2>5, <2>6
    <2> QED
      BY <2>1, <2>7
  <1> QED
    BY <1>1, <1>2

-----------------------------------------------------------------------------
(* The agent of a job *)

LEMMA FirstOfPlaces ==
    ASSUME NEW S, S \subseteq Nat, S # {}
    PROVE  (CHOOSE i \in S : \A j \in S : i <= j) \in {i \in S : \A j \in S : i <= j}
  <1>1. \E i \in S : \A j \in S : i <= j
    BY SomeIsLeast
  <1> QED
    BY <1>1

LEMMA DeclaredIsSet ==
    ASSUME NEW process, NEW s0, DOMAIN s0 \subseteq Nat
    PROVE  /\ (\E s \in DOMAIN s0 : s0[s].id = process.env_agent)
              => \E s \in DOMAIN s0 : /\ Declared(process, s0) = <<s0[s]>>
                                       /\ s0[s].id = process.env_agent
           /\ ~ (\E s \in DOMAIN s0 : s0[s].id = process.env_agent)
              => Declared(process, s0) = <<>>
  <1> DEFINE H == {s \in DOMAIN s0 : s0[s].id = process.env_agent}
             first == CHOOSE s \in H : \A j \in H : s <= j
  <1>1. Declared(process, s0) = IF H = {} THEN <<>> ELSE <<s0[first]>>
    BY DEF Declared, FirstSet
  <1>2. H # {} => first \in H
    <2>1. H \subseteq Nat
      OBVIOUS
    <2> HIDE DEF H
    <2> QED
      BY <2>1, FirstOfPlaces
  <1> HIDE DEF first
  <1> QED
    BY <1>1, <1>2

LEMMA NamedIsListed ==
    ASSUME NEW name, DOMAIN sets \subseteq Nat
    PROVE  /\ Listing({name}) = {} => Named(sets, name) = <<>>
           /\ Listing({name}) # {} =>
                 \E s \in Listing({name}) : Named(sets, name) = <<sets[s]>>
  <1> DEFINE H == {s \in DOMAIN sets : name \in sets[s].process_names}
             first == CHOOSE s \in H : \A j \in H : s <= j
  <1>1. Named(sets, name) = IF H = {} THEN <<>> ELSE <<sets[first]>>
    BY DEF Named, FirstSet
  <1>2. Listing({name}) = {s \in H : \A k \in H : s <= k}
    <2>1. H = {s \in DOMAIN sets : {name} \cap sets[s].process_names # {}}
      OBVIOUS
    <2> HIDE DEF H
    <2> QED
      BY <2>1 DEF Listing
  <1>3. H # {} => first \in Listing({name})
    <2>1. H \subseteq Nat
      OBVIOUS
    <2> HIDE DEF H
    <2> QED
      BY <1>2, <2>1, FirstOfPlaces
  <1> HIDE DEF first, H
  <1> QED
    BY <1>1, <1>2, <1>3

LEMMA SetIsMatched ==
    ASSUME NEW process, IsProcess(process), DOMAIN sets \subseteq Nat
    PROVE  /\ Matched(process) = {} => SetOf(process, sets) = <<>>
           /\ Matched(process) # {} =>
                 \E s \in Matched(process) : SetOf(process, sets) = <<sets[s]>>
  <1> DEFINE name == NameOf(process)
             link == Canonical[name]
  <1>1. Runs(process, {}) = {name} \ {Nothing}
    BY NameIsRun
  <1>2. Listing({}) = {}
    BY DEF Listing
  <1>3. CASE name = Nothing
    <2>1. Matched(process) = {}
      BY <1>1, <1>2, <1>3 DEF Matched
    <2> QED
      BY <1>3, <2>1 DEF SetOf
  <1>4. CASE name # Nothing
    <2>1. Runs(process, {}) = {name}
      BY <1>1, <1>4
    <2>2. {Canonical[n] : n \in {name}} \ {Nothing} = IF link = Nothing THEN {} ELSE {link}
      OBVIOUS
    <2>3. Matched(process) = IF Listing({name}) # {} THEN Listing({name})
                             ELSE IF link = Nothing THEN {} ELSE Listing({link})
      BY <1>2, <2>1, <2>2 DEF Matched
    <2>4. SetOf(process, sets) = IF Named(sets, name) # <<>> THEN Named(sets, name)
                                 ELSE IF link # Nothing THEN Named(sets, link) ELSE <<>>
      BY <1>4 DEF SetOf
    <2>5. Named(sets, name) # <<>> <=> Listing({name}) # {}
      BY NamedIsListed
    <2> HIDE DEF name, link
    <2> QED
      BY <2>3, <2>4, <2>5, NamedIsListed
  <1> QED
    BY <1>3, <1>4

\* The candidates among the processes of a job, and who is better.
Eligible(j, s0) == {i \in DOMAIN j.processes : SetOf(j.processes[i], s0) # <<>>}

Preferred(j) ==
    {p \in (1..Len(j.processes)) \X (1..Len(j.processes)) : Better(j, p[1], p[2])}

\* The recursion of BestMatch().
Selects(f, j, s0) ==
    f = [n \in 0..Len(j.processes) |->
            IF n = 0 THEN 0
            ELSE IF SetOf(j.processes[n], s0) = <<>> THEN f[n - 1]
            ELSE IF f[n - 1] = 0 \/ Better(j, n, f[n - 1]) THEN n
            ELSE f[n - 1]]

LEMMA BestIsSelected ==
    ASSUME NEW j, NEW s0, \E f : Selects(f, j, s0)
    PROVE  \E f : Selects(f, j, s0) /\ BestMatch(j, s0) = f[Len(j.processes)]
  <1> DEFINE b == CHOOSE f : Selects(f, j, s0)
  <1>1. Selects(b, j, s0)
    OBVIOUS
  <1>2. BestMatch(j, s0) = b[Len(j.processes)]
    BY DEF BestMatch, Selects
  <1> HIDE DEF b
  <1> QED
    BY <1>1, <1>2

IsSequence(s) == Len(s) \in Nat /\ DOMAIN s = 1..Len(s)

LEMMA SelectedIsChampion ==
    ASSUME NEW j, NEW s0, IsSequence(j.processes), NEW f,
           \A n \in 0..Len(j.processes) : f[n] \in 0..Len(j.processes)
    PROVE  Selects(f, j, s0) <=>
              /\ f = [n \in 0..Len(j.processes) |-> f[n]]
              /\ IsChampion(f, Len(j.processes), Eligible(j, s0), Preferred(j))
  <1> DEFINE N == Len(j.processes)
             E == Eligible(j, s0)
             P == Preferred(j)
             value(n) == IF n = 0 THEN 0
                         ELSE IF SetOf(j.processes[n], s0) = <<>> THEN f[n - 1]
                         ELSE IF f[n - 1] = 0 \/ Better(j, n, f[n - 1]) THEN n
                         ELSE f[n - 1]
  <1>1. N \in Nat /\ DOMAIN j.processes = 1..N
    BY DEF IsSequence
  <1>2. \A n \in 1..N : /\ Replaces(f, n, E, P) => value(n) = n
                        /\ ~ Replaces(f, n, E, P) => value(n) = f[n - 1]
    <2> SUFFICES ASSUME NEW n \in 1..N
                 PROVE  /\ Replaces(f, n, E, P) => value(n) = n
                        /\ ~ Replaces(f, n, E, P) => value(n) = f[n - 1]
      OBVIOUS
    <2>1. n \in E <=> SetOf(j.processes[n], s0) # <<>>
      BY <1>1 DEF Eligible
    <2>2. f[n - 1] \in 0..N /\ n # 0
      <3>1. n - 1 \in 0..N /\ n # 0
        BY <1>1
      <3> QED
        BY <3>1
    <2>3. f[n - 1] # 0 => (<<n, f[n - 1]>> \in P <=> Better(j, n, f[n - 1]))
      BY <1>1, <2>2 DEF Preferred
    <2> HIDE DEF E, P
    <2> QED
      BY <2>1, <2>2, <2>3 DEF Replaces
  <1>3. Selects(f, j, s0) <=> f = [n \in 0..N |-> value(n)]
    BY DEF Selects
  <1>4. IsChampion(f, N, E, P) <=> \A n \in 0..N : f[n] = value(n)
    <2>1. value(0) = 0
      OBVIOUS
    <2>2. 0 \in 0..N /\ (\A n \in 0..N : n = 0 \/ n \in 1..N) /\ \A n \in 1..N : n \in 0..N
      BY <1>1
    <2> HIDE DEF value, E, P, N
    <2> QED
      BY <1>2, <2>1, <2>2 DEF IsChampion
  <1> HIDE DEF value
  <1> QED
    BY <1>3, <1>4

LEMMA SelectedIsProcess ==
    ASSUME NEW j, NEW s0, IsSequence(j.processes), NEW f, Selects(f, j, s0)
    PROVE  \A n \in 0..Len(j.processes) : f[n] \in 0..Len(j.processes)
  <1> DEFINE N == Len(j.processes)
  <1>1. N \in Nat
    BY DEF IsSequence
  <1>2. f[0] = 0 /\ \A n \in 1..N : f[n] = n \/ f[n] = f[n - 1]
    <2>1. \A n \in 0..N : f[n] = IF n = 0 THEN 0
              ELSE IF SetOf(j.processes[n], s0) = <<>> THEN f[n - 1]
              ELSE IF f[n - 1] = 0 \/ Better(j, n, f[n - 1]) THEN n
              ELSE f[n - 1]
      BY Zenon DEF Selects
    <2>2. 0 \in 0..N /\ \A n \in 1..N : n \in 0..N /\ n # 0
      BY <1>1
    <2> QED
      BY <2>1, <2>2
  <1> QED
    BY <1>1, <1>2, ChampionIsPlace

LEMMA BestMatchIsPreferred ==
    ASSUME NEW j, NEW s0, IsSequence(j.processes)
    PROVE  /\ BestMatch(j, s0) = 0 => Eligible(j, s0) = {}
           /\ BestMatch(j, s0) # 0 =>
                 /\ BestMatch(j, s0) \in Eligible(j, s0)
                 /\ \A k \in Eligible(j, s0) :
                       /\ k < BestMatch(j, s0) => Better(j, BestMatch(j, s0), k)
                       /\ k > BestMatch(j, s0) => ~ Better(j, k, BestMatch(j, s0))
  <1> DEFINE N == Len(j.processes)
             E == Eligible(j, s0)
             P == Preferred(j)
  <1>1. N \in Nat /\ E \in SUBSET (1..N)
    BY DEF IsSequence, Eligible
  <1>2. \A a, b \in 1..N : <<a, b>> \in P <=> Better(j, a, b)
    BY DEF Preferred
  <1>3. \E f : Selects(f, j, s0)
    <2>1. PICK f \in [0..N -> 0..N] : IsChampion(f, N, E, P)
      BY <1>1, ChampionExists
    <2>2. f = [n \in 0..N |-> f[n]] /\ \A n \in 0..N : f[n] \in 0..N
      OBVIOUS
    <2> QED
      BY <2>1, <2>2, SelectedIsChampion
  <1>4. PICK f : Selects(f, j, s0) /\ BestMatch(j, s0) = f[N]
    BY <1>3, BestIsSelected
  <1>5. IsChampion(f, N, E, P)
    <2>1. \A n \in 0..N : f[n] \in 0..N
      BY <1>4, SelectedIsProcess
    <2> QED
      BY <1>4, <2>1, SelectedIsChampion
  <1> DEFINE leads(p) == j.processes[p].pid = j.leader
             score(p) == Score(j.processes[p])
  <1>6. \A a, b \in 1..N : Better(j, a, b) <=>
           \/ leads(a) /\ ~ leads(b)
           \/ (leads(a) <=> leads(b)) /\ score(a) > score(b)
    BY DEF Better
  <1>7. \A a \in 1..N : score(a) \in Nat
    BY DEF Score
  <1> HIDE DEF N, E, P, leads, score
  <1>8. /\ \A a, b, c \in 1..N : <<a, b>> \in P /\ <<b, c>> \in P => <<a, c>> \in P
        /\ \A a, b, c \in 1..N : <<a, b>> \in P /\ <<c, b>> \notin P => <<a, c>> \in P
    BY <1>2, <1>6, <1>7
  <1>9. /\ f[N] = 0 => E = {}
        /\ f[N] # 0 =>
              /\ f[N] \in E
              /\ \A k \in E : k < f[N] => <<f[N], k>> \in P
              /\ \A k \in E : k > f[N] => <<k, f[N]>> \notin P
    BY <1>1, <1>5, <1>8, ChampionIsBest
  <1>10. \A k \in E : k \in 1..N
    BY <1>1
  <1>11. /\ f[N] = 0 => E = {}
         /\ f[N] # 0 =>
               /\ f[N] \in E
               /\ \A k \in E : /\ k < f[N] => Better(j, f[N], k)
                               /\ k > f[N] => ~ Better(j, k, f[N])
    BY <1>2, <1>9, <1>10
  <1> QED
    BY <1>4, <1>11 DEF E

AreProcesses(processes) ==
    /\ IsSequence(processes)
    /\ \A i \in DOMAIN processes : IsProcess(processes[i])

LEMMA CandidatesAreEligible ==
    ASSUME NEW j, AreProcesses(j.processes), DOMAIN sets \subseteq Nat
    PROVE  Candidates(j) = Eligible(j, sets)
  <1>1. ASSUME NEW i \in DOMAIN j.processes
        PROVE  Matched(j.processes[i]) # {} <=> SetOf(j.processes[i], sets) # <<>>
    BY SetIsMatched DEF AreProcesses
  <1> QED
    BY <1>1 DEF Candidates, Eligible

LEMMA BestMatchWins ==
    ASSUME NEW j, AreProcesses(j.processes), DOMAIN sets \subseteq Nat, BestMatch(j, sets) # 0
    PROVE  BestMatch(j, sets) \in Candidates(j) /\ Wins(j, BestMatch(j, sets))
  <1> DEFINE w == BestMatch(j, sets)
             leads(k) == j.processes[k].pid = j.leader
             score(k) == Score(j.processes[k])
  <1>1. Candidates(j) = Eligible(j, sets) /\ IsSequence(j.processes)
    BY CandidatesAreEligible DEF AreProcesses
  <1>2. /\ w \in Candidates(j)
        /\ \A k \in Candidates(j) : /\ k < w => Better(j, w, k)
                                    /\ k > w => ~ Better(j, k, w)
    BY <1>1, BestMatchIsPreferred
  <1>3. \A k \in Candidates(j) : k \in Nat
    BY <1>1 DEF Candidates, IsSequence
  <1>4. \A k : score(k) \in Nat
    BY DEF Score
  <1> HIDE DEF w
  <1>5. ASSUME NEW k \in Candidates(j) \ {w}
        PROVE  \/ leads(w) /\ ~ leads(k)
               \/ leads(w) = leads(k) /\ score(w) > score(k)
               \/ leads(w) = leads(k) /\ score(w) = score(k) /\ w < k
    <2>1. w \in Nat /\ k \in Nat /\ (k < w \/ k > w)
      BY <1>2, <1>3
    <2>2. CASE k < w
      <3>1. Better(j, w, k)
        BY <1>2, <2>2
      <3> QED
        BY <3>1 DEF Better
    <2>3. CASE k > w
      <3>1. ~ Better(j, k, w)
        BY <1>2, <2>3
      <3>2. /\ leads(w) \/ ~ leads(k)
            /\ leads(w) = leads(k) => ~ (score(k) > score(w))
        BY <3>1 DEF Better
      <3>3. score(k) \in Nat /\ score(w) \in Nat
        BY <1>4
      <3> HIDE DEF leads, score
      <3>4. leads(w) = leads(k) => score(w) > score(k) \/ score(w) = score(k)
        BY <3>2, <3>3
      <3>5. leads(w) = leads(k) \/ (leads(w) /\ ~ leads(k))
        BY <3>2 DEF leads
      <3> QED
        BY <2>1, <2>3, <3>4, <3>5
    <2> QED
      BY <2>1, <2>2, <2>3
  <1> QED
    BY <1>2, <1>5 DEF Wins, w

\* With valid ids, a job has the agent of its chosen process, and none without one.
Chosen(j) ==
    LET declaring == {i \in DOMAIN j.processes :
                         \E s \in DOMAIN sets : sets[s].id = j.processes[i].env_agent}
    IN  IF declaring # {} THEN {i \in declaring : \A k \in declaring : i <= k}
        ELSE {i \in Candidates(j) : Wins(j, i)}

Agents(j, i) ==
    LET declaring == {k \in DOMAIN j.processes :
                         \E s \in DOMAIN sets : sets[s].id = j.processes[k].env_agent}
    IN  IF declaring # {} THEN {j.processes[i].env_agent}
        ELSE {sets[s].id : s \in Matched(j.processes[i])}

LEMMA MatchIsOfSet ==
    ASSUME NEW s \in DOMAIN sets, NEW process, sets[s].id \in AgentIds
    PROVE  /\ Match(sets[s], process).pid = process.pid
           /\ Match(sets[s], process).agent = sets[s].id
  BY DEF Match

LEMMA NoWinner ==
    ASSUME NEW j, AreProcesses(j.processes), DOMAIN sets \subseteq Nat, BestMatch(j, sets) = 0
    PROVE  {i \in Candidates(j) : Wins(j, i)} = {}
  BY CandidatesAreEligible, BestMatchIsPreferred DEF AreProcesses

LEMMA ChosenIsIdentified ==
    ASSUME NEW j, AreProcesses(j.processes), DOMAIN sets \subseteq Nat,
           \A s \in DOMAIN sets : sets[s].id \in AgentIds
    PROVE  IF Chosen(j) = {} THEN Identified(j, sets) = Nothing
           ELSE \E i \in Chosen(j) : /\ Identified(j, sets).pid = j.processes[i].pid
                                     /\ Identified(j, sets).agent \in Agents(j, i)
  <1> DEFINE p == j.processes
             tells(i) == \E s \in DOMAIN sets : sets[s].id = p[i].env_agent
             declaring == {i \in DOMAIN p : tells(i)}
             first == CHOOSE i \in declaring : \A k \in declaring : i <= k
             best == BestMatch(j, sets)
             found == Identified(j, sets)
  <1>1. declaring = {i \in DOMAIN p : Declared(p[i], sets) # <<>>}
    BY DeclaredIsSet
  <1>2. found = IF declaring # {} THEN Match(Declared(p[first], sets)[1], p[first])
                ELSE IF best = 0 THEN Nothing
                ELSE Match(SetOf(p[best], sets)[1], p[best])
    <2> DEFINE D == {i \in DOMAIN p : Declared(p[i], sets) # <<>>}
               f == CHOOSE i \in D : \A k \in D : i <= k
    <2>1. found = IF D # {} THEN Match(Declared(p[f], sets)[1], p[f])
                  ELSE IF best = 0 THEN Nothing
                  ELSE Match(SetOf(p[best], sets)[1], p[best])
      BY DEF Identified
    <2>2. D = declaring
      BY <1>1
    <2> HIDE DEF D, declaring, found, best
    <2>3. f = first
      BY <2>2
    <2> HIDE DEF f, first
    <2> QED
      BY <2>1, <2>2, <2>3
  <1>3. CASE declaring # {}
    <2>1. first \in declaring /\ \A k \in declaring : first <= k
      <3>1. declaring \subseteq Nat
        BY DEF AreProcesses, IsSequence
      <3> HIDE DEF declaring
      <3> QED
        BY <1>3, <3>1, FirstOfPlaces
    <2>2. Chosen(j) = {i \in declaring : \A k \in declaring : i <= k}
      BY <1>3 DEF Chosen
    <2>3. PICK s \in DOMAIN sets : /\ Declared(p[first], sets) = <<sets[s]>>
                                   /\ sets[s].id = p[first].env_agent
      BY <2>1, DeclaredIsSet
    <2>4. found = Match(sets[s], p[first])
      BY <1>2, <1>3, <2>3
    <2>5. found.pid = p[first].pid /\ found.agent \in Agents(j, first)
      BY <1>3, <2>3, <2>4, MatchIsOfSet DEF Agents
    <2>6. first \in Chosen(j)
      BY <2>1, <2>2
    <2> HIDE DEF first, found
    <2> QED
      BY <2>5, <2>6 DEF found
  <1>4. CASE declaring = {}
    <2>1. Chosen(j) = {i \in Candidates(j) : Wins(j, i)}
      BY <1>4 DEF Chosen
    <2>2. CASE best = 0
      BY <1>2, <1>4, <2>1, <2>2, NoWinner
    <2>3. CASE best # 0
      <3>1. best \in Chosen(j) /\ best \in Candidates(j)
        BY <2>1, <2>3, BestMatchWins
      <3>2. PICK s \in Matched(p[best]) : SetOf(p[best], sets) = <<sets[s]>>
        <4>1. IsProcess(p[best]) /\ Matched(p[best]) # {}
          BY <3>1 DEF Candidates, AreProcesses
        <4> QED
          BY <4>1, SetIsMatched
      <3>3. found = Match(sets[s], p[best]) /\ s \in DOMAIN sets
        BY <1>2, <1>4, <2>3, <3>2 DEF Matched, Listing
      <3>4. found.pid = p[best].pid /\ found.agent \in Agents(j, best)
        BY <1>4, <3>2, <3>3, MatchIsOfSet DEF Agents
      <3> HIDE DEF best, found
      <3> QED
        BY <3>1, <3>4 DEF found
    <2> QED
      BY <2>2, <2>3
  <1> QED
    BY <1>3, <1>4

JobListed == job \in Jobs

LEMMA JobAlways == Spec => []JobListed
  <1>1. Init => JobListed
    BY RecognitionAssumption DEF Init, JobListed
  <1>2. JobListed /\ [Next]_vars => JobListed'
    BY RecognitionAssumption DEF Next, ChildWrites, JobChanges, vars, JobListed
  <1> QED
    BY <1>1, <1>2, PTL DEF Spec

\* Whatever processes a job has and however rule sets name them, the name that
\* is looked up is that of the program or script the process runs (with a `--`
\* passed over as another option), and with ids that can be agents' the agent
\* and the pid are those of the first process that declares one or else of the
\* best match, whose rule set is the first to list its name, or else what that
\* name links to (identify(), normalized()).
THEOREM AgentIsIdentified == Spec => []AgentIsBestMatch
  <1>1. RulesLoaded /\ JobListed => AgentIsBestMatch
    <2> SUFFICES ASSUME RulesLoaded, JobListed PROVE AgentIsBestMatch
      OBVIOUS
    <2>1. IsJob(job) /\ DOMAIN sets \subseteq Nat
      BY RecognitionAssumption DEF RulesLoaded, JobListed
    <2>2. AreProcesses(job.processes)
      <3>1. IsSequence(job.processes)
        BY <2>1, LenProperties DEF IsJob, IsSequence
      <3>2. ASSUME NEW i \in DOMAIN job.processes
            PROVE  IsProcess(job.processes[i])
        <4>1. job.processes[i] \in Range(job.processes)
          BY DEF Range
        <4> QED
          BY <2>1, <4>1 DEF IsJob, IsProcess, Arguments
      <3> QED
        BY <3>1, <3>2 DEF AreProcesses
    <2>3. ASSUME NEW i \in DOMAIN job.processes
          PROVE  LET process == job.processes[i]
                     names == {NameOf(process)} \ {Nothing}
                 IN  /\ Runs(process, {}) = names
                     /\ Runs(process, {"--"}) # {} => Runs(process, {"--"}) = names
      <3>1. IsProcess(job.processes[i])
        BY <2>2 DEF AreProcesses
      <3> QED
        BY <3>1, NameIsRun, StopsOnlyHide
    <2>4. (\A s \in DOMAIN sets : sets[s].id \in AgentIds) =>
             IF Chosen(job) = {} THEN Identified(job, sets) = Nothing
             ELSE \E i \in Chosen(job) : /\ Identified(job, sets).pid = job.processes[i].pid
                                         /\ Identified(job, sets).agent \in Agents(job, i)
      BY <2>1, <2>2, ChosenIsIdentified
    <2> QED
      BY <2>3, <2>4 DEF AgentIsBestMatch, Chosen, Agents
  <1> QED
    BY <1>1, LoadedRules, RulesStayLoaded, JobAlways, PTL DEF Spec
=============================================================================
