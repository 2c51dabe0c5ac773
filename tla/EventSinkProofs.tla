-------------------------- MODULE EventSinkProofs --------------------------
(***************************************************************************)
(* Proofs about the event sink, for records of any size, any number of     *)
(* them, any retry delay, and a consumer that stalls and breaks the        *)
(* connection at any byte: what the consumer gets are whole records, in    *)
(* order, so that the sink implements the lossy feed.                      *)
(***************************************************************************)
EXTENDS EventSink, SequenceTheorems, TLAPS

\* A sink that has no connection has sent nothing on it, and a record that
\* waits for one starts at its beginning.
FreshLink ==
    /\ link # "up" => received = NoLine
    /\ link = "none" /\ pending # NoRecord => pending.offset = 0

\* The caller offers the newest record or none that is numbered; what is
\* pending is not older than what the consumer has.
InOrder ==
    /\ line \in {0, newest}
    /\ received # NoLine => received <= newest
    /\ pending # NoRecord =>
          /\ pending.number <= newest
          /\ pending.number = 0 \/ received = NoLine \/ received <= pending.number

SinkInv == SinkTypeOK /\ InStep /\ FreshLink /\ InOrder

-----------------------------------------------------------------------------
(* Bytes *)

LEMMA NoBytes == \A n, from \in Int : Bytes(n, from, from) = <<>>
  <1> SUFFICES ASSUME NEW n \in Int, NEW from \in Int PROVE Bytes(n, from, from) = <<>>
    OBVIOUS
  <1>1. 1..(from - from) = {}
    OBVIOUS
  <1> QED
    BY <1>1 DEF Bytes

LEMMA BytesAreASequence ==
    ASSUME NEW n, NEW from \in Nat, NEW to \in Nat, from <= to
    PROVE  /\ Bytes(n, from, to) \in Seq([record : {n}, byte : Nat])
           /\ Len(Bytes(n, from, to)) = to - from
           /\ \A i \in 1..(to - from) : Bytes(n, from, to)[i] = [record |-> n, byte |-> from + i]
  <1> DEFINE B == Bytes(n, from, to)
             m == to - from
  <1>1. m \in Nat
    OBVIOUS
  <1>2. B = [i \in 1..m |-> [record |-> n, byte |-> from + i]]
    BY DEF Bytes
  <1>3. \A i \in 1..m : from + i \in Nat
    OBVIOUS
  <1>4. B \in [1..m -> [record : {n}, byte : Nat]]
    BY <1>2, <1>3
  <1> HIDE DEF m, B
  <1>5. B \in Seq([record : {n}, byte : Nat])
    BY <1>1, <1>4, SeqDef
  <1>6. DOMAIN B = 1..m
    BY <1>4
  <1>7. Len(B) = m
    BY <1>1, <1>5, <1>6, LenProperties
  <1> QED
    BY <1>2, <1>5, <1>7 DEF m, B

\* The same for the beginning of a record.
LEMMA BytesFromZero ==
    ASSUME NEW n, NEW to \in Nat
    PROVE  /\ Bytes(n, 0, to) \in Seq([record : {n}, byte : Nat])
           /\ Len(Bytes(n, 0, to)) = to
           /\ \A i \in 1..to : Bytes(n, 0, to)[i] = [record |-> n, byte |-> i]
  <1> DEFINE S == [record : {n}, byte : Nat]
             B == Bytes(n, 0, to)
  <1>1. /\ B \in Seq(S) /\ Len(B) = to - 0
        /\ \A i \in 1..(to - 0) : B[i] = [record |-> n, byte |-> 0 + i]
    <2>1. 0 \in Nat /\ 0 <= to
      OBVIOUS
    <2> QED
      BY <2>1, BytesAreASequence, Zenon
  <1> HIDE DEF S, B
  <1>2. to - 0 = to /\ \A i \in 1..to : 0 + i = i
    OBVIOUS
  <1>3. B \in Seq(S) /\ Len(B) = to
    BY <1>1, <1>2
  <1>4. ASSUME NEW i \in 1..to PROVE B[i] = [record |-> n, byte |-> i]
    BY <1>1, <1>2
  <1> QED
    BY <1>3, <1>4 DEF S, B

\* What was sent and what follows it make up the beginning of the record.
LEMMA BytesFollow ==
    ASSUME NEW n, NEW middle \in Nat, NEW to \in Nat, middle <= to
    PROVE  Bytes(n, 0, middle) \o Bytes(n, middle, to) = Bytes(n, 0, to)
  <1> DEFINE S == [record : {n}, byte : Nat]
             A == Bytes(n, 0, middle)
             B == Bytes(n, middle, to)
             C == Bytes(n, 0, to)
  <1>1. /\ A \in Seq(S) /\ Len(A) = middle
        /\ \A i \in 1..middle : A[i] = [record |-> n, byte |-> i]
    BY BytesFromZero, Zenon
  <1>2. /\ B \in Seq(S) /\ Len(B) = to - middle
        /\ \A i \in 1..(to - middle) : B[i] = [record |-> n, byte |-> middle + i]
    BY BytesAreASequence, Zenon
  <1>3. /\ C \in Seq(S) /\ Len(C) = to
        /\ \A i \in 1..to : C[i] = [record |-> n, byte |-> i]
    BY BytesFromZero, Zenon
  <1> HIDE DEF S, A, B, C
  <1>4. /\ A \o B \in Seq(S)
        /\ Len(A \o B) = Len(A) + Len(B)
        /\ \A i \in 1..(Len(A) + Len(B)) :
              (A \o B)[i] = IF i <= Len(A) THEN A[i] ELSE B[i - Len(A)]
    BY <1>1, <1>2, ConcatProperties
  <1>5. Len(A \o B) = Len(C)
    BY <1>1, <1>2, <1>3, <1>4
  <1>6. ASSUME NEW i \in 1..to
        PROVE  (A \o B)[i] = C[i]
    <2>1. i \in 1..(Len(A) + Len(B))
      BY <1>1, <1>2
    <2>2. CASE i <= middle
      <3>1. i \in 1..middle
        BY <2>2
      <3> QED
        BY <1>1, <1>3, <1>4, <2>1, <2>2, <3>1
    <2>3. CASE ~ (i <= middle)
      <3>1. i - middle \in 1..(to - middle) /\ middle + (i - middle) = i
        BY <2>3
      <3>2. B[i - middle] = [record |-> n, byte |-> i]
        BY <1>2, <3>1
      <3> QED
        BY <1>1, <1>3, <1>4, <2>1, <2>3, <3>2
    <2> QED
      BY <2>2, <2>3
  <1>7. \A i \in 1..Len(A \o B) : (A \o B)[i] = C[i]
    BY <1>3, <1>5, <1>6
  <1>8. A \o B = C
    BY <1>3, <1>4, <1>5, <1>7, SeqEqual
  <1> QED
    BY <1>8 DEF A, B, C

\* A record that starts again, or that goes on, is still a record.
LEMMA RecordFields ==
    ASSUME NEW r \in Records, NEW k \in 0..(RecordSize - 1)
    PROVE  /\ [r EXCEPT !.offset = k] \in Records
           /\ [r EXCEPT !.offset = k].number = r.number
           /\ [r EXCEPT !.offset = k].offset = k
  BY DEF Records

\* The bounds of the model are numbers.
LEMMA NaturalBounds ==
    /\ Newest \in Nat /\ Asides \in Nat /\ DropMax \in Nat /\ RetryDelay \in Nat
    /\ RecordSize \in Nat /\ RecordSize > 0
  <1>1. Newest \in Nat /\ Asides \in Nat /\ DropMax \in Nat /\ RetryDelay \in Nat
    BY SinkAssumption
  <1>2. RecordSize \in Nat \ {0}
    BY SinkAssumption
  <1> QED
    BY <1>1, <1>2

\* They hold the values that the sink starts with or returns to, and nothing
\* that is a record is taken for none.
LEMMA Bounds ==
    /\ 0 \in 0..(RecordSize - 1)
    /\ RetryDelay \in 0..RetryDelay /\ 0 \in 0..RetryDelay
    /\ 0 \in 0..Newest /\ 0 \in 0..Asides /\ 0 \in 0..DropMax
    /\ \A k \in 0..Newest : k # 0 => k \in 1..Newest
    /\ NoLine \notin Nat
    /\ NoRecord \notin Records
  <1>1. /\ 0 \in 0..(RecordSize - 1)
        /\ RetryDelay \in 0..RetryDelay /\ 0 \in 0..RetryDelay
        /\ 0 \in 0..Newest /\ 0 \in 0..Asides /\ 0 \in 0..DropMax
        /\ \A k \in 0..Newest : k # 0 => k \in 1..Newest
    BY NaturalBounds
  <1>2. NoLine \notin Nat
    BY SinkAssumption
  <1>3. NoRecord \notin Records
    <2>1. NoRecord \notin [number : Nat, offset : Nat]
      BY SinkAssumption
    <2>2. Records \subseteq [number : Nat, offset : Nat]
      BY NaturalBounds DEF Records
    <2> QED
      BY <2>1, <2>2
  <1> QED
    BY <1>1, <1>2, <1>3

-----------------------------------------------------------------------------
(* flush_pending() *)

\* Where a write can begin, the consumer holds the beginning of the pending
\* record, up to what the sink counts as written.
LEMMA ConsumerHoldsTheBeginning ==
    ASSUME SinkInv, CanWrite
    PROVE  /\ pending \in Records
           /\ partial = Bytes(pending.number, 0, pending.offset)
  <1>1. pending # NoRecord /\ pending \in Records
    BY DEF SinkInv, SinkTypeOK, CanWrite
  <1>2. CASE link = "up"
    BY <1>1, <1>2 DEF SinkInv, InStep
  <1>3. CASE link = "none"
    <2>1. pending.offset = 0 /\ partial = <<>>
      BY <1>1, <1>3 DEF SinkInv, InStep, FreshLink
    <2>2. pending.number \in Int
      BY <1>1, SinkAssumption DEF Records
    <2> QED
      BY <1>1, <2>1, <2>2, NoBytes
  <1> QED
    BY <1>1, <1>2, <1>3 DEF CanWrite

\* A write of some bytes puts the next bytes of the record behind those the
\* consumer holds.
LEMMA WriteContinues ==
    ASSUME SinkInv, CanWrite, NEW n \in 1..(RecordSize - pending.offset)
    PROVE  /\ pending.offset + n \in 1..RecordSize
           /\ partial \o Bytes(pending.number, pending.offset, pending.offset + n)
                = Bytes(pending.number, 0, pending.offset + n)
  <1> DEFINE k == pending.number
             middle == pending.offset
             to == middle + n
  <1>1. partial = Bytes(k, 0, middle) /\ pending \in Records
    BY ConsumerHoldsTheBeginning
  <1>2. RecordSize \in Nat /\ middle \in 0..(RecordSize - 1)
    BY <1>1, SinkAssumption DEF Records
  <1> HIDE DEF middle
  <1>3. to \in 1..RecordSize /\ middle \in Nat /\ to \in Nat /\ middle <= to
    BY <1>2 DEF middle
  <1> HIDE DEF k, to
  <1>4. Bytes(k, 0, middle) \o Bytes(k, middle, to) = Bytes(k, 0, to)
    BY <1>3, BytesFollow
  <1> QED
    BY <1>1, <1>3, <1>4 DEF k, middle, to

\* Either the record is not finished, or the consumer reads it as the line it is.
LEMMA WriteOutcome ==
    ASSUME SinkInv, NEW n \in 1..(RecordSize - pending.offset), WriteSome(n)
    PROVE  \/ /\ pending' = NoRecord
              /\ partial' = <<>>
              /\ received' = IF pending.number = 0 THEN received ELSE pending.number
           \/ /\ pending' = [pending EXCEPT !.offset = pending.offset + n]
              /\ pending.offset + n \in 0..(RecordSize - 1)
              /\ partial' = Bytes(pending.number, 0, pending.offset + n)
              /\ received' = received
  <1> DEFINE end == pending.offset + n
             read == partial \o Bytes(pending.number, pending.offset, end)
  <1>1. end \in 1..RecordSize /\ read = Bytes(pending.number, 0, end)
    BY WriteContinues DEF WriteSome
  <1>2. CASE end = RecordSize
    <2>1. /\ pending' = NoRecord /\ partial' = <<>>
          /\ received' = Line(read, pending.number)
      BY <1>2 DEF WriteSome
    <2>2. Line(read, pending.number) = IF pending.number = 0 THEN received ELSE pending.number
      BY <1>1, <1>2 DEF Line
    <2> QED
      BY <2>1, <2>2
  <1>3. CASE end # RecordSize
    <2>1. end \in 0..(RecordSize - 1)
      BY <1>1, <1>3, SinkAssumption
    <2>2. /\ pending' = [pending EXCEPT !.offset = end] /\ partial' = read
          /\ received' = received
      BY <1>3 DEF WriteSome
    <2> QED
      BY <1>1, <2>1, <2>2
  <1> QED
    BY <1>2, <1>3

\* What a write changes keeps the invariant.
LEMMA WriteSomeKeeps ==
    ASSUME SinkInv, NEW n \in 1..(RecordSize - pending.offset), WriteSome(n),
           UNCHANGED <<caller, peer>>,
           call' \in {"none", "first flush", "store", "second flush"}
    PROVE  SinkInv'
  <1>1. /\ link' = "up" /\ retryIn' = retryIn /\ dropped' = dropped
        /\ line' = line /\ newest' = newest /\ asides' = asides /\ peer' = peer
        /\ pending # NoRecord
    BY DEF WriteSome, CanWrite, caller
  <1>2. /\ pending \in Records
        /\ received \in 1..Newest \cup {NoLine}
        /\ newest \in 0..Newest
    BY <1>1 DEF SinkInv, SinkTypeOK
  <1>4. CASE /\ pending' = NoRecord
             /\ partial' = <<>>
             /\ received' = IF pending.number = 0 THEN received ELSE pending.number
    <2>1. received' \in 1..Newest \cup {NoLine}
      <3>1. pending.number \in 0..Newest
        BY <1>2 DEF Records
      <3> QED
        BY <1>2, <1>4, <3>1, Bounds
    <2>2. SinkTypeOK'
      BY <1>1, <1>4, <2>1 DEF SinkInv, SinkTypeOK
    <2>3. InStep' /\ FreshLink'
      BY <1>1, <1>4 DEF InStep, FreshLink
    <2>4. received' # NoLine => received' <= newest
      BY <1>1, <1>2, <1>4 DEF SinkInv, InOrder
    <2>5. InOrder'
      BY <1>1, <1>4, <2>4 DEF SinkInv, InOrder
    <2> QED
      BY <2>2, <2>3, <2>5 DEF SinkInv
  <1>5. CASE /\ pending' = [pending EXCEPT !.offset = pending.offset + n]
             /\ pending.offset + n \in 0..(RecordSize - 1)
             /\ partial' = Bytes(pending.number, 0, pending.offset + n)
             /\ received' = received
    <2>1. /\ pending' \in Records /\ pending'.number = pending.number
          /\ pending'.offset = pending.offset + n
      BY <1>2, <1>5 DEF Records
    <2>2. pending' # NoRecord
      BY <2>1, Bounds
    <2>3. SinkTypeOK'
      BY <1>1, <1>5, <2>1 DEF SinkInv, SinkTypeOK
    <2>4. InStep'
      BY <1>1, <1>5, <2>1, <2>2 DEF InStep
    <2>5. FreshLink'
      BY <1>1 DEF FreshLink
    <2>6. InOrder'
      BY <1>1, <1>5, <2>1 DEF SinkInv, InOrder
    <2> QED
      BY <2>3, <2>4, <2>5, <2>6 DEF SinkInv
  <1> QED
    BY <1>4, <1>5, WriteOutcome

LEMMA FlushKeeps ==
    ASSUME SinkInv, Flush, UNCHANGED <<caller, peer>>,
           call' \in {"none", "first flush", "store", "second flush"}
    PROVE  SinkInv'
  <1>1. line' = line /\ newest' = newest /\ asides' = asides /\ peer' = peer
    BY DEF caller
  <1>2. CASE NothingPending \/ NotYet
    <2>1. UNCHANGED <<sink, consumer>>
      BY <1>2 DEF NothingPending, NotYet
    <2> QED
      BY <1>1, <2>1 DEF sink, consumer, SinkInv, SinkTypeOK, InStep, FreshLink, InOrder
  <1>3. CASE ReconnectFails
    <2>1. retryIn' \in 0..RetryDelay
      BY <1>3, Bounds DEF ReconnectFails
    <2> QED
      BY <1>1, <1>3, <2>1
      DEF ReconnectFails, consumer, SinkInv, SinkTypeOK, InStep, FreshLink, InOrder
  <1>4. CASE pending # NoRecord /\ \E n \in 1..(RecordSize - pending.offset) : WriteSome(n)
    BY <1>4, WriteSomeKeeps
  <1>5. CASE WriteStalls
    <2>1. /\ partial = Bytes(pending.number, 0, pending.offset)
          /\ link' = "up" /\ retryIn' = retryIn /\ pending' = pending /\ dropped' = dropped
          /\ partial' = partial /\ received' = received /\ pending # NoRecord
      BY <1>5, ConsumerHoldsTheBeginning DEF WriteStalls, consumer, CanWrite
    <2>2. SinkTypeOK'
      BY <1>1, <2>1 DEF SinkInv, SinkTypeOK
    <2>3. InStep' /\ FreshLink' /\ InOrder'
      BY <1>1, <2>1 DEF SinkInv, InStep, FreshLink, InOrder
    <2> QED
      BY <2>2, <2>3 DEF SinkInv
  <1>6. CASE WriteFails
    <2>1. /\ pending \in Records
          /\ link = "broken" /\ link' = "none" /\ retryIn' = RetryDelay /\ dropped' = dropped
          /\ partial' = partial /\ received' = received /\ pending # NoRecord
          /\ pending' = [pending EXCEPT !.offset = 0]
      BY <1>6 DEF SinkInv, SinkTypeOK, WriteFails, consumer
    <2>2. pending' \in Records /\ pending'.number = pending.number /\ pending'.offset = 0
      BY <2>1, Bounds, RecordFields
    <2>3. SinkTypeOK'
      <3>1. retryIn' \in 0..RetryDelay
        BY <2>1, Bounds
      <3> QED
        BY <1>1, <2>1, <2>2, <3>1 DEF SinkInv, SinkTypeOK
    <2>4. InStep' /\ FreshLink'
      BY <2>1, <2>2 DEF SinkInv, InStep, FreshLink
    <2>5. InOrder'
      BY <1>1, <2>1, <2>2 DEF SinkInv, InOrder
    <2> QED
      BY <2>3, <2>4, <2>5 DEF SinkInv
  <1> QED
    BY <1>2, <1>3, <1>4, <1>5, <1>6 DEF Flush

-----------------------------------------------------------------------------
(* The steps *)

LEMMA InitEstablishesSink == Init => SinkInv
  <1> SUFFICES ASSUME Init PROVE SinkInv
    OBVIOUS
  <1>1. SinkTypeOK
    <2>1. link \in {"none", "up", "broken"} /\ peer \in Peers
      BY DEF Init
    <2>2. retryIn \in 0..RetryDelay
      BY Bounds DEF Init
    <2>3. dropped \in 0..DropMax /\ line \in 0..Newest /\ newest \in 0..Newest
          /\ asides \in 0..Asides
      BY Bounds DEF Init
    <2> QED
      BY <2>1, <2>2, <2>3 DEF Init, SinkTypeOK
  <1>2. InStep /\ FreshLink /\ InOrder
    BY DEF Init, InStep, FreshLink, InOrder
  <1> QED
    BY <1>1, <1>2 DEF SinkInv

\* The numbers of what is offered are in their types and no older than newest.
LEMMA CallKeeps ==
    ASSUME SinkInv, Call
    PROVE  SinkInv'
  <1>1. UNCHANGED <<sink, peer, consumer>> /\ call' = "first flush"
    BY DEF Call
  <1>2. newest \in 0..Newest /\ asides \in 0..Asides
    BY DEF SinkInv, SinkTypeOK
  <1>3. newest' \in 0..Newest /\ newest <= newest' /\ asides' \in 0..Asides
    <2>1. CASE OfferNew
      BY <1>2, <2>1, NaturalBounds DEF OfferNew
    <2>2. CASE OfferAgain
      BY <1>2, <2>2, NaturalBounds DEF OfferAgain
    <2>3. CASE OfferAside
      BY <1>2, <2>3, NaturalBounds DEF OfferAside
    <2> QED
      BY <2>1, <2>2, <2>3 DEF Call
  <1>4. line' \in {0, newest'}
    BY DEF Call, OfferNew, OfferAgain, OfferAside
  <1>5. line' \in 0..Newest
    BY <1>3, <1>4, Bounds
  <1>6. SinkTypeOK' /\ InStep' /\ FreshLink'
    BY <1>1, <1>3, <1>5 DEF sink, consumer, SinkInv, SinkTypeOK, InStep, FreshLink
  <1>7. received # NoLine => received <= newest'
    <2> SUFFICES ASSUME received # NoLine PROVE received <= newest'
      OBVIOUS
    <2>1. received \in 1..Newest /\ received <= newest
      BY DEF SinkInv, SinkTypeOK, InOrder
    <2> QED
      BY <1>2, <1>3, <2>1, NaturalBounds
  <1>8. pending # NoRecord => pending.number <= newest'
    <2> SUFFICES ASSUME pending # NoRecord PROVE pending.number <= newest'
      OBVIOUS
    <2>1. pending.number \in 0..Newest /\ pending.number <= newest
      BY DEF SinkInv, SinkTypeOK, InOrder, Records
    <2> QED
      BY <1>2, <1>3, <2>1, NaturalBounds
  <1>9. InOrder'
    BY <1>1, <1>4, <1>7, <1>8 DEF sink, consumer, SinkInv, InOrder
  <1> QED
    BY <1>6, <1>9 DEF SinkInv

LEMMA StoreKeeps ==
    ASSUME SinkInv, Store
    PROVE  SinkInv'
  <1>1. /\ pending = NoRecord /\ pending' = [number |-> line, offset |-> 0]
        /\ call' = "second flush"
        /\ link' = link /\ retryIn' = retryIn /\ dropped' = dropped
        /\ line' = line /\ newest' = newest /\ asides' = asides /\ peer' = peer
        /\ partial' = partial /\ received' = received
    BY DEF Store, caller, consumer
  <1>2. /\ line \in 0..Newest /\ line \in {0, newest} /\ newest \in 0..Newest
        /\ received # NoLine => received <= newest
    BY DEF SinkInv, SinkTypeOK, InOrder
  <1>3. pending' \in Records /\ pending'.number = line /\ pending'.offset = 0
    BY <1>1, <1>2, Bounds DEF Records
  <1>4. SinkTypeOK'
    BY <1>1, <1>3 DEF SinkInv, SinkTypeOK
  <1>5. InStep'
    <2>1. partial = <<>>
      BY <1>1 DEF SinkInv, InStep
    <2>2. Bytes(line, 0, 0) = <<>>
      <3>1. line \in Int
        BY <1>2, Bounds
      <3> QED
        BY <3>1, NoBytes
    <2> QED
      BY <1>1, <1>3, <2>1, <2>2 DEF InStep
  <1>6. FreshLink'
    BY <1>1, <1>3 DEF SinkInv, FreshLink
  <1>7. line <= newest
    BY <1>2, Bounds
  <1>8. InOrder'
    BY <1>1, <1>2, <1>3, <1>7 DEF InOrder
  <1> QED
    BY <1>4, <1>5, <1>6, <1>8 DEF SinkInv

LEMMA DropKeeps ==
    ASSUME SinkInv, Drop
    PROVE  SinkInv'
  <1>1. /\ dropped' = IF dropped < DropMax THEN dropped + 1 ELSE dropped
        /\ call' = "none" /\ link' = link /\ retryIn' = retryIn /\ pending' = pending
        /\ line' = line /\ newest' = newest /\ asides' = asides /\ peer' = peer
        /\ partial' = partial /\ received' = received
    BY DEF Drop, caller, consumer
  <1>2. dropped \in 0..DropMax
    BY DEF SinkInv, SinkTypeOK
  <1>3. dropped' \in 0..DropMax
    BY <1>1, <1>2, NaturalBounds
  <1>4. SinkTypeOK'
    BY <1>1, <1>3 DEF SinkInv, SinkTypeOK
  <1> QED
    BY <1>1, <1>4 DEF SinkInv, InStep, FreshLink, InOrder

\* Where the connection breaks, the consumer's end takes with it all it held.
LEMMA ConsumerMovesKeeps ==
    ASSUME SinkInv, PeerChanges \/ ConnectionBreaks
    PROVE  SinkInv'
  <1>1. /\ retryIn' = retryIn /\ pending' = pending /\ dropped' = dropped /\ call' = call
        /\ line' = line /\ newest' = newest /\ asides' = asides /\ peer' \in Peers
    BY DEF PeerChanges, ConnectionBreaks, caller, SinkInv, SinkTypeOK
  <1>2. CASE LinkBreaks
    BY <1>1, <1>2 DEF LinkBreaks, SinkInv, SinkTypeOK, InStep, FreshLink, InOrder
  <1>3. CASE UNCHANGED <<link, consumer>>
    BY <1>1, <1>3 DEF consumer, SinkInv, SinkTypeOK, InStep, FreshLink, InOrder
  <1> QED
    BY <1>2, <1>3 DEF PeerChanges, ConnectionBreaks

LEMMA ElapseKeeps ==
    ASSUME SinkInv, Elapse
    PROVE  SinkInv'
  <1>1. /\ retryIn > 0 /\ retryIn' = retryIn - 1 /\ retryIn \in 0..RetryDelay
        /\ link' = link /\ pending' = pending /\ dropped' = dropped /\ call' = call
        /\ line' = line /\ newest' = newest /\ asides' = asides /\ peer' = peer
        /\ partial' = partial /\ received' = received
    BY DEF Elapse, caller, consumer, SinkInv, SinkTypeOK
  <1>2. retryIn' \in 0..RetryDelay
    BY <1>1, NaturalBounds
  <1>3. SinkTypeOK'
    BY <1>1, <1>2 DEF SinkInv, SinkTypeOK
  <1> QED
    BY <1>1, <1>3 DEF SinkInv, InStep, FreshLink, InOrder

LEMMA SinkStep == SinkInv /\ [Next]_vars => SinkInv'
  <1> SUFFICES ASSUME SinkInv, [Next]_vars PROVE SinkInv'
    OBVIOUS
  <1>1. CASE FirstFlush
    BY <1>1, FlushKeeps DEF FirstFlush, caller
  <1>2. CASE SecondFlush
    BY <1>2, FlushKeeps DEF SecondFlush, caller
  <1>3. CASE UNCHANGED vars
    BY <1>3 DEF vars, sink, caller, consumer, SinkInv, SinkTypeOK, InStep, FreshLink, InOrder
  <1> QED
    BY <1>1, <1>2, <1>3, CallKeeps, DropKeeps, StoreKeeps, ConsumerMovesKeeps, ElapseKeeps
    DEF Next, Write

LEMMA SinkInvariance == Spec => []SinkInv
  BY InitEstablishesSink, SinkStep, PTL DEF Spec

\* The sink's state stays in its types; the drop counter saturates, and the
\* offset of what is pending stays inside the record (Pending, Sink).
THEOREM SinkTypes == Spec => []SinkTypeOK
  <1>1. SinkInv => SinkTypeOK
    BY DEF SinkInv
  <1> QED
    BY <1>1, SinkInvariance, PTL

\* The unfinished line that the consumer holds is always the part of the
\* pending record that the sink counts as written, wherever the connection
\* breaks and whenever another is opened (flush_pending()).
THEOREM SinkInStep == Spec => []InStep
  <1>1. SinkInv => InStep
    BY DEF SinkInv
  <1> QED
    BY <1>1, SinkInvariance, PTL

-----------------------------------------------------------------------------
(* The lossy feed *)

LEMMA InitIsFeedInit == Init => L!Init
  BY DEF Init, L!Init

\* A write delivers the pending record, which is not older than the last one
\* delivered; every other flush only loses or keeps the connection.
LEMMA FlushIsFeedStep ==
    ASSUME SinkInv, Flush, UNCHANGED <<caller, peer>>
    PROVE  [L!Next]_(L!feed)
  <1>1. newest' = newest /\ peer' = peer
    BY DEF caller
  <1>2. CASE NothingPending \/ NotYet \/ ReconnectFails
    BY <1>1, <1>2 DEF NothingPending, NotYet, ReconnectFails, sink, consumer, L!feed
  <1>3. ASSUME pending # NoRecord, NEW n \in 1..(RecordSize - pending.offset), WriteSome(n)
        PROVE  [L!Next]_(L!feed)
    <2>1. (peer = "reading" /\ link # "broken")' = (peer = "reading" /\ link # "broken")
      BY <1>1, <1>3 DEF WriteSome, CanWrite
    <2>2. CASE received' = received
      BY <1>1, <2>1, <2>2 DEF L!feed
    <2>3. CASE received' = pending.number /\ pending.number # 0
      <3>1. pending.number \in 0..Newest /\ newest \in 0..Newest /\ pending.number <= newest
        BY <1>3 DEF SinkInv, SinkTypeOK, InOrder, Records
      <3>2. received' \in 1..newest
        BY <2>3, <3>1, Bounds
      <3>3. received # NoLine => received <= received'
        BY <1>3, <2>3 DEF SinkInv, InOrder
      <3>4. received # NoLine => received \in 1..Newest
        BY DEF SinkInv, SinkTypeOK
      <3>5. received # NoLine => received' >= received
        BY <3>2, <3>3, <3>4, Bounds
      <3>6. L!Deliver
        BY <1>1, <2>1, <3>2, <3>5 DEF L!Deliver
      <3> QED
        BY <3>6 DEF L!Next
    <2> QED
      BY <1>3, <2>2, <2>3, WriteOutcome
  <1>4. CASE WriteStalls
    BY <1>1, <1>4 DEF WriteStalls, CanWrite, consumer, L!feed
  <1>5. CASE WriteFails
    <2>1. L!Change
      BY <1>1, <1>5 DEF WriteFails, consumer, L!Change
    <2> QED
      BY <2>1 DEF L!Next
  <1> QED
    BY <1>2, <1>3, <1>4, <1>5 DEF Flush

LEMMA StepIsFeedStep == SinkInv /\ [Next]_vars => [L!Next]_(L!feed)
  <1> SUFFICES ASSUME SinkInv, [Next]_vars PROVE [L!Next]_(L!feed)
    OBVIOUS
  <1>1. CASE Call
    <2>1. /\ received' = received
          /\ (peer = "reading" /\ link # "broken")' = (peer = "reading" /\ link # "broken")
      BY <1>1 DEF Call, sink, consumer
    <2>2. CASE OfferNew
      BY <2>1, <2>2 DEF OfferNew, L!Offer, L!Next
    <2>3. CASE OfferAgain \/ OfferAside
      BY <2>1, <2>3 DEF OfferAgain, OfferAside, L!feed
    <2> QED
      BY <1>1, <2>2, <2>3 DEF Call
  <1>2. CASE FirstFlush
    BY <1>2, FlushIsFeedStep DEF FirstFlush
  <1>3. CASE SecondFlush
    BY <1>3, FlushIsFeedStep DEF SecondFlush
  <1>4. CASE Drop \/ Store \/ Elapse
    BY <1>4 DEF Drop, Store, Elapse, caller, consumer, L!feed
  <1>5. CASE PeerChanges \/ ConnectionBreaks
    <2>1. newest' = newest /\ received' \in {received, NoLine}
      BY <1>5 DEF PeerChanges, ConnectionBreaks, LinkBreaks, caller, consumer
    <2>2. L!Change
      BY <2>1 DEF L!Change
    <2> QED
      BY <2>2 DEF L!Next
  <1>6. CASE UNCHANGED vars
    BY <1>6 DEF vars, sink, caller, consumer, L!feed
  <1> QED
    BY <1>1, <1>2, <1>3, <1>4, <1>5, <1>6 DEF Next, Write

\* The safety half of ImplementsLossyFeed: the consumer receives whole records,
\* none of them older than the one before it and none that was not offered.
THEOREM SinkDeliversInOrder == Spec => L!Safety
  BY InitIsFeedInit, StepIsFeedStep, SinkInvariance, PTL DEF Spec, L!Safety

=============================================================================
