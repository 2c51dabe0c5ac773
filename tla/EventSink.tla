----------------------------- MODULE EventSink -----------------------------
(***************************************************************************)
(* The event sink of src/emit/events.rs: records written to a socket that  *)
(* may stall, take part of a record, or break, by a caller that must never *)
(* wait.  One record at most is pending; a record offered while another is *)
(* pending is dropped.                                                     *)
(*                                                                         *)
(* A record is its number and its RecordSize bytes, the last of which is   *)
(* the newline: encode() has already refused the records that are too      *)
(* long.  The wrapper offers a numbered record when the state changes and  *)
(* the same one again at each heartbeat; the records of agents found and   *)
(* lost are offered once and have no number, which is 0 here.              *)
(*                                                                         *)
(* write() flushes what is pending, stores or drops the new record, and    *)
(* flushes again: one action each, since the consumer at the other end     *)
(* moves in between.                                                       *)
(***************************************************************************)
EXTENDS Integers, Sequences

CONSTANTS
    RecordSize,     \* bytes of a record, its newline included
    RetryDelay,     \* time before a failed connection is tried again
    DropMax,        \* u64::MAX, where the drop counter saturates
    Newest,         \* bound: the records offered are numbered up to this
    Asides,         \* bound: so many unnumbered records are offered
    NoRecord,       \* Option::None for the pending record
    NoLine,         \* the consumer has read no numbered record
    Garbled         \* the consumer has read a line that is no record

ASSUME SinkAssumption ==
    /\ RecordSize \in Nat \ {0}
    /\ RetryDelay \in Nat
    /\ DropMax \in Nat
    /\ Newest \in Nat /\ Asides \in Nat
    /\ NoLine \notin Nat /\ Garbled \notin Nat \cup {NoLine}
    /\ NoRecord \notin [number : Nat, offset : Nat]

VARIABLES
    link,           \* Sink.target: none, up, or broken at the other end
    retryIn,        \* time left until retry_at
    pending,        \* Sink.pending
    dropped,        \* Sink.dropped
    call,           \* where the current call of write() stands
    line,           \* the number of the record this call offers
    newest,         \* the number of the newest record offered so far
    asides,         \* the unnumbered records offered so far
    peer,           \* what listens at the path: reading, stalled, or gone
    partial,        \* the unfinished line the consumer holds on this connection
    received        \* the last numbered record it has read on this connection

sink == <<link, retryIn, pending, dropped>>
caller == <<line, newest, asides>>
consumer == <<partial, received>>
vars == <<sink, call, caller, peer, consumer>>

Peers == {"reading", "stalled", "gone"}
Records == [number : 0..Newest, offset : 0..(RecordSize - 1)]

-----------------------------------------------------------------------------
(* The other end of the connection *)

\* The bytes of record n after offset `from`, up to offset `to`.
Bytes(n, from, to) == [i \in 1..(to - from) |-> [record |-> n, byte |-> from + i]]

\* A line is record n if nothing of it is missing and nothing precedes it.
Line(bytes, n) ==
    IF bytes # Bytes(n, 0, RecordSize) THEN Garbled
    ELSE IF n = 0 THEN received
    ELSE n

-----------------------------------------------------------------------------
(* flush_pending() *)

\* With nothing pending it returns at once.
NothingPending ==
    /\ pending = NoRecord
    /\ UNCHANGED <<sink, consumer>>

\* Without a target it waits until the retry delay is over.
NotYet ==
    /\ pending # NoRecord
    /\ link = "none"
    /\ retryIn > 0
    /\ UNCHANGED <<sink, consumer>>

ReconnectFails ==
    /\ pending # NoRecord
    /\ link = "none"
    /\ retryIn = 0
    /\ peer = "gone"
    /\ retryIn' = RetryDelay
    /\ UNCHANGED <<link, pending, dropped, consumer>>

\* A connection is there, or is opened now.
CanWrite ==
    /\ pending # NoRecord
    /\ link = "up" \/ (link = "none" /\ retryIn = 0 /\ peer # "gone")

\* The target takes `n` bytes; with all of them the record is done.
WriteSome(n) ==
    /\ CanWrite
    /\ link' = "up"
    /\ LET end == pending.offset + n
           read == partial \o Bytes(pending.number, pending.offset, end)
       IN  IF end = RecordSize
           THEN /\ pending' = NoRecord
                /\ partial' = <<>>
                /\ received' = Line(read, pending.number)
           ELSE /\ pending' = [pending EXCEPT !.offset = end]
                /\ partial' = read
                /\ UNCHANGED received
    /\ UNCHANGED <<retryIn, dropped>>

\* The target takes nothing: WouldBlock, or a write of no bytes.
WriteStalls ==
    /\ CanWrite
    /\ peer = "stalled"
    /\ link' = "up"
    /\ UNCHANGED <<retryIn, pending, dropped, consumer>>

MutWriteFails ==
    /\ pending # NoRecord
    /\ link = "broken"
    /\ link' = "none"
    /\ retryIn' = RetryDelay
    /\ UNCHANGED <<pending, dropped, consumer>>

\* The target is broken.  A new one cannot continue a record whose beginning
\* went to this one, so the record starts again.
WriteFails ==
    /\ pending # NoRecord
    /\ link = "broken"
    /\ link' = "none"
    /\ pending' = [pending EXCEPT !.offset = 0]
    /\ retryIn' = RetryDelay
    /\ UNCHANGED <<dropped, consumer>>

Flush ==
    \/ NothingPending
    \/ NotYet
    \/ ReconnectFails
    \/ pending # NoRecord /\ \E n \in 1..(RecordSize - pending.offset) : WriteSome(n)
    \/ WriteStalls
    \/ WriteFails

-----------------------------------------------------------------------------
(* write() *)

\* The caller offers a new numbered record, the newest one again, or an
\* unnumbered one.
OfferNew ==
    /\ newest < Newest
    /\ newest' = newest + 1
    /\ line' = newest'
    /\ UNCHANGED asides

OfferAgain ==
    /\ newest > 0
    /\ line' = newest
    /\ UNCHANGED <<newest, asides>>

OfferAside ==
    /\ asides < Asides
    /\ asides' = asides + 1
    /\ line' = 0
    /\ UNCHANGED newest

Call ==
    /\ call = "none"
    /\ OfferNew \/ OfferAgain \/ OfferAside
    /\ call' = "first flush"
    /\ UNCHANGED <<sink, peer, consumer>>

FirstFlush ==
    /\ call = "first flush"
    /\ Flush
    /\ call' = "store"
    /\ UNCHANGED <<caller, peer>>

MutDropWraps ==
    /\ call = "store"
    /\ pending # NoRecord
    /\ dropped' = dropped + 1
    /\ call' = "none"
    /\ UNCHANGED <<link, retryIn, pending, caller, peer, consumer>>

MutDropOlder ==
    /\ call = "store"
    /\ pending # NoRecord
    /\ pending' = [number |-> line, offset |-> 0]
    /\ dropped' = IF dropped < DropMax THEN dropped + 1 ELSE dropped
    /\ call' = "none"
    /\ UNCHANGED <<link, retryIn, caller, peer, consumer>>

\* dropped.saturating_add(1)
Drop ==
    /\ call = "store"
    /\ pending # NoRecord
    /\ dropped' = IF dropped < DropMax THEN dropped + 1 ELSE dropped
    /\ call' = "none"
    /\ UNCHANGED <<link, retryIn, pending, caller, peer, consumer>>

Store ==
    /\ call = "store"
    /\ pending = NoRecord
    /\ pending' = [number |-> line, offset |-> 0]
    /\ call' = "second flush"
    /\ UNCHANGED <<link, retryIn, dropped, caller, peer, consumer>>

SecondFlush ==
    /\ call = "second flush"
    /\ Flush
    /\ call' = "none"
    /\ UNCHANGED <<caller, peer>>

-----------------------------------------------------------------------------
(* The environment *)

\* The consumer's end of the connection is closed, with all it held.
LinkBreaks ==
    /\ link' = "broken"
    /\ partial' = <<>>
    /\ received' = NoLine

\* The consumer stops reading, goes on, ends, or is started again.
PeerChanges ==
    /\ peer' \in Peers \ {peer}
    /\ IF peer' = "gone" /\ link = "up"
       THEN LinkBreaks
       ELSE UNCHANGED <<link, consumer>>
    /\ UNCHANGED <<retryIn, pending, dropped, call, caller>>

\* The consumer closes the connection and goes on listening.
ConnectionBreaks ==
    /\ link = "up"
    /\ LinkBreaks
    /\ UNCHANGED <<retryIn, pending, dropped, call, caller, peer>>

Elapse ==
    /\ retryIn > 0
    /\ retryIn' = retryIn - 1
    /\ UNCHANGED <<link, pending, dropped, call, caller, peer, consumer>>

-----------------------------------------------------------------------------

\* connect() has tried to open the target once.
Init ==
    /\ peer \in Peers
    /\ link = IF peer = "gone" THEN "none" ELSE "up"
    /\ retryIn = IF peer = "gone" THEN RetryDelay ELSE 0
    /\ pending = NoRecord
    /\ dropped = 0
    /\ call = "none"
    /\ line = 0
    /\ newest = 0
    /\ asides = 0
    /\ partial = <<>>
    /\ received = NoLine

Write == FirstFlush \/ Drop \/ Store \/ SecondFlush

Next == Call \/ Write \/ PeerChanges \/ ConnectionBreaks \/ Elapse

\* A call runs to its end, heartbeats make calls for ever once a state was
\* published, and time passes.  A consumer that reads makes room before a flush,
\* so only a stalled one makes a flush write nothing.
Fairness == WF_vars(newest > 0 /\ Call) /\ WF_vars(Write) /\ WF_vars(Elapse)

Spec == Init /\ [][Next]_vars /\ Fairness

-----------------------------------------------------------------------------

SinkTypeOK ==
    /\ link \in {"none", "up", "broken"}
    /\ retryIn \in 0..RetryDelay
    /\ pending \in Records \cup {NoRecord}
    /\ dropped \in 0..DropMax
    /\ call \in {"none", "first flush", "store", "second flush"}
    /\ line \in 0..Newest /\ newest \in 0..Newest /\ asides \in 0..Asides
    /\ peer \in Peers
    /\ received \in 1..Newest \cup {NoLine}

\* What the consumer holds of an unfinished line is exactly the part of the
\* pending record that the sink counts as written: a connection that breaks in
\* the middle of a record and the reconnect after it do not put the two out of
\* step (flush_pending()).
InStep ==
    partial = IF pending = NoRecord \/ link # "up" THEN <<>>
              ELSE Bytes(pending.number, 0, pending.offset)

\* The sink delivers whole records only, in order, and a consumer that stays
\* connected and reads learns the newest state, however many records were
\* dropped before, because heartbeats offer it again.
L == INSTANCE LossyFeed WITH
        None <- NoLine,
        healthy <- peer = "reading" /\ link # "broken"

ImplementsLossyFeed == L!Spec
=============================================================================
