-------------------------- MODULE UploadCycleProofs --------------------------
(***************************************************************************)
(* Proofs about UploadCycle, for every capacity, upload limit, set of      *)
(* modes, commands and faults and every bound.                             *)
(*                                                                         *)
(* First the calls of the queue: each makes a store that Follows the one   *)
(* before it, so a record keeps its sequence as long as it is live.  Then  *)
(* IInv, whose parts hold whatever call fails: types, limits, the pending  *)
(* upload.  Last Sound, which relates the sequences in flight on the two   *)
(* links to the records they were read from and to what each destination   *)
(* has received; it gives the two action properties.                       *)
(***************************************************************************)
EXTENDS UploadCycle, SequenceTheorems, FiniteSetTheorems, TLAPS

\* The sequences of the live records and the cycles that measured them.
Base(s) == s.nextSequence - Len(s.queue)
Live(s) == Base(s) .. s.nextSequence - 1
CycleAt(s, q) == s.queue[q - Base(s) + 1].cycle

Record == [cycle : Cycle, readable : BOOLEAN]

Proper(s) ==
    /\ s \in Store /\ Len(s.queue) <= Capacity /\ Len(s.queue) < s.nextSequence
    /\ \A d \in Destination : s.cursor[d] < s.nextSequence

(***************************************************************************)
(* t is what calls of the queue may make of s: records leave at the head   *)
(* and arrive behind the last one.                                         *)
(***************************************************************************)
Follows(s, t) ==
    /\ Proper(t) /\ t.ready = s.ready
    /\ t.nextSequence >= s.nextSequence /\ t.dropped >= s.dropped
    /\ \A q \in Live(t) : q < s.nextSequence => q \in Live(s) /\ CycleAt(t, q) = CycleAt(s, q)

\* The same, with the same sequences and cursors.
Shrinks(s, t) ==
    /\ Follows(s, t)
    /\ t.nextSequence = s.nextSequence /\ t.cursor = s.cursor /\ t.dropped = s.dropped
    /\ Base(t) >= Base(s)

\* Only what destinations of the mask have is gone.
Trims(s, t, mask) ==
    Shrinks(s, t) /\ \A q \in Live(s) \ Live(t) : \A d \in mask : q <= s.cursor[d]

SameRecords(s, t) == Shrinks(s, t) /\ Base(t) = Base(s)

\* Only cursors differ.
SameQueue(s, t) ==
    /\ t.queue = s.queue /\ t.ready = s.ready /\ t.nextSequence = s.nextSequence
    /\ t.dropped = s.dropped

\* The head may be dropped for one more record, the one of this cycle.
Enqueues(s, t) ==
    /\ Follows(s, t) /\ s.ready
    /\ t.nextSequence = s.nextSequence + 1 /\ t.cursor = s.cursor
    /\ s.nextSequence \in Live(t) /\ CycleAt(t, s.nextSequence) = cycle
    /\ \A q \in Live(s) \ Live(t) : q = Base(s) /\ t.dropped > s.dropped

-----------------------------------------------------------------------------
(* The store and its live records. *)

LEMMA StoreFacts ==
    ASSUME NEW s, Proper(s)
    PROVE  /\ s.queue \in Seq(Record) /\ Len(s.queue) \in Nat
           /\ s.nextSequence \in Nat \ {0} /\ s.dropped \in Nat /\ s.ready \in BOOLEAN
           /\ s.cursor \in [Destination -> Nat]
           /\ Base(s) \in Nat \ {0} /\ s.nextSequence = Base(s) + Len(s.queue)
           /\ DOMAIN s.queue = 1 .. Len(s.queue)
           /\ \A i \in 1 .. Len(s.queue) : s.queue[i] \in Record
<1>1. /\ s.queue \in Seq(Record) /\ s.nextSequence \in Nat \ {0} /\ s.dropped \in Nat
      /\ s.ready \in BOOLEAN /\ s.cursor \in [Destination -> Nat]
      /\ Len(s.queue) < s.nextSequence
  BY DEF Proper, Store, Record
<1>2. Len(s.queue) \in Nat /\ DOMAIN s.queue = 1 .. Len(s.queue)
  BY <1>1
<1>3. \A i \in 1 .. Len(s.queue) : s.queue[i] \in Record
  BY <1>1
<1> QED BY <1>1, <1>2, <1>3 DEF Base

LEMMA LiveFacts ==
    ASSUME NEW s, Proper(s)
    PROVE  /\ \A q \in Live(s) : /\ q \in Nat \ {0} /\ q - Base(s) + 1 \in 1 .. Len(s.queue)
                                 /\ CycleAt(s, q) \in Cycle
           /\ \A i \in 1 .. Len(s.queue) : /\ SequenceAt(s, i) = Base(s) + i - 1
                                           /\ SequenceAt(s, i) \in Live(s)
                                           /\ CycleAt(s, SequenceAt(s, i)) = s.queue[i].cycle
           /\ s.queue = <<>> <=> Live(s) = {}
<1>1. /\ Len(s.queue) \in Nat /\ s.nextSequence \in Nat /\ Base(s) \in Nat \ {0}
      /\ Base(s) = s.nextSequence - Len(s.queue) /\ s.queue \in Seq(Record)
      /\ \A i \in 1 .. Len(s.queue) : s.queue[i] \in Record
  BY StoreFacts DEF Base
<1>2. ASSUME NEW q \in Live(s)
      PROVE  /\ q \in Nat \ {0} /\ q - Base(s) + 1 \in 1 .. Len(s.queue)
             /\ CycleAt(s, q) \in Cycle
  <2>1. q \in Nat \ {0} /\ q - Base(s) + 1 \in 1 .. Len(s.queue)
    BY <1>1, <1>2 DEF Live
  <2> QED BY <1>1, <2>1 DEF CycleAt, Record
<1>3. ASSUME NEW i \in 1 .. Len(s.queue)
      PROVE  /\ SequenceAt(s, i) = Base(s) + i - 1
             /\ SequenceAt(s, i) \in Live(s)
             /\ CycleAt(s, SequenceAt(s, i)) = s.queue[i].cycle
  <2>1. SequenceAt(s, i) = Base(s) + i - 1 /\ SequenceAt(s, i) \in Live(s)
    BY <1>1, <1>3 DEF Live, SequenceAt
  <2>2. SequenceAt(s, i) - Base(s) + 1 = i
    BY <1>1, <2>1
  <2> QED BY <2>1, <2>2 DEF CycleAt
<1>4. s.queue = <<>> <=> Live(s) = {}
  <2>1. s.queue = <<>> <=> Len(s.queue) = 0
    BY <1>1, EmptySeq
  <2>2. Len(s.queue) = 0 <=> Live(s) = {}
    <3>1. CASE Len(s.queue) = 0
      BY <1>1, <3>1 DEF Live
    <3>2. CASE Len(s.queue) > 0
      <4>1. Base(s) \in Live(s)
        BY <1>1, <3>2 DEF Live
      <4> QED BY <3>2, <4>1
    <3> QED BY <1>1, <3>1, <3>2
  <2> QED BY <2>1, <2>2
<1> QED BY <1>2, <1>3, <1>4

LEMMA QueuedIsLive ==
    ASSUME NEW s, Proper(s)
    PROVE  Queued(s) = {CycleAt(s, q) : q \in Live(s)}
<1>1. DOMAIN s.queue = 1 .. Len(s.queue)
  BY StoreFacts
<1>2. ASSUME NEW i \in 1 .. Len(s.queue)
      PROVE  \E q \in Live(s) : CycleAt(s, q) = s.queue[i].cycle
  BY LiveFacts
<1>3. ASSUME NEW q \in Live(s)
      PROVE  \E i \in 1 .. Len(s.queue) : CycleAt(s, q) = s.queue[i].cycle
  <2>1. q - Base(s) + 1 \in 1 .. Len(s.queue)
    BY LiveFacts
  <2> QED BY <2>1 DEF CycleAt
<1> QED BY <1>1, <1>2, <1>3 DEF Queued

LEMMA FollowsItself ==
    ASSUME NEW s, Proper(s)
    PROVE  SameRecords(s, s) /\ Follows(s, s) /\ \A mask : Trims(s, s, mask)
BY StoreFacts DEF SameRecords, Shrinks, Follows, Trims

LEMMA FollowsTransitive ==
    ASSUME NEW s, NEW t, NEW u, Proper(s), Follows(s, t), Follows(t, u)
    PROVE  Follows(s, u)
<1>1. /\ Proper(t) /\ Proper(u)
      /\ s.nextSequence \in Nat /\ t.nextSequence \in Nat /\ u.nextSequence \in Nat
      /\ s.dropped \in Nat /\ t.dropped \in Nat /\ u.dropped \in Nat
  BY StoreFacts DEF Follows
<1>2. ASSUME NEW q \in Live(u), q < s.nextSequence
      PROVE  q \in Live(s) /\ CycleAt(u, q) = CycleAt(s, q)
  <2>1. q \in Nat
    BY <1>1, <1>2, LiveFacts
  <2>2. q \in Live(t) /\ CycleAt(u, q) = CycleAt(t, q)
    BY <1>1, <1>2, <2>1 DEF Follows
  <2> QED BY <1>2, <2>2 DEF Follows
<1> QED BY <1>1, <1>2 DEF Follows

-----------------------------------------------------------------------------
(* The calls of the queue. *)

LEMMA SubSeqOf ==
    ASSUME NEW S, NEW z \in Seq(S), NEW n \in 0 .. Len(z)
    PROVE  /\ SubSeq(z, n + 1, Len(z)) \in Seq(S)
           /\ Len(SubSeq(z, n + 1, Len(z))) = Len(z) - n
           /\ \A i \in 1 .. Len(z) - n : SubSeq(z, n + 1, Len(z))[i] = z[i + n]
<1>1. /\ n + 1 \in Int /\ Len(z) \in Int /\ Len(z) \in Nat
      /\ \A i \in n + 1 .. Len(z) : z[i] \in S
  OBVIOUS
<1>2. /\ SubSeq(z, n + 1, Len(z)) \in Seq(S)
      /\ Len(SubSeq(z, n + 1, Len(z))) = IF n + 1 <= Len(z) THEN Len(z) - (n + 1) + 1 ELSE 0
      /\ \A i \in 1 .. Len(z) - (n + 1) + 1 : SubSeq(z, n + 1, Len(z))[i] = z[(n + 1) + i - 1]
  BY <1>1, SubSeqProperties
<1>3. \A i \in 1 .. Len(z) - n : SubSeq(z, n + 1, Len(z))[i] = z[(n + 1) + i - 1] /\ (n + 1) + i - 1 = i + n
  BY <1>1, <1>2
<1> QED BY <1>1, <1>2, <1>3

LEMMA SuffixFollows ==
    ASSUME NEW s, Proper(s), NEW n \in 0 .. Len(s.queue),
           NEW t, t \in Store, t.ready = s.ready, t.nextSequence = s.nextSequence,
           t.cursor = s.cursor, t.dropped >= s.dropped, Len(t.queue) = Len(s.queue) - n,
           \A i \in 1 .. Len(s.queue) - n : t.queue[i].cycle = s.queue[i + n].cycle
    PROVE  Follows(s, t) /\ Base(t) = Base(s) + n
<1>1. /\ Len(s.queue) \in Nat /\ s.nextSequence \in Nat /\ Base(s) \in Nat
      /\ s.nextSequence = Base(s) + Len(s.queue)
  BY StoreFacts
<1>2. Proper(t)
  <2>1. /\ Len(s.queue) <= Capacity /\ Len(s.queue) < s.nextSequence /\ Capacity \in Nat
        /\ \A d \in Destination : s.cursor[d] < s.nextSequence
    BY UploadAssumption DEF Proper
  <2>2. /\ Len(s.queue) \in Nat /\ n \in Nat /\ s.nextSequence \in Nat
        /\ Len(t.queue) = Len(s.queue) - n /\ t.nextSequence = s.nextSequence
    BY <1>1
  <2>3. Len(t.queue) <= Capacity /\ Len(t.queue) < t.nextSequence
    BY ONLY <2>1, <2>2
  <2>4. \A d \in Destination : t.cursor[d] < t.nextSequence
    BY <2>1
  <2> QED BY <2>3, <2>4 DEF Proper
<1>3. Base(t) = Base(s) + n
  <2>1. Base(t) = (Base(s) + Len(s.queue)) - (Len(s.queue) - n)
    BY <1>1 DEF Base
  <2> QED BY <1>1, <2>1
<1>4. ASSUME NEW q \in Live(t)
      PROVE  q \in Live(s) /\ CycleAt(t, q) = CycleAt(s, q)
  <2>1. /\ q \in Int /\ Base(s) \in Int /\ n \in Nat /\ Len(s.queue) \in Int
        /\ q >= Base(s) + n /\ q <= Base(s) + Len(s.queue) - 1
    BY <1>1, <1>3, <1>4 DEF Live
  <2>2. q \in Base(s) .. Base(s) + Len(s.queue) - 1
    BY ONLY <2>1
  <2>3. /\ q - (Base(s) + n) + 1 \in 1 .. Len(s.queue) - n
        /\ q - (Base(s) + n) + 1 + n = q - Base(s) + 1
    BY ONLY <2>1
  <2>4. t.queue[q - Base(t) + 1].cycle = s.queue[q - Base(s) + 1].cycle
    BY <1>3, <2>3
  <2> QED BY <1>1, <2>2, <2>4 DEF Live, CycleAt
<1> QED BY <1>1, <1>2, <1>3, <1>4 DEF Follows

LEMMA ShortenedShrinks ==
    ASSUME NEW s, Proper(s), NEW n \in 0 .. Len(s.queue)
    PROVE  Shrinks(s, Shortened(s, n)) /\ Base(Shortened(s, n)) = Base(s) + n
<1> DEFINE t == Shortened(s, n)
<1>1. s.queue \in Seq(Record) /\ s.dropped \in Nat /\ Base(s) \in Nat
  BY StoreFacts
<1>2. /\ t.queue = SubSeq(s.queue, n + 1, Len(s.queue))
      /\ t.ready = s.ready /\ t.nextSequence = s.nextSequence /\ t.dropped = s.dropped
      /\ t.cursor = s.cursor
  BY DEF Shortened, Proper, Store
<1>3. /\ t.queue \in Seq(Record) /\ Len(t.queue) = Len(s.queue) - n
      /\ \A i \in 1 .. Len(s.queue) - n : t.queue[i] = s.queue[i + n]
  BY <1>1, <1>2, SubSeqOf
<1>4. t \in Store
  BY <1>2, <1>3 DEF Shortened, Proper, Store, Record
<1> HIDE DEF t
<1>5. Follows(s, t) /\ Base(t) = Base(s) + n
  <2>1. t.dropped >= s.dropped
    BY <1>1, <1>2
  <2>2. \A i \in 1 .. Len(s.queue) - n : t.queue[i].cycle = s.queue[i + n].cycle
    BY <1>3
  <2> QED BY <1>2, <1>3, <1>4, <2>1, <2>2, SuffixFollows
<1>6. Shrinks(s, t)
  BY <1>1, <1>2, <1>5 DEF Shrinks
<1> QED BY <1>5, <1>6 DEF t

\* trimDeliveredRecords stops at the first record that is unreadable or missing somewhere.
LEMMA TrimmableIsPrefix ==
    ASSUME NEW s, Proper(s), NEW mask
    PROVE  /\ Trimmable(s, mask) \in 0 .. Len(s.queue)
           /\ \A i \in 1 .. Trimmable(s, mask) : DeliveredTo(s, i, mask)
<1> DEFINE Stops(n) == \A i \in 1 .. n : s.queue[i].readable /\ DeliveredTo(s, i, mask)
           Prefixes == {n \in 0 .. Len(s.queue) : Stops(n)}
           c == Cardinality(Prefixes)
           Fits(n) == n \in 0 .. Len(s.queue) /\ Stops(n) /\ (n = Len(s.queue) \/ ~Stops(n + 1))
<1>1. Len(s.queue) \in Nat
  BY StoreFacts
<1>2. Stops(0) /\ \A n \in Nat, m \in Nat : Stops(n) /\ m <= n => Stops(m)
  OBVIOUS
<1> HIDE DEF Stops
<1>3. /\ IsFiniteSet(Prefixes) /\ c \in Nat
      /\ \A T \in SUBSET Prefixes : Cardinality(T) <= c
  <2>1. IsFiniteSet(0 .. Len(s.queue)) /\ Prefixes \in SUBSET (0 .. Len(s.queue))
    BY <1>1, FS_Interval
  <2>2. IsFiniteSet(Prefixes)
    BY <2>1, FS_Subset
  <2> QED BY <2>2, FS_Subset, FS_CardinalityType
<1>4. c > 0
  <2>1. 0 \in Prefixes
    BY <1>1, <1>2
  <2> QED BY <1>3, <2>1, FS_EmptySet
<1> HIDE DEF c
<1>5. c - 1 \in Prefixes
  <2> SUFFICES ASSUME c - 1 \notin Prefixes PROVE FALSE
    OBVIOUS
  <2>1. ASSUME NEW n \in Prefixes PROVE n \in 0 .. c - 2
    <3>1. n \in Nat /\ n <= Len(s.queue) /\ Stops(n) /\ c - 1 \in Nat
      BY <1>1, <1>3, <1>4, <2>1
    <3>2. CASE n >= c - 1
      <4>1. Stops(c - 1) /\ c - 1 \in 0 .. Len(s.queue)
        BY <1>1, <1>2, <3>1, <3>2
      <4> QED BY <4>1
    <3>3. CASE n < c - 1
      BY <1>3, <3>1, <3>3
    <3> QED BY <1>3, <3>1, <3>2, <3>3
  <2>2. PICK b \in Int : b = c - 2
    BY <1>3
  <2>3. IsFiniteSet(0 .. b) /\ Cardinality(0 .. b) = IF 0 > b THEN 0 ELSE b - 0 + 1
    BY FS_Interval
  <2>4. Prefixes \in SUBSET (0 .. b)
    BY <2>1, <2>2
  <2>5. c <= Cardinality(0 .. b)
    BY <2>3, <2>4, FS_Subset DEF c
  <2> QED BY <1>3, <1>4, <2>2, <2>3, <2>5
<1>6. c \notin Prefixes
  <2> SUFFICES ASSUME c \in Prefixes PROVE FALSE
    OBVIOUS
  <2>1. Stops(c) /\ c \in 0 .. Len(s.queue)
    OBVIOUS
  <2>2. ASSUME NEW n \in 0 .. c PROVE n \in Prefixes
    BY <1>1, <1>2, <1>3, <2>1
  <2>3. IsFiniteSet(0 .. c) /\ Cardinality(0 .. c) = IF 0 > c THEN 0 ELSE c - 0 + 1
    BY <1>3, FS_Interval
  <2>4. Cardinality(0 .. c) <= c
    BY <1>3, <2>2
  <2> QED BY <1>3, <2>3, <2>4
<1>7. Fits(c - 1)
  <2>1. c - 1 \in 0 .. Len(s.queue) /\ Stops(c - 1)
    BY <1>5
  <2>2. c - 1 = Len(s.queue) \/ ~Stops(c)
    BY <1>1, <1>3, <1>6, <2>1
  <2>3. (c - 1) + 1 = c
    BY <1>3
  <2> QED BY <2>1, <2>2, <2>3
<1> HIDE DEF Prefixes
<1>8. Trimmable(s, mask) = CHOOSE n \in 0 .. Len(s.queue) : Stops(n) /\ (n = Len(s.queue) \/ ~Stops(n + 1))
  BY DEF Trimmable, Stops
<1>9. Fits(Trimmable(s, mask))
  BY <1>7, <1>8
<1> QED BY <1>9 DEF Stops

LEMMA TrimmedTrims ==
    ASSUME NEW s, Proper(s), NEW mask,
           NEW t \in {Trimmed(s, mask)} \cup TrimFailures(s, mask)
    PROVE  Trims(s, t, mask)
<1>1. /\ Trimmable(s, mask) \in 0 .. Len(s.queue)
      /\ \A i \in 1 .. Trimmable(s, mask) : DeliveredTo(s, i, mask)
  BY TrimmableIsPrefix
<1>2. /\ Len(s.queue) \in Nat /\ Base(s) \in Nat
      /\ s.nextSequence = Base(s) + Len(s.queue)
  BY StoreFacts
<1>3. PICK n \in 0 .. Trimmable(s, mask) : t = Shortened(s, n)
  BY <1>1 DEF Trimmed, TrimFailures
<1>4. n \in 0 .. Len(s.queue)
  BY <1>1, <1>2
<1>5. Shrinks(s, t) /\ Base(t) = Base(s) + n
  BY <1>3, <1>4, ShortenedShrinks
<1>6. ASSUME NEW q \in Live(s) \ Live(t), NEW d \in mask
      PROVE  q <= s.cursor[d]
  <2>1. q \in Int /\ q >= Base(s) /\ q <= Base(s) + n - 1
    <3>1. q \in Live(s) /\ q \notin Live(t) /\ t.nextSequence = s.nextSequence
      BY <1>5 DEF Shrinks
    <3> QED BY <1>2, <1>5, <3>1 DEF Live
  <2>2. q - Base(s) + 1 \in 1 .. Trimmable(s, mask) /\ q - Base(s) + 1 \in 1 .. Len(s.queue)
    BY <1>1, <1>2, <2>1
  <2>3. SequenceAt(s, q - Base(s) + 1) = Base(s) + (q - Base(s) + 1) - 1
    BY <2>2, LiveFacts
  <2>4. Base(s) + (q - Base(s) + 1) - 1 = q
    BY <1>2, <2>1
  <2> QED BY <1>1, <2>2, <2>3, <2>4 DEF DeliveredTo
<1> QED BY <1>5, <1>6 DEF Trims

LEMMA ReconcileTrims ==
    ASSUME NEW s, Proper(s), NEW mask, NEW t \in ReconcileOutcomes(s, mask)
    PROVE  Trims(s, t, mask)
BY TrimmedTrims, FollowsItself DEF ReconcileOutcomes

LEMMA RoomFollows ==
    ASSUME NEW s, Proper(s)
    PROVE  /\ Follows(s, WithRoom(s))
           /\ WithRoom(s).nextSequence = s.nextSequence /\ WithRoom(s).cursor = s.cursor
           /\ Len(WithRoom(s).queue) < Capacity
           /\ \A q \in Live(s) \ Live(WithRoom(s)) :
                  q = Base(s) /\ WithRoom(s).dropped > s.dropped
<1>1. /\ s.queue \in Seq(Record) /\ Len(s.queue) \in Nat /\ s.dropped \in Nat
      /\ Len(s.queue) <= Capacity /\ Capacity \in Nat \ {0}
      /\ Base(s) \in Nat /\ s.nextSequence = Base(s) + Len(s.queue)
  BY StoreFacts, UploadAssumption DEF Proper
<1>2. CASE Len(s.queue) # Capacity
  BY <1>1, <1>2, FollowsItself DEF WithRoom
<1>3. CASE Len(s.queue) = Capacity
  <2> DEFINE t == HeadDropped(s)
  <2>1. /\ t.queue = Tail(s.queue) /\ t.ready = s.ready /\ t.nextSequence = s.nextSequence
        /\ t.cursor = s.cursor /\ t.dropped = s.dropped + 1
    BY DEF HeadDropped, Proper, Store
  <2>2. /\ t.queue \in Seq(Record) /\ Len(t.queue) = Len(s.queue) - 1
        /\ \A i \in 1 .. Len(s.queue) - 1 : t.queue[i] = s.queue[i + 1]
    <3>1. s.queue # <<>>
      BY <1>1, <1>3
    <3> QED BY <1>1, <2>1, <3>1, HeadTailProperties
  <2>3. t \in Store
    <3>1. s.dropped + 1 \in Nat
      BY <1>1
    <3>2. t.queue \in Seq([cycle : Cycle, readable : BOOLEAN])
      BY <2>2 DEF Record
    <3> QED BY <2>1, <3>1, <3>2 DEF HeadDropped, Proper, Store
  <2> HIDE DEF t
  <2>4. 1 \in 0 .. Len(s.queue) /\ t.dropped >= s.dropped /\ t.dropped > s.dropped
    BY <1>1, <1>3, <2>1
  <2>5. Follows(s, t) /\ Base(t) = Base(s) + 1
    BY <2>1, <2>2, <2>3, <2>4, SuffixFollows
  <2>6. \A q \in Live(s) \ Live(t) : q = Base(s)
    BY <1>1, <2>1, <2>5 DEF Live
  <2>7. Len(t.queue) < Capacity
    BY <1>1, <1>3, <2>2
  <2> QED BY <1>3, <2>1, <2>4, <2>5, <2>6, <2>7 DEF WithRoom, t
<1> QED BY <1>2, <1>3

LEMMA AddedEnqueues ==
    ASSUME NEW s, Proper(s), s.ready, cycle \in Cycle
    PROVE  Enqueues(s, Added(s))
<1> DEFINE w == WithRoom(s)
           r == [cycle |-> cycle, readable |-> TRUE]
           t == Added(s)
<1>1. /\ Follows(s, w) /\ w.nextSequence = s.nextSequence /\ w.cursor = s.cursor
      /\ Len(w.queue) < Capacity
      /\ \A q \in Live(s) \ Live(w) : q = Base(s) /\ w.dropped > s.dropped
  BY RoomFollows
<1> HIDE DEF w
<1>2. Proper(w) /\ w.ready = s.ready /\ w.dropped >= s.dropped
  BY <1>1 DEF Follows
<1>3. /\ w.queue \in Seq(Record) /\ Len(w.queue) \in Nat /\ w.dropped \in Nat
      /\ w.nextSequence \in Nat \ {0}
      /\ Base(w) \in Nat \ {0} /\ w.nextSequence = Base(w) + Len(w.queue)
      /\ w.cursor \in [Destination -> Nat]
  BY <1>2, StoreFacts
<1>4. /\ t.queue = Append(w.queue, r) /\ t.ready = w.ready
      /\ t.nextSequence = w.nextSequence + 1 /\ t.dropped = w.dropped /\ t.cursor = w.cursor
      /\ t = [ready |-> w.ready, queue |-> Append(w.queue, r),
              nextSequence |-> w.nextSequence + 1, dropped |-> w.dropped, cursor |-> w.cursor]
  <2>1. w \in Store
    BY <1>2 DEF Proper
  <2>2. t = [w EXCEPT !.queue = Append(@, r), !.nextSequence = @ + 1]
    BY DEF Added, w
  <2> HIDE DEF t, r
  <2> QED BY <2>1, <2>2 DEF Store
<1>5. r \in Record /\ r.cycle = cycle
  BY DEF Record
<1> HIDE DEF r
<1>6. /\ t.queue \in Seq(Record) /\ Len(t.queue) = Len(w.queue) + 1
      /\ \A i \in 1 .. Len(w.queue) : t.queue[i] = w.queue[i]
      /\ t.queue[Len(w.queue) + 1] = r
  BY <1>3, <1>4, <1>5
<1>7. t \in Store
  <2>1. w.ready \in BOOLEAN /\ w.nextSequence + 1 \in Nat \ {0}
    BY <1>2, <1>3, StoreFacts
  <2> QED BY <1>3, <1>4, <1>6, <2>1 DEF Store, Record
<1> HIDE DEF t
<1>8. Base(t) = Base(w)
  <2>1. Base(t) = (Base(w) + Len(w.queue) + 1) - (Len(w.queue) + 1)
    BY <1>3, <1>4, <1>6 DEF Base
  <2> QED BY <1>3, <2>1
<1>9. Proper(t)
  <2>1. Capacity \in Nat /\ Len(w.queue) < w.nextSequence
    BY <1>2, UploadAssumption DEF Proper
  <2>2. /\ Len(w.queue) \in Nat /\ w.nextSequence \in Nat /\ Len(w.queue) < Capacity
        /\ Len(t.queue) = Len(w.queue) + 1 /\ t.nextSequence = w.nextSequence + 1
    BY <1>1, <1>3, <1>4, <1>6
  <2>3. Len(t.queue) <= Capacity /\ Len(t.queue) < t.nextSequence
    BY ONLY <2>1, <2>2
  <2>4. ASSUME NEW d \in Destination PROVE t.cursor[d] < t.nextSequence
    <3>1. w.cursor[d] \in Nat /\ w.cursor[d] < w.nextSequence /\ t.cursor[d] = w.cursor[d]
      BY <1>2, <1>3, <1>4 DEF Proper
    <3> QED BY ONLY <2>2, <3>1
  <2> QED BY <1>7, <2>3, <2>4 DEF Proper
<1>10. /\ \A q \in Live(w) : q \in Live(t) /\ CycleAt(t, q) = CycleAt(w, q)
       /\ Live(t) = Live(w) \cup {s.nextSequence} /\ CycleAt(t, s.nextSequence) = cycle
  <2>1. ASSUME NEW q \in Live(w) PROVE q \in Live(t) /\ CycleAt(t, q) = CycleAt(w, q)
    <3>1. q - Base(w) + 1 \in 1 .. Len(w.queue)
      BY <1>2, LiveFacts
    <3>2. q \in Live(t)
      BY <1>3, <1>4, <1>8 DEF Live
    <3> QED BY <1>6, <1>8, <3>1, <3>2 DEF CycleAt
  <2>2. Live(t) = Live(w) \cup {s.nextSequence}
    BY <1>1, <1>3, <1>4, <1>8 DEF Live
  <2>3. s.nextSequence - Base(t) + 1 = Len(w.queue) + 1
    BY <1>1, <1>3, <1>8
  <2> QED BY <1>5, <1>6, <2>1, <2>2, <2>3 DEF CycleAt
<1>11. Follows(s, t)
  <2>1. s.nextSequence \in Nat /\ s.dropped \in Nat
    BY StoreFacts
  <2>2. ASSUME NEW q \in Live(t), q < s.nextSequence
        PROVE  q \in Live(s) /\ CycleAt(t, q) = CycleAt(s, q)
    <3>1. q \in Live(w)
      BY <1>10, <2>1, <2>2
    <3> QED BY <1>1, <1>10, <2>2, <3>1 DEF Follows
  <2>3. t.ready = s.ready /\ t.dropped >= s.dropped
    BY <1>2, <1>4
  <2>4. t.nextSequence >= s.nextSequence
    BY <1>1, <1>4, <2>1
  <2> QED BY <1>9, <2>2, <2>3, <2>4 DEF Follows
<1>12. \A q \in Live(s) \ Live(t) : q = Base(s) /\ t.dropped > s.dropped
  BY <1>1, <1>4, <1>10
<1> QED BY <1>1, <1>4, <1>10, <1>11, <1>12 DEF Enqueues, t
-----------------------------------------------------------------------------
(* Saving the record of the cycle, and rewriting it. *)

RecordOf(s) == [queued : BOOLEAN, sequence : 0 .. s.nextSequence]

\* o is what persisting, retrying and rewriting the record r make of the store s.
Saves(s, r, o) ==
    /\ Follows(s, o.store) /\ o.store.cursor = s.cursor /\ o.record \in RecordOf(o.store)
    /\ r.queued \/ ~s.ready => o.record = r /\ SameRecords(s, o.store)
    /\ "enqueue" \notin Faults /\ ~r.queued /\ s.ready =>
           /\ Enqueues(s, o.store)
           /\ o.record = [queued |-> TRUE, sequence |-> s.nextSequence]

LEMMA RewriteKeeps ==
    ASSUME NEW s, Proper(s), NEW r, NEW t \in RewriteOutcomes(s, r)
    PROVE  SameRecords(s, t)
<1>1. CASE t = s
  BY <1>1, FollowsItself
<1>2. CASE t # s
  <2> DEFINE n == Len(s.queue)
  <2>1. n > 0 /\ t = [s EXCEPT !.queue[n].readable = FALSE]
    BY <1>2 DEF RewriteOutcomes
  <2>2. /\ s.queue \in Seq(Record) /\ n \in Nat /\ DOMAIN s.queue = 1 .. n
        /\ \A i \in 1 .. n : s.queue[i] \in Record
        /\ s.nextSequence \in Nat /\ s.dropped \in Nat /\ Base(s) \in Nat
    BY StoreFacts
  <2> DEFINE z == [s.queue EXCEPT ![n].readable = FALSE]
  <2>3. /\ t.queue = z /\ t.ready = s.ready /\ t.nextSequence = s.nextSequence
        /\ t.cursor = s.cursor /\ t.dropped = s.dropped
        /\ t = [s EXCEPT !.queue = z]
    BY <2>1 DEF Proper, Store
  <2>4. ASSUME NEW i \in 1 .. n PROVE z[i] \in Record /\ z[i].cycle = s.queue[i].cycle
    <3>1. s.queue[i] \in Record
      BY <2>2
    <3>2. z[i] = IF i = n THEN [s.queue[i] EXCEPT !.readable = FALSE] ELSE s.queue[i]
      BY <2>2
    <3> HIDE DEF z
    <3> QED BY <3>1, <3>2 DEF Record
  <2>5. DOMAIN z = 1 .. n /\ z = [i \in 1 .. n |-> z[i]]
    BY <2>2
  <2> HIDE DEF z, n
  <2>6. z \in Seq(Record) /\ Len(z) = n
    BY <2>2, <2>4, <2>5
  <2>7. t \in Store
    BY <2>3, <2>6 DEF Proper, Store, Record
  <2>8. 0 \in 0 .. Len(s.queue) /\ Len(t.queue) = Len(s.queue) - 0 /\ t.dropped >= s.dropped
    BY <2>2, <2>3, <2>6 DEF n
  <2>9. \A i \in 1 .. Len(s.queue) - 0 : t.queue[i].cycle = s.queue[i + 0].cycle
    BY <2>2, <2>3, <2>4 DEF n
  <2>10. Follows(s, t) /\ Base(t) = Base(s) + 0
    BY <2>3, <2>7, <2>8, <2>9, SuffixFollows
  <2> QED BY <2>2, <2>3, <2>10 DEF SameRecords, Shrinks
<1> QED BY <1>1, <1>2

LEMMA EnqueueSaves ==
    ASSUME NEW s, Proper(s), s.ready, cycle \in Cycle, NEW o \in EnqueueOutcomes(s)
    PROVE  /\ Follows(s, o.store) /\ o.store.cursor = s.cursor /\ o.record \in RecordOf(o.store)
           /\ "enqueue" \notin Faults =>
                  /\ Enqueues(s, o.store)
                  /\ o.record = [queued |-> TRUE, sequence |-> s.nextSequence]
<1>1. s.nextSequence \in Nat
  BY StoreFacts
<1>2. CASE o = [store |-> Added(s), record |-> [queued |-> TRUE, sequence |-> s.nextSequence]]
  <2>1. Enqueues(s, o.store)
    BY <1>2, AddedEnqueues
  <2>2. /\ o.record = [queued |-> TRUE, sequence |-> s.nextSequence]
        /\ o.store.nextSequence = s.nextSequence + 1
    BY <1>2, <2>1 DEF Enqueues
  <2>3. o.record \in RecordOf(o.store)
    BY <1>1, <2>2 DEF RecordOf
  <2> QED BY <2>1, <2>2, <2>3 DEF Enqueues
<1>3. CASE /\ "enqueue" \in Faults
           /\ o = [store |-> WithRoom(s),
                   record |-> [queued |-> FALSE, sequence |-> s.nextSequence]]
  <2>1. Follows(s, o.store) /\ o.store.nextSequence = s.nextSequence /\ o.store.cursor = s.cursor
    BY <1>3, RoomFollows
  <2>2. o.record \in RecordOf(o.store)
    BY <1>1, <1>3, <2>1 DEF RecordOf
  <2> QED BY <1>3, <2>1, <2>2
<1>4. CASE "enqueue" \in Faults /\ o = [store |-> s, record |-> NoRecord]
  <2>1. o.record \in RecordOf(o.store)
    BY <1>1, <1>4 DEF RecordOf, NoRecord
  <2> QED BY <1>4, <2>1, FollowsItself
<1> QED BY <1>2, <1>3, <1>4 DEF EnqueueOutcomes, EnqueueFailures

LEMMA PersistSaves ==
    ASSUME NEW s, Proper(s), cycle \in Cycle, NEW o \in PersistOutcomes(s)
    PROVE  Saves(s, NoRecord, o)
<1>1. CASE s.ready
  BY <1>1, EnqueueSaves DEF PersistOutcomes, Saves, NoRecord
<1>2. CASE ~s.ready
  <2>1. o.store = s /\ o.record = NoRecord
    BY <1>2 DEF PersistOutcomes
  <2>2. NoRecord \in RecordOf(s)
    BY StoreFacts DEF NoRecord, RecordOf
  <2> QED BY <1>2, <2>1, <2>2, FollowsItself DEF Saves
<1> QED BY <1>1, <1>2

LEMMA RetrySaves ==
    ASSUME NEW s, Proper(s), cycle \in Cycle, NEW r \in RecordOf(s), NEW o \in RetryOutcomes(s, r)
    PROVE  Saves(s, r, o)
<1>1. CASE r.queued \/ ~s.ready
  <2>1. o.store = s /\ o.record = r
    BY <1>1 DEF RetryOutcomes
  <2> QED BY <1>1, <2>1, FollowsItself DEF Saves
<1>2. CASE ~r.queued /\ s.ready
  <2>1. PICK e \in EnqueueOutcomes(s) :
            o.store = e.store /\ o.record = IF e.record.queued THEN e.record ELSE r
    BY <1>2 DEF RetryOutcomes
  <2>2. /\ Follows(s, e.store) /\ e.store.cursor = s.cursor /\ e.record \in RecordOf(e.store)
        /\ "enqueue" \notin Faults =>
               /\ Enqueues(s, e.store)
               /\ e.record = [queued |-> TRUE, sequence |-> s.nextSequence]
    BY <1>2, EnqueueSaves
  <2>3. r \in RecordOf(e.store)
    <3>1. s.nextSequence \in Nat /\ e.store.nextSequence \in Nat
      BY <2>2, StoreFacts DEF Follows
    <3> QED BY <2>2, <3>1 DEF RecordOf, Follows
  <2> QED BY <1>2, <2>1, <2>2, <2>3 DEF Saves
<1> QED BY <1>1, <1>2

LEMMA SavesThenRewrites ==
    ASSUME NEW s, Proper(s), NEW r, NEW o, Saves(s, r, o), NEW t, SameRecords(o.store, t)
    PROVE  Saves(s, r, [store |-> t, record |-> o.record])
<1>1. Proper(o.store) /\ Proper(t) /\ Follows(s, o.store) /\ Follows(o.store, t)
  BY DEF Saves, Follows, SameRecords, Shrinks
<1>2. /\ t.nextSequence = o.store.nextSequence /\ t.cursor = o.store.cursor
      /\ t.dropped = o.store.dropped /\ Base(t) = Base(o.store)
  BY DEF SameRecords, Shrinks
<1>3. Live(t) = Live(o.store)
  BY <1>2 DEF Live
<1>4. ASSUME NEW q \in Live(t) PROVE CycleAt(t, q) = CycleAt(o.store, q)
  <2>1. q < o.store.nextSequence
    BY <1>1, <1>3, <1>4, StoreFacts DEF Live
  <2> QED BY <1>1, <2>1 DEF Follows
<1>5. Follows(s, t)
  BY <1>1, FollowsTransitive
<1>6. SameRecords(s, o.store) => SameRecords(s, t)
  BY <1>2, <1>5 DEF SameRecords, Shrinks
<1>7. Enqueues(s, o.store) => Enqueues(s, t)
  BY <1>2, <1>3, <1>4, <1>5 DEF Enqueues
<1>8. o.record \in RecordOf(t)
  BY <1>2 DEF Saves, RecordOf
<1> QED BY <1>2, <1>5, <1>6, <1>7, <1>8 DEF Saves

LEMMA PreparedSaves ==
    ASSUME Proper(store), record \in RecordOf(store), cycle \in Cycle, NEW p \in Prepared
    PROVE  Saves(store, record, p)
<1>1. PICK o \in RetryOutcomes(store, record) :
          p.record = o.record /\ p.store \in RewriteOutcomes(o.store, o.record)
  BY DEF Prepared
<1>2. Saves(store, record, o)
  BY RetrySaves
<1>3. Proper(o.store)
  BY <1>2 DEF Saves, Follows
<1>4. SameRecords(o.store, p.store)
  BY <1>1, <1>3, RewriteKeeps
<1>5. Saves(store, record, [store |-> p.store, record |-> o.record])
  BY <1>2, <1>4, SavesThenRewrites
<1> QED BY <1>1, <1>5 DEF Saves

-----------------------------------------------------------------------------
(* The pending record of a destination, and its acknowledgement. *)

NextFor(s, d) == IF Base(s) > s.cursor[d] THEN Base(s) ELSE s.cursor[d] + 1

LEMMA PendingFacts ==
    ASSUME NEW s, Proper(s), NEW d \in Destination
    PROVE  /\ NextFor(s, d) \in Nat \ {0}
           /\ PendingSequence(s, d) = NextFor(s, d)
           /\ HasPending(s, d) <=> NextFor(s, d) \in Live(s)
           /\ HasPending(s, d) =>
                  PendingRecord(s, d) = [cycle |-> CycleAt(s, NextFor(s, d)),
                                         sequence |-> NextFor(s, d)]
           /\ \A q \in Live(s) : q < NextFor(s, d) <=> q <= s.cursor[d]
<1> DEFINE x == NextFor(s, d)
<1>1. /\ Len(s.queue) \in Nat /\ Base(s) \in Nat \ {0} /\ s.nextSequence \in Nat
      /\ s.nextSequence = Base(s) + Len(s.queue) /\ s.cursor[d] \in Nat
      /\ s.cursor[d] < s.nextSequence
  BY StoreFacts DEF Proper
<1>2. s.queue = <<>> => Base(s) > s.cursor[d]
  <2>1. s.queue = <<>> => Len(s.queue) = 0
    OBVIOUS
  <2> QED BY <1>1, <2>1
<1>3. SequenceAt(s, 1) = Base(s)
  <2>1. SequenceAt(s, 1) = Base(s) + 1 - 1
    BY DEF SequenceAt, Base
  <2> QED BY <1>1, <2>1
<1>4. PendingAt(s, d) = x - Base(s) + 1 /\ x \in Nat \ {0} /\ x >= Base(s)
  BY <1>1, <1>2, <1>3 DEF PendingAt, NextFor
<1>5. \A q \in Live(s) : q < x <=> q <= s.cursor[d]
  BY <1>1 DEF Live, NextFor
<1> HIDE DEF x
<1>6. PendingSequence(s, d) = x
  <2>1. SequenceAt(s, PendingAt(s, d)) = Base(s) + PendingAt(s, d) - 1
    BY DEF SequenceAt, Base
  <2>2. PendingSequence(s, d) = Base(s) + (x - Base(s) + 1) - 1
    BY <1>4, <2>1 DEF PendingSequence
  <2> QED BY <1>1, <1>4, <2>2
<1>7. HasPending(s, d) <=> x \in Live(s)
  <2>1. HasPending(s, d) <=> x - Base(s) + 1 <= Len(s.queue)
    BY <1>4 DEF HasPending
  <2>2. x \in Live(s) <=> x < Base(s) + Len(s.queue)
    BY <1>1, <1>4 DEF Live
  <2> QED BY <1>1, <1>4, <2>1, <2>2
<1>8. PendingRecord(s, d) = [cycle |-> CycleAt(s, x), sequence |-> x]
  BY <1>4, <1>6 DEF PendingRecord, CycleAt
<1> QED BY <1>4, <1>5, <1>6, <1>7, <1>8 DEF x

\* A trim for a mask with d leaves the pending record of d where it is.
LEMMA TrimKeepsPending ==
    ASSUME NEW s, Proper(s), NEW t, NEW mask, Trims(s, t, mask),
           NEW d \in Destination, d \in mask, HasPending(s, d)
    PROVE  HasPending(t, d) /\ PendingSequence(t, d) = PendingSequence(s, d)
<1>1. /\ Proper(t) /\ t.cursor = s.cursor /\ t.nextSequence = s.nextSequence
      /\ Base(t) >= Base(s) /\ \A q \in Live(s) \ Live(t) : q <= s.cursor[d]
  BY DEF Trims, Shrinks, Follows
<1>2. /\ Base(s) \in Nat /\ Base(t) \in Nat /\ s.cursor[d] \in Nat /\ s.nextSequence \in Nat
  BY <1>1, StoreFacts
<1>3. NextFor(s, d) \in Nat /\ NextFor(s, d) \in Live(s) /\ ~(NextFor(s, d) <= s.cursor[d])
  <2>1. NextFor(s, d) \in Live(s) /\ NextFor(s, d) \in Nat
    BY PendingFacts
  <2> QED BY <1>2, <2>1 DEF NextFor
<1>4. NextFor(s, d) \in Live(t)
  BY <1>1, <1>3
<1>5. NextFor(t, d) = NextFor(s, d)
  <2>1. Base(t) <= NextFor(s, d)
    BY <1>2, <1>4 DEF Live
  <2> QED BY <1>1, <1>2, <2>1 DEF NextFor
<1> QED BY <1>1, <1>4, <1>5, PendingFacts

LEMMA CursorMoves ==
    ASSUME NEW s, Proper(s), NEW d \in Destination, HasPending(s, d)
    PROVE  LET m == [s EXCEPT !.cursor[d] = NextFor(s, d)]
           IN  /\ SameQueue(s, m) /\ Proper(m)
               /\ m.cursor = [s.cursor EXCEPT ![d] = NextFor(s, d)]
<1> DEFINE m == [s EXCEPT !.cursor[d] = NextFor(s, d)]
<1>1. NextFor(s, d) \in Nat \ {0} /\ NextFor(s, d) < s.nextSequence
  <2>1. NextFor(s, d) \in Nat \ {0} /\ NextFor(s, d) \in Live(s)
    BY PendingFacts
  <2>2. s.nextSequence \in Nat /\ Base(s) \in Nat
    BY StoreFacts
  <2> QED BY <2>1, <2>2 DEF Live
<1>2. /\ m.queue = s.queue /\ m.ready = s.ready /\ m.nextSequence = s.nextSequence
      /\ m.dropped = s.dropped /\ m.cursor = [s.cursor EXCEPT ![d] = NextFor(s, d)]
  BY DEF Proper, Store
<1>3. m \in Store
  BY <1>1 DEF Proper, Store
<1> HIDE DEF m
<1>4. SameQueue(s, m)
  BY <1>2 DEF SameQueue
<1>5. Proper(m)
  <2>1. s.cursor \in [Destination -> Nat]
    BY StoreFacts
  <2> QED BY <1>1, <1>2, <1>3, <2>1 DEF Proper
<1> QED BY <1>2, <1>4, <1>5 DEF m

\* acknowledgeDelivery does nothing, or moves the cursor of d to its pending record and trims.
LEMMA AcknowledgeMoves ==
    ASSUME NEW s, Proper(s), NEW q, NEW d \in Destination, NEW o \in AcknowledgeOutcomes(s, q, d)
    PROVE  \/ o.store = s
           \/ /\ HasPending(s, d) /\ PendingSequence(s, d) = q /\ NextFor(s, d) = q
              /\ LET m == [s EXCEPT !.cursor[d] = q]
                 IN  SameQueue(s, m) /\ Proper(m) /\ m.cursor = [s.cursor EXCEPT ![d] = q]
                         /\ Trims(m, o.store, RequiredMask(mode))
<1> SUFFICES ASSUME o.store # s
             PROVE  /\ HasPending(s, d) /\ PendingSequence(s, d) = q /\ NextFor(s, d) = q
                    /\ LET m == [s EXCEPT !.cursor[d] = q]
                       IN  SameQueue(s, m) /\ Proper(m) /\ m.cursor = [s.cursor EXCEPT ![d] = q]
                               /\ Trims(m, o.store, RequiredMask(mode))
  OBVIOUS
<1> DEFINE m == [s EXCEPT !.cursor[d] = q]
           mask == RequiredMask(mode)
<1>1. /\ HasPending(s, d) /\ PendingSequence(s, d) = q
      /\ o.store \in {Trimmed(m, mask)} \cup TrimFailures(m, mask)
  BY DEF AcknowledgeOutcomes
<1>2. NextFor(s, d) = q
  BY <1>1, PendingFacts
<1>3. SameQueue(s, m) /\ Proper(m) /\ m.cursor = [s.cursor EXCEPT ![d] = q]
  BY <1>1, <1>2, CursorMoves
<1> HIDE DEF m, mask
<1>4. Trims(m, o.store, mask)
  BY <1>1, <1>3, TrimmedTrims
<1> QED BY <1>1, <1>2, <1>3, <1>4 DEF m, mask

-----------------------------------------------------------------------------
(***************************************************************************)
(* The inductive invariant of type correctness and of the upload: what     *)
(* holds whatever call of the queue fails.                                 *)
(***************************************************************************)
\* A destination may be acknowledged once more while one of its records is in flight.
Limits ==
    /\ WithinUploadLimit
    /\ mqtt.pending => acks["MQTT"] < MAX_RECORD_UPLOADS_PER_CYCLE
    /\ upload.state # "IDLE" => acks["BLYNK"] < MAX_RECORD_UPLOADS_PER_CYCLE

\* Only a queued record makes an upload wait, and only a mode with Blynk.
Uploading ==
    upload.state # "IDLE" => phase = "measured" /\ record.queued /\ mode # "MQTT_ONLY"

\* What is in flight is a record of a cycle, and an acknowledgement stands for it.
Messages ==
    /\ \A i \in DOMAIN uplink : uplink[i] # SyncV21 => uplink[i].cycle # 0
    /\ phase = "asleep" => uplink = <<>>
    /\ mqtt.pending => mqtt.cycle # 0
    /\ mqtt.acknowledged => mqtt.pending

Cycling ==
    /\ phase # "asleep" => cycle # 0
    /\ phase = "measuring" => ~record.queued

Control ==
    /\ phase \in {"asleep", "measuring", "measured"} /\ cycle \in 0 .. MaxCycles
    /\ mode \in {"BLYNK_ONLY", "MQTT_ONLY", "BOTH"} /\ stayAwake \in BOOLEAN
    /\ cycleUploaded \in BOOLEAN /\ finished \in [Destination -> BOOLEAN]
    /\ acks \in [Destination -> Nat]
    /\ timer \in [{"upload", "mqtt", "edgent"} -> {"off", "running", "elapsed"}]
    /\ blynkConnected \in BOOLEAN

Upload == [state : {"IDLE", "WAITING_TO_REQUEST_ACK", "WAITING_FOR_ACK"},
           sequence : Nat, acknowledged : BOOLEAN, synced : BOOLEAN]
Tracker == [initialized : BOOLEAN, connected : BOOLEAN, pending : BOOLEAN,
            sequence : Nat, cycle : Cycle \cup {0}, acknowledged : BOOLEAN]

Links ==
    /\ upload \in Upload
    /\ uplink \in Seq(Message) /\ downlink \in Seq(Nat) /\ cloudSequence \in Nat
    /\ mqtt \in Tracker
    /\ received \in [Destination -> SUBSET Cycle]

StoreOK == Proper(store) /\ record \in RecordOf(store)

LEMMA TypeParts == TypeOK <=> Control /\ Links /\ StoreOK
BY DEF TypeOK, Control, Links, StoreOK, Proper, RecordOf, Upload, Tracker

IInv == /\ Control /\ Links /\ StoreOK /\ Limits /\ Uploading /\ UploadTracksPending
        /\ Messages /\ Cycling

LEMMA Bounds ==
    /\ Capacity \in Nat \ {0} /\ MaxCycles \in Nat \ {0}
    /\ MAX_RECORD_UPLOADS_PER_CYCLE \in Nat
    /\ 0 < MAX_RECORD_UPLOADS_PER_CYCLE /\ 0 <= MAX_RECORD_UPLOADS_PER_CYCLE
<1>1. /\ Capacity \in Nat \ {0} /\ MaxCycles \in Nat \ {0}
      /\ MAX_RECORD_UPLOADS_PER_CYCLE \in Nat \ {0}
  BY ONLY UploadAssumption DEF UploadAssumption
<1> QED BY <1>1

LEMMA UsesIsBoolean == \A d : Uses(d) \in BOOLEAN
BY DEF Uses

LEMMA InitParts == Init => IInv
<1> SUFFICES ASSUME Init PROVE IInv
  OBVIOUS
<1>1. Control
  <2>1. mode \in {"BLYNK_ONLY", "MQTT_ONLY", "BOTH"}
    BY UploadAssumption DEF Init
  <2>2. cycle \in 0 .. MaxCycles /\ phase \in {"asleep", "measuring", "measured"}
    BY Bounds DEF Init
  <2>3. finished \in [Destination -> BOOLEAN]
    BY UsesIsBoolean DEF Init
  <2> QED BY <2>1, <2>2, <2>3 DEF Init, Control, NoTimers
<1>2. Links
  <2>1. received \in [Destination -> SUBSET Cycle]
    BY DEF Init
  <2>2. mqtt \in Tracker
    <3>1. PICK i \in BOOLEAN : mqtt = [NoMqtt EXCEPT !.initialized = i]
      <4>1. PICK i \in BOOLEAN :
                mqtt = [NoMqtt EXCEPT !.initialized = i /\ phase = "measuring"]
        BY UsesIsBoolean DEF Init
      <4>2. (i /\ phase = "measuring") \in BOOLEAN
        OBVIOUS
      <4> QED BY <4>1, <4>2
    <3> QED BY <3>1 DEF NoMqtt, Tracker
  <2> QED BY <2>1, <2>2 DEF Init, Links, Upload, NoUpload
<1>3. StoreOK
  <2>1. /\ store.queue = <<>> /\ store.nextSequence = 1 /\ store.dropped = 0
        /\ store.ready = TRUE /\ store.cursor = [d \in Destination |-> 0]
        /\ store = EmptyStore
    BY DEF Init, EmptyStore
  <2>2. Len(store.queue) = 0 /\ store.queue \in Seq(Record)
    BY <2>1
  <2>3. EmptyStore \in Store
    BY <2>1, <2>2 DEF EmptyStore, Store, Record
  <2>4. Capacity \in Nat
    BY UploadAssumption
  <2>5. Proper(store)
    BY <2>1, <2>2, <2>3, <2>4 DEF Proper
  <2> QED BY <2>1, <2>5 DEF Init, StoreOK, RecordOf, NoRecord
<1>4. Limits /\ Uploading /\ UploadTracksPending
  <2>1. /\ acks = [d \in Destination |-> 0] /\ upload.state = "IDLE"
        /\ ~mqtt.pending
    BY DEF Init, NoUpload, NoMqtt
  <2> QED BY <2>1, Bounds DEF Limits, WithinUploadLimit, Uploading, UploadTracksPending
<1>5. Messages /\ Cycling
  BY DEF Init, Messages, Cycling, NoMqtt, NoRecord
<1> QED BY <1>1, <1>2, <1>3, <1>4, <1>5 DEF IInv

-----------------------------------------------------------------------------
(* The steps of the cycle. *)

LEMMA StartParts ==
    ASSUME IInv, StartNormalMeasurementCycle, cycle < MaxCycles, Proper(store')
    PROVE  /\ StoreOK' /\ Uploading' /\ UploadTracksPending' /\ Cycling'
           /\ \A d \in Destination : acks'[d] = 0
           /\ phase' \in {"asleep", "measuring", "measured"} /\ cycle' \in 0 .. MaxCycles
           /\ cycleUploaded' \in BOOLEAN /\ finished' \in [Destination -> BOOLEAN]
           /\ acks' \in [Destination -> Nat] /\ upload' \in Upload
           /\ upload'.state = "IDLE" /\ phase' # "asleep"
           /\ timer' \in [{"upload", "mqtt", "edgent"} -> {"off", "running", "elapsed"}]
<1>1. record' \in RecordOf(store')
  <2>1. store'.nextSequence \in Nat
    BY StoreFacts
  <2> QED BY <2>1 DEF StartNormalMeasurementCycle, RecordOf, NoRecord
<1>2. upload' \in Upload /\ upload'.state = "IDLE"
  BY DEF StartNormalMeasurementCycle, IInv, Links, Upload, NoUpload
<1>3. cycle' \in 0 .. MaxCycles /\ cycle' # 0
  <2>1. cycle' = cycle + 1 /\ cycle \in 0 .. MaxCycles
    BY DEF StartNormalMeasurementCycle, IInv, Control
  <2> QED BY <2>1, Bounds
<1> QED BY <1>1, <1>2, <1>3 DEF StartNormalMeasurementCycle, StoreOK, Uploading,
            UploadTracksPending, Cycling, NoRecord, NoTimers, Uses

LEMMA WakeUpKeeps == IInv /\ WakeUp => IInv'
<1> SUFFICES ASSUME IInv, WakeUp PROVE IInv'
  OBVIOUS
<1>1. Proper(store')
  <2>1. PICK ready \in BOOLEAN :
            store' \in ReconcileOutcomes([store EXCEPT !.ready = ready], RequiredMask(mode))
    BY DEF WakeUp
  <2> DEFINE s == [store EXCEPT !.ready = ready]
  <2>2. Proper(s)
    BY DEF IInv, StoreOK, Proper, Store
  <2> HIDE DEF s
  <2>3. Trims(s, store', RequiredMask(mode))
    BY <2>1, <2>2, ReconcileTrims DEF s
  <2> QED BY <2>3 DEF Trims, Shrinks, Follows
<1>2. mqtt' \in Tracker /\ ~mqtt'.pending /\ ~mqtt'.acknowledged
  <2>1. PICK i \in BOOLEAN : mqtt' = [NoMqtt EXCEPT !.initialized = i]
    BY UsesIsBoolean DEF WakeUp
  <2> QED BY <2>1 DEF NoMqtt, Tracker
<1>3. StartNormalMeasurementCycle /\ cycle < MaxCycles
  BY DEF WakeUp
<1>4. Control' /\ Links'
  BY <1>1, <1>2, <1>3, StartParts DEF WakeUp, IInv, Control, Links, cloudVars
<1>5. Limits'
  BY <1>1, <1>2, <1>3, StartParts, Bounds DEF Limits, WithinUploadLimit
<1>6. Messages'
  BY <1>1, <1>2, <1>3, StartParts DEF WakeUp, IInv, Messages, cloudVars
<1> QED BY <1>1, <1>3, <1>4, <1>5, <1>6, StartParts DEF IInv

LEMMA NextSlotKeeps == IInv /\ NextSlot => IInv'
<1> SUFFICES ASSUME IInv, NextSlot PROVE IInv'
  OBVIOUS
<1>1. Proper(store') /\ StartNormalMeasurementCycle /\ cycle < MaxCycles
  BY DEF IInv, StoreOK, NextSlot
<1>2. Control' /\ Links'
  BY <1>1, StartParts DEF NextSlot, IInv, Control, Links, cloudVars
<1>3. Limits'
  BY <1>1, StartParts, Bounds DEF Limits, WithinUploadLimit, Destination
<1>4. Messages'
  BY <1>1, StartParts DEF NextSlot, IInv, Messages, cloudVars
<1> QED BY <1>1, <1>2, <1>3, <1>4, StartParts DEF IInv

LEMMA MeasurementsKeep == IInv /\ PerformOtherCycleMeasurements => IInv'
<1> SUFFICES ASSUME IInv, PerformOtherCycleMeasurements PROVE IInv'
  OBVIOUS
<1>1. phase = "measuring" /\ cycle \in Cycle /\ Proper(store)
  BY DEF PerformOtherCycleMeasurements, IInv, Control, Cycling, StoreOK, Cycle
<1>2. PICK o \in PersistOutcomes(store) : store' = o.store /\ record' = o.record
  BY DEF PerformOtherCycleMeasurements
<1>3. StoreOK'
  <2>1. Saves(store, NoRecord, o)
    BY <1>1, PersistSaves
  <2> QED BY <1>2, <2>1 DEF Saves, Follows, StoreOK
<1>4. upload.state = "IDLE"
  BY <1>1 DEF IInv, Uploading
<1>5. Control' /\ Links' /\ Limits'
  BY DEF PerformOtherCycleMeasurements, IInv, Control, Links, cloudVars, Limits, WithinUploadLimit
<1>6. Uploading' /\ UploadTracksPending' /\ Messages' /\ Cycling'
  BY <1>1, <1>4 DEF PerformOtherCycleMeasurements, IInv, Uploading, UploadTracksPending,
                   Messages, Cycling, cloudVars
<1> QED BY <1>3, <1>5, <1>6 DEF IInv

LEMMA DrainPassKeeps == IInv /\ BeginStayAwakeQueueDrainPass => IInv'
<1> SUFFICES ASSUME IInv, BeginStayAwakeQueueDrainPass PROVE IInv'
  OBVIOUS
<1>1. upload' \in Upload /\ upload'.state = "IDLE"
  BY DEF BeginStayAwakeQueueDrainPass, IInv, Links, Upload, NoUpload
<1>2. Control' /\ Links' /\ StoreOK'
  BY <1>1 DEF BeginStayAwakeQueueDrainPass, IInv, Control, Links, StoreOK, cloudVars, Uses
<1>3. Limits'
  <2>1. acks' = [d \in Destination |-> 0]
    BY DEF BeginStayAwakeQueueDrainPass
  <2> QED BY <1>1, <2>1, Bounds DEF Limits, WithinUploadLimit, Destination
<1>4. Uploading' /\ UploadTracksPending' /\ Messages' /\ Cycling'
  BY <1>1 DEF BeginStayAwakeQueueDrainPass, IInv, Uploading, UploadTracksPending, Messages,
              Cycling, cloudVars
<1> QED BY <1>2, <1>3, <1>4 DEF IInv

LEMMA PoweredDownParts ==
    ASSUME IInv, PoweredDown, Proper(store')
    PROVE  IInv'
<1>1. upload' \in Upload /\ upload'.state = "IDLE"
  BY DEF PoweredDown, Upload, NoUpload
<1>2. mqtt' \in Tracker /\ ~mqtt'.pending /\ ~mqtt'.acknowledged
  BY DEF PoweredDown, NoMqtt, Tracker
<1>3. Control' /\ Links'
  <2>1. /\ uplink' = <<>> /\ downlink' = <<>> /\ received' = received
        /\ cloudSequence' = cloudSequence
    BY DEF PoweredDown
  <2>2. Links'
    BY <1>1, <1>2, <2>1 DEF IInv, Links
  <2>3. Control'
    BY DEF PoweredDown, IInv, Control, NoTimers
  <2> QED BY <2>2, <2>3
<1>4. StoreOK'
  BY StoreFacts DEF PoweredDown, StoreOK, RecordOf, NoRecord
<1>5. Limits'
  <2>1. acks' = [d \in Destination |-> 0]
    BY DEF PoweredDown
  <2> QED BY <1>1, <1>2, <2>1, Bounds DEF Limits, WithinUploadLimit
<1>6. Uploading' /\ UploadTracksPending' /\ Messages' /\ Cycling'
  BY <1>1, <1>2 DEF PoweredDown, Uploading, UploadTracksPending, Messages, Cycling, NoRecord
<1> QED BY <1>3, <1>4, <1>5, <1>6 DEF IInv

LEMMA SleepKeeps == IInv /\ (EnterTimedDeepSleep \/ PowerLoss) => IInv'
<1> SUFFICES ASSUME IInv, EnterTimedDeepSleep \/ PowerLoss PROVE IInv'
  OBVIOUS
<1>1. PoweredDown
  BY DEF EnterTimedDeepSleep, PowerLoss
<1>2. Proper(store')
  <2>1. CASE PowerLoss
    BY <2>1 DEF PowerLoss, IInv, StoreOK
  <2>2. CASE EnterTimedDeepSleep
    <3>1. PICK o \in RetryOutcomes(store, record) : store' = o.store
      BY <2>2 DEF EnterTimedDeepSleep
    <3>2. Proper(store) /\ record \in RecordOf(store) /\ cycle \in Cycle
      BY <2>2 DEF EnterTimedDeepSleep, IInv, StoreOK, Control, Cycling, Cycle
    <3>3. Saves(store, record, o)
      BY <3>2, RetrySaves
    <3> QED BY <3>1, <3>3 DEF Saves, Follows
  <2> QED BY <2>1, <2>2
<1> QED BY <1>1, <1>2, PoweredDownParts

-----------------------------------------------------------------------------
(* The upload to Blynk. *)

LEMMA FinishTypes ==
    ASSUME Control, NEW d \in Destination, Finish(d) \/ NotFinished
    PROVE  finished' \in [Destination -> BOOLEAN] /\ cycleUploaded' \in BOOLEAN
BY DEF Control, Finish, NotFinished

LEMMA DurableStep ==
    ASSUME Control, NEW s, Proper(s), NEW d \in Destination, NEW q,
           WithinUploadLimit, acks[d] < MAX_RECORD_UPLOADS_PER_CYCLE,
           RecordDurableDeliveryAcknowledgement(s, q, d)
    PROVE  /\ \E o \in AcknowledgeOutcomes(s, q, d) : store' = o.store
           /\ Proper(store') /\ store'.nextSequence = s.nextSequence
           /\ acks' \in [Destination -> Nat] /\ WithinUploadLimit'
           /\ \A e \in Destination \ {d} : acks'[e] = acks[e]
           /\ finished' \in [Destination -> BOOLEAN] /\ cycleUploaded' \in BOOLEAN
<1>1. PICK o \in AcknowledgeOutcomes(s, q, d) :
          /\ store' = o.store
          /\ acks' = acks \/ acks' = [acks EXCEPT ![d] = @ + 1]
          /\ Finish(d) \/ NotFinished
  BY DEF RecordDurableDeliveryAcknowledgement
<1>2. Proper(store') /\ store'.nextSequence = s.nextSequence
  <2>1. CASE o.store = s
    BY <1>1, <2>1
  <2>2. CASE o.store # s
    <3> DEFINE m == [s EXCEPT !.cursor[d] = q]
    <3>1. SameQueue(s, m) /\ Trims(m, o.store, RequiredMask(mode))
      BY <1>1, <2>2, AcknowledgeMoves
    <3> HIDE DEF m
    <3> QED BY <1>1, <3>1 DEF Trims, Shrinks, Follows, SameQueue
  <2> QED BY <2>1, <2>2
<1>3. acks \in [Destination -> Nat]
  BY DEF Control
<1>4. /\ acks' \in [Destination -> Nat]
      /\ \A e \in Destination \ {d} : acks'[e] = acks[e]
      /\ acks'[d] <= MAX_RECORD_UPLOADS_PER_CYCLE
  BY <1>1, <1>3, Bounds
<1>5. WithinUploadLimit'
  BY <1>4 DEF WithinUploadLimit
<1> QED BY <1>1, <1>2, <1>4, <1>5, FinishTypes

LEMMA WithinRecordLimit ==
    \A limit \in RecordUploadLimit, n \in Nat : n < limit => n < MAX_RECORD_UPLOADS_PER_CYCLE
BY Bounds DEF RecordUploadLimit

\* A pending upload is still the pending record after the store was prepared.
LEMMA PreparedTracks ==
    ASSUME Proper(store), UploadTracksPending, upload.state # "IDLE", NEW p,
           SameRecords(store, p.store)
    PROVE  HasPending(p.store, "BLYNK") /\ PendingSequence(p.store, "BLYNK") = upload.sequence
<1>1. Live(p.store) = Live(store)
  BY DEF SameRecords, Shrinks, Live
<1>2. Trims(store, p.store, {"BLYNK"})
  BY <1>1 DEF SameRecords, Trims
<1> QED BY <1>2, TrimKeepsPending DEF UploadTracksPending, Destination

LEMMA BlynkServiceKeeps == IInv /\ ServiceOfflineUpload => IInv'
<1> SUFFICES ASSUME IInv, ServiceOfflineUpload PROVE IInv'
  OBVIOUS
<1>0. /\ phase = "measured" /\ Uses("BLYNK")
      /\ UNCHANGED <<phase, cycle, mode, stayAwake, blynkConnected, downlink, cloudSequence,
                     mqtt, received>>
  BY DEF ServiceOfflineUpload
<1>1. /\ Control /\ Links /\ Proper(store) /\ record \in RecordOf(store) /\ cycle \in Cycle
      /\ mode # "MQTT_ONLY"
  <2>1. mode # "MQTT_ONLY"
    BY <1>0 DEF Uses, RequiredMask
  <2> QED BY <1>0, <2>1 DEF IInv, StoreOK, Control, Cycling, Cycle
<1>2. PICK p \in Prepared :
          /\ record' = p.record
          /\ IF ~p.store.ready \/ ~p.record.queued THEN SendRamRecord(p)
             ELSE RequestAck(p) \/ ProcessAck(p) \/ AckTimeout(p) \/ BeginOfflineRecordUpload(p)
  BY DEF ServiceOfflineUpload
<1>3. Saves(store, record, p)
  BY <1>1, PreparedSaves
<1>4. Proper(p.store) /\ p.record \in RecordOf(p.store) /\ p.record.sequence \in Nat
  BY <1>3, StoreFacts DEF Saves, Follows, RecordOf
<1>5. upload.state # "IDLE" =>
          /\ p.record = record /\ record.queued
          /\ HasPending(p.store, "BLYNK") /\ PendingSequence(p.store, "BLYNK") = upload.sequence
  BY <1>1, <1>3, PreparedTracks DEF Saves, IInv, Uploading
<1>6. /\ upload \in Upload /\ uplink \in Seq(Message)
      /\ timer \in [{"upload", "mqtt", "edgent"} -> {"off", "running", "elapsed"}]
      /\ acks \in [Destination -> Nat]
  BY <1>1 DEF Links, Control
\* It suffices to say what each branch does.
<1> DEFINE NewMessage == \E m \in Message : /\ uplink' = Append(uplink, m)
                                            /\ m = SyncV21 \/ m.cycle # 0
           Outcome ==
               /\ Proper(store') /\ store'.nextSequence = p.store.nextSequence
               /\ uplink' = uplink \/ NewMessage
               /\ upload' \in Upload
               /\ timer' \in [{"upload", "mqtt", "edgent"} -> {"off", "running", "elapsed"}]
               /\ finished' \in [Destination -> BOOLEAN] /\ cycleUploaded' \in BOOLEAN
               /\ acks' \in [Destination -> Nat] /\ WithinUploadLimit'
               /\ acks'["MQTT"] = acks["MQTT"]
               /\ upload'.state # "IDLE" =>
                      /\ p.record.queued
                      /\ acks'["BLYNK"] < MAX_RECORD_UPLOADS_PER_CYCLE
                      /\ HasPending(store', "BLYNK")
                      /\ PendingSequence(store', "BLYNK") = upload'.sequence
<1>7. SendRamRecord(p) => Outcome
  <2> SUFFICES ASSUME SendRamRecord(p) PROVE Outcome
    OBVIOUS
  <2>1. NewMessage
    <3>1. [cycle |-> cycle, sequence |-> p.record.sequence] \in Message /\ cycle # 0
      BY <1>1, <1>4 DEF Message, Cycle
    <3> QED BY <3>1 DEF SendRamRecord, SendRecordToBlynk
  <2>2. store' = p.store /\ acks' = acks /\ upload' = upload /\ timer' = timer /\ Finish("BLYNK")
    BY DEF SendRamRecord
  <2>3. WithinUploadLimit'
    BY <2>2 DEF IInv, Limits, WithinUploadLimit
  <2> QED BY <1>1, <1>4, <1>5, <1>6, <2>1, <2>2, <2>3, FinishTypes DEF IInv, Limits, Destination
<1>8. RequestAck(p) => Outcome
  <2> SUFFICES ASSUME RequestAck(p) PROVE Outcome
    OBVIOUS
  <2>1. NewMessage
    BY DEF RequestAck, SyncV21, Message
  <2>2. /\ store' = p.store /\ acks' = acks /\ NotFinished /\ upload.state # "IDLE"
        /\ upload' = [upload EXCEPT !.state = "WAITING_FOR_ACK", !.synced = FALSE]
        /\ timer' = [timer EXCEPT !["upload"] = "running"]
    BY DEF RequestAck
  <2>3. upload' \in Upload /\ upload'.sequence = upload.sequence
    BY <1>6, <2>2 DEF Upload
  <2>4. timer' \in [{"upload", "mqtt", "edgent"} -> {"off", "running", "elapsed"}]
    BY <1>6, <2>2
  <2>5. WithinUploadLimit'
    BY <2>2 DEF IInv, Limits, WithinUploadLimit
  <2> QED BY <1>1, <1>4, <1>5, <1>6, <2>1, <2>2, <2>3, <2>4, <2>5, FinishTypes
          DEF IInv, Limits, Destination
<1>9. ProcessAck(p) => Outcome
  <2> SUFFICES ASSUME ProcessAck(p) PROVE Outcome
    OBVIOUS
  <2>1. /\ upload.state # "IDLE" /\ uplink' = uplink
        /\ upload' = [NoUpload EXCEPT !.synced = upload.synced]
        /\ timer' = [timer EXCEPT !["upload"] = "off"]
        /\ RecordDurableDeliveryAcknowledgement(p.store, upload.sequence, "BLYNK")
    BY DEF ProcessAck
  <2>2. upload' \in Upload /\ upload'.state = "IDLE"
    BY <1>6, <2>1 DEF Upload, NoUpload
  <2>3. timer' \in [{"upload", "mqtt", "edgent"} -> {"off", "running", "elapsed"}]
    BY <1>6, <2>1
  <2>4. acks["BLYNK"] < MAX_RECORD_UPLOADS_PER_CYCLE /\ WithinUploadLimit
    BY <2>1 DEF IInv, Limits
  <2>5. /\ Proper(store') /\ store'.nextSequence = p.store.nextSequence
        /\ acks' \in [Destination -> Nat] /\ WithinUploadLimit' /\ acks'["MQTT"] = acks["MQTT"]
        /\ finished' \in [Destination -> BOOLEAN] /\ cycleUploaded' \in BOOLEAN
    BY <1>1, <1>4, <2>1, <2>4, DurableStep DEF Destination
  <2> QED BY <2>1, <2>2, <2>3, <2>5
<1>10. AckTimeout(p) => Outcome
  <2> SUFFICES ASSUME AckTimeout(p) PROVE Outcome
    OBVIOUS
  <2>1. /\ uplink' = uplink /\ store' = p.store /\ acks' = acks /\ Finish("BLYNK")
        /\ upload' = [NoUpload EXCEPT !.synced = upload.synced]
        /\ timer' = [timer EXCEPT !["upload"] = "off"]
    BY DEF AckTimeout
  <2>2. upload' \in Upload /\ upload'.state = "IDLE"
    BY <1>6, <2>1 DEF Upload, NoUpload
  <2>3. timer' \in [{"upload", "mqtt", "edgent"} -> {"off", "running", "elapsed"}]
    BY <1>6, <2>1
  <2>4. WithinUploadLimit'
    BY <2>1 DEF IInv, Limits, WithinUploadLimit
  <2> QED BY <1>1, <1>4, <1>6, <2>1, <2>2, <2>3, <2>4, FinishTypes DEF Destination
<1>11. p.record.queued /\ BeginOfflineRecordUpload(p) => Outcome
  <2> SUFFICES ASSUME p.record.queued, BeginOfflineRecordUpload(p) PROVE Outcome
    OBVIOUS
  <2>1. store' = p.store /\ acks' = acks /\ upload.state = "IDLE"
    BY DEF BeginOfflineRecordUpload
  <2>2. WithinUploadLimit'
    BY <2>1 DEF IInv, Limits, WithinUploadLimit
  <2>3. CASE Finish("BLYNK") /\ UNCHANGED <<upload, timer, uplink>>
    BY <1>1, <1>4, <1>6, <2>1, <2>2, <2>3, FinishTypes DEF Destination
  <2>4. CASE /\ \E limit \in RecordUploadLimit : acks["BLYNK"] < limit
             /\ HasPending(p.store, "BLYNK")
             /\ uplink' = Append(uplink, PendingRecord(p.store, "BLYNK"))
             /\ upload' = [upload EXCEPT !.state = "WAITING_TO_REQUEST_ACK",
                               !.sequence = PendingRecord(p.store, "BLYNK").sequence,
                               !.acknowledged = FALSE]
             /\ timer' = [timer EXCEPT !["upload"] = "running"]
             /\ NotFinished
    <3>1. /\ PendingRecord(p.store, "BLYNK") \in Message
          /\ PendingRecord(p.store, "BLYNK").cycle # 0
          /\ PendingRecord(p.store, "BLYNK").sequence = PendingSequence(p.store, "BLYNK")
          /\ PendingSequence(p.store, "BLYNK") \in Nat
      <4> DEFINE x == NextFor(p.store, "BLYNK")
      <4>1. /\ x \in Nat /\ x \in Live(p.store) /\ PendingSequence(p.store, "BLYNK") = x
            /\ PendingRecord(p.store, "BLYNK") = [cycle |-> CycleAt(p.store, x), sequence |-> x]
        BY <1>4, <2>4, PendingFacts DEF Destination
      <4>2. CycleAt(p.store, x) \in Cycle
        BY <1>4, <4>1, LiveFacts
      <4> QED BY <4>1, <4>2 DEF Message, Cycle
    <3>2. NewMessage
      BY <2>4, <3>1
    <3>3. upload' \in Upload /\ upload'.sequence = PendingSequence(p.store, "BLYNK")
      BY <1>6, <2>4, <3>1 DEF Upload
    <3>4. timer' \in [{"upload", "mqtt", "edgent"} -> {"off", "running", "elapsed"}]
      BY <1>6, <2>4
    <3>5. acks["BLYNK"] < MAX_RECORD_UPLOADS_PER_CYCLE
      BY <1>6, <2>4, WithinRecordLimit DEF Destination
    <3> QED BY <1>1, <1>4, <1>6, <2>1, <2>2, <2>4, <3>2, <3>3, <3>4, <3>5, FinishTypes
            DEF Destination
  <2> QED BY <2>3, <2>4 DEF BeginOfflineRecordUpload, SendRecordToBlynk
<1>12. Outcome
  BY <1>2, <1>7, <1>8, <1>9, <1>10, <1>11
<1>13. Control'
  BY <1>0, <1>1, <1>12 DEF Control
<1>14. Links'
  <2>1. uplink' \in Seq(Message)
    <3>1. CASE uplink' = uplink
      BY <1>6, <3>1
    <3>2. CASE NewMessage
      <4>1. PICK m \in Message : uplink' = Append(uplink, m)
        BY <3>2
      <4> QED BY <1>6, <4>1
    <3> QED BY <1>12, <3>1, <3>2
  <2> QED BY <1>0, <1>1, <1>12, <2>1 DEF Links
<1>15. StoreOK'
  BY <1>2, <1>4, <1>12 DEF StoreOK, RecordOf
<1>16. Limits'
  BY <1>0, <1>12 DEF IInv, Limits
<1>17. Uploading' /\ UploadTracksPending' /\ Cycling'
  BY <1>0, <1>1, <1>2, <1>12 DEF IInv, Uploading, UploadTracksPending, Cycling
<1>18. Messages'
  <2>1. \A i \in DOMAIN uplink' : uplink'[i] # SyncV21 => uplink'[i].cycle # 0
    <3>1. CASE uplink' = uplink
      BY <3>1 DEF IInv, Messages
    <3>2. CASE NewMessage
      <4>1. PICK m \in Message : uplink' = Append(uplink, m) /\ (m = SyncV21 \/ m.cycle # 0)
        BY <3>2
      <4>2. /\ DOMAIN uplink' = 1 .. Len(uplink) + 1 /\ DOMAIN uplink = 1 .. Len(uplink)
            /\ \A i \in 1 .. Len(uplink) : uplink'[i] = uplink[i]
            /\ uplink'[Len(uplink) + 1] = m /\ Len(uplink) \in Nat
        BY <1>6, <4>1
      <4> QED BY <4>1, <4>2 DEF IInv, Messages
    <3> QED BY <1>12, <3>1, <3>2
  <2> QED BY <1>0, <2>1 DEF IInv, Messages
<1> QED BY <1>13, <1>14, <1>15, <1>16, <1>17, <1>18 DEF IInv

LEMMA BlynkLinkKeeps == IInv /\ (BlynkConnects \/ BlynkDrops) => IInv'
<1> SUFFICES ASSUME IInv, BlynkConnects \/ BlynkDrops PROVE IInv'
  OBVIOUS
<1>1. /\ upload' = upload \/ upload' = [upload EXCEPT !.synced = FALSE]
      /\ uplink' = <<>> \/ (uplink' = <<SyncV21>> /\ phase = "measured")
      /\ downlink' = <<>> \/ downlink' = downlink
      /\ blynkConnected' \in BOOLEAN
      /\ UNCHANGED <<phase, cycle, mode, stayAwake, store, record, cycleUploaded, finished,
                     acks, timer, cloudSequence, mqtt, received>>
  BY DEF BlynkConnects, BlynkDrops, cycleVars
<1>2. upload' \in Upload /\ upload'.state = upload.state /\ upload'.sequence = upload.sequence
  BY <1>1 DEF IInv, Links, Upload
<1>3. uplink' \in Seq(Message) /\ \A i \in DOMAIN uplink' : uplink'[i] = SyncV21
  <2>1. SyncV21 \in Message
    BY DEF SyncV21, Message
  <2>2. CASE uplink' = <<>>
    BY <2>2
  <2>3. CASE uplink' = <<SyncV21>>
    <3> DEFINE m == SyncV21
    <3>1. m \in Message /\ uplink' = <<m>>
      BY <2>1, <2>3
    <3> HIDE DEF m
    <3>2. uplink' \in Seq(Message) /\ \A i \in DOMAIN uplink' : uplink'[i] = m
      BY <3>1
    <3> QED BY <3>2 DEF m
  <2> QED BY <1>1, <2>2, <2>3
<1>4. Control' /\ Links'
  <2>1. downlink' \in Seq(Nat)
    <3>1. CASE downlink' = <<>>
      BY <3>1
    <3>2. CASE downlink' = downlink
      BY <3>2 DEF IInv, Links
    <3> QED BY <1>1, <3>1, <3>2
  <2> QED BY <1>1, <1>2, <1>3, <2>1 DEF IInv, Control, Links
<1>5. StoreOK' /\ Limits' /\ Uploading' /\ UploadTracksPending' /\ Cycling'
  BY <1>1, <1>2 DEF IInv, StoreOK, Limits, WithinUploadLimit, Uploading,
                    UploadTracksPending, Cycling
<1>6. Messages'
  BY <1>1, <1>3 DEF IInv, Messages
<1> QED BY <1>4, <1>5, <1>6 DEF IInv

LEMMA BlynkWriteV21Keeps == IInv /\ BlynkWriteV21 => IInv'
<1> SUFFICES ASSUME IInv, BlynkWriteV21 PROVE IInv'
  OBVIOUS
<1>1. /\ downlink # <<>> /\ downlink' = Tail(downlink)
      /\ \E a \in BOOLEAN : upload' = [upload EXCEPT !.synced = TRUE, !.acknowledged = a]
      /\ UNCHANGED <<phase, cycle, mode, stayAwake, store, record, cycleUploaded, finished,
                     acks, timer, blynkConnected, uplink, cloudSequence, mqtt, received>>
  <2>1. upload.acknowledged \in BOOLEAN
    BY DEF IInv, Links, Upload
  <2>2. (upload.acknowledged \/ (/\ upload.state = "WAITING_FOR_ACK"
                                 /\ upload.sequence = Head(downlink))) \in BOOLEAN
    OBVIOUS
  <2> QED BY <2>1, <2>2 DEF BlynkWriteV21
<1>2. upload' \in Upload /\ upload'.state = upload.state /\ upload'.sequence = upload.sequence
  BY <1>1 DEF IInv, Links, Upload
<1>3. downlink' \in Seq(Nat)
  BY <1>1 DEF IInv, Links
<1>4. Control' /\ Links'
  BY <1>1, <1>2, <1>3 DEF IInv, Control, Links
<1>5. StoreOK' /\ Limits' /\ Uploading' /\ UploadTracksPending' /\ Messages' /\ Cycling'
  BY <1>1, <1>2 DEF IInv, StoreOK, Limits, WithinUploadLimit, Uploading,
                    UploadTracksPending, Messages, Cycling
<1> QED BY <1>4, <1>5 DEF IInv

LEMMA BlynkWriteV6Keeps == IInv /\ BlynkWriteV6 => IInv'
<1> SUFFICES ASSUME IInv, BlynkWriteV6 PROVE IInv'
  OBVIOUS
<1>1. /\ Proper(store) /\ store' \in RewriteOutcomes(store, record)
      /\ UNCHANGED <<phase, cycle, mode, stayAwake, record, cycleUploaded, finished, acks,
                     upload, timer, blynkConnected, uplink, downlink, cloudSequence, mqtt,
                     received>>
  BY DEF BlynkWriteV6, IInv, StoreOK, cycleVars, cloudVars
<1>2. SameRecords(store, store')
  BY <1>1, RewriteKeeps
<1>3. StoreOK'
  BY <1>1, <1>2 DEF IInv, StoreOK, RecordOf, SameRecords, Shrinks, Follows
<1>4. UploadTracksPending'
  <2> DEFINE p == [store |-> store', record |-> record]
  <2>1. SameRecords(store, p.store)
    BY <1>2
  <2>2. upload.state # "IDLE" =>
            HasPending(p.store, "BLYNK") /\ PendingSequence(p.store, "BLYNK") = upload.sequence
    BY <1>1, <2>1, PreparedTracks DEF IInv
  <2> QED BY <1>1, <2>2 DEF UploadTracksPending
<1>5. Control' /\ Links' /\ Limits' /\ Uploading' /\ Messages' /\ Cycling'
  BY <1>1 DEF IInv, Control, Links, Limits, WithinUploadLimit, Uploading, Messages, Cycling
<1> QED BY <1>3, <1>4, <1>5 DEF IInv

LEMMA CloudKeeps == IInv /\ CloudHandles => IInv'
<1> SUFFICES ASSUME IInv, CloudHandles PROVE IInv'
  OBVIOUS
<1>1. /\ uplink # <<>> /\ uplink' = Tail(uplink)
      /\ UNCHANGED <<phase, cycle, mode, stayAwake, store, record, cycleUploaded, finished,
                     acks, upload, timer, blynkConnected, mqtt>>
  BY DEF CloudHandles, cycleVars
<1>2. /\ uplink \in Seq(Message) /\ downlink \in Seq(Nat) /\ cloudSequence \in Nat
      /\ received \in [Destination -> SUBSET Cycle] /\ Len(uplink) \in Nat /\ Len(uplink) > 0
      /\ Head(uplink) = uplink[1] /\ uplink[1] \in Message
  <2>1. uplink \in Seq(Message)
    BY DEF IInv, Links
  <2>2. Len(uplink) \in Nat /\ Len(uplink) > 0
    BY <1>1, <2>1, EmptySeq
  <2> QED BY <2>1, <2>2 DEF IInv, Links
<1>3. /\ uplink' \in Seq(Message) /\ DOMAIN uplink' = 1 .. Len(uplink) - 1
      /\ \A i \in 1 .. Len(uplink) - 1 : uplink'[i] = uplink[i + 1]
  BY <1>1, <1>2, HeadTailProperties
<1>4. \A i \in DOMAIN uplink' : uplink'[i] # SyncV21 => uplink'[i].cycle # 0
  <2>1. ASSUME NEW i \in DOMAIN uplink' PROVE i + 1 \in DOMAIN uplink /\ uplink'[i] = uplink[i + 1]
    BY <1>2, <1>3, <2>1
  <2> QED BY <2>1 DEF IInv, Messages
<1>5. downlink' \in Seq(Nat) /\ cloudSequence' \in Nat
  <2>1. CASE Head(uplink) = SyncV21
    <3>1. downlink' = Append(downlink, cloudSequence) /\ cloudSequence' = cloudSequence
      BY <2>1 DEF CloudHandles
    <3> QED BY <1>2, <3>1
  <2>2. CASE Head(uplink) # SyncV21
    <3>1. downlink' = downlink /\ cloudSequence' = Head(uplink).sequence
      BY <2>2 DEF CloudHandles
    <3>2. Head(uplink).sequence \in Nat
      BY <1>2 DEF Message
    <3> QED BY <1>2, <3>1, <3>2
  <2> QED BY <2>1, <2>2
<1>6. received' \in [Destination -> SUBSET Cycle]
  <2>1. CASE Head(uplink) = SyncV21
    BY <1>2, <2>1 DEF CloudHandles
  <2>2. CASE Head(uplink) # SyncV21
    <3>1. Head(uplink).cycle \in Cycle
      BY <1>2, <2>2 DEF IInv, Messages, Message
    <3>2. received' = [received EXCEPT !["BLYNK"] = @ \cup {Head(uplink).cycle}]
      BY <2>2 DEF CloudHandles
    <3> QED BY <1>2, <3>1, <3>2
  <2> QED BY <2>1, <2>2
<1>7. Control' /\ Links'
  BY <1>1, <1>3, <1>5, <1>6 DEF IInv, Control, Links
<1>8. StoreOK' /\ Limits' /\ Uploading' /\ UploadTracksPending' /\ Cycling'
  BY <1>1 DEF IInv, StoreOK, Limits, WithinUploadLimit, Uploading, UploadTracksPending, Cycling
<1>9. Messages'
  BY <1>1, <1>4 DEF IInv, Messages
<1> QED BY <1>7, <1>8, <1>9 DEF IInv

-----------------------------------------------------------------------------
(* The upload to MQTT. *)

LEMMA MqttServiceKeeps == IInv /\ ServiceMqttOfflineUpload => IInv'
<1> SUFFICES ASSUME IInv, ServiceMqttOfflineUpload PROVE IInv'
  OBVIOUS
<1>0. /\ phase = "measured" /\ Uses("MQTT")
      /\ UNCHANGED <<phase, cycle, mode, stayAwake, upload, blynkConnected, uplink, downlink,
                     cloudSequence, received>>
  BY DEF ServiceMqttOfflineUpload, cloudVars
<1>1. /\ Control /\ Links /\ Proper(store) /\ record \in RecordOf(store) /\ cycle \in Cycle
  BY <1>0 DEF IInv, StoreOK, Control, Cycling, Cycle
<1>2. PICK p \in Prepared :
          /\ record' = p.record
          /\ TakeAcknowledgedSequence(p) \/ MqttDeadline(p) \/ PublishNext(p) \/ MqttWaits(p)
  BY DEF ServiceMqttOfflineUpload
<1>3. Saves(store, record, p)
  BY <1>1, PreparedSaves
<1>4. Proper(p.store) /\ p.record \in RecordOf(p.store) /\ p.record.sequence \in Nat
  BY <1>3, StoreFacts DEF Saves, Follows, RecordOf
<1>5. upload.state # "IDLE" =>
          /\ p.record = record /\ record.queued /\ mode # "MQTT_ONLY"
          /\ HasPending(p.store, "BLYNK") /\ PendingSequence(p.store, "BLYNK") = upload.sequence
  BY <1>1, <1>3, PreparedTracks DEF Saves, IInv, Uploading
<1>6. mqtt \in Tracker /\ acks \in [Destination -> Nat] /\ WithinUploadLimit
  BY <1>1 DEF Links, Control, IInv, Limits
<1> DEFINE Outcome ==
               /\ Proper(store') /\ store'.nextSequence = p.store.nextSequence
               /\ mqtt' \in Tracker
               /\ mqtt'.pending => /\ mqtt'.cycle # 0
                                   /\ acks'["MQTT"] < MAX_RECORD_UPLOADS_PER_CYCLE
               /\ mqtt'.acknowledged => mqtt'.pending
               /\ finished' \in [Destination -> BOOLEAN] /\ cycleUploaded' \in BOOLEAN
               /\ acks' \in [Destination -> Nat] /\ WithinUploadLimit'
               /\ acks'["BLYNK"] = acks["BLYNK"]
               /\ upload.state # "IDLE" =>
                      /\ HasPending(store', "BLYNK")
                      /\ PendingSequence(store', "BLYNK") = upload.sequence
<1>7. TakeAcknowledgedSequence(p) => Outcome
  <2> SUFFICES ASSUME TakeAcknowledgedSequence(p) PROVE Outcome
    OBVIOUS
  <2>1. mqtt' \in Tracker /\ ~mqtt'.pending /\ ~mqtt'.acknowledged
    BY <1>6 DEF TakeAcknowledgedSequence, Untracked, Tracker
  <2>2. acks["MQTT"] < MAX_RECORD_UPLOADS_PER_CYCLE /\ acks["MQTT"] \in Nat
    BY <1>6 DEF TakeAcknowledgedSequence, IInv, Limits, Destination
  <2>3. CASE TakeRamPuback(p)
    <3>1. /\ store' = p.store
          /\ Finish("MQTT") \/ NotFinished
          /\ acks' = acks \/ acks' = [acks EXCEPT !["MQTT"] = @ + 1]
      BY <2>3 DEF TakeRamPuback
    <3>2. acks' \in [Destination -> Nat] /\ acks'["BLYNK"] = acks["BLYNK"]
      BY <1>6, <3>1 DEF Destination
    <3>3. WithinUploadLimit'
      <4>1. \A d \in Destination : acks'[d] = acks[d] \/ (d = "MQTT" /\ acks'[d] = acks["MQTT"] + 1)
        BY <1>6, <3>1
      <4> QED BY <1>6, <2>2, <4>1, Bounds DEF WithinUploadLimit
    <3> QED BY <1>1, <1>4, <1>5, <2>1, <3>1, <3>2, <3>3, FinishTypes DEF Destination
  <2>4. CASE RecordDurableDeliveryAcknowledgement(p.store, mqtt.sequence, "MQTT")
    <3>1. /\ Proper(store') /\ store'.nextSequence = p.store.nextSequence
          /\ acks' \in [Destination -> Nat] /\ WithinUploadLimit' /\ acks'["BLYNK"] = acks["BLYNK"]
          /\ finished' \in [Destination -> BOOLEAN] /\ cycleUploaded' \in BOOLEAN
      BY <1>1, <1>4, <1>6, <2>2, <2>4, DurableStep DEF Destination
    <3>2. PICK o \in AcknowledgeOutcomes(p.store, mqtt.sequence, "MQTT") : store' = o.store
      BY <2>4 DEF RecordDurableDeliveryAcknowledgement
    <3>3. ASSUME upload.state # "IDLE"
          PROVE  HasPending(store', "BLYNK") /\ PendingSequence(store', "BLYNK") = upload.sequence
      <4>1. CASE o.store = p.store
        BY <1>5, <3>2, <3>3, <4>1
      <4>2. CASE o.store # p.store
        <5> DEFINE m == [p.store EXCEPT !.cursor["MQTT"] = mqtt.sequence]
        <5>1. /\ SameQueue(p.store, m) /\ Proper(m)
              /\ m.cursor = [p.store.cursor EXCEPT !["MQTT"] = mqtt.sequence]
              /\ Trims(m, store', RequiredMask(mode))
          BY <1>4, <3>2, <4>2, AcknowledgeMoves DEF Destination
        <5> HIDE DEF m
        <5>2. "BLYNK" \in RequiredMask(mode)
          BY <1>1, <1>5, <3>3 DEF Control, RequiredMask, Destination
        <5>3. m.cursor["BLYNK"] = p.store.cursor["BLYNK"]
          BY <1>4, <5>1, StoreFacts DEF Destination
        <5>4. HasPending(m, "BLYNK") /\ PendingSequence(m, "BLYNK") = upload.sequence
          BY <1>5, <3>3, <5>1, <5>3 DEF HasPending, PendingSequence, PendingAt, SequenceAt, SameQueue
        <5> QED BY <5>1, <5>2, <5>4, TrimKeepsPending DEF Destination
      <4> QED BY <4>1, <4>2
    <3> QED BY <2>1, <3>1, <3>3
  <2> QED BY <2>3, <2>4 DEF TakeAcknowledgedSequence
<1>8. MqttDeadline(p) \/ MqttWaits(p) => Outcome
  <2> SUFFICES ASSUME MqttDeadline(p) \/ MqttWaits(p) PROVE Outcome
    OBVIOUS
  <2>1. store' = p.store /\ acks' = acks /\ mqtt' = mqtt /\ (Finish("MQTT") \/ NotFinished)
    BY DEF MqttDeadline, MqttWaits
  <2>2. WithinUploadLimit'
    BY <1>6, <2>1 DEF WithinUploadLimit
  <2> QED BY <1>1, <1>4, <1>5, <1>6, <2>1, <2>2, FinishTypes DEF IInv, Limits, Messages, Destination
<1>9. PublishNext(p) => Outcome
  <2> SUFFICES ASSUME PublishNext(p) PROVE Outcome
    OBVIOUS
  <2>1. store' = p.store /\ acks' = acks /\ (Finish("MQTT") \/ NotFinished) /\ ~mqtt.pending
    BY DEF PublishNext
  <2>2. WithinUploadLimit'
    BY <1>6, <2>1 DEF WithinUploadLimit
  <2>3. ~mqtt.acknowledged
    BY <2>1 DEF IInv, Messages
  <2>4. CASE mqtt' = mqtt
    BY <1>1, <1>4, <1>5, <1>6, <2>1, <2>2, <2>3, <2>4, FinishTypes DEF Destination
  <2>5. CASE mqtt' # mqtt
    <3>1. acks["MQTT"] < MAX_RECORD_UPLOADS_PER_CYCLE
      BY <1>6, <2>5, WithinRecordLimit DEF PublishNext, Destination
    <3>2. \E r \in Message : /\ r.cycle # 0
                             /\ mqtt' = [mqtt EXCEPT !.pending = TRUE, !.sequence = r.sequence,
                                                     !.cycle = r.cycle]
      <4>1. CASE PublishMqttRecord([cycle |-> cycle, sequence |-> p.record.sequence])
        <5>1. [cycle |-> cycle, sequence |-> p.record.sequence] \in Message /\ cycle # 0
          BY <1>1, <1>4 DEF Message, Cycle
        <5> QED BY <2>5, <4>1, <5>1 DEF PublishMqttRecord
      <4>2. CASE HasPending(p.store, "MQTT") /\ PublishMqttRecord(PendingRecord(p.store, "MQTT"))
        <5> DEFINE x == NextFor(p.store, "MQTT")
        <5>1. /\ x \in Nat /\ x \in Live(p.store)
              /\ PendingRecord(p.store, "MQTT") = [cycle |-> CycleAt(p.store, x), sequence |-> x]
          BY <1>4, <4>2, PendingFacts DEF Destination
        <5>2. CycleAt(p.store, x) \in Cycle
          BY <1>4, <5>1, LiveFacts
        <5> HIDE DEF x
        <5>3. PendingRecord(p.store, "MQTT") \in Message /\ PendingRecord(p.store, "MQTT").cycle # 0
          BY <5>1, <5>2 DEF Message, Cycle
        <5> QED BY <2>5, <4>2, <5>3 DEF PublishMqttRecord
      <4> QED BY <2>5, <4>1, <4>2 DEF PublishNext
    <3>3. mqtt' \in Tracker /\ mqtt'.pending /\ mqtt'.cycle # 0
      BY <1>6, <3>2 DEF Tracker, Message
    <3> QED BY <1>1, <1>4, <1>5, <1>6, <2>1, <2>2, <3>1, <3>3, FinishTypes DEF Destination
  <2> QED BY <2>4, <2>5
<1>10. Outcome
  BY <1>2, <1>7, <1>8, <1>9
<1>11. Control'
  <2>1. timer' \in [{"upload", "mqtt", "edgent"} -> {"off", "running", "elapsed"}]
    BY <1>1 DEF ServiceMqttOfflineUpload, Control
  <2> QED BY <1>0, <1>1, <1>10, <2>1 DEF Control
<1>12. Links'
  BY <1>0, <1>1, <1>10 DEF Links
<1>13. StoreOK'
  BY <1>2, <1>4, <1>10 DEF StoreOK, RecordOf
<1>14. Limits'
  BY <1>0, <1>10 DEF IInv, Limits
<1>15. Uploading' /\ UploadTracksPending'
  BY <1>0, <1>2, <1>5, <1>10 DEF IInv, Uploading, UploadTracksPending
<1>16. Messages' /\ Cycling'
  BY <1>0, <1>10 DEF IInv, Messages, Cycling
<1> QED BY <1>11, <1>12, <1>13, <1>14, <1>15, <1>16 DEF IInv

LEMMA BrokerKeeps == IInv /\ (MqttLink \/ BrokerReceives \/ OnPublished) => IInv'
<1> SUFFICES ASSUME IInv, MqttLink \/ BrokerReceives \/ OnPublished PROVE IInv'
  OBVIOUS
<1>1. UNCHANGED <<phase, cycle, mode, stayAwake, store, record, cycleUploaded, finished, acks,
                  upload, timer, blynkConnected, uplink, downlink, cloudSequence>>
  BY DEF MqttLink, BrokerReceives, OnPublished, cycleVars, cloudVars
<1>2. mqtt' \in Tracker /\ mqtt'.pending = mqtt.pending /\ mqtt'.cycle = mqtt.cycle
  BY DEF MqttLink, BrokerReceives, OnPublished, IInv, Links, Tracker
<1>3. mqtt'.acknowledged => mqtt'.pending
  BY DEF MqttLink, BrokerReceives, OnPublished, IInv, Links, Messages, Tracker
<1>4. received' \in [Destination -> SUBSET Cycle]
  <2>1. received \in [Destination -> SUBSET Cycle] /\ mqtt \in Tracker
    BY DEF IInv, Links
  <2>2. CASE BrokerReceives
    <3>1. mqtt.cycle \in Cycle
      BY <2>1, <2>2 DEF BrokerReceives, IInv, Messages, Tracker
    <3> QED BY <2>1, <2>2, <3>1 DEF BrokerReceives
  <2>3. CASE received' = received
    BY <2>1, <2>3
  <2> QED BY <2>2, <2>3 DEF MqttLink, OnPublished
<1>5. Control' /\ Links'
  BY <1>1, <1>2, <1>4 DEF IInv, Control, Links
<1>6. StoreOK' /\ Limits' /\ Uploading' /\ UploadTracksPending' /\ Cycling'
  BY <1>1, <1>2 DEF IInv, StoreOK, Limits, WithinUploadLimit, Uploading, UploadTracksPending, Cycling
<1>7. Messages'
  BY <1>1, <1>2, <1>3 DEF IInv, Messages
<1> QED BY <1>5, <1>6, <1>7 DEF IInv

-----------------------------------------------------------------------------
(* Users and time. *)

LEMMA MqttOnKeeps == IInv /\ MqttOn => IInv'
<1> SUFFICES ASSUME IInv, MqttOn PROVE IInv'
  OBVIOUS
<1>1. /\ mode' = "BOTH" /\ finished' \in [Destination -> BOOLEAN]
      /\ timer' \in [{"upload", "mqtt", "edgent"} -> {"off", "running", "elapsed"}]
      /\ UNCHANGED <<phase, cycle, stayAwake, store, record, cycleUploaded, acks, upload,
                     blynkConnected, uplink, downlink, cloudSequence, received>>
  BY DEF MqttOn, IInv, Control, cloudVars
<1>2. /\ mqtt' \in Tracker /\ mqtt'.pending = mqtt.pending /\ mqtt'.cycle = mqtt.cycle
      /\ mqtt'.acknowledged = mqtt.acknowledged
  <2>1. PICK i \in BOOLEAN : mqtt' = [mqtt EXCEPT !.initialized = i]
    BY DEF MqttOn, IInv, Links, Tracker
  <2> QED BY <2>1 DEF IInv, Links, Tracker
<1>3. Control' /\ Links'
  BY <1>1, <1>2 DEF IInv, Control, Links
<1>4. StoreOK' /\ Limits' /\ Uploading' /\ UploadTracksPending' /\ Messages' /\ Cycling'
  BY <1>1, <1>2 DEF IInv, StoreOK, Limits, WithinUploadLimit, Uploading,
                    UploadTracksPending, Messages, Cycling
<1> QED BY <1>3, <1>4 DEF IInv

LEMMA MqttOffKeeps == IInv /\ MqttOff => IInv'
<1> SUFFICES ASSUME IInv, MqttOff PROVE IInv'
  OBVIOUS
<1>1. /\ mode' = "BLYNK_ONLY" /\ finished' \in [Destination -> BOOLEAN]
      /\ cycleUploaded' \in BOOLEAN
      /\ timer' \in [{"upload", "mqtt", "edgent"} -> {"off", "running", "elapsed"}]
      /\ UNCHANGED <<phase, cycle, stayAwake, record, acks, upload, blynkConnected, uplink,
                     downlink, cloudSequence, received>>
  BY DEF MqttOff, IInv, Control, cloudVars
<1>2. mqtt' \in Tracker /\ ~mqtt'.pending /\ ~mqtt'.acknowledged
  BY DEF MqttOff, IInv, Links, Untracked, Tracker
<1>3. Trims(store, store', {"BLYNK"})
  BY ReconcileTrims DEF MqttOff, IInv, StoreOK
<1>4. StoreOK'
  BY <1>1, <1>3 DEF IInv, StoreOK, RecordOf, Trims, Shrinks, Follows
<1>5. UploadTracksPending'
  BY <1>1, <1>3, TrimKeepsPending DEF IInv, StoreOK, UploadTracksPending, Destination
<1>6. Control' /\ Links'
  BY <1>1, <1>2 DEF IInv, Control, Links
<1>7. Limits' /\ Uploading' /\ Messages' /\ Cycling'
  BY <1>1, <1>2 DEF IInv, Limits, WithinUploadLimit, Uploading, Messages, Cycling
<1> QED BY <1>4, <1>5, <1>6, <1>7 DEF IInv

\* "offline clear" follows the store: no record is left.
LEMMA ClearFollows ==
    ASSUME NEW s, Proper(s), NEW t, t = [s EXCEPT !.queue = <<>>]
    PROVE  Follows(s, t) /\ t.nextSequence = s.nextSequence /\ t.cursor = s.cursor
<1>1. Len(s.queue) \in Nat /\ s.nextSequence \in Nat \ {0} /\ s.dropped \in Nat
  BY StoreFacts
<1>2. /\ t.queue = <<>> /\ t.ready = s.ready /\ t.nextSequence = s.nextSequence
      /\ t.dropped = s.dropped /\ t.cursor = s.cursor
  BY DEF Proper, Store
<1>3. t \in Store
  <2>1. t.queue \in Seq([cycle : Cycle, readable : BOOLEAN])
    BY <1>2
  <2> QED BY <1>2, <2>1 DEF Proper, Store
<1>4. Len(t.queue) = 0
  BY <1>2
<1>5. Proper(t)
  BY <1>1, <1>2, <1>3, <1>4, Bounds DEF Proper
<1>6. Live(t) = {}
  BY <1>2, <1>5, LiveFacts
<1> QED BY <1>1, <1>2, <1>5, <1>6 DEF Follows

LEMMA ClearKeeps == IInv /\ OfflineClear => IInv'
<1> SUFFICES ASSUME IInv, OfflineClear PROVE IInv'
  OBVIOUS
<1>1. /\ finished' \in [Destination -> BOOLEAN] /\ cycleUploaded' \in BOOLEAN
      /\ timer' \in [{"upload", "mqtt", "edgent"} -> {"off", "running", "elapsed"}]
      /\ UNCHANGED <<phase, cycle, mode, stayAwake, record, acks, blynkConnected, uplink,
                     downlink, cloudSequence, mqtt, received>>
  BY DEF OfflineClear, IInv, Control, cloudVars
<1>2. upload' \in Upload /\ upload'.state = "IDLE"
  BY DEF OfflineClear, IInv, Links, Upload, NoUpload
<1>3. Follows(store, store') /\ store'.nextSequence = store.nextSequence
  BY ClearFollows DEF OfflineClear, IInv, StoreOK
<1>4. StoreOK'
  BY <1>1, <1>3 DEF IInv, StoreOK, RecordOf, Follows
<1>5. Control' /\ Links'
  BY <1>1, <1>2 DEF IInv, Control, Links
<1>6. Limits' /\ Uploading' /\ UploadTracksPending' /\ Messages' /\ Cycling'
  BY <1>1, <1>2 DEF IInv, Limits, WithinUploadLimit, Uploading, UploadTracksPending,
                    Messages, Cycling
<1> QED BY <1>4, <1>5, <1>6 DEF IInv

LEMMA TimeKeeps == IInv /\ (SetDeepSleepDisabled \/ Time) => IInv'
<1> SUFFICES ASSUME IInv, SetDeepSleepDisabled \/ Time PROVE IInv'
  OBVIOUS
<1>1. /\ timer' \in [{"upload", "mqtt", "edgent"} -> {"off", "running", "elapsed"}]
      /\ stayAwake' \in BOOLEAN
      /\ UNCHANGED <<phase, cycle, mode, store, record, cycleUploaded, finished, acks, upload,
                     blynkConnected, uplink, downlink, cloudSequence, mqtt, received>>
  BY DEF SetDeepSleepDisabled, Time, ArmEdgentConnectTimeout, Elapses, IInv, Control, cloudVars
<1>2. Control' /\ Links'
  BY <1>1 DEF IInv, Control, Links
<1>3. StoreOK' /\ Limits' /\ Uploading' /\ UploadTracksPending' /\ Messages' /\ Cycling'
  BY <1>1 DEF IInv, StoreOK, Limits, WithinUploadLimit, Uploading,
              UploadTracksPending, Messages, Cycling
<1> QED BY <1>2, <1>3 DEF IInv

-----------------------------------------------------------------------------
LEMMA Inductive == IInv /\ [Next]_vars => IInv'
<1> SUFFICES ASSUME IInv, [Next]_vars PROVE IInv'
  OBVIOUS
<1>1. CASE Cycles
  BY <1>1, WakeUpKeeps, NextSlotKeeps, MeasurementsKeep, DrainPassKeeps, SleepKeeps DEF Cycles
<1>2. CASE Blynk
  BY <1>2, BlynkServiceKeeps, BlynkLinkKeeps, BlynkWriteV21Keeps, BlynkWriteV6Keeps, CloudKeeps
     DEF Blynk
<1>3. CASE Mqtt
  BY <1>3, MqttServiceKeeps, BrokerKeeps DEF Mqtt
<1>4. CASE Users
  BY <1>4, MqttOnKeeps, MqttOffKeeps, ClearKeeps, TimeKeeps DEF Users
<1>5. CASE Time
  BY <1>5, TimeKeeps
<1>6. CASE UNCHANGED vars
  BY <1>6 DEF vars, IInv, Control, Links, StoreOK, Limits, WithinUploadLimit, Uploading,
              UploadTracksPending, Messages, Cycling
<1> QED BY <1>1, <1>2, <1>3, <1>4, <1>5, <1>6 DEF Next

LEMMA Invariance == Spec => []IInv
BY InitParts, Inductive, PTL DEF Spec

\* The globals, the store and the links keep their types, whatever calls fail.
THEOREM TypeCorrect == Spec => []TypeOK
<1>1. IInv => TypeOK
  BY TypeParts DEF IInv
<1> QED BY <1>1, Invariance, PTL

\* No cycle acknowledges more records of a destination than the limit, late ones included.
THEOREM UploadsAreLimited == Spec => []WithinUploadLimit
<1>1. IInv => WithinUploadLimit
  BY DEF IInv, Limits
<1> QED BY <1>1, Invariance, PTL

\* The record that a Blynk upload waits for stays the oldest one that Blynk lacks.
THEOREM UploadStaysPending == Spec => []UploadTracksPending
<1>1. IInv => UploadTracksPending
  BY DEF IInv
<1> QED BY <1>1, Invariance, PTL

-----------------------------------------------------------------------------
(***************************************************************************)
(* What the acknowledgements stand for.  An enqueue that makes room and    *)
(* then fails leaves a record in RAM with the sequence of the next cycle's *)
(* record, so from here on "enqueue" does not fail.                        *)
(***************************************************************************)
\* The newest cycle that the queue may hold.
Newest(p, r, c) == IF p # "asleep" /\ ~r.queued THEN c - 1 ELSE c
NewestQueued == Newest(phase, record, cycle)

\* The live records are in the order of the cycles that measured them.
Orders(s, n) ==
    /\ \A q, r \in Live(s) : q < r => CycleAt(s, q) < CycleAt(s, r)
    /\ \A q \in Live(s) : CycleAt(s, q) <= n

\* A cursor passes only what its destination has received.
CursorsKnown(s, R) ==
    \A d \in Destination : \A q \in Live(s) : q <= s.cursor[d] => CycleAt(s, q) \in R[d]

\* The live record of the sequence q, if any, is among the received cycles R.
Known(s, R, q) == q < s.nextSequence /\ (q \in Live(s) => CycleAt(s, q) \in R)

\* A message with sequence q and cycle c: it is that very record, and those before it
\* have been received.
Carries(s, R, n, q, c) ==
    /\ q < s.nextSequence
    /\ q = 0 => ~s.ready
    /\ q # 0 => c <= n
    /\ \A e \in Live(s) : CycleAt(s, e) = c <=> e = q
    /\ q \in Live(s) => \A e \in Live(s) : e < q => CycleAt(s, e) \in R

Flight(s, R, n, up) ==
    \A i \in DOMAIN up : up[i] # SyncV21 =>
        Carries(s, R["BLYNK"], n, up[i].sequence, up[i].cycle)

Replies(s, R, down, cloud, u) ==
    /\ \A i \in DOMAIN down : Known(s, R["BLYNK"], down[i])
    /\ Known(s, R["BLYNK"], cloud)
    /\ u.acknowledged => Known(s, R["BLYNK"], u.sequence)

Publishes(s, R, n, m) ==
    m.pending => /\ Carries(s, R["MQTT"], n, m.sequence, m.cycle)
                 /\ m.acknowledged => m.cycle \in R["MQTT"]

Sound ==
    /\ Orders(store, NewestQueued) /\ CursorsKnown(store, received)
    /\ Flight(store, received, NewestQueued, uplink)
    /\ Replies(store, received, downlink, cloudSequence, upload)
    /\ Publishes(store, received, NewestQueued, mqtt)
    /\ record.queued => store.ready
    /\ ~record.queued => record.sequence = 0

\* t follows s, and its new record, if any, is newer than n and not newer than k.
Continues(s, t, n, k) ==
    /\ Follows(s, t) /\ n \in Int /\ k \in Int /\ n <= k
    /\ \A e \in Live(t) : e >= s.nextSequence =>
           s.ready /\ e = s.nextSequence /\ n < CycleAt(t, e) /\ CycleAt(t, e) <= k

LEMMA KnownKept ==
    ASSUME NEW s, Proper(s), NEW t, Follows(s, t), NEW q \in Nat, NEW R, NEW Q, R \subseteq Q,
           Known(s, R, q)
    PROVE  Known(t, Q, q)
<1>1. s.nextSequence \in Nat /\ t.nextSequence \in Nat /\ t.nextSequence >= s.nextSequence
  BY StoreFacts DEF Follows
<1>2. q < s.nextSequence /\ q < t.nextSequence
  BY <1>1 DEF Known
<1> QED BY <1>2 DEF Known, Follows

LEMMA CarriesKept ==
    ASSUME NEW s, Proper(s), NEW t, NEW n, NEW k, Continues(s, t, n, k),
           NEW q \in Nat, NEW c \in Int, NEW R, NEW Q, R \subseteq Q, Carries(s, R, n, q, c)
    PROVE  Carries(t, Q, k, q, c)
<1>1. /\ s.nextSequence \in Nat /\ t.nextSequence \in Nat /\ t.nextSequence >= s.nextSequence
      /\ t.ready = s.ready /\ n \in Int /\ k \in Int /\ n <= k /\ Proper(t)
  BY StoreFacts DEF Continues, Follows
<1>2. q < s.nextSequence /\ q < t.nextSequence
  BY <1>1 DEF Carries
<1>3. q # 0 => c <= k
  BY <1>1 DEF Carries
<1>4. \A e \in Live(t) : e \in Int /\ CycleAt(t, e) \in Int
  BY <1>1, LiveFacts DEF Cycle
<1>5. ASSUME NEW e \in Live(t)
      PROVE  CycleAt(t, e) = c <=> e = q
  <2>1. CASE e < s.nextSequence
    BY <2>1 DEF Continues, Follows, Carries
  <2>2. CASE e >= s.nextSequence
    <3>1. s.ready /\ n < CycleAt(t, e)
      BY <2>2 DEF Continues
    <3>2. c <= n
      BY <3>1 DEF Carries
    <3>3. e # q
      BY <1>1, <1>2, <1>4, <2>2
    <3>4. CycleAt(t, e) # c
      BY <1>1, <1>4, <3>1, <3>2
    <3> QED BY <3>3, <3>4
  <2> QED BY <1>1, <1>4, <2>1, <2>2
<1>6. ASSUME q \in Live(t), NEW e \in Live(t), e < q
      PROVE  CycleAt(t, e) \in Q
  <2>1. e < s.nextSequence
    BY <1>1, <1>2, <1>4, <1>6
  <2>2. q \in Live(s) /\ e \in Live(s) /\ CycleAt(t, e) = CycleAt(s, e)
    BY <1>2, <1>6, <2>1 DEF Continues, Follows
  <2> QED BY <1>6, <2>2 DEF Carries
<1> QED BY <1>1, <1>2, <1>3, <1>5, <1>6 DEF Carries

LEMMA OrdersKept ==
    ASSUME NEW s, Proper(s), NEW t, NEW n, NEW k, Continues(s, t, n, k), Orders(s, n)
    PROVE  Orders(t, k)
<1>1. /\ s.nextSequence \in Nat /\ t.nextSequence \in Nat
      /\ n \in Int /\ k \in Int /\ n <= k /\ Proper(t)
  BY StoreFacts DEF Continues, Follows
<1>2. /\ \A e \in Live(t) : e \in Int /\ CycleAt(t, e) \in Int
      /\ \A e \in Live(s) : CycleAt(s, e) \in Int
  BY <1>1, LiveFacts DEF Cycle
<1>3. ASSUME NEW q \in Live(t)
      PROVE  \/ /\ q < s.nextSequence /\ q \in Live(s) /\ CycleAt(t, q) = CycleAt(s, q)
                /\ CycleAt(t, q) <= n
             \/ /\ q = s.nextSequence /\ n < CycleAt(t, q) /\ CycleAt(t, q) <= k
  <2>1. CASE q < s.nextSequence
    BY <2>1 DEF Continues, Follows, Orders
  <2>2. CASE q >= s.nextSequence
    BY <2>2 DEF Continues
  <2> QED BY <1>1, <1>2, <2>1, <2>2
<1>4. ASSUME NEW q \in Live(t) PROVE CycleAt(t, q) <= k
  BY <1>1, <1>2, <1>3
<1>5. ASSUME NEW q \in Live(t), NEW r \in Live(t), q < r
      PROVE  CycleAt(t, q) < CycleAt(t, r)
  <2>1. CASE r < s.nextSequence
    <3>1. q < s.nextSequence
      BY <1>1, <1>2, <1>5, <2>1
    <3>2. /\ q \in Live(s) /\ r \in Live(s) /\ CycleAt(t, q) = CycleAt(s, q)
          /\ CycleAt(t, r) = CycleAt(s, r)
      BY <2>1, <3>1 DEF Continues, Follows
    <3> QED BY <1>5, <3>2 DEF Orders
  <2>2. CASE r = s.nextSequence
    <3>1. q < s.nextSequence
      BY <1>5, <2>2
    <3>2. CycleAt(t, q) <= n /\ n < CycleAt(t, r)
      BY <1>1, <1>2, <1>3, <2>2, <3>1
    <3> QED BY <1>1, <1>2, <3>2
  <2> QED BY <1>3, <2>1, <2>2
<1> QED BY <1>4, <1>5 DEF Orders

LEMMA CursorsKept ==
    ASSUME NEW s, Proper(s), NEW t, Follows(s, t), t.cursor = s.cursor,
           NEW R, NEW Q, \A d \in Destination : R[d] \subseteq Q[d], CursorsKnown(s, R)
    PROVE  CursorsKnown(t, Q)
<1> SUFFICES ASSUME NEW d \in Destination, NEW q \in Live(t), q <= t.cursor[d]
             PROVE  CycleAt(t, q) \in Q[d]
  BY DEF CursorsKnown
<1>1. Proper(t) /\ s.nextSequence \in Nat /\ s.cursor[d] \in Nat /\ s.cursor[d] < s.nextSequence
  BY StoreFacts DEF Follows, Proper
<1>2. q \in Nat
  BY <1>1, LiveFacts
<1>3. q < s.nextSequence
  BY <1>1, <1>2
<1>4. q \in Live(s) /\ CycleAt(t, q) = CycleAt(s, q)
  BY <1>3 DEF Follows
<1> QED BY <1>4 DEF CursorsKnown

\* Every record that t has lost made room, or every destination of the mask has it.
Lost(s, t, R, mask) ==
    \A q \in Live(s) \ Live(t) : \/ q = Base(s) /\ t.dropped > s.dropped
                                 \/ \A d \in mask : CycleAt(s, q) \in R[d]

LEMMA PendingCarries ==
    ASSUME NEW s, Proper(s), NEW R, NEW n \in Int, Orders(s, n), CursorsKnown(s, R),
           NEW d \in Destination, HasPending(s, d)
    PROVE  LET x == NextFor(s, d)
           IN  Carries(s, R[d], n, x, CycleAt(s, x)) /\ x \in Nat /\ CycleAt(s, x) \in Cycle
<1> DEFINE x == NextFor(s, d)
<1>1. /\ x \in Nat \ {0} /\ x \in Live(s) /\ \A q \in Live(s) : q < x <=> q <= s.cursor[d]
      /\ CycleAt(s, x) \in Cycle
  BY PendingFacts, LiveFacts
<1>2. /\ \A e \in Live(s) : e \in Int /\ CycleAt(s, e) \in Int
      /\ s.nextSequence \in Nat /\ Base(s) \in Nat
  BY LiveFacts, StoreFacts DEF Cycle
<1> HIDE DEF x
<1>3. x < s.nextSequence
  BY <1>1, <1>2 DEF Live
<1>4. ASSUME NEW e \in Live(s) PROVE CycleAt(s, e) = CycleAt(s, x) <=> e = x
  <2>1. CASE e < x
    BY <1>1, <1>2, <2>1 DEF Orders
  <2>2. CASE x < e
    BY <1>1, <1>2, <2>2 DEF Orders
  <2>3. CASE e = x
    BY <2>3
  <2>4. e \in Int /\ x \in Int
    BY <1>1, <1>2
  <2> QED BY <2>1, <2>2, <2>3, <2>4
<1>5. \A e \in Live(s) : e < x => CycleAt(s, e) \in R[d]
  BY <1>1 DEF CursorsKnown
<1>6. CycleAt(s, x) <= n
  BY <1>1 DEF Orders
<1> QED BY <1>1, <1>3, <1>4, <1>5, <1>6 DEF Carries, x

LEMMA RamCarries ==
    ASSUME NEW s, Proper(s), NEW R, NEW n \in Int, Orders(s, n), ~s.ready, NEW c \in Int, n < c
    PROVE  Carries(s, R, n, 0, c)
<1>1. /\ \A e \in Live(s) : e # 0 /\ e \in Int /\ CycleAt(s, e) \in Int
      /\ s.nextSequence \in Nat \ {0}
  BY LiveFacts, StoreFacts DEF Cycle
<1>2. \A e \in Live(s) : CycleAt(s, e) # c
  BY <1>1 DEF Orders
<1>3. 0 \notin Live(s)
  BY <1>1
<1> QED BY <1>1, <1>2, <1>3 DEF Carries

LEMMA SameQueueFollows ==
    ASSUME NEW s, Proper(s), NEW t, Proper(t), SameQueue(s, t)
    PROVE  Follows(s, t) /\ Live(t) = Live(s) /\ \A q : CycleAt(t, q) = CycleAt(s, q)
<1>1. Base(t) = Base(s) /\ s.nextSequence \in Nat /\ s.dropped \in Nat
  BY StoreFacts DEF SameQueue, Base
<1> QED BY <1>1 DEF SameQueue, Follows, Live, CycleAt

\* An acknowledgement of a received record: the cursors still pass only what has been
\* received, and the trim removes only that.
LEMMA AcknowledgeIsSound ==
    ASSUME NEW s, Proper(s), NEW R, CursorsKnown(s, R), mode \in {"BLYNK_ONLY", "MQTT_ONLY", "BOTH"},
           NEW d \in Destination, NEW q, Known(s, R[d], q), NEW o \in AcknowledgeOutcomes(s, q, d)
    PROVE  /\ Follows(s, o.store) /\ CursorsKnown(o.store, R)
           /\ o.store.nextSequence = s.nextSequence /\ o.store.dropped = s.dropped
           /\ Lost(s, o.store, R, RequiredMask(mode))
<1>1. CASE o.store = s
  BY <1>1, FollowsItself DEF Lost
<1>2. CASE o.store # s
  <2> DEFINE m == [s EXCEPT !.cursor[d] = q]
             mask == RequiredMask(mode)
             t == o.store
  <2>1. /\ HasPending(s, d) /\ NextFor(s, d) = q /\ SameQueue(s, m) /\ Proper(m)
        /\ m.cursor = [s.cursor EXCEPT ![d] = q] /\ Trims(m, t, mask)
    BY <1>2, AcknowledgeMoves
  <2> HIDE DEF m, t
  <2>2. Follows(s, m) /\ Live(m) = Live(s) /\ \A e : CycleAt(m, e) = CycleAt(s, e)
    BY <2>1, SameQueueFollows
  <2>3. /\ q \in Nat /\ q \in Live(s) /\ \A e \in Live(s) : e < q <=> e <= s.cursor[d]
        /\ \A e \in Live(s) : e \in Int
    BY <2>1, PendingFacts, LiveFacts
  <2>4. CursorsKnown(m, R)
    <3> SUFFICES ASSUME NEW b \in Destination, NEW e \in Live(m), e <= m.cursor[b]
                 PROVE  CycleAt(m, e) \in R[b]
      BY DEF CursorsKnown
    <3>1. s.cursor \in [Destination -> Nat]
      BY StoreFacts
    <3>2. CASE b # d
      BY <2>1, <2>2, <3>1, <3>2 DEF CursorsKnown
    <3>3. CASE b = d
      <4>1. e <= q
        BY <2>1, <3>1, <3>3
      <4>2. CASE e = q
        BY <2>2, <2>3, <3>3, <4>2 DEF Known
      <4>3. CASE e < q
        BY <2>2, <2>3, <3>3, <4>3 DEF CursorsKnown
      <4>4. e \in Int /\ q \in Int
        BY <2>2, <2>3
      <4> QED BY <4>1, <4>2, <4>3, <4>4
    <3> QED BY <3>2, <3>3
  <2>5. Follows(m, t) /\ t.cursor = m.cursor /\ t.nextSequence = m.nextSequence /\ t.dropped = m.dropped
    BY <2>1 DEF Trims, Shrinks
  <2>6. CursorsKnown(t, R)
    BY <2>1, <2>4, <2>5, CursorsKept
  <2>7. Follows(s, t)
    BY <2>1, <2>2, <2>5, FollowsTransitive
  <2>8. Lost(s, t, R, mask)
    <3> SUFFICES ASSUME NEW e \in Live(s) \ Live(t), NEW b \in mask
                 PROVE  CycleAt(s, e) \in R[b]
      BY DEF Lost
    <3>1. b \in Destination
      BY DEF RequiredMask, Destination
    <3>2. e \in Live(m) /\ e <= m.cursor[b]
      BY <2>1, <2>2 DEF Trims
    <3> QED BY <2>2, <2>4, <3>1, <3>2 DEF CursorsKnown
  <2> QED BY <2>1, <2>5, <2>6, <2>7, <2>8 DEF t, SameQueue
<1> QED BY <1>1, <1>2

\* Newest, while the device is awake.
NewestWith(r) == IF r.queued THEN cycle ELSE cycle - 1

\* What saving the record makes of the queue and of its newest record.
LEMMA SavesContinues ==
    ASSUME "enqueue" \notin Faults, cycle \in Cycle, NEW s, Proper(s), NEW r, r.queued \in BOOLEAN,
           r.queued => s.ready, ~r.queued => r.sequence = 0, NEW o, Saves(s, r, o)
    PROVE  /\ Continues(s, o.store, NewestWith(r), NewestWith(o.record))
           /\ o.record.queued <=> s.ready
           /\ ~o.record.queued => o.record.sequence = 0
           /\ \A q \in Live(s) \ Live(o.store) : q = Base(s) /\ o.store.dropped > s.dropped
<1> DEFINE t == o.store
<1>1. /\ Follows(s, t) /\ t.ready = s.ready /\ Proper(t) /\ s.nextSequence \in Nat
      /\ Base(s) \in Nat /\ cycle \in Int
  BY StoreFacts DEF Saves, Follows, Cycle
<1>2. CASE r.queued \/ ~s.ready
  <2>1. o.record = r /\ SameRecords(s, t)
    BY <1>2 DEF Saves
  <2>2. Live(t) = Live(s) /\ t.nextSequence = s.nextSequence
    BY <2>1 DEF SameRecords, Shrinks, Live
  <2>3. \A e \in Live(t) : ~(e >= s.nextSequence)
    BY <1>1, <2>2 DEF Live
  <2> QED BY <1>1, <1>2, <2>1, <2>2, <2>3 DEF Continues, NewestWith
<1>3. CASE ~r.queued /\ s.ready
  <2>1. Enqueues(s, t) /\ o.record = [queued |-> TRUE, sequence |-> s.nextSequence]
    BY <1>3 DEF Saves
  <2>2. ASSUME NEW e \in Live(t), e >= s.nextSequence
        PROVE  e = s.nextSequence /\ CycleAt(t, e) = cycle
    <3>1. e \in Int /\ e <= s.nextSequence
      <4>1. t.nextSequence = s.nextSequence + 1 /\ Base(t) \in Nat
        BY <1>1, <2>1, StoreFacts DEF Enqueues
      <4> QED BY <1>1, <4>1 DEF Live
    <3> QED BY <1>1, <2>1, <2>2, <3>1 DEF Enqueues
  <2> QED BY <1>1, <1>3, <2>1, <2>2 DEF Continues, Enqueues, NewestWith
<1> QED BY <1>2, <1>3

LEMMA ContinuesFollows ==
    ASSUME NEW s, Proper(s), NEW p, NEW t, NEW n, NEW k, Continues(s, p, n, k), Follows(p, t),
           t.nextSequence = p.nextSequence
    PROVE  Continues(s, t, n, k)
<1>1. Follows(s, t)
  BY FollowsTransitive DEF Continues
<1>2. /\ Proper(p) /\ Proper(t) /\ p.nextSequence \in Nat
      /\ \A e \in Live(t) : e \in Int
  BY StoreFacts, LiveFacts DEF Continues, Follows
<1>3. ASSUME NEW e \in Live(t) PROVE e \in Live(p) /\ CycleAt(t, e) = CycleAt(p, e)
  <2>1. e < p.nextSequence
    BY <1>2, StoreFacts DEF Live
  <2> QED BY <2>1 DEF Follows
<1> QED BY <1>1, <1>3 DEF Continues

\* What the destinations were told and what is in flight, seen together.
Heard(s, R, n, up, down, cloud, u, m) ==
    Orders(s, n) /\ Flight(s, R, n, up) /\ Replies(s, R, down, cloud, u) /\ Publishes(s, R, n, m)

LEMMA HeardKept ==
    ASSUME NEW s, Proper(s), NEW t, NEW n, NEW k, Continues(s, t, n, k),
           NEW R, NEW Q, \A d \in Destination : R[d] \subseteq Q[d],
           NEW up, up \in Seq(Message), NEW down, down \in Seq(Nat), NEW cloud \in Nat,
           NEW u \in Upload, NEW m \in Tracker, Heard(s, R, n, up, down, cloud, u, m)
    PROVE  Heard(t, Q, k, up, down, cloud, u, m)
<1>1. Follows(s, t) /\ R["BLYNK"] \subseteq Q["BLYNK"] /\ R["MQTT"] \subseteq Q["MQTT"]
  BY DEF Continues, Destination
<1>2. Orders(t, k)
  BY OrdersKept DEF Heard
<1>3. Flight(t, Q, k, up)
  <2> SUFFICES ASSUME NEW i \in DOMAIN up, up[i] # SyncV21
               PROVE  Carries(t, Q["BLYNK"], k, up[i].sequence, up[i].cycle)
    BY DEF Flight
  <2>1. up[i] \in Message
    OBVIOUS
  <2>2. up[i].sequence \in Nat /\ up[i].cycle \in Int
    BY <2>1 DEF Message, Cycle
  <2>3. Carries(s, R["BLYNK"], n, up[i].sequence, up[i].cycle)
    BY DEF Heard, Flight
  <2> QED BY <1>1, <2>2, <2>3, CarriesKept
<1>4. Replies(t, Q, down, cloud, u)
  <2>1. \A i \in DOMAIN down : down[i] \in Nat
    OBVIOUS
  <2>2. u.sequence \in Nat
    BY DEF Upload
  <2>3. \A q \in Nat : Known(s, R["BLYNK"], q) => Known(t, Q["BLYNK"], q)
    BY <1>1, KnownKept
  <2> QED BY <2>1, <2>2, <2>3 DEF Heard, Replies
<1>5. Publishes(t, Q, k, m)
  <2> SUFFICES ASSUME m.pending PROVE Publishes(t, Q, k, m)
    BY DEF Publishes
  <2>1. m.sequence \in Nat /\ m.cycle \in Int
    BY DEF Tracker, Cycle
  <2>2. Carries(s, R["MQTT"], n, m.sequence, m.cycle)
    BY DEF Heard, Publishes
  <2>3. Carries(t, Q["MQTT"], k, m.sequence, m.cycle)
    BY <1>1, <2>1, <2>2, CarriesKept
  <2> QED BY <1>1, <2>3 DEF Heard, Publishes
<1> QED BY <1>2, <1>3, <1>4, <1>5 DEF Heard

HeardNow == Heard(store, received, NewestQueued, uplink, downlink, cloudSequence, upload, mqtt)

LEMMA SoundParts ==
    Sound <=> /\ HeardNow /\ CursorsKnown(store, received)
              /\ record.queued => store.ready
              /\ ~record.queued => record.sequence = 0
BY DEF Sound, Heard, HeardNow

(***************************************************************************)
(* What a step does to the records: those that stay keep their sequences,  *)
(* and those that go made room, were cleared or have been received.        *)
(***************************************************************************)
Delivers ==
    /\ store'.nextSequence >= store.nextSequence
    /\ \A q \in Live(store) \cap Live(store') : CycleAt(store', q) = CycleAt(store, q)
    /\ OfflineClear \/ Lost(store, store', received, RequiredMask(mode'))

LEMMA NewestIsInt == IInv => NewestQueued \in Int
BY DEF IInv, Control, NewestQueued, Newest

\* A step that continues the queue and sends at most one sound record to each destination.
LEMMA StepIsSound ==
    ASSUME IInv, Sound, Continues(store, store', NewestQueued, NewestQueued'),
           UNCHANGED <<received, cloudSequence>>, CursorsKnown(store', received),
           record'.queued => store'.ready, ~record'.queued => record'.sequence = 0,
           \/ uplink' = uplink
           \/ \A i \in DOMAIN uplink' : uplink'[i] = SyncV21
           \/ \E msg \in Message :
                  /\ uplink' = Append(uplink, msg)
                  /\ msg # SyncV21 => Carries(store', received["BLYNK"], NewestQueued',
                                              msg.sequence, msg.cycle),
           downlink' = downlink \/ downlink' = <<>>,
           ~upload'.acknowledged \/ (upload'.acknowledged = upload.acknowledged
                                     /\ upload'.sequence = upload.sequence),
           \/ ~mqtt'.pending
           \/ /\ mqtt'.pending = mqtt.pending /\ mqtt'.sequence = mqtt.sequence
              /\ mqtt'.cycle = mqtt.cycle /\ mqtt'.acknowledged = mqtt.acknowledged
           \/ /\ Carries(store', received["MQTT"], NewestQueued', mqtt'.sequence, mqtt'.cycle)
              /\ ~mqtt'.acknowledged
    PROVE  Sound'
<1> DEFINE n == NewestQueued
           k == NewestQueued'
           t == store'
<1>1. Heard(t, received, k, uplink, downlink, cloudSequence, upload, mqtt)
  <2>1. Heard(store, received, n, uplink, downlink, cloudSequence, upload, mqtt)
    BY SoundParts DEF HeardNow, n
  <2>2. Continues(store, t, n, k) /\ Proper(store)
    BY DEF IInv, StoreOK
  <2> HIDE DEF n, k, t
  <2> QED BY <2>1, <2>2, HeardKept DEF IInv, Links
<1> HIDE DEF n
<1>2. Flight(t, received, k, uplink')
  <2>1. CASE uplink' = uplink
    BY <1>1, <2>1 DEF Heard
  <2>2. CASE \A i \in DOMAIN uplink' : uplink'[i] = SyncV21
    BY <2>2 DEF Flight
  <2>3. CASE \E msg \in Message :
                 /\ uplink' = Append(uplink, msg)
                 /\ msg # SyncV21 => Carries(t, received["BLYNK"], k, msg.sequence, msg.cycle)
    <3> HIDE DEF k, t
    <3>1. PICK msg \in Message :
              /\ uplink' = Append(uplink, msg)
              /\ msg # SyncV21 => Carries(t, received["BLYNK"], k, msg.sequence, msg.cycle)
      BY <2>3
    <3>2. uplink \in Seq(Message)
      BY DEF IInv, Links
    <3>3. /\ DOMAIN uplink' = 1 .. Len(uplink) + 1 /\ DOMAIN uplink = 1 .. Len(uplink)
          /\ \A i \in 1 .. Len(uplink) : uplink'[i] = uplink[i]
          /\ uplink'[Len(uplink) + 1] = msg /\ Len(uplink) \in Nat
      BY <3>1, <3>2
    <3>4. ASSUME NEW i \in DOMAIN uplink'
          PROVE  uplink'[i] = msg \/ (i \in DOMAIN uplink /\ uplink'[i] = uplink[i])
      BY <3>3
    <3> QED BY <1>1, <3>1, <3>4 DEF Heard, Flight
  <2> QED BY <2>1, <2>2, <2>3
<1> HIDE DEF k, t
<1>3. Replies(t, received, downlink', cloudSequence, upload')
  <2>1. \A i \in DOMAIN downlink' : Known(t, received["BLYNK"], downlink'[i])
    BY <1>1 DEF Heard, Replies
  <2> QED BY <1>1, <2>1 DEF Heard, Replies
<1>4. Publishes(t, received, k, mqtt')
  BY <1>1 DEF Heard, Publishes, k, t
<1>5. Heard(t, received, k, uplink', downlink', cloudSequence, upload', mqtt')
  BY <1>1, <1>2, <1>3, <1>4 DEF Heard
<1> QED BY <1>5 DEF Sound, Heard, k, t

\* A step that leaves the queue and the destinations alone.
LEMMA QuietIsSound ==
    ASSUME IInv, Sound, UNCHANGED <<store, received, cloudSequence>>,
           NewestQueued' \in Int, NewestQueued <= NewestQueued',
           record'.queued => store.ready, ~record'.queued => record'.sequence = 0,
           uplink' = uplink \/ \A i \in DOMAIN uplink' : uplink'[i] = SyncV21,
           downlink' = downlink \/ downlink' = <<>>,
           ~upload'.acknowledged \/ (upload'.acknowledged = upload.acknowledged
                                     /\ upload'.sequence = upload.sequence),
           \/ ~mqtt'.pending
           \/ /\ mqtt'.pending = mqtt.pending /\ mqtt'.sequence = mqtt.sequence
              /\ mqtt'.cycle = mqtt.cycle /\ mqtt'.acknowledged = mqtt.acknowledged
    PROVE  Sound' /\ Delivers
<1>1. /\ Proper(store) /\ NewestQueued \in Int /\ Follows(store, store) /\ store.nextSequence \in Nat
      /\ Base(store) \in Nat
  BY NewestIsInt, FollowsItself, StoreFacts DEF IInv, StoreOK
<1>2. Continues(store, store', NewestQueued, NewestQueued')
  <2>1. \A e \in Live(store) : ~(e >= store.nextSequence)
    BY <1>1 DEF Live
  <2> QED BY <1>1, <2>1 DEF Continues
<1>3. CursorsKnown(store', received)
  BY DEF Sound
<1>4. Sound'
  BY <1>2, <1>3, StepIsSound
<1>5. Delivers
  BY <1>1 DEF Delivers, Lost
<1> QED BY <1>4, <1>5

LEMMA FollowingDelivers ==
    ASSUME Proper(store), Follows(store, store'),
           OfflineClear \/ Lost(store, store', received, RequiredMask(mode'))
    PROVE  Delivers
<1>1. store.nextSequence \in Nat /\ Base(store) \in Nat
  BY StoreFacts
<1>2. \A q \in Live(store) : q < store.nextSequence
  BY <1>1 DEF Live
<1> QED BY <1>2 DEF Delivers, Follows

-----------------------------------------------------------------------------
(* The steps of the cycle. *)

LEMMA WakeUpIsSound == IInv /\ Sound /\ WakeUp => Sound' /\ Delivers
<1> SUFFICES ASSUME IInv, Sound, WakeUp PROVE Sound' /\ Delivers
  OBVIOUS
<1>1. /\ phase = "asleep" /\ uplink = <<>> /\ Proper(store) /\ cycle \in Nat
      /\ phase' = "measuring" /\ cycle' = cycle + 1 /\ record' = NoRecord
      /\ upload' = [NoUpload EXCEPT !.synced = upload.synced]
      /\ UNCHANGED <<mode, uplink, downlink, cloudSequence, received>>
  BY DEF WakeUp, StartNormalMeasurementCycle, IInv, StoreOK, Messages, Control, cloudVars
<1>2. NewestQueued = cycle /\ NewestQueued' = cycle
  BY <1>1 DEF NewestQueued, Newest, NoRecord
<1>3. ~mqtt'.pending
  BY DEF WakeUp, NoMqtt
<1>4. PICK ready \in BOOLEAN :
          store' \in ReconcileOutcomes([store EXCEPT !.ready = ready], RequiredMask(mode))
  BY DEF WakeUp
<1> DEFINE s == [store EXCEPT !.ready = ready]
           t == store'
           R == received
<1>5. /\ Proper(s) /\ s.queue = store.queue /\ s.nextSequence = store.nextSequence
      /\ s.cursor = store.cursor /\ s.dropped = store.dropped
  BY <1>1 DEF Proper, Store
<1> HIDE DEF s, t, R
<1>6. Trims(s, t, RequiredMask(mode))
  BY <1>4, <1>5, ReconcileTrims DEF s, t
<1>7. Live(s) = Live(store) /\ \A q : CycleAt(s, q) = CycleAt(store, q)
  BY <1>5 DEF Live, Base, CycleAt
<1>8. Orders(s, cycle) /\ CursorsKnown(s, R)
  BY <1>2, <1>5, <1>7 DEF Sound, Orders, CursorsKnown, R
<1>9. /\ Follows(s, t) /\ t.cursor = s.cursor /\ t.nextSequence = s.nextSequence
      /\ t.dropped = s.dropped
  BY <1>6 DEF Trims, Shrinks
<1>10. Continues(s, t, cycle, cycle)
  <2>1. Proper(t) /\ t.nextSequence \in Nat /\ Base(t) \in Nat
    BY <1>9, StoreFacts DEF Follows
  <2>2. \A e \in Live(t) : ~(e >= s.nextSequence)
    BY <1>9, <2>1 DEF Live
  <2> QED BY <1>1, <1>9, <2>2 DEF Continues
<1>11. Orders(t, cycle) /\ CursorsKnown(t, R)
  BY <1>5, <1>8, <1>9, <1>10, OrdersKept, CursorsKept
<1>12. Replies(t, R, downlink, cloudSequence, upload')
  <2>1. \A q \in Nat : Known(store, R["BLYNK"], q) => Known(t, R["BLYNK"], q)
    <3>1. \A q \in Nat : Known(store, R["BLYNK"], q) => Known(s, R["BLYNK"], q)
      BY <1>5, <1>7 DEF Known
    <3>2. \A q \in Nat : Known(s, R["BLYNK"], q) => Known(t, R["BLYNK"], q)
      BY <1>5, <1>9, KnownKept
    <3> QED BY <3>1, <3>2
  <2>2. /\ downlink \in Seq(Nat) /\ cloudSequence \in Nat
        /\ \A i \in DOMAIN downlink : Known(store, R["BLYNK"], downlink[i])
        /\ Known(store, R["BLYNK"], cloudSequence)
    BY DEF IInv, Links, Sound, Replies, R
  <2>3. \A i \in DOMAIN downlink : downlink[i] \in Nat
    BY <2>2
  <2>4. ~upload'.acknowledged
    BY <1>1 DEF NoUpload
  <2> QED BY <2>1, <2>2, <2>3, <2>4 DEF Replies
<1>13. Sound'
  BY <1>1, <1>2, <1>3, <1>11, <1>12 DEF Sound, Flight, Publishes, NoRecord, R, t
<1>14. Lost(store, t, R, RequiredMask(mode))
  <2> SUFFICES ASSUME NEW q \in Live(store) \ Live(t), NEW d \in RequiredMask(mode)
               PROVE  CycleAt(store, q) \in R[d]
    BY DEF Lost
  <2>1. d \in Destination
    BY DEF RequiredMask, Destination, IInv, Control
  <2>2. q \in Live(s) /\ q <= s.cursor[d]
    BY <1>6, <1>7 DEF Trims
  <2> QED BY <1>7, <1>8, <2>1, <2>2 DEF CursorsKnown
<1>15. Delivers
  <2>1. \A q \in Live(store) \cap Live(t) : CycleAt(t, q) = CycleAt(store, q)
    <3>1. \A q \in Live(store) : q < store.nextSequence
      BY <1>1, StoreFacts DEF Live
    <3> QED BY <1>5, <1>7, <1>9, <3>1 DEF Follows
  <2>2. store'.nextSequence >= store.nextSequence
    BY <1>1, <1>5, <1>9, StoreFacts DEF t
  <2> QED BY <1>1, <1>14, <2>1, <2>2 DEF Delivers, R, t
<1> QED BY <1>13, <1>15

LEMMA MeasurementsAreSound ==
    "enqueue" \notin Faults /\ IInv /\ Sound /\ PerformOtherCycleMeasurements => Sound' /\ Delivers
<1> SUFFICES ASSUME "enqueue" \notin Faults, IInv, Sound, PerformOtherCycleMeasurements
             PROVE  Sound' /\ Delivers
  OBVIOUS
<1>1. /\ phase = "measuring" /\ phase' = "measured" /\ cycle \in Cycle /\ Proper(store)
      /\ ~record.queued
      /\ UNCHANGED <<cycle, mode, upload, uplink, downlink, cloudSequence, mqtt, received>>
  BY DEF PerformOtherCycleMeasurements, IInv, Control, Cycling, StoreOK, Cycle, cloudVars
<1>2. PICK o \in PersistOutcomes(store) : store' = o.store /\ record' = o.record
  BY DEF PerformOtherCycleMeasurements
<1>3. Saves(store, NoRecord, o)
  BY <1>1, PersistSaves
<1>4. /\ Continues(store, o.store, cycle - 1, NewestWith(o.record))
      /\ o.record.queued <=> store.ready
      /\ ~o.record.queued => o.record.sequence = 0
      /\ \A q \in Live(store) \ Live(o.store) : q = Base(store) /\ o.store.dropped > store.dropped
  <2>1. NoRecord.queued = FALSE /\ NoRecord.queued \in BOOLEAN /\ NoRecord.sequence = 0
    BY DEF NoRecord
  <2>2. /\ Continues(store, o.store, NewestWith(NoRecord), NewestWith(o.record))
        /\ o.record.queued <=> store.ready
        /\ ~o.record.queued => o.record.sequence = 0
        /\ \A q \in Live(store) \ Live(o.store) :
               q = Base(store) /\ o.store.dropped > store.dropped
    BY <1>1, <1>3, <2>1, SavesContinues
  <2>3. NewestWith(NoRecord) = cycle - 1
    BY <2>1 DEF NewestWith
  <2> QED BY <2>2, <2>3
<1>5. NewestQueued = cycle - 1 /\ NewestQueued' = NewestWith(o.record)
  BY <1>1, <1>2 DEF NewestQueued, Newest, NewestWith
<1>6. CursorsKnown(o.store, received)
  <2>1. CursorsKnown(store, received) /\ Follows(store, o.store) /\ o.store.cursor = store.cursor
    BY <1>3 DEF Sound, Saves
  <2> QED BY <1>1, <2>1, CursorsKept
<1>7. Follows(store, store') /\ store'.ready = store.ready
  BY <1>2, <1>4 DEF Continues, Follows
<1>8. Sound'
  BY <1>1, <1>2, <1>4, <1>5, <1>6, <1>7, StepIsSound
<1>9. Delivers
  BY <1>1, <1>2, <1>4, <1>7, FollowingDelivers DEF Lost
<1> QED BY <1>8, <1>9

LEMMA SleepIsSound ==
    "enqueue" \notin Faults /\ IInv /\ Sound /\ EnterTimedDeepSleep => Sound' /\ Delivers
<1> SUFFICES ASSUME "enqueue" \notin Faults, IInv, Sound, EnterTimedDeepSleep
             PROVE  Sound' /\ Delivers
  OBVIOUS
<1>1. /\ phase = "measured" /\ phase' = "asleep" /\ cycle \in Cycle /\ Proper(store)
      /\ record \in RecordOf(store) /\ record' = NoRecord /\ uplink' = <<>> /\ downlink' = <<>>
      /\ upload' = NoUpload /\ mqtt' = NoMqtt
      /\ UNCHANGED <<cycle, mode, cloudSequence, received>>
  BY DEF EnterTimedDeepSleep, PoweredDown, IInv, Control, Cycling, StoreOK, Cycle
<1>2. PICK o \in RetryOutcomes(store, record) : store' = o.store
  BY DEF EnterTimedDeepSleep
<1>3. Saves(store, record, o)
  BY <1>1, RetrySaves
<1>4. /\ Continues(store, o.store, NewestQueued, NewestWith(o.record))
      /\ \A q \in Live(store) \ Live(o.store) : q = Base(store) /\ o.store.dropped > store.dropped
  <2>1. NewestQueued = NewestWith(record)
    BY <1>1 DEF NewestQueued, Newest, NewestWith
  <2>2. record.queued \in BOOLEAN /\ (record.queued => store.ready)
            /\ (~record.queued => record.sequence = 0)
    BY <1>1 DEF RecordOf, Sound
  <2> QED BY <1>1, <1>3, <2>1, <2>2, SavesContinues
<1>5. Continues(store, store', NewestQueued, NewestQueued')
  <2>1. NewestQueued' = cycle /\ cycle \in Int
    BY <1>1 DEF NewestQueued, Newest, Cycle
  <2>2. \A e \in Live(o.store) : CycleAt(o.store, e) \in Int
    BY <1>4, LiveFacts DEF Continues, Follows, Cycle
  <2>3. NewestWith(o.record) <= cycle
    BY <2>1 DEF NewestWith
  <2> QED BY <1>2, <1>4, <2>1, <2>2, <2>3 DEF Continues
<1>6. CursorsKnown(o.store, received)
  <2>1. CursorsKnown(store, received) /\ Follows(store, o.store) /\ o.store.cursor = store.cursor
    BY <1>3 DEF Sound, Saves
  <2> QED BY <1>1, <2>1, CursorsKept
<1>7. Sound'
  <2>1. ~record'.queued /\ record'.sequence = 0 /\ ~upload'.acknowledged /\ ~mqtt'.pending
    BY <1>1 DEF NoRecord, NoUpload, NoMqtt
  <2>2. \A i \in DOMAIN uplink' : uplink'[i] = SyncV21
    BY <1>1
  <2> QED BY <1>1, <1>2, <1>5, <1>6, <2>1, <2>2, StepIsSound
<1>8. Delivers
  BY <1>1, <1>2, <1>4, <1>5, FollowingDelivers DEF Lost, Continues
<1> QED BY <1>7, <1>8

\* The steps of the loop and of time that touch neither the queue nor the destinations.
LEMMA QuietStepsAreSound ==
    ASSUME IInv, Sound,
           \/ NextSlot \/ BeginStayAwakeQueueDrainPass \/ PowerLoss \/ BlynkConnects \/ BlynkDrops
           \/ MqttLink \/ MqttOn \/ SetDeepSleepDisabled \/ Time \/ UNCHANGED vars
    PROVE  Sound' /\ Delivers
<1>1. /\ cycle \in Nat /\ record \in RecordOf(store) /\ upload \in Upload /\ mqtt \in Tracker
      /\ record.queued => store.ready
      /\ ~record.queued => record.sequence = 0
  BY DEF IInv, Control, StoreOK, Links, Sound
<1>2. CASE NextSlot
  <2>1. /\ phase = "measured" /\ phase' = "measuring" /\ cycle' = cycle + 1 /\ record' = NoRecord
        /\ ~upload'.acknowledged
        /\ UNCHANGED <<store, uplink, downlink, cloudSequence, mqtt, received>>
    BY <1>2 DEF NextSlot, StartNormalMeasurementCycle, NoUpload, cloudVars
  <2>2. NewestQueued' \in Int /\ NewestQueued <= NewestQueued'
    BY <1>1, <2>1 DEF NewestQueued, Newest, NoRecord
  <2> QED BY <2>1, <2>2, QuietIsSound DEF NoRecord
<1>3. CASE BeginStayAwakeQueueDrainPass
  <2>1. /\ ~upload'.acknowledged
        /\ UNCHANGED <<phase, cycle, record, store, uplink, downlink, cloudSequence, mqtt, received>>
    BY <1>3 DEF BeginStayAwakeQueueDrainPass, NoUpload, cloudVars
  <2>2. NewestQueued' \in Int /\ NewestQueued <= NewestQueued'
    BY <1>1, <2>1 DEF NewestQueued, Newest
  <2> QED BY <1>1, <2>1, <2>2, QuietIsSound
<1>4. CASE PowerLoss
  <2>1. /\ phase' = "asleep" /\ record' = NoRecord /\ uplink' = <<>> /\ downlink' = <<>>
        /\ ~upload'.acknowledged /\ ~mqtt'.pending
        /\ UNCHANGED <<cycle, store, cloudSequence, received>>
    BY <1>4 DEF PowerLoss, PoweredDown, NoUpload, NoMqtt
  <2>2. NewestQueued' \in Int /\ NewestQueued <= NewestQueued'
    BY <1>1, <2>1 DEF NewestQueued, Newest
  <2>3. \A i \in DOMAIN uplink' : uplink'[i] = SyncV21
    BY <2>1
  <2> QED BY <2>1, <2>2, <2>3, QuietIsSound DEF NoRecord
<1>5. CASE BlynkConnects \/ BlynkDrops
  <2>1. /\ uplink' = <<>> \/ uplink' = <<SyncV21>>
        /\ downlink' = <<>> \/ downlink' = downlink
        /\ upload'.acknowledged = upload.acknowledged /\ upload'.sequence = upload.sequence
        /\ UNCHANGED <<phase, cycle, record, store, cloudSequence, mqtt, received>>
    BY <1>1, <1>5 DEF BlynkConnects, BlynkDrops, cycleVars, Upload
  <2>2. NewestQueued' \in Int /\ NewestQueued <= NewestQueued'
    BY <1>1, <2>1 DEF NewestQueued, Newest
  <2>3. \A i \in DOMAIN uplink' : uplink'[i] = SyncV21
    <3> DEFINE m == SyncV21
    <3> HIDE DEF m
    <3>1. uplink' = <<>> \/ uplink' = <<m>>
      BY <2>1 DEF m
    <3> QED BY <3>1 DEF m
  <2> QED BY <1>1, <2>1, <2>2, <2>3, QuietIsSound
<1>6. CASE MqttLink \/ MqttOn \/ SetDeepSleepDisabled \/ Time \/ UNCHANGED vars
  <2>1. /\ UNCHANGED <<phase, cycle, record, store, upload, uplink, downlink, cloudSequence, received>>
        /\ mqtt'.pending = mqtt.pending /\ mqtt'.sequence = mqtt.sequence
        /\ mqtt'.cycle = mqtt.cycle /\ mqtt'.acknowledged = mqtt.acknowledged
    <3>1. CASE MqttLink
      BY <1>1, <3>1 DEF MqttLink, cycleVars, cloudVars, Tracker
    <3>2. CASE MqttOn
      BY <1>1, <3>2 DEF MqttOn, cloudVars, Tracker
    <3>3. CASE SetDeepSleepDisabled \/ Time \/ UNCHANGED vars
      BY <3>3 DEF SetDeepSleepDisabled, Time, ArmEdgentConnectTimeout, Elapses, cloudVars, vars
    <3> QED BY <1>6, <3>1, <3>2, <3>3
  <2>2. NewestQueued' \in Int /\ NewestQueued <= NewestQueued'
    BY <1>1, <2>1 DEF NewestQueued, Newest
  <2> QED BY <1>1, <2>1, <2>2, QuietIsSound
<1> QED BY <1>2, <1>3, <1>4, <1>5, <1>6

-----------------------------------------------------------------------------
(* The uploads. *)

\* What both services do first.
LEMMA PreparedIsSound ==
    ASSUME "enqueue" \notin Faults, IInv, Sound, phase = "measured", NEW p \in Prepared
    PROVE  LET k == NewestWith(p.record)
           IN  /\ Continues(store, p.store, NewestQueued, k) /\ k \in Int
               /\ Proper(p.store) /\ p.store.ready = store.ready
               /\ p.record.queued <=> store.ready
               /\ ~p.record.queued => p.record.sequence = 0
               /\ CursorsKnown(p.store, received)
               /\ Heard(p.store, received, k, uplink, downlink, cloudSequence, upload, mqtt)
               /\ \A q \in Live(store) \ Live(p.store) :
                      q = Base(store) /\ p.store.dropped > store.dropped
<1> DEFINE k == NewestWith(p.record)
           n == NewestQueued
<1>1. /\ Proper(store) /\ record \in RecordOf(store) /\ cycle \in Cycle
      /\ record.queued \in BOOLEAN
      /\ record.queued => store.ready
      /\ ~record.queued => record.sequence = 0
      /\ n = NewestWith(record)
  <2>1. Proper(store) /\ record \in RecordOf(store) /\ cycle \in Cycle
    BY DEF IInv, StoreOK, Control, Cycling, Cycle
  <2> QED BY <2>1 DEF Sound, RecordOf, NewestQueued, Newest, NewestWith
<1>2. Saves(store, record, p)
  BY <1>1, PreparedSaves
<1> HIDE DEF n
<1>3. /\ Continues(store, p.store, n, k)
      /\ p.record.queued <=> store.ready
      /\ ~p.record.queued => p.record.sequence = 0
      /\ \A q \in Live(store) \ Live(p.store) : q = Base(store) /\ p.store.dropped > store.dropped
  BY <1>1, <1>2, SavesContinues
<1> HIDE DEF k
<1>4. Proper(p.store) /\ p.store.ready = store.ready /\ k \in Int
  BY <1>3 DEF Continues, Follows
<1>5. CursorsKnown(p.store, received)
  <2>1. CursorsKnown(store, received) /\ Follows(store, p.store) /\ p.store.cursor = store.cursor
    BY <1>2 DEF Sound, Saves
  <2> QED BY <1>1, <2>1, CursorsKept
<1>6. Heard(p.store, received, k, uplink, downlink, cloudSequence, upload, mqtt)
  <2>1. Heard(store, received, n, uplink, downlink, cloudSequence, upload, mqtt)
    BY SoundParts DEF HeardNow, n
  <2> QED BY <1>1, <1>3, <2>1, HeardKept DEF IInv, Links
<1> QED BY <1>3, <1>4, <1>5, <1>6 DEF k, n

\* A service leaves the prepared store alone or acknowledges a received record in it.
LEMMA ServiceIsSound ==
    ASSUME "enqueue" \notin Faults, IInv, Sound, phase = "measured", NEW p \in Prepared,
           UNCHANGED <<phase, cycle, mode, received>>, record' = p.record,
           \/ store' = p.store
           \/ \E d \in Destination : \E q \in Nat :
                  /\ Known(p.store, received[d], q)
                  /\ \E o \in AcknowledgeOutcomes(p.store, q, d) : store' = o.store
    PROVE  /\ Continues(store, store', NewestQueued, NewestQueued')
           /\ CursorsKnown(store', received) /\ Delivers
           /\ record'.queued => store'.ready
           /\ ~record'.queued => record'.sequence = 0
<1> DEFINE k == NewestWith(p.record)
           n == NewestQueued
           t == store'
           mask == RequiredMask(mode)
<1>1. /\ Continues(store, p.store, n, k) /\ k \in Int
      /\ Proper(p.store) /\ p.store.ready = store.ready
      /\ p.record.queued <=> store.ready
      /\ ~p.record.queued => p.record.sequence = 0
      /\ CursorsKnown(p.store, received)
      /\ \A q \in Live(store) \ Live(p.store) : q = Base(store) /\ p.store.dropped > store.dropped
  BY PreparedIsSound
<1>2. NewestQueued' = k
  BY DEF NewestQueued, Newest, NewestWith
<1>3. Proper(store) /\ mode \in {"BLYNK_ONLY", "MQTT_ONLY", "BOTH"}
  BY DEF IInv, StoreOK, Control
<1> HIDE DEF n, k
<1>4. /\ Follows(p.store, t) /\ CursorsKnown(t, received)
      /\ t.nextSequence = p.store.nextSequence /\ t.dropped = p.store.dropped
      /\ Lost(p.store, t, received, mask)
  <2>1. CASE t = p.store
    BY <1>1, <2>1, FollowsItself DEF Lost
  <2>2. CASE \E d \in Destination : \E q \in Nat :
                 /\ Known(p.store, received[d], q)
                 /\ \E o \in AcknowledgeOutcomes(p.store, q, d) : t = o.store
    <3> HIDE DEF t
    <3>1. PICK d \in Destination, q \in Nat :
              /\ Known(p.store, received[d], q)
              /\ \E o \in AcknowledgeOutcomes(p.store, q, d) : t = o.store
      BY <2>2
    <3>2. PICK o \in AcknowledgeOutcomes(p.store, q, d) : t = o.store
      BY <3>1
    <3> QED BY <1>1, <1>3, <3>1, <3>2, AcknowledgeIsSound
  <2> QED BY <2>1, <2>2
<1> HIDE DEF t
<1>5. Continues(store, t, n, k)
  BY <1>1, <1>3, <1>4, ContinuesFollows
<1>6. Lost(store, t, received, mask)
  <2> SUFFICES ASSUME NEW q \in Live(store) \ Live(t),
                      ~(q = Base(store) /\ t.dropped > store.dropped),
                      NEW d \in mask
               PROVE  CycleAt(store, q) \in received[d]
    BY DEF Lost
  <2>1. q \in Live(p.store)
    BY <1>1, <1>4
  <2>2. CycleAt(p.store, q) = CycleAt(store, q)
    <3>1. q < store.nextSequence
      BY <1>3, StoreFacts DEF Live
    <3> QED BY <1>1, <2>1, <3>1 DEF Continues, Follows
  <2>3. ~(t.dropped > p.store.dropped)
    BY <1>1, <1>4, StoreFacts
  <2> QED BY <1>4, <2>1, <2>2, <2>3 DEF Lost
<1>7. Follows(store, t)
  BY <1>5 DEF Continues
<1>8. Delivers
  BY <1>3, <1>6, <1>7, FollowingDelivers DEF t
<1>9. t.ready = store.ready
  BY <1>7 DEF Follows
<1> QED BY <1>1, <1>2, <1>4, <1>5, <1>8, <1>9 DEF t, n, k

LEMMA BlynkServiceIsSound ==
    "enqueue" \notin Faults /\ IInv /\ Sound /\ ServiceOfflineUpload => Sound' /\ Delivers
<1> SUFFICES ASSUME "enqueue" \notin Faults, IInv, Sound, ServiceOfflineUpload
             PROVE  Sound' /\ Delivers
  OBVIOUS
<1>1. /\ phase = "measured" /\ cycle \in Cycle /\ upload \in Upload
      /\ UNCHANGED <<phase, cycle, mode, downlink, cloudSequence, mqtt, received>>
  BY DEF ServiceOfflineUpload, IInv, Control, Cycling, Cycle, Links
<1>2. PICK p \in Prepared :
          /\ record' = p.record
          /\ IF ~p.store.ready \/ ~p.record.queued THEN SendRamRecord(p)
             ELSE RequestAck(p) \/ ProcessAck(p) \/ AckTimeout(p) \/ BeginOfflineRecordUpload(p)
  BY DEF ServiceOfflineUpload
<1> DEFINE k == NewestWith(p.record)
           Message1 == \E msg \in Message :
                           /\ uplink' = Append(uplink, msg)
                           /\ msg # SyncV21 => Carries(p.store, received["BLYNK"], k,
                                                       msg.sequence, msg.cycle)
<1>3. /\ k \in Int
      /\ Proper(p.store) /\ p.store.ready = store.ready
      /\ p.record.queued <=> store.ready
      /\ ~p.record.queued => p.record.sequence = 0
      /\ CursorsKnown(p.store, received)
      /\ Heard(p.store, received, k, uplink, downlink, cloudSequence, upload, mqtt)
  BY <1>1, <1>2, PreparedIsSound
<1>4. NewestQueued' = k
  BY <1>1, <1>2 DEF NewestQueued, Newest, NewestWith
<1> HIDE DEF k
<1>5. CASE /\ store' = p.store
           /\ uplink' = uplink \/ Message1
           /\ ~upload'.acknowledged \/ (upload'.acknowledged = upload.acknowledged
                                        /\ upload'.sequence = upload.sequence)
  <2>1. /\ Continues(store, store', NewestQueued, NewestQueued')
        /\ CursorsKnown(store', received) /\ Delivers
        /\ record'.queued => store'.ready
        /\ ~record'.queued => record'.sequence = 0
    BY <1>1, <1>2, <1>5, ServiceIsSound
  <2>2. Sound'
    BY <1>1, <1>4, <1>5, <2>1, StepIsSound
  <2> QED BY <2>1, <2>2
<1>6. CASE SendRamRecord(p) /\ ~p.store.ready
  <2> DEFINE msg == [cycle |-> cycle, sequence |-> 0]
  <2>1. /\ store' = p.store /\ upload' = upload /\ uplink' = Append(uplink, msg) /\ ~p.record.queued
    BY <1>3, <1>6 DEF SendRamRecord, SendRecordToBlynk
  <2>2. msg \in Message
    BY <1>1 DEF Message
  <2>3. Carries(p.store, received["BLYNK"], k, 0, cycle)
    <3>1. k = cycle - 1 /\ cycle \in Int /\ k < cycle
      BY <1>1, <2>1 DEF k, NewestWith, Cycle
    <3> QED BY <1>3, <1>6, <3>1, RamCarries DEF Heard
  <2>4. Message1
    <3>1. msg.sequence = 0 /\ msg.cycle = cycle
      OBVIOUS
    <3> HIDE DEF msg
    <3> QED BY <2>1, <2>2, <2>3, <3>1
  <2> QED BY <1>5, <2>1, <2>4
<1>7. CASE RequestAck(p)
  <2>1. /\ store' = p.store /\ uplink' = Append(uplink, SyncV21)
        /\ upload'.acknowledged = upload.acknowledged /\ upload'.sequence = upload.sequence
    BY <1>1, <1>7 DEF RequestAck, Upload
  <2>2. SyncV21 \in Message
    BY DEF SyncV21, Message
  <2>3. Message1
    BY <2>1, <2>2
  <2> QED BY <1>5, <2>1, <2>3
<1>8. CASE ProcessAck(p)
  <2>1. /\ upload.acknowledged /\ ~upload'.acknowledged /\ uplink' = uplink
        /\ \E o \in AcknowledgeOutcomes(p.store, upload.sequence, "BLYNK") : store' = o.store
    BY <1>8 DEF ProcessAck, AckReceived, NoUpload, RecordDurableDeliveryAcknowledgement
  <2>2. Known(p.store, received["BLYNK"], upload.sequence) /\ upload.sequence \in Nat
    BY <1>1, <1>3, <2>1 DEF Heard, Replies, Upload
  <2>3. \E d \in Destination : \E q \in Nat :
            /\ Known(p.store, received[d], q)
            /\ \E o \in AcknowledgeOutcomes(p.store, q, d) : store' = o.store
    BY <2>1, <2>2 DEF Destination
  <2>4. /\ Continues(store, store', NewestQueued, NewestQueued')
        /\ CursorsKnown(store', received) /\ Delivers
        /\ record'.queued => store'.ready
        /\ ~record'.queued => record'.sequence = 0
    BY <1>1, <1>2, <2>3, ServiceIsSound
  <2>5. Sound'
    BY <1>1, <2>1, <2>4, StepIsSound
  <2> QED BY <2>4, <2>5
<1>9. CASE AckTimeout(p)
  <2>1. store' = p.store /\ uplink' = uplink /\ ~upload'.acknowledged
    BY <1>9 DEF AckTimeout, NoUpload
  <2> QED BY <1>5, <2>1
<1>10. CASE BeginOfflineRecordUpload(p)
  <2>1. store' = p.store
    BY <1>10 DEF BeginOfflineRecordUpload
  <2>2. CASE UNCHANGED <<upload, uplink>>
    BY <1>5, <2>1, <2>2
  <2>3. CASE ~UNCHANGED <<upload, uplink>>
    <3> DEFINE x == NextFor(p.store, "BLYNK")
    <3>1. /\ HasPending(p.store, "BLYNK") /\ ~upload'.acknowledged
          /\ uplink' = Append(uplink, PendingRecord(p.store, "BLYNK"))
      BY <1>1, <1>10, <2>3 DEF BeginOfflineRecordUpload, SendRecordToBlynk, Upload
    <3>2. PendingRecord(p.store, "BLYNK") = [cycle |-> CycleAt(p.store, x), sequence |-> x]
      BY <1>3, <3>1, PendingFacts DEF Destination
    <3>3. /\ Carries(p.store, received["BLYNK"], k, x, CycleAt(p.store, x))
          /\ x \in Nat /\ CycleAt(p.store, x) \in Cycle
      BY <1>3, <3>1, PendingCarries DEF Heard, Destination
    <3> DEFINE msg == [cycle |-> CycleAt(p.store, x), sequence |-> x]
    <3> HIDE DEF x
    <3>4. msg \in Message /\ msg.sequence = x /\ msg.cycle = CycleAt(p.store, x)
      BY <3>3 DEF Message
    <3>5. uplink' = Append(uplink, msg)
      BY <3>1, <3>2
    <3> HIDE DEF msg
    <3>6. Message1
      BY <3>3, <3>4, <3>5
    <3> QED BY <1>5, <2>1, <3>1, <3>6
  <2> QED BY <2>2, <2>3
<1> QED BY <1>2, <1>3, <1>6, <1>7, <1>8, <1>9, <1>10

LEMMA MqttServiceIsSound ==
    "enqueue" \notin Faults /\ IInv /\ Sound /\ ServiceMqttOfflineUpload => Sound' /\ Delivers
<1> SUFFICES ASSUME "enqueue" \notin Faults, IInv, Sound, ServiceMqttOfflineUpload
             PROVE  Sound' /\ Delivers
  OBVIOUS
<1>1. /\ phase = "measured" /\ mqtt \in Tracker
      /\ UNCHANGED <<phase, cycle, mode, upload, uplink, downlink, cloudSequence, received>>
  BY DEF ServiceMqttOfflineUpload, IInv, Links, cloudVars
<1>2. PICK p \in Prepared :
          /\ record' = p.record
          /\ TakeAcknowledgedSequence(p) \/ MqttDeadline(p) \/ PublishNext(p) \/ MqttWaits(p)
  BY DEF ServiceMqttOfflineUpload
<1> DEFINE k == NewestWith(p.record)
           MqttPart == \/ ~mqtt'.pending
                       \/ mqtt' = mqtt
                       \/ /\ Carries(p.store, received["MQTT"], k, mqtt'.sequence, mqtt'.cycle)
                          /\ ~mqtt'.acknowledged
<1>3. /\ k \in Int
      /\ Proper(p.store) /\ p.store.ready = store.ready
      /\ p.record.queued <=> store.ready
      /\ ~p.record.queued => p.record.sequence = 0
      /\ CursorsKnown(p.store, received)
      /\ Heard(p.store, received, k, uplink, downlink, cloudSequence, upload, mqtt)
  BY <1>1, <1>2, PreparedIsSound
<1>4. NewestQueued' = k
  BY <1>1, <1>2 DEF NewestQueued, Newest, NewestWith
<1> HIDE DEF k
<1>5. CASE store' = p.store /\ MqttPart
  <2>1. /\ Continues(store, store', NewestQueued, NewestQueued')
        /\ CursorsKnown(store', received) /\ Delivers
        /\ record'.queued => store'.ready
        /\ ~record'.queued => record'.sequence = 0
    BY <1>1, <1>2, <1>5, ServiceIsSound
  <2>2. Sound'
    BY <1>1, <1>4, <1>5, <2>1, StepIsSound
  <2> QED BY <2>1, <2>2
<1>6. CASE TakeAcknowledgedSequence(p)
  <2>1. mqtt.pending /\ mqtt.acknowledged /\ ~mqtt'.pending
    BY <1>1, <1>6 DEF TakeAcknowledgedSequence, Untracked, Tracker
  <2>2. CASE TakeRamPuback(p)
    BY <1>5, <2>1, <2>2 DEF TakeRamPuback
  <2>3. CASE RecordDurableDeliveryAcknowledgement(p.store, mqtt.sequence, "MQTT")
    <3>1. \E o \in AcknowledgeOutcomes(p.store, mqtt.sequence, "MQTT") : store' = o.store
      BY <2>3 DEF RecordDurableDeliveryAcknowledgement
    <3>2. Known(p.store, received["MQTT"], mqtt.sequence) /\ mqtt.sequence \in Nat
      BY <1>1, <1>3, <2>1 DEF Heard, Publishes, Carries, Known, Tracker
    <3>3. \E d \in Destination : \E q \in Nat :
              /\ Known(p.store, received[d], q)
              /\ \E o \in AcknowledgeOutcomes(p.store, q, d) : store' = o.store
      BY <3>1, <3>2 DEF Destination
    <3>4. /\ Continues(store, store', NewestQueued, NewestQueued')
          /\ CursorsKnown(store', received) /\ Delivers
          /\ record'.queued => store'.ready
          /\ ~record'.queued => record'.sequence = 0
      BY <1>1, <1>2, <3>3, ServiceIsSound
    <3>5. Sound'
      BY <1>1, <2>1, <3>4, StepIsSound
    <3> QED BY <3>4, <3>5
  <2> QED BY <1>6, <2>2, <2>3 DEF TakeAcknowledgedSequence
<1>7. CASE MqttDeadline(p) \/ MqttWaits(p)
  BY <1>5, <1>7 DEF MqttDeadline, MqttWaits
<1>8. CASE PublishNext(p)
  <2>1. store' = p.store /\ ~mqtt.acknowledged
    BY <1>8 DEF PublishNext, IInv, Messages
  <2>2. CASE mqtt' = mqtt
    BY <1>5, <2>1, <2>2
  <2>3. CASE mqtt' # mqtt
    <3> DEFINE x == NextFor(p.store, "MQTT")
    <3>1. HasPending(p.store, "MQTT") /\ PublishMqttRecord(PendingRecord(p.store, "MQTT"))
      BY <1>3, <1>8, <2>3 DEF PublishNext
    <3>2. PendingRecord(p.store, "MQTT") = [cycle |-> CycleAt(p.store, x), sequence |-> x]
      BY <1>3, <3>1, PendingFacts DEF Destination
    <3>3. Carries(p.store, received["MQTT"], k, x, CycleAt(p.store, x))
      BY <1>3, <3>1, PendingCarries DEF Heard, Destination
    <3> HIDE DEF x
    <3>4. mqtt'.sequence = x /\ mqtt'.cycle = CycleAt(p.store, x) /\ ~mqtt'.acknowledged
      <4> DEFINE c == CycleAt(p.store, x)
      <4> HIDE DEF c
      <4>1. PendingRecord(p.store, "MQTT").sequence = x /\ PendingRecord(p.store, "MQTT").cycle = c
        BY <3>2 DEF c
      <4>2. mqtt' = [mqtt EXCEPT !.pending = TRUE, !.sequence = x, !.cycle = c]
        BY <2>3, <3>1, <4>1 DEF PublishMqttRecord
      <4> QED BY <1>1, <2>1, <4>2 DEF Tracker, c
    <3> QED BY <1>5, <2>1, <3>3, <3>4
  <2> QED BY <2>2, <2>3
<1> QED BY <1>2, <1>6, <1>7, <1>8

-----------------------------------------------------------------------------
(* The cloud, the broker and the users. *)

LEMMA BlynkWriteV21IsSound == IInv /\ Sound /\ BlynkWriteV21 => Sound' /\ Delivers
<1> SUFFICES ASSUME IInv, Sound, BlynkWriteV21 PROVE Sound' /\ Delivers
  OBVIOUS
<1>1. /\ downlink # <<>> /\ downlink' = Tail(downlink) /\ downlink \in Seq(Nat)
      /\ upload \in Upload /\ Proper(store)
      /\ UNCHANGED <<phase, cycle, mode, store, record, uplink, cloudSequence, mqtt, received>>
  BY DEF BlynkWriteV21, IInv, Links, StoreOK
<1>2. /\ \A i \in DOMAIN downlink' : i + 1 \in DOMAIN downlink /\ downlink'[i] = downlink[i + 1]
      /\ 1 \in DOMAIN downlink /\ Head(downlink) = downlink[1]
  <2>1. Len(downlink) \in Nat /\ Len(downlink) > 0 /\ DOMAIN downlink = 1 .. Len(downlink)
    BY <1>1, EmptySeq
  <2>2. /\ DOMAIN downlink' = 1 .. Len(downlink) - 1
        /\ \A i \in 1 .. Len(downlink) - 1 : downlink'[i] = downlink[i + 1]
    BY <1>1, HeadTailProperties
  <2>3. ASSUME NEW i \in DOMAIN downlink'
        PROVE  i + 1 \in DOMAIN downlink /\ downlink'[i] = downlink[i + 1]
    BY <2>1, <2>2
  <2> QED BY <1>1, <2>1, <2>3
<1>3. /\ upload'.sequence = upload.sequence
      /\ upload'.acknowledged => upload.acknowledged \/ upload.sequence = downlink[1]
  BY <1>1, <1>2 DEF BlynkWriteV21, Upload
<1>4. Replies(store, received, downlink', cloudSequence, upload')
  BY <1>2, <1>3 DEF Sound, Replies
<1>5. NewestQueued' = NewestQueued
  BY <1>1 DEF NewestQueued, Newest
<1>6. Sound'
  BY <1>1, <1>4, <1>5 DEF Sound
<1>7. Delivers
  BY <1>1, FollowsItself, FollowingDelivers DEF Lost
<1> QED BY <1>6, <1>7

LEMMA StoreIsSound ==
    ASSUME IInv, Sound, Follows(store, store'), store'.nextSequence = store.nextSequence,
           store'.cursor = store.cursor,
           UNCHANGED <<phase, cycle, record, uplink, downlink, cloudSequence, received>>,
           ~upload'.acknowledged \/ upload' = upload, ~mqtt'.pending \/ mqtt' = mqtt
    PROVE  Sound'
<1>1. Proper(store) /\ NewestQueued \in Int /\ NewestQueued' = NewestQueued
  BY NewestIsInt DEF IInv, StoreOK, NewestQueued, Newest
<1>2. Continues(store, store', NewestQueued, NewestQueued')
  <2>1. Proper(store') /\ store'.nextSequence \in Nat /\ Base(store') \in Nat
    BY StoreFacts DEF Follows
  <2>2. \A e \in Live(store') : ~(e >= store.nextSequence)
    BY <2>1 DEF Live
  <2> QED BY <1>1, <2>2 DEF Continues
<1>3. CursorsKnown(store', received)
  <2>1. CursorsKnown(store, received)
    BY DEF Sound
  <2> QED BY <1>1, <2>1, CursorsKept
<1>4. /\ record'.queued => store'.ready
      /\ ~record'.queued => record'.sequence = 0
  BY DEF Sound, Follows
<1> QED BY <1>2, <1>3, <1>4, StepIsSound

LEMMA BlynkWriteV6IsSound == IInv /\ Sound /\ BlynkWriteV6 => Sound' /\ Delivers
<1> SUFFICES ASSUME IInv, Sound, BlynkWriteV6 PROVE Sound' /\ Delivers
  OBVIOUS
<1>1. /\ Proper(store) /\ store' \in RewriteOutcomes(store, record)
      /\ UNCHANGED <<phase, cycle, mode, record, upload, uplink, downlink, cloudSequence, mqtt,
                     received>>
  BY DEF BlynkWriteV6, IInv, StoreOK, cycleVars, cloudVars
<1>2. SameRecords(store, store')
  BY <1>1, RewriteKeeps
<1>3. /\ Follows(store, store') /\ store'.nextSequence = store.nextSequence
      /\ store'.cursor = store.cursor /\ Live(store') = Live(store)
  BY <1>2 DEF SameRecords, Shrinks, Live
<1> QED BY <1>1, <1>3, StoreIsSound, FollowingDelivers DEF Lost

LEMMA MqttOffIsSound == IInv /\ Sound /\ MqttOff => Sound' /\ Delivers
<1> SUFFICES ASSUME IInv, Sound, MqttOff PROVE Sound' /\ Delivers
  OBVIOUS
<1>1. /\ Proper(store) /\ store' \in ReconcileOutcomes(store, {"BLYNK"}) /\ mode' = "BLYNK_ONLY"
      /\ ~mqtt'.pending
      /\ UNCHANGED <<phase, cycle, record, upload, uplink, downlink, cloudSequence, received>>
  BY DEF MqttOff, IInv, StoreOK, Links, Untracked, Tracker, cloudVars
<1>2. Trims(store, store', {"BLYNK"})
  BY <1>1, ReconcileTrims
<1>3. /\ Follows(store, store') /\ store'.nextSequence = store.nextSequence
      /\ store'.cursor = store.cursor
  BY <1>2 DEF Trims, Shrinks
<1>4. Sound'
  BY <1>1, <1>3, StoreIsSound
<1>5. Lost(store, store', received, RequiredMask(mode'))
  <2>1. RequiredMask(mode') = {"BLYNK"}
    BY <1>1 DEF RequiredMask
  <2>2. \A q \in Live(store) \ Live(store') : CycleAt(store, q) \in received["BLYNK"]
    BY <1>2 DEF Trims, Sound, CursorsKnown, Destination
  <2> QED BY <2>1, <2>2 DEF Lost
<1> QED BY <1>1, <1>3, <1>4, <1>5, FollowingDelivers

LEMMA ClearIsSound == IInv /\ Sound /\ OfflineClear => Sound' /\ Delivers
<1> SUFFICES ASSUME IInv, Sound, OfflineClear PROVE Sound' /\ Delivers
  OBVIOUS
<1>1. /\ Proper(store) /\ store' = [store EXCEPT !.queue = <<>>] /\ ~upload'.acknowledged
      /\ UNCHANGED <<phase, cycle, mode, record, uplink, downlink, cloudSequence, mqtt, received>>
  BY DEF OfflineClear, IInv, StoreOK, NoUpload, cloudVars
<1>2. /\ Follows(store, store') /\ store'.nextSequence = store.nextSequence
      /\ store'.cursor = store.cursor
  BY <1>1, ClearFollows
<1> QED BY <1>1, <1>2, StoreIsSound, FollowingDelivers

\* A destination receives more: the other facts only gain.
LEMMA ReceivingIsSound ==
    ASSUME IInv, Sound, UNCHANGED <<phase, cycle, store, record, upload, downlink>>,
           NEW R, R = received', \A d \in Destination : received[d] \subseteq R[d],
           \/ UNCHANGED <<uplink, cloudSequence>>
           \/ /\ \A i \in DOMAIN uplink' : i + 1 \in DOMAIN uplink /\ uplink'[i] = uplink[i + 1]
              /\ Known(store, R["BLYNK"], cloudSequence'),
           \/ mqtt' = mqtt
           \/ /\ mqtt'.pending = mqtt.pending /\ mqtt'.sequence = mqtt.sequence
              /\ mqtt'.cycle = mqtt.cycle
              /\ mqtt'.pending /\ mqtt'.acknowledged => mqtt.cycle \in R["MQTT"]
    PROVE  Sound' /\ Delivers
<1> DEFINE n == NewestQueued
<1>1. Proper(store) /\ n \in Int /\ NewestQueued' = n /\ Follows(store, store)
  BY NewestIsInt, FollowsItself DEF IInv, StoreOK, NewestQueued, Newest
<1> HIDE DEF n
<1>2. Continues(store, store, n, n)
  <2>1. store.nextSequence \in Nat /\ Base(store) \in Nat
    BY <1>1, StoreFacts
  <2>2. \A e \in Live(store) : ~(e >= store.nextSequence)
    BY <2>1 DEF Live
  <2> QED BY <1>1, <2>2 DEF Continues
<1>3. Heard(store, R, n, uplink, downlink, cloudSequence, upload, mqtt)
  <2>1. Heard(store, received, n, uplink, downlink, cloudSequence, upload, mqtt)
    BY SoundParts DEF HeardNow, n
  <2> QED BY <1>1, <1>2, <2>1, HeardKept DEF IInv, Links
<1>4. CursorsKnown(store, R)
  BY DEF Sound, CursorsKnown
<1>5. Flight(store, R, n, uplink')
  BY <1>3 DEF Heard, Flight
<1>6. Replies(store, R, downlink, cloudSequence', upload)
  BY <1>3 DEF Heard, Replies
<1>7. Publishes(store, R, n, mqtt')
  BY <1>3 DEF Heard, Publishes
<1>8. Sound'
  BY <1>1, <1>3, <1>4, <1>5, <1>6, <1>7 DEF Sound, Heard
<1>9. Delivers
  BY <1>1, StoreFacts DEF Delivers, Lost
<1> QED BY <1>8, <1>9

LEMMA CloudIsSound == IInv /\ Sound /\ CloudHandles => Sound' /\ Delivers
<1> SUFFICES ASSUME IInv, Sound, CloudHandles PROVE Sound' /\ Delivers
  OBVIOUS
<1>1. /\ uplink # <<>> /\ uplink' = Tail(uplink) /\ uplink \in Seq(Message)
      /\ downlink \in Seq(Nat) /\ received \in [Destination -> SUBSET Cycle] /\ Proper(store)
      /\ UNCHANGED <<phase, cycle, mode, store, record, upload, mqtt>>
  BY DEF CloudHandles, IInv, Links, StoreOK, cycleVars
<1>2. /\ \A i \in DOMAIN uplink' : i + 1 \in DOMAIN uplink /\ uplink'[i] = uplink[i + 1]
      /\ 1 \in DOMAIN uplink /\ Head(uplink) = uplink[1]
  <2>1. Len(uplink) \in Nat /\ Len(uplink) > 0 /\ DOMAIN uplink = 1 .. Len(uplink)
    BY <1>1, EmptySeq
  <2>2. /\ DOMAIN uplink' = 1 .. Len(uplink) - 1
        /\ \A i \in 1 .. Len(uplink) - 1 : uplink'[i] = uplink[i + 1]
    BY <1>1, HeadTailProperties
  <2>3. ASSUME NEW i \in DOMAIN uplink'
        PROVE  i + 1 \in DOMAIN uplink /\ uplink'[i] = uplink[i + 1]
    BY <2>1, <2>2
  <2> QED BY <1>1, <2>1, <2>3
<1>3. CASE Head(uplink) = SyncV21
  <2>1. downlink' = Append(downlink, cloudSequence) /\ UNCHANGED <<cloudSequence, received>>
    BY <1>3 DEF CloudHandles
  <2>2. Replies(store, received, downlink', cloudSequence, upload)
    <3>1. /\ DOMAIN downlink' = 1 .. Len(downlink) + 1 /\ DOMAIN downlink = 1 .. Len(downlink)
          /\ \A i \in 1 .. Len(downlink) : downlink'[i] = downlink[i]
          /\ downlink'[Len(downlink) + 1] = cloudSequence /\ Len(downlink) \in Nat
      BY <1>1, <2>1
    <3>2. ASSUME NEW i \in DOMAIN downlink'
          PROVE  downlink'[i] = cloudSequence \/ (i \in DOMAIN downlink /\ downlink'[i] = downlink[i])
      BY <3>1
    <3> QED BY <3>2 DEF Sound, Replies
  <2>3. Flight(store, received, NewestQueued, uplink')
    BY <1>2 DEF Sound, Flight
  <2>4. NewestQueued' = NewestQueued
    BY <1>1 DEF NewestQueued, Newest
  <2>5. Sound'
    BY <1>1, <2>1, <2>2, <2>3, <2>4 DEF Sound
  <2>6. Delivers
    BY <1>1, FollowsItself, FollowingDelivers DEF Lost
  <2> QED BY <2>5, <2>6
<1>4. CASE Head(uplink) # SyncV21
  <2> DEFINE m == Head(uplink)
  <2>1. /\ cloudSequence' = m.sequence /\ downlink' = downlink
        /\ received' = [received EXCEPT !["BLYNK"] = @ \cup {m.cycle}]
    BY <1>4 DEF CloudHandles
  <2>2. Carries(store, received["BLYNK"], NewestQueued, m.sequence, m.cycle)
    BY <1>2, <1>4 DEF Sound, Flight
  <2> HIDE DEF m
  <2>3. /\ m.cycle \in received'["BLYNK"]
        /\ \A d \in Destination : received[d] \subseteq received'[d]
    BY <1>1, <2>1 DEF Destination
  <2>4. Known(store, received'["BLYNK"], cloudSequence')
    BY <2>1, <2>2, <2>3 DEF Carries, Known
  <2> QED BY <1>1, <1>2, <2>1, <2>3, <2>4, ReceivingIsSound
<1> QED BY <1>3, <1>4

LEMMA BrokerIsSound == IInv /\ Sound /\ (BrokerReceives \/ OnPublished) => Sound' /\ Delivers
<1> SUFFICES ASSUME IInv, Sound, BrokerReceives \/ OnPublished PROVE Sound' /\ Delivers
  OBVIOUS
<1>1. /\ received \in [Destination -> SUBSET Cycle] /\ mqtt \in Tracker
      /\ UNCHANGED <<phase, cycle, store, record, upload, uplink, downlink, cloudSequence>>
  BY DEF BrokerReceives, OnPublished, IInv, Links, cycleVars, cloudVars
<1>2. CASE BrokerReceives
  <2>1. \A d \in Destination : received[d] \subseteq received'[d]
    BY <1>1, <1>2 DEF BrokerReceives
  <2> QED BY <1>1, <1>2, <2>1, ReceivingIsSound DEF BrokerReceives
<1>3. CASE OnPublished
  <2>1. /\ received' = received /\ mqtt.cycle \in received["MQTT"]
        /\ mqtt'.pending = mqtt.pending /\ mqtt'.sequence = mqtt.sequence
        /\ mqtt'.cycle = mqtt.cycle
    BY <1>1, <1>3 DEF OnPublished, Tracker
  <2> QED BY <1>1, <2>1, ReceivingIsSound
<1> QED BY <1>2, <1>3

-----------------------------------------------------------------------------
LEMMA InitIsSound == Init => Sound
<1> SUFFICES ASSUME Init PROVE Sound
  OBVIOUS
<1>1. /\ store.queue = <<>> /\ store.nextSequence = 1 /\ uplink = <<>> /\ downlink = <<>>
      /\ cloudSequence = 0 /\ ~upload.acknowledged /\ ~mqtt.pending /\ record = NoRecord
  BY DEF Init, EmptyStore, NoUpload, NoMqtt
<1>2. Proper(store)
  BY InitParts DEF IInv, StoreOK
<1>3. Live(store) = {}
  BY <1>1, <1>2, LiveFacts
<1> QED BY <1>1, <1>3 DEF Sound, Orders, CursorsKnown, Flight, Replies, Publishes, Known, NoRecord

LEMMA SoundInductive ==
    "enqueue" \notin Faults /\ IInv /\ Sound /\ [Next]_vars => Sound' /\ Delivers
<1> SUFFICES ASSUME "enqueue" \notin Faults, IInv, Sound, [Next]_vars PROVE Sound' /\ Delivers
  OBVIOUS
<1>1. CASE Cycles
  BY <1>1, WakeUpIsSound, MeasurementsAreSound, SleepIsSound, QuietStepsAreSound DEF Cycles
<1>2. CASE Blynk
  BY <1>2, BlynkServiceIsSound, BlynkWriteV21IsSound, BlynkWriteV6IsSound, CloudIsSound,
     QuietStepsAreSound DEF Blynk
<1>3. CASE Mqtt
  BY <1>3, MqttServiceIsSound, BrokerIsSound, QuietStepsAreSound DEF Mqtt
<1>4. CASE Users
  BY <1>4, MqttOffIsSound, ClearIsSound, QuietStepsAreSound DEF Users
<1>5. CASE Time \/ UNCHANGED vars
  BY <1>5, QuietStepsAreSound
<1> QED BY <1>1, <1>2, <1>3, <1>4, <1>5 DEF Next

LEMMA SoundInvariance == "enqueue" \notin Faults => (Spec => [](IInv /\ Sound))
<1> SUFFICES ASSUME "enqueue" \notin Faults PROVE Spec => [](IInv /\ Sound)
  OBVIOUS
<1>1. Init => IInv /\ Sound
  BY InitParts, InitIsSound
<1>2. IInv /\ Sound /\ [Next]_vars => IInv' /\ Sound'
  BY Inductive, SoundInductive
<1> QED BY <1>1, <1>2, PTL DEF Spec

(***************************************************************************)
(* A record leaves the queue only when every destination of the mode has   *)
(* received it, to make room, or by "offline clear", when no enqueue fails *)
(* halfway: the V21 and PUBACK acknowledgements stand for the very record  *)
(* they are taken for, over resends, timeouts, sleeps and mode changes.    *)
(***************************************************************************)
THEOREM DeliveryPrecedesRemoval == "enqueue" \notin Faults => (Spec => DeliveredBeforeRemoved)
<1> SUFFICES ASSUME "enqueue" \notin Faults PROVE Spec => DeliveredBeforeRemoved
  OBVIOUS
<1> DEFINE Step == \A c \in Queued(store) \ Queued(store') :
                       \/ MakesRoom /\ c = Head(store.queue).cycle
                       \/ OfflineClear
                       \/ \A d \in RequiredMask(mode') : c \in received[d]
<1>1. IInv /\ IInv' /\ Sound /\ [Next]_vars => [Step]_vars
  <2> SUFFICES ASSUME IInv, IInv', Sound, [Next]_vars PROVE Step
    OBVIOUS
  <2>1. Delivers
    BY SoundInductive
  <2>2. Proper(store) /\ Proper(store')
    BY DEF IInv, StoreOK
  <2> SUFFICES ASSUME NEW c \in Queued(store) \ Queued(store'), ~OfflineClear
               PROVE  \/ MakesRoom /\ c = Head(store.queue).cycle
                      \/ \A d \in RequiredMask(mode') : c \in received[d]
    OBVIOUS
  <2>3. PICK q \in Live(store) : CycleAt(store, q) = c
    BY <2>2, QueuedIsLive
  <2>4. q \notin Live(store')
    <3> SUFFICES ASSUME q \in Live(store') PROVE c \in Queued(store')
      OBVIOUS
    <3>1. CycleAt(store', q) = c
      BY <2>1, <2>3 DEF Delivers
    <3>2. Queued(store') = {CycleAt(store', r) : r \in Live(store')}
      BY <2>2, QueuedIsLive
    <3> QED BY <3>1, <3>2
  <2>5. Lost(store, store', received, RequiredMask(mode'))
    BY <2>1 DEF Delivers
  <2>6. CASE q = Base(store) /\ store'.dropped > store.dropped
    <3>1. store.queue \in Seq(Record) /\ Base(store) \in Nat /\ store.queue # <<>>
      BY <2>2, <2>3, StoreFacts, LiveFacts
    <3>2. q - Base(store) + 1 = 1 /\ Head(store.queue) = store.queue[1]
      BY <2>6, <3>1
    <3> QED BY <2>3, <2>6, <3>2 DEF CycleAt, MakesRoom
  <2> QED BY <2>3, <2>4, <2>5, <2>6 DEF Lost
<1>2. Spec => [][Step]_vars
  BY <1>1, SoundInvariance, PTL DEF Spec
<1> QED BY <1>2 DEF DeliveredBeforeRemoved

(***************************************************************************)
(* A destination receives the queued records oldest first, when no enqueue *)
(* fails halfway: what is in flight stays behind everything older until    *)
(* that has been received.                                                 *)
(***************************************************************************)
THEOREM ReplayIsOldestFirst == "enqueue" \notin Faults => (Spec => OldestFirst)
<1> SUFFICES ASSUME "enqueue" \notin Faults PROVE Spec => OldestFirst
  OBVIOUS
<1> DEFINE Step == \A d \in Destination : \A c \in (received'[d] \ received[d]) \cap Queued(store) :
                       \A e \in Queued(store) : e < c => e \in received[d]
<1>1. IInv /\ Sound /\ [Next]_vars => [Step]_vars
  <2> SUFFICES ASSUME IInv, Sound, [Next]_vars,
                      NEW d \in Destination,
                      NEW c \in (received'[d] \ received[d]) \cap Queued(store),
                      NEW e \in Queued(store), e < c
               PROVE  e \in received[d]
    OBVIOUS
  <2>1. /\ Proper(store) /\ received \in [Destination -> SUBSET Cycle] /\ uplink \in Seq(Message)
    BY DEF IInv, StoreOK, Links
  <2>2. PICK q \in Live(store), r \in Live(store) : CycleAt(store, q) = c /\ CycleAt(store, r) = e
    BY <2>1, QueuedIsLive
  <2>3. r < q
    <3>1. q \in Int /\ r \in Int /\ CycleAt(store, q) \in Int /\ CycleAt(store, r) \in Int
      BY <2>1, LiveFacts DEF Cycle
    <3> QED BY <2>2, <3>1 DEF Sound, Orders
  <2>4. \E n : \E s : Carries(store, received[d], n, s, c)
    <3>1. CloudHandles \/ BrokerReceives
      BY DEF Next, Cycles, Blynk, Mqtt, Users, Time, WakeUp, NextSlot, PerformOtherCycleMeasurements,
             BeginStayAwakeQueueDrainPass, EnterTimedDeepSleep, PowerLoss, PoweredDown,
             ServiceOfflineUpload, BlynkConnects, BlynkWriteV21, BlynkWriteV6, BlynkDrops,
             ServiceMqttOfflineUpload, MqttLink, OnPublished, MqttOn, MqttOff, OfflineClear,
             SetDeepSleepDisabled, ArmEdgentConnectTimeout, Elapses, vars
    <3>2. CASE CloudHandles
      <4>1. Head(uplink) = uplink[1] /\ 1 \in DOMAIN uplink
        <5>1. uplink # <<>>
          BY <3>2 DEF CloudHandles
        <5> QED BY <2>1, <5>1
      <4>2. /\ Head(uplink) # SyncV21
            /\ received' = [received EXCEPT !["BLYNK"] = @ \cup {Head(uplink).cycle}]
        BY <3>2 DEF CloudHandles
      <4>3. d = "BLYNK" /\ c = Head(uplink).cycle
        BY <2>1, <4>2
      <4> QED BY <4>1, <4>2, <4>3 DEF Sound, Flight
    <3>3. CASE BrokerReceives
      <4>1. /\ mqtt.pending
            /\ received' = [received EXCEPT !["MQTT"] = @ \cup {mqtt.cycle}]
        BY <3>3 DEF BrokerReceives
      <4>2. d = "MQTT" /\ c = mqtt.cycle
        BY <2>1, <4>1
      <4> QED BY <4>1, <4>2 DEF Sound, Publishes
    <3> QED BY <3>1, <3>2, <3>3
  <2> QED BY <2>2, <2>3, <2>4 DEF Carries
<1>2. Spec => [][Step]_vars
  BY <1>1, SoundInvariance, PTL DEF Spec
<1> QED BY <1>2 DEF OldestFirst
==============================================================================
