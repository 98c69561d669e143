------------------------- MODULE DurableQueueProofs -------------------------
(***************************************************************************)
(* DurableQueue keeps its records contiguous and its deliveries in order,  *)
(* for every capacity below half the range of sequences, so that a cursor  *)
(* per destination finds what the destination lacks.                       *)
(***************************************************************************)
EXTENDS DurableQueue, TelemetryDeliveryStateProofs

IInv == TypeOK /\ Contiguous /\ DeliveredInOrder

LEMMA RecordsDistinct ==
    ASSUME TypeOK, Contiguous
    PROVE  /\ \A i, j \in 1 .. Len(records) : i # j => records[i] # records[j]
           /\ \A i \in 1 .. Len(records) : records[i] # nextSequence
<1>1. Len(records) \in Nat /\ Len(records) < HalfRange /\ nextSequence \in Sequence
  BY QueueAssumption, HalfRangeAssumption DEF TypeOK
<1>2. nextSequence = Nth(nextSequence, 0)
  BY <1>1, HalfRangeAssumption DEF Nth, Sequence, Modulus
<1>3. ASSUME NEW i \in 1 .. Len(records), NEW j \in 1 .. Len(records), i # j
      PROVE  records[i] # records[j]
  <2> DEFINE m == i - 1 - Len(records)
             n == j - 1 - Len(records)
  <2>1. m \in Int /\ n \in Int /\ m # n /\ -HalfRange < m /\ m <= 0 /\ -HalfRange < n /\ n <= 0
    BY <1>1, <1>3, HalfRangeAssumption
  <2>2. Nth(nextSequence, m) # Nth(nextSequence, n)
    BY <1>1, <2>1, NthDistinct
  <2> QED
    BY <2>2 DEF Contiguous
<1>4. ASSUME NEW i \in 1 .. Len(records)
      PROVE  records[i] # nextSequence
  <2> DEFINE m == i - 1 - Len(records)
  <2>1. m \in Int /\ m # 0 /\ -HalfRange < m /\ m <= 0
    BY <1>1, HalfRangeAssumption
  <2>2. Nth(nextSequence, m) # Nth(nextSequence, 0)
    BY <1>1, <2>1, NthDistinct, HalfRangeAssumption
  <2> QED
    BY <1>2, <2>2 DEF Contiguous
<1> QED
  BY <1>3, <1>4

-----------------------------------------------------------------------------
\* Removing the head keeps the invariant, whatever the counters do.
LEMMA RemoveHeadPreserves ==
    ASSUME IInv, RemoveHead, nextSequence' = nextSequence,
           requiredMask' \in Masks \cup {{}}, dropped' \in Nat
    PROVE  IInv'
<1> USE DEF IInv, TypeOK
<1>1. /\ Len(records) \in Nat /\ Len(records) > 0
      /\ records' \in Seq(Sequence) /\ Len(records') = Len(records) - 1
      /\ \A i \in 1 .. Len(records') : records'[i] = records[i + 1]
      /\ Head(records) = records[1]
  BY DEF RemoveHead
<1>2. TypeOK'
  BY <1>1, QueueAssumption DEF RemoveHead
<1>3. Contiguous'
  BY <1>1 DEF Contiguous
<1>4. ASSUME NEW d \in TelemetryDestination
      PROVE  /\ \A s \in delivered'[d] : \E i \in 1 .. Len(records') : records'[i] = s
             /\ \A i, j \in 1 .. Len(records') :
                    i < j /\ records'[j] \in delivered'[d] => records'[i] \in delivered'[d]
  <2>1. delivered'[d] = delivered[d] \ {records[1]}
    BY <1>1 DEF RemoveHead
  <2>2. ASSUME NEW s \in delivered'[d]
        PROVE  \E i \in 1 .. Len(records') : records'[i] = s
    <3>1. PICK k \in 1 .. Len(records) : records[k] = s
      BY <2>1, <2>2 DEF DeliveredInOrder
    <3>2. k - 1 \in 1 .. Len(records') /\ records'[k - 1] = s
      BY <1>1, <2>1, <2>2, <3>1
    <3> QED
      BY <3>2
  <2>3. ASSUME NEW i \in 1 .. Len(records'), NEW j \in 1 .. Len(records'),
               i < j, records'[j] \in delivered'[d]
        PROVE  records'[i] \in delivered'[d]
    <3>1. i + 1 \in 1 .. Len(records) /\ j + 1 \in 1 .. Len(records) /\ i + 1 < j + 1
      BY <1>1, <2>3
    <3>2. records[i + 1] \in delivered[d]
      BY <1>1, <2>1, <2>3, <3>1 DEF DeliveredInOrder
    <3>3. records[i + 1] # records[1]
      BY <1>1, <3>1, RecordsDistinct
    <3> QED
      BY <1>1, <2>1, <3>2, <3>3
  <2> QED
    BY <2>2, <2>3
<1> QED
  BY <1>2, <1>3, <1>4 DEF DeliveredInOrder

LEMMA EnqueuePreserves == IInv /\ Enqueue => IInv'
<1> SUFFICES ASSUME IInv, Enqueue PROVE IInv'
  OBVIOUS
<1> USE DEF IInv, TypeOK
<1>1. /\ Len(records) \in Nat /\ Len(records) < Capacity /\ Capacity < HalfRange
      /\ nextSequence \in Sequence
      /\ records' \in Seq(Sequence) /\ Len(records') = Len(records) + 1
      /\ \A i \in 1 .. Len(records) : records'[i] = records[i]
      /\ records'[Len(records) + 1] = nextSequence
      /\ delivered' = delivered
  BY QueueAssumption DEF Enqueue
<1>2. TypeOK'
  BY <1>1, QueueAssumption, NextSequenceType DEF Enqueue
<1>3. Contiguous'
  <2> SUFFICES ASSUME NEW i \in 1 .. Len(records')
               PROVE  records'[i] = Nth(NextSequence(nextSequence), i - 1 - Len(records'))
    BY DEF Contiguous, Enqueue
  <2> DEFINE n == i - 1 - Len(records)
  <2>1. n \in Int /\ -HalfRange < n /\ n <= 0 /\ n - 1 = i - 1 - Len(records')
    BY <1>1, QueueAssumption, HalfRangeAssumption
  <2>2. Nth(NextSequence(nextSequence), n - 1) = Nth(nextSequence, n)
    BY <1>1, <2>1, NthShift
  <2>3. CASE i \in 1 .. Len(records)
    BY <1>1, <2>1, <2>2, <2>3 DEF Contiguous
  <2>4. CASE i = Len(records) + 1
    <3>1. n = 0 /\ Nth(nextSequence, 0) = nextSequence
      BY <1>1, <2>4, HalfRangeAssumption DEF Nth, Sequence, Modulus
    <3> QED
      BY <1>1, <2>1, <2>2, <2>4, <3>1
  <2> QED
    BY <1>1, <2>3, <2>4
<1>4. nextSequence \notin UNION {delivered[d] : d \in TelemetryDestination}
  BY RecordsDistinct DEF DeliveredInOrder
<1>5. DeliveredInOrder'
  <2> SUFFICES ASSUME NEW d \in TelemetryDestination
               PROVE  /\ \A s \in delivered[d] : \E i \in 1 .. Len(records') : records'[i] = s
                      /\ \A i, j \in 1 .. Len(records') :
                           i < j /\ records'[j] \in delivered[d] => records'[i] \in delivered[d]
    BY <1>1 DEF DeliveredInOrder
  <2>1. \A s \in delivered[d] : \E i \in 1 .. Len(records') : records'[i] = s
    BY <1>1 DEF DeliveredInOrder
  <2>2. \A i, j \in 1 .. Len(records') :
            i < j /\ records'[j] \in delivered[d] => records'[i] \in delivered[d]
    <3> SUFFICES ASSUME NEW i \in 1 .. Len(records'), NEW j \in 1 .. Len(records'),
                        i < j, records'[j] \in delivered[d]
                 PROVE  records'[i] \in delivered[d]
      OBVIOUS
    <3>1. nextSequence \notin delivered[d]
      BY <1>4
    <3>2. i \in 1 .. Len(records) /\ j \in 1 .. Len(records)
      BY <1>1, <3>1
    <3> QED
      BY <1>1, <3>2 DEF DeliveredInOrder
  <2> QED
    BY <2>1, <2>2
<1> QED
  BY <1>2, <1>3, <1>5

LEMMA DeliverPreserves ==
    ASSUME IInv, NEW mask \in Masks, NEW d \in mask, Deliver(d, mask)
    PROVE  IInv'
<1> USE DEF IInv, TypeOK
<1>0. d \in TelemetryDestination
  BY QueueAssumption
<1>a. DOMAIN records = 1 .. Len(records)
  OBVIOUS
<1>1. PICK k \in 1 .. Len(records) :
          /\ \A j \in 1 .. k - 1 : records[j] \in delivered[d]
          /\ delivered' = [delivered EXCEPT ![d] = @ \cup {records[k]}]
  BY <1>a, Zenon DEF Deliver
<1>2. records' = records /\ nextSequence' = nextSequence /\ dropped' = dropped
      /\ requiredMask' = mask
  BY DEF Deliver
<1>3. records[k] \in Sequence
  OBVIOUS
<1>4. TypeOK'
  BY <1>0, <1>1, <1>2, <1>3
<1>5. Contiguous'
  BY <1>2 DEF Contiguous
<1>6. ASSUME NEW e \in TelemetryDestination
      PROVE  /\ \A s \in delivered'[e] : \E i \in 1 .. Len(records) : records[i] = s
             /\ \A i, j \in 1 .. Len(records) :
                    i < j /\ records[j] \in delivered'[e] => records[i] \in delivered'[e]
  <2>1. CASE e # d
    BY <1>1, <2>1 DEF DeliveredInOrder
  <2>2. CASE e = d
    <3>1. delivered'[e] = delivered[d] \cup {records[k]}
      BY <1>0, <1>1, <2>2
    <3>2. \A s \in delivered'[e] : \E i \in 1 .. Len(records) : records[i] = s
      BY <1>0, <3>1 DEF DeliveredInOrder
    <3>3. ASSUME NEW i \in 1 .. Len(records), NEW j \in 1 .. Len(records),
                 i < j, records[j] \in delivered'[e]
          PROVE  records[i] \in delivered'[e]
      <4>1. CASE records[j] \in delivered[d]
        BY <1>0, <3>1, <3>3, <4>1 DEF DeliveredInOrder
      <4>2. CASE records[j] = records[k]
        <5>1. j = k
          BY <4>2, RecordsDistinct
        <5> QED
          BY <1>1, <3>1, <3>3, <5>1
      <4> QED
        BY <3>1, <3>3, <4>1, <4>2
    <3> QED
      BY <3>2, <3>3
  <2> QED
    BY <2>1, <2>2
<1> QED
  BY <1>2, <1>4, <1>5, <1>6 DEF DeliveredInOrder

LEMMA ClearPreserves == IInv /\ Clear => IInv'
<1> SUFFICES ASSUME IInv, Clear PROVE IInv'
  OBVIOUS
<1>1. records' = <<>> /\ Len(records') = 0
  BY DEF Clear
<1>2. \A d \in TelemetryDestination : delivered'[d] = {}
  BY DEF Clear
<1>3. TypeOK'
  BY <1>1, QueueAssumption DEF IInv, TypeOK, Clear
<1>4. Contiguous'
  BY <1>1 DEF Contiguous
<1>5. DeliveredInOrder'
  BY <1>1, <1>2 DEF DeliveredInOrder
<1> QED
  BY <1>3, <1>4, <1>5 DEF IInv

LEMMA InitEstablishes == Init => IInv
<1> SUFFICES ASSUME Init PROVE IInv
  OBVIOUS
<1>1. records = <<>> /\ Len(records) = 0
  BY DEF Init
<1>2. TypeOK
  BY <1>1, QueueAssumption DEF Init, TypeOK
<1>3. Contiguous /\ DeliveredInOrder
  BY <1>1 DEF Init, Contiguous, DeliveredInOrder
<1> QED
  BY <1>2, <1>3 DEF IInv

LEMMA StepPreserves == IInv /\ [ApiNext]_vars => IInv'
<1> SUFFICES ASSUME IInv, [ApiNext]_vars PROVE IInv'
  OBVIOUS
<1>1. CASE Enqueue
  BY <1>1, EnqueuePreserves
<1>2. CASE Drop
  BY <1>2, RemoveHeadPreserves DEF Drop, IInv, TypeOK
<1>3. CASE Trim
  BY <1>3, RemoveHeadPreserves DEF Trim, IInv, TypeOK
<1>4. ASSUME NEW mask \in Masks, NEW d \in mask, Deliver(d, mask) PROVE IInv'
  BY <1>4, DeliverPreserves
<1>5. CASE (\E mask \in Masks : Reconcile(mask)) \/ EndCall
  BY <1>5 DEF Reconcile, EndCall, IInv, TypeOK, Contiguous, DeliveredInOrder
<1>6. CASE Clear
  BY <1>6, ClearPreserves
<1>7. CASE Pop
  BY <1>7, RemoveHeadPreserves DEF Pop, IInv, TypeOK
<1>8. CASE UNCHANGED vars
  BY <1>8 DEF vars, IInv, TypeOK, Contiguous, DeliveredInOrder
<1> QED
  BY <1>1, <1>2, <1>3, <1>4, <1>5, <1>6, <1>7, <1>8 DEF ApiNext, Next, DropOldest

-----------------------------------------------------------------------------
\* Every behaviour, discards of a corrupt head included, keeps the types ...
THEOREM TypeCorrect == ApiSpec => []TypeOK
<1>1. IInv => TypeOK
  BY DEF IInv
<1> QED
  BY <1>1, InitEstablishes, StepPreserves, PTL DEF ApiSpec

\* ... the consecutive sequences that the slot computation relies on ...
THEOREM AlwaysContiguous == ApiSpec => []Contiguous
<1>1. IInv => Contiguous
  BY DEF IInv
<1> QED
  BY <1>1, InitEstablishes, StepPreserves, PTL DEF ApiSpec

\* ... and what a destination acknowledged is a prefix of the queue.
THEOREM AlwaysInOrder == ApiSpec => []DeliveredInOrder
<1>1. IInv => DeliveredInOrder
  BY DEF IInv
<1> QED
  BY <1>1, InitEstablishes, StepPreserves, PTL DEF ApiSpec

-----------------------------------------------------------------------------
LEMMA CursorAgrees == IInv => CursorFindsPending
<1> SUFFICES ASSUME IInv, NEW d \in TelemetryDestination, NEW n \in 1 .. Len(records),
                    Newest(d, n)
             PROVE  /\ \A i \in 1 .. Len(records) :
                           TelemetrySequenceAfter(records[i], records[n])
                               <=> records[i] \notin delivered[d]
                    /\ TelemetryPendingOffset(records[1], records[n]) = n
  BY DEF CursorFindsPending
<1> DEFINE head == Nth(nextSequence, -Len(records))
<1>1. /\ Len(records) \in Nat /\ Len(records) > 0 /\ Len(records) < HalfRange
      /\ nextSequence \in Sequence /\ HalfRange \in Nat
  BY QueueAssumption, HalfRangeAssumption DEF IInv, TypeOK
<1>2. head \in Sequence
  BY <1>1, NthType, HalfRangeAssumption DEF Modulus
<1>3. ASSUME NEW i \in 1 .. Len(records) PROVE records[i] = Nth(head, i - 1)
  <2>1. i - 1 \in Nat /\ i - 1 <= Len(records)
    BY <1>1
  <2>2. Nth(head, i - 1) = Nth(nextSequence, (i - 1) - Len(records))
    BY <1>1, <2>1, NthChain
  <2>3. records[i] = Nth(nextSequence, i - 1 - Len(records))
    BY DEF IInv, Contiguous
  <2> QED
    BY <2>2, <2>3
<1>4. records[n] = CursorAt(head, n)
  BY <1>3 DEF CursorAt
<1>5. ASSUME NEW i \in 1 .. Len(records)
      PROVE  TelemetrySequenceAfter(records[i], records[n]) <=> records[i] \notin delivered[d]
  <2>1. AfterIsPosition(head, n, i - 1)
    BY <1>1, <1>2, AfterAgreesWithPosition
  <2>2. TelemetrySequenceAfter(records[i], records[n]) <=> i > n
    BY <1>1, <1>3, <1>4, <2>1 DEF AfterIsPosition
  <2>3. i > n => records[i] \notin delivered[d]
    BY <1>1 DEF Newest
  <2>4. i <= n => records[i] \in delivered[d]
    BY <1>1 DEF Newest, IInv, DeliveredInOrder
  <2> QED
    BY <1>1, <2>2, <2>3, <2>4
<1>6. TelemetryPendingOffset(records[1], records[n]) = n
  <2>1. OffsetIsPosition(head, n)
    BY <1>1, <1>2, OffsetAgreesWithPosition
  <2>2. records[1] = head
    BY <1>1, <1>2, <1>3, NthZero
  <2> QED
    BY <1>1, <1>4, <2>1, <2>2 DEF OffsetIsPosition
<1> QED
  BY <1>5, <1>6

\* The code's cursor arithmetic is right in every reachable queue.
THEOREM AlwaysFindsPending == ApiSpec => []CursorFindsPending
  BY CursorAgrees, InitEstablishes, StepPreserves, PTL DEF ApiSpec
=============================================================================
