------------------------- MODULE OfflineQueueProofs -------------------------
(***************************************************************************)
(* OfflineQueue for every capacity, word size and set of modes, whatever   *)
(* write fails or is torn and wherever power is lost: a reboot loads the   *)
(* header and the cursors that RAM held (the two-copy protocol), the live  *)
(* slots hold what the header promises (the contents), and, unless the     *)
(* creation of a queue file beside old cursors is cut off, no cursor is    *)
(* inherited and the queue is the atomic one (the refinement).             *)
(***************************************************************************)
EXTENDS OfflineQueue, TelemetryDeliveryStateProofs, FiniteSetTheorems, Sequences

(***************************************************************************)
(* The inductive invariant.  Held: the active copy is what RAM holds, and  *)
(* the other copy is torn or exactly one generation older.  Loadable: the  *)
(* same of the copy that a reboot would choose, which is what remains of   *)
(* Held when RAM is lost.                                                  *)
(***************************************************************************)
Held(copies, current, active) ==
    /\ copies[active] = current
    /\ \/ copies[1 - active] = Torn
       \/ Generation!Increment(copies[1 - active].generation) = current.generation

Loadable(copies) ==
    Readable(copies) => \E i \in {0, 1} : copies[i] # Torn /\ Held(copies, copies[i], i)

\* Once the oldest record of a full queue is dropped, a record fits.
RoomForRecord == pc \in {"record", "commit"} => header.count < Capacity

QueueLoaded == Ready \/ pc \in {"removeDelivery", "initDelivery"}

IInv ==
    /\ TypeOK
    /\ QueueLoaded => Held(queueCopy, header, activeHeaderIndex)
    /\ Ready => Held(deliveryCopy, delivery, activeDeliveryHeaderIndex)
    /\ Loadable(queueCopy)
    /\ Loadable(deliveryCopy)
    /\ RoomForRecord

-----------------------------------------------------------------------------
(* Types of the helpers. *)

LEMMA GenerationType ==
    /\ \A g \in Generation!Word : Generation!Increment(g) \in Generation!Word
    /\ 0 \in Generation!Word /\ 1 \in Generation!Word
    /\ Generation!Increment(0) = 1
BY QueueAssumption DEF Generation!Word, Generation!Increment, Generation!Modulus

LEMMA IndexType ==
    /\ \A h \in Index, n \in 0 .. Capacity : Ahead(h, n) \in Index
    /\ \A h \in Index : Behind(h) \in Index
    /\ 0 \in Index
BY QueueAssumption DEF Index, Ahead, Behind

LEMMA FirstHeaderType ==
    /\ \A g \in {0, 1} : FirstQueueHeader(g) \in QueueHeader
    /\ \A g \in {0, 1} : FirstDeliveryHeader(g) \in DeliveryHeader
<1>1. 0 \in Index /\ 0 \in 0 .. Capacity /\ 1 \in Sequence /\ 0 \in Word
  BY IndexType, QueueAssumption, HalfRangeAssumption DEF Sequence, Word, Modulus
<1>2. NoCursors \in [TelemetryDestination -> Word]
  BY <1>1 DEF NoCursors
<1> QED
  BY <1>1, <1>2, GenerationType
     DEF FirstQueueHeader, FirstDeliveryHeader, QueueHeader, DeliveryHeader

\* What an operation commits is a header again.
LEMMA ChangedHeaderType ==
    ASSUME NEW h \in QueueHeader
    PROVE  /\ h.count > 0 => HeadRemoved(h) \in QueueHeader
           /\ h.count > 0 => HeadDropped(h) \in QueueHeader
           /\ h.count < Capacity => RecordAdded(h) \in QueueHeader
           /\ [h EXCEPT !.head = Ahead(h.head, h.count), !.count = 0] \in QueueHeader
<1>1. h.head \in Index /\ h.count \in 0 .. Capacity /\ h.nextSequence \in Sequence
      /\ h.droppedRecords \in Nat
  BY DEF QueueHeader
<1>2. Ahead(h.head, 1) \in Index /\ Ahead(h.head, h.count) \in Index
  BY <1>1, IndexType, QueueAssumption
<1>3. NextSequence(h.nextSequence) \in Sequence
  BY <1>1, NextSequenceType
<1>4. 0 \in 0 .. Capacity /\ (h.count > 0 => h.count - 1 \in 0 .. Capacity)
      /\ (h.count < Capacity => h.count + 1 \in 0 .. Capacity)
  BY <1>1, QueueAssumption
<1>5. h.droppedRecords + 1 \in Nat
  BY <1>1
<1> QED
  BY <1>1, <1>2, <1>3, <1>4, <1>5 DEF QueueHeader, HeadRemoved, HeadDropped, RecordAdded

\* What is pending for a destination is a stored record.
LEMMA PendingType ==
    ASSUME TypeOK, NEW d \in TelemetryDestination, Pending(d) # Blank
    PROVE  Pending(d) \in Sequence
<1>1. header.head \in Index /\ header.count \in 0 .. Capacity
      /\ delivery.cursor[d] \in Word
  BY DEF TypeOK, QueueHeader, DeliveryHeader
<1>2. \A i \in Index : slot[i] \in Word
  BY DEF TypeOK
<1> DEFINE offset == TelemetryPendingOffset(slot[header.head], delivery.cursor[d])
<1>3. offset \in Nat
  BY <1>1, <1>2, HalfRangeAssumption
     DEF TelemetryPendingOffset, Minus, Increment, Word, Modulus
<1>4. offset < header.count => Ahead(header.head, offset) \in Index
  BY <1>1, <1>3, IndexType, QueueAssumption
<1>5. Pending(d) = slot[header.head]
      \/ (offset < header.count /\ Pending(d) = slot[Ahead(header.head, offset)])
  BY <1>1, <1>3, QueueAssumption DEF Pending
<1>6. Pending(d) \in Word
  BY <1>1, <1>2, <1>4, <1>5
<1> QED
  BY <1>6 DEF Blank, Word, Sequence

-----------------------------------------------------------------------------
(* The two-copy protocol, for a pair of copies of any kind. *)

\* A value that stands one generation behind another is not newer than it.
LEMMA GenerationOrder ==
    ASSUME NEW g \in Generation!Word
    PROVE  /\ Generation!PositiveInt32(Generation!Minus(Generation!Increment(g), g))
           /\ ~Generation!PositiveInt32(Generation!Minus(g, Generation!Increment(g)))
BY QueueAssumption
   DEF Generation!Word, Generation!Increment, Generation!Minus,
       Generation!PositiveInt32, Generation!Modulus

\* A held copy is the one that loadHeader (or loadDeliveryState) picks.
LEMMA HeldIsNewest ==
    ASSUME NEW copies, NEW current, NEW active \in {0, 1},
           current # Torn, Held(copies, current, active),
           copies[1 - active] # Torn => copies[1 - active].generation \in Generation!Word
    PROVE  Readable(copies) /\ NewestCopy(copies) = active
<1>1. CASE active = 0
  <2>1. copies[0] # Torn
    BY <1>1 DEF Held
  <2>2. CASE copies[1] = Torn
    BY <1>1, <2>1, <2>2 DEF Readable, NewestCopy
  <2>3. CASE copies[1] # Torn
    <3>1. copies[1].generation \in Generation!Word
          /\ copies[0].generation = Generation!Increment(copies[1].generation)
      BY <1>1, <2>3 DEF Held
    <3>2. ~Generation!PositiveInt32(Generation!Minus(copies[1].generation, copies[0].generation))
      BY <3>1, GenerationOrder
    <3> QED
      BY <1>1, <2>1, <2>3, <3>2 DEF Readable, NewestCopy
  <2> QED
    BY <2>2, <2>3
<1>2. CASE active = 1
  <2>1. copies[1] # Torn
    BY <1>2 DEF Held
  <2>2. CASE copies[0] = Torn
    BY <1>2, <2>1, <2>2 DEF Readable, NewestCopy
  <2>3. CASE copies[0] # Torn
    <3>1. copies[0].generation \in Generation!Word
          /\ copies[1].generation = Generation!Increment(copies[0].generation)
      BY <1>2, <2>3 DEF Held
    <3>2. Generation!PositiveInt32(Generation!Minus(copies[1].generation, copies[0].generation))
      BY <3>1, GenerationOrder
    <3> QED
      BY <1>2, <2>1, <2>3, <3>2 DEF Readable, NewestCopy
  <2> QED
    BY <2>2, <2>3
<1> QED
  BY <1>1, <1>2

\* Writing the next generation over the other copy holds the new value.
LEMMA HeldAfterWrite ==
    ASSUME NEW Kind, NEW copies \in [{0, 1} -> Kind], NEW current, NEW written \in Kind,
           NEW active \in {0, 1},
           Held(copies, current, active),
           written.generation = Generation!Increment(current.generation)
    PROVE  Held([copies EXCEPT ![1 - active] = written], written, 1 - active)
<1> DEFINE after == [copies EXCEPT ![1 - active] = written]
<1>1. 1 - active \in {0, 1} /\ 1 - (1 - active) = active /\ 1 - active # active
  OBVIOUS
<1>2. after[1 - active] = written /\ after[active] = current
  BY <1>1 DEF Held
<1> QED
  BY <1>1, <1>2 DEF Held

\* A write that fails or is torn leaves the held value held.
LEMMA HeldAfterFailure ==
    ASSUME NEW Kind, NEW copies \in [{0, 1} -> Kind], NEW current,
           NEW active \in {0, 1}, NEW left \in {copies[1 - active], Torn},
           Held(copies, current, active)
    PROVE  Held([copies EXCEPT ![1 - active] = left], current, active)
<1> DEFINE after == [copies EXCEPT ![1 - active] = left]
<1>1. 1 - active \in {0, 1} /\ 1 - active # active
  OBVIOUS
<1>2. after[1 - active] = left /\ after[active] = copies[active]
  BY <1>1
<1> QED
  BY <1>2 DEF Held

\* What is held can be loaded, and what can be loaded is held once loaded.
LEMMA HeldIsLoadable ==
    ASSUME NEW copies, NEW current, NEW active \in {0, 1}, current # Torn,
           Held(copies, current, active)
    PROVE  Loadable(copies)
BY DEF Held, Loadable

LEMMA LoadedIsHeld ==
    ASSUME NEW copies, Readable(copies), Loadable(copies),
           \A i \in {0, 1} : copies[i] # Torn => copies[i].generation \in Generation!Word
    PROVE  LET i == NewestCopy(copies)
           IN  i \in {0, 1} /\ copies[i] # Torn /\ Held(copies, copies[i], i)
<1>1. PICK i \in {0, 1} : copies[i] # Torn /\ Held(copies, copies[i], i)
  BY DEF Loadable
<1>2. 1 - i \in {0, 1}
  OBVIOUS
<1>3. NewestCopy(copies) = i
  BY <1>1, <1>2, HeldIsNewest
<1> QED
  BY <1>1, <1>3

\* The same facts for the two files, from the type invariant.
LEMMA CopyTypes ==
    ASSUME TypeOK
    PROVE  /\ \A i \in {0, 1} : queueCopy[i] # Torn =>
                  queueCopy[i] \in QueueHeader /\ queueCopy[i].generation \in Generation!Word
           /\ \A i \in {0, 1} : deliveryCopy[i] # Torn =>
                  deliveryCopy[i] \in DeliveryHeader /\ deliveryCopy[i].generation \in Generation!Word
           /\ header # Torn /\ delivery # Torn
           /\ 1 - activeHeaderIndex \in {0, 1} /\ 1 - activeDeliveryHeaderIndex \in {0, 1}
BY QueueAssumption DEF TypeOK, QueueCopies, DeliveryCopies, QueueHeader, DeliveryHeader

\* saveHeader, completed: RAM and flash agree on the header.
LEMMA HeaderWrittenHolds ==
    ASSUME IInv, QueueLoaded, NEW changed \in QueueHeader, HeaderWritten(changed)
    PROVE  /\ queueCopy' \in QueueCopies /\ header' \in QueueHeader
           /\ activeHeaderIndex' \in {0, 1}
           /\ Held(queueCopy', header', activeHeaderIndex')
           /\ Loadable(queueCopy')
<1> DEFINE written == [changed EXCEPT !.generation = Generation!Increment(header.generation)]
<1>1. header.generation \in Generation!Word
  BY DEF IInv, TypeOK, QueueHeader
<1>2. written \in QueueHeader /\ written.generation = Generation!Increment(header.generation)
  BY <1>1, GenerationType DEF QueueHeader
<1>3. queueCopy \in [{0, 1} -> QueueHeader \cup {Torn}] /\ activeHeaderIndex \in {0, 1}
      /\ 1 - activeHeaderIndex \in {0, 1}
  BY DEF IInv, TypeOK, QueueCopies
<1>4. queueCopy' = [queueCopy EXCEPT ![1 - activeHeaderIndex] = written]
      /\ header' = written /\ activeHeaderIndex' = 1 - activeHeaderIndex
  BY DEF HeaderWritten
<1>5. Held(queueCopy', header', activeHeaderIndex')
  <2> HIDE DEF written
  <2>1. Held(queueCopy, header, activeHeaderIndex) /\ written \in QueueHeader \cup {Torn}
    BY <1>2 DEF IInv
  <2>2. Held([queueCopy EXCEPT ![1 - activeHeaderIndex] = written], written, 1 - activeHeaderIndex)
    BY <1>2, <1>3, <2>1, HeldAfterWrite
  <2> QED
    BY <1>4, <2>2
<1>6. queueCopy' \in QueueCopies
  BY <1>2, <1>3, <1>4 DEF QueueCopies
<1>7. Loadable(queueCopy')
  BY <1>2, <1>3, <1>4, <1>5, HeldIsLoadable, QueueAssumption
<1> QED
  BY <1>2, <1>3, <1>4, <1>5, <1>6, <1>7

\* saveHeader, failed or torn: RAM and flash still agree on the old header.
LEMMA HeaderFailsHolds ==
    ASSUME IInv, QueueLoaded, HeaderFails
    PROVE  /\ queueCopy' \in QueueCopies /\ header' \in QueueHeader
           /\ activeHeaderIndex' \in {0, 1}
           /\ Held(queueCopy', header', activeHeaderIndex')
           /\ Loadable(queueCopy')
<1>1. queueCopy \in [{0, 1} -> QueueHeader \cup {Torn}] /\ activeHeaderIndex \in {0, 1}
      /\ 1 - activeHeaderIndex \in {0, 1} /\ header \in QueueHeader
  BY DEF IInv, TypeOK, QueueCopies
<1>2. PICK left \in {queueCopy[1 - activeHeaderIndex], Torn} :
          queueCopy' = [queueCopy EXCEPT ![1 - activeHeaderIndex] = left]
  BY DEF HeaderFails
<1>3. header' = header /\ activeHeaderIndex' = activeHeaderIndex
  BY DEF HeaderFails, queueRam
<1>4. Held(queueCopy', header', activeHeaderIndex')
  BY <1>1, <1>2, <1>3, HeldAfterFailure DEF IInv
<1>5. queueCopy' \in QueueCopies
  BY <1>1, <1>2 DEF QueueCopies
<1>6. Loadable(queueCopy')
  BY <1>1, <1>3, <1>4, HeldIsLoadable, QueueAssumption
<1> QED
  BY <1>1, <1>3, <1>4, <1>5, <1>6

\* saveDeliveryState, completed.
LEMMA DeliveryWrittenHolds ==
    ASSUME IInv, Ready, NEW changed \in DeliveryHeader, DeliveryWritten(changed)
    PROVE  /\ deliveryCopy' \in DeliveryCopies /\ delivery' \in DeliveryHeader
           /\ activeDeliveryHeaderIndex' \in {0, 1}
           /\ Held(deliveryCopy', delivery', activeDeliveryHeaderIndex')
           /\ Loadable(deliveryCopy')
<1> DEFINE written == [changed EXCEPT !.generation = Generation!Increment(delivery.generation)]
<1>1. delivery.generation \in Generation!Word
  BY DEF IInv, TypeOK, DeliveryHeader
<1>2. written \in DeliveryHeader /\ written.generation = Generation!Increment(delivery.generation)
  BY <1>1, GenerationType DEF DeliveryHeader
<1>3. deliveryCopy \in [{0, 1} -> DeliveryHeader \cup {Torn}]
      /\ activeDeliveryHeaderIndex \in {0, 1} /\ 1 - activeDeliveryHeaderIndex \in {0, 1}
  BY DEF IInv, TypeOK, DeliveryCopies
<1>4. deliveryCopy' = [deliveryCopy EXCEPT ![1 - activeDeliveryHeaderIndex] = written]
      /\ delivery' = written /\ activeDeliveryHeaderIndex' = 1 - activeDeliveryHeaderIndex
  BY DEF DeliveryWritten
<1>5. Held(deliveryCopy', delivery', activeDeliveryHeaderIndex')
  <2> HIDE DEF written
  <2>1. Held(deliveryCopy, delivery, activeDeliveryHeaderIndex)
        /\ written \in DeliveryHeader \cup {Torn}
    BY <1>2 DEF IInv
  <2>2. Held([deliveryCopy EXCEPT ![1 - activeDeliveryHeaderIndex] = written], written,
             1 - activeDeliveryHeaderIndex)
    BY <1>2, <1>3, <2>1, HeldAfterWrite
  <2> QED
    BY <1>4, <2>2
<1>6. deliveryCopy' \in DeliveryCopies
  BY <1>2, <1>3, <1>4 DEF DeliveryCopies
<1>7. Loadable(deliveryCopy')
  BY <1>2, <1>3, <1>4, <1>5, HeldIsLoadable, QueueAssumption
<1> QED
  BY <1>2, <1>3, <1>4, <1>5, <1>6, <1>7

\* saveDeliveryState, failed or torn.
LEMMA DeliveryFailsHolds ==
    ASSUME IInv, Ready, DeliveryFails
    PROVE  /\ deliveryCopy' \in DeliveryCopies /\ delivery' \in DeliveryHeader
           /\ activeDeliveryHeaderIndex' \in {0, 1}
           /\ Held(deliveryCopy', delivery', activeDeliveryHeaderIndex')
           /\ Loadable(deliveryCopy')
<1>1. deliveryCopy \in [{0, 1} -> DeliveryHeader \cup {Torn}]
      /\ activeDeliveryHeaderIndex \in {0, 1} /\ 1 - activeDeliveryHeaderIndex \in {0, 1}
      /\ delivery \in DeliveryHeader
  BY DEF IInv, TypeOK, DeliveryCopies
<1>2. PICK left \in {deliveryCopy[1 - activeDeliveryHeaderIndex], Torn} :
          deliveryCopy' = [deliveryCopy EXCEPT ![1 - activeDeliveryHeaderIndex] = left]
  BY DEF DeliveryFails
<1>3. delivery' = delivery /\ activeDeliveryHeaderIndex' = activeDeliveryHeaderIndex
  BY DEF DeliveryFails, deliveryRam
<1>4. Held(deliveryCopy', delivery', activeDeliveryHeaderIndex')
  BY <1>1, <1>2, <1>3, HeldAfterFailure DEF IInv
<1>5. deliveryCopy' \in DeliveryCopies
  BY <1>1, <1>2 DEF DeliveryCopies
<1>6. Loadable(deliveryCopy')
  BY <1>1, <1>3, <1>4, HeldIsLoadable, QueueAssumption
<1> QED
  BY <1>1, <1>3, <1>4, <1>5, <1>6

-----------------------------------------------------------------------------
(* Every action preserves the invariant. *)

\* The cursors of a queue that was in use, beside its queue file or not.
LEMMA AgedCursorsType ==
    ASSUME NEW users \in Masks, AgedCursors(users)
    PROVE  /\ deliveryCopy \in DeliveryCopies /\ Loadable(deliveryCopy)
           /\ Readable(deliveryCopy)
<1> DEFINE cursors == [d \in TelemetryDestination |-> IF d \in users THEN AgedSequence ELSE 0]
<1>1. cursors \in [TelemetryDestination -> Word]
  BY QueueAssumption, HalfRangeAssumption DEF Word, Sequence, Modulus
<1>2. \A i \in {0, 1} : [generation |-> i, cursor |-> cursors] \in DeliveryHeader
  BY <1>1, GenerationType DEF DeliveryHeader
<1>3. deliveryCopy = [i \in {0, 1} |-> [generation |-> i, cursor |-> cursors]]
  BY DEF AgedCursors
<1> HIDE DEF cursors
<1>4. deliveryCopy \in DeliveryCopies
  BY <1>2, <1>3 DEF DeliveryCopies
<1>5. Held(deliveryCopy, deliveryCopy[1], 1) /\ deliveryCopy[1] # Torn
  <2>1. deliveryCopy[0].generation = 0 /\ deliveryCopy[1].generation = 1
    BY <1>3
  <2> QED
    BY <1>2, <1>3, <2>1, GenerationType, QueueAssumption DEF Held
<1> QED BY <1>4, <1>5 DEF Loadable, Readable

LEMMA InitEstablishes == Init => IInv
<1> SUFFICES ASSUME Init PROVE IInv
  OBVIOUS
<1>1. /\ header \in QueueHeader /\ activeHeaderIndex \in {0, 1}
      /\ delivery \in DeliveryHeader /\ activeDeliveryHeaderIndex \in {0, 1}
      /\ requiredMask = {} /\ pc = "off" /\ spoiled = {}
  BY FirstHeaderType DEF Init, Unpowered
<1>2. slot \in [Index -> Word] /\ issued \subseteq Sequence
      /\ acked \in [TelemetryDestination -> SUBSET Sequence]
  BY QueueAssumption, HalfRangeAssumption
     DEF Init, BlankFileSystem, AgedFileSystem, LostQueueFile, NoDeliveries, Blank, Word,
         Sequence, Modulus
<1>3. CASE BlankFileSystem
  <2>1. queueCopy = BothTorn /\ deliveryCopy = BothTorn
    BY <1>3 DEF BlankFileSystem
  <2>2. queueCopy \in QueueCopies /\ deliveryCopy \in DeliveryCopies
    BY <2>1 DEF BothTorn, QueueCopies, DeliveryCopies
  <2>3. Loadable(queueCopy) /\ Loadable(deliveryCopy)
    BY <2>1 DEF BothTorn, Loadable, Readable
  <2> QED
    BY <1>1, <1>2, <2>2, <2>3 DEF IInv, TypeOK, Location, QueueLoaded, Ready, RoomForRecord
<1>4. CASE AgedFileSystem
  <2>1. AgedHeader \in QueueHeader
    <3>1. 0 \in Generation!Word /\ Capacity - 1 \in Index /\ 0 \in 0 .. Capacity
      BY GenerationType, QueueAssumption DEF Index
    <3>2. NextSequence(AgedSequence) \in Sequence
      BY NextSequenceType, QueueAssumption
    <3> QED
      BY <3>1, <3>2 DEF AgedHeader, QueueHeader
  <2>2. \A i \in {0, 1} : [AgedHeader EXCEPT !.generation = i] \in QueueHeader
    BY <2>1, GenerationType DEF QueueHeader
  <2>3. queueCopy = [i \in {0, 1} |-> [AgedHeader EXCEPT !.generation = i]]
    BY <1>4 DEF AgedFileSystem
  <2>4. queueCopy \in QueueCopies
    BY <2>2, <2>3 DEF QueueCopies
  <2>5. Held(queueCopy, queueCopy[1], 1) /\ queueCopy[1] # Torn
    <3>1. queueCopy[0].generation = 0 /\ queueCopy[1].generation = 1
      BY <2>1, <2>3 DEF QueueHeader
    <3> QED
      BY <2>2, <2>3, <3>1, GenerationType, QueueAssumption DEF Held
  <2>6. deliveryCopy \in DeliveryCopies /\ Loadable(deliveryCopy)
    BY <1>4, AgedCursorsType DEF AgedFileSystem
  <2>7. Loadable(queueCopy)
    BY <2>5 DEF Loadable
  <2> QED
    BY <1>1, <1>2, <2>4, <2>6, <2>7 DEF IInv, TypeOK, Location, QueueLoaded, Ready, RoomForRecord
<1>5. CASE LostQueueFile
  <2>1. queueCopy \in QueueCopies /\ Loadable(queueCopy)
    BY <1>5 DEF LostQueueFile, BothTorn, QueueCopies, Loadable, Readable
  <2>2. deliveryCopy \in DeliveryCopies /\ Loadable(deliveryCopy)
    BY <1>5, AgedCursorsType DEF LostQueueFile
  <2> QED
    BY <1>1, <1>2, <2>1, <2>2 DEF IInv, TypeOK, Location, QueueLoaded, Ready, RoomForRecord
<1> QED
  BY <1>3, <1>4, <1>5 DEF Init

LEMMA BeginLoadsPreserves == IInv /\ BeginLoads => IInv'
<1> SUFFICES ASSUME IInv, BeginLoads PROVE IInv'
  OBVIOUS
<1>1. TypeOK /\ Loadable(queueCopy) /\ Loadable(deliveryCopy)
  BY DEF IInv
<1>2. UNCHANGED <<queueCopy, slot, deliveryCopy, requiredMask, issued, acked, spoiled>>
  BY DEF BeginLoads, fileVars, historyVars
<1>3. /\ header' \in QueueHeader /\ activeHeaderIndex' \in {0, 1}
      /\ Held(queueCopy, header', activeHeaderIndex')
  <2>1. Readable(queueCopy) /\ activeHeaderIndex' = NewestCopy(queueCopy)
        /\ header' = queueCopy[NewestCopy(queueCopy)]
    BY DEF BeginLoads, LoadHeader
  <2> QED
    BY <1>1, <2>1, LoadedIsHeld, CopyTypes
<1>4. CASE LoadDeliveryState /\ pc' = "idle"
  <2>1. Readable(deliveryCopy) /\ activeDeliveryHeaderIndex' = NewestCopy(deliveryCopy)
        /\ delivery' = deliveryCopy[NewestCopy(deliveryCopy)]
    BY <1>4 DEF LoadDeliveryState
  <2>2. /\ delivery' \in DeliveryHeader /\ activeDeliveryHeaderIndex' \in {0, 1}
        /\ Held(deliveryCopy, delivery', activeDeliveryHeaderIndex')
    BY <1>1, <2>1, LoadedIsHeld, CopyTypes
  <2> QED
    BY <1>1, <1>2, <1>3, <1>4, <2>2 DEF IInv, TypeOK, Location, QueueLoaded, Ready, RoomForRecord
<1>5. CASE pc' = "initDelivery" /\ UNCHANGED deliveryRam
  BY <1>1, <1>2, <1>3, <1>5 DEF IInv, TypeOK, Location, QueueLoaded, Ready, RoomForRecord, deliveryRam
<1> QED
  BY <1>4, <1>5 DEF BeginLoads

LEMMA BlankSlotsType == [i \in Index |-> Blank] \in [Index -> Word]
BY HalfRangeAssumption DEF Blank, Word, Modulus

LEMMA BeginWithoutQueuePreserves == IInv /\ BeginWithoutQueue => IInv'
BY BlankSlotsType
   DEF IInv, BeginWithoutQueue, TypeOK, Location, QueueLoaded, Ready, RoomForRecord, queueRam,
       deliveryRam, historyVars

LEMMA InitializeFilePreserves == IInv /\ InitializeFile => IInv'
<1> SUFFICES ASSUME IInv, InitializeFile PROVE IInv'
  OBVIOUS
<1>1. UNCHANGED <<slot, deliveryCopy, delivery, activeDeliveryHeaderIndex, requiredMask>>
      /\ issued' \subseteq Sequence /\ spoiled' \subseteq Sequence
      /\ acked' \in [TelemetryDestination -> SUBSET Sequence]
  BY DEF InitializeFile, deliveryRam, NoDeliveries
<1>2. CASE /\ queueCopy' = [i \in {0, 1} |-> FirstQueueHeader(1 - i)]
           /\ header' = FirstQueueHeader(1) /\ activeHeaderIndex' = 0
           /\ pc' = "removeDelivery"
  <2>1. queueCopy'[0] = FirstQueueHeader(1) /\ queueCopy'[1] = FirstQueueHeader(0)
        /\ queueCopy' \in QueueCopies
    BY <1>2, FirstHeaderType DEF QueueCopies
  <2>2. FirstQueueHeader(0).generation = 0 /\ FirstQueueHeader(1).generation = 1
    BY DEF FirstQueueHeader
  <2>3. Held(queueCopy', header', activeHeaderIndex')
    BY <1>2, <2>1, <2>2, GenerationType DEF Held
  <2>4. Loadable(queueCopy')
    BY <1>2, <2>3, HeldIsLoadable, FirstHeaderType, QueueAssumption
  <2> QED
    BY <1>1, <1>2, <2>1, <2>3, <2>4, FirstHeaderType
       DEF IInv, TypeOK, Location, QueueLoaded, Ready, RoomForRecord
<1>3. CASE /\ \E first \in {Torn, FirstQueueHeader(1)} :
                  queueCopy' = [BothTorn EXCEPT ![0] = first]
           /\ pc' = "failed" /\ UNCHANGED queueRam
  <2>1. PICK first \in {Torn, FirstQueueHeader(1)} : queueCopy' = [BothTorn EXCEPT ![0] = first]
    BY <1>3
  <2>2. queueCopy'[0] = first /\ queueCopy'[1] = Torn /\ queueCopy' \in QueueCopies
    BY <2>1, FirstHeaderType DEF BothTorn, QueueCopies
  <2>3. Loadable(queueCopy')
    BY <2>2 DEF Loadable, Readable, Held
  <2> QED
    BY <1>1, <1>3, <2>2, <2>3 DEF IInv, TypeOK, Location, QueueLoaded, Ready, RoomForRecord, queueRam
<1> QED
  BY <1>2, <1>3 DEF InitializeFile

LEMMA RemoveDeliveryPreserves == IInv /\ RemoveDelivery => IInv'
<1> SUFFICES ASSUME IInv, RemoveDelivery PROVE IInv'
  OBVIOUS
<1>1. UNCHANGED <<queueCopy, slot, header, activeHeaderIndex, delivery,
                  activeDeliveryHeaderIndex, requiredMask, issued, acked, spoiled>>
  BY DEF RemoveDelivery, queueRam, deliveryRam, historyVars
<1>2. deliveryCopy' \in DeliveryCopies /\ Loadable(deliveryCopy')
  <2>1. BothTorn \in DeliveryCopies /\ Loadable(BothTorn)
    BY DEF BothTorn, DeliveryCopies, Loadable, Readable
  <2> QED
    BY <2>1 DEF RemoveDelivery, IInv, TypeOK
<1>3. QueueLoaded /\ pc' = "initDelivery"
  BY DEF RemoveDelivery, QueueLoaded
<1> QED
  BY <1>1, <1>2, <1>3 DEF IInv, TypeOK, Location, QueueLoaded, Ready, RoomForRecord

LEMMA InitializeDeliveryPreserves == IInv /\ InitializeDeliveryState => IInv'
<1> SUFFICES ASSUME IInv, InitializeDeliveryState PROVE IInv'
  OBVIOUS
<1>1. UNCHANGED <<queueCopy, slot, header, activeHeaderIndex, requiredMask, issued, acked, spoiled>>
      /\ QueueLoaded
  BY DEF InitializeDeliveryState, queueRam, historyVars, QueueLoaded
<1>2. CASE /\ deliveryCopy' = [i \in {0, 1} |-> FirstDeliveryHeader(1 - i)]
           /\ delivery' = FirstDeliveryHeader(1) /\ activeDeliveryHeaderIndex' = 0
           /\ pc' = "idle"
  <2>1. deliveryCopy'[0] = FirstDeliveryHeader(1) /\ deliveryCopy'[1] = FirstDeliveryHeader(0)
        /\ deliveryCopy' \in DeliveryCopies
    BY <1>2, FirstHeaderType DEF DeliveryCopies
  <2>2. FirstDeliveryHeader(0).generation = 0 /\ FirstDeliveryHeader(1).generation = 1
    BY DEF FirstDeliveryHeader
  <2>3. Held(deliveryCopy', delivery', activeDeliveryHeaderIndex')
    BY <1>2, <2>1, <2>2, GenerationType DEF Held
  <2>4. Loadable(deliveryCopy')
    BY <1>2, <2>3, HeldIsLoadable, FirstHeaderType, QueueAssumption
  <2> QED
    BY <1>1, <1>2, <2>1, <2>3, <2>4, FirstHeaderType
       DEF IInv, TypeOK, Location, QueueLoaded, Ready, RoomForRecord
<1>3. CASE /\ \E first \in {Torn, FirstDeliveryHeader(1)} :
                  deliveryCopy' = [BothTorn EXCEPT ![0] = first]
           /\ pc' = "failed" /\ UNCHANGED deliveryRam
  <2>1. PICK first \in {Torn, FirstDeliveryHeader(1)} :
            deliveryCopy' = [BothTorn EXCEPT ![0] = first]
    BY <1>3
  <2>2. deliveryCopy'[0] = first /\ deliveryCopy'[1] = Torn /\ deliveryCopy' \in DeliveryCopies
    BY <2>1, FirstHeaderType DEF BothTorn, DeliveryCopies
  <2>3. Loadable(deliveryCopy')
    BY <2>2 DEF Loadable, Readable, Held
  <2> QED
    BY <1>1, <1>3, <2>2, <2>3 DEF IInv, TypeOK, Location, QueueLoaded, Ready, RoomForRecord, deliveryRam
<1> QED
  BY <1>2, <1>3 DEF InitializeDeliveryState

LEMMA PowerLossPreserves == IInv /\ PowerLoss => IInv'
<1> SUFFICES ASSUME IInv, PowerLoss PROVE IInv'
  OBVIOUS
<1>1. header' \in QueueHeader /\ delivery' \in DeliveryHeader
      /\ activeHeaderIndex' = 0 /\ activeDeliveryHeaderIndex' = 0
      /\ requiredMask' = {} /\ pc' = "off"
      /\ UNCHANGED <<queueCopy, slot, deliveryCopy, issued, acked, spoiled>>
  BY FirstHeaderType DEF PowerLoss, fileVars, historyVars
<1> QED
  BY <1>1 DEF IInv, TypeOK, Location, QueueLoaded, Ready, RoomForRecord

\* A step that saves the header and leaves the cursors alone.
LEMMA HeaderStep ==
    ASSUME IInv, Ready, pc' \in Location, RoomForRecord',
           HeaderFails \/ \E changed \in QueueHeader : HeaderWritten(changed),
           UNCHANGED <<slot, deliveryCopy, delivery, activeDeliveryHeaderIndex, acked, spoiled>>,
           requiredMask' \in Masks \cup {{}}, issued' \subseteq Sequence
    PROVE  IInv'
<1>1. QueueLoaded
  BY DEF QueueLoaded
<1>2. /\ queueCopy' \in QueueCopies /\ header' \in QueueHeader
      /\ activeHeaderIndex' \in {0, 1}
      /\ Held(queueCopy', header', activeHeaderIndex')
      /\ Loadable(queueCopy')
  BY <1>1, HeaderWrittenHolds, HeaderFailsHolds
<1> QED
  BY <1>2 DEF IInv, TypeOK

\* A step that changes neither the headers nor the cursors.
LEMMA SlotStep ==
    ASSUME IInv, Ready, pc' \in Location, RoomForRecord', slot' \in [Index -> Word],
           requiredMask' \in Masks \cup {{}}, spoiled' \subseteq Sequence,
           UNCHANGED <<queueCopy, deliveryCopy, header, activeHeaderIndex, delivery,
                       activeDeliveryHeaderIndex, issued, acked>>
    PROVE  IInv'
BY DEF IInv, TypeOK, QueueLoaded

\* A slot that is written, or fails to be, holds a word.
LEMMA SlotType ==
    ASSUME TypeOK, NEW i \in Index
    PROVE  /\ \A sequence \in Sequence : SlotWritten(i, sequence) => slot' \in [Index -> Word]
           /\ SlotFails(i) => slot' \in [Index -> Word]
<1>1. Sequence \subseteq Word /\ Blank \in Word /\ slot \in [Index -> Word]
  BY HalfRangeAssumption DEF Sequence, Word, Modulus, Blank, TypeOK
<1> QED
  BY <1>1 DEF SlotWritten, SlotFails

\* What the type invariant says of the header's fields.
LEMMA HeaderFields ==
    ASSUME TypeOK
    PROVE  header.head \in Index /\ header.count \in 0 .. Capacity
           /\ header.nextSequence \in Sequence
BY DEF TypeOK, QueueHeader

LEMMA EnqueuePreserves == IInv /\ Enqueue => IInv'
<1> SUFFICES ASSUME IInv, Enqueue PROVE IInv'
  OBVIOUS
<1> USE DEF Ready, Location
<1>1. TypeOK /\ header \in QueueHeader /\ RoomForRecord
  BY DEF IInv, TypeOK
<1>2. requiredMask \in Masks \cup {{}} /\ issued \subseteq Sequence /\ spoiled \subseteq Sequence
  BY <1>1 DEF TypeOK
<1>3. CASE EnqueueDropsOldest
  <2>1. HeadDropped(header) \in QueueHeader /\ HeadDropped(header).count = Capacity - 1
    BY <1>1, <1>3, ChangedHeaderType, QueueAssumption
       DEF EnqueueDropsOldest, HeadDropped, HeadRemoved, QueueHeader
  <2>2. CASE HeaderWritten(HeadDropped(header)) /\ pc' = "record"
    <3>1. header'.count = Capacity - 1
      BY <2>1, <2>2 DEF HeaderWritten, QueueHeader
    <3>2. RoomForRecord'
      BY <3>1, QueueAssumption DEF RoomForRecord
    <3> QED
      BY <1>2, <1>3, <2>1, <2>2, <3>2, HeaderStep DEF EnqueueDropsOldest, deliveryRam, historyVars
  <2>3. CASE HeaderFails /\ pc' = "idle"
    BY <1>2, <1>3, <2>3, HeaderStep DEF EnqueueDropsOldest, deliveryRam, historyVars, RoomForRecord
  <2> QED
    BY <1>3, <2>2, <2>3 DEF EnqueueDropsOldest
<1>4. CASE WriteNewRecord
  <2>1. Ahead(header.head, header.count) \in Index
    BY <1>1, HeaderFields, IndexType
  <2>2. slot' \in [Index -> Word]
    BY <1>1, <1>4, <2>1, SlotType, HeaderFields DEF WriteNewRecord
  <2>3. RoomForRecord'
    BY <1>1, <1>4, QueueAssumption DEF WriteNewRecord, RoomForRecord, queueRam
  <2> QED
    BY <1>2, <1>4, <2>2, <2>3, SlotStep DEF WriteNewRecord, queueRam, deliveryRam, historyVars
<1>5. CASE CommitRecord
  <2>1. issued' \subseteq Sequence /\ RoomForRecord'
    BY <1>1, <1>2, <1>5, HeaderFields DEF CommitRecord, RoomForRecord
  <2>2. RecordAdded(header) \in QueueHeader
    BY <1>1, <1>5, ChangedHeaderType DEF CommitRecord, RoomForRecord
  <2> QED
    BY <1>2, <1>5, <2>1, <2>2, HeaderStep DEF CommitRecord, deliveryRam
<1> QED
  BY <1>3, <1>4, <1>5 DEF Enqueue

LEMMA DeliverPreserves == IInv /\ Deliver => IInv'
<1> SUFFICES ASSUME IInv, Deliver PROVE IInv'
  OBVIOUS
<1> USE DEF Ready, Location
<1>1. TypeOK
  BY DEF IInv
<1>2. ASSUME NEW mask \in Masks, ReconcileDeliveries(mask) PROVE IInv'
  BY <1>1, <1>2, SlotStep
     DEF ReconcileDeliveries, RoomForRecord, TypeOK, fileVars, queueRam, deliveryRam, historyVars
<1>3. ASSUME NEW mask \in Masks, NEW d \in mask, AcknowledgeDelivery(d, mask) PROVE IInv'
  <2>1. d \in TelemetryDestination
    BY QueueAssumption
  <2>2. Pending(d) \in Sequence
    BY <1>1, <1>3, <2>1, PendingType DEF AcknowledgeDelivery
  <2> DEFINE changed == [delivery EXCEPT !.cursor[d] = Pending(d)]
  <2>3. changed \in DeliveryHeader
    <3>1. delivery \in DeliveryHeader /\ Pending(d) \in Word
      BY <1>1, <2>2, HalfRangeAssumption DEF TypeOK, Word, Sequence, Modulus
    <3> QED
      BY <2>1, <3>1 DEF DeliveryHeader
  <2>4. /\ deliveryCopy' \in DeliveryCopies /\ delivery' \in DeliveryHeader
        /\ activeDeliveryHeaderIndex' \in {0, 1}
        /\ Held(deliveryCopy', delivery', activeDeliveryHeaderIndex')
        /\ Loadable(deliveryCopy')
    <3>1. DeliveryFails \/ DeliveryWritten(changed)
      BY <1>3 DEF AcknowledgeDelivery
    <3>2. Ready
      BY <1>3 DEF AcknowledgeDelivery
    <3> QED
      BY <2>3, <3>1, <3>2, DeliveryWrittenHolds, DeliveryFailsHolds
  <2>5. acked' \in [TelemetryDestination -> SUBSET Sequence]
    BY <1>1, <1>3, <2>1, <2>2 DEF AcknowledgeDelivery, TypeOK
  <2>6. requiredMask' \in Masks \cup {{}} /\ pc' \in {"idle", "trim"}
    BY <1>1, <1>3 DEF AcknowledgeDelivery, TypeOK
  <2>7. UNCHANGED <<queueCopy, slot, header, activeHeaderIndex, issued, spoiled>> /\ pc = "idle"
    BY <1>3 DEF AcknowledgeDelivery, queueRam
  <2> QED
    BY <2>4, <2>5, <2>6, <2>7 DEF IInv, TypeOK, QueueLoaded, RoomForRecord
<1> QED
  BY <1>2, <1>3 DEF Deliver

LEMMA TrimPreserves == IInv /\ (TrimPops \/ TrimStops \/ ClearRecord) => IInv'
<1> SUFFICES ASSUME IInv, TrimPops \/ TrimStops \/ ClearRecord PROVE IInv'
  OBVIOUS
<1> USE DEF Ready, Location
<1>1. TypeOK /\ header \in QueueHeader /\ issued \subseteq Sequence /\ spoiled \subseteq Sequence
      /\ requiredMask \in Masks \cup {{}} /\ slot \in [Index -> Word]
  BY DEF IInv, TypeOK
<1>2. CASE TrimPops
  <2>1. HeadRemoved(header) \in QueueHeader
    BY <1>1, <1>2, ChangedHeaderType DEF TrimPops
  <2>2. RoomForRecord' /\ requiredMask' \in Masks \cup {{}}
    BY <1>1, <1>2 DEF TrimPops, RoomForRecord
  <2> QED
    BY <1>1, <1>2, <2>1, <2>2, HeaderStep DEF TrimPops, deliveryRam, historyVars
<1>3. CASE TrimStops
  BY <1>1, <1>3, SlotStep
     DEF TrimStops, RoomForRecord, fileVars, queueRam, deliveryRam, historyVars
<1>4. CASE ClearRecord
  <2>1. slot' \in [Index -> Word]
    BY <1>1, <1>4, HeaderFields, IndexType, SlotType DEF ClearRecord
  <2>2. RoomForRecord' /\ pc' \in Location
    BY <1>4 DEF ClearRecord, RoomForRecord
  <2> QED
    BY <1>1, <1>4, <2>1, <2>2, SlotStep DEF ClearRecord, queueRam, deliveryRam, historyVars
<1> QED
  BY <1>2, <1>3, <1>4

LEMMA ClearPreserves == IInv /\ (Clear \/ Pop \/ DiscardCorruptHead) => IInv'
<1> SUFFICES ASSUME IInv, Clear \/ Pop \/ DiscardCorruptHead PROVE IInv'
  OBVIOUS
<1> USE DEF Ready, Location
<1>1. TypeOK /\ header \in QueueHeader /\ issued \subseteq Sequence
      /\ requiredMask \in Masks \cup {{}}
  BY DEF IInv, TypeOK
<1>2. CASE Clear
  BY <1>1, <1>2, ChangedHeaderType, HeaderStep
     DEF Clear, RoomForRecord, deliveryRam, historyVars
<1>3. CASE Pop
  <2>1. HeadRemoved(header) \in QueueHeader
    BY <1>1, <1>3, ChangedHeaderType DEF Pop
  <2> QED
    BY <1>1, <1>3, <2>1, HeaderStep DEF Pop, RoomForRecord, deliveryRam, historyVars
<1>4. CASE DiscardCorruptHead
  <2>1. HeadDropped(header) \in QueueHeader
    BY <1>1, <1>4, ChangedHeaderType DEF DiscardCorruptHead
  <2> QED
    BY <1>1, <1>4, <2>1, HeaderStep DEF DiscardCorruptHead, RoomForRecord, deliveryRam, historyVars
<1> QED
  BY <1>2, <1>3, <1>4

LEMMA RewriteNewestPreserves == IInv /\ RewriteNewest => IInv'
<1> SUFFICES ASSUME IInv, RewriteNewest PROVE IInv'
  OBVIOUS
<1> DEFINE newest == Ahead(header.head, header.count - 1)
<1>1. TypeOK /\ slot \in [Index -> Word] /\ spoiled \subseteq Sequence
      /\ requiredMask \in Masks \cup {{}}
  BY DEF IInv, TypeOK
<1>2. newest \in Index
  <2>1. header.count - 1 \in 0 .. Capacity
    BY <1>1, HeaderFields, QueueAssumption DEF RewriteNewest
  <2> QED
    BY <1>1, <2>1, HeaderFields, IndexType
<1>3. slot' \in [Index -> Word]
  BY <1>1, <1>2, SlotType DEF RewriteNewest
<1>4. slot[newest] \in Sequence
  BY <1>1, <1>2 DEF RewriteNewest, Blank, Word, Sequence
<1>5. spoiled' \subseteq Sequence
  BY <1>1, <1>4 DEF RewriteNewest
<1> QED
  BY <1>1, <1>3, <1>5, SlotStep
     DEF RewriteNewest, RoomForRecord, Ready, Location, queueRam, deliveryRam

LEMMA StepPreserves == IInv /\ [ApiNext]_vars => IInv'
<1>1. IInv /\ UNCHANGED vars => IInv'
  BY DEF vars, IInv, TypeOK, QueueLoaded, Ready, RoomForRecord
<1> QED
  BY <1>1, BeginLoadsPreserves, BeginWithoutQueuePreserves, InitializeFilePreserves,
     RemoveDeliveryPreserves, InitializeDeliveryPreserves, PowerLossPreserves,
     EnqueuePreserves, DeliverPreserves, TrimPreserves, ClearPreserves, RewriteNewestPreserves
     DEF ApiNext, Next, Begin, Operate

-----------------------------------------------------------------------------
\* What RAM holds is what a reboot would load, for both files.
LEMMA HeldIsRecoverable == IInv => HeaderRecoverable /\ CursorsRecoverable
<1> SUFFICES ASSUME IInv PROVE HeaderRecoverable /\ CursorsRecoverable
  OBVIOUS
<1>1. TypeOK /\ activeHeaderIndex \in {0, 1} /\ activeDeliveryHeaderIndex \in {0, 1}
  BY DEF IInv, TypeOK
<1>2. ASSUME Ready PROVE HeaderRecoverable
  <2>1. Held(queueCopy, header, activeHeaderIndex)
    BY <1>2 DEF IInv, QueueLoaded
  <2> QED
    BY <1>1, <2>1, HeldIsNewest, CopyTypes DEF HeaderRecoverable, Held
<1>3. ASSUME Ready PROVE CursorsRecoverable
  <2>1. Held(deliveryCopy, delivery, activeDeliveryHeaderIndex)
    BY <1>3 DEF IInv
  <2> QED
    BY <1>1, <2>1, HeldIsNewest, CopyTypes DEF CursorsRecoverable, Held
<1> QED
  BY <1>2, <1>3 DEF HeaderRecoverable, CursorsRecoverable

\* The whole class keeps its types, with pop and discardCorruptHead too.
THEOREM TypeCorrect == ApiSpec => []TypeOK
<1>1. IInv => TypeOK
  BY DEF IInv
<1> QED
  BY <1>1, InitEstablishes, StepPreserves, PTL DEF ApiSpec

(***************************************************************************)
(* saveHeader and loadHeader (OfflineQueue.cpp:134-225): at every step of  *)
(* every operation a reboot finds the header that RAM holds.               *)
(***************************************************************************)
THEOREM HeaderAlwaysRecoverable == ApiSpec => []HeaderRecoverable
<1>1. IInv => HeaderRecoverable
  BY HeldIsRecoverable
<1> QED
  BY <1>1, InitEstablishes, StepPreserves, PTL DEF ApiSpec

(***************************************************************************)
(* saveDeliveryState and loadDeliveryState (OfflineQueue.cpp:166-254): the *)
(* same of the delivery cursors.                                           *)
(***************************************************************************)
THEOREM CursorsAlwaysRecoverable == ApiSpec => []CursorsRecoverable
<1>1. IInv => CursorsRecoverable
  BY HeldIsRecoverable
<1> QED
  BY <1>1, InitEstablishes, StepPreserves, PTL DEF ApiSpec

-----------------------------------------------------------------------------
(***************************************************************************)
(* The contents: a live slot holds the record that its position promises,  *)
(* and a cursor names what its destination acknowledged.                   *)
(***************************************************************************)

(***************************************************************************)
(* The inductive invariant, beside IInv.  Intact: the live slots of a      *)
(* header hold its records.  Between the write of a record and its commit  *)
(* the next slot holds it; the slot that is cleared is not a live one.     *)
(***************************************************************************)
Promised(h, i) ==
    /\ RecordAt(h, i) \in issued
    /\ \/ slot[Ahead(h.head, i)] = RecordAt(h, i)
       \/ slot[Ahead(h.head, i)] = Blank /\ RecordAt(h, i) \in spoiled

Intact(h) == \A i \in 0 .. h.count - 1 : Promised(h, i)

Contents ==
    /\ Intact(Durable)
    /\ pc = "commit" => slot[Ahead(header.head, header.count)] = header.nextSequence
    /\ pc \in {"erase", "eraseDiscarded"} => header.count < Capacity

-----------------------------------------------------------------------------
(* Positions in the ring of slots and in the ring of sequences. *)

LEMMA PositionsDiffer ==
    ASSUME NEW h \in Index, NEW i \in Index, NEW j \in Index, i # j
    PROVE  Ahead(h, i) # Ahead(h, j)
BY QueueAssumption DEF Index, Ahead

LEMMA PositionAfterHead ==
    ASSUME NEW h \in Index, NEW i \in Index, i + 1 \in Index
    PROVE  Ahead(Ahead(h, 1), i) = Ahead(h, i + 1)
BY QueueAssumption DEF Index, Ahead

LEMMA BehindIsLast ==
    ASSUME NEW h \in Index
    PROVE  Capacity - 1 \in Index /\ Behind(h) = Ahead(h, Capacity - 1)
BY QueueAssumption DEF Index, Ahead, Behind

LEMMA RecordAfterAdding ==
    ASSUME NEW s \in Sequence, NEW n \in 0 .. Capacity - 1, NEW i \in 0 .. n
    PROVE  Nth(NextSequence(s), i - (n + 1)) = IF i = n THEN s ELSE Nth(s, i - n)
BY QueueAssumption, HalfRangeAssumption
   DEF Nth, NextSequence, Increment, Sequence, Modulus

-----------------------------------------------------------------------------
(* Intact says something of head, count and nextSequence alone. *)
LEMMA SameRecordsIntact ==
    ASSUME NEW g, NEW h, Intact(g),
           h.head = g.head, h.count = g.count, h.nextSequence = g.nextSequence
    PROVE  Intact(h)
BY DEF Intact, Promised, RecordAt

\* A queue without its head has the other records.
LEMMA IntactWithoutHead ==
    ASSUME NEW h \in QueueHeader, h.count > 0, Intact(h)
    PROVE  Intact(HeadRemoved(h)) /\ HeadRemoved(h).count = h.count - 1
<1> DEFINE g == HeadRemoved(h)
<1>1. h.head \in Index /\ h.count \in 0 .. Capacity /\ h.nextSequence \in Sequence
  BY DEF QueueHeader
<1>2. g.head = Ahead(h.head, 1) /\ g.count = h.count - 1 /\ g.nextSequence = h.nextSequence
  BY DEF HeadRemoved, QueueHeader
<1> HIDE DEF g
<1>3. ASSUME NEW i \in 0 .. g.count - 1 PROVE Promised(g, i)
  <2>1. i + 1 \in 0 .. h.count - 1 /\ i \in Index /\ i + 1 \in Index
    BY <1>1, <1>2, QueueAssumption DEF Index
  <2>2. RecordAt(g, i) = RecordAt(h, i + 1)
    <3>1. i - g.count = (i + 1) - h.count
      BY <1>1, <1>2, <2>1
    <3> QED BY <1>2, <3>1 DEF RecordAt
  <2>3. Ahead(g.head, i) = Ahead(h.head, i + 1)
    BY <1>1, <1>2, <2>1, PositionAfterHead
  <2>4. Promised(h, i + 1)
    BY <2>1 DEF Intact
  <2> QED BY <2>2, <2>3, <2>4 DEF Promised
<1> QED BY <1>2, <1>3 DEF Intact, g

\* In a loaded queue the durable header is the one in RAM.
LEMMA DurableIsHeader == IInv /\ QueueLoaded => Durable = header
<1> SUFFICES ASSUME IInv, QueueLoaded PROVE Durable = header
  OBVIOUS
<1>1. Held(queueCopy, header, activeHeaderIndex) /\ TypeOK /\ activeHeaderIndex \in {0, 1}
  BY DEF IInv, TypeOK
<1>2. Readable(queueCopy) /\ NewestCopy(queueCopy) = activeHeaderIndex
  BY <1>1, HeldIsNewest, CopyTypes
<1> QED BY <1>1, <1>2 DEF Durable, Held

LEMMA DurableIsHeaderNext == IInv' /\ QueueLoaded' => Durable' = header'
<1>1. (IInv /\ QueueLoaded => Durable = header)'
  BY DurableIsHeader, PTL
<1> QED BY <1>1

-----------------------------------------------------------------------------
(* What a step does to the live records. *)

\* The records of h, if the slots stay and history grows, are those of the next header.
LEMMA IntactNext ==
    ASSUME NEW h, Intact(h), UNCHANGED slot, issued \subseteq issued', spoiled \subseteq spoiled',
           header'.head = h.head, header'.count = h.count, header'.nextSequence = h.nextSequence
    PROVE  Intact(header)'
BY DEF Intact, Promised, RecordAt

\* A call that commits a header of intact records.
LEMMA CommitKeeps ==
    ASSUME IInv, IInv', Ready, Ready', NEW changed \in QueueHeader, HeaderWritten(changed),
           Intact(changed), UNCHANGED <<slot, issued, spoiled>>
    PROVE  Intact(Durable)' /\ header'.count = changed.count
<1>1. header' = [changed EXCEPT !.generation = Generation!Increment(header.generation)]
  BY DEF HeaderWritten
<1>2. /\ header'.head = changed.head /\ header'.count = changed.count
      /\ header'.nextSequence = changed.nextSequence
  BY <1>1 DEF QueueHeader
<1>3. Intact(header)'
  BY <1>2, IntactNext
<1>4. Durable' = header'
  BY DurableIsHeaderNext DEF QueueLoaded
<1> QED BY <1>2, <1>3, <1>4 DEF Intact, Promised, RecordAt

\* A call whose header is not written, or that writes none.
LEMMA FailureKeeps ==
    ASSUME IInv, IInv', Ready, Ready', Contents, header' = header,
           UNCHANGED slot, issued \subseteq issued', spoiled \subseteq spoiled'
    PROVE  Intact(Durable)'
<1>1. Durable = header /\ Durable' = header'
  BY DurableIsHeader, DurableIsHeaderNext DEF QueueLoaded
<1>2. Intact(header)
  BY <1>1 DEF Contents
<1>3. Intact(header)'
  BY <1>2, IntactNext
<1> QED BY <1>1, <1>3 DEF Intact, Promised, RecordAt

\* A slot beyond the live range may hold anything.
LEMMA FreeSlotKeeps ==
    ASSUME IInv, IInv', Ready, Ready', Contents, header' = header, UNCHANGED <<issued, spoiled>>,
           NEW n \in header.count .. Capacity - 1, NEW value,
           slot' = [slot EXCEPT ![Ahead(header.head, n)] = value]
    PROVE  Intact(Durable)'
<1>1. Durable = header /\ Durable' = header'
  BY DurableIsHeader, DurableIsHeaderNext DEF QueueLoaded
<1>2. /\ header.head \in Index /\ header.count \in 0 .. Capacity
      /\ slot \in [Index -> Word] /\ n \in Index
  BY HeaderFields, QueueAssumption DEF IInv, TypeOK, Index
<1>3. ASSUME NEW i \in 0 .. header.count - 1 PROVE Promised(header, i)'
  <2>1. i \in Index /\ i # n
    BY <1>2, QueueAssumption DEF Index
  <2>2. Ahead(header.head, i) # Ahead(header.head, n)
    BY <1>2, <2>1, PositionsDiffer
  <2>3. slot'[Ahead(header.head, i)] = slot[Ahead(header.head, i)]
    BY <1>2, <2>2
  <2>4. Promised(header, i)
    BY <1>1 DEF Contents, Intact
  <2> QED BY <2>3, <2>4 DEF Promised, RecordAt
<1> QED BY <1>1, <1>3 DEF Intact, Promised, RecordAt

\* A step that leaves the queue file alone.
LEMMA FileUntouched ==
    ASSUME Contents, UNCHANGED <<queueCopy, slot, issued, spoiled>>,
           pc' \notin {"commit", "erase", "eraseDiscarded"}
    PROVE  Contents'
<1>1. Durable' = Durable
  BY DEF Durable, Readable, NewestCopy
<1> QED BY <1>1 DEF Contents, Intact, Promised, RecordAt

-----------------------------------------------------------------------------
LEMMA EmptyIntact == \A g \in {0, 1} : FirstQueueHeader(g).count = 0
BY DEF FirstQueueHeader

LEMMA BeginKeepsContents == IInv /\ IInv' /\ Contents /\ (Begin \/ PowerLoss) => Contents'
<1> SUFFICES ASSUME IInv, IInv', Contents, Begin \/ PowerLoss PROVE Contents'
  OBVIOUS
<1> USE DEF fileVars, queueRam, deliveryRam, historyVars
<1>1. CASE BeginLoads \/ RemoveDelivery \/ InitializeDeliveryState \/ PowerLoss
  BY <1>1, FileUntouched DEF BeginLoads, RemoveDelivery, InitializeDeliveryState, PowerLoss
<1>2. CASE BeginWithoutQueue
  <2>1. Durable' = FirstQueueHeader(0) /\ pc' = "initFile"
    BY <1>2 DEF BeginWithoutQueue, Durable, Readable
  <2> QED BY <2>1, EmptyIntact DEF Contents, Intact
<1>3. CASE InitializeFile
  <2>1. CASE header' = FirstQueueHeader(1) /\ pc' = "removeDelivery"
    <3>1. Durable' = FirstQueueHeader(1)
      BY <2>1, DurableIsHeaderNext DEF QueueLoaded
    <3> QED BY <2>1, <3>1, EmptyIntact DEF Contents, Intact
  <2>2. CASE (\E first \in {Torn, FirstQueueHeader(1)} : queueCopy' = [BothTorn EXCEPT ![0] = first])
             /\ pc' = "failed"
    <3>1. PICK first \in {Torn, FirstQueueHeader(1)} : queueCopy' = [BothTorn EXCEPT ![0] = first]
      BY <2>2
    <3>2. queueCopy'[0] = first /\ queueCopy'[1] = Torn
      BY <3>1 DEF BothTorn
    <3>3. Durable' \in {FirstQueueHeader(0), FirstQueueHeader(1)}
      BY <3>2 DEF Durable, Readable, NewestCopy
    <3> QED BY <2>2, <3>3, EmptyIntact DEF Contents, Intact
  <2> QED BY <1>3, <2>1, <2>2 DEF InitializeFile
<1> QED BY <1>1, <1>2, <1>3 DEF Begin

LEMMA EnqueueKeepsContents == IInv /\ IInv' /\ Contents /\ Enqueue => Contents'
<1> SUFFICES ASSUME IInv, IInv', Contents, Enqueue PROVE Contents'
  OBVIOUS
<1> USE DEF fileVars, queueRam, deliveryRam, historyVars, Ready
<1>1. /\ header \in QueueHeader /\ RoomForRecord /\ slot \in [Index -> Word]
      /\ header.head \in Index /\ header.count \in 0 .. Capacity
      /\ header.nextSequence \in Sequence
  BY HeaderFields DEF IInv, TypeOK
<1>2. Ready => Durable = header /\ Intact(header)
  BY DurableIsHeader DEF QueueLoaded, Contents
<1>3. CASE EnqueueDropsOldest
  <2>1. CASE HeaderWritten(HeadDropped(header)) /\ pc' = "record"
    <3>1. header.count > 0 /\ Intact(HeadRemoved(header))
      BY <1>1, <1>2, <1>3, IntactWithoutHead, QueueAssumption DEF EnqueueDropsOldest
    <3>2. HeadDropped(header) \in QueueHeader /\ HeadRemoved(header) \in QueueHeader
      BY <1>1, <3>1, ChangedHeaderType
    <3>3. Intact(HeadDropped(header))
      BY <3>1, <3>2, SameRecordsIntact DEF HeadDropped, QueueHeader
    <3>4. Intact(Durable)'
      BY <1>3, <2>1, <3>2, <3>3, CommitKeeps DEF EnqueueDropsOldest
    <3> QED BY <2>1, <3>4 DEF Contents
  <2>2. CASE HeaderFails /\ pc' = "idle"
    <3>1. Intact(Durable)'
      BY <1>3, <2>2, FailureKeeps DEF EnqueueDropsOldest, HeaderFails
    <3> QED BY <2>2, <3>1 DEF Contents
  <2> QED BY <1>3, <2>1, <2>2 DEF EnqueueDropsOldest
<1>4. CASE WriteNewRecord
  <2>1. header.count \in header.count .. Capacity - 1
        /\ Ahead(header.head, header.count) \in Index
    BY <1>1, <1>4, IndexType, QueueAssumption DEF WriteNewRecord, RoomForRecord
  <2>2. /\ header' = header /\ UNCHANGED <<issued, spoiled>>
        /\ pc \in {"record", "idle"} /\ pc' \in {"commit", "idle"}
    BY <1>4 DEF WriteNewRecord
  <2>3. PICK value : slot' = [slot EXCEPT ![Ahead(header.head, header.count)] = value]
    BY <1>4 DEF WriteNewRecord, SlotWritten, SlotFails
  <2>4. Intact(Durable)'
    BY <2>1, <2>2, <2>3, FreeSlotKeeps
  <2>5. pc' = "commit" => slot'[Ahead(header.head, header.count)] = header.nextSequence
    BY <1>1, <1>4, <2>1 DEF WriteNewRecord, SlotWritten
  <2> QED BY <2>2, <2>4, <2>5 DEF Contents
<1>5. CASE CommitRecord
  <2>1. pc' = "idle" /\ UNCHANGED <<slot, spoiled>> /\ pc = "commit" /\ issued \subseteq issued'
    BY <1>5 DEF CommitRecord
  <2>2. CASE HeaderWritten(RecordAdded(header)) /\ issued' = issued \cup {header.nextSequence}
    <3> DEFINE n == header.count
               s == header.nextSequence
    <3>1. n \in 0 .. Capacity - 1
      BY <1>1, <2>1, QueueAssumption DEF RoomForRecord
    <3>2. RecordAdded(header) \in QueueHeader
      <4>1. header.count < Capacity
        BY <2>1 DEF RoomForRecord, IInv
      <4> QED BY <1>1, <4>1, ChangedHeaderType
    <3>3. header' = [RecordAdded(header) EXCEPT !.generation =
                         Generation!Increment(header.generation)]
      BY <2>2 DEF HeaderWritten
    <3>4. header'.head = header.head /\ header'.count = n + 1
          /\ header'.nextSequence = NextSequence(s)
      BY <1>1, <3>2, <3>3 DEF RecordAdded, QueueHeader
    <3>5. ASSUME NEW i \in 0 .. n PROVE Promised(header, i)'
      <4>1. RecordAt(header, i)' = IF i = n THEN s ELSE RecordAt(header, i)
        <5>1. RecordAt(header, i)' = Nth(NextSequence(s), i - (n + 1))
          BY <3>4 DEF RecordAt
        <5>2. RecordAt(header, i) = Nth(s, i - n)
          BY DEF RecordAt
        <5> HIDE DEF n, s
        <5>3. Nth(NextSequence(s), i - (n + 1)) = IF i = n THEN s ELSE Nth(s, i - n)
          <6>1. s \in Sequence
            BY <1>1 DEF s
          <6> QED BY <3>1, <6>1, RecordAfterAdding
        <5> QED BY <5>1, <5>2, <5>3
      <4>2. CASE i = n
        BY <2>1, <2>2, <3>4, <4>1, <4>2 DEF Contents, Promised
      <4>3. CASE i # n
        <5>1. i \in 0 .. header.count - 1
          BY <3>1, <4>3
        <5>2. Promised(header, i)
          BY <1>2, <2>1, <5>1 DEF Intact
        <5> QED BY <2>1, <3>4, <4>1, <4>3, <5>2 DEF Promised
      <4> QED BY <4>2, <4>3
    <3>6. Intact(header)'
      <4>1. 0 .. header'.count - 1 = 0 .. n
        BY <3>1, <3>4
      <4> QED BY <3>5, <4>1 DEF Intact
    <3>7. Durable' = header'
      BY <2>1, DurableIsHeaderNext DEF QueueLoaded
    <3> QED BY <2>1, <3>6, <3>7 DEF Contents, Intact, Promised, RecordAt
  <2>3. CASE HeaderFails
    <3>1. Intact(Durable)'
      BY <2>1, <2>3, FailureKeeps DEF HeaderFails
    <3> QED BY <2>1, <3>1 DEF Contents
  <2> QED BY <1>5, <2>2, <2>3 DEF CommitRecord
<1> QED BY <1>3, <1>4, <1>5 DEF Enqueue

\* A call that takes the head out of the queue, or fails to.
LEMMA ShorterKeepsContents ==
    ASSUME IInv, IInv', Contents, Ready, Ready', header.count > 0, pc' # "commit",
           NEW changed \in {HeadRemoved(header), HeadDropped(header)},
           HeaderWritten(changed) \/ (HeaderFails /\ pc' \notin {"erase", "eraseDiscarded"}),
           UNCHANGED <<slot, issued, spoiled>>
    PROVE  Contents'
<1>1. header \in QueueHeader /\ header.count \in 0 .. Capacity
  BY HeaderFields DEF IInv, TypeOK
<1>2. CASE HeaderWritten(changed)
  <2>1. Durable = header /\ Intact(header)
    BY DurableIsHeader DEF QueueLoaded, Contents
  <2>2. Intact(HeadRemoved(header)) /\ HeadRemoved(header).count = header.count - 1
    BY <1>1, <2>1, IntactWithoutHead
  <2>3. HeadRemoved(header) \in QueueHeader /\ HeadDropped(header) \in QueueHeader
    BY <1>1, ChangedHeaderType
  <2>4. /\ HeadDropped(header).head = HeadRemoved(header).head
        /\ HeadDropped(header).count = HeadRemoved(header).count
        /\ HeadDropped(header).nextSequence = HeadRemoved(header).nextSequence
    BY <2>3 DEF HeadDropped, QueueHeader
  <2>5. Intact(changed) /\ changed.count = header.count - 1
    BY <2>2, <2>4, SameRecordsIntact
  <2>6. Intact(Durable)' /\ header'.count = header.count - 1
    BY <1>2, <2>3, <2>5, CommitKeeps
  <2> QED BY <1>1, <2>6, QueueAssumption DEF Contents
<1>3. CASE HeaderFails /\ pc' \notin {"erase", "eraseDiscarded"}
  <2>1. Intact(Durable)'
    BY <1>3, FailureKeeps DEF HeaderFails, queueRam
  <2> QED BY <1>3, <2>1 DEF Contents
<1> QED BY <1>2, <1>3

LEMMA DeliverKeepsContents == Contents /\ (Deliver \/ TrimStops) => Contents'
<1> SUFFICES ASSUME Contents, Deliver \/ TrimStops PROVE Contents'
  OBVIOUS
<1> USE DEF fileVars, queueRam, deliveryRam, historyVars
<1>1. ASSUME NEW mask \in Masks, ReconcileDeliveries(mask) PROVE Contents'
  BY <1>1, FileUntouched DEF ReconcileDeliveries
<1>2. ASSUME NEW mask \in Masks, NEW d \in mask, AcknowledgeDelivery(d, mask) PROVE Contents'
  BY <1>2, FileUntouched DEF AcknowledgeDelivery
<1>3. CASE TrimStops
  BY <1>3, FileUntouched DEF TrimStops
<1> QED BY <1>1, <1>2, <1>3 DEF Deliver

LEMMA RemovalKeepsContents ==
    IInv /\ IInv' /\ Contents /\ (TrimPops \/ Pop \/ DiscardCorruptHead) => Contents'
<1> SUFFICES ASSUME IInv, IInv', Contents, TrimPops \/ Pop \/ DiscardCorruptHead
             PROVE  Contents'
  OBVIOUS
<1> USE DEF historyVars, Ready
<1>1. CASE TrimPops
  BY <1>1, ShorterKeepsContents DEF TrimPops
<1>2. CASE Pop
  BY <1>2, ShorterKeepsContents DEF Pop
<1>3. CASE DiscardCorruptHead
  BY <1>3, ShorterKeepsContents DEF DiscardCorruptHead
<1> QED BY <1>1, <1>2, <1>3

LEMMA ClearKeepsContents == IInv /\ IInv' /\ Contents /\ (Clear \/ ClearRecord) => Contents'
<1> SUFFICES ASSUME IInv, IInv', Contents, Clear \/ ClearRecord PROVE Contents'
  OBVIOUS
<1> USE DEF historyVars, queueRam, Ready
<1>1. header \in QueueHeader /\ header.head \in Index /\ header.count \in 0 .. Capacity
  BY HeaderFields DEF IInv, TypeOK
<1>2. CASE Clear
  <2> DEFINE empty == [header EXCEPT !.head = Ahead(header.head, header.count), !.count = 0]
  <2>1. empty \in QueueHeader /\ Intact(empty)
    <3>1. empty.count = 0
      BY <1>1 DEF QueueHeader
    <3>2. empty \in QueueHeader
      BY <1>1, ChangedHeaderType
    <3> HIDE DEF empty
    <3>3. 0 .. empty.count - 1 = {}
      BY <3>1
    <3> QED BY <3>2, <3>3 DEF Intact
  <2> HIDE DEF empty
  <2>2. CASE HeaderWritten(empty)
    BY <1>2, <2>1, <2>2, CommitKeeps DEF Clear, Contents
  <2>3. CASE HeaderFails
    BY <1>2, <2>3, FailureKeeps DEF Clear, Contents, HeaderFails
  <2> QED BY <1>2, <2>2, <2>3 DEF Clear, empty
<1>3. CASE ClearRecord
  <2>1. header.count < Capacity /\ pc' \in {"trim", "idle"} /\ header' = header
        /\ UNCHANGED <<issued, spoiled>>
    BY <1>3 DEF ClearRecord, Contents
  <2>2. Capacity - 1 \in header.count .. Capacity - 1
    BY <1>1, <2>1, QueueAssumption
  <2>3. Behind(header.head) = Ahead(header.head, Capacity - 1)
    BY <1>1, BehindIsLast
  <2>4. PICK value : slot' = [slot EXCEPT ![Ahead(header.head, Capacity - 1)] = value]
    BY <1>3, <2>3 DEF ClearRecord, SlotFails
  <2>5. Intact(Durable)'
    BY <1>3, <2>1, <2>2, <2>4, FreeSlotKeeps DEF ClearRecord
  <2> QED BY <2>1, <2>5 DEF Contents
<1> QED BY <1>2, <1>3

LEMMA RewriteKeepsContents == IInv /\ IInv' /\ Contents /\ RewriteNewest => Contents'
<1> SUFFICES ASSUME IInv, IInv', Contents, RewriteNewest PROVE Contents'
  OBVIOUS
<1> USE DEF queueRam
<1> DEFINE newest == Ahead(header.head, header.count - 1)
<1>1. /\ header.head \in Index /\ header.count \in 0 .. Capacity
      /\ slot \in [Index -> Word] /\ header.count > 0
  BY HeaderFields DEF IInv, TypeOK, RewriteNewest
<1>2. /\ pc = "idle" /\ pc' = "idle" /\ slot[newest] # Blank /\ SlotFails(newest)
      /\ spoiled' = (IF slot'[newest] = Blank THEN spoiled \cup {slot[newest]} ELSE spoiled)
      /\ UNCHANGED <<header, issued>>
  BY DEF RewriteNewest
<1>3. Durable = header /\ Durable' = header' /\ Intact(header)
  BY <1>2, DurableIsHeader, DurableIsHeaderNext DEF QueueLoaded, Ready, Contents
<1>4. newest \in Index
  BY <1>1, IndexType, QueueAssumption
<1>5. PICK left \in {slot[newest], Blank} : slot' = [slot EXCEPT ![newest] = left]
  BY <1>2 DEF SlotFails
<1>6. slot[newest] = RecordAt(header, header.count - 1)
  BY <1>1, <1>2, <1>3 DEF Intact, Promised
<1>7. ASSUME NEW i \in 0 .. header.count - 1 PROVE Promised(header, i)'
  <2>1. Promised(header, i) /\ RecordAt(header, i)' = RecordAt(header, i)
    BY <1>2, <1>3 DEF Intact, RecordAt
  <2>2. CASE i = header.count - 1
    BY <1>1, <1>2, <1>4, <1>5, <1>6, <2>1, <2>2 DEF Promised
  <2>3. CASE i # header.count - 1
    <3>1. i \in Index /\ header.count - 1 \in Index
      BY <1>1, QueueAssumption DEF Index
    <3>2. Ahead(header.head, i) # newest
      BY <1>1, <2>3, <3>1, PositionsDiffer
    <3>3. slot'[Ahead(header.head, i)] = slot[Ahead(header.head, i)]
      BY <1>1, <1>5, <3>2
    <3>4. spoiled \subseteq spoiled'
      BY <1>2
    <3> QED BY <1>2, <2>1, <3>3, <3>4 DEF Promised
  <2> QED BY <2>2, <2>3
<1> QED BY <1>2, <1>3, <1>7 DEF Contents, Intact, Promised, RecordAt

LEMMA StepKeepsContents == IInv /\ IInv' /\ Contents /\ [ApiNext]_vars => Contents'
<1>1. Contents /\ UNCHANGED vars => Contents'
  BY DEF vars, Contents, Durable, Readable, NewestCopy, Intact, Promised, RecordAt
<1> QED
  BY <1>1, BeginKeepsContents, EnqueueKeepsContents, DeliverKeepsContents,
     RemovalKeepsContents, ClearKeepsContents, RewriteKeepsContents
     DEF ApiNext, Next, Operate

LEMMA InitHasContents == Init => Contents
<1> SUFFICES ASSUME Init PROVE Durable.count = 0 /\ pc = "off"
  BY DEF Contents, Intact
<1>1. CASE BlankFileSystem
  BY <1>1 DEF Init, Unpowered, BlankFileSystem, Durable, Readable, BothTorn, FirstQueueHeader
<1>2. CASE AgedFileSystem
  <2>1. \A i \in {0, 1} : queueCopy[i].count = 0
    BY <1>2 DEF AgedFileSystem, AgedHeader
  <2> QED
    BY <2>1 DEF Init, Unpowered, Durable, NewestCopy, FirstQueueHeader
<1>3. CASE LostQueueFile
  BY <1>3 DEF Init, Unpowered, LostQueueFile, Durable, Readable, BothTorn, FirstQueueHeader
<1> QED BY <1>1, <1>2, <1>3 DEF Init

(***************************************************************************)
(* Enqueue, trim, clear, drop-oldest and the rewrites of the newest record *)
(* (OfflineQueue.cpp:256-302, 334-393, 499-604): whatever write fails and  *)
(* wherever power is lost, a reboot finds in every live slot the record    *)
(* that its position promises, unless its own rewrite was torn.            *)
(***************************************************************************)
THEOREM LiveRangeAlwaysIntact == ApiSpec => []LiveRangeIntact
<1>1. Contents => LiveRangeIntact
  BY DEF Contents, Intact, Promised, LiveRangeIntact
<1>2. Init => IInv /\ Contents
  BY InitEstablishes, InitHasContents
<1>3. IInv /\ Contents /\ [ApiNext]_vars => IInv' /\ Contents'
  BY StepPreserves, StepKeepsContents
<1> QED BY <1>1, <1>2, <1>3, PTL DEF ApiSpec

-----------------------------------------------------------------------------
(***************************************************************************)
(* The cursors.  While begin() has no queue file yet, or has not made the  *)
(* cursors of the one it created, the cursor file may be that of an older  *)
(* queue; as long as this is not interrupted, at every other time every    *)
(* readable copy is sound.                                                 *)
(***************************************************************************)
Sound(cursors) ==
    \A d \in TelemetryDestination : cursors[d] = 0 \/ cursors[d] \in acked[d]

BeingCreated == ~Readable(queueCopy) \/ pc \in {"initFile", "removeDelivery", "initDelivery"}

Cursors ==
    /\ ~BeingCreated =>
           \A i \in {0, 1} : deliveryCopy[i] # Torn => Sound(deliveryCopy[i].cursor)
    /\ Ready => Sound(delivery.cursor)
    /\ pc = "initFile" => ~Readable(queueCopy)

LEMMA UninterruptedSteps ==
    /\ UninterruptedStart => Begin \/ PowerLoss
    /\ UninterruptedNext => Next
    /\ UninterruptedApiNext => ApiNext
BY DEF UninterruptedApiNext, UninterruptedNext, UninterruptedStart, ApiNext, Next, Begin

LEMMA FirstCursorsSound == \A g \in {0, 1} : Sound(FirstDeliveryHeader(g).cursor)
BY DEF Sound, FirstDeliveryHeader, NoCursors

\* A loaded queue has a readable file.
LEMMA LoadedIsReadable == IInv /\ QueueLoaded => Readable(queueCopy) /\ pc # "initFile"
<1> SUFFICES ASSUME IInv, QueueLoaded PROVE Readable(queueCopy) /\ pc # "initFile"
  OBVIOUS
<1>1. Held(queueCopy, header, activeHeaderIndex) /\ TypeOK /\ activeHeaderIndex \in {0, 1}
  BY DEF IInv, TypeOK
<1>2. Readable(queueCopy)
  BY <1>1, HeldIsNewest, CopyTypes
<1> QED BY <1>2 DEF QueueLoaded, Ready

LEMMA LoadedIsReadableNext == IInv' /\ QueueLoaded' => Readable(queueCopy)' /\ pc' # "initFile"
<1>1. (IInv /\ QueueLoaded => Readable(queueCopy) /\ pc # "initFile")'
  BY LoadedIsReadable, PTL
<1> QED BY <1>1

\* A queue that is ready has a file and cursors of its own.
LEMMA ReadyIsCreated == IInv /\ Ready => ~BeingCreated
BY LoadedIsReadable DEF QueueLoaded, Ready, BeingCreated

LEMMA ReadyIsCreatedNext == IInv' /\ Ready' => ~BeingCreated'
<1>1. (IInv /\ Ready => ~BeingCreated)'
  BY ReadyIsCreated, PTL
<1> QED BY <1>1

\* Steps that leave the cursors alone.
LEMMA CursorsUntouched ==
    ASSUME IInv, Cursors, Ready, Ready', UNCHANGED <<deliveryCopy, delivery, acked>>
    PROVE  Cursors'
<1>1. pc' # "initFile"
  BY DEF Ready
<1> QED BY <1>1, ReadyIsCreated DEF Cursors, Sound

LEMMA StartKeepsCursors == IInv /\ IInv' /\ Cursors /\ UninterruptedStart => Cursors'
<1> SUFFICES ASSUME IInv, IInv', Cursors, UninterruptedStart PROVE Cursors'
  OBVIOUS
<1> USE DEF fileVars, queueRam, deliveryRam, historyVars
<1>1. CASE BeginLoads
  <2>1. /\ UNCHANGED <<deliveryCopy, acked>> /\ pc' \in {"idle", "initDelivery"}
        /\ ~BeingCreated /\ (pc' = "idle" => LoadDeliveryState)
    BY <1>1 DEF BeginLoads, LoadHeader, BeingCreated
  <2>2. \A i \in {0, 1} : deliveryCopy[i] # Torn => Sound(deliveryCopy[i].cursor)
    BY <2>1 DEF Cursors
  <2>3. ASSUME pc' = "idle" PROVE Sound(delivery.cursor)'
    <3>1. Readable(deliveryCopy) /\ delivery' = deliveryCopy[NewestCopy(deliveryCopy)]
      BY <2>1, <2>3 DEF LoadDeliveryState
    <3>2. NewestCopy(deliveryCopy) \in {0, 1} /\ deliveryCopy[NewestCopy(deliveryCopy)] # Torn
      BY <3>1, LoadedIsHeld, CopyTypes DEF IInv
    <3>3. Sound(deliveryCopy[NewestCopy(deliveryCopy)].cursor)
      BY <2>2, <3>2
    <3> QED BY <2>1, <3>1, <3>3 DEF Sound
  <2> QED BY <2>1, <2>2, <2>3 DEF Cursors, Sound, Ready
<1>2. CASE BeginWithoutQueue
  BY <1>2 DEF BeginWithoutQueue, Cursors, Ready, BeingCreated
<1>3. CASE InitializeFile /\ ~CreationInterrupted
  <2>1. deliveryCopy' = deliveryCopy /\ pc' \in {"removeDelivery", "failed"}
    BY <1>3 DEF InitializeFile
  <2>2. pc' = "failed" /\ Readable(queueCopy)' => ~Readable(deliveryCopy)
    BY <1>3 DEF InitializeFile, CreationInterrupted, Readable
  <2>3. BeingCreated' \/ ~Readable(deliveryCopy)
    BY <2>1, <2>2 DEF BeingCreated
  <2> QED BY <2>1, <2>3 DEF Cursors, Ready, Readable
<1>4. CASE RemoveDelivery
  BY <1>4 DEF RemoveDelivery, Cursors, Ready, BeingCreated
<1>5. CASE InitializeDeliveryState
  <2>1. Sound(FirstDeliveryHeader(0).cursor)' /\ Sound(FirstDeliveryHeader(1).cursor)'
    BY DEF Sound, FirstDeliveryHeader, NoCursors
  <2>2. pc' \in {"idle", "failed"} /\ (pc' = "idle" => delivery' = FirstDeliveryHeader(1))
    BY <1>5 DEF InitializeDeliveryState
  <2>3. \A i \in {0, 1} :
            deliveryCopy'[i] \in {Torn, FirstDeliveryHeader(0), FirstDeliveryHeader(1)}
    BY <1>5 DEF InitializeDeliveryState, BothTorn
  <2>4. Ready' => pc' = "idle"
    BY <2>2 DEF Ready
  <2> QED BY <2>1, <2>2, <2>3, <2>4 DEF Cursors
<1>6. CASE PowerLoss /\ ~CreationInterrupted
  <2>1. UNCHANGED <<queueCopy, deliveryCopy, acked>> /\ pc' = "off"
    BY <1>6 DEF PowerLoss
  <2>2. pc \in {"removeDelivery", "initDelivery"} => ~Readable(deliveryCopy)
    BY <1>6, <2>1 DEF CreationInterrupted
  <2>3. CASE pc = "initFile"
    <3>1. ~Readable(queueCopy)
      BY <2>3 DEF Cursors
    <3> QED BY <2>1, <3>1 DEF Cursors, Ready, Readable, BeingCreated
  <2>4. CASE pc # "initFile"
    BY <2>1, <2>2, <2>4 DEF Cursors, Sound, Ready, Readable, BeingCreated
  <2> QED BY <2>3, <2>4
<1> QED BY <1>1, <1>2, <1>3, <1>4, <1>5, <1>6 DEF UninterruptedStart

\* An acknowledgement moves one cursor to a record that its destination has.
LEMMA AcknowledgeKeepsCursors ==
    ASSUME IInv, IInv', Cursors, NEW mask \in Masks, NEW d \in mask, AcknowledgeDelivery(d, mask)
    PROVE  Cursors'
<1>1. pc = "idle" /\ pc' \in {"idle", "trim"} /\ Sound(delivery.cursor) /\ d \in TelemetryDestination
  BY QueueAssumption DEF AcknowledgeDelivery, Cursors, Ready
<1>2. ~BeingCreated /\ pc' # "initFile" /\ Ready /\ Ready'
  BY <1>1, ReadyIsCreated DEF Ready
<1>3. /\ deliveryCopy \in [{0, 1} -> DeliveryHeader \cup {Torn}] /\ delivery \in DeliveryHeader
      /\ activeDeliveryHeaderIndex \in {0, 1} /\ 1 - activeDeliveryHeaderIndex \in {0, 1}
      /\ acked \in [TelemetryDestination -> SUBSET Sequence]
  BY DEF IInv, TypeOK, DeliveryCopies
<1>4. CASE DeliveryWritten([delivery EXCEPT !.cursor[d] = Pending(d)])
           /\ acked' = [acked EXCEPT ![d] = @ \cup {Pending(d)}]
  <2> DEFINE written == [[delivery EXCEPT !.cursor[d] = Pending(d)] EXCEPT
                             !.generation = Generation!Increment(delivery.generation)]
  <2>1. written.cursor = [delivery.cursor EXCEPT ![d] = Pending(d)]
        /\ delivery.cursor \in [TelemetryDestination -> Word]
    BY <1>3 DEF DeliveryHeader
  <2>2. deliveryCopy' = [deliveryCopy EXCEPT ![1 - activeDeliveryHeaderIndex] = written]
        /\ delivery' = written
    BY <1>4 DEF DeliveryWritten
  <2> HIDE DEF written
  <2>3. \A e \in TelemetryDestination : acked[e] \subseteq acked'[e]
    BY <1>1, <1>3, <1>4
  <2>4. Pending(d) \in acked'[d]
    BY <1>1, <1>3, <1>4
  <2>5. ASSUME NEW e \in TelemetryDestination
        PROVE  delivery'.cursor[e] = 0 \/ delivery'.cursor[e] \in acked'[e]
    <3>1. CASE e = d
      <4>1. delivery'.cursor[e] = Pending(d)
        BY <2>1, <2>2, <3>1
      <4> QED BY <2>4, <3>1, <4>1
    <3>2. CASE e # d
      <4>1. delivery'.cursor[e] = delivery.cursor[e]
        BY <2>1, <2>2, <3>2
      <4> QED BY <1>1, <2>3, <4>1 DEF Sound
    <3> QED BY <3>1, <3>2
  <2> QED
    <3>1. Sound(delivery.cursor)'
      BY <2>5 DEF Sound
    <3>2. ASSUME NEW i \in {0, 1}, deliveryCopy'[i] # Torn
          PROVE  Sound(deliveryCopy[i].cursor)'
      <4>1. CASE i = 1 - activeDeliveryHeaderIndex
        <5>1. deliveryCopy'[i] = delivery'
          BY <1>3, <2>2, <4>1
        <5> QED BY <3>1, <5>1 DEF Sound
      <4>2. CASE i # 1 - activeDeliveryHeaderIndex
        <5>1. deliveryCopy'[i] = deliveryCopy[i]
          BY <1>3, <2>2, <4>2
        <5>2. Sound(deliveryCopy[i].cursor)
          BY <1>2, <3>2, <5>1 DEF Cursors
        <5> QED BY <2>3, <5>1, <5>2 DEF Sound
      <4> QED BY <4>1, <4>2
    <3> QED BY <1>2, <3>1, <3>2 DEF Cursors
<1>5. CASE DeliveryFails /\ UNCHANGED <<acked, requiredMask, pc>>
  <2>1. PICK left \in {deliveryCopy[1 - activeDeliveryHeaderIndex], Torn} :
            deliveryCopy' = [deliveryCopy EXCEPT ![1 - activeDeliveryHeaderIndex] = left]
    BY <1>5 DEF DeliveryFails
  <2>2. \A i \in {0, 1} : deliveryCopy'[i] \in {deliveryCopy[i], Torn}
    BY <1>3, <2>1
  <2>3. delivery' = delivery /\ acked' = acked
    BY <1>5 DEF DeliveryFails, deliveryRam
  <2>4. \A i \in {0, 1} : deliveryCopy'[i] # Torn =>
            deliveryCopy'[i] = deliveryCopy[i] /\ Sound(deliveryCopy[i].cursor)
    BY <1>2, <2>2 DEF Cursors
  <2> QED BY <1>1, <1>2, <2>3, <2>4 DEF Cursors, Sound
<1> QED BY <1>4, <1>5 DEF AcknowledgeDelivery

LEMMA StepKeepsCursors == IInv /\ IInv' /\ Cursors /\ [UninterruptedApiNext]_vars => Cursors'
<1> SUFFICES ASSUME IInv, IInv', Cursors, [UninterruptedApiNext]_vars PROVE Cursors'
  OBVIOUS
<1> USE DEF fileVars, queueRam, deliveryRam, historyVars
<1>1. CASE UNCHANGED vars
  BY <1>1 DEF vars, Cursors, Sound, Ready, Readable, BeingCreated
<1>2. CASE UninterruptedStart
  BY <1>2, StartKeepsCursors
<1>3. CASE Enqueue \/ TrimPops \/ TrimStops \/ ClearRecord \/ Clear \/ RewriteNewest
           \/ Pop \/ DiscardCorruptHead
  <2>1. Ready /\ Ready' /\ UNCHANGED <<deliveryCopy, delivery, acked>>
    BY <1>3 DEF Enqueue, EnqueueDropsOldest, WriteNewRecord, CommitRecord, TrimPops, TrimStops,
                ClearRecord, Clear, RewriteNewest, Pop, DiscardCorruptHead, Ready
  <2> QED BY <2>1, CursorsUntouched
<1>4. ASSUME NEW mask \in Masks, ReconcileDeliveries(mask) PROVE Cursors'
  BY <1>4, CursorsUntouched DEF ReconcileDeliveries, Ready
<1>5. ASSUME NEW mask \in Masks, NEW d \in mask, AcknowledgeDelivery(d, mask) PROVE Cursors'
  BY <1>5, AcknowledgeKeepsCursors
<1> QED
  BY <1>1, <1>2, <1>3, <1>4, <1>5
     DEF UninterruptedApiNext, UninterruptedNext, Operate, Deliver

LEMMA InitHasCursors == Init => Cursors
<1> SUFFICES ASSUME Init PROVE Cursors
  OBVIOUS
<1>1. pc = "off"
  BY DEF Init, Unpowered
<1>2. CASE BlankFileSystem \/ LostQueueFile
  BY <1>1, <1>2
     DEF BlankFileSystem, LostQueueFile, BothTorn, Readable, BeingCreated, Cursors, Ready
<1>3. CASE AgedFileSystem
  <2>1. PICK users \in Masks :
            /\ AgedCursors(users)
            /\ acked = [d \in TelemetryDestination |-> IF d \in users THEN {AgedSequence} ELSE {}]
    BY <1>3 DEF AgedFileSystem
  <2>2. \A i \in {0, 1} : Sound(deliveryCopy[i].cursor)
    BY <2>1 DEF AgedCursors, Sound
  <2> QED BY <1>1, <2>2 DEF Cursors, Ready
<1> QED BY <1>2, <1>3 DEF Init

(***************************************************************************)
(* "A newly created queue must never inherit cursors from an older queue   *)
(* file" (OfflineQueue.cpp:319-320), from every start, also beside the     *)
(* cursors of a queue file that is lost, and through every failed or torn  *)
(* write and power loss but those of CreationInterrupted, with which the   *)
(* code breaks this promise.                                               *)
(***************************************************************************)
THEOREM CursorNeverInherited == UninterruptedApiSpec => []NoInheritedCursor
<1>1. Cursors => NoInheritedCursor
  BY DEF Cursors, Sound, NoInheritedCursor
<1>2. Init => IInv /\ Cursors
  BY InitEstablishes, InitHasCursors
<1>3. IInv /\ Cursors /\ [UninterruptedApiNext]_vars => IInv' /\ Cursors'
  BY UninterruptedSteps, StepPreserves, StepKeepsCursors
<1> QED BY <1>1, <1>2, <1>3, PTL DEF UninterruptedApiSpec

-----------------------------------------------------------------------------
(***************************************************************************)
(* The refinement: every flash write, failed write and power loss is a     *)
(* step of DurableQueue or invisible to its caller, as long as a queue     *)
(* file sees fewer than half the range of sequences (2^31; a device that   *)
(* measures every minute needs 4000 years).                                *)
(***************************************************************************)

FewIssued == MaxIssued + 2 < HalfRange

(***************************************************************************)
(* The records of a header, and the cursors that a reboot would find.      *)
(***************************************************************************)
Listed(h) == [i \in 1 .. h.count |-> RecordAt(h, i - 1)]

StoredCursor ==
    IF ~BeingCreated /\ Readable(deliveryCopy)
    THEN deliveryCopy[NewestCopy(deliveryCopy)].cursor ELSE NoCursors

\* The j-th last sequence that was assigned.
Last(j) == Nth(Durable.nextSequence, -j)

(***************************************************************************)
(* What cursors and history have in common.  The file has assigned the     *)
(* last n sequences; a destination has everything that is queued up to its *)
(* cursor, and nothing behind it.                                          *)
(***************************************************************************)
Assigned(n) ==
    /\ IsFiniteSet(issued) /\ Cardinality(issued) = n
    /\ issued = {Last(j) : j \in 1 .. n}
    /\ n <= MaxIssued + 1
    /\ Durable.count <= n

StandsAt(d, k, n) ==
    /\ StoredCursor[d] = Last(k)
    /\ acked[d] \subseteq {Last(j) : j \in k .. n}
    /\ \A j \in k .. Durable.count : Last(j) \in acked[d]

Stands(d, n) ==
    \/ StoredCursor[d] = 0 /\ acked[d] = {}
    \/ \E k \in 1 .. n : StandsAt(d, k, n)

Calls ==
    /\ pc \in {"record", "commit"} => MayIssue
    /\ pc \in {"trim", "erase"} => requiredMask \in Masks
    /\ pc \in {"removeDelivery", "initDelivery"} => acked = NoDeliveries
    /\ pc = "initFile" => ~Readable(queueCopy)
    /\ ~Readable(queueCopy) => issued = {} /\ acked = NoDeliveries

Progress == \E n \in Nat : Assigned(n) /\ \A d \in TelemetryDestination : Stands(d, n)

History == Calls /\ Progress

Inv == IInv /\ Contents /\ History

-----------------------------------------------------------------------------
(* The records of a header as a sequence. *)

LEMMA RecordType ==
    ASSUME NEW h \in QueueHeader, NEW i \in 0 .. h.count - 1
    PROVE  RecordAt(h, i) \in Sequence
<1>1. h.count \in 0 .. Capacity /\ h.nextSequence \in Sequence
  BY DEF QueueHeader
<1>2. i - h.count \in Int /\ -Modulus < i - h.count /\ i - h.count < Modulus - 1
  BY <1>1, QueueAssumption, HalfRangeAssumption DEF Modulus
<1> QED BY <1>1, <1>2, NthType DEF RecordAt

LEMMA RecordsDiffer ==
    ASSUME NEW h \in QueueHeader, NEW i \in 0 .. h.count - 1, NEW j \in 0 .. h.count - 1, i # j
    PROVE  RecordAt(h, i) # RecordAt(h, j)
<1>1. h.count \in 0 .. Capacity /\ h.nextSequence \in Sequence
  BY DEF QueueHeader
<1>2. /\ i - h.count \in Int /\ -HalfRange < i - h.count /\ i - h.count <= 0
      /\ j - h.count \in Int /\ -HalfRange < j - h.count /\ j - h.count <= 0
      /\ i - h.count # j - h.count
  BY <1>1, QueueAssumption, HalfRangeAssumption
<1> QED BY <1>1, <1>2, NthDistinct DEF RecordAt

LEMMA ListedType ==
    ASSUME NEW h \in QueueHeader
    PROVE  /\ Listed(h) \in Seq(Sequence) /\ Len(Listed(h)) = h.count
           /\ \A i \in 1 .. h.count : Listed(h)[i] = RecordAt(h, i - 1)
<1>1. h.count \in Nat
  BY QueueAssumption DEF QueueHeader
<1>2. \A i \in 1 .. h.count : RecordAt(h, i - 1) \in Sequence
  BY <1>1, RecordType
<1> QED BY <1>1, <1>2 DEF Listed

LEMMA ListedRemoved ==
    ASSUME NEW h \in QueueHeader, NEW g \in QueueHeader,
           h.count > 0, g.count = h.count - 1, g.nextSequence = h.nextSequence
    PROVE  /\ Listed(h) # <<>> /\ Listed(g) = Tail(Listed(h))
           /\ Head(Listed(h)) = RecordAt(h, 0)
           /\ Live(g) = Live(h) \ {RecordAt(h, 0)}
<1>1. h.count \in 0 .. Capacity /\ Capacity \in Nat
  BY QueueAssumption DEF QueueHeader
<1>2. \A i \in 0 .. g.count - 1 : RecordAt(g, i) = RecordAt(h, i + 1)
  <2> SUFFICES ASSUME NEW i \in 0 .. g.count - 1 PROVE RecordAt(g, i) = RecordAt(h, i + 1)
    OBVIOUS
  <2>1. i - g.count = (i + 1) - h.count
    BY <1>1
  <2> QED BY <2>1 DEF RecordAt
<1>3. Listed(h) # <<>> /\ Head(Listed(h)) = RecordAt(h, 0)
  BY <1>1, ListedType
<1>4. Listed(g) = Tail(Listed(h))
  <2>1. /\ Tail(Listed(h)) \in Seq(Sequence) /\ Len(Tail(Listed(h))) = h.count - 1
        /\ \A i \in 1 .. h.count - 1 : Tail(Listed(h))[i] = Listed(h)[i + 1]
    BY <1>1, <1>3, ListedType
  <2>2. \A i \in 1 .. g.count : Listed(g)[i] = Tail(Listed(h))[i]
    <3> SUFFICES ASSUME NEW i \in 1 .. g.count PROVE Listed(g)[i] = Tail(Listed(h))[i]
      OBVIOUS
    <3>1. Listed(g)[i] = RecordAt(g, i - 1)
      BY ListedType
    <3>2. RecordAt(g, i - 1) = RecordAt(h, i)
      BY <1>1, <1>2
    <3>3. Tail(Listed(h))[i] = Listed(h)[i + 1] /\ i + 1 \in 1 .. h.count /\ (i + 1) - 1 = i
      BY <1>1, <2>1
    <3> QED BY <3>1, <3>2, <3>3, ListedType
  <2> QED BY <2>1, <2>2, ListedType
<1>5. Live(g) = Live(h) \ {RecordAt(h, 0)}
  <2>1. ASSUME NEW x \in Live(g) PROVE x \in Live(h) \ {RecordAt(h, 0)}
    <3>1. PICK i \in 0 .. g.count - 1 : x = RecordAt(g, i)
      BY <2>1 DEF Live
    <3>2. x = RecordAt(h, i + 1) /\ i + 1 \in 0 .. h.count - 1 /\ 0 \in 0 .. h.count - 1
          /\ i + 1 # 0
      BY <1>1, <1>2, <3>1
    <3>3. x # RecordAt(h, 0)
      BY <3>2, RecordsDiffer
    <3> QED BY <3>2, <3>3 DEF Live
  <2>2. ASSUME NEW x \in Live(h) \ {RecordAt(h, 0)} PROVE x \in Live(g)
    <3>1. PICK i \in 0 .. h.count - 1 : x = RecordAt(h, i) /\ i # 0
      BY <2>2 DEF Live
    <3>2. i - 1 \in 0 .. g.count - 1 /\ (i - 1) + 1 = i
      BY <1>1, <3>1
    <3>3. RecordAt(g, i - 1) = x
      BY <1>2, <3>1, <3>2
    <3> QED BY <3>2, <3>3 DEF Live
  <2> QED BY <2>1, <2>2
<1> QED BY <1>3, <1>4, <1>5

LEMMA ListedAdded ==
    ASSUME NEW h \in QueueHeader, NEW g \in QueueHeader, h.count < Capacity,
           g.count = h.count + 1, g.nextSequence = NextSequence(h.nextSequence)
    PROVE  /\ Listed(g) = Append(Listed(h), h.nextSequence)
           /\ Live(g) = Live(h) \cup {h.nextSequence}
<1>1. /\ h.count \in 0 .. Capacity - 1 /\ Capacity \in Nat /\ h.count \in Nat
      /\ h.nextSequence \in Sequence
  BY QueueAssumption DEF QueueHeader
<1>2. \A i \in 0 .. h.count :
          RecordAt(g, i) = IF i = h.count THEN h.nextSequence ELSE RecordAt(h, i)
  <2> SUFFICES ASSUME NEW i \in 0 .. h.count
               PROVE  RecordAt(g, i) =
                          IF i = h.count THEN h.nextSequence ELSE RecordAt(h, i)
    OBVIOUS
  <2> QED BY <1>1, RecordAfterAdding DEF RecordAt
<1>3. Listed(g) = Append(Listed(h), h.nextSequence)
  <2> DEFINE longer == Append(Listed(h), h.nextSequence)
  <2>1. /\ longer \in Seq(Sequence) /\ Len(longer) = h.count + 1
        /\ \A i \in 1 .. h.count : longer[i] = Listed(h)[i]
        /\ longer[h.count + 1] = h.nextSequence
    BY <1>1, ListedType
  <2> HIDE DEF longer
  <2>2. \A i \in 1 .. g.count : Listed(g)[i] = longer[i]
    <3> SUFFICES ASSUME NEW i \in 1 .. g.count PROVE Listed(g)[i] = longer[i]
      OBVIOUS
    <3>1. Listed(g)[i] = RecordAt(g, i - 1) /\ i - 1 \in 0 .. h.count
      BY <1>1, ListedType
    <3>2. CASE i = h.count + 1
      BY <1>1, <1>2, <2>1, <3>1, <3>2
    <3>3. CASE i # h.count + 1
      <4>1. i \in 1 .. h.count /\ i - 1 # h.count
        BY <1>1, <3>3
      <4>2. Listed(h)[i] = RecordAt(h, i - 1)
        BY <4>1, ListedType
      <4> QED BY <1>2, <2>1, <3>1, <4>1, <4>2
    <3> QED BY <3>2, <3>3
  <2>3. Listed(g) = longer
    BY <1>1, <2>1, <2>2, ListedType
  <2> QED BY <2>3 DEF longer
<1>4. Live(g) = Live(h) \cup {h.nextSequence}
  <2>1. ASSUME NEW x \in Live(g) PROVE x \in Live(h) \cup {h.nextSequence}
    <3>1. PICK i \in 0 .. g.count - 1 : x = RecordAt(g, i)
      BY <2>1 DEF Live
    <3>2. CASE i = h.count
      BY <1>1, <1>2, <3>1, <3>2
    <3>3. CASE i # h.count
      <4>1. i \in 0 .. h.count - 1 /\ x = RecordAt(h, i)
        BY <1>1, <1>2, <3>1, <3>3
      <4> QED BY <4>1 DEF Live
    <3> QED BY <3>2, <3>3
  <2>2. ASSUME NEW x \in Live(h) PROVE x \in Live(g)
    <3>1. PICK i \in 0 .. h.count - 1 : x = RecordAt(h, i)
      BY <2>2 DEF Live
    <3>2. i \in 0 .. g.count - 1 /\ RecordAt(g, i) = x
      BY <1>1, <1>2, <3>1
    <3> QED BY <3>2 DEF Live
  <2>3. h.nextSequence \in Live(g)
    <3>1. h.count \in 0 .. g.count - 1 /\ RecordAt(g, h.count) = h.nextSequence
      BY <1>1, <1>2
    <3> QED BY <3>1 DEF Live
  <2> QED BY <2>1, <2>2, <2>3
<1> QED BY <1>3, <1>4

LEMMA ListedEmpty ==
    ASSUME NEW h, h.count = 0
    PROVE  Listed(h) = <<>> /\ Live(h) = {}
BY DEF Listed, Live

-----------------------------------------------------------------------------
(* What a reboot would find, before and after a step. *)

LEMMA DurableType == IInv => Durable \in QueueHeader
<1> SUFFICES ASSUME IInv PROVE Durable \in QueueHeader
  OBVIOUS
<1>1. CASE Readable(queueCopy)
  <2>1. NewestCopy(queueCopy) \in {0, 1} /\ queueCopy[NewestCopy(queueCopy)] # Torn
    BY <1>1, LoadedIsHeld, CopyTypes DEF IInv
  <2> QED BY <1>1, <2>1, CopyTypes DEF IInv, Durable
<1>2. CASE ~Readable(queueCopy)
  BY <1>2, FirstHeaderType DEF Durable
<1> QED BY <1>1, <1>2

LEMMA DurableTypeNext == IInv' => Durable' \in QueueHeader
<1>1. (IInv => Durable \in QueueHeader)'
  BY DurableType, PTL
<1> QED BY <1>1

LEMMA StoredIsLoaded == IInv /\ Ready => StoredCursor = delivery.cursor
<1> SUFFICES ASSUME IInv, Ready PROVE StoredCursor = delivery.cursor
  OBVIOUS
<1>1. /\ Held(deliveryCopy, delivery, activeDeliveryHeaderIndex) /\ TypeOK
      /\ activeDeliveryHeaderIndex \in {0, 1}
  BY DEF IInv, TypeOK
<1>2. Readable(deliveryCopy) /\ NewestCopy(deliveryCopy) = activeDeliveryHeaderIndex
  BY <1>1, HeldIsNewest, CopyTypes
<1> QED BY <1>1, <1>2, ReadyIsCreated DEF StoredCursor, Held

LEMMA StoredIsLoadedNext == IInv' /\ Ready' => StoredCursor' = delivery'.cursor
<1>1. (IInv /\ Ready => StoredCursor = delivery.cursor)'
  BY StoredIsLoaded, PTL
<1> QED BY <1>1

\* The fields of the durable header that its caller can tell.
SameQueue == /\ Durable'.count = Durable.count
             /\ Durable'.nextSequence = Durable.nextSequence
             /\ Durable'.droppedRecords = Durable.droppedRecords

LEMMA Committed ==
    ASSUME IInv, IInv', Ready, Ready', NEW changed \in QueueHeader, HeaderWritten(changed)
    PROVE  /\ Durable = header /\ Durable \in QueueHeader /\ Durable' \in QueueHeader
           /\ Durable'.count = changed.count /\ Durable'.nextSequence = changed.nextSequence
           /\ Durable'.droppedRecords = changed.droppedRecords
<1>1. Durable = header /\ Durable' = header'
  BY DurableIsHeader, DurableIsHeaderNext DEF QueueLoaded
<1>2. header' = [changed EXCEPT !.generation = Generation!Increment(header.generation)]
  BY DEF HeaderWritten
<1>3. header'.count = changed.count /\ header'.nextSequence = changed.nextSequence
      /\ header'.droppedRecords = changed.droppedRecords
  BY <1>2 DEF QueueHeader
<1> QED BY <1>1, <1>3, DurableType, DurableTypeNext

LEMMA NotCommitted ==
    ASSUME IInv, IInv', Ready, Ready', header' = header
    PROVE  Durable' = Durable /\ SameQueue
BY DurableIsHeader, DurableIsHeaderNext DEF QueueLoaded, SameQueue

-----------------------------------------------------------------------------
(* What the steps do to the history. *)

LEMMA LastType == IInv => \A j \in 0 .. MaxIssued + 1 : FewIssued => Last(j) \in Sequence
<1> SUFFICES ASSUME IInv, FewIssued, NEW j \in 0 .. MaxIssued + 1 PROVE Last(j) \in Sequence
  OBVIOUS
<1>1. Durable.nextSequence \in Sequence
  BY DurableType DEF QueueHeader
<1>2. -j \in Int /\ -Modulus < -j /\ -j < Modulus - 1
  BY QueueAssumption, HalfRangeAssumption DEF FewIssued, Modulus
<1> QED BY <1>1, <1>2, NthType DEF Last

LEMMA LastDiffer ==
    ASSUME IInv, FewIssued, NEW i \in 0 .. MaxIssued + 1, NEW j \in 0 .. MaxIssued + 1, i # j
    PROVE  Last(i) # Last(j)
<1>1. Durable.nextSequence \in Sequence
  BY DurableType DEF QueueHeader
<1>2. /\ -i \in Int /\ -HalfRange < -i /\ -i <= 0
      /\ -j \in Int /\ -HalfRange < -j /\ -j <= 0 /\ -i # -j
  BY QueueAssumption, HalfRangeAssumption DEF FewIssued
<1> QED BY <1>1, <1>2, NthDistinct DEF Last

\* Fewer records, the same cursors.
LEMMA FewerKeepProgress ==
    ASSUME IInv, IInv', Progress, Durable'.nextSequence = Durable.nextSequence,
           Durable'.count <= Durable.count, StoredCursor' = StoredCursor,
           UNCHANGED <<issued, acked>>
    PROVE  Progress'
<1>1. Durable.count \in Nat /\ Durable'.count \in Nat
  BY DurableType, DurableTypeNext, QueueAssumption DEF QueueHeader
<1>2. PICK n \in Nat : Assigned(n) /\ \A d \in TelemetryDestination : Stands(d, n)
  BY DEF Progress
<1>3. \A j : Last(j)' = Last(j)
  BY DEF Last
<1>4. Assigned(n)'
  BY <1>1, <1>2, <1>3, QueueAssumption DEF Assigned
<1>5. ASSUME NEW d \in TelemetryDestination PROVE Stands(d, n)'
  <2>1. CASE StoredCursor[d] = 0 /\ acked[d] = {}
    BY <2>1 DEF Stands
  <2>2. CASE \E k \in 1 .. n : StandsAt(d, k, n)
    <3>1. PICK k \in 1 .. n : StandsAt(d, k, n)
      BY <2>2
    <3>2. StandsAt(d, k, n)'
      BY <1>1, <1>3, <3>1 DEF StandsAt
    <3> QED BY <3>2 DEF Stands
  <2> QED BY <1>2, <2>1, <2>2 DEF Stands
<1> QED BY <1>4, <1>5 DEF Progress

LEMMA SameKeepProgress ==
    ASSUME IInv, IInv', Progress, SameQueue, StoredCursor' = StoredCursor,
           UNCHANGED <<issued, acked>>
    PROVE  Progress'
<1>1. Durable'.count <= Durable.count
  BY DurableType, QueueAssumption DEF SameQueue, QueueHeader
<1> QED BY <1>1, FewerKeepProgress DEF SameQueue

\* Without a queue file there are no cursors.
LEMMA NothingIssued ==
    ASSUME Progress, issued = {}
    PROVE  \A d \in TelemetryDestination : StoredCursor[d] = 0 /\ acked[d] = {}
<1>1. PICK n \in Nat : Assigned(n) /\ \A d \in TelemetryDestination : Stands(d, n)
  BY DEF Progress
<1>2. n = 0
  BY <1>1, FS_EmptySet DEF Assigned
<1> QED BY <1>1, <1>2 DEF Stands

\* A destination without a cursor has nothing.
LEMMA NoCursorNothingAcked ==
    ASSUME IInv, FewIssued, Progress
    PROVE  \A d \in TelemetryDestination : StoredCursor[d] = 0 => acked[d] = {}
<1>1. PICK n \in Nat : Assigned(n) /\ \A d \in TelemetryDestination : Stands(d, n)
  BY DEF Progress
<1>2. \A k \in 1 .. n : Last(k) # 0
  BY <1>1, LastType, QueueAssumption DEF Assigned, Sequence
<1> QED BY <1>1, <1>2 DEF Stands, StandsAt

\* No destination has anything: no cursor says otherwise.
LEMMA NothingAckedProgress ==
    ASSUME IInv, Progress, SameQueue, issued' = issued, acked' = NoDeliveries, StoredCursor' = NoCursors
    PROVE  Progress'
<1>1. PICK n \in Nat : Assigned(n)
  BY DEF Progress
<1>2. Assigned(n)'
  BY <1>1 DEF Assigned, Last, SameQueue
<1>3. \A d \in TelemetryDestination : Stands(d, n)'
  BY DEF Stands, NoCursors, NoDeliveries
<1> QED BY <1>2, <1>3 DEF Progress

\* In the middle of a call, and between calls, the queue file is readable.
LEMMA ReadyCalls ==
    ASSUME IInv', Ready', pc' \in {"record", "commit"} => MayIssue',
           pc' \in {"trim", "erase"} => requiredMask' \in Masks
    PROVE  Calls'
<1>1. Readable(queueCopy)' /\ pc' # "initFile" /\ pc' \notin {"removeDelivery", "initDelivery"}
  BY LoadedIsReadableNext DEF QueueLoaded, Ready
<1> QED BY <1>1 DEF Calls

LEMMA StartKeepsHistory == FewIssued /\ Inv /\ IInv' /\ UninterruptedStart =>
                               History' /\ SameQueue /\ acked' = acked
<1> SUFFICES ASSUME FewIssued, IInv, IInv', Calls, Progress, UninterruptedStart
             PROVE  History' /\ SameQueue /\ acked' = acked
  BY DEF Inv, History
<1> USE DEF fileVars, queueRam, deliveryRam, historyVars
<1>1. CASE BeginLoads \/ BeginWithoutQueue \/ (PowerLoss /\ ~CreationInterrupted)
  <2>1. UNCHANGED <<queueCopy, deliveryCopy, issued, acked>>
    BY <1>1 DEF BeginLoads, BeginWithoutQueue, PowerLoss
  <2>2. /\ Durable' = Durable /\ Readable(queueCopy)' = Readable(queueCopy)
        /\ StoredCursor' = StoredCursor
    <3>1. Durable' = Durable /\ Readable(queueCopy)' = Readable(queueCopy)
      BY <2>1 DEF Durable, Readable, NewestCopy
    <3>2. BeingCreated' = BeingCreated \/ ~Readable(deliveryCopy)
      <4>1. CASE BeginLoads
        BY <2>1, <4>1 DEF BeginLoads, BeingCreated, Readable
      <4>2. CASE BeginWithoutQueue
        BY <2>1, <4>2 DEF BeginWithoutQueue, BeingCreated, Readable
      <4>3. CASE PowerLoss /\ ~CreationInterrupted
        <5>1. pc' = "off" /\ (pc \in {"removeDelivery", "initDelivery"} => ~Readable(deliveryCopy))
          BY <4>3 DEF PowerLoss, CreationInterrupted
        <5> QED BY <2>1, <5>1 DEF BeingCreated, Readable, Calls
      <4> QED BY <1>1, <4>1, <4>2, <4>3
    <3> QED BY <2>1, <3>1, <3>2 DEF StoredCursor, Readable, NewestCopy
  <2>3. pc' = "initDelivery" => acked = NoDeliveries
    <3> SUFFICES ASSUME pc' = "initDelivery" PROVE acked = NoDeliveries
      OBVIOUS
    <3>1. ~Readable(deliveryCopy)
      BY <1>1 DEF BeginLoads, BeginWithoutQueue, PowerLoss
    <3>2. \A d \in TelemetryDestination : acked[d] = {}
      BY <3>1, NoCursorNothingAcked DEF StoredCursor, NoCursors
    <3> QED BY <3>2 DEF IInv, TypeOK, NoDeliveries
  <2>4. pc' = "initFile" => ~Readable(queueCopy)
    BY <1>1 DEF BeginLoads, BeginWithoutQueue, PowerLoss
  <2>5. pc' \in {"idle", "initDelivery", "initFile", "off"}
    BY <1>1 DEF BeginLoads, BeginWithoutQueue, PowerLoss
  <2>6. Calls'
    BY <2>1, <2>2, <2>3, <2>4, <2>5 DEF Calls
  <2> QED BY <2>1, <2>2, <2>6, SameKeepProgress DEF History, SameQueue
<1>2. CASE InitializeFile /\ ~CreationInterrupted
  <2>1. /\ issued' = issued /\ acked' = acked /\ deliveryCopy' = deliveryCopy
        /\ issued = {} /\ acked = NoDeliveries /\ pc' \in {"removeDelivery", "failed"}
    BY <1>2 DEF InitializeFile, Calls
  <2>2. StoredCursor' = StoredCursor
    <3>1. BeingCreated
      BY <1>2 DEF InitializeFile, BeingCreated
    <3>2. pc' = "failed" /\ Readable(queueCopy)' => ~Readable(deliveryCopy)
      BY <1>2 DEF InitializeFile, CreationInterrupted, Readable
    <3>3. BeingCreated' \/ ~Readable(deliveryCopy)'
      BY <2>1, <3>2 DEF BeingCreated, Readable
    <3> QED BY <3>1, <3>3 DEF StoredCursor
  <2>3. Durable' \in {FirstQueueHeader(0), FirstQueueHeader(1)}
    <3>1. CASE queueCopy' = [i \in {0, 1} |-> FirstQueueHeader(1 - i)]
      <4>1. queueCopy'[0] = FirstQueueHeader(1) /\ queueCopy'[1] = FirstQueueHeader(0)
        BY <3>1
      <4> QED BY <4>1 DEF Durable, Readable, NewestCopy
    <3>2. CASE \E first \in {Torn, FirstQueueHeader(1)} :
                   queueCopy' = [BothTorn EXCEPT ![0] = first]
      <4>1. queueCopy'[0] \in {Torn, FirstQueueHeader(1)} /\ queueCopy'[1] = Torn
        BY <3>2 DEF BothTorn
      <4> QED BY <4>1 DEF Durable, Readable, NewestCopy
    <3> QED BY <1>2, <3>1, <3>2 DEF InitializeFile
  <2>4. Durable = FirstQueueHeader(0)
    BY <1>2 DEF InitializeFile, Calls, Durable
  <2>5. SameQueue
    BY <2>3, <2>4 DEF SameQueue, FirstQueueHeader
  <2>6. Calls'
    BY <2>1 DEF Calls
  <2> QED BY <2>1, <2>2, <2>5, <2>6, SameKeepProgress DEF History
<1>3. CASE RemoveDelivery \/ InitializeDeliveryState
  <2>1. UNCHANGED <<queueCopy, issued, acked>> /\ acked = NoDeliveries
        /\ pc' \in {"initDelivery", "idle", "failed"} /\ QueueLoaded
    BY <1>3 DEF RemoveDelivery, InitializeDeliveryState, Calls, QueueLoaded
  <2>2. Readable(queueCopy) /\ Readable(queueCopy)' /\ Durable' = Durable
    BY <2>1, LoadedIsReadable DEF Durable, Readable, NewestCopy
  <2>3. StoredCursor' = NoCursors
    <3>1. CASE RemoveDelivery
      BY <3>1 DEF RemoveDelivery, StoredCursor, BeingCreated
    <3>2. CASE \A i \in {0, 1} :
                   deliveryCopy'[i] \in {Torn, FirstDeliveryHeader(0), FirstDeliveryHeader(1)}
      <4>1. ASSUME Readable(deliveryCopy)'
            PROVE  deliveryCopy'[NewestCopy(deliveryCopy)'] \in
                       {FirstDeliveryHeader(0), FirstDeliveryHeader(1)}
        BY <3>2, <4>1 DEF Readable, NewestCopy
      <4> QED BY <4>1 DEF StoredCursor, FirstDeliveryHeader
    <3> QED BY <1>3, <3>1, <3>2 DEF InitializeDeliveryState, BothTorn
  <2>4. SameQueue
    BY <2>2 DEF SameQueue
  <2>5. Progress'
    BY <2>1, <2>3, <2>4, NothingAckedProgress
  <2>6. Calls'
    BY <2>1, <2>2 DEF Calls
  <2> QED BY <2>1, <2>4, <2>5, <2>6 DEF History
<1> QED BY <1>1, <1>2, <1>3 DEF UninterruptedStart

-----------------------------------------------------------------------------
\* enqueue assigns the next sequence, which no destination can have.
LEMMA AddKeepsProgress ==
    ASSUME FewIssued, IInv, IInv', Progress, MayIssue,
           Durable.count < Capacity, Durable'.count = Durable.count + 1,
           Durable'.nextSequence = NextSequence(Durable.nextSequence),
           StoredCursor' = StoredCursor, acked' = acked,
           issued' = issued \cup {Durable.nextSequence}
    PROVE  Progress' /\ \A d \in TelemetryDestination : Durable.nextSequence \notin acked[d]
<1>1. /\ Durable.count \in Nat /\ Durable.nextSequence \in Sequence /\ MaxIssued \in Nat
      /\ HalfRange \in Nat
  BY DurableType, QueueAssumption, HalfRangeAssumption DEF QueueHeader
<1>2. PICK n \in Nat : Assigned(n) /\ \A d \in TelemetryDestination : Stands(d, n)
  BY DEF Progress
<1>3. n <= MaxIssued
  <2>1. Cardinality(issued \ {AgedSequence}) \in {n - 1, n}
    BY <1>2, FS_RemoveElement DEF Assigned
  <2> QED BY <1>1, <1>2, <2>1 DEF MayIssue
<1>4. \A j \in 0 .. n : Last(j + 1)' = Last(j)
  <2> SUFFICES ASSUME NEW j \in 0 .. n PROVE Last(j + 1)' = Last(j)
    OBVIOUS
  <2>1. -j \in Int /\ -HalfRange < -j /\ -j <= 0 /\ -(j + 1) = -j - 1
    BY <1>1, <1>3 DEF FewIssued
  <2>2. Nth(NextSequence(Durable.nextSequence), -j - 1) = Nth(Durable.nextSequence, -j)
    BY <1>1, <2>1, NthShift
  <2> QED BY <2>1, <2>2 DEF Last
<1>5. Last(0) = Durable.nextSequence
  BY <1>1, NthZero DEF Last
<1>6. Durable.nextSequence \notin issued
  <2>1. \A j \in 1 .. n : Last(j) # Last(0)
    BY <1>1, <1>3, LastDiffer
  <2> QED BY <1>2, <1>5, <2>1 DEF Assigned
<1>7. issued' = {Last(j)' : j \in 1 .. n + 1}
  <2>1. ASSUME NEW x \in issued' PROVE x \in {Last(j)' : j \in 1 .. n + 1}
    <3>1. PICK j \in 0 .. n : x = Last(j)
      BY <1>2, <1>5, <2>1 DEF Assigned
    <3>2. j + 1 \in 1 .. n + 1
      OBVIOUS
    <3> QED BY <1>4, <3>1, <3>2
  <2>2. ASSUME NEW j \in 1 .. n + 1 PROVE Last(j)' \in issued'
    <3>1. j - 1 \in 0 .. n /\ (j - 1) + 1 = j
      OBVIOUS
    <3>2. Last(j)' = Last(j - 1)
      BY <1>4, <3>1
    <3> QED BY <1>2, <1>5, <3>1, <3>2 DEF Assigned
  <2> QED BY <2>1, <2>2
<1>8. Assigned(n + 1)'
  <2>1. IsFiniteSet(issued') /\ Cardinality(issued') = n + 1
    BY <1>2, <1>6, FS_AddElement DEF Assigned
  <2>2. n + 1 <= MaxIssued + 1 /\ Durable'.count <= n + 1
    BY <1>1, <1>2, <1>3 DEF Assigned
  <2> QED BY <1>7, <2>1, <2>2 DEF Assigned
<1>9. ASSUME NEW d \in TelemetryDestination PROVE Stands(d, n + 1)'
  <2>1. CASE StoredCursor[d] = 0 /\ acked[d] = {}
    BY <2>1 DEF Stands
  <2>2. CASE \E k \in 1 .. n : StandsAt(d, k, n)
    <3>1. PICK k \in 1 .. n : StandsAt(d, k, n)
      BY <2>2
    <3>2. k + 1 \in 1 .. n + 1 /\ Last(k + 1)' = StoredCursor'[d]
      BY <1>4, <3>1 DEF StandsAt
    <3>3. acked'[d] \subseteq {Last(j)' : j \in k + 1 .. n + 1}
      <4> SUFFICES ASSUME NEW x \in acked[d] PROVE x \in {Last(j)' : j \in k + 1 .. n + 1}
        OBVIOUS
      <4>1. PICK j \in k .. n : x = Last(j)
        BY <3>1 DEF StandsAt
      <4>2. j + 1 \in k + 1 .. n + 1 /\ Last(j + 1)' = x
        BY <1>4, <4>1
      <4> QED BY <4>2
    <3>4. \A j \in k + 1 .. Durable'.count : Last(j)' \in acked'[d]
      <4> SUFFICES ASSUME NEW j \in k + 1 .. Durable'.count PROVE Last(j)' \in acked[d]
        OBVIOUS
      <4>1. j - 1 \in k .. Durable.count /\ j - 1 \in 0 .. n /\ (j - 1) + 1 = j
        BY <1>1, <1>2 DEF Assigned
      <4>2. Last(j)' = Last(j - 1)
        BY <1>4, <4>1
      <4> QED BY <3>1, <4>1, <4>2 DEF StandsAt
    <3>5. StandsAt(d, k + 1, n + 1)'
      BY <3>2, <3>3, <3>4 DEF StandsAt
    <3> QED BY <3>2, <3>5 DEF Stands
  <2> QED BY <1>2, <2>1, <2>2 DEF Stands
<1>10. ASSUME NEW d \in TelemetryDestination PROVE Durable.nextSequence \notin acked[d]
  <2>1. acked[d] \subseteq issued
    BY <1>2 DEF Stands, StandsAt, Assigned
  <2> QED BY <1>6, <2>1
<1> QED BY <1>8, <1>9, <1>10 DEF Progress

-----------------------------------------------------------------------------
(* The same steps, seen by a caller of the atomic queue. *)

DeliveredHere == [d \in TelemetryDestination |-> acked[d] \cap Live(Durable)]

\* A step of the atomic queue, or one that its caller does not see.
Refines == Abstract!Next \/ UNCHANGED Abstract!vars

LEMMA SameDestinations == Abstract!TelemetryDestination = TelemetryDestination
BY DEF Abstract!TelemetryDestination, TelemetryDestination

LEMMA SameImage ==
    ASSUME SameQueue, acked' = acked
    PROVE  /\ DurableRecords' = DurableRecords /\ DeliveredHere' = DeliveredHere
           /\ Live(Durable)' = Live(Durable)
BY DEF SameQueue, DurableRecords, DeliveredHere, Live, RecordAt

LEMMA InvisibleRefines ==
    ASSUME SameQueue, acked' = acked, requiredMask' = requiredMask
    PROVE  Refines
BY SameImage DEF Refines, SameQueue, DeliveredHere, Abstract!vars

LEMMA EndRefines ==
    ASSUME SameQueue, acked' = acked, requiredMask' = {}
    PROVE  Refines
<1>1. Abstract!EndCall
  BY SameImage DEF SameQueue, DeliveredHere, Abstract!EndCall
<1> QED BY <1>1 DEF Refines, Abstract!Next

LEMMA ReconcileRefines ==
    ASSUME SameQueue, acked' = acked, NEW mask \in Masks, requiredMask' = mask
    PROVE  Refines
<1>1. Abstract!Reconcile(mask)
  BY SameImage DEF SameQueue, DeliveredHere, Abstract!Reconcile
<1> QED BY <1>1 DEF Refines, Abstract!Next

LEMMA HeadGone ==
    ASSUME IInv, IInv', Durable.count > 0, Durable'.count = Durable.count - 1,
           Durable'.nextSequence = Durable.nextSequence, acked' = acked
    PROVE  Abstract!RemoveHead /\ Head(DurableRecords) = RecordAt(Durable, 0)
           /\ Len(DurableRecords) = Durable.count
<1>1. Durable \in QueueHeader /\ Durable' \in QueueHeader
  BY DurableType, DurableTypeNext
<1>2. DurableRecords = Listed(Durable) /\ DurableRecords' = Listed(Durable')
  BY DEF DurableRecords, Listed, RecordAt
<1>3. /\ Listed(Durable) # <<>> /\ Listed(Durable') = Tail(Listed(Durable))
      /\ Head(Listed(Durable)) = RecordAt(Durable, 0)
      /\ Live(Durable') = Live(Durable) \ {RecordAt(Durable, 0)}
  BY <1>1, ListedRemoved
<1>4. DeliveredHere' = [d \in TelemetryDestination |-> DeliveredHere[d] \ {RecordAt(Durable, 0)}]
  <2>1. Live(Durable)' = Live(Durable')
    BY DEF Live, RecordAt
  <2>2. \A d \in TelemetryDestination :
            acked[d] \cap (Live(Durable) \ {RecordAt(Durable, 0)})
                = (acked[d] \cap Live(Durable)) \ {RecordAt(Durable, 0)}
    OBVIOUS
  <2> QED BY <1>3, <2>1, <2>2, Zenon DEF DeliveredHere
<1>5. Abstract!RemoveHead
  BY <1>2, <1>3, <1>4, SameDestinations DEF Abstract!RemoveHead, DeliveredHere
<1> QED BY <1>1, <1>2, <1>3, <1>5, ListedType

LEMMA AddedRefines ==
    ASSUME IInv, IInv', Durable.count < Capacity, Durable'.count = Durable.count + 1,
           Durable'.nextSequence = NextSequence(Durable.nextSequence),
           Durable'.droppedRecords = Durable.droppedRecords,
           UNCHANGED <<acked, requiredMask>>,
           \A d \in TelemetryDestination : Durable.nextSequence \notin acked[d]
    PROVE  Refines
<1>1. Durable \in QueueHeader /\ Durable' \in QueueHeader
  BY DurableType, DurableTypeNext
<1>2. DurableRecords = Listed(Durable) /\ DurableRecords' = Listed(Durable')
  BY DEF DurableRecords, Listed, RecordAt
<1>3. /\ Listed(Durable') = Append(Listed(Durable), Durable.nextSequence)
      /\ Live(Durable') = Live(Durable) \cup {Durable.nextSequence}
  BY <1>1, ListedAdded
<1>4. DeliveredHere' = DeliveredHere
  <2>1. Live(Durable)' = Live(Durable')
    BY DEF Live, RecordAt
  <2>2. \A d \in TelemetryDestination :
            acked[d] \cap (Live(Durable) \cup {Durable.nextSequence}) = acked[d] \cap Live(Durable)
    OBVIOUS
  <2> QED BY <1>3, <2>1, <2>2, Zenon DEF DeliveredHere
<1>5. Abstract!NextSequence(Durable.nextSequence) = NextSequence(Durable.nextSequence)
  BY DEF Abstract!NextSequence, NextSequence, Abstract!Increment, Increment, Abstract!Modulus, Modulus
<1>6. Abstract!Enqueue
  BY <1>1, <1>2, <1>3, <1>4, <1>5, ListedType DEF Abstract!Enqueue, DeliveredHere
<1> QED BY <1>6 DEF Refines, Abstract!Next

LEMMA ClearedRefines ==
    ASSUME Durable'.count = 0, Durable'.nextSequence = Durable.nextSequence,
           Durable'.droppedRecords = Durable.droppedRecords, UNCHANGED <<acked, requiredMask>>
    PROVE  Refines
<1>1. DurableRecords' = <<>> /\ Live(Durable)' = {}
  BY DEF DurableRecords, Live
<1>2. DeliveredHere' = [d \in TelemetryDestination |-> {}]
  <2>1. \A d \in TelemetryDestination : acked'[d] \cap {} = {}
    OBVIOUS
  <2> QED BY <1>1, <2>1, Zenon DEF DeliveredHere
<1>3. Abstract!Clear
  BY <1>1, <1>2, SameDestinations DEF Abstract!Clear, DeliveredHere
<1> QED BY <1>3 DEF Refines, Abstract!Next

-----------------------------------------------------------------------------
(* What the comparison of a cursor tells about a queued record. *)

LEMMA AfterIsNewer ==
    ASSUME FewIssued, IInv, NEW j \in 1 .. MaxIssued + 1, NEW k \in 1 .. MaxIssued + 1
    PROVE  TelemetrySequenceAfter(Last(j), Last(k)) <=> j < k
<1>1. Durable.nextSequence \in Sequence /\ HalfRange \in Nat /\ MaxIssued \in Nat
  BY DurableType, QueueAssumption, HalfRangeAssumption DEF QueueHeader
<1>2. Last(k) # 0
  BY <1>1, LastType DEF Sequence
<1>3. PositiveInt32(Minus(Last(j), Last(k))) <=> -j > -k
  <2>1. /\ -j \in Int /\ -k \in Int /\ -HalfRange < -j /\ -j < HalfRange
        /\ -HalfRange < -k /\ -k < HalfRange
        /\ (-j) - (-k) < HalfRange - 1 /\ (-k) - (-j) < HalfRange - 1
    BY <1>1 DEF FewIssued
  <2> QED BY <1>1, <2>1, PositiveDifference DEF Last
<1> QED BY <1>1, <1>2, <1>3 DEF TelemetrySequenceAfter

\* The offset leads from the head to the record behind the cursor.
LEMMA OffsetFromHead ==
    ASSUME FewIssued, IInv, NEW m \in 1 .. MaxIssued + 1, NEW k \in 1 .. m
    PROVE  TelemetryPendingOffset(Last(m), Last(k)) = m - k + 1
<1> DEFINE s == Durable.nextSequence
<1>1. s \in Sequence /\ HalfRange \in Nat /\ MaxIssued \in Nat
  BY DurableType, QueueAssumption, HalfRangeAssumption DEF QueueHeader
<1>2. Last(m) \in Sequence
  BY <1>1, LastType
<1>3. Nth(Nth(s, -m), m - k) = Nth(s, (m - k) - m)
  <2>1. m \in Nat /\ m - k \in Nat /\ m - k <= m /\ m < HalfRange
    BY <1>1 DEF FewIssued
  <2> QED BY <1>1, <2>1, NthChain
<1>4. Last(k) = CursorAt(Last(m), m - k + 1)
  <2>1. (m - k) - m = -k /\ (m - k + 1) - 1 = m - k
    OBVIOUS
  <2> QED BY <1>3, <2>1 DEF CursorAt, Last
<1>5. m - k + 1 \in Nat /\ m - k + 1 > 0 /\ m - k + 1 <= HalfRange
  BY <1>1 DEF FewIssued
<1>6. OffsetIsPosition(Last(m), m - k + 1)
  BY <1>2, <1>5, OffsetAgreesWithPosition
<1> QED BY <1>4, <1>5, <1>6 DEF OffsetIsPosition

\* Where the records of the queue are.
LEMMA SlotOfLast ==
    ASSUME IInv, Contents, Ready, NEW i \in 0 .. Durable.count - 1,
           slot[Ahead(header.head, i)] # Blank
    PROVE  slot[Ahead(header.head, i)] = Last(Durable.count - i)
<1>1. Durable = header /\ Durable.count \in Nat
  BY DurableIsHeader, DurableType, QueueAssumption DEF QueueLoaded, QueueHeader
<1>2. slot[Ahead(header.head, i)] = RecordAt(Durable, i)
  BY <1>1 DEF Contents, Intact, Promised
<1>3. i - Durable.count = -(Durable.count - i)
  BY <1>1
<1> QED BY <1>2, <1>3 DEF RecordAt, Last

LEMMA SlotOfHead ==
    ASSUME IInv, Contents, Ready, header.count > 0, slot[header.head] # Blank
    PROVE  Durable.count > 0 /\ slot[header.head] = Last(Durable.count)
<1>1. Durable = header /\ Durable.count \in Nat /\ header.head \in Index
  BY DurableIsHeader, DurableType, QueueAssumption DEF QueueLoaded, QueueHeader
<1>2. Ahead(header.head, 0) = header.head
  BY <1>1, QueueAssumption DEF Ahead, Index
<1>3. 0 \in 0 .. Durable.count - 1 /\ Durable.count - 0 = Durable.count
  BY <1>1
<1>4. slot[Ahead(header.head, 0)] = Last(Durable.count - 0)
  BY <1>2, <1>3, SlotOfLast
<1> QED BY <1>1, <1>2, <1>3, <1>4

(***************************************************************************)
(* peekPendingDelivery finds the oldest record that the destination lacks: *)
(* the head, or the record behind its cursor.                              *)
(***************************************************************************)
Oldest(d, j, n) ==
    /\ j \in 1 .. Durable.count /\ Pending(d) = Last(j)
    /\ acked[d] \subseteq {Last(i) : i \in j + 1 .. n}
    /\ \A i \in j + 1 .. Durable.count : Last(i) \in acked[d]

LEMMA PendingIsOldest ==
    ASSUME FewIssued, IInv, Contents, Ready, NEW n \in Nat, Assigned(n),
           NEW d \in TelemetryDestination, Stands(d, n), Pending(d) # Blank
    PROVE  \E j \in 1 .. n : Oldest(d, j, n)
<1> DEFINE m == Durable.count
<1>1. /\ Durable = header /\ m \in Nat /\ m <= n /\ n <= MaxIssued + 1 /\ MaxIssued \in Nat
      /\ StoredCursor = delivery.cursor
  BY DurableIsHeader, DurableType, StoredIsLoaded, QueueAssumption
     DEF QueueLoaded, QueueHeader, Assigned
<1>2. m > 0 /\ slot[header.head] = Last(m)
  <2>1. header.count > 0 /\ slot[header.head] # Blank
    BY <1>1 DEF Pending
  <2> QED BY <2>1, SlotOfHead
<1>3. CASE StoredCursor[d] = 0 /\ acked[d] = {}
  <2>1. Pending(d) = Last(m)
    BY <1>1, <1>2, <1>3 DEF Pending, TelemetrySequenceAfter
  <2>2. Oldest(d, m, n)
    BY <1>1, <1>2, <1>3, <2>1 DEF Oldest
  <2> QED BY <1>1, <1>2, <2>2
<1>4. ASSUME NEW k \in 1 .. n, StandsAt(d, k, n) PROVE \E j \in 1 .. n : Oldest(d, j, n)
  <2>1. delivery.cursor[d] = Last(k)
    BY <1>1, <1>4 DEF StandsAt
  <2>2. m \in 1 .. MaxIssued + 1 /\ k \in 1 .. MaxIssued + 1
    BY <1>1, <1>2
  <2>3. TelemetrySequenceAfter(Last(m), Last(k)) <=> m < k
    BY <2>2, AfterIsNewer
  <2>4. CASE m < k
    <3>1. Pending(d) = Last(m)
      BY <1>1, <1>2, <2>1, <2>3, <2>4 DEF Pending
    <3>2. acked[d] \subseteq {Last(i) : i \in m + 1 .. n}
      <4>1. k .. n \subseteq m + 1 .. n
        BY <1>1, <2>4
      <4> QED BY <1>4, <4>1 DEF StandsAt
    <3>3. Oldest(d, m, n)
      BY <1>1, <1>2, <3>1, <3>2 DEF Oldest
    <3> QED BY <1>1, <1>2, <3>3
  <2>5. CASE k <= m
    <3> DEFINE offset == m - k + 1
               candidate == slot[Ahead(header.head, offset)]
    <3>1. TelemetryPendingOffset(slot[header.head], delivery.cursor[d]) = offset
      BY <1>1, <1>2, <2>1, <2>2, <2>5, OffsetFromHead
    <3>2. Pending(d) = IF offset >= m \/ candidate = Blank THEN Blank
                       ELSE IF TelemetrySequenceAfter(candidate, Last(k)) THEN candidate ELSE Blank
      <4>1. ~TelemetrySequenceAfter(slot[header.head], delivery.cursor[d])
        BY <1>1, <1>2, <2>1, <2>2, <2>3, <2>5
      <4>2. header.count # 0 /\ slot[header.head] # Blank /\ header.count = m
        BY <1>1, <1>2 DEF Pending
      <4> HIDE DEF offset, m
      <4> QED BY <2>1, <3>1, <4>1, <4>2 DEF Pending
    <3>3. offset < m /\ candidate # Blank /\ Pending(d) = candidate
      BY <1>1, <3>2
    <3>4. offset \in 0 .. m - 1 /\ m - offset = k - 1 /\ k - 1 \in 1 .. m
      BY <1>1, <2>5, <3>3
    <3>5. candidate = Last(k - 1)
      BY <3>3, <3>4, SlotOfLast
    <3>6. Oldest(d, k - 1, n)
      <4>1. (k - 1) + 1 = k
        OBVIOUS
      <4> QED BY <1>4, <3>3, <3>4, <3>5, <4>1 DEF Oldest, StandsAt
    <3> QED BY <1>1, <3>4, <3>6
  <2> QED BY <1>1, <2>4, <2>5
<1> QED BY <1>3, <1>4 DEF Stands

LEMMA RecordIsLast ==
    ASSUME IInv
    PROVE  /\ DOMAIN DurableRecords = 1 .. Durable.count
           /\ \A i \in 1 .. Durable.count : DurableRecords[i] = Last(Durable.count - i + 1)
           /\ \A j \in 1 .. Durable.count : Last(j) \in Live(Durable)
<1>1. Durable.count \in Nat
  BY DurableType, QueueAssumption DEF QueueHeader
<1>2. ASSUME NEW i \in 1 .. Durable.count
      PROVE  DurableRecords[i] = Last(Durable.count - i + 1)
  <2>1. (i - 1) - Durable.count = -(Durable.count - i + 1)
    BY <1>1
  <2> QED BY <2>1 DEF DurableRecords, RecordAt, Last
<1>3. ASSUME NEW j \in 1 .. Durable.count PROVE Last(j) \in Live(Durable)
  <2>1. Durable.count - j \in 0 .. Durable.count - 1 /\ (Durable.count - j) - Durable.count = -j
    BY <1>1
  <2>2. RecordAt(Durable, Durable.count - j) = Last(j)
    BY <2>1 DEF RecordAt, Last
  <2> QED BY <2>1, <2>2 DEF Live
<1> QED BY <1>2, <1>3 DEF DurableRecords

\* An acknowledged record joins the prefix that its destination has.
LEMMA AcknowledgedKeepsProgress ==
    ASSUME IInv, SameQueue, issued' = issued,
           NEW n \in Nat, Assigned(n), \A e \in TelemetryDestination : Stands(e, n),
           NEW d \in TelemetryDestination, NEW j \in 1 .. n, Oldest(d, j, n),
           StoredCursor' = [StoredCursor EXCEPT ![d] = Last(j)],
           StoredCursor \in [TelemetryDestination -> Word],
           acked' = [acked EXCEPT ![d] = @ \cup {Last(j)}]
    PROVE  Progress'
<1>1. (\A i : Last(i)' = Last(i)) /\ Durable'.count = Durable.count
  BY DEF Last, SameQueue
<1>2. Assigned(n)'
  BY <1>1 DEF Assigned
<1>3. acked \in [TelemetryDestination -> SUBSET Sequence]
  BY DEF IInv, TypeOK
<1>4. ASSUME NEW e \in TelemetryDestination PROVE Stands(e, n)'
  <2>1. CASE e = d
    <3>1. StoredCursor'[d] = Last(j) /\ acked'[d] = acked[d] \cup {Last(j)}
      BY <1>3
    <3>2. acked'[d] \subseteq {Last(i) : i \in j .. n}
      <4>1. j + 1 .. n \subseteq j .. n /\ j \in j .. n
        OBVIOUS
      <4> QED BY <3>1, <4>1 DEF Oldest
    <3>3. \A i \in j .. Durable.count : Last(i) \in acked'[d]
      <4> SUFFICES ASSUME NEW i \in j .. Durable.count PROVE Last(i) \in acked'[d]
        OBVIOUS
      <4>1. i = j \/ i \in j + 1 .. Durable.count
        OBVIOUS
      <4> QED BY <3>1, <4>1 DEF Oldest
    <3>4. StandsAt(d, j, n)'
      BY <1>1, <3>1, <3>2, <3>3 DEF StandsAt
    <3> QED BY <2>1, <3>4 DEF Stands
  <2>2. CASE e # d
    <3>1. StoredCursor'[e] = StoredCursor[e] /\ acked'[e] = acked[e]
      BY <1>3, <2>2
    <3>2. \A k : StandsAt(e, k, n) => StandsAt(e, k, n)'
      BY <1>1, <3>1 DEF StandsAt
    <3> QED BY <3>1, <3>2 DEF Stands
  <2> QED BY <2>1, <2>2
<1> QED BY <1>2, <1>4 DEF Progress

LEMMA AcknowledgedRefines ==
    ASSUME FewIssued, IInv, SameQueue, NEW mask \in Masks, NEW d \in mask,
           NEW n \in Nat, Assigned(n), NEW j \in 1 .. n, Oldest(d, j, n),
           acked' = [acked EXCEPT ![d] = @ \cup {Last(j)}], requiredMask' = mask
    PROVE  Refines
<1> DEFINE m == Durable.count
           i == m - j + 1
<1>1. /\ m \in Nat /\ j \in 1 .. m /\ i \in 1 .. m /\ m - i + 1 = j
      /\ n <= MaxIssued + 1 /\ MaxIssued \in Nat /\ m <= n
      /\ d \in TelemetryDestination /\ acked \in [TelemetryDestination -> SUBSET Sequence]
  BY DurableType, QueueAssumption DEF QueueHeader, Oldest, Assigned, IInv, TypeOK
<1>2. i \in DOMAIN DurableRecords /\ DurableRecords[i] = Last(j)
  BY <1>1, RecordIsLast
<1>3. Last(j) \notin DeliveredHere[d]
  <2>1. \A k \in j + 1 .. n : Last(k) # Last(j)
    BY <1>1, LastDiffer
  <2> QED BY <1>1, <2>1 DEF DeliveredHere, Oldest
<1>4. \A k \in 1 .. i - 1 : DurableRecords[k] \in DeliveredHere[d]
  <2> SUFFICES ASSUME NEW k \in 1 .. i - 1 PROVE DurableRecords[k] \in DeliveredHere[d]
    OBVIOUS
  <2>1. m - k + 1 \in j + 1 .. m /\ m - k + 1 \in 1 .. m /\ k \in 1 .. m
    BY <1>1
  <2>2. DurableRecords[k] = Last(m - k + 1)
    BY <2>1, RecordIsLast
  <2>3. Last(m - k + 1) \in acked[d] /\ Last(m - k + 1) \in Live(Durable)
    BY <2>1, RecordIsLast DEF Oldest
  <2> QED BY <1>1, <2>2, <2>3 DEF DeliveredHere
<1>5. DeliveredHere' = [DeliveredHere EXCEPT ![d] = @ \cup {DurableRecords[i]}]
  <2>1. Live(Durable)' = Live(Durable) /\ Last(j) \in Live(Durable)
    BY <1>1, RecordIsLast DEF SameQueue, Live, RecordAt
  <2>2. \A e \in TelemetryDestination :
            acked'[e] \cap Live(Durable)' =
                IF e = d THEN (acked[e] \cap Live(Durable)) \cup {Last(j)}
                ELSE acked[e] \cap Live(Durable)
    BY <1>1, <2>1
  <2> QED BY <1>1, <1>2, <2>2 DEF DeliveredHere
<1>6. DurableRecords' = DurableRecords
  BY DEF SameQueue, DurableRecords, RecordAt
<1>7. Abstract!Deliver(d, mask)
  <2> HIDE DEF i
  <2> QED BY <1>2, <1>3, <1>4, <1>5, <1>6 DEF Abstract!Deliver, DeliveredHere, SameQueue
<1> QED BY <1>7 DEF Refines, Abstract!Next

-----------------------------------------------------------------------------
(* Every action of the firmware. *)

LEMMA StartRefines == FewIssued /\ Inv /\ IInv' /\ UninterruptedStart => History' /\ Refines
<1> SUFFICES ASSUME FewIssued, Inv, IInv', UninterruptedStart PROVE History' /\ Refines
  OBVIOUS
<1>1. History' /\ SameQueue /\ acked' = acked
  BY StartKeepsHistory
<1>2. requiredMask' = requiredMask \/ requiredMask' = {}
  BY DEF UninterruptedStart, BeginLoads, BeginWithoutQueue, InitializeFile, RemoveDelivery,
         InitializeDeliveryState, PowerLoss
<1> QED BY <1>1, <1>2, InvisibleRefines, EndRefines

\* A step of a call that commits no header and acknowledges nothing.
LEMMA QuietStep ==
    ASSUME Inv, IInv', Ready, Ready', UNCHANGED <<header, delivery, issued, acked>>,
           pc' \in {"record", "commit"} => MayIssue,
           pc' \in {"trim", "erase"} => requiredMask' \in Masks
    PROVE  History' /\ SameQueue
<1>1. SameQueue
  BY NotCommitted DEF Inv
<1>2. StoredCursor' = StoredCursor
  BY StoredIsLoaded, StoredIsLoadedNext DEF Inv
<1>3. Progress'
  BY <1>1, <1>2, SameKeepProgress DEF Inv, History
<1>4. Calls'
  BY ReadyCalls DEF MayIssue
<1> QED BY <1>1, <1>3, <1>4 DEF History

\* A call that shortens the queue: Durable is the header before it and after it.
LEMMA ShorterKeepsHistory ==
    ASSUME Inv, IInv', Ready, Ready', NEW changed \in QueueHeader, HeaderWritten(changed),
           changed.nextSequence = header.nextSequence, changed.count <= header.count,
           UNCHANGED <<delivery, issued, acked>>, pc' # "commit",
           pc' = "record" => MayIssue, pc' \in {"trim", "erase"} => requiredMask' \in Masks
    PROVE  History'
<1>1. Durable = header /\ Durable'.count = changed.count /\ Durable'.nextSequence = changed.nextSequence
  BY Committed DEF Inv
<1>2. StoredCursor' = StoredCursor
  BY StoredIsLoaded, StoredIsLoadedNext DEF Inv
<1>3. Progress'
  BY <1>1, <1>2, FewerKeepProgress DEF Inv, History
<1>4. Calls'
  BY ReadyCalls DEF MayIssue
<1> QED BY <1>3, <1>4 DEF History

LEMMA HeaderChanges ==
    ASSUME NEW h \in QueueHeader
    PROVE  /\ HeadRemoved(h).count = h.count - 1 /\ HeadRemoved(h).nextSequence = h.nextSequence
           /\ HeadRemoved(h).droppedRecords = h.droppedRecords
           /\ HeadDropped(h).count = h.count - 1 /\ HeadDropped(h).nextSequence = h.nextSequence
           /\ HeadDropped(h).droppedRecords = h.droppedRecords + 1
           /\ RecordAdded(h).count = h.count + 1
           /\ RecordAdded(h).nextSequence = NextSequence(h.nextSequence)
           /\ RecordAdded(h).droppedRecords = h.droppedRecords
BY DEF QueueHeader, HeadRemoved, HeadDropped, RecordAdded

LEMMA DropRefines ==
    ASSUME Inv, IInv', EnqueueDropsOldest, HeaderWritten(HeadDropped(header)), pc' = "record"
    PROVE  History' /\ Refines
<1> USE DEF Ready, deliveryRam, historyVars
<1>1. header \in QueueHeader /\ header.count = Capacity /\ Capacity > 0 /\ Capacity \in Nat
      /\ UNCHANGED <<delivery, requiredMask, issued, acked>> /\ pc = "idle" /\ MayIssue
  BY QueueAssumption DEF Inv, IInv, TypeOK, EnqueueDropsOldest
<1>2. HeadDropped(header) \in QueueHeader
  BY <1>1, ChangedHeaderType
<1>3. /\ Durable = header /\ Durable'.count = Durable.count - 1
      /\ Durable'.nextSequence = Durable.nextSequence
      /\ Durable'.droppedRecords = Durable.droppedRecords + 1
  BY <1>1, <1>2, HeaderChanges, Committed DEF Inv
<1>4. History'
  <2>1. HeadDropped(header).nextSequence = header.nextSequence
        /\ HeadDropped(header).count <= header.count
    BY <1>1, HeaderChanges
  <2> QED BY <1>1, <1>2, <2>1, ShorterKeepsHistory
<1>5. Abstract!RemoveHead /\ Len(DurableRecords) = Capacity
  BY <1>1, <1>3, HeadGone DEF Inv
<1>6. Abstract!DropOldest
  BY <1>1, <1>3, <1>5 DEF Abstract!DropOldest, Abstract!Drop
<1> QED BY <1>4, <1>6 DEF Refines, Abstract!Next

LEMMA CommitRefines ==
    ASSUME FewIssued, Inv, IInv', CommitRecord, HeaderWritten(RecordAdded(header)),
           issued' = issued \cup {header.nextSequence}
    PROVE  History' /\ Refines
<1> USE DEF Ready, deliveryRam
<1>1. header \in QueueHeader /\ header.count < Capacity /\ MayIssue
      /\ UNCHANGED <<delivery, requiredMask, acked>> /\ pc = "commit" /\ pc' = "idle"
  BY DEF Inv, IInv, TypeOK, CommitRecord, RoomForRecord, History, Calls
<1>2. RecordAdded(header) \in QueueHeader
  BY <1>1, ChangedHeaderType
<1>3. /\ Durable = header /\ Durable'.count = Durable.count + 1
      /\ Durable'.nextSequence = NextSequence(Durable.nextSequence)
      /\ Durable'.droppedRecords = Durable.droppedRecords
  BY <1>1, <1>2, HeaderChanges, Committed DEF Inv
<1>4. StoredCursor' = StoredCursor
  BY <1>1, StoredIsLoaded, StoredIsLoadedNext DEF Inv
<1>5. Progress' /\ \A d \in TelemetryDestination : Durable.nextSequence \notin acked[d]
  BY <1>1, <1>3, <1>4, AddKeepsProgress DEF Inv, History
<1>6. Calls'
  BY <1>1, ReadyCalls
<1>7. Refines
  BY <1>1, <1>3, <1>5, AddedRefines DEF Inv
<1> QED BY <1>5, <1>6, <1>7 DEF History

LEMMA EnqueueRefines == FewIssued /\ Inv /\ IInv' /\ Enqueue => History' /\ Refines
<1> SUFFICES ASSUME FewIssued, Inv, IInv', Enqueue PROVE History' /\ Refines
  OBVIOUS
<1> USE DEF Ready, queueRam, deliveryRam, historyVars
<1>1. CASE EnqueueDropsOldest /\ HeaderWritten(HeadDropped(header)) /\ pc' = "record"
  BY <1>1, DropRefines
<1>2. CASE EnqueueDropsOldest /\ HeaderFails /\ pc' = "idle"
  BY <1>2, QuietStep, InvisibleRefines DEF EnqueueDropsOldest, HeaderFails
<1>3. CASE WriteNewRecord
  <2>1. pc \in {"idle", "record"} /\ pc' \in {"idle", "commit"} /\ MayIssue
        /\ UNCHANGED <<header, delivery, requiredMask, issued, acked>>
    BY <1>3 DEF WriteNewRecord, Inv, History, Calls
  <2> QED BY <2>1, QuietStep, InvisibleRefines
<1>4. CASE CommitRecord /\ HeaderWritten(RecordAdded(header))
           /\ issued' = issued \cup {header.nextSequence}
  BY <1>4, CommitRefines
<1>5. CASE CommitRecord /\ HeaderFails /\ UNCHANGED issued
  BY <1>5, QuietStep, InvisibleRefines DEF CommitRecord, HeaderFails
<1> QED BY <1>1, <1>2, <1>3, <1>4, <1>5 DEF Enqueue, EnqueueDropsOldest, CommitRecord

LEMMA AcknowledgeRefines ==
    ASSUME FewIssued, Inv, IInv', NEW mask \in Masks, NEW d \in mask, AcknowledgeDelivery(d, mask)
    PROVE  History' /\ Refines
<1> USE DEF Ready, queueRam, deliveryRam
<1>1. d \in TelemetryDestination /\ pc = "idle" /\ Pending(d) # Blank
      /\ UNCHANGED <<header, issued, queueCopy>>
  BY QueueAssumption DEF AcknowledgeDelivery
<1>2. CASE DeliveryFails /\ UNCHANGED <<acked, requiredMask, pc>>
  BY <1>1, <1>2, QuietStep, InvisibleRefines DEF DeliveryFails
<1>3. CASE /\ DeliveryWritten([delivery EXCEPT !.cursor[d] = Pending(d)])
           /\ acked' = [acked EXCEPT ![d] = @ \cup {Pending(d)}]
           /\ requiredMask' = mask /\ pc' = "trim"
  <2>1. PICK n \in Nat : Assigned(n) /\ \A e \in TelemetryDestination : Stands(e, n)
    BY DEF Inv, History, Progress
  <2>2. PICK j \in 1 .. n : Oldest(d, j, n)
    BY <1>1, <2>1, PendingIsOldest DEF Inv
  <2>3. SameQueue
    BY <1>1, <1>3, NotCommitted DEF Inv
  <2>4. delivery \in DeliveryHeader /\ delivery.cursor \in [TelemetryDestination -> Word]
    BY DEF Inv, IInv, TypeOK, DeliveryHeader
  <2>5. delivery'.cursor = [delivery.cursor EXCEPT ![d] = Last(j)]
    BY <1>3, <2>2, <2>4 DEF DeliveryWritten, DeliveryHeader, Oldest
  <2>6. StoredCursor = delivery.cursor /\ StoredCursor' = delivery'.cursor
    BY <1>1, <1>3, StoredIsLoaded, StoredIsLoadedNext DEF Inv
  <2>7. acked' = [acked EXCEPT ![d] = @ \cup {Last(j)}]
    BY <1>3, <2>2 DEF Oldest
  <2>8. Progress'
    BY <1>1, <2>1, <2>2, <2>3, <2>4, <2>5, <2>6, <2>7, AcknowledgedKeepsProgress DEF Inv
  <2>9. Calls'
    BY <1>3, ReadyCalls
  <2>10. Refines
    BY <1>3, <2>1, <2>2, <2>3, <2>7, AcknowledgedRefines DEF Inv
  <2> QED BY <2>8, <2>9, <2>10 DEF History
<1> QED BY <1>2, <1>3 DEF AcknowledgeDelivery

LEMMA DeliverRefines == FewIssued /\ Inv /\ IInv' /\ Deliver => History' /\ Refines
<1> SUFFICES ASSUME FewIssued, Inv, IInv', Deliver PROVE History' /\ Refines
  OBVIOUS
<1>1. ASSUME NEW mask \in Masks, ReconcileDeliveries(mask) PROVE History' /\ Refines
  <2>1. History' /\ SameQueue
    BY <1>1, QuietStep DEF ReconcileDeliveries, queueRam, deliveryRam, historyVars, Ready
  <2> QED BY <1>1, <2>1, ReconcileRefines DEF ReconcileDeliveries, historyVars
<1> QED BY <1>1, AcknowledgeRefines DEF Deliver

\* sequenceDeliveredToRequired: the head is in the prefix of every required destination.
LEMMA HeadIsDelivered ==
    ASSUME FewIssued, Inv, TrimPops, NEW d \in requiredMask
    PROVE  RecordAt(Durable, 0) \in DeliveredHere[d]
<1> DEFINE m == Durable.count
<1>1. /\ pc = "trim" /\ header.count > 0 /\ slot[header.head] # Blank
      /\ SequenceDeliveredToRequired(slot[header.head]) /\ Ready
      /\ d \in TelemetryDestination
  BY QueueAssumption DEF TrimPops, Ready, Inv, IInv, TypeOK
<1>2. /\ m > 0 /\ slot[header.head] = Last(m) /\ StoredCursor = delivery.cursor
      /\ m \in Nat
  BY <1>1, SlotOfHead, StoredIsLoaded, DurableType, QueueAssumption DEF Inv, QueueHeader
<1>3. StoredCursor[d] # 0 /\ ~TelemetrySequenceAfter(Last(m), StoredCursor[d])
  BY <1>1, <1>2 DEF SequenceDeliveredToRequired, TelemetrySequenceDelivered
<1>4. PICK n \in Nat : Assigned(n) /\ Stands(d, n)
  BY <1>1 DEF Inv, History, Progress
<1>5. PICK k \in 1 .. n : StandsAt(d, k, n)
  BY <1>3, <1>4 DEF Stands
<1>6. k <= m
  <2>1. m \in 1 .. MaxIssued + 1 /\ k \in 1 .. MaxIssued + 1
    BY <1>2, <1>4, QueueAssumption DEF Assigned
  <2> QED BY <1>3, <1>5, <2>1, AfterIsNewer DEF StandsAt, Inv
<1>7. Last(m) \in acked[d] /\ Last(m) \in Live(Durable)
  BY <1>2, <1>5, <1>6, RecordIsLast DEF StandsAt, Inv
<1>8. RecordAt(Durable, 0) = Last(m)
  <2>1. 0 - m = -m
    BY <1>2
  <2> QED BY <2>1 DEF RecordAt, Last
<1> QED BY <1>1, <1>7, <1>8 DEF DeliveredHere

LEMMA TrimRefines ==
    FewIssued /\ Inv /\ IInv' /\ (TrimPops \/ TrimStops \/ ClearRecord) => History' /\ Refines
<1> SUFFICES ASSUME FewIssued, Inv, IInv', TrimPops \/ TrimStops \/ ClearRecord
             PROVE  History' /\ Refines
  OBVIOUS
<1> USE DEF Ready, fileVars, queueRam, deliveryRam, historyVars
<1>1. CASE TrimStops
  BY <1>1, QuietStep, EndRefines DEF TrimStops
<1>2. CASE ClearRecord
  <2>1. pc' = "trim" => requiredMask' \in Masks
    BY <1>2 DEF ClearRecord, Inv, History, Calls
  <2>2. pc' \in {"trim", "idle"} /\ pc \in {"erase", "eraseDiscarded"}
        /\ UNCHANGED <<header, delivery, requiredMask, issued, acked>>
    BY <1>2 DEF ClearRecord
  <2> QED BY <2>1, <2>2, QuietStep, InvisibleRefines
<1>3. CASE TrimPops /\ HeaderFails /\ pc' = "idle" /\ requiredMask' = {}
  BY <1>3, QuietStep, EndRefines DEF TrimPops, HeaderFails
<1>4. CASE TrimPops /\ HeaderWritten(HeadRemoved(header)) /\ pc' = "erase" /\ UNCHANGED requiredMask
  <2>1. header \in QueueHeader /\ header.count > 0 /\ header.count \in Nat
        /\ requiredMask \in Masks /\ pc = "trim" /\ UNCHANGED <<delivery, issued, acked>>
    BY <1>4, QueueAssumption DEF TrimPops, Inv, IInv, TypeOK, History, Calls, QueueHeader
  <2>2. HeadRemoved(header) \in QueueHeader
    BY <2>1, ChangedHeaderType
  <2>3. /\ Durable = header /\ Durable'.count = Durable.count - 1
        /\ Durable'.nextSequence = Durable.nextSequence
        /\ Durable'.droppedRecords = Durable.droppedRecords
    BY <1>4, <2>1, <2>2, HeaderChanges, Committed DEF Inv
  <2>4. History'
    <3>1. HeadRemoved(header).nextSequence = header.nextSequence
          /\ HeadRemoved(header).count <= header.count
      BY <2>1, HeaderChanges
    <3> QED BY <1>4, <2>1, <2>2, <3>1, ShorterKeepsHistory
  <2>5. Abstract!RemoveHead /\ Head(DurableRecords) = RecordAt(Durable, 0)
    BY <2>1, <2>3, HeadGone DEF Inv
  <2>6. \A d \in requiredMask : Head(DurableRecords) \in DeliveredHere[d]
    BY <1>4, <2>5, HeadIsDelivered
  <2>7. requiredMask # {}
    BY <2>1, QueueAssumption
  <2>8. Abstract!Trim
    BY <1>4, <2>3, <2>5, <2>6, <2>7 DEF Abstract!Trim, DeliveredHere
  <2> QED BY <2>4, <2>8 DEF Refines, Abstract!Next
<1> QED BY <1>1, <1>2, <1>3, <1>4 DEF TrimPops

LEMMA ClearRefines ==
    FewIssued /\ Inv /\ IInv' /\ (Clear \/ RewriteNewest) => History' /\ Refines
<1> SUFFICES ASSUME FewIssued, Inv, IInv', Clear \/ RewriteNewest PROVE History' /\ Refines
  OBVIOUS
<1> USE DEF Ready, queueRam, deliveryRam, historyVars
<1>1. CASE RewriteNewest
  BY <1>1, QuietStep, InvisibleRefines DEF RewriteNewest
<1>2. CASE Clear /\ HeaderFails
  BY <1>2, QuietStep, InvisibleRefines DEF Clear, HeaderFails
<1> DEFINE empty == [header EXCEPT !.head = Ahead(header.head, header.count), !.count = 0]
<1>3. CASE Clear /\ HeaderWritten(empty)
  <2>1. header \in QueueHeader /\ header.count \in Nat /\ pc = "idle" /\ pc' = "idle"
        /\ UNCHANGED <<delivery, requiredMask, issued, acked>>
    BY <1>3, QueueAssumption DEF Clear, Inv, IInv, TypeOK, QueueHeader
  <2>2. empty \in QueueHeader /\ empty.count = 0 /\ empty.nextSequence = header.nextSequence
        /\ empty.droppedRecords = header.droppedRecords
    BY <2>1, ChangedHeaderType DEF QueueHeader
  <2> HIDE DEF empty
  <2>3. /\ Durable = header /\ Durable'.count = 0
        /\ Durable'.nextSequence = Durable.nextSequence
        /\ Durable'.droppedRecords = Durable.droppedRecords
    BY <1>3, <2>1, <2>2, Committed DEF Inv
  <2>4. History'
    BY <1>3, <2>1, <2>2, ShorterKeepsHistory
  <2> QED BY <2>1, <2>3, <2>4, ClearedRefines
<1> QED BY <1>1, <1>2, <1>3 DEF Clear

-----------------------------------------------------------------------------
LEMMA AgedHistory == Unpowered /\ AgedFileSystem => IInv /\ History /\ Durable.count = 0
<1> SUFFICES ASSUME Unpowered, AgedFileSystem PROVE IInv /\ History /\ Durable.count = 0
  OBVIOUS
<1>1. IInv /\ pc = "off"
  BY InitEstablishes DEF Init, Unpowered
<1>2. PICK users \in Masks :
          /\ AgedCursors(users)
          /\ acked = [d \in TelemetryDestination |-> IF d \in users THEN {AgedSequence} ELSE {}]
  BY DEF AgedFileSystem
<1>3. \A i \in {0, 1} : /\ queueCopy[i].count = 0
                        /\ queueCopy[i].nextSequence = NextSequence(AgedSequence)
  BY DEF AgedFileSystem, AgedHeader
<1>4. Readable(queueCopy)
  <2>1. queueCopy[0] = [AgedHeader EXCEPT !.generation = 0]
    BY DEF AgedFileSystem
  <2>2. [AgedHeader EXCEPT !.generation = 0] \in QueueHeader
    <3>1. 0 \in Generation!Word /\ Capacity - 1 \in Index /\ 0 \in 0 .. Capacity
      BY GenerationType, QueueAssumption DEF Index
    <3>2. NextSequence(AgedSequence) \in Sequence
      BY NextSequenceType, QueueAssumption
    <3> QED BY <3>1, <3>2 DEF AgedHeader, QueueHeader
  <2> QED BY <2>1, <2>2, QueueAssumption DEF Readable
<1>5. Durable.count = 0 /\ Durable.nextSequence = NextSequence(AgedSequence)
  <2>1. NewestCopy(queueCopy) \in {0, 1}
    BY DEF NewestCopy
  <2> QED BY <1>3, <1>4, <2>1 DEF Durable
<1>6. Last(1) = AgedSequence
  <2>1. Nth(NextSequence(AgedSequence), 0 - 1) = Nth(AgedSequence, 0)
    BY QueueAssumption, HalfRangeAssumption, NthShift
  <2> QED BY <1>5, <2>1, NthZero, QueueAssumption DEF Last
<1>7. Assigned(1)
  <2>1. issued = {AgedSequence} /\ {Last(j) : j \in 1 .. 1} = {Last(1)}
    BY DEF AgedFileSystem
  <2>2. IsFiniteSet(issued) /\ Cardinality(issued) = 1
    BY <2>1, FS_Singleton
  <2> QED BY <1>5, <1>6, <2>1, <2>2, QueueAssumption DEF Assigned
<1>8. \A d \in TelemetryDestination : StoredCursor[d] = IF d \in users THEN AgedSequence ELSE 0
  <2>1. NewestCopy(deliveryCopy) \in {0, 1}
    BY DEF NewestCopy
  <2>2. \A i \in {0, 1}, d \in TelemetryDestination :
            deliveryCopy[i].cursor[d] = IF d \in users THEN AgedSequence ELSE 0
    BY <1>2 DEF AgedCursors
  <2>3. Readable(deliveryCopy) /\ ~BeingCreated
    BY <1>1, <1>2, <1>4, AgedCursorsType DEF BeingCreated
  <2> QED BY <2>1, <2>2, <2>3 DEF StoredCursor
<1>9. \A d \in TelemetryDestination : Stands(d, 1)
  <2> SUFFICES ASSUME NEW d \in TelemetryDestination PROVE Stands(d, 1)
    OBVIOUS
  <2>1. CASE d \in users
    <3>1. StandsAt(d, 1, 1)
      BY <1>2, <1>5, <1>6, <1>8, <2>1 DEF StandsAt
    <3> QED BY <3>1 DEF Stands
  <2>2. CASE d \notin users
    BY <1>2, <1>8, <2>2 DEF Stands
  <2> QED BY <2>1, <2>2
<1>10. Calls
  BY <1>1, <1>4 DEF Calls
<1> QED BY <1>1, <1>5, <1>7, <1>9, <1>10 DEF History, Progress

\* Without a queue file, whether there are old cursors or not.
LEMMA NewHistory ==
    Unpowered /\ (BlankFileSystem \/ LostQueueFile) => IInv /\ History /\ Durable.count = 0
<1> SUFFICES ASSUME Unpowered, BlankFileSystem \/ LostQueueFile
             PROVE  IInv /\ History /\ Durable.count = 0
  OBVIOUS
<1>1. IInv /\ pc = "off"
  BY InitEstablishes DEF Init, Unpowered
<1>2. ~Readable(queueCopy) /\ issued = {} /\ acked = NoDeliveries
  BY DEF BlankFileSystem, LostQueueFile, Readable, BothTorn
<1>3. Durable.count = 0 /\ StoredCursor = NoCursors
  BY <1>2 DEF Durable, FirstQueueHeader, StoredCursor, BeingCreated
<1>4. Assigned(0)
  BY <1>2, <1>3, FS_EmptySet, QueueAssumption DEF Assigned
<1>5. \A d \in TelemetryDestination : Stands(d, 0)
  BY <1>2, <1>3 DEF Stands, NoCursors, NoDeliveries
<1>6. Calls
  BY <1>1, <1>2 DEF Calls
<1> QED BY <1>1, <1>3, <1>4, <1>5, <1>6 DEF History, Progress

LEMMA InitRefines == Init => Inv /\ Abstract!Init
<1> SUFFICES ASSUME Init PROVE Inv /\ Abstract!Init
  OBVIOUS
<1>1. Inv /\ Durable.count = 0
  BY InitHasContents, AgedHistory, NewHistory DEF Init, Inv
<1>2. DurableRecords = <<>> /\ Live(Durable) = {}
  BY <1>1 DEF DurableRecords, Live
<1>3. [d \in TelemetryDestination |-> acked[d] \cap Live(Durable)]
          = [d \in TelemetryDestination |-> {}]
  <2>1. \A d \in TelemetryDestination : acked[d] \cap {} = {}
    OBVIOUS
  <2> QED BY <1>2, <2>1, Zenon
<1>4. Durable.nextSequence \in Sequence /\ Abstract!Sequence = Sequence
  BY <1>1, DurableType DEF Inv, QueueHeader, Abstract!Sequence, Sequence, Abstract!Modulus, Modulus
<1>5. Durable.droppedRecords = 0
  <2>1. CASE BlankFileSystem \/ LostQueueFile
    BY <2>1 DEF BlankFileSystem, LostQueueFile, Durable, Readable, BothTorn, FirstQueueHeader
  <2>2. CASE AgedFileSystem
    <3>1. \A i \in {0, 1} : queueCopy[i].droppedRecords = 0
      BY <2>2 DEF AgedFileSystem, AgedHeader
    <3> QED BY <3>1 DEF Durable, NewestCopy, FirstQueueHeader
  <2> QED BY <2>1, <2>2 DEF Init
<1>6. requiredMask = {}
  BY DEF Init, Unpowered
<1> QED BY <1>1, <1>2, <1>3, <1>4, <1>5, <1>6, SameDestinations DEF Abstract!Init

LEMMA StepRefines == FewIssued /\ Inv /\ [UninterruptedNext]_vars =>
                        Inv' /\ [Abstract!Next]_(Abstract!vars)
<1> SUFFICES ASSUME FewIssued, Inv, [UninterruptedNext]_vars PROVE Inv' /\ Refines
  BY DEF Refines
<1>1. IInv' /\ Contents'
  BY UninterruptedSteps, StepPreserves, StepKeepsContents DEF Inv, ApiNext
<1>2. CASE UNCHANGED vars
  <2>1. Durable' = Durable /\ StoredCursor' = StoredCursor /\ UNCHANGED <<issued, acked>>
    BY <1>2 DEF vars, Durable, StoredCursor, BeingCreated, Readable, NewestCopy
  <2>2. SameQueue /\ acked' = acked /\ requiredMask' = requiredMask
    BY <1>2, <2>1 DEF vars, SameQueue
  <2>3. Progress'
    BY <1>1, <2>1, <2>2, SameKeepProgress DEF Inv, History
  <2>4. Calls'
    BY <1>2 DEF vars, Inv, History, Calls, MayIssue, Readable
  <2> QED BY <1>1, <2>2, <2>3, <2>4, InvisibleRefines DEF Inv, History
<1>3. CASE UninterruptedNext
  <2>1. History' /\ Refines
    BY <1>1, <1>3, StartRefines, EnqueueRefines, DeliverRefines, TrimRefines, ClearRefines
       DEF UninterruptedNext, Operate
  <2> QED BY <1>1, <2>1 DEF Inv
<1> QED BY <1>2, <1>3

(***************************************************************************)
(* OfflineQueue.cpp implements the atomic queue (113-604): for every       *)
(* capacity, word size and set of modes, each flash write, failed or torn  *)
(* write and power loss is one step of DurableQueue or none, as long as a  *)
(* queue file sees fewer than half the range of sequences and no new file  *)
(* comes to lie beside the cursors of an older one.                        *)
(***************************************************************************)
THEOREM QueueIsDurable == FewIssued => (UninterruptedSpec => ImplementsDurableQueue)
<1> SUFFICES ASSUME FewIssued PROVE UninterruptedSpec => ImplementsDurableQueue
  OBVIOUS
<1>1. Inv /\ [UninterruptedNext]_vars => Inv' /\ [Abstract!Next]_(Abstract!vars)
  BY StepRefines
<1> QED BY <1>1, InitRefines, PTL
   DEF UninterruptedSpec, ImplementsDurableQueue, Abstract!Spec
=============================================================================
