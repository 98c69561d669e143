---------------------------- MODULE OfflineQueue ----------------------------
(***************************************************************************)
(* src/OfflineQueue.cpp: the store-and-forward queue on LittleFS, at the   *)
(* granularity of its flash writes.                                        *)
(*                                                                         *)
(* /measurements.bin holds two copies of the queue header and Capacity     *)
(* record slots, /delivery.bin two copies of the delivery cursors; every   *)
(* copy and record carries a checksum.  One loop task calls the queue, so  *)
(* an operation is a sequence of steps linked by pc, and one step performs *)
(* at most one write.  A write completes, or fails and leaves its target   *)
(* as it was or with a bad checksum.  Power can be lost between any two    *)
(* steps; a loss during a write is a failed or completed write followed by *)
(* a loss.  A file that is missing is a file whose copies are all Torn:    *)
(* begin() treats both alike.                                              *)
(*                                                                         *)
(* A record is its sequence; slot content that isRecordValid rejects is    *)
(* Blank.                                                                  *)
(***************************************************************************)
EXTENDS TelemetryDeliveryState, FiniteSets

CONSTANTS
    Capacity,            \* OFFLINE_QUEUE_CAPACITY
    GenerationHalfRange, \* 2^31, for the headers' generations
    Masks,               \* the required masks the firmware uses
    Torn,                \* a header copy whose checksum does not match
    AgedSequence,        \* the last sequence of a queue that was in use before
    MaxIssued            \* bound: sequences that one behaviour assigns

Generation == INSTANCE TelemetryDeliveryState WITH HalfRange <- GenerationHalfRange

Index == 0 .. Capacity - 1
Blank == 0

QueueHeader ==
    [generation : Generation!Word, head : Index, count : 0 .. Capacity,
     nextSequence : Sequence, droppedRecords : Nat]

DeliveryHeader ==
    [generation : Generation!Word, cursor : [TelemetryDestination -> Word]]

ASSUME QueueAssumption ==
    /\ Capacity \in Nat /\ Capacity > 0 /\ Capacity < HalfRange
    /\ GenerationHalfRange \in Nat /\ GenerationHalfRange >= 2
    /\ Masks \subseteq (SUBSET TelemetryDestination) \ {{}} /\ Masks # {}
    /\ Torn \notin QueueHeader /\ Torn \notin DeliveryHeader
    /\ AgedSequence \in Sequence
    /\ MaxIssued \in Nat

VARIABLES
    \* LittleFS
    queueCopy, slot, deliveryCopy,
    \* RAM
    header, activeHeaderIndex, delivery, activeDeliveryHeaderIndex, requiredMask,
    \* where the loop task is in the current call
    pc,
    \* what happened to the records of this queue file, for the properties
    issued, acked, spoiled

fileVars == <<queueCopy, slot, deliveryCopy>>
queueRam == <<header, activeHeaderIndex>>
deliveryRam == <<delivery, activeDeliveryHeaderIndex>>
historyVars == <<issued, acked, spoiled>>
vars == <<queueCopy, slot, deliveryCopy, header, activeHeaderIndex, delivery,
          activeDeliveryHeaderIndex, requiredMask, pc, issued, acked, spoiled>>

Ready == pc \in {"idle", "record", "commit", "trim", "erase", "eraseDiscarded"}
Location == {"off", "initFile", "removeDelivery", "initDelivery", "failed", "idle",
             "record", "commit", "trim", "erase", "eraseDiscarded"}

-----------------------------------------------------------------------------
(***************************************************************************)
(* Headers and cursors: which copy is current, what a new file holds.      *)
(***************************************************************************)
Ahead(h, n) == IF h + n >= Capacity THEN h + n - Capacity ELSE h + n

\* Mutant: the slot of the head itself.
BehindIsHead(h) == h
Behind(h) == IF h = 0 THEN Capacity - 1 ELSE h - 1

FirstQueueHeader(generation) ==
    [generation |-> generation, head |-> 0, count |-> 0, nextSequence |-> 1,
     droppedRecords |-> 0]

NoCursors == [d \in TelemetryDestination |-> 0]

FirstDeliveryHeader(generation) == [generation |-> generation, cursor |-> NoCursors]

BothTorn == [i \in {0, 1} |-> Torn]
Readable(copies) == copies[0] # Torn \/ copies[1] # Torn

\* Mutant: the older of two valid copies, as an inverted comparison would pick.
OlderCopy(copies) ==
    IF copies[0] # Torn /\ copies[1] # Torn
    THEN IF Generation!PositiveInt32(Generation!Minus(copies[1].generation, copies[0].generation))
         THEN 0 ELSE 1
    ELSE IF copies[1] # Torn THEN 1 ELSE 0

\* loadHeader and loadDeliveryState: the newer valid copy.
NewestCopy(copies) ==
    IF copies[0] # Torn /\ copies[1] # Torn
    THEN IF Generation!PositiveInt32(Generation!Minus(copies[1].generation, copies[0].generation))
         THEN 1 ELSE 0
    ELSE IF copies[1] # Torn THEN 1 ELSE 0

\* The header that a reboot would find, and the records of a header.
Durable == IF Readable(queueCopy) THEN queueCopy[NewestCopy(queueCopy)]
           ELSE FirstQueueHeader(0)
RecordAt(h, i) == Nth(h.nextSequence, i - h.count)
Live(h) == {RecordAt(h, i) : i \in 0 .. h.count - 1}

-----------------------------------------------------------------------------
(***************************************************************************)
(* saveHeader and saveDeliveryState: the copy that is not active receives  *)
(* the next generation, and RAM follows only a completed write.            *)
(***************************************************************************)
HeaderWritten(changed) ==
    LET written == [changed EXCEPT !.generation = Generation!Increment(header.generation)]
    IN  /\ queueCopy' = [queueCopy EXCEPT ![1 - activeHeaderIndex] = written]
        /\ header' = written
        /\ activeHeaderIndex' = 1 - activeHeaderIndex

\* Mutant: the write targets the active copy.
HeaderFailsInPlace ==
    /\ \E left \in {queueCopy[activeHeaderIndex], Torn} :
           queueCopy' = [queueCopy EXCEPT ![activeHeaderIndex] = left]
    /\ UNCHANGED queueRam

HeaderFails ==
    /\ \E left \in {queueCopy[1 - activeHeaderIndex], Torn} :
           queueCopy' = [queueCopy EXCEPT ![1 - activeHeaderIndex] = left]
    /\ UNCHANGED queueRam

\* Mutant: the generation is not advanced, so that a reboot picks the old copy.
DeliveryKeepsGeneration(changed) ==
    /\ deliveryCopy' = [deliveryCopy EXCEPT ![1 - activeDeliveryHeaderIndex] = changed]
    /\ delivery' = changed
    /\ activeDeliveryHeaderIndex' = 1 - activeDeliveryHeaderIndex

DeliveryWritten(changed) ==
    LET written == [changed EXCEPT !.generation = Generation!Increment(delivery.generation)]
    IN  /\ deliveryCopy' = [deliveryCopy EXCEPT ![1 - activeDeliveryHeaderIndex] = written]
        /\ delivery' = written
        /\ activeDeliveryHeaderIndex' = 1 - activeDeliveryHeaderIndex

DeliveryFails ==
    /\ \E left \in {deliveryCopy[1 - activeDeliveryHeaderIndex], Torn} :
           deliveryCopy' = [deliveryCopy EXCEPT ![1 - activeDeliveryHeaderIndex] = left]
    /\ UNCHANGED deliveryRam

\* writeRecord over one slot: the record, or what was there, or a bad checksum.
SlotWritten(i, sequence) == slot' = [slot EXCEPT ![i] = sequence]
SlotFails(i) == \E left \in {slot[i], Blank} : slot' = [slot EXCEPT ![i] = left]

-----------------------------------------------------------------------------
(***************************************************************************)
(* Initial states: a blank file system; a queue that was in use, whose     *)
(* records have all been delivered; or the cursors of such a queue beside  *)
(* a queue file that is lost.                                              *)
(***************************************************************************)
Unpowered ==
    /\ header = FirstQueueHeader(0) /\ activeHeaderIndex = 0
    /\ delivery = FirstDeliveryHeader(0) /\ activeDeliveryHeaderIndex = 0
    /\ requiredMask = {}
    /\ pc = "off"
    /\ spoiled = {}

NoDeliveries == [d \in TelemetryDestination |-> {}]

BlankFileSystem ==
    /\ queueCopy = BothTorn /\ slot = [i \in Index |-> Blank]
    /\ deliveryCopy = BothTorn
    /\ issued = {} /\ acked = NoDeliveries

AgedHeader ==
    [generation |-> 0, head |-> Capacity - 1, count |-> 0,
     nextSequence |-> NextSequence(AgedSequence), droppedRecords |-> 0]

\* The destinations `users` had acknowledged every record up to AgedSequence.
AgedCursors(users) ==
    deliveryCopy = [i \in {0, 1} |->
        [generation |-> i,
         cursor |-> [d \in TelemetryDestination |-> IF d \in users THEN AgedSequence ELSE 0]]]

AgedFileSystem ==
    /\ queueCopy = [i \in {0, 1} |-> [AgedHeader EXCEPT !.generation = i]]
    /\ slot = [i \in Index |-> Blank]
    /\ \E users \in Masks :
           /\ AgedCursors(users)
           /\ acked = [d \in TelemetryDestination |-> IF d \in users THEN {AgedSequence} ELSE {}]
    /\ issued = {AgedSequence}

\* The queue file is absent or does not load while the cursor file survives:
\* begin() creates a new queue beside the cursors of the old one.
LostQueueFile ==
    /\ queueCopy = BothTorn /\ slot = [i \in Index |-> Blank]
    /\ \E users \in Masks : AgedCursors(users)
    /\ issued = {} /\ acked = NoDeliveries

Init == Unpowered /\ (BlankFileSystem \/ AgedFileSystem \/ LostQueueFile)

-----------------------------------------------------------------------------
(***************************************************************************)
(* begin()                                                                 *)
(***************************************************************************)
LoadHeader ==
    /\ Readable(queueCopy)
    /\ activeHeaderIndex' = NewestCopy(queueCopy)
    /\ header' = queueCopy[NewestCopy(queueCopy)]

LoadDeliveryState ==
    /\ Readable(deliveryCopy)
    /\ activeDeliveryHeaderIndex' = NewestCopy(deliveryCopy)
    /\ delivery' = deliveryCopy[NewestCopy(deliveryCopy)]

BeginLoads ==
    /\ pc = "off"
    /\ LoadHeader
    /\ \/ LoadDeliveryState /\ pc' = "idle"
       \/ ~Readable(deliveryCopy) /\ pc' = "initDelivery" /\ UNCHANGED deliveryRam
    /\ UNCHANGED <<fileVars, requiredMask, historyVars>>

\* No queue file, or none that loads: it is removed.
BeginWithoutQueue ==
    /\ pc = "off"
    /\ ~Readable(queueCopy)
    /\ slot' = [i \in Index |-> Blank]
    /\ pc' = "initFile"
    /\ UNCHANGED <<queueCopy, deliveryCopy, queueRam, deliveryRam, requiredMask, historyVars>>

InitializeFile ==
    /\ pc = "initFile"
    /\ issued' = {} /\ acked' = NoDeliveries /\ spoiled' = {}
    /\ \/ /\ queueCopy' = [i \in {0, 1} |-> FirstQueueHeader(1 - i)]
          /\ header' = FirstQueueHeader(1) /\ activeHeaderIndex' = 0
          /\ pc' = "removeDelivery"
       \/ /\ \E first \in {Torn, FirstQueueHeader(1)} :
                 queueCopy' = [BothTorn EXCEPT ![0] = first]
          /\ pc' = "failed" /\ UNCHANGED queueRam
    /\ UNCHANGED <<slot, deliveryCopy, deliveryRam, requiredMask>>

\* Mutant: begin() loads whatever cursor file it finds beside the new queue.
KeepDelivery ==
    /\ pc = "removeDelivery"
    /\ \/ LoadDeliveryState /\ pc' = "idle"
       \/ ~Readable(deliveryCopy) /\ pc' = "initDelivery" /\ UNCHANGED deliveryRam
    /\ UNCHANGED <<fileVars, queueRam, requiredMask, historyVars>>

\* The result of remove is ignored; the next step truncates the file anyway.
RemoveDelivery ==
    /\ pc = "removeDelivery"
    /\ deliveryCopy' \in {BothTorn, deliveryCopy}
    /\ pc' = "initDelivery"
    /\ UNCHANGED <<queueCopy, slot, queueRam, deliveryRam, requiredMask, historyVars>>

InitializeDeliveryState ==
    /\ pc = "initDelivery"
    /\ \/ /\ deliveryCopy' = [i \in {0, 1} |-> FirstDeliveryHeader(1 - i)]
          /\ delivery' = FirstDeliveryHeader(1) /\ activeDeliveryHeaderIndex' = 0
          /\ pc' = "idle"
       \/ /\ \E first \in {Torn, FirstDeliveryHeader(1)} :
                 deliveryCopy' = [BothTorn EXCEPT ![0] = first]
          /\ pc' = "failed" /\ UNCHANGED deliveryRam
    /\ UNCHANGED <<queueCopy, slot, queueRam, requiredMask, historyVars>>

\* A power loss, a reset or a deep sleep: RAM is zeroed by the next start.
PowerLoss ==
    /\ pc # "off"
    /\ header' = FirstQueueHeader(0) /\ activeHeaderIndex' = 0
    /\ delivery' = FirstDeliveryHeader(0) /\ activeDeliveryHeaderIndex' = 0
    /\ requiredMask' = {}
    /\ pc' = "off"
    /\ UNCHANGED <<fileVars, historyVars>>

-----------------------------------------------------------------------------
(***************************************************************************)
(* enqueue(): drop the oldest record of a full queue, write the record     *)
(* into the tail slot, then commit it with the header.                     *)
(***************************************************************************)
\* Mutant: a head that does not wrap.
HeadUnwrapped(h) == [h EXCEPT !.head = h.head + 1, !.count = h.count - 1]
HeadRemoved(h) == [h EXCEPT !.head = Ahead(h.head, 1), !.count = h.count - 1]
HeadDropped(h) == [HeadRemoved(h) EXCEPT !.droppedRecords = h.droppedRecords + 1]
RecordAdded(h) == [h EXCEPT !.count = h.count + 1, !.nextSequence = NextSequence(h.nextSequence)]

MayIssue == Cardinality(issued \ {AgedSequence}) < MaxIssued

EnqueueDropsOldest ==
    /\ pc = "idle" /\ header.count = Capacity
    /\ MayIssue
    /\ \/ HeaderWritten(HeadDropped(header)) /\ pc' = "record"
       \/ HeaderFails /\ pc' = "idle"
    /\ UNCHANGED <<slot, deliveryCopy, deliveryRam, requiredMask, historyVars>>

WriteNewRecord ==
    /\ \/ pc = "record"
       \/ pc = "idle" /\ header.count < Capacity /\ MayIssue
    /\ LET tail == Ahead(header.head, header.count)
       IN  \/ SlotWritten(tail, header.nextSequence) /\ pc' = "commit"
           \/ SlotFails(tail) /\ pc' = "idle"
    /\ UNCHANGED <<queueCopy, deliveryCopy, queueRam, deliveryRam, requiredMask, historyVars>>

CommitRecord ==
    /\ pc = "commit"
    /\ \/ HeaderWritten(RecordAdded(header)) /\ issued' = issued \cup {header.nextSequence}
       \/ HeaderFails /\ UNCHANGED issued
    /\ pc' = "idle"
    /\ UNCHANGED <<slot, deliveryCopy, deliveryRam, requiredMask, acked, spoiled>>

-----------------------------------------------------------------------------
(***************************************************************************)
(* Delivery: acknowledgeDelivery, reconcileDeliveries and their trim loop. *)
(***************************************************************************)
\* peekPendingDelivery: the oldest record that d does not have; Blank if there
\* is none or it cannot be read.
Pending(d) ==
    LET oldest == slot[header.head]
        cursor == delivery.cursor[d]
        offset == TelemetryPendingOffset(oldest, cursor)
        candidate == slot[Ahead(header.head, offset)]
    IN  IF header.count = 0 \/ oldest = Blank THEN Blank
        ELSE IF TelemetrySequenceAfter(oldest, cursor) THEN oldest
        ELSE IF offset >= header.count \/ candidate = Blank THEN Blank
        ELSE IF TelemetrySequenceAfter(candidate, cursor) THEN candidate ELSE Blank

\* Mutant: both cursors move.
AcknowledgeAll(d, mask) ==
    /\ pc = "idle" /\ d \in mask /\ Pending(d) # Blank
    /\ \/ /\ DeliveryWritten([delivery EXCEPT !.cursor = [e \in TelemetryDestination |-> Pending(d)]])
          /\ acked' = [acked EXCEPT ![d] = @ \cup {Pending(d)}]
          /\ requiredMask' = mask
          /\ pc' = "trim"
       \/ DeliveryFails /\ UNCHANGED <<acked, requiredMask, pc>>
    /\ UNCHANGED <<queueCopy, slot, queueRam, issued, spoiled>>

\* Any other expectedSequence, mask or destination is refused without effect.
AcknowledgeDelivery(d, mask) ==
    /\ pc = "idle" /\ d \in mask /\ Pending(d) # Blank
    /\ \/ /\ DeliveryWritten([delivery EXCEPT !.cursor[d] = Pending(d)])
          /\ acked' = [acked EXCEPT ![d] = @ \cup {Pending(d)}]
          /\ requiredMask' = mask
          /\ pc' = "trim"
       \/ DeliveryFails /\ UNCHANGED <<acked, requiredMask, pc>>
    /\ UNCHANGED <<queueCopy, slot, queueRam, issued, spoiled>>

ReconcileDeliveries(mask) ==
    /\ pc = "idle"
    /\ requiredMask' = mask
    /\ pc' = "trim"
    /\ UNCHANGED <<fileVars, queueRam, deliveryRam, historyVars>>

\* Mutant: one destination is enough.
DeliveredToAny(sequence) ==
    \E d \in requiredMask : TelemetrySequenceDelivered(sequence, delivery.cursor[d])

SequenceDeliveredToRequired(sequence) ==
    \A d \in requiredMask : TelemetrySequenceDelivered(sequence, delivery.cursor[d])

\* One round of the loop: pop() commits the shorter queue, then clears the slot.
TrimPops ==
    /\ pc = "trim"
    /\ header.count > 0 /\ slot[header.head] # Blank
    /\ SequenceDeliveredToRequired(slot[header.head])
    /\ \/ HeaderWritten(HeadRemoved(header)) /\ pc' = "erase" /\ UNCHANGED requiredMask
       \/ HeaderFails /\ pc' = "idle" /\ requiredMask' = {}
    /\ UNCHANGED <<slot, deliveryCopy, deliveryRam, historyVars>>

\* The head is undelivered, unreadable or absent, or opening the file failed.
TrimStops ==
    /\ pc = "trim"
    /\ requiredMask' = {}
    /\ pc' = "idle"
    /\ UNCHANGED <<fileVars, queueRam, deliveryRam, historyVars>>

\* The result of clearRecord is ignored.
ClearRecord ==
    /\ pc \in {"erase", "eraseDiscarded"}
    /\ SlotFails(Behind(header.head))
    /\ pc' = IF pc = "erase" THEN "trim" ELSE "idle"
    /\ UNCHANGED <<queueCopy, deliveryCopy, queueRam, deliveryRam, requiredMask, historyVars>>

-----------------------------------------------------------------------------
(***************************************************************************)
(* clear(), pop(), discardCorruptHead() and the rewrites of the newest     *)
(* record.                                                                 *)
(***************************************************************************)
Clear ==
    /\ pc = "idle"
    /\ \/ HeaderWritten([header EXCEPT !.head = Ahead(header.head, header.count), !.count = 0])
       \/ HeaderFails
    /\ UNCHANGED <<slot, deliveryCopy, deliveryRam, requiredMask, pc, historyVars>>

\* pop() called by itself, with the sequence of the head.
Pop ==
    /\ pc = "idle" /\ header.count > 0 /\ slot[header.head] # Blank
    /\ \/ HeaderWritten(HeadRemoved(header)) /\ pc' = "eraseDiscarded"
       \/ HeaderFails /\ pc' = "idle"
    /\ UNCHANGED <<slot, deliveryCopy, deliveryRam, requiredMask, historyVars>>

DiscardCorruptHead ==
    /\ pc = "idle" /\ header.count > 0
    /\ \/ HeaderWritten(HeadDropped(header)) /\ pc' = "eraseDiscarded"
       \/ HeaderFails /\ pc' = "idle"
    /\ UNCHANGED <<slot, deliveryCopy, deliveryRam, requiredMask, historyVars>>

\* updateNewestTimestamp and replaceNewest: the record is rewritten in place,
\* with its own sequence.
RewriteNewest ==
    /\ pc = "idle" /\ header.count > 0
    /\ LET newest == Ahead(header.head, header.count - 1)
       IN  /\ slot[newest] # Blank
           /\ SlotFails(newest)
           /\ spoiled' = IF slot'[newest] = Blank THEN spoiled \cup {slot[newest]} ELSE spoiled
    /\ UNCHANGED <<queueCopy, deliveryCopy, queueRam, deliveryRam, requiredMask, pc, issued, acked>>

-----------------------------------------------------------------------------
Begin == BeginLoads \/ BeginWithoutQueue \/ InitializeFile \/ RemoveDelivery
            \/ InitializeDeliveryState

Enqueue == EnqueueDropsOldest \/ WriteNewRecord \/ CommitRecord

Deliver == \E mask \in Masks :
              ReconcileDeliveries(mask) \/ \E d \in mask : AcknowledgeDelivery(d, mask)

\* What the firmware does with a queue that is ready.
Operate == Enqueue \/ Deliver \/ TrimPops \/ TrimStops \/ ClearRecord \/ Clear \/ RewriteNewest

Next == Begin \/ PowerLoss \/ Operate

Spec == Init /\ [][Next]_vars

\* The whole class, with the operations that the firmware never calls.
ApiNext == Next \/ Pop \/ DiscardCorruptHead
ApiSpec == Init /\ [][ApiNext]_vars

(***************************************************************************)
(* begin() is cut off when the new queue file lies beside readable cursors *)
(* of an older one: by a power loss before they are removed or             *)
(* overwritten, or by a failed write of the second copy of the new header. *)
(* The other behaviours are those of UninterruptedSpec.                    *)
(***************************************************************************)
CreationInterrupted ==
    /\ Readable(deliveryCopy)
    /\ \/ pc \in {"removeDelivery", "initDelivery"} /\ pc' = "off"
       \/ pc = "initFile" /\ pc' = "failed" /\ Readable(queueCopy')

UninterruptedStart ==
    \/ BeginLoads \/ BeginWithoutQueue \/ RemoveDelivery \/ InitializeDeliveryState
    \/ InitializeFile /\ ~CreationInterrupted
    \/ PowerLoss /\ ~CreationInterrupted

UninterruptedNext == UninterruptedStart \/ Operate
UninterruptedSpec == Init /\ [][UninterruptedNext]_vars

UninterruptedApiNext == UninterruptedNext \/ Pop \/ DiscardCorruptHead
UninterruptedApiSpec == Init /\ [][UninterruptedApiNext]_vars

-----------------------------------------------------------------------------
(***************************************************************************)
(* Properties                                                              *)
(***************************************************************************)
QueueCopies == [{0, 1} -> QueueHeader \cup {Torn}]
DeliveryCopies == [{0, 1} -> DeliveryHeader \cup {Torn}]

\* The types of the files, of RAM and of the history variables.
TypeOK ==
    /\ queueCopy \in QueueCopies
    /\ slot \in [Index -> Word]
    /\ deliveryCopy \in DeliveryCopies
    /\ header \in QueueHeader /\ activeHeaderIndex \in {0, 1}
    /\ delivery \in DeliveryHeader /\ activeDeliveryHeaderIndex \in {0, 1}
    /\ requiredMask \in Masks \cup {{}}
    /\ pc \in Location
    /\ issued \subseteq Sequence
    /\ acked \in [TelemetryDestination -> SUBSET Sequence]
    /\ spoiled \subseteq Sequence

(***************************************************************************)
(* The two-copy protocol of saveHeader and saveDeliveryState               *)
(* (OfflineQueue.cpp:198-254): at every step of every operation, with one  *)
(* copy torn or not, a reboot would load exactly the header and the        *)
(* cursors that RAM holds, so a power loss undoes nothing that was         *)
(* committed and invents nothing that was not.                             *)
(***************************************************************************)
HeaderRecoverable ==
    Ready => /\ Readable(queueCopy)
             /\ NewestCopy(queueCopy) = activeHeaderIndex
             /\ queueCopy[activeHeaderIndex] = header

CursorsRecoverable ==
    Ready => /\ Readable(deliveryCopy)
             /\ NewestCopy(deliveryCopy) = activeDeliveryHeaderIndex
             /\ deliveryCopy[activeDeliveryHeaderIndex] = delivery

(***************************************************************************)
(* Every slot of the live range, in RAM or as a reboot would see it, holds *)
(* the record that its position promises: the sequences are contiguous up  *)
(* to nextSequence (what telemetryPendingOffset relies on,                 *)
(* OfflineQueue.cpp:432), and the only unreadable records are those whose  *)
(* in-place rewrite failed.                                                *)
(***************************************************************************)
LiveRangeIntact ==
    \A i \in 0 .. Durable.count - 1 :
        LET sequence == RecordAt(Durable, i)
            stored == slot[Ahead(Durable.head, i)]
        IN  /\ sequence \in issued
            /\ stored = sequence \/ (stored = Blank /\ sequence \in spoiled)

(***************************************************************************)
(* A cursor names a sequence of this queue file that its destination       *)
(* acknowledged: "A newly created queue must never inherit cursors from an *)
(* older queue file" (OfflineQueue.cpp:319-320).  It holds as long as no   *)
(* creation is interrupted (UninterruptedApiSpec); Spec violates it, since *)
(* the new file is there before the old cursors are removed (322), and the *)
(* next begin() loads both.                                                *)
(***************************************************************************)
NoInheritedCursor ==
    Ready => \A d \in TelemetryDestination :
                 delivery.cursor[d] = 0 \/ delivery.cursor[d] \in acked[d]

(***************************************************************************)
(* The queue implements DurableQueue: enqueue, drop-oldest, delivery and   *)
(* trim are atomic and in order for a caller that loses power at any step. *)
(***************************************************************************)
DurableRecords == [i \in 1 .. Durable.count |-> RecordAt(Durable, i - 1)]

Abstract == INSTANCE DurableQueue WITH
    records <- DurableRecords,
    delivered <- [d \in TelemetryDestination |-> acked[d] \cap Live(Durable)],
    nextSequence <- Durable.nextSequence,
    dropped <- Durable.droppedRecords

ImplementsDurableQueue == Abstract!Spec
=============================================================================
