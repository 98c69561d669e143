---------------------------- MODULE DurableQueue ----------------------------
(***************************************************************************)
(* What OfflineQueue promises its caller, with no file, header or cursor:  *)
(* a bounded queue of records, each with a sequence of its own, a set of   *)
(* deliveries per destination, and atomic operations.  A power loss is not *)
(* an action: it must not be visible.  The queue forgets a record only     *)
(* because it overflowed (and counts it), because every destination that   *)
(* is required has it, or because the operator cleared the queue.          *)
(***************************************************************************)
EXTENDS TelemetryDeliveryState, Sequences

CONSTANTS Capacity, Masks

ASSUME QueueAssumption ==
    /\ Capacity \in Nat /\ Capacity > 0 /\ Capacity < HalfRange
    /\ Masks \subseteq (SUBSET TelemetryDestination) \ {{}}

VARIABLES
    records,      \* the sequences of the queued records, oldest first
    delivered,    \* per destination, the queued sequences it acknowledged
    requiredMask, \* what the current delivery call requires; {} outside of one
    nextSequence, \* the sequence of the next record
    dropped       \* droppedRecords

vars == <<records, delivered, requiredMask, nextSequence, dropped>>

TypeOK ==
    /\ records \in Seq(Sequence) /\ Len(records) <= Capacity
    /\ delivered \in [TelemetryDestination -> SUBSET Sequence]
    /\ requiredMask \in Masks \cup {{}}
    /\ nextSequence \in Sequence
    /\ dropped \in Nat

Init ==
    /\ records = <<>>
    /\ delivered = [d \in TelemetryDestination |-> {}]
    /\ requiredMask = {}
    /\ nextSequence \in Sequence
    /\ dropped = 0

\* Mutant: the deliveries of a removed record are kept.
RemoveHeadOnly == records # <<>> /\ records' = Tail(records) /\ UNCHANGED delivered

RemoveHead ==
    /\ records # <<>>
    /\ records' = Tail(records)
    /\ delivered' = [d \in TelemetryDestination |-> delivered[d] \ {Head(records)}]

\* Mutants: a full queue takes one more record; the sequence is assigned twice.
EnqueueWhenFull ==
    /\ records' = Append(records, nextSequence)
    /\ nextSequence' = NextSequence(nextSequence)
    /\ UNCHANGED <<delivered, requiredMask, dropped>>

EnqueueKeepsSequence ==
    /\ Len(records) < Capacity
    /\ records' = Append(records, nextSequence)
    /\ UNCHANGED <<delivered, requiredMask, nextSequence, dropped>>

Enqueue ==
    /\ Len(records) < Capacity
    /\ records' = Append(records, nextSequence)
    /\ nextSequence' = NextSequence(nextSequence)
    /\ UNCHANGED <<delivered, requiredMask, dropped>>

Drop ==
    /\ RemoveHead
    /\ dropped' = dropped + 1
    /\ UNCHANGED <<requiredMask, nextSequence>>

Pop == RemoveHead /\ UNCHANGED <<requiredMask, nextSequence, dropped>>

DropOldest == Len(records) = Capacity /\ Drop

\* A destination acknowledges the oldest record it does not have.
Deliver(d, mask) ==
    /\ requiredMask' = mask
    /\ \E i \in DOMAIN records :
        /\ records[i] \notin delivered[d]
        /\ \A j \in 1 .. i - 1 : records[j] \in delivered[d]
        /\ delivered' = [delivered EXCEPT ![d] = @ \cup {records[i]}]
    /\ UNCHANGED <<records, nextSequence, dropped>>

Reconcile(mask) ==
    /\ requiredMask' = mask
    /\ UNCHANGED <<records, delivered, nextSequence, dropped>>

EndCall ==
    /\ requiredMask' = {}
    /\ UNCHANGED <<records, delivered, nextSequence, dropped>>

Trim ==
    /\ RemoveHead
    /\ requiredMask # {}
    /\ \A d \in requiredMask : Head(records) \in delivered[d]
    /\ UNCHANGED <<requiredMask, nextSequence, dropped>>

Clear ==
    /\ records' = <<>>
    /\ delivered' = [d \in TelemetryDestination |-> {}]
    /\ UNCHANGED <<requiredMask, nextSequence, dropped>>

Next ==
    \/ EndCall
    \/ \E mask \in Masks : Reconcile(mask) \/ \E d \in mask : Deliver(d, mask)
    \/ Enqueue
    \/ DropOldest
    \/ Trim
    \/ Clear

Spec == Init /\ [][Next]_vars

\* With discardCorruptHead, which may count and drop the head of any queue, and
\* pop, which removes it for the caller's own reasons.
ApiNext == Next \/ Drop \/ Pop
ApiSpec == Init /\ [][ApiNext]_vars

-----------------------------------------------------------------------------
(***************************************************************************)
(* The queued sequences are consecutive assignments, up to nextSequence,   *)
(* also over the skipped zero: what peekPendingDelivery computes a slot    *)
(* index from (OfflineQueue.cpp:432-439).                                  *)
(***************************************************************************)
Contiguous ==
    \A i \in 1 .. Len(records) :
        records[i] = Nth(nextSequence, i - 1 - Len(records))

(***************************************************************************)
(* What a destination has is a prefix of the queue: it never misses a      *)
(* record that lies before one it acknowledged, so one cursor per          *)
(* destination can represent it (OfflineQueue.cpp:408-448, 512-550).       *)
(***************************************************************************)
DeliveredInOrder ==
    \A d \in TelemetryDestination :
        /\ \A s \in delivered[d] : \E i \in 1 .. Len(records) : records[i] = s
        /\ \A i, j \in 1 .. Len(records) :
               i < j /\ records[j] \in delivered[d] => records[i] \in delivered[d]

(***************************************************************************)
(* One cursor represents the deliveries of a destination: from the newest  *)
(* sequence it has, telemetrySequenceAfter tells which records it lacks,   *)
(* and telemetryPendingOffset is the position of the oldest of them, also  *)
(* where the range crosses the skipped zero (TelemetryDeliveryState.h:     *)
(* 21-33, OfflineQueue.cpp:425-439).                                       *)
(***************************************************************************)
Newest(d, n) ==
    /\ n \in DOMAIN records /\ records[n] \in delivered[d]
    /\ \A j \in n + 1 .. Len(records) : records[j] \notin delivered[d]

CursorFindsPending ==
    \A d \in TelemetryDestination, n \in 1 .. Len(records) : Newest(d, n) =>
        /\ \A i \in 1 .. Len(records) :
               TelemetrySequenceAfter(records[i], records[n]) <=> records[i] \notin delivered[d]
        /\ TelemetryPendingOffset(records[1], records[n]) = n
=============================================================================
