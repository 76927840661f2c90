------------------------- MODULE OffsetCommitTracker -------------------------
(***************************************************************************)
(* The helper of the asynchronous Kafka input that decides which offset of *)
(* a partition may be committed                                            *)
(* (logprep/ng/connector/confluent_kafka/offset_commit_tracker.py).        *)
(*                                                                         *)
(* Events are acknowledged in any order.  For every registered partition   *)
(* the tracker keeps the next offset it expects and the set of             *)
(* acknowledged offsets it cannot commit yet because an earlier one is     *)
(* missing.  The operations are actions over the two variables; the        *)
(* module that composes the tracker with its consumer owns Next.           *)
(***************************************************************************)
EXTENDS Integers

CONSTANTS
    Partitions,     \* the partitions of the one topic the input reads
    EndOffset       \* a partition holds offsets below EndOffset (a bound)

ASSUME EndOffsetAssumption == EndOffset \in Nat

VARIABLES
    nextExpected,   \* partition -> next_expected_offset, or Unregistered
    committable     \* partition -> committable_offsets

trackerVars == <<nextExpected, committable>>

Offsets == 0 .. EndOffset - 1

\* An offset that is committed names the NEXT offset to read.
Positions == 0 .. EndOffset

Unregistered == -1

\* Mutant: the offset 0 is taken for "not registered".
IsRegisteredIfTruthy(p) == nextExpected[p] > 0

IsRegistered(p) == nextExpected[p] # Unregistered

TrackerTypeOK ==
    /\ nextExpected \in [Partitions -> Positions \cup {Unregistered}]
    /\ committable \in [Partitions -> SUBSET Offsets]

TrackerInit ==
    /\ nextExpected = [p \in Partitions |-> Unregistered]
    /\ committable = [p \in Partitions |-> {}]

(***************************************************************************)
(* Operators.                                                              *)
(***************************************************************************)

\* The end of the run of members of S that starts at first: the value the
\* while loop of advance_offsets stops at.
IsContiguousEnd(first, S, n) ==
    /\ n \in Positions
    /\ n >= first
    /\ n \notin S
    /\ \A x \in first .. n - 1 : x \in S

\* Mutant: the largest acknowledged offset is committed, over all gaps.
EndOverGaps(first, S) ==
    IF S = {} THEN first
              ELSE CHOOSE n \in Positions : n - 1 \in S /\ \A x \in S : x < n

ContiguousEnd(first, S) == CHOOSE n \in Positions : IsContiguousEnd(first, S, n)

\* items is a set of <<partition, offset>>: the metadata of the events.
OffsetsOf(p, items) == {o \in Offsets : <<p, o>> \in items}

\* Mutant: an acknowledgement of an offset already passed is kept.
FedWithPassed(p, items) ==
    IF IsRegistered(p) THEN committable[p] \cup OffsetsOf(p, items) ELSE {}

\* What the first loop of advance_offsets leaves in committable_offsets: an
\* offset already passed is skipped, one of an unknown partition ignored.
Fed(p, items) ==
    IF IsRegistered(p)
    THEN committable[p] \cup {o \in OffsetsOf(p, items) : o >= nextExpected[p]}
    ELSE {}

AdvancedTo(p, items) ==
    IF IsRegistered(p) THEN ContiguousEnd(nextExpected[p], Fed(p, items))
                       ELSE Unregistered

\* The TopicPartitions advance_offsets returns: only those that moved.
Advanced(items) ==
    {<<p, AdvancedTo(p, items)>> :
        p \in {q \in Partitions : AdvancedTo(q, items) > nextExpected[q]}}

(***************************************************************************)
(* Actions.                                                                *)
(***************************************************************************)

\* register_partition for every partition of the function starts: a new
\* _PartitionOffsets replaces whatever was tracked.
RegisterPartitions(starts) ==
    /\ nextExpected' = [p \in Partitions |->
            IF p \in DOMAIN starts THEN starts[p] ELSE nextExpected[p]]
    /\ committable' = [p \in Partitions |->
            IF p \in DOMAIN starts THEN {} ELSE committable[p]]

\* Mutant: a partition that was revoked stays registered.
UnregisterNothing(ps) == UNCHANGED trackerVars

\* unregister_partition for every partition of ps: pending offsets are lost.
UnregisterPartitions(ps) ==
    /\ nextExpected' = [p \in Partitions |->
            IF p \in ps THEN Unregistered ELSE nextExpected[p]]
    /\ committable' = [p \in Partitions |->
            IF p \in ps THEN {} ELSE committable[p]]

\* advance_offsets: feed the items, then advance every partition over the
\* offsets that have become contiguous and forget those.
AdvanceOffsets(items) ==
    /\ nextExpected' = [p \in Partitions |-> AdvancedTo(p, items)]
    /\ committable' = [p \in Partitions |->
            Fed(p, items) \ (nextExpected[p] .. AdvancedTo(p, items) - 1)]
==============================================================================
