--------------------------- MODULE KafkaInputProofs ---------------------------
(***************************************************************************)
(* Proofs about the asynchronous Kafka input: its types, that the tracker  *)
(* is exact, and that nothing is committed before it is acknowledged.      *)
(***************************************************************************)
EXTENDS KafkaInput, TLAPS, WellFoundedInduction, SequenceTheorems

(***************************************************************************)
(* The operator the tracker is built from.                                 *)
(***************************************************************************)

\* The loop of advance_offsets always finds an end: EndOffset at the latest,
\* where no acknowledged offset can be.
LEMMA ContiguousEndExists ==
    ASSUME NEW first \in Positions, NEW S \in SUBSET Offsets
    PROVE  \E n \in Positions : IsContiguousEnd(first, S, n)
<1> DEFINE T == {n \in Positions : n >= first /\ n \notin S}
<1>1. EndOffset \in T
    BY EndOffsetAssumption DEF Positions, Offsets
<1>2. T \subseteq Nat /\ T # {}
    BY <1>1, EndOffsetAssumption DEF Positions
<1>3. PICK n \in T : \A m \in T : ~ (<<m, n>> \in OpToRel(<, Nat))
    BY <1>2, NatLessThanWellFounded, WFMin, Zenon
<1>4. \A m \in T : ~ (m < n)
    BY <1>2, <1>3 DEF OpToRel
<1>5. \A x \in first .. n - 1 : x \in S
    BY <1>4, EndOffsetAssumption DEF Positions
<1> QED
    BY <1>5 DEF IsContiguousEnd

\* It is the only one, so whoever finds it finds the same.
LEMMA ContiguousEndUnique ==
    ASSUME NEW first \in Positions, NEW S, NEW m, NEW n,
           IsContiguousEnd(first, S, m), IsContiguousEnd(first, S, n)
    PROVE  m = n
    BY EndOffsetAssumption DEF IsContiguousEnd, Positions

LEMMA ContiguousEndSpec ==
    ASSUME NEW first \in Positions, NEW S \in SUBSET Offsets
    PROVE  /\ ContiguousEnd(first, S) \in Positions
           /\ IsContiguousEnd(first, S, ContiguousEnd(first, S))
    BY ContiguousEndExists, Zenon DEF ContiguousEnd

\* What advance_offsets does to one partition, registered or not.
LEMMA AdvanceSpec ==
    ASSUME TrackerTypeOK, NEW items, NEW p \in Partitions
    PROVE  /\ Fed(p, items) \in SUBSET Offsets
           /\ IsRegistered(p) =>
                /\ nextExpected[p] \in Positions
                /\ AdvancedTo(p, items) \in Positions
                /\ IsContiguousEnd(nextExpected[p], Fed(p, items), AdvancedTo(p, items))
           /\ ~ IsRegistered(p) =>
                /\ nextExpected[p] = Unregistered
                /\ AdvancedTo(p, items) = Unregistered
                /\ Fed(p, items) = {}
<1>1. Fed(p, items) \in SUBSET Offsets
    BY DEF Fed, OffsetsOf, TrackerTypeOK
<1>2. CASE IsRegistered(p)
    <2>1. nextExpected[p] \in Positions
        BY <1>2 DEF TrackerTypeOK, IsRegistered
    <2> QED
        BY <1>1, <1>2, <2>1, ContiguousEndSpec DEF AdvancedTo
<1>3. CASE ~ IsRegistered(p)
    BY <1>3 DEF AdvancedTo, Fed, IsRegistered
<1> QED
    BY <1>1, <1>2, <1>3

\* Removing one pending call keeps only calls that were pending.
LEMMA RemoveAtSpec ==
    ASSUME NEW S, NEW s \in Seq(S), NEW k \in 1 .. Len(s)
    PROVE  /\ RemoveAt(s, k) \in Seq(S)
           /\ \A i \in 1 .. Len(RemoveAt(s, k)) :
                \E j \in 1 .. Len(s) : RemoveAt(s, k)[i] = s[j]
<1> DEFINE left == SubSeq(s, 1, k - 1)
           right == SubSeq(s, k + 1, Len(s))
<1>1. Len(s) \in Nat /\ \A i \in 1 .. Len(s) : s[i] \in S
    BY LenProperties, ElementOfSeq
<1>2. /\ left \in Seq(S)
      /\ Len(left) = k - 1
      /\ \A i \in 1 .. k - 1 : left[i] = s[i]
    <2>1. \A i \in 1 .. k - 1 : s[i] \in S
        BY <1>1
    <2> QED
        BY <1>1, <2>1, SubSeqProperties
<1>3. /\ right \in Seq(S)
      /\ Len(right) = Len(s) - k
      /\ \A i \in 1 .. Len(s) - k : right[i] = s[k + i]
    <2>1. \A i \in k + 1 .. Len(s) : s[i] \in S
        BY <1>1
    <2>2. /\ right \in Seq(S)
          /\ Len(right) = IF k + 1 <= Len(s) THEN Len(s) - (k + 1) + 1 ELSE 0
          /\ \A i \in 1 .. Len(s) - (k + 1) + 1 : right[i] = s[(k + 1) + i - 1]
        BY <1>1, <2>1, SubSeqProperties
    <2> QED
        BY <1>1, <2>2
<1>4. RemoveAt(s, k) = left \o right
    BY DEF RemoveAt
<1> HIDE DEF left, right
<1>5. /\ left \o right \in Seq(S)
      /\ Len(left \o right) = Len(left) + Len(right)
      /\ \A i \in 1 .. Len(left) + Len(right) : (left \o right)[i] =
            IF i <= Len(left) THEN left[i] ELSE right[i - Len(left)]
    BY <1>2, <1>3, ConcatProperties
<1>6. ASSUME NEW i \in 1 .. Len(left \o right)
      PROVE  \E j \in 1 .. Len(s) : (left \o right)[i] = s[j]
    <2>1. CASE i <= k - 1
        BY <1>1, <1>2, <1>3, <1>5, <2>1
    <2>2. CASE i > k - 1
        <3>1. PICK m \in 1 .. Len(s) - k : m = i - Len(left)
            BY <1>1, <1>2, <1>3, <1>5, <2>2
        <3>2. (left \o right)[i] = right[m]
            BY <1>1, <1>2, <1>3, <1>5, <2>2, <3>1
        <3>3. right[m] = s[k + m] /\ k + m \in 1 .. Len(s)
            BY <1>1, <1>3
        <3> QED
            BY <3>2, <3>3
    <2> QED
        BY <1>1, <1>2, <1>3, <1>5, <2>1, <2>2
<1> QED
    BY <1>4, <1>5, <1>6

(***************************************************************************)
(* Type correctness.                                                       *)
(***************************************************************************)

LEMMA TypeInit == Init => TypeOK
<1> SUFFICES ASSUME Init PROVE TypeOK
    OBVIOUS
<1> USE EndOffsetAssumption, KafkaInputAssumption
<1>1. TrackerTypeOK
    BY DEF Init, TrackerInit, TrackerTypeOK
<1>2. \E ps \in SUBSET Partitions : assigning \in [ps -> Positions]
    <2>1. assigning \in [{} -> Positions]
        BY DEF Init, NoAssignment
    <2> QED
        BY <2>1
<1>3. messageIter \in Seq(Messages) /\ storing \in Seq(SUBSET (Partitions \X Positions))
    BY EmptySeq DEF Init
<1> QED
    BY <1>1, <1>2, <1>3 DEF Init, TypeOK, Messages, Positions, Offsets, NoOffset

LEMMA AdvanceType ==
    ASSUME TrackerTypeOK, NEW items, AdvanceOffsets(items)
    PROVE  /\ TrackerTypeOK'
           /\ Advanced(items) \in SUBSET (Partitions \X Positions)
<1>1. \A p \in Partitions :
        /\ AdvancedTo(p, items) \in Positions \cup {Unregistered}
        /\ Fed(p, items) \in SUBSET Offsets
        /\ AdvancedTo(p, items) > nextExpected[p] => AdvancedTo(p, items) \in Positions
    BY AdvanceSpec DEF Unregistered
<1>2. TrackerTypeOK'
    BY <1>1 DEF AdvanceOffsets, TrackerTypeOK
<1>3. Advanced(items) \in SUBSET (Partitions \X Positions)
    BY <1>1 DEF Advanced
<1> QED
    BY <1>2, <1>3

LEMMA UnassignType ==
    ASSUME TypeOK, NEW ps \in SUBSET Partitions, NEW commitFinal \in BOOLEAN,
           Unassign(ps, commitFinal)
    PROVE  /\ committed' \in [Partitions -> Positions \cup {NoOffset}]
           /\ stored' \in [Partitions -> Positions \cup {NoOffset}]
           /\ assigned' \subseteq Partitions
           /\ position' \in [Partitions -> Positions]
<1>1. \A p \in Partitions :
        /\ committed[p] \in Positions \cup {NoOffset}
        /\ stored[p] \in Positions \cup {NoOffset}
        /\ Larger(committed[p], stored[p]) \in Positions \cup {NoOffset}
    BY DEF TypeOK, Larger
<1>2. committed' \in [Partitions -> Positions \cup {NoOffset}]
    BY <1>1 DEF Unassign
<1>3. stored' \in [Partitions -> Positions \cup {NoOffset}]
    BY <1>1 DEF Unassign
<1> QED
    BY <1>2, <1>3 DEF Unassign, TypeOK

LEMMA TypeStep == TypeOK /\ [Next]_vars => TypeOK'
<1> SUFFICES ASSUME TypeOK, [Next]_vars PROVE TypeOK'
    OBVIOUS
<1> USE EndOffsetAssumption, KafkaInputAssumption DEF rebalanceVars, registrationVars
<1>0. /\ Positions \subseteq Int /\ Offsets \subseteq Positions
      /\ \A a, b \in Positions \cup {NoOffset} :
            Larger(a, b) \in {a, b}
    BY DEF Positions, Offsets, Larger, NoOffset
<1>1. ASSUME NEW ps \in SUBSET Partitions, AssignRead(ps)
      PROVE  TypeOK'
    <2>1. assigning' \in [ps -> Positions]
        BY <1>1 DEF AssignRead, RegisteredOffset, TypeOK, Positions
    <2>2. \E qs \in SUBSET Partitions : assigning' \in [qs -> Positions]
        BY <2>1
    <2> QED
        BY <1>1, <2>2 DEF AssignRead, TypeOK, TrackerTypeOK, trackerVars, brokerVars,
                          historyVars, boundVars
<1>2. CASE AssignRegister
    <2>1. PICK ps \in SUBSET Partitions : assigning \in [ps -> Positions]
        BY DEF TypeOK
    <2>2. DOMAIN assigning = ps /\ \A p \in ps : assigning[p] \in Positions
        BY <2>1
    <2>3. TrackerTypeOK'
        BY <1>2, <2>2 DEF AssignRegister, RegisterPartitions, TypeOK, TrackerTypeOK
    <2>4. /\ joining' \subseteq Partitions /\ unstored' \subseteq Partitions
          /\ discarded' \subseteq Messages
        BY <1>2, <2>2 DEF AssignRegister, TypeOK
    <2>5. base' \in [Partitions -> Positions] /\ acked' \in [Partitions -> SUBSET Offsets]
        BY <1>2, <2>2 DEF AssignRegister, TypeOK
    <2>6. \E qs \in SUBSET Partitions : assigning' \in [qs -> Positions]
        <3>1. assigning' \in [{} -> Positions]
            BY <1>2 DEF AssignRegister, NoAssignment
        <3> QED
            BY <3>1
    <2> QED
        BY <1>2, <2>3, <2>4, <2>5, <2>6 DEF AssignRegister, TypeOK, brokerVars, boundVars
<1>3. ASSUME NEW ps \in SUBSET Partitions, Revoke(ps)
      PROVE  TypeOK'
    <2>1. TrackerTypeOK'
        BY <1>3 DEF Revoke, UnregisterPartitions, TypeOK, TrackerTypeOK
    <2> QED
        BY <1>3, <2>1 DEF Revoke, TypeOK, brokerVars, historyVars
<1>4. ASSUME NEW p \in Partitions, Consume(p)
      PROVE  TypeOK'
    <2>1. PICK n \in 1 .. ConsumeNumMessage :
                /\ position[p] + n <= EndOffset
                /\ messageIter' = Fetched(p, n)
                /\ position' = [position EXCEPT ![p] = @ + n]
        BY <1>4 DEF Consume
    <2>2. position[p] \in Nat
        BY DEF TypeOK, Positions
    <2>3. messageIter' \in Seq(Messages)
        <3>1. \A i \in 1 .. n : <<p, position[p] + i - 1>> \in Messages
            BY <2>1, <2>2 DEF Messages, Offsets
        <3>2. [i \in 1 .. n |-> <<p, position[p] + i - 1>>] \in [1 .. n -> Messages]
            BY <3>1
        <3>3. n \in Nat /\ messageIter' \in [1 .. n -> Messages]
            BY <2>1, <3>2 DEF Fetched
        <3> QED
            BY <3>3
    <2>4. position' \in [Partitions -> Positions]
        BY <2>1, <2>2 DEF TypeOK, Positions
    <2> QED
        BY <1>4, <2>3, <2>4 DEF Consume, TypeOK, TrackerTypeOK, trackerVars, historyVars, boundVars
<1>5. ASSUME NEW p \in Partitions, AutoCommit(p)
      PROVE  TypeOK'
    BY <1>5 DEF AutoCommit, TypeOK, TrackerTypeOK, trackerVars, inputVars, historyVars, boundVars
<1>6. ASSUME NEW p \in Partitions, OtherMemberCommits(p)
      PROVE  TypeOK'
    <2>1. FetchStart(p) \in Offsets /\ FetchStart(p) + 1 \in Positions
        BY <1>6 DEF OtherMemberCommits, FetchStart, Larger, TypeOK, Positions, Offsets, NoOffset
    <2> QED
        BY <1>6, <2>1 DEF OtherMemberCommits, TypeOK, TrackerTypeOK, trackerVars, inputVars,
                          boundVars, Messages
<1>7. CASE NextMessage
    <2>1. Head(messageIter) \in Messages /\ Tail(messageIter) \in Seq(Messages)
        BY <1>7, HeadTailProperties DEF NextMessage, TypeOK
    <2>2. inFlight' \in [Messages -> Nat]
        BY <1>7, <2>1 DEF NextMessage, TypeOK
    <2> QED
        BY <1>7, <2>1, <2>2 DEF NextMessage, TypeOK, TrackerTypeOK, trackerVars, brokerVars,
                                historyVars, boundVars
<1>8. ASSUME NEW batch \in SUBSET Messages, Acknowledge(batch)
      PROVE  TypeOK'
    <2>1. TrackerTypeOK' /\ Advanced(batch) \in SUBSET (Partitions \X Positions)
        BY <1>8, AdvanceType DEF Acknowledge, TypeOK
    <2>2. storing' \in Seq(SUBSET (Partitions \X Positions))
        BY <1>8, <2>1 DEF Acknowledge, TypeOK
    <2>3. inFlight' \in [Messages -> Nat]
        BY <1>8 DEF Acknowledge, TypeOK
    <2>4. processed' \subseteq Messages /\ acked' \in [Partitions -> SUBSET Offsets]
        BY <1>8 DEF Acknowledge, TypeOK, OffsetsOf
    <2> QED
        BY <1>8, <2>1, <2>2, <2>3, <2>4 DEF Acknowledge, TypeOK, brokerVars, boundVars
<1>9. ASSUME NEW m \in Messages, Discard(m)
      PROVE  TypeOK'
    <2>1. inFlight' \in [Messages -> Nat]
        BY <1>9 DEF Discard, TypeOK
    <2>2. faults' \in 0 .. MaxFaults
        BY <1>9 DEF Discard, TypeOK
    <2> QED
        BY <1>9, <2>1, <2>2 DEF Discard, TypeOK, TrackerTypeOK, trackerVars, brokerVars,
                                inputVars, historyVars
<1>10. CASE StoreOffsets
    <2>1. PICK k \in 1 .. Len(storing) :
            /\ stored' = [p \in Partitions |->
                    IF p \in assigned /\ \E o \in Positions : <<p, o>> \in storing[k]
                    THEN CHOOSE o \in Positions : <<p, o>> \in storing[k]
                    ELSE stored[p]]
            /\ storing' = RemoveAt(storing, k)
            /\ unstored' = unstored \cup Refused(storing[k]) \cup Overwritten(storing[k])
            /\ UNCHANGED <<trackerVars, committed, assigned, position, rebalanceVars,
                           messageIter, inFlight, processed, base, acked, discarded,
                           boundVars>>
        BY <1>10 DEF StoreOffsets
    <2>2. storing' \in Seq(SUBSET (Partitions \X Positions))
        BY <2>1, RemoveAtSpec DEF TypeOK
    <2>3. stored' \in [Partitions -> Positions \cup {NoOffset}]
        BY <2>1 DEF TypeOK
    <2> QED
        BY <2>1, <2>2, <2>3 DEF TypeOK, TrackerTypeOK, trackerVars, boundVars, Refused,
                                Overwritten
<1>11. CASE StoreOffsetsFails
    <2>1. storing' \in Seq(SUBSET (Partitions \X Positions))
        BY <1>11, RemoveAtSpec DEF StoreOffsetsFails, TypeOK
    <2>2. faults' \in 0 .. MaxFaults
        BY <1>11 DEF StoreOffsetsFails, TypeOK
    <2> QED
        BY <1>11, <2>1, <2>2 DEF StoreOffsetsFails, TypeOK, TrackerTypeOK, trackerVars,
                                 brokerVars, historyVars
<1>12. CASE Restart
    <2>1. TrackerTypeOK'
        BY <1>12 DEF Restart, UnregisterPartitions, TypeOK, TrackerTypeOK
    <2>2. /\ committed' \in [Partitions -> Positions \cup {NoOffset}]
          /\ stored' \in [Partitions -> Positions \cup {NoOffset}]
          /\ assigned' \subseteq Partitions
          /\ position' \in [Partitions -> Positions]
        <3>1. assigned \in SUBSET Partitions
            BY DEF TypeOK
        <3> QED
            BY <1>12, <3>1, UnassignType DEF Restart
    <2>3. \E qs \in SUBSET Partitions : assigning' \in [qs -> Positions]
        <3>1. assigning' \in [{} -> Positions]
            BY <1>12 DEF Restart, NoAssignment
        <3> QED
            BY <3>1
    <2>4. messageIter' \in Seq(Messages) /\ storing' \in Seq(SUBSET (Partitions \X Positions))
        BY <1>12, EmptySeq DEF Restart
    <2> QED
        BY <1>12, <2>1, <2>2, <2>3, <2>4 DEF Restart, TypeOK, historyVars
<1>13. CASE LibraryAssigns
    <2>1. \A p \in Partitions : FetchStart(p) \in Positions
        BY <1>0 DEF FetchStart, Larger, TypeOK, Positions, NoOffset
    <2>2. position' \in [Partitions -> Positions] /\ assigned' \subseteq Partitions
        BY <1>13, <2>1 DEF LibraryAssigns, TypeOK
    <2> QED
        BY <1>13, <2>2 DEF LibraryAssigns, TypeOK, TrackerTypeOK, trackerVars, historyVars,
                           boundVars
<1>14. CASE LibraryUnassigns
    <2>1. /\ committed' \in [Partitions -> Positions \cup {NoOffset}]
          /\ stored' \in [Partitions -> Positions \cup {NoOffset}]
          /\ assigned' \subseteq Partitions
          /\ position' \in [Partitions -> Positions]
        <3>1. leaving \in SUBSET Partitions
            BY DEF TypeOK
        <3> QED
            BY <1>14, <3>1, UnassignType DEF LibraryUnassigns
    <2> QED
        BY <1>14, <2>1 DEF LibraryUnassigns, TypeOK, TrackerTypeOK, trackerVars, historyVars,
                           boundVars
<1>15. CASE UNCHANGED vars
    BY <1>15 DEF vars, TypeOK, TrackerTypeOK, trackerVars, brokerVars, inputVars, historyVars,
                 boundVars
<1> QED
    BY <1>1, <1>2, <1>3, <1>4, <1>5, <1>6, <1>7, <1>8, <1>9, <1>10, <1>11, <1>12, <1>13, <1>14,
       <1>15
    DEF Next

\* Every variable keeps its type in every reachable state of the input, for
\* any partitions, offsets, batch size and number of disruptions (input.py).
THEOREM TypeCorrect == Spec => []TypeOK
    BY TypeInit, TypeStep, PTL DEF Spec

(***************************************************************************)
(* At-least-once: nothing is committed that was not acknowledged.          *)
(*                                                                         *)
(* CommitSafe alone is not inductive: a commit takes its offset from what  *)
(* is stored, that from a pending call, that from the tracker, and the     *)
(* tracker starts where the committed offset was.  Every link of this      *)
(* chain has to be safe.                                                   *)
(***************************************************************************)
TrackerSafe ==
    \A p \in Partitions :
        /\ IsRegistered(p) => IsSafeToCommit(p, nextExpected[p])
        /\ \A o \in committable[p] : <<p, o>> \in processed

AssigningSafe == \A p \in DOMAIN assigning : IsSafeToCommit(p, assigning[p])

StoringSafe ==
    \A i \in 1 .. Len(storing) : \A p \in Partitions, o \in Positions :
        <<p, o>> \in storing[i] => IsSafeToCommit(p, o)

StoredSafe == \A p \in Partitions : IsSafeToCommit(p, stored[p])

CommitChain ==
    /\ CommitSafe
    /\ StoredSafe
    /\ StoringSafe
    /\ TrackerSafe
    /\ AssigningSafe

\* What is advanced over is acknowledged: the offsets before nextExpected
\* were, and the rest is in the set the loop runs through.
LEMMA AdvanceIsSafe ==
    ASSUME TypeOK, TrackerSafe, NEW batch \in SUBSET Messages,
           processed' = processed \cup batch, AdvanceOffsets(batch)
    PROVE  /\ TrackerSafe'
           /\ \A p \in Partitions, o \in Positions :
                <<p, o>> \in Advanced(batch) => IsSafeToCommit(p, o)'
<1> USE EndOffsetAssumption, KafkaInputAssumption
<1>1. TrackerTypeOK
    BY DEF TypeOK
<1>2. ASSUME NEW p \in Partitions, NEW o \in Fed(p, batch)
      PROVE  <<p, o>> \in processed'
    BY <1>2 DEF Fed, OffsetsOf, TrackerSafe
<1>3. ASSUME NEW p \in Partitions, IsRegistered(p), NEW o \in Offsets,
             LowWatermark[p] <= o, o < AdvancedTo(p, batch)
      PROVE  <<p, o>> \in processed'
    <2>1. /\ nextExpected[p] \in Positions
          /\ AdvancedTo(p, batch) \in Positions
          /\ IsContiguousEnd(nextExpected[p], Fed(p, batch), AdvancedTo(p, batch))
        BY <1>1, <1>3, AdvanceSpec
    <2>2. CASE o < nextExpected[p]
        BY <1>3, <2>2 DEF TrackerSafe, IsSafeToCommit
    <2>3. CASE o >= nextExpected[p]
        <3>1. o \in nextExpected[p] .. AdvancedTo(p, batch) - 1
            BY <1>3, <2>1, <2>3 DEF Positions, Offsets
        <3>2. o \in Fed(p, batch)
            BY <2>1, <3>1 DEF IsContiguousEnd
        <3> QED
            BY <1>2, <3>2
    <2> QED
        BY <2>1, <2>2, <2>3 DEF Positions, Offsets
<1>4. TrackerSafe'
    <2> SUFFICES ASSUME NEW p \in Partitions
                 PROVE  /\ IsRegistered(p)' => IsSafeToCommit(p, nextExpected[p])'
                        /\ \A o \in committable'[p] : <<p, o>> \in processed'
        BY DEF TrackerSafe
    <2>1. nextExpected'[p] = AdvancedTo(p, batch) /\ committable'[p] \subseteq Fed(p, batch)
        BY DEF AdvanceOffsets
    <2>2. IsRegistered(p)' => IsRegistered(p)
        BY <1>1, <2>1, AdvanceSpec DEF IsRegistered
    <2> QED
        BY <1>2, <1>3, <2>1, <2>2 DEF IsSafeToCommit
<1>5. ASSUME NEW p \in Partitions, NEW o \in Positions, <<p, o>> \in Advanced(batch)
      PROVE  IsSafeToCommit(p, o)'
    <2>1. o = AdvancedTo(p, batch) /\ o > nextExpected[p]
        BY <1>5 DEF Advanced
    <2>2. IsRegistered(p)
        BY <1>1, <2>1, AdvanceSpec DEF Unregistered
    <2> QED
        BY <1>3, <2>1, <2>2 DEF IsSafeToCommit
<1> QED
    BY <1>4, <1>5

LEMMA CommitChainInit == Init => CommitChain
<1> SUFFICES ASSUME Init PROVE CommitChain
    OBVIOUS
<1>1. \A p \in Partitions : IsSafeToCommit(p, NoOffset)
    BY EndOffsetAssumption DEF IsSafeToCommit, NoOffset, Offsets
<1>2. CommitSafe /\ StoredSafe
    BY <1>1 DEF Init, CommitSafe, StoredSafe
<1>3. TrackerSafe
    BY DEF Init, TrackerInit, TrackerSafe, IsRegistered
<1>4. AssigningSafe /\ StoringSafe
    BY EndOffsetAssumption DEF Init, AssigningSafe, NoAssignment, StoringSafe
<1> QED
    BY <1>2, <1>3, <1>4 DEF CommitChain

\* Steps after which every offset is as safe as it was before.
LEMMA UnassignIsSafe ==
    ASSUME TypeOK, CommitSafe, StoredSafe, processed' = processed,
           NEW ps \in SUBSET Partitions, NEW commitFinal \in BOOLEAN,
           Unassign(ps, commitFinal)
    PROVE  CommitSafe' /\ StoredSafe'
<1>1. \A p \in Partitions : IsSafeToCommit(p, Larger(committed[p], stored[p]))
    BY DEF CommitSafe, StoredSafe, Larger
<1>2. \A p \in Partitions : IsSafeToCommit(p, NoOffset)
    BY EndOffsetAssumption, KafkaInputAssumption DEF IsSafeToCommit, NoOffset, Offsets, Positions
<1>3. CommitSafe'
    BY <1>1 DEF Unassign, CommitSafe, IsSafeToCommit
<1>4. StoredSafe'
    BY <1>2 DEF Unassign, StoredSafe, IsSafeToCommit
<1> QED
    BY <1>3, <1>4

LEMMA RemoveAtIsSafe ==
    ASSUME TypeOK, StoringSafe, processed' = processed,
           NEW k \in 1 .. Len(storing), storing' = RemoveAt(storing, k)
    PROVE  StoringSafe'
<1>1. storing \in Seq(SUBSET (Partitions \X Positions))
    BY DEF TypeOK
<1>2. \A i \in 1 .. Len(RemoveAt(storing, k)) :
        \E j \in 1 .. Len(storing) : RemoveAt(storing, k)[i] = storing[j]
    BY <1>1, RemoveAtSpec
<1>3. \A i \in 1 .. Len(storing') : \E j \in 1 .. Len(storing) : storing'[i] = storing[j]
    BY <1>2
<1> QED
    BY <1>3 DEF StoringSafe, IsSafeToCommit

LEMMA CommitChainStep == TypeOK /\ CommitChain /\ [Next]_vars => CommitChain'
<1> SUFFICES ASSUME TypeOK, CommitChain, [Next]_vars PROVE CommitChain'
    OBVIOUS
<1> USE EndOffsetAssumption, KafkaInputAssumption DEF rebalanceVars, registrationVars
<1>1. ASSUME NEW ps \in SUBSET Partitions, AssignRead(ps)
      PROVE  CommitChain'
    <2>1. \A p \in Partitions : IsSafeToCommit(p, RegisteredOffset(committed[p]))
        BY DEF CommitChain, CommitSafe, RegisteredOffset, IsSafeToCommit, Offsets
    <2>2. AssigningSafe'
        BY <1>1, <2>1 DEF AssignRead, AssigningSafe, IsSafeToCommit, historyVars
    <2> QED
        BY <1>1, <2>2 DEF AssignRead, CommitChain, CommitSafe, StoredSafe, StoringSafe,
            TrackerSafe, IsSafeToCommit, IsRegistered, trackerVars, brokerVars, historyVars
<1>2. CASE AssignRegister
    <2>1. processed' = processed /\ committed' = committed /\ stored' = stored
          /\ storing' = storing
        BY <1>2 DEF AssignRegister, brokerVars
    <2>2. TrackerSafe'
        BY <1>2, <2>1 DEF AssignRegister, RegisterPartitions, CommitChain, TrackerSafe,
            AssigningSafe, IsSafeToCommit, IsRegistered
    <2>3. AssigningSafe'
        BY <1>2 DEF AssignRegister, AssigningSafe, NoAssignment
    <2> QED
        BY <2>1, <2>2, <2>3 DEF CommitChain, CommitSafe, StoredSafe, StoringSafe, IsSafeToCommit
<1>3. ASSUME NEW ps \in SUBSET Partitions, Revoke(ps)
      PROVE  CommitChain'
    <2>1. TrackerSafe'
        BY <1>3 DEF Revoke, UnregisterPartitions, CommitChain, TrackerSafe, IsSafeToCommit,
            IsRegistered, historyVars
    <2> QED
        BY <1>3, <2>1 DEF Revoke, CommitChain, CommitSafe, StoredSafe, StoringSafe,
            AssigningSafe, IsSafeToCommit, brokerVars, historyVars
<1>4. ASSUME NEW p \in Partitions, Consume(p)
      PROVE  CommitChain'
    BY <1>4 DEF Consume, CommitChain, CommitSafe, StoredSafe, StoringSafe, AssigningSafe,
        TrackerSafe, IsSafeToCommit, IsRegistered, trackerVars, historyVars
<1>5. ASSUME NEW p \in Partitions, AutoCommit(p)
      PROVE  CommitChain'
    <2>1. CommitSafe'
        BY <1>5 DEF AutoCommit, CommitChain, CommitSafe, StoredSafe, IsSafeToCommit, TypeOK,
            historyVars
    <2> QED
        BY <1>5, <2>1 DEF AutoCommit, CommitChain, StoredSafe, StoringSafe, AssigningSafe,
            TrackerSafe, IsSafeToCommit, IsRegistered, trackerVars, inputVars, historyVars
<1>6. ASSUME NEW p \in Partitions, OtherMemberCommits(p)
      PROVE  CommitChain'
    <2>1. processed \subseteq processed' /\ <<p, FetchStart(p)>> \in processed'
        BY <1>6 DEF OtherMemberCommits
    <2>2. /\ committed[p] \in Int /\ LowWatermark[p] \in Int
          /\ FetchStart(p) \in Int
          /\ FetchStart(p) > LowWatermark[p] => FetchStart(p) = committed[p]
        BY DEF FetchStart, Larger, TypeOK, NoOffset, Positions
    <2>3. CommitSafe'
        <3> SUFFICES ASSUME NEW q \in Partitions, NEW o \in Offsets,
                            LowWatermark[q] <= o, o < committed'[q]
                     PROVE  <<q, o>> \in processed'
            BY DEF CommitSafe, IsSafeToCommit
        <3>1. CASE q # p
            <4>1. committed'[q] = committed[q]
                BY <1>6, <3>1 DEF OtherMemberCommits, TypeOK
            <4> QED
                BY <2>1, <4>1 DEF CommitChain, CommitSafe, IsSafeToCommit
        <3>2. CASE q = p
            <4>1. committed'[p] = FetchStart(p) + 1
                BY <1>6 DEF OtherMemberCommits, TypeOK
            <4>2. o = FetchStart(p) \/ o < committed[p]
                BY <2>2, <3>2, <4>1 DEF Offsets
            <4> QED
                BY <2>1, <3>2, <4>2 DEF CommitChain, CommitSafe, IsSafeToCommit
        <3> QED
            BY <3>1, <3>2
    <2> QED
        BY <1>6, <2>1, <2>3 DEF OtherMemberCommits, CommitChain, StoredSafe, StoringSafe,
            AssigningSafe, TrackerSafe, IsSafeToCommit, IsRegistered, trackerVars, inputVars
<1>7. CASE NextMessage
    BY <1>7 DEF NextMessage, CommitChain, CommitSafe, StoredSafe, StoringSafe, AssigningSafe,
        TrackerSafe, IsSafeToCommit, IsRegistered, trackerVars, brokerVars, historyVars
<1>8. ASSUME NEW batch \in SUBSET Messages, Acknowledge(batch)
      PROVE  CommitChain'
    <2>1. /\ processed' = processed \cup batch
          /\ committed' = committed /\ stored' = stored /\ assigning' = assigning
        BY <1>8 DEF Acknowledge, brokerVars
    <2>2. /\ TrackerSafe'
          /\ \A p \in Partitions, o \in Positions :
                <<p, o>> \in Advanced(batch) => IsSafeToCommit(p, o)'
        BY <1>8, <2>1, AdvanceIsSafe DEF Acknowledge, CommitChain
    <2>3. StoringSafe'
        <3>1. CASE Advanced(batch) = {}
            BY <1>8, <2>1, <3>1 DEF Acknowledge, CommitChain, StoringSafe, IsSafeToCommit
        <3>2. CASE Advanced(batch) # {}
            <4>1. storing' = Append(storing, Advanced(batch))
                BY <1>8, <3>2 DEF Acknowledge
            <4>2. storing \in Seq(SUBSET (Partitions \X Positions))
                BY DEF TypeOK
            <4>3. \A i \in 1 .. Len(storing') :
                    \/ i \in 1 .. Len(storing) /\ storing'[i] = storing[i]
                    \/ storing'[i] = Advanced(batch)
                BY <4>1, <4>2
            <4> QED
                BY <2>1, <2>2, <4>3 DEF CommitChain, StoringSafe, IsSafeToCommit
        <3> QED
            BY <3>1, <3>2
    <2> QED
        BY <2>1, <2>2, <2>3 DEF CommitChain, CommitSafe, StoredSafe, AssigningSafe, IsSafeToCommit
<1>9. ASSUME NEW m \in Messages, Discard(m)
      PROVE  CommitChain'
    BY <1>9 DEF Discard, CommitChain, CommitSafe, StoredSafe, StoringSafe, AssigningSafe,
        TrackerSafe, IsSafeToCommit, IsRegistered, trackerVars, brokerVars, inputVars, historyVars
<1>10. CASE StoreOffsets
    <2>1. PICK k \in 1 .. Len(storing) :
            /\ stored' = [p \in Partitions |->
                    IF p \in assigned /\ \E o \in Positions : <<p, o>> \in storing[k]
                    THEN CHOOSE o \in Positions : <<p, o>> \in storing[k]
                    ELSE stored[p]]
            /\ storing' = RemoveAt(storing, k)
            /\ UNCHANGED <<trackerVars, committed, assigned, position, rebalanceVars,
                           messageIter, inFlight, processed, base, acked, discarded,
                           boundVars>>
        BY <1>10 DEF StoreOffsets
    <2>2. StoredSafe'
        BY <2>1 DEF CommitChain, StoredSafe, StoringSafe, IsSafeToCommit, historyVars
    <2>3. StoringSafe'
        BY <2>1, RemoveAtIsSafe DEF CommitChain, historyVars
    <2> QED
        BY <2>1, <2>2, <2>3 DEF CommitChain, CommitSafe, TrackerSafe, AssigningSafe,
            IsSafeToCommit, IsRegistered, trackerVars, historyVars
<1>11. CASE StoreOffsetsFails
    <2>1. StoringSafe'
        BY <1>11, RemoveAtIsSafe DEF StoreOffsetsFails, CommitChain, historyVars
    <2> QED
        BY <1>11, <2>1 DEF StoreOffsetsFails, CommitChain, CommitSafe, StoredSafe, TrackerSafe,
            AssigningSafe, IsSafeToCommit, IsRegistered, trackerVars, brokerVars, historyVars
<1>12. CASE Restart
    <2>1. assigned \in SUBSET Partitions /\ processed' = processed
        BY <1>12 DEF Restart, TypeOK, historyVars
    <2>2. CommitSafe' /\ StoredSafe'
        BY <1>12, <2>1, UnassignIsSafe DEF Restart, CommitChain
    <2>3. TrackerSafe'
        BY <1>12, <2>1 DEF Restart, UnregisterPartitions, TrackerSafe, IsRegistered
    <2>4. AssigningSafe' /\ StoringSafe'
        BY <1>12 DEF Restart, AssigningSafe, NoAssignment, StoringSafe
    <2> QED
        BY <2>2, <2>3, <2>4 DEF CommitChain
<1>13. CASE LibraryAssigns
    BY <1>13 DEF LibraryAssigns, CommitChain, CommitSafe, StoredSafe, StoringSafe,
        AssigningSafe, TrackerSafe, IsSafeToCommit, IsRegistered, trackerVars, historyVars
<1>14. CASE LibraryUnassigns
    <2>1. leaving \in SUBSET Partitions /\ processed' = processed
        BY <1>14 DEF LibraryUnassigns, TypeOK, historyVars
    <2>2. CommitSafe' /\ StoredSafe'
        BY <1>14, <2>1, UnassignIsSafe DEF LibraryUnassigns, CommitChain
    <2> QED
        BY <1>14, <2>1, <2>2 DEF LibraryUnassigns, CommitChain, StoringSafe, AssigningSafe,
            TrackerSafe, IsSafeToCommit, IsRegistered, trackerVars
<1>15. CASE UNCHANGED vars
    BY <1>15 DEF vars, CommitChain, CommitSafe, StoredSafe, StoringSafe, AssigningSafe,
        TrackerSafe, IsSafeToCommit, IsRegistered, trackerVars, brokerVars, inputVars, historyVars
<1> QED
    BY <1>1, <1>2, <1>3, <1>4, <1>5, <1>6, <1>7, <1>8, <1>9, <1>10, <1>11, <1>12, <1>13, <1>14,
       <1>15
    DEF Next

\* No committed offset is beyond a message that nobody acknowledged: after a
\* crash, a revocation or a loss every such message is delivered again
\* (acknowledge, _assign_callback, offset_commit_tracker.py).
THEOREM CommitIsSafe == Spec => []CommitSafe
<1>1. CommitChain => CommitSafe
    BY DEF CommitChain
<1> QED
    BY <1>1, TypeInit, TypeStep, CommitChainInit, CommitChainStep, PTL DEF Spec

(***************************************************************************)
(* The tracker is exact.                                                   *)
(***************************************************************************)

\* TrackerIsExact without its CHOOSE, for one partition.
IsExact(p) ==
    /\ IsContiguousEnd(base[p], acked[p], nextExpected[p])
    /\ committable[p] = {o \in acked[p] : o > nextExpected[p]}

Exact == \A p \in Partitions : IsRegistered(p) => IsExact(p)

LEMMA ExactImpliesTrackerIsExact == TypeOK /\ Exact => TrackerIsExact
<1> SUFFICES ASSUME TypeOK, Exact, NEW p \in Partitions, IsRegistered(p)
             PROVE  /\ nextExpected[p] = ContiguousEnd(base[p], acked[p])
                    /\ committable[p] = {o \in acked[p] : o > nextExpected[p]}
    BY DEF TrackerIsExact
<1>1. base[p] \in Positions /\ acked[p] \in SUBSET Offsets
    BY DEF TypeOK
<1>2. IsContiguousEnd(base[p], acked[p], ContiguousEnd(base[p], acked[p]))
    BY <1>1, ContiguousEndSpec
<1>3. IsExact(p)
    BY DEF Exact
<1>4. nextExpected[p] = ContiguousEnd(base[p], acked[p])
    BY <1>1, <1>2, <1>3, ContiguousEndUnique DEF IsExact
<1> QED
    BY <1>3, <1>4 DEF IsExact

\* Feeding a batch and advancing keeps a registered partition exact.
LEMMA AdvanceIsExact ==
    ASSUME TypeOK, NEW p \in Partitions, IsRegistered(p), IsExact(p),
           NEW batch \in SUBSET Messages, AdvanceOffsets(batch),
           base' = base, acked'[p] = acked[p] \cup OffsetsOf(p, batch)
    PROVE  IsExact(p)'
<1> USE EndOffsetAssumption
<1> DEFINE old == nextExpected[p]
           new == AdvancedTo(p, batch)
           fed == Fed(p, batch)
<1>1. /\ old \in Positions /\ new \in Positions
      /\ IsContiguousEnd(old, fed, new)
    BY AdvanceSpec DEF TypeOK
<1>2. /\ acked[p] \in SUBSET Offsets /\ base[p] \in Positions
      /\ OffsetsOf(p, batch) \in SUBSET Offsets
    BY DEF TypeOK, OffsetsOf
<1>3. nextExpected'[p] = new /\ committable'[p] = fed \ (old .. new - 1)
    BY DEF AdvanceOffsets
<1>4. fed = {o \in acked'[p] : o >= old}
    <2>1. fed = committable[p] \cup {o \in OffsetsOf(p, batch) : o >= old}
        BY DEF Fed
    <2>2. committable[p] = {o \in acked[p] : o >= old}
        BY <1>1, <1>2 DEF IsExact, IsContiguousEnd, Positions, Offsets
    <2> QED
        BY <1>1, <1>2, <2>1, <2>2
<1> HIDE DEF old, new, fed
<1>5. \A x \in base[p] .. old - 1 : x \in acked[p]
    BY DEF IsExact, IsContiguousEnd, old
<1>6. new >= old /\ new \notin fed /\ \A x \in old .. new - 1 : x \in fed
    BY <1>1 DEF IsContiguousEnd
<1>7. base[p] <= old
    BY <1>1, <1>2 DEF IsExact, IsContiguousEnd, old
<1>8. IsContiguousEnd(base'[p], acked'[p], nextExpected'[p])
    <2>1. new \notin acked'[p]
        BY <1>1, <1>4, <1>6
    <2>2. ASSUME NEW x \in base[p] .. new - 1
          PROVE  x \in acked'[p]
        <3>1. x \in base[p] .. old - 1 \/ x \in old .. new - 1
            BY <1>1, <1>2 DEF Positions
        <3> QED
            BY <1>4, <1>5, <1>6, <3>1
    <2>3. new >= base[p]
        BY <1>1, <1>2, <1>6, <1>7 DEF Positions
    <2> QED
        BY <1>1, <1>3, <2>1, <2>2, <2>3 DEF IsContiguousEnd
<1>9. committable'[p] = {o \in acked'[p] : o > nextExpected'[p]}
    <2>1. ASSUME NEW o \in acked'[p]
          PROVE  o \in fed \ (old .. new - 1) <=> o > new
        <3>1. o \in Int
            BY <1>2 DEF Offsets
        <3> QED
            BY <1>1, <1>4, <1>6, <3>1 DEF Positions
    <2> QED
        BY <1>3, <1>4, <2>1
<1> QED
    BY <1>8, <1>9 DEF IsExact

LEMMA ExactInit == Init => Exact
    BY DEF Init, TrackerInit, Exact, IsRegistered

LEMMA ExactStep == TypeOK /\ Exact /\ [Next]_vars => Exact'
<1> SUFFICES ASSUME TypeOK, Exact, [Next]_vars PROVE Exact'
    OBVIOUS
<1> USE DEF rebalanceVars, registrationVars
<1>1. ASSUME UNCHANGED <<trackerVars, base, acked>>
      PROVE  Exact'
    BY <1>1 DEF Exact, IsExact, IsRegistered, trackerVars
<1>2. CASE AssignRegister
    <2> SUFFICES ASSUME NEW p \in Partitions, IsRegistered(p)' PROVE IsExact(p)'
        BY DEF Exact
    <2>1. CASE p \notin DOMAIN assigning
        BY <1>2, <2>1 DEF AssignRegister, RegisterPartitions, Exact, IsExact, IsRegistered
    <2>2. CASE p \in DOMAIN assigning
        <3>1. assigning[p] \in Positions
            BY <2>2 DEF TypeOK
        <3>2. /\ nextExpected'[p] = assigning[p] /\ committable'[p] = {}
              /\ base'[p] = assigning[p] /\ acked'[p] = {}
            BY <1>2, <2>2 DEF AssignRegister, RegisterPartitions
        <3> QED
            BY <3>1, <3>2, EndOffsetAssumption DEF IsExact, IsContiguousEnd, Positions
    <2> QED
        BY <2>1, <2>2
<1>3. ASSUME NEW ps \in SUBSET Partitions, Revoke(ps)
      PROVE  Exact'
    BY <1>3 DEF Revoke, UnregisterPartitions, Exact, IsExact, IsRegistered, historyVars
<1>4. CASE Restart
    BY <1>4 DEF Restart, UnregisterPartitions, Exact, IsRegistered
<1>5. ASSUME NEW batch \in SUBSET Messages, Acknowledge(batch)
      PROVE  Exact'
    <2> SUFFICES ASSUME NEW p \in Partitions, IsRegistered(p)' PROVE IsExact(p)'
        BY DEF Exact
    <2>1. nextExpected'[p] = AdvancedTo(p, batch)
        BY <1>5 DEF Acknowledge, AdvanceOffsets
    <2>2. IsRegistered(p)
        BY <2>1, AdvanceSpec DEF TypeOK, IsRegistered
    <2>3. base' = base /\ acked'[p] = acked[p] \cup OffsetsOf(p, batch)
        BY <1>5, <2>2 DEF Acknowledge
    <2> QED
        BY <1>5, <2>2, <2>3, AdvanceIsExact DEF Acknowledge, Exact
<1>6. ASSUME NEW ps \in SUBSET Partitions, AssignRead(ps)
      PROVE  Exact'
    BY <1>1, <1>6 DEF AssignRead, historyVars
<1>7. ASSUME NEW p \in Partitions, Consume(p) \/ AutoCommit(p) \/ OtherMemberCommits(p)
      PROVE  Exact'
    BY <1>1, <1>7 DEF Consume, AutoCommit, OtherMemberCommits, historyVars
<1>8. ASSUME NEW m \in Messages, Discard(m)
      PROVE  Exact'
    BY <1>1, <1>8 DEF Discard, historyVars
<1>9. CASE NextMessage \/ StoreOffsets \/ StoreOffsetsFails \/ LibraryAssigns
            \/ LibraryUnassigns \/ UNCHANGED vars
    BY <1>1, <1>9 DEF NextMessage, LibraryAssigns, LibraryUnassigns, StoreOffsets,
         StoreOffsetsFails, vars, historyVars
<1> QED
    BY <1>2, <1>3, <1>4, <1>5, <1>6, <1>7, <1>8, <1>9 DEF Next

\* advance_offsets forgets what it has passed, and still answers as if it
\* recomputed the first missing offset from every acknowledgement since the
\* registration: it neither skips an offset nor holds one back.
THEOREM TrackerExact == Spec => []TrackerIsExact
    BY TypeInit, TypeStep, ExactInit, ExactStep, ExactImpliesTrackerIsExact, PTL DEF Spec

(***************************************************************************)
(* What is delivered is tracked.                                           *)
(*                                                                         *)
(* The offset a partition is registered with must not be behind the one    *)
(* the library starts at.  They are read at two moments, so the committed  *)
(* offset must not move from _assign_callback's read to the assignment:    *)
(* nobody commits for the partition in between.  And the callbacks come    *)
(* one at a time, and never while messages wait to be handed out.          *)
(***************************************************************************)
OneAtATime ==
    /\ assigning # NoAssignment => joining = {}
    /\ assigning # NoAssignment \/ joining # {} => leaving = {}
    /\ messageIter # <<>> => assigning = NoAssignment /\ joining = {} /\ leaving = {}

AssigningIsCommitted ==
    \A p \in DOMAIN assigning : p \notin assigned /\ assigning[p] = RegisteredOffset(committed[p])

JoiningIsCommitted ==
    \A p \in joining :
        /\ p \notin assigned /\ IsRegistered(p)
        /\ base[p] = RegisteredOffset(committed[p])

FetchedFromBase ==
    /\ leaving \subseteq assigned
    /\ \A p \in leaving : ~ IsRegistered(p)
    /\ \A p \in assigned : IsRegistered(p) => base[p] <= position[p]

Delivery ==
    /\ OneAtATime
    /\ AssigningIsCommitted
    /\ JoiningIsCommitted
    /\ FetchedFromBase
    /\ DeliveredIsTracked

LEMMA DeliveryInit == Init => Delivery
<1> SUFFICES ASSUME Init PROVE Delivery
    OBVIOUS
<1>1. \A p \in Partitions : ~ IsRegistered(p)
    BY DEF Init, TrackerInit, IsRegistered
<1>2. Len(messageIter) = 0
    BY DEF Init
<1> QED
    BY <1>1, <1>2 DEF Init, Delivery, OneAtATime, AssigningIsCommitted, JoiningIsCommitted,
        FetchedFromBase, DeliveredIsTracked, NoAssignment

\* A step that leaves alone what the invariant is about.
LEMMA DeliveryUnchanged ==
    ASSUME Delivery,
           UNCHANGED <<assigned, position, rebalanceVars, messageIter, base>>,
           \A p \in Partitions : IsRegistered(p)' <=> IsRegistered(p),
           \A p \in joining \cup DOMAIN assigning : committed'[p] = committed[p],
           joining \cup assigned \subseteq Partitions
    PROVE  Delivery'
<1> USE DEF rebalanceVars
<1>1. OneAtATime' /\ AssigningIsCommitted' /\ JoiningIsCommitted'
    BY DEF Delivery, OneAtATime, AssigningIsCommitted, JoiningIsCommitted
<1>2. FetchedFromBase'
    BY DEF Delivery, FetchedFromBase
<1>3. DeliveredIsTracked'
    <2>1. \A i \in 1 .. Len(messageIter) : messageIter[i][1] \in assigned
        BY DEF Delivery, DeliveredIsTracked
    <2> QED
        BY <2>1 DEF Delivery, DeliveredIsTracked
<1> QED
    BY <1>1, <1>2, <1>3 DEF Delivery

LEMMA DeliveryStep == TypeOK /\ Delivery /\ [Next]_vars => Delivery'
<1> SUFFICES ASSUME TypeOK, Delivery, [Next]_vars PROVE Delivery'
    OBVIOUS
<1> USE DEF rebalanceVars, registrationVars
<1>0. /\ Unregistered \notin Positions /\ Positions \subseteq Int
      /\ joining \cup assigned \subseteq Partitions
      /\ DOMAIN assigning \subseteq Partitions
      /\ \A p \in DOMAIN assigning : assigning[p] \in Positions
      /\ Len(<<>>) = 0
    BY EndOffsetAssumption DEF Unregistered, Positions, TypeOK
<1>1. ASSUME UNCHANGED <<trackerVars, assigned, position, rebalanceVars, messageIter, base>>,
             \A p \in joining \cup DOMAIN assigning : committed'[p] = committed[p]
      PROVE  Delivery'
    BY <1>0, <1>1, DeliveryUnchanged DEF trackerVars, IsRegistered
<1>2. ASSUME NEW ps \in SUBSET Partitions, AssignRead(ps)
      PROVE  Delivery'
    BY <1>0, <1>2 DEF AssignRead, ServingCallbacks, Delivery, OneAtATime, AssigningIsCommitted,
        JoiningIsCommitted, FetchedFromBase, DeliveredIsTracked, IsRegistered, trackerVars,
        brokerVars, historyVars
<1>3. CASE AssignRegister
    <2>1. /\ joining = {} /\ leaving = {} /\ messageIter = <<>>
          /\ joining' = DOMAIN assigning /\ leaving' = {} /\ messageIter' = <<>>
          /\ assigning' = NoAssignment
          /\ UNCHANGED <<assigned, position, committed>>
        BY <1>3 DEF AssignRegister, Delivery, OneAtATime, brokerVars
    <2>2. \A p \in Partitions :
            /\ p \in DOMAIN assigning => IsRegistered(p)' /\ base'[p] = assigning[p]
            /\ p \notin DOMAIN assigning => /\ IsRegistered(p)' <=> IsRegistered(p)
                                            /\ base'[p] = base[p]
        BY <1>0, <1>3 DEF AssignRegister, RegisterPartitions, IsRegistered
    <2>3. OneAtATime' /\ AssigningIsCommitted'
        BY <2>1 DEF OneAtATime, AssigningIsCommitted, NoAssignment
    <2>4. JoiningIsCommitted'
        BY <1>0, <2>1, <2>2 DEF Delivery, AssigningIsCommitted, JoiningIsCommitted
    <2>5. FetchedFromBase'
        BY <1>0, <2>1, <2>2 DEF Delivery, AssigningIsCommitted, FetchedFromBase
    <2>6. DeliveredIsTracked'
        BY <1>0, <2>1, <2>2 DEF Delivery, DeliveredIsTracked
    <2> QED
        BY <2>3, <2>4, <2>5, <2>6 DEF Delivery
<1>4. CASE LibraryAssigns
    <2>1. /\ leaving = {} /\ messageIter = <<>> /\ assigning = NoAssignment
          /\ joining' = {} /\ leaving' = {} /\ messageIter' = <<>> /\ assigning' = NoAssignment
          /\ assigned' = assigned \cup joining
          /\ UNCHANGED <<committed, base>>
          /\ \A p \in Partitions : IsRegistered(p)' <=> IsRegistered(p)
        BY <1>4 DEF LibraryAssigns, Delivery, OneAtATime, trackerVars, historyVars, IsRegistered
    <2>2. \A p \in Partitions : position'[p] = IF p \in joining THEN FetchStart(p) ELSE position[p]
        BY <1>4 DEF LibraryAssigns
    <2>3. \A p \in joining : base[p] <= FetchStart(p)
        <3> SUFFICES ASSUME NEW p \in joining PROVE base[p] <= FetchStart(p)
            OBVIOUS
        <3>1. base[p] = RegisteredOffset(committed[p])
            BY DEF Delivery, JoiningIsCommitted
        <3>2. LowWatermark[p] \in Positions /\ committed[p] \in Positions \cup {NoOffset}
            BY <1>0, KafkaInputAssumption DEF TypeOK
        <3> QED
            BY <3>1, <3>2, EndOffsetAssumption DEF FetchStart, Larger, RegisteredOffset,
                NoOffset, Positions
    <2>4. OneAtATime' /\ AssigningIsCommitted' /\ JoiningIsCommitted'
        BY <2>1 DEF OneAtATime, AssigningIsCommitted, JoiningIsCommitted, NoAssignment
    <2>5. FetchedFromBase'
        BY <1>0, <2>1, <2>2, <2>3 DEF Delivery, FetchedFromBase, JoiningIsCommitted
    <2>6. DeliveredIsTracked'
        BY <1>0, <2>1 DEF Delivery, DeliveredIsTracked, JoiningIsCommitted
    <2> QED
        BY <2>4, <2>5, <2>6 DEF Delivery
<1>5. ASSUME NEW ps \in SUBSET Partitions, Revoke(ps)
      PROVE  Delivery'
    <2>1. /\ joining = {} /\ leaving = {} /\ messageIter = <<>> /\ assigning = NoAssignment
          /\ ps \subseteq assigned
          /\ leaving' = ps
          /\ UNCHANGED <<assigned, position, committed, joining, messageIter, assigning, base>>
        BY <1>5 DEF Revoke, ServingCallbacks, brokerVars, historyVars
    <2>2. \A p \in Partitions : IsRegistered(p)' <=> (IsRegistered(p) /\ p \notin ps)
        BY <1>5 DEF Revoke, UnregisterPartitions, IsRegistered
    <2> QED
        BY <1>0, <2>1, <2>2 DEF Delivery, OneAtATime, AssigningIsCommitted, JoiningIsCommitted,
            FetchedFromBase, DeliveredIsTracked, NoAssignment
<1>6. CASE LibraryUnassigns
    <2>1. /\ joining = {} /\ messageIter = <<>> /\ assigning = NoAssignment
          /\ assigned' = assigned \ leaving /\ leaving' = {}
          /\ UNCHANGED <<position, joining, messageIter, assigning, base>>
          /\ \A p \in Partitions : IsRegistered(p)' <=> IsRegistered(p)
        BY <1>6 DEF LibraryUnassigns, Unassign, Delivery, OneAtATime, trackerVars, historyVars,
            IsRegistered
    <2> QED
        BY <1>0, <2>1 DEF Delivery, OneAtATime, AssigningIsCommitted, JoiningIsCommitted,
            FetchedFromBase, DeliveredIsTracked, NoAssignment
<1>7. ASSUME NEW p \in Partitions, Consume(p)
      PROVE  Delivery'
    <2>1. PICK n \in 1 .. ConsumeNumMessage :
                /\ position[p] + n <= EndOffset
                /\ messageIter' = Fetched(p, n)
                /\ position' = [position EXCEPT ![p] = @ + n]
        BY <1>7 DEF Consume
    <2>2. /\ joining = {} /\ leaving = {} /\ assigning = NoAssignment /\ p \in assigned
          /\ UNCHANGED <<assigned, joining, leaving, assigning, base, committed>>
          /\ \A q \in Partitions : IsRegistered(q)' <=> IsRegistered(q)
        BY <1>7 DEF Consume, ServingCallbacks, trackerVars, historyVars, IsRegistered
    <2>3. position[p] \in Nat /\ base[p] \in Nat /\ n \in Nat
        BY EndOffsetAssumption, KafkaInputAssumption DEF TypeOK, Positions
    <2>4. \A q \in Partitions : position'[q] = IF q = p THEN position[p] + n ELSE position[q]
        BY <2>1 DEF TypeOK
    <2>5. IsRegistered(p) /\ base[p] <= position[p]
        BY <2>2 DEF Delivery, DeliveredIsTracked, FetchedFromBase
    <2>6. OneAtATime' /\ AssigningIsCommitted' /\ JoiningIsCommitted'
        BY <2>2 DEF OneAtATime, AssigningIsCommitted, JoiningIsCommitted, NoAssignment
    <2>7. FetchedFromBase'
        BY <1>0, <2>2, <2>3, <2>4 DEF Delivery, FetchedFromBase
    <2>8. ASSUME NEW i \in 1 .. Len(messageIter')
          PROVE  messageIter'[i][1] = p /\ base[p] <= messageIter'[i][2]
        <3>1. messageIter' = [j \in 1 .. n |-> <<p, position[p] + j - 1>>]
            BY <2>1 DEF Fetched
        <3>2. Len(messageIter') = n
            BY <2>3, <3>1
        <3> QED
            BY <2>3, <2>5, <3>1, <3>2
    <2>9. DeliveredIsTracked'
        BY <2>2, <2>5, <2>8 DEF Delivery, DeliveredIsTracked
    <2> QED
        BY <2>6, <2>7, <2>9 DEF Delivery
<1>8. CASE NextMessage
    <2>1. /\ messageIter # <<>> /\ messageIter' = Tail(messageIter)
          /\ UNCHANGED <<assigned, position, rebalanceVars, base, committed>>
          /\ \A p \in Partitions : IsRegistered(p)' <=> IsRegistered(p)
        BY <1>8 DEF NextMessage, trackerVars, brokerVars, historyVars, IsRegistered
    <2>2. \A i \in 1 .. Len(messageIter') :
            i + 1 \in 1 .. Len(messageIter) /\ messageIter'[i] = messageIter[i + 1]
        BY <2>1 DEF TypeOK
    <2>3. OneAtATime' /\ AssigningIsCommitted' /\ JoiningIsCommitted' /\ FetchedFromBase'
        BY <1>0, <2>1 DEF Delivery, OneAtATime, AssigningIsCommitted, JoiningIsCommitted,
            FetchedFromBase
    <2>4. DeliveredIsTracked'
        BY <1>0, <2>1, <2>2 DEF Delivery, DeliveredIsTracked
    <2> QED
        BY <2>3, <2>4 DEF Delivery
<1>9. ASSUME NEW batch \in SUBSET Messages, Acknowledge(batch)
      PROVE  Delivery'
    <2>1. AdvanceOffsets(batch)
          /\ UNCHANGED <<assigned, position, committed, rebalanceVars, messageIter, base>>
        BY <1>9 DEF Acknowledge, brokerVars
    <2>2. \A p \in Partitions : IsRegistered(p)' <=> IsRegistered(p)
        BY <1>0, <2>1, AdvanceSpec DEF AdvanceOffsets, TypeOK, IsRegistered
    <2> QED
        BY <1>0, <2>1, <2>2, DeliveryUnchanged
<1>10. ASSUME NEW p \in Partitions, AutoCommit(p) \/ OtherMemberCommits(p)
       PROVE  Delivery'
    <2>1. /\ UNCHANGED <<trackerVars, assigned, position, rebalanceVars, messageIter, base>>
          /\ \A q \in Partitions \ {p} : committed'[q] = committed[q]
        BY <1>10 DEF AutoCommit, OtherMemberCommits, inputVars, historyVars, TypeOK
    <2>2. p \notin joining \cup DOMAIN assigning
        BY <1>10 DEF AutoCommit, OtherMemberCommits, Delivery, AssigningIsCommitted,
            JoiningIsCommitted
    <2> QED
        BY <1>0, <1>1, <2>1, <2>2
<1>11. ASSUME NEW m \in Messages, Discard(m)
       PROVE  Delivery'
    BY <1>1, <1>11 DEF Discard, brokerVars, inputVars
<1>12. CASE StoreOffsets \/ StoreOffsetsFails \/ UNCHANGED vars
    BY <1>1, <1>12 DEF StoreOffsets, StoreOffsetsFails, vars, brokerVars, inputVars, historyVars
<1>13. CASE Restart
    <2>1. /\ assigning' = NoAssignment /\ joining' = {} /\ leaving' = {} /\ messageIter' = <<>>
          /\ assigned' = {}
        BY <1>13 DEF Restart, Unassign
    <2>2. \A p \in Partitions : ~ IsRegistered(p)'
        BY <1>13 DEF Restart, UnregisterPartitions, IsRegistered
    <2> QED
        BY <1>0, <2>1, <2>2 DEF Delivery, OneAtATime, AssigningIsCommitted, JoiningIsCommitted,
            FetchedFromBase, DeliveredIsTracked, NoAssignment
<1> QED
    BY <1>2, <1>3, <1>4, <1>5, <1>6, <1>7, <1>8, <1>9, <1>10, <1>11, <1>12, <1>13 DEF Next

\* Outside the gaps around the callbacks a partition is tracked exactly while
\* the library fetches it, and the tracker counts the acknowledgement of
\* every message that waits to be handed out (_assign_callback,
\* _revoke_callback, _get_next_message).
THEOREM DeliveredMessagesAreTracked == Spec => []DeliveredIsTracked
<1>1. Delivery => DeliveredIsTracked
    BY DEF Delivery
<1> QED
    BY <1>1, TypeInit, TypeStep, DeliveryInit, DeliveryStep, PTL DEF Spec
===============================================================================
