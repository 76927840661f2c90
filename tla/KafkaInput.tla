------------------------------ MODULE KafkaInput ------------------------------
(***************************************************************************)
(* The asynchronous Kafka input (logprep/ng/connector/confluent_kafka/     *)
(* input.py) with its offset commit tracker, between the broker and the    *)
(* workflow.                                                               *)
(*                                                                         *)
(* The input reads batches of messages (consume), hands them out one by    *)
(* one, and later receives acknowledgements in any order.  The tracker     *)
(* turns those into offsets that are stored in the client library by a     *)
(* small pool of threads; the library commits stored offsets on its own    *)
(* (enable.auto.commit).  Partitions are assigned, revoked and lost by the *)
(* broker, and the process may die at any moment.                          *)
(*                                                                         *)
(* External to src/: the broker and librdkafka (committed, stored,         *)
(* position, assigned) and the workflow that processes and acknowledges    *)
(* events; both are modelled by how the input uses them.                   *)
(***************************************************************************)
EXTENDS OffsetCommitTracker, SequencesExt

CONSTANTS
    LowWatermark,       \* partition -> first offset the broker still holds
    EmptyMessages,      \* the <<partition, offset>> whose value is None
    ConsumeNumMessage,  \* consume_num_message: size of one consume call
    MaxWorkers,         \* max_workers: threads of the executor
    MaxDisruptions,     \* bound: crashes, closes, revocations and losses
    MaxFaults           \* bound: store_offsets calls that fail and events
                        \* the workflow never acknowledges

ASSUME KafkaInputAssumption ==
    /\ LowWatermark \in [Partitions -> Positions]
    /\ EmptyMessages \subseteq Partitions \X Offsets
    /\ ConsumeNumMessage \in Nat \ {0}
    /\ MaxWorkers \in Nat \ {0}
    /\ MaxDisruptions \in Nat
    /\ MaxFaults \in Nat

VARIABLES
    committed,    \* partition -> committed offset at the broker, or NoOffset
    assigned,     \* partitions the client library fetches
    position,     \* partition -> next offset the library fetches
    stored,       \* partition -> offset stored for auto commit, or NoOffset
    assigning,    \* offsets read by _assign_callback, not yet registered
    joining,      \* registered by _assign_callback, not yet fetched
    leaving,      \* unregistered by _revoke_callback, not yet given back
    messageIter,  \* _message_iter: messages consumed and not handed out
    inFlight,     \* message -> copies handed to the workflow, unacknowledged
    storing,      \* store_offsets calls handed to the executor
    processed,    \* history: messages acknowledged by some group member
    base,         \* history: partition -> offset it was registered with
    acked,        \* history: partition -> offsets acked since registration
    unstored,     \* history: partitions whose tracked offset failed to be stored
    discarded,    \* history: messages given up since their registration
    disruptions, faults    \* counters of the bounds

brokerVars == <<committed, assigned, position, stored>>
rebalanceVars == <<assigning, joining, leaving>>
inputVars == <<rebalanceVars, messageIter, storing>>
registrationVars == <<base, acked, unstored, discarded>>
historyVars == <<processed, registrationVars>>
boundVars == <<disruptions, faults>>
vars == <<trackerVars, brokerVars, inputVars, inFlight, historyVars, boundVars>>

Messages == Partitions \X Offsets
NoOffset == -1
Larger(a, b) == IF a > b THEN a ELSE b

NoAssignment == [p \in {} |-> 0]

TypeOK ==
    /\ TrackerTypeOK
    /\ committed \in [Partitions -> Positions \cup {NoOffset}]
    /\ assigned \subseteq Partitions
    /\ position \in [Partitions -> Positions]
    /\ stored \in [Partitions -> Positions \cup {NoOffset}]
    /\ \E ps \in SUBSET Partitions : assigning \in [ps -> Positions]
    /\ joining \subseteq Partitions
    /\ leaving \subseteq Partitions
    /\ messageIter \in Seq(Messages)
    /\ inFlight \in [Messages -> Nat]
    /\ storing \in Seq(SUBSET (Partitions \X Positions))
    /\ processed \subseteq Messages
    /\ base \in [Partitions -> Positions]
    /\ acked \in [Partitions -> SUBSET Offsets]
    /\ unstored \subseteq Partitions
    /\ discarded \subseteq Messages
    /\ disruptions \in 0 .. MaxDisruptions
    /\ faults \in 0 .. MaxFaults

Init ==
    /\ TrackerInit
    /\ committed = [p \in Partitions |-> NoOffset]
    /\ assigned = {}
    /\ position = [p \in Partitions |-> 0]
    /\ stored = [p \in Partitions |-> NoOffset]
    /\ assigning = NoAssignment
    /\ joining = {}
    /\ leaving = {}
    /\ messageIter = <<>>
    /\ inFlight = [m \in Messages |-> 0]
    /\ storing = <<>>
    /\ processed = {}
    /\ base = [p \in Partitions |-> 0]
    /\ acked = [p \in Partitions |-> {}]
    /\ unstored = {}
    /\ discarded = {}
    /\ disruptions = 0
    /\ faults = 0

(***************************************************************************)
(* Rebalancing.  A thread of the library is inside consume when the broker *)
(* changes the assignment: it has the callback run on the event loop and,  *)
(* once that has returned, assigns or unassigns the partitions itself.     *)
(* Between the two steps other tasks of the loop run: acknowledgements are *)
(* counted, or not, for a partition the library does not fetch yet, or     *)
(* still does.  consume is only called when every message of the previous  *)
(* call has been handed out.                                               *)
(***************************************************************************)
ServingCallbacks ==
    messageIter = <<>> /\ assigning = NoAssignment /\ joining = {} /\ leaving = {}

\* Mutant: the special offset of a partition without commits is registered.
RegisteredAsRead(offset) == offset

\* What _assign_callback registers for a committed offset: a special one
\* (nothing committed yet) counts as 0.
RegisteredOffset(offset) == IF offset = NoOffset THEN 0 ELSE offset

\* _assign_callback up to the await of committed(): the offsets are read.
AssignRead(ps) ==
    /\ ServingCallbacks
    /\ ps # {} /\ ps \cap assigned = {}
    /\ assigning' = [p \in ps |-> RegisteredOffset(committed[p])]
    /\ UNCHANGED <<trackerVars, brokerVars, joining, leaving, messageIter, storing,
                   inFlight, historyVars, boundVars>>

\* The rest of _assign_callback: every partition is registered (nothing in
\* this loop lets another task run).
AssignRegister ==
    /\ assigning # NoAssignment
    /\ RegisterPartitions(assigning)
    /\ joining' = DOMAIN assigning
    /\ assigning' = NoAssignment
    /\ base' = [p \in Partitions |->
            IF p \in DOMAIN assigning THEN assigning[p] ELSE base[p]]
    /\ acked' = [p \in Partitions |->
            IF p \in DOMAIN assigning THEN {} ELSE acked[p]]
    /\ unstored' = unstored \ DOMAIN assigning
    /\ discarded' = {m \in discarded : m[1] \notin DOMAIN assigning}
    /\ UNCHANGED <<brokerVars, leaving, messageIter, storing, inFlight, processed,
                   boundVars>>

\* The broker serves a partition from its committed offset, or from the
\* first one it holds (auto.offset.reset = earliest).
FetchStart(p) == Larger(committed[p], LowWatermark[p])

\* The callback has returned: the library starts to fetch.
LibraryAssigns ==
    /\ joining # {}
    /\ assigned' = assigned \cup joining
    /\ position' = [p \in Partitions |->
            IF p \in joining THEN FetchStart(p) ELSE position[p]]
    /\ joining' = {}
    /\ UNCHANGED <<trackerVars, committed, stored, assigning, leaving, messageIter,
                   storing, inFlight, historyVars, boundVars>>

\* _revoke_callback and _lost_callback: both unregister every partition.
Revoke(ps) ==
    /\ ServingCallbacks
    /\ disruptions < MaxDisruptions
    /\ ps # {} /\ ps \subseteq assigned
    /\ UnregisterPartitions(ps)
    /\ leaving' = ps
    /\ disruptions' = disruptions + 1
    /\ UNCHANGED <<brokerVars, assigning, joining, messageIter, storing, inFlight,
                   historyVars, faults>>

\* The library drops the partitions ps; what was stored is committed first,
\* unless it cannot be (commitFinal is then FALSE).
Unassign(ps, commitFinal) ==
    /\ assigned' = assigned \ ps
    /\ stored' = [p \in Partitions |-> IF p \in ps THEN NoOffset ELSE stored[p]]
    /\ committed' = [p \in Partitions |->
            IF p \in ps /\ commitFinal THEN Larger(committed[p], stored[p])
                                       ELSE committed[p]]
    /\ position' = position

\* The callback has returned: a revoked partition is committed a last time,
\* one that is lost, or whose last commit fails, is not.
LibraryUnassigns ==
    /\ leaving # {}
    /\ \E commitFinal \in BOOLEAN : Unassign(leaving, commitFinal)
    /\ leaving' = {}
    /\ UNCHANGED <<trackerVars, assigning, joining, messageIter, storing, inFlight,
                   historyVars, boundVars>>

(***************************************************************************)
(* Reading.                                                                *)
(***************************************************************************)

\* The messages a consume call returns: up to ConsumeNumMessage in the order
\* of their offsets.
Fetched(p, n) == [i \in 1 .. n |-> <<p, position[p] + i - 1>>]

\* _get_next_message with an exhausted iterator: the next consume call.
Consume(p) ==
    /\ ServingCallbacks
    /\ p \in assigned
    /\ \E n \in 1 .. ConsumeNumMessage :
        /\ position[p] + n <= EndOffset
        /\ messageIter' = Fetched(p, n)
        /\ position' = [position EXCEPT ![p] = @ + n]
    /\ UNCHANGED <<trackerVars, committed, assigned, stored, rebalanceVars, storing,
                   inFlight, historyVars, boundVars>>

\* _get_raw_event: a message without a value is skipped, every other one is
\* handed to the workflow.
NextMessage ==
    /\ messageIter # <<>>
    /\ LET m == Head(messageIter)
       IN  inFlight' = IF m \in EmptyMessages THEN inFlight
                                              ELSE [inFlight EXCEPT ![m] = @ + 1]
    /\ messageIter' = Tail(messageIter)
    /\ UNCHANGED <<trackerVars, brokerVars, rebalanceVars, storing, historyVars,
                   boundVars>>

(***************************************************************************)
(* Acknowledging.                                                          *)
(***************************************************************************)

\* acknowledge up to the await of store_offsets: the tracker advances, and
\* the offsets it returns are handed to the executor.
Acknowledge(batch) ==
    /\ batch # {}
    /\ \A m \in batch : inFlight[m] > 0
    /\ inFlight' = [m \in Messages |->
            IF m \in batch THEN inFlight[m] - 1 ELSE inFlight[m]]
    /\ AdvanceOffsets(batch)
    /\ storing' = IF Advanced(batch) = {} THEN storing
                                          ELSE Append(storing, Advanced(batch))
    /\ processed' = processed \cup batch
    /\ acked' = [p \in Partitions |->
            IF IsRegistered(p) THEN acked[p] \cup OffsetsOf(p, batch) ELSE acked[p]]
    /\ unstored' = {p \in unstored : AdvancedTo(p, batch) = nextExpected[p]}
    /\ UNCHANGED <<brokerVars, rebalanceVars, messageIter, base, discarded, boundVars>>

\* The workflow gives an event up without acknowledging it: it could not be
\* stored in the error output, or its worker was cancelled.
Discard(m) ==
    /\ inFlight[m] > 0
    /\ faults < MaxFaults
    /\ inFlight' = [inFlight EXCEPT ![m] = @ - 1]
    /\ discarded' = discarded \cup {m}
    /\ faults' = faults + 1
    /\ UNCHANGED <<trackerVars, brokerVars, inputVars, processed, base, acked,
                   unstored, disruptions>>

\* The partitions whose tracked offset is lost to the library when it
\* refuses the call, or when an older call comes last and overwrites it.
Refused(call) == {p \in Partitions \ assigned : <<p, nextExpected[p]>> \in call}

Overwritten(call) ==
    {p \in assigned : /\ stored[p] = nextExpected[p]
                      /\ \E o \in Positions : o < nextExpected[p] /\ <<p, o>> \in call}

\* A thread of the executor runs one of the first MaxWorkers calls.  The
\* library overwrites the stored offset of a partition that is assigned and
\* refuses the others.
StoreOffsets ==
    \E k \in 1 .. Len(storing) :
        /\ k <= MaxWorkers
        /\ stored' = [p \in Partitions |->
                IF p \in assigned /\ \E o \in Positions : <<p, o>> \in storing[k]
                THEN CHOOSE o \in Positions : <<p, o>> \in storing[k]
                ELSE stored[p]]
        /\ storing' = RemoveAt(storing, k)
        /\ unstored' = unstored \cup Refused(storing[k]) \cup Overwritten(storing[k])
        /\ UNCHANGED <<trackerVars, committed, assigned, position, rebalanceVars,
                       messageIter, inFlight, processed, base, acked, discarded,
                       boundVars>>

\* The call raises a KafkaException: acknowledge turns it into an
\* InputWarning, and the workflow only logs that.
StoreOffsetsFails ==
    /\ faults < MaxFaults
    /\ \E k \in 1 .. Len(storing) :
        /\ k <= MaxWorkers
        /\ storing' = RemoveAt(storing, k)
        /\ unstored' = unstored
                \cup {p \in Partitions : <<p, nextExpected[p]>> \in storing[k]}
    /\ faults' = faults + 1
    /\ UNCHANGED <<trackerVars, brokerVars, rebalanceVars, messageIter, inFlight,
                   processed, base, acked, discarded, disruptions>>

(***************************************************************************)
(* The client library, the rest of the consumer group, the process.        *)
(***************************************************************************)

\* The library's periodic commit: only an offset beyond the committed one.
AutoCommit(p) ==
    /\ p \in assigned
    /\ stored[p] > committed[p]
    /\ committed' = [committed EXCEPT ![p] = stored[p]]
    /\ UNCHANGED <<trackerVars, assigned, position, stored, inputVars, inFlight,
                   historyVars, boundVars>>

\* Another member of the group owns p: it processes messages and commits.
OtherMemberCommits(p) ==
    /\ p \notin assigned \cup joining \cup DOMAIN assigning
    /\ FetchStart(p) < EndOffset
    /\ committed' = [committed EXCEPT ![p] = FetchStart(p) + 1]
    /\ processed' = processed \cup {<<p, FetchStart(p)>>}
    /\ UNCHANGED <<trackerVars, assigned, position, stored, inputVars, inFlight,
                   registrationVars, boundVars>>

\* The input ends and its process is started again: by shut_down (a close
\* that revokes everything and commits a last time) or by a crash, after
\* which all that was in memory is gone.
Restart ==
    /\ disruptions < MaxDisruptions
    /\ \E commitFinal \in BOOLEAN : Unassign(assigned, commitFinal)
    /\ UnregisterPartitions(Partitions)
    /\ assigning' = NoAssignment
    /\ joining' = {}
    /\ leaving' = {}
    /\ messageIter' = <<>>
    /\ storing' = <<>>
    /\ inFlight' = [m \in Messages |-> 0]
    /\ disruptions' = disruptions + 1
    /\ UNCHANGED <<historyVars, faults>>

Next ==
    \/ \E ps \in SUBSET Partitions : AssignRead(ps) \/ Revoke(ps)
    \/ AssignRegister
    \/ LibraryAssigns
    \/ LibraryUnassigns
    \/ \E p \in Partitions : Consume(p) \/ AutoCommit(p) \/ OtherMemberCommits(p)
    \/ NextMessage
    \/ \E batch \in SUBSET Messages : Acknowledge(batch)
    \/ \E m \in Messages : Discard(m)
    \/ StoreOffsets
    \/ StoreOffsetsFails
    \/ Restart

Spec == Init /\ [][Next]_vars

\* Every loop of the process goes on while it is alive: consume is called
\* again and again, the workflow acknowledges what it was given (see
\* Workflow), the executor and the library's commit timer run.  Nothing is
\* assumed of disruptions, failures, discards and other members.
Fairness ==
    /\ WF_vars(\E ps \in SUBSET Partitions : ps = Partitions \ assigned /\ AssignRead(ps))
    /\ WF_vars(AssignRegister)
    /\ WF_vars(LibraryAssigns)
    /\ WF_vars(LibraryUnassigns)
    /\ \A p \in Partitions : WF_vars(Consume(p)) /\ WF_vars(AutoCommit(p))
    /\ WF_vars(NextMessage)
    /\ \A m \in Messages : WF_vars(\E batch \in SUBSET Messages :
                                        m \in batch /\ Acknowledge(batch))
    /\ WF_vars(StoreOffsets)

FairSpec == Spec /\ Fairness

(***************************************************************************)
(* Properties.                                                             *)
(***************************************************************************)

\* At-least-once delivery: a restart resumes at the committed offset, so no
\* message below it may be missing an acknowledgement.  Spans the tracker,
\* calls in flight across revocations and re-assignments, and two copies of
\* a message (acknowledge, _assign_callback, _revoke_callback).
IsSafeToCommit(p, offset) ==
    \A o \in Offsets : (LowWatermark[p] <= o /\ o < offset) => <<p, o>> \in processed

CommitSafe == \A p \in Partitions : IsSafeToCommit(p, committed[p])

\* The incremental bookkeeping of advance_offsets, which forgets what it has
\* passed, gives what a computation from the whole history since the
\* registration would: the first offset not acknowledged.
TrackerIsExact ==
    \A p \in Partitions : IsRegistered(p) =>
        /\ nextExpected[p] = ContiguousEnd(base[p], acked[p])
        /\ committable[p] = {o \in acked[p] : o > nextExpected[p]}

\* Tracker and library agree on who owns a partition but for the gaps around
\* the callbacks, and in no gap is there a message of the input's hand: what
\* the library delivered belongs to a partition it still fetches, and its
\* acknowledgement will be counted, as the registration was not behind it
\* (_assign_callback, _revoke_callback, _lost_callback, _get_next_message).
DeliveredIsTracked ==
    /\ \A i \in 1 .. Len(messageIter) :
        LET p == messageIter[i][1] IN
            /\ p \in assigned /\ p \notin leaving
            /\ IsRegistered(p) /\ base[p] <= messageIter[i][2]
    /\ \A p \in Partitions : (IsRegistered(p) <=> p \in assigned) \/ p \in joining \cup leaving

\* Where the commits of a partition may come to rest: at its end, or before
\* a message that was never acknowledged (it has no value or was given up),
\* with everything before that committed.  The other case is a store call
\* for the tracker's offset that was refused, failed or was overwritten by an
\* older one with no later acknowledgement to repair it.
CommitsRest(p) ==
    \/ committed[p] = EndOffset
    \/ p \in unstored
    \/ /\ <<p, nextExpected[p]>> \in EmptyMessages \cup discarded
       /\ RegisteredOffset(committed[p]) >= nextExpected[p]

\* The commits of every partition get that far, whatever is revoked, lost or
\* restarted on the way, in whatever order events are acknowledged and store
\* calls are run: a lost store is made up for by the next one, as the comment
\* in acknowledge says, except for the last.
EverythingCommitted == <>[](\A p \in Partitions : CommitsRest(p))

\* What the comment in _assign_callback says of a partition without a
\* committed offset: 0 is its first one.  So the tracker waits for the
\* offset the broker delivers first.
TrackerStartsAtFirstMessage ==
    \A p \in Partitions : IsRegistered(p) /\ acked[p] = {} => nextExpected[p] >= LowWatermark[p]
==============================================================================
