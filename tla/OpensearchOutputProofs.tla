------------------------ MODULE OpensearchOutputProofs ------------------------
(***************************************************************************)
(* Proofs about the OpenSearch output: it uses its circuit breaker as the  *)
(* breaker's specification demands, decides every event once, and writes   *)
(* one document for every event it reports as stored.                      *)
(***************************************************************************)
EXTENDS OpensearchOutput, CircuitBreakerProofs

(***************************************************************************)
(* The output implements its breaker.                                      *)
(***************************************************************************)
LEMMA StepOfBreaker == [Next]_vars => [BreakerNext]_breakerVars
<1> SUFFICES ASSUME [Next]_vars PROVE [BreakerNext]_breakerVars
    OBVIOUS
<1>1. ASSUME NEW b \in Batches, Store(b) \/ StoreRaises(b) \/ StoreReturns(b) \/ CancelStore(b)
      PROVE  UNCHANGED breakerVars
    BY <1>1 DEF Store, StoreRaises, StoreReturns, CancelStore
<1>2. ASSUME NEW c \in Callers, ChunkCalls(c) \/ ChunkWaits(c)
      PROVE  BreakerNext
    BY <1>2 DEF ChunkCalls, ChunkWaits, BreakerNext
<1>3. ASSUME NEW c \in Callers, BulkEnds(c) PROVE BreakerNext
    BY <1>3 DEF BulkEnds, BulkAnswered, BulkMalformed, BulkFails, BulkRefused, BulkUndecodable,
                BreakerNext
<1>4. ASSUME NEW c \in Callers, NEW wrote, ChunkCancelled(c, wrote) \/ ClientRetries(c, wrote)
      PROVE  [BreakerNext]_breakerVars
    BY <1>4 DEF ChunkCancelled, ClientRetries, BreakerNext
<1>5. CASE UNCHANGED vars
    BY <1>5 DEF vars
<1> QED
    BY <1>1, <1>2, <1>3, <1>4, <1>5 DEF Next

\* Whatever chunks do, the breaker is used as its own specification says, so
\* that everything proved of the breaker holds in the output (_resolve_chunk).
THEOREM OutputUsesBreaker == Spec => BreakerSpec
<1>1. Init => BreakerInit
    BY DEF Init
<1> QED
    BY <1>1, StepOfBreaker, PTL DEF Spec, BreakerSpec

\* The same breaker serves all chunks of all batches: one of them probes.
THEOREM OneChunkProbes == Spec => []SingleProbe
    BY OutputUsesBreaker, OnlyOneProbe, PTL

(***************************************************************************)
(* The inductive invariant.                                                *)
(***************************************************************************)
DataTypeOK ==
    /\ task \in [Callers -> {"none", "ready", "calling", "rejected", "over"}]
    /\ batch \in [Batches -> {"new", "storing", "stored", "cancelled"}]
    /\ pending \in [Callers -> SUBSET Events]
    /\ stored \subseteq Events /\ failed \subseteq Events
    /\ written \in [Events -> Nat]
    /\ uncertain \subseteq Events

\* What a chunk has still to resolve is its own and undecided.
PendingIsOpen ==
    \A c \in Callers : \A e \in pending[c] :
        ChunkOf[e] = c /\ e \notin stored /\ e \notin failed

\* Nothing of a new batch is decided.  Every event of one that is stored is
\* decided or pending, and nothing is pending in a chunk that is over.
BatchProgress ==
    /\ \A e \in Events : batch[BatchOf[ChunkOf[e]]] = "new" => e \notin stored \cup failed
    /\ \A e \in Events : batch[BatchOf[ChunkOf[e]]] = "storing" =>
            e \in stored \cup failed \/ e \in pending[ChunkOf[e]]
    /\ \A c \in Callers : batch[BatchOf[c]] = "storing" /\ task[c] = "over" => pending[c] = {}
    /\ \A c \in Callers : batch[BatchOf[c]] = "new" => pending[c] = {}

OutputInv ==
    DataTypeOK /\ PendingIsOpen /\ BatchProgress /\ StoredXorFailed /\ OneDocumentPerStoredEvent

LEMMA OwnBatch ==
    /\ \A c \in Callers : BatchOf[c] \in Batches
    /\ \A e \in Events : ChunkOf[e] \in Callers
    BY OutputAssumption DEF Batches

LEMMA OutputInitInv == Init => OutputInv
<1> SUFFICES ASSUME Init PROVE OutputInv
    OBVIOUS
<1>1. \A c \in Callers : batch[BatchOf[c]] = "new"
    BY OwnBatch DEF Init
<1>2. DataTypeOK /\ PendingIsOpen
    BY DEF Init, DataTypeOK, PendingIsOpen
<1>3. BatchProgress
    BY <1>1, OwnBatch DEF Init, BatchProgress
<1>4. StoredXorFailed /\ OneDocumentPerStoredEvent
    BY DEF Init, StoredXorFailed, OneDocumentPerStoredEvent
<1> QED
    BY <1>2, <1>3, <1>4 DEF OutputInv

\* Chunk c stores ok and fails bad of its pending events, and keeps rest.
LEMMA ResolveStep ==
    ASSUME OutputInv, NEW c \in Callers, batch[BatchOf[c]] = "storing",
           NEW ok \in SUBSET pending[c], NEW bad \in SUBSET pending[c],
           NEW rest \in SUBSET pending[c],
           ok \cap bad = {}, rest = pending[c] \ (ok \cup bad),
           stored' = stored \cup ok, failed' = failed \cup bad,
           pending' = [pending EXCEPT ![c] = rest],
           batch' = batch,
           NEW t \in {"calling", "rejected", "over"},
           task' = [task EXCEPT ![c] = t], t = "over" => rest = {}
    PROVE  /\ task' \in [Callers -> {"none", "ready", "calling", "rejected", "over"}]
           /\ batch' \in [Batches -> {"new", "storing", "stored", "cancelled"}]
           /\ pending' \in [Callers -> SUBSET Events]
           /\ stored' \subseteq Events /\ failed' \subseteq Events
           /\ PendingIsOpen' /\ BatchProgress' /\ StoredXorFailed'
<1> USE OutputAssumption
<1>1. DataTypeOK /\ PendingIsOpen /\ BatchProgress /\ StoredXorFailed
    BY DEF OutputInv
<1>2. /\ task' \in [Callers -> {"none", "ready", "calling", "rejected", "over"}]
      /\ batch' \in [Batches -> {"new", "storing", "stored", "cancelled"}]
      /\ pending' \in [Callers -> SUBSET Events]
      /\ stored' \subseteq Events /\ failed' \subseteq Events
    BY <1>1 DEF DataTypeOK
<1>3. pending'[c] = rest /\ \A d \in Callers \ {c} : pending'[d] = pending[d]
    BY <1>1 DEF DataTypeOK
<1>4. task'[c] = t /\ \A d \in Callers \ {c} : task'[d] = task[d]
    BY <1>1 DEF DataTypeOK
<1>5. \A e \in ok \cup bad : ChunkOf[e] = c /\ e \notin stored /\ e \notin failed
    BY <1>1 DEF PendingIsOpen
<1>6. PendingIsOpen'
    BY <1>1, <1>3, <1>5 DEF PendingIsOpen
<1>7. StoredXorFailed'
    BY <1>1, <1>5 DEF StoredXorFailed
<1>8. \A e \in Events : batch'[BatchOf[ChunkOf[e]]] = "new" => e \notin stored' \cup failed'
    BY <1>1, <1>5 DEF BatchProgress
<1>9. ASSUME NEW e \in Events, batch'[BatchOf[ChunkOf[e]]] = "storing"
      PROVE  e \in stored' \cup failed' \/ e \in pending'[ChunkOf[e]]
    <2>1. e \in stored \cup failed \/ e \in pending[ChunkOf[e]]
        BY <1>1, <1>9 DEF BatchProgress
    <2> QED
        BY <1>3, <2>1
<1>10. \A d \in Callers : batch'[BatchOf[d]] = "storing" /\ task'[d] = "over" => pending'[d] = {}
    BY <1>1, <1>3, <1>4 DEF BatchProgress
<1>11. \A d \in Callers : batch'[BatchOf[d]] = "new" => pending'[d] = {}
    BY <1>1, <1>3 DEF BatchProgress
<1> QED
    BY <1>2, <1>6, <1>7, <1>8, <1>9, <1>10, <1>11 DEF BatchProgress

\* The documents after a step of c that stores ok of its pending events: those
\* were written, and others only if the step's outcome is not known.
LEMMA DocumentStep ==
    ASSUME OutputInv, NEW c \in Callers,
           NEW ok \in SUBSET pending[c], NEW wrote \in SUBSET pending[c],
           ok \subseteq wrote,
           stored' = stored \cup ok, written' = Written(wrote),
           uncertain' \subseteq Events, uncertain \subseteq uncertain',
           wrote = ok \/ pending[c] \subseteq uncertain'
    PROVE  written' \in [Events -> Nat] /\ OneDocumentPerStoredEvent'
<1>1. DataTypeOK /\ PendingIsOpen /\ OneDocumentPerStoredEvent
    BY DEF OutputInv
<1>2. written' \in [Events -> Nat]
    BY <1>1 DEF DataTypeOK, Written
<1>3. ASSUME NEW e \in Events
      PROVE  IF e \in uncertain' THEN e \in stored' => written'[e] >= 1
                                 ELSE written'[e] = IF e \in stored' THEN 1 ELSE 0
    <2>1. written'[e] = IF e \in wrote THEN written[e] + 1 ELSE written[e]
        BY DEF Written
    <2>2. written[e] \in Nat
        BY <1>1 DEF DataTypeOK
    <2>3. IF e \in uncertain THEN e \in stored => written[e] >= 1
                             ELSE written[e] = IF e \in stored THEN 1 ELSE 0
        BY <1>1 DEF OneDocumentPerStoredEvent
    <2>4. e \in wrote => e \notin stored
        BY <1>1 DEF PendingIsOpen
    <2> QED
        BY <2>1, <2>2, <2>3, <2>4
<1> QED
    BY <1>2, <1>3 DEF OneDocumentPerStoredEvent

\* fail_remaining resolves the whole chunk.
LEMMA FailRemainingStep ==
    ASSUME OutputInv, NEW c \in Callers, batch[BatchOf[c]] = "storing", batch' = batch,
           NEW ok \in SUBSET pending[c], NEW bad \in SUBSET pending[c], ok \cap bad = {},
           FailRemaining(c, stored \cup ok, failed \cup bad)
    PROVE  /\ stored' = stored \cup ok
           /\ task' \in [Callers -> {"none", "ready", "calling", "rejected", "over"}]
           /\ batch' \in [Batches -> {"new", "storing", "stored", "cancelled"}]
           /\ pending' \in [Callers -> SUBSET Events]
           /\ stored' \subseteq Events /\ failed' \subseteq Events
           /\ PendingIsOpen' /\ BatchProgress' /\ StoredXorFailed'
<1> DEFINE all == pending[c] \ ok
<1>1. \A e \in pending[c] : e \notin stored
    BY DEF OutputInv, PendingIsOpen
<1>2. /\ stored' = stored \cup ok
      /\ failed' = failed \cup all
      /\ task' = [task EXCEPT ![c] = "over"]
      /\ pending' = [pending EXCEPT ![c] = {}]
    BY <1>1 DEF FailRemaining, Finish
<1>3. all \in SUBSET pending[c] /\ ok \cap all = {} /\ {} = pending[c] \ (ok \cup all)
    OBVIOUS
<1> HIDE DEF all
<1> QED
    BY <1>2, <1>3, ResolveStep

LEMMA OutputStepInv == OutputInv /\ [Next]_vars => OutputInv'
<1> SUFFICES ASSUME OutputInv, [Next]_vars PROVE OutputInv'
    OBVIOUS
<1>t. DataTypeOK /\ PendingIsOpen /\ BatchProgress /\ StoredXorFailed /\ OneDocumentPerStoredEvent
    BY DEF OutputInv
<1>1. ASSUME NEW b \in Batches, Store(b) PROVE OutputInv'
    <2>1. PICK bad \in SUBSET EventsOf(b) :
            /\ failed' = failed \cup bad
            /\ pending' = [c \in Callers |->
                    IF BatchOf[c] = b THEN {e \in Events \ bad : ChunkOf[e] = c} ELSE pending[c]]
            /\ task' = [c \in Callers |->
                    IF BatchOf[c] # b THEN task[c]
                    ELSE IF {e \in Events \ bad : ChunkOf[e] = c} = {} THEN "over" ELSE "ready"]
        BY <1>1 DEF Store
    <2>2. /\ batch[b] = "new" /\ batch' = [batch EXCEPT ![b] = "storing"]
          /\ UNCHANGED <<stored, written, uncertain>>
        BY <1>1 DEF Store
    <2>3. \A e \in EventsOf(b) : e \notin stored \cup failed
        BY <1>t, <2>2 DEF BatchProgress, EventsOf
    <2>4. bad \subseteq Events /\ \A e \in bad : BatchOf[ChunkOf[e]] = b
        BY DEF EventsOf
    <2>5. DataTypeOK'
        BY <1>t, <2>1, <2>2, <2>4 DEF DataTypeOK
    <2>6. PendingIsOpen'
        <3>1. ASSUME NEW c \in Callers, NEW e \in pending'[c]
              PROVE  ChunkOf[e] = c /\ e \notin stored' /\ e \notin failed'
            <4>1. CASE BatchOf[c] = b
                <5>1. e \in Events \ bad /\ ChunkOf[e] = c
                    BY <2>1, <3>1, <4>1
                <5>2. e \in EventsOf(b)
                    BY <4>1, <5>1 DEF EventsOf
                <5> QED
                    BY <2>1, <2>2, <2>3, <5>1, <5>2
            <4>2. CASE BatchOf[c] # b
                <5>1. e \in pending[c]
                    BY <2>1, <3>1, <4>2
                <5>2. ChunkOf[e] = c /\ e \notin stored /\ e \notin failed
                    BY <1>t, <5>1 DEF PendingIsOpen
                <5>3. e \notin bad
                    BY <2>4, <4>2, <5>2
                <5> QED
                    BY <2>1, <2>2, <5>2, <5>3
            <4> QED
                BY <4>1, <4>2
        <3> QED
            BY <3>1 DEF PendingIsOpen
    <2>7. \A d \in Batches : batch'[d] = IF d = b THEN "storing" ELSE batch[d]
        BY <1>t, <2>2 DEF DataTypeOK
    <2>8. BatchProgress'
        <3>1. ASSUME NEW e \in Events, batch'[BatchOf[ChunkOf[e]]] = "new"
              PROVE  e \notin stored' \cup failed'
            <4>1. BatchOf[ChunkOf[e]] # b /\ batch[BatchOf[ChunkOf[e]]] = "new"
                BY <2>7, <3>1, OwnBatch
            <4> QED
                BY <1>t, <2>1, <2>2, <2>4, <4>1 DEF BatchProgress
        <3>2. ASSUME NEW e \in Events, batch'[BatchOf[ChunkOf[e]]] = "storing"
              PROVE  e \in stored' \cup failed' \/ e \in pending'[ChunkOf[e]]
            <4>1. CASE BatchOf[ChunkOf[e]] = b
                BY <2>1, <4>1, OwnBatch
            <4>2. CASE BatchOf[ChunkOf[e]] # b
                <5>1. batch[BatchOf[ChunkOf[e]]] = "storing"
                    BY <2>7, <3>2, <4>2, OwnBatch
                <5>2. e \in stored \cup failed \/ e \in pending[ChunkOf[e]]
                    BY <1>t, <5>1 DEF BatchProgress
                <5> QED
                    BY <2>1, <2>2, <4>2, <5>2, OwnBatch
            <4> QED
                BY <4>1, <4>2
        <3>3. ASSUME NEW c \in Callers, batch'[BatchOf[c]] = "storing", task'[c] = "over"
              PROVE  pending'[c] = {}
            <4>1. CASE BatchOf[c] = b
                BY <2>1, <3>3, <4>1
            <4>2. CASE BatchOf[c] # b
                <5>1. batch[BatchOf[c]] = "storing" /\ task[c] = "over"
                    BY <2>1, <2>7, <3>3, <4>2, OwnBatch
                <5> QED
                    BY <1>t, <2>1, <4>2, <5>1 DEF BatchProgress
            <4> QED
                BY <4>1, <4>2
        <3>4. ASSUME NEW c \in Callers, batch'[BatchOf[c]] = "new"
              PROVE  pending'[c] = {}
            <4>1. BatchOf[c] # b /\ batch[BatchOf[c]] = "new"
                BY <2>7, <3>4, OwnBatch
            <4> QED
                BY <1>t, <2>1, <4>1 DEF BatchProgress
        <3> QED
            BY <3>1, <3>2, <3>3, <3>4 DEF BatchProgress
    <2>9. StoredXorFailed' /\ OneDocumentPerStoredEvent'
        BY <1>t, <2>1, <2>2, <2>3 DEF StoredXorFailed, OneDocumentPerStoredEvent
    <2> QED
        BY <2>5, <2>6, <2>8, <2>9 DEF OutputInv
\* A batch leaves the states in which it owes anything.
<1>l. ASSUME NEW b \in Batches, NEW how \in {"stored", "cancelled"},
             batch[b] # how, batch' = [batch EXCEPT ![b] = how],
             task' \in [Callers -> {"none", "ready", "calling", "rejected", "over"}],
             \A c \in Callers : BatchOf[c] # b => task'[c] = task[c],
             stored' = stored, failed \subseteq failed',
             failed' \subseteq failed \cup EventsOf(b),
             failed' \cap stored = {},
             UNCHANGED <<pending, written, uncertain>>,
             \A c \in ChunksOf(b) : pending[c] \cap failed' = {}
      PROVE  OutputInv'
    <2>1. \A d \in Batches : batch'[d] = IF d = b THEN how ELSE batch[d]
        BY <1>t, <1>l DEF DataTypeOK
    <2>2. DataTypeOK'
        BY <1>t, <1>l DEF DataTypeOK, EventsOf
    <2>3. PendingIsOpen'
        <3>1. ASSUME NEW c \in Callers, NEW e \in pending[c]
              PROVE  ChunkOf[e] = c /\ e \notin stored' /\ e \notin failed'
            <4>1. ChunkOf[e] = c /\ e \notin stored /\ e \notin failed
                BY <1>t, <3>1 DEF PendingIsOpen
            <4>2. e \in failed' => BatchOf[c] = b
                BY <1>l, <4>1 DEF EventsOf
            <4> QED
                BY <1>l, <3>1, <4>1, <4>2 DEF ChunksOf
        <3> QED
            BY <1>l, <3>1 DEF PendingIsOpen
    <2>4. BatchProgress'
        <3>1. \A e \in Events : BatchOf[ChunkOf[e]] # b => (e \in failed' <=> e \in failed)
            BY <1>l DEF EventsOf
        <3>2. \A c \in Callers : batch'[BatchOf[c]] \in {"new", "storing"} =>
                BatchOf[c] # b /\ batch'[BatchOf[c]] = batch[BatchOf[c]]
            BY <1>l, <2>1, OwnBatch
        <3> QED
            BY <1>t, <1>l, <3>1, <3>2, OwnBatch DEF BatchProgress
    <2>5. StoredXorFailed' /\ OneDocumentPerStoredEvent'
        BY <1>t, <1>l DEF StoredXorFailed, OneDocumentPerStoredEvent
    <2> QED
        BY <2>2, <2>3, <2>4, <2>5 DEF OutputInv
<1>2. ASSUME NEW b \in Batches, StoreRaises(b) PROVE OutputInv'
    <2>1. \A e \in EventsOf(b) : e \notin stored \cup failed
        BY <1>t, <1>2 DEF StoreRaises, BatchProgress, EventsOf
    <2>2. \A c \in ChunksOf(b) : pending[c] = {}
        BY <1>t, <1>2 DEF StoreRaises, BatchProgress, ChunksOf
    <2>3. failed' \cap stored = {}
        BY <1>t, <1>2, <2>1 DEF StoreRaises, StoredXorFailed
    <2>4. task' \in [Callers -> {"none", "ready", "calling", "rejected", "over"}]
        BY <1>t, <1>2 DEF StoreRaises, DataTypeOK
    <2> QED
        BY <1>2, <1>l, <2>2, <2>3, <2>4 DEF StoreRaises
<1>3. ASSUME NEW b \in Batches, StoreReturns(b) PROVE OutputInv'
    <2>1. \A c \in ChunksOf(b) : pending[c] = {}
        BY <1>t, <1>3 DEF StoreReturns, BatchProgress, ChunksOf
    <2>2. failed' \cap stored = {}
        BY <1>t, <1>3 DEF StoreReturns, StoredXorFailed
    <2> QED
        BY <1>t, <1>3, <1>l, <2>1, <2>2 DEF StoreReturns, DataTypeOK
<1>4. ASSUME NEW b \in Batches, CancelStore(b) PROVE OutputInv'
    <2>1. \A c \in ChunksOf(b) : pending[c] \cap failed' = {}
        BY <1>t, <1>4 DEF CancelStore, PendingIsOpen, ChunksOf
    <2>2. failed' \cap stored = {}
        BY <1>t, <1>4 DEF CancelStore, StoredXorFailed
    <2> QED
        BY <1>t, <1>4, <1>l, <2>1, <2>2 DEF CancelStore, DataTypeOK
<1>5. ASSUME NEW c \in Callers, ChunkCalls(c) PROVE OutputInv'
    <2>1. \A d \in Callers : task'[d] = "over" => task[d] = "over"
        BY <1>t, <1>5 DEF ChunkCalls, DataTypeOK
    <2> QED
        BY <1>t, <1>5, <2>1 DEF ChunkCalls, eventVars, OutputInv, DataTypeOK, PendingIsOpen,
            BatchProgress, StoredXorFailed, OneDocumentPerStoredEvent
<1>6. CASE UNCHANGED <<chunkVars, eventVars>>
    BY <1>t, <1>6 DEF chunkVars, eventVars, OutputInv, DataTypeOK, PendingIsOpen,
        BatchProgress, StoredXorFailed, OneDocumentPerStoredEvent
<1>7. ASSUME NEW c \in Callers, NEW ok \in SUBSET pending[c], NEW rejected \in SUBSET pending[c],
             BulkAnswered(c, ok, rejected)
      PROVE  OutputInv'
    <2> DEFINE refused == pending[c] \ (ok \cup rejected)
    <2>1. /\ batch[BatchOf[c]] = "storing" /\ batch' = batch
          /\ ok \cap rejected = {}
          /\ written' = Written(ok) /\ uncertain' = uncertain
        BY <1>7 DEF BulkAnswered, IsCalling
    <2>2. refused \in SUBSET pending[c] /\ ok \cap refused = {}
        OBVIOUS
    <2>3. /\ stored' = stored \cup ok
          /\ task' \in [Callers -> {"none", "ready", "calling", "rejected", "over"}]
          /\ batch' \in [Batches -> {"new", "storing", "stored", "cancelled"}]
          /\ pending' \in [Callers -> SUBSET Events]
          /\ stored' \subseteq Events /\ failed' \subseteq Events
          /\ PendingIsOpen' /\ BatchProgress' /\ StoredXorFailed'
        <3>1. CASE rejected # {} /\ AttemptsExhausted(c)
            <4>1. FailRemaining(c, stored \cup ok, failed \cup refused)
                BY <1>7, <3>1 DEF BulkAnswered
            <4> QED
                BY <2>1, <2>2, <4>1, FailRemainingStep
        <3>2. CASE ~ (rejected # {} /\ AttemptsExhausted(c))
            <4>1. stored' = stored \cup ok /\ failed' = failed \cup refused
                BY <1>7, <3>2 DEF BulkAnswered
            <4>2. rejected = pending[c] \ (ok \cup refused)
                BY <2>1
            <4>3. PICK t \in {"calling", "rejected", "over"} :
                    /\ task' = [task EXCEPT ![c] = t]
                    /\ pending' = [pending EXCEPT ![c] = rejected]
                    /\ t = "over" => rejected = {}
                BY <1>7, <3>2 DEF BulkAnswered, Finish, Retried
            <4> QED
                BY <2>1, <2>2, <4>1, <4>2, <4>3, ResolveStep
        <3> QED
            BY <3>1, <3>2
    <2>4. written' \in [Events -> Nat] /\ OneDocumentPerStoredEvent' /\ uncertain' \subseteq Events
        BY <1>t, <2>1, <2>3, DocumentStep DEF DataTypeOK
    <2> QED
        BY <2>3, <2>4 DEF OutputInv, DataTypeOK
<1>8. ASSUME NEW c \in Callers, NEW ok \in SUBSET pending[c], NEW wrote \in SUBSET pending[c],
             NEW refused \in SUBSET pending[c], BulkMalformed(c, ok, wrote, refused)
      PROVE  OutputInv'
    <2>1. /\ batch[BatchOf[c]] = "storing" /\ batch' = batch
          /\ ok \subseteq wrote /\ ok \cap refused = {}
          /\ written' = Written(wrote) /\ uncertain' = uncertain \cup pending[c]
          /\ FailRemaining(c, stored \cup ok, failed \cup refused)
        BY <1>8 DEF BulkMalformed, IsCalling
    <2>2. uncertain' \subseteq Events
        BY <1>t, <2>1 DEF DataTypeOK
    <2>3. /\ stored' = stored \cup ok
          /\ task' \in [Callers -> {"none", "ready", "calling", "rejected", "over"}]
          /\ batch' \in [Batches -> {"new", "storing", "stored", "cancelled"}]
          /\ pending' \in [Callers -> SUBSET Events]
          /\ stored' \subseteq Events /\ failed' \subseteq Events
          /\ PendingIsOpen' /\ BatchProgress' /\ StoredXorFailed'
        BY <2>1, FailRemainingStep
    <2>4. written' \in [Events -> Nat] /\ OneDocumentPerStoredEvent'
        BY <2>1, <2>2, <2>3, DocumentStep
    <2> QED
        BY <2>2, <2>3, <2>4 DEF OutputInv, DataTypeOK
\* The whole chunk fails; some of it may have been written.
<1>f. ASSUME NEW c \in Callers, NEW wrote \in SUBSET pending[c],
             batch[BatchOf[c]] = "storing", batch' = batch, FailRemaining(c, stored, failed),
             written' = Written(wrote),
             uncertain \subseteq uncertain', uncertain' \subseteq Events,
             wrote = {} \/ pending[c] \subseteq uncertain'
      PROVE  OutputInv'
    <2>1. /\ FailRemaining(c, stored \cup {}, failed \cup {})
          /\ {} \in SUBSET pending[c] /\ {} \cap {} = {}
        BY <1>f DEF FailRemaining
    <2>2. /\ stored' = stored \cup {}
          /\ task' \in [Callers -> {"none", "ready", "calling", "rejected", "over"}]
          /\ batch' \in [Batches -> {"new", "storing", "stored", "cancelled"}]
          /\ pending' \in [Callers -> SUBSET Events]
          /\ stored' \subseteq Events /\ failed' \subseteq Events
          /\ PendingIsOpen' /\ BatchProgress' /\ StoredXorFailed'
        BY <1>f, <2>1, FailRemainingStep
    <2>3. {} \in SUBSET pending[c] /\ {} \subseteq wrote
        OBVIOUS
    <2>4. written' \in [Events -> Nat] /\ OneDocumentPerStoredEvent'
        BY <1>f, <2>2, <2>3, DocumentStep
    <2> QED
        BY <1>f, <2>2, <2>4 DEF OutputInv, DataTypeOK
\* Nothing is decided, and some of the chunk may have been written.
<1>w. ASSUME NEW c \in Callers, NEW wrote \in SUBSET pending[c],
             UNCHANGED <<batch, pending, stored, failed>>,
             task' \in [Callers -> {"none", "ready", "calling", "rejected", "over"}],
             \A d \in Callers : batch[BatchOf[d]] = "storing" => task'[d] = task[d],
             written' = Written(wrote),
             uncertain \subseteq uncertain', uncertain' \subseteq Events,
             wrote = {} \/ pending[c] \subseteq uncertain'
      PROVE  OutputInv'
    <2>1. {} \in SUBSET pending[c] /\ {} \subseteq wrote /\ stored' = stored \cup {}
        BY <1>w
    <2>2. written' \in [Events -> Nat] /\ OneDocumentPerStoredEvent'
        BY <1>w, <2>1, DocumentStep
    <2>3. PendingIsOpen' /\ BatchProgress' /\ StoredXorFailed'
        BY <1>t, <1>w DEF PendingIsOpen, BatchProgress, StoredXorFailed
    <2> QED
        BY <1>t, <1>w, <2>2, <2>3 DEF OutputInv, DataTypeOK
<1>9. ASSUME NEW c \in Callers, NEW wrote \in SUBSET pending[c], BulkFails(c, wrote)
      PROVE  OutputInv'
    <2>1. /\ batch[BatchOf[c]] = "storing" /\ batch' = batch
          /\ written' = Written(wrote) /\ uncertain' = uncertain \cup pending[c]
        BY <1>9 DEF BulkFails, IsCalling
    <2>2. uncertain' \subseteq Events
        BY <1>t, <2>1 DEF DataTypeOK
    <2>3. CASE FailRemaining(c, stored, failed)
        BY <1>f, <2>1, <2>2, <2>3
    <2>4. CASE UNCHANGED <<stored, failed, task, pending>>
        BY <1>t, <1>w, <2>1, <2>2, <2>4 DEF DataTypeOK
    <2> QED
        BY <1>9, <2>3, <2>4 DEF BulkFails
<1>10. ASSUME NEW c \in Callers, BulkRefused(c) PROVE OutputInv'
    <2>1. written' = Written({})
        BY <1>t, <1>10 DEF BulkRefused, Written, DataTypeOK
    <2>2. uncertain' \subseteq Events
        BY <1>t, <1>10 DEF BulkRefused, DataTypeOK
    <2> QED
        BY <1>10, <1>f, <2>1, <2>2 DEF BulkRefused, IsCalling
<1>11. ASSUME NEW c \in Callers, NEW wrote \in SUBSET pending[c], ChunkCancelled(c, wrote)
       PROVE  OutputInv'
    <2>1. \A d \in Callers : batch[BatchOf[d]] = "storing" => task'[d] = task[d]
        BY <1>t, <1>11 DEF ChunkCancelled, DataTypeOK
    <2>2. task' \in [Callers -> {"none", "ready", "calling", "rejected", "over"}]
        BY <1>t, <1>11 DEF ChunkCancelled, DataTypeOK
    <2>3. /\ uncertain \subseteq uncertain' /\ uncertain' \subseteq Events
          /\ wrote = {} \/ pending[c] \subseteq uncertain'
        BY <1>t, <1>11 DEF ChunkCancelled, DataTypeOK
    <2> QED
        BY <1>11, <1>w, <2>1, <2>2, <2>3 DEF ChunkCancelled
<1>12. ASSUME NEW c \in Callers, ChunkWaits(c) PROVE OutputInv'
    BY <1>6, <1>12 DEF ChunkWaits
<1>13. ASSUME NEW c \in Callers, NEW wrote \in SUBSET pending[c], BulkUndecodable(c, wrote)
       PROVE  OutputInv'
    <2>1. uncertain' = uncertain \cup pending[c] /\ uncertain' \subseteq Events
        BY <1>t, <1>13 DEF BulkUndecodable, DataTypeOK
    <2> QED
        BY <1>13, <1>f, <2>1 DEF BulkUndecodable, IsCalling
<1>14. ASSUME NEW c \in Callers, NEW wrote \in SUBSET pending[c], ClientRetries(c, wrote)
       PROVE  OutputInv'
    <2>1. uncertain' = uncertain \cup pending[c] /\ uncertain' \subseteq Events
        BY <1>t, <1>14 DEF ClientRetries, DataTypeOK
    <2>2. UNCHANGED <<batch, pending, stored, failed, task>> /\ written' = Written(wrote)
        BY <1>14 DEF ClientRetries, chunkVars
    <2>3. task' \in [Callers -> {"none", "ready", "calling", "rejected", "over"}]
        BY <1>t, <2>2 DEF DataTypeOK
    <2> QED
        BY <1>w, <2>1, <2>2, <2>3
<1>15. ASSUME NEW c \in Callers, BulkEnds(c) PROVE OutputInv'
    BY <1>7, <1>8, <1>9, <1>10, <1>13, <1>15 DEF BulkEnds
<1>16. CASE UNCHANGED vars
    BY <1>6, <1>16 DEF vars
<1> QED
    BY <1>1, <1>2, <1>3, <1>4, <1>5, <1>11, <1>12, <1>14, <1>15, <1>16 DEF Next

LEMMA OutputInvariance == Spec => []OutputInv
    BY OutputInitInv, OutputStepInv, PTL DEF Spec

(***************************************************************************)
(* The theorems.                                                           *)
(***************************************************************************)

\* No event is both delivered and reported as an error (store).
THEOREM DecidedOnce == Spec => []StoredXorFailed
<1>1. OutputInv => StoredXorFailed
    BY DEF OutputInv
<1> QED
    BY <1>1, OutputInvariance, PTL

\* The check at the end of store never finds an undecided event.
THEOREM EveryEventIsDecided == Spec => []NoInvariantBroken
<1>1. OutputInv => NoInvariantBroken
    <2> SUFFICES ASSUME OutputInv, NEW b \in Batches, batch[b] = "storing",
                        \A c \in ChunksOf(b) : task[c] = "over",
                        NEW e \in EventsOf(b)
                 PROVE  e \in stored \cup failed
        BY DEF NoInvariantBroken
    <2>1. e \in Events /\ BatchOf[ChunkOf[e]] = b /\ ChunkOf[e] \in ChunksOf(b)
        BY OwnBatch DEF EventsOf, ChunksOf
    <2>2. pending[ChunkOf[e]] = {}
        BY <2>1, OwnBatch DEF OutputInv, BatchProgress
    <2> QED
        BY <2>1, <2>2 DEF OutputInv, BatchProgress
<1> QED
    BY <1>1, OutputInvariance, PTL

\* Retrying rejected items is duplicate-free (_resolve_response_items).
THEOREM RejectionsDuplicateFree == Spec => []OneDocumentPerStoredEvent
<1>1. OutputInv => OneDocumentPerStoredEvent
    BY DEF OutputInv
<1> QED
    BY <1>1, OutputInvariance, PTL

(***************************************************************************)
(* Types, and the bounds of the counters.                                  *)
(***************************************************************************)

\* Attempts are counted from 0 when the batch is stored, and a chunk that was
\* rejected has one left.
AttemptsCounted ==
    /\ attempt \in [Callers -> Nat]
    /\ \A c \in Callers :
        /\ attempt[c] <= MaxItemRetries + 1
        /\ task[c] = "rejected" => attempt[c] <= MaxItemRetries
        /\ task[c] = "ready" => attempt[c] = 0
        /\ batch[BatchOf[c]] = "new" => attempt[c] = 0
    /\ unclear \in 0 .. MaxUnclear
    /\ cancels \in 0 .. MaxCancels

LEMMA AttemptsInitially == Init => AttemptsCounted
    BY OwnBatch, OutputAssumption DEF Init, AttemptsCounted

\* A step that calls nothing, and after which a chunk is rejected only if it
\* has attempts left, keeps the bounds.
LEMMA AttemptsKept ==
    ASSUME AttemptsCounted, attempt' = attempt,
           unclear' \in 0 .. MaxUnclear, cancels' \in 0 .. MaxCancels,
           \A c \in Callers :
            /\ task'[c] = "rejected" => task[c] = "rejected" \/ attempt[c] <= MaxItemRetries
            /\ task'[c] = "ready" => task[c] = "ready" \/ batch[BatchOf[c]] = "new"
            /\ batch'[BatchOf[c]] = "new" => batch[BatchOf[c]] = "new"
    PROVE  AttemptsCounted'
    BY DEF AttemptsCounted

LEMMA AttemptsStep == DataTypeOK /\ AttemptsCounted /\ [Next]_vars => AttemptsCounted'
<1> SUFFICES ASSUME DataTypeOK, AttemptsCounted, [Next]_vars PROVE AttemptsCounted'
    OBVIOUS
<1>1. /\ MaxItemRetries \in Nat /\ MaxUnclear \in Nat /\ MaxCancels \in Nat
      /\ unclear \in 0 .. MaxUnclear /\ cancels \in 0 .. MaxCancels
      /\ attempt \in [Callers -> Nat]
    BY OutputAssumption DEF AttemptsCounted
<1>2. ASSUME NEW b \in Batches, Store(b) \/ StoreRaises(b) \/ StoreReturns(b)
      PROVE  AttemptsCounted'
    <2>1. /\ attempt' = attempt /\ unclear' = unclear /\ cancels' = cancels
          /\ \A c \in Callers :
                /\ task'[c] = "rejected" => task[c] = "rejected"
                /\ task'[c] = "ready" => task[c] = "ready" \/ batch[BatchOf[c]] = "new"
                /\ batch'[BatchOf[c]] = "new" => batch[BatchOf[c]] = "new"
        BY <1>2, OwnBatch DEF Store, StoreRaises, StoreReturns, DataTypeOK
    <2> QED
        BY <1>1, <2>1, AttemptsKept
<1>3. ASSUME NEW b \in Batches, CancelStore(b) PROVE AttemptsCounted'
    <2>1. /\ attempt' = attempt /\ unclear' = unclear /\ task' = task
          /\ cancels < MaxCancels /\ cancels' = cancels + 1
          /\ \A c \in Callers : batch'[BatchOf[c]] = "new" => batch[BatchOf[c]] = "new"
        BY <1>3, OwnBatch DEF CancelStore, DataTypeOK
    <2>2. cancels' \in 0 .. MaxCancels
        BY <1>1, <2>1
    <2> QED
        BY <1>1, <2>1, <2>2, AttemptsKept
<1>4. ASSUME NEW c \in Callers, ChunkCalls(c) PROVE AttemptsCounted'
    <2>1. /\ task' = [task EXCEPT ![c] = "calling"] /\ attempt' = [attempt EXCEPT ![c] = attempt[c] + 1]
          /\ task[c] \in {"ready", "rejected"} /\ batch[BatchOf[c]] = "storing"
          /\ batch' = batch /\ unclear' = unclear /\ cancels' = cancels
        BY <1>4 DEF ChunkCalls, eventVars
    <2>2. attempt[c] <= MaxItemRetries
        BY <1>1, <2>1 DEF AttemptsCounted
    <2> QED
        BY <1>1, <2>1, <2>2 DEF AttemptsCounted, DataTypeOK
<1>5. ASSUME NEW c \in Callers, ChunkWaits(c) PROVE AttemptsCounted'
    BY <1>1, <1>5, AttemptsKept DEF ChunkWaits, chunkVars, eventVars
<1>6. ASSUME NEW c \in Callers, NEW ok, NEW rejected, BulkAnswered(c, ok, rejected)
      PROVE  AttemptsCounted'
    <2>1. /\ attempt' = attempt /\ batch' = batch /\ unclear' = unclear /\ cancels' = cancels
          /\ \/ task' = [task EXCEPT ![c] = "over"]
             \/ /\ task' = [task EXCEPT ![c] = "rejected"] /\ ~ AttemptsExhausted(c)
        BY <1>6 DEF BulkAnswered, FailRemaining, Finish
    <2>2. ~ AttemptsExhausted(c) => attempt[c] <= MaxItemRetries
        BY <1>1 DEF AttemptsExhausted
    <2> QED
        BY <1>1, <2>1, <2>2, AttemptsKept DEF DataTypeOK
<1>7. ASSUME NEW c \in Callers, NEW ok, NEW wrote, NEW refused, BulkMalformed(c, ok, wrote, refused)
      PROVE  AttemptsCounted'
    <2>1. /\ attempt' = attempt /\ batch' = batch /\ cancels' = cancels
          /\ unclear < MaxUnclear /\ unclear' = unclear + 1
          /\ task' = [task EXCEPT ![c] = "over"]
        BY <1>7 DEF BulkMalformed, FailRemaining, Finish
    <2>2. unclear' \in 0 .. MaxUnclear
        BY <1>1, <2>1
    <2> QED
        BY <1>1, <2>1, <2>2, AttemptsKept DEF DataTypeOK
<1>8. ASSUME NEW c \in Callers, NEW wrote, BulkFails(c, wrote) \/ BulkRefused(c) \/ ChunkCancelled(c, wrote)
      PROVE  AttemptsCounted'
    <2>1. /\ attempt' = attempt /\ batch' = batch /\ unclear' = unclear /\ cancels' = cancels
          /\ task' = task \/ task' = [task EXCEPT ![c] = "over"]
        BY <1>8 DEF BulkFails, BulkRefused, ChunkCancelled, FailRemaining, Finish
    <2> QED
        BY <1>1, <2>1, AttemptsKept DEF DataTypeOK
<1>9. ASSUME NEW c \in Callers, NEW wrote, BulkUndecodable(c, wrote) \/ ClientRetries(c, wrote)
      PROVE  AttemptsCounted'
    <2>1. /\ attempt' = attempt /\ batch' = batch /\ cancels' = cancels
          /\ unclear < MaxUnclear /\ unclear' = unclear + 1
          /\ task' = task \/ task' = [task EXCEPT ![c] = "over"]
        BY <1>9 DEF BulkUndecodable, ClientRetries, FailRemaining, Finish, chunkVars
    <2>2. unclear' \in 0 .. MaxUnclear
        BY <1>1, <2>1
    <2> QED
        BY <1>1, <2>1, <2>2, AttemptsKept DEF DataTypeOK
<1>10. CASE UNCHANGED vars
    BY <1>1, <1>10, AttemptsKept DEF vars, chunkVars, eventVars
<1> QED
    BY <1>2, <1>3, <1>4, <1>5, <1>6, <1>7, <1>8, <1>9, <1>10 DEF Next, BulkEnds

\* The types of the output and its breaker; a chunk is sent once more than
\* max_bulk_item_retries at most, however it waits for the breaker between its
\* attempts (_resolve_chunk).
THEOREM OutputTypeCorrect == Spec => []OutputTypeOK
<1>1. Spec => []TypeOK
    BY OutputUsesBreaker, TypeCorrect, PTL
<1>2. Spec => []DataTypeOK
    <2>1. OutputInv => DataTypeOK
        BY DEF OutputInv
    <2> QED
        BY <2>1, OutputInvariance, PTL
<1>3. Spec => []AttemptsCounted
    BY <1>2, AttemptsInitially, AttemptsStep, PTL DEF Spec
<1>4. TypeOK /\ DataTypeOK /\ AttemptsCounted => OutputTypeOK
    BY OutputAssumption DEF DataTypeOK, AttemptsCounted, OutputTypeOK
<1> QED
    BY <1>1, <1>2, <1>3, <1>4, PTL
===============================================================================
