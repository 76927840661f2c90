--------------------------- MODULE OpensearchOutput ---------------------------
(***************************************************************************)
(* The OpenSearch output (logprep/ng/connector/opensearch/output.py) under *)
(* store of logprep/ng/abc/output.py.                                      *)
(*                                                                         *)
(* A batch is split into chunks, and each chunk is a task that sends bulk  *)
(* requests through the circuit breaker until every event of it is stored  *)
(* or failed: a chunk is a caller of CircuitBreaker.  Batches may overlap  *)
(* (a timer's flush and one by size), so all chunks share the breaker.     *)
(*                                                                         *)
(* External to src/: OpenSearch.  It writes the documents of a request it  *)
(* answers as its answer says; of a request whose outcome is unknown it    *)
(* has written any.  Documents carry no id of their own.                   *)
(***************************************************************************)
EXTENDS CircuitBreaker

CONSTANTS
    Events,             \* the events of all batches
    ChunkOf,            \* event -> the chunk _chunks puts it into
    BatchOf,            \* chunk -> the batch it is part of
    MaxItemRetries,     \* max_bulk_item_retries
    MaxUnclear,         \* bound: answers that cannot be read, requests the client repeats
    MaxCancels          \* bound: store calls that are cancelled

ASSUME OutputAssumption ==
    /\ ChunkOf \in [Events -> Callers]
    /\ MaxItemRetries \in Nat
    /\ MaxUnclear \in Nat
    /\ MaxCancels \in Nat

Batches == {BatchOf[c] : c \in Callers}
ChunksOf(b) == {c \in Callers : BatchOf[c] = b}
EventsOf(b) == {e \in Events : BatchOf[ChunkOf[e]] = b}

VARIABLES
    batch,      \* batch -> state of its store call
    task,       \* chunk -> state of _resolve_chunk
    attempt,    \* chunk -> attempt
    pending,    \* chunk -> events of the chunk that are not resolved
    stored,     \* events with stored = True
    failed,     \* events with errors
    written,    \* external: event -> documents OpenSearch has written for it
    uncertain,  \* history: events of a request whose outcome is not known
    unclear, cancels    \* counters of the bounds

eventVars == <<stored, failed, written, uncertain, unclear, cancels>>
chunkVars == <<batch, task, attempt, pending>>
vars == <<breakerVars, chunkVars, eventVars>>

OutputTypeOK ==
    /\ TypeOK
    /\ batch \in [Batches -> {"new", "storing", "stored", "cancelled"}]
    /\ task \in [Callers -> {"none", "ready", "calling", "rejected", "over"}]
    /\ attempt \in [Callers -> 0 .. MaxItemRetries + 1]
    /\ pending \in [Callers -> SUBSET Events]
    /\ stored \subseteq Events /\ failed \subseteq Events
    /\ written \in [Events -> Nat]
    /\ uncertain \subseteq Events
    /\ unclear \in 0 .. MaxUnclear
    /\ cancels \in 0 .. MaxCancels

Init ==
    /\ BreakerInit
    /\ batch = [b \in Batches |-> "new"]
    /\ task = [c \in Callers |-> "none"]
    /\ attempt = [c \in Callers |-> 0]
    /\ pending = [c \in Callers |-> {}]
    /\ stored = {} /\ failed = {} /\ uncertain = {}
    /\ written = [e \in Events |-> 0]
    /\ unclear = 0 /\ cancels = 0

(***************************************************************************)
(* store, _store and _chunks.                                              *)
(***************************************************************************)

\* The batch is serialized; an event that cannot be is failed, the others
\* are put into chunks.  A chunk without events is never made.
Store(b) ==
    /\ batch[b] = "new"
    /\ batch' = [batch EXCEPT ![b] = "storing"]
    /\ \E bad \in SUBSET EventsOf(b) :
        LET chunk(c) == {e \in Events \ bad : ChunkOf[e] = c}
        IN  /\ failed' = failed \cup bad
            /\ pending' = [c \in Callers |-> IF BatchOf[c] = b THEN chunk(c) ELSE pending[c]]
            /\ task' = [c \in Callers |->
                            IF BatchOf[c] # b THEN task[c]
                            ELSE IF chunk(c) = {} THEN "over" ELSE "ready"]
    /\ UNCHANGED <<breakerVars, attempt, stored, written, uncertain, unclear, cancels>>

\* Something else is raised while the batch is prepared: store fails all of
\* it, and no chunk is sent.
StoreRaises(b) ==
    /\ batch[b] = "new"
    /\ batch' = [batch EXCEPT ![b] = "stored"]
    /\ failed' = failed \cup EventsOf(b)
    /\ task' = [c \in Callers |-> IF BatchOf[c] = b THEN "over" ELSE task[c]]
    /\ UNCHANGED <<breakerVars, attempt, pending, stored, written, uncertain, unclear, cancels>>

\* All chunks of the batch are over.  What is neither stored nor failed is
\* failed as "invariant broken".
StoreReturns(b) ==
    /\ batch[b] = "storing"
    /\ \A c \in ChunksOf(b) : task[c] = "over"
    /\ batch' = [batch EXCEPT ![b] = "stored"]
    /\ failed' = failed \cup (EventsOf(b) \ stored)
    /\ UNCHANGED <<breakerVars, task, attempt, pending, stored, written, uncertain, unclear, cancels>>

(***************************************************************************)
(* _resolve_chunk                                                          *)
(***************************************************************************)

\* The next attempt of the item-level loop; a retry comes after its backoff.
ChunkCalls(c) ==
    /\ batch[BatchOf[c]] = "storing"
    /\ task[c] \in {"ready", "rejected"}
    /\ Call(c)
    /\ task' = [task EXCEPT ![c] = "calling"]
    /\ attempt' = [attempt EXCEPT ![c] = @ + 1]
    /\ UNCHANGED <<batch, pending, eventVars>>

IsCalling(c) == batch[BatchOf[c]] = "storing" /\ task[c] = "calling"

\* The chunk's task waits and sends within the breaker.
ChunkWaits(c) ==
    /\ IsCalling(c)
    /\ EnterLock(c) \/ BackoffEnds(c) \/ EnterProbe(c) \/ EnterSend(c)
    /\ UNCHANGED <<chunkVars, eventVars>>

Finish(c) == task' = [task EXCEPT ![c] = "over"] /\ pending' = [pending EXCEPT ![c] = {}]

\* Mutant: an event that is stored already is failed as well.
FailAll(c, alreadyStored, alreadyFailed) ==
    /\ stored' = alreadyStored
    /\ failed' = alreadyFailed \cup pending[c]
    /\ Finish(c)

\* fail_remaining: every event that is not resolved fails.
FailRemaining(c, alreadyStored, alreadyFailed) ==
    /\ stored' = alreadyStored
    /\ failed' = alreadyFailed \cup (pending[c] \ alreadyStored)
    /\ Finish(c)

\* One more document for every event of es.
Written(es) == [e \in Events |-> IF e \in es THEN written[e] + 1 ELSE written[e]]

\* Mutants: one attempt too many; the whole chunk is sent again.
AttemptsExceeded(c) == attempt[c] > MaxItemRetries + 1
WholeChunk(c, rejected) == pending[c]

AttemptsExhausted(c) == attempt[c] > MaxItemRetries

\* What the next request of the chunk contains.
Retried(c, rejected) == rejected

\* _resolve_response_items: ok items are stored, those rejected with a
\* retryable status stay in the chunk, the others are failed.  When the
\* attempts are exhausted the rejected ones are failed, too.
BulkAnswered(c, ok, rejected) ==
    /\ IsCalling(c)
    /\ ok \cap rejected = {}
    /\ SendSucceeds(c)
    /\ written' = Written(ok)
    /\ LET refused == pending[c] \ (ok \cup rejected)
       IN  IF rejected # {} /\ AttemptsExhausted(c)
           THEN FailRemaining(c, stored \cup ok, failed \cup refused)
           ELSE /\ stored' = stored \cup ok
                /\ failed' = failed \cup refused
                /\ IF rejected = {}
                   THEN Finish(c)
                   ELSE /\ task' = [task EXCEPT ![c] = "rejected"]
                        /\ pending' = [pending EXCEPT ![c] = Retried(c, rejected)]
    /\ UNCHANGED <<batch, attempt, uncertain, unclear, cancels>>

\* An item of the answer cannot be read: the items read before it count, and
\* the rest of the chunk is failed, whatever OpenSearch has written.
BulkMalformed(c, ok, wrote, refused) ==
    /\ IsCalling(c)
    /\ unclear < MaxUnclear
    /\ ok \subseteq wrote /\ wrote \cap refused = {} /\ ok \cup refused # pending[c]
    /\ SendSucceeds(c)
    /\ written' = Written(wrote)
    /\ FailRemaining(c, stored \cup ok, failed \cup refused)
    /\ uncertain' = uncertain \cup pending[c]
    /\ unclear' = unclear + 1
    /\ UNCHANGED <<batch, attempt, cancels>>

\* The request fails in transit: it is retried by the breaker, or the retries
\* are exhausted and the chunk is failed.
BulkFails(c, wrote) ==
    /\ IsCalling(c)
    /\ SendFails(c)
    /\ written' = Written(wrote)
    /\ uncertain' = uncertain \cup pending[c]
    /\ IF pc'[c] = Idle THEN FailRemaining(c, stored, failed)
                        ELSE UNCHANGED <<stored, failed, task, pending>>
    /\ UNCHANGED <<batch, attempt, unclear, cancels>>

\* Mutant: the events of a refused request are forgotten.
BulkRefusedSilently(c) ==
    /\ IsCalling(c)
    /\ SendRaises(c)
    /\ Finish(c)
    /\ UNCHANGED <<batch, attempt, stored, failed, written, uncertain, unclear, cancels>>

\* The request is refused as a whole: the chunk is failed.
BulkRefused(c) ==
    /\ IsCalling(c)
    /\ SendRaises(c)
    /\ FailRemaining(c, stored, failed)
    /\ UNCHANGED <<batch, attempt, written, uncertain, unclear, cancels>>

\* The body of the answer cannot be decoded: send raises, the breaker learns of
\* no success, and what OpenSearch has written is not known.
BulkUndecodable(c, wrote) ==
    /\ IsCalling(c)
    /\ unclear < MaxUnclear
    /\ SendRaises(c)
    /\ FailRemaining(c, stored, failed)
    /\ written' = Written(wrote)
    /\ uncertain' = uncertain \cup pending[c]
    /\ unclear' = unclear + 1
    /\ UNCHANGED <<batch, attempt, cancels>>

\* The client repeats a request that failed in transit within the same send
\* (max_client_retries); the breaker does not see it.
ClientRetries(c, wrote) ==
    /\ IsCalling(c) /\ Sending(c)
    /\ unclear < MaxUnclear
    /\ written' = Written(wrote)
    /\ uncertain' = uncertain \cup pending[c]
    /\ unclear' = unclear + 1
    /\ UNCHANGED <<breakerVars, chunkVars, stored, failed, cancels>>

\* The worker that stores the batch is cancelled, and with it the chunks.
CancelStore(b) ==
    /\ batch[b] = "storing"
    /\ cancels < MaxCancels
    /\ batch' = [batch EXCEPT ![b] = "cancelled"]
    /\ cancels' = cancels + 1
    /\ UNCHANGED <<breakerVars, task, attempt, pending, stored, failed, written,
                   uncertain, unclear>>

\* A cancelled chunk leaves its events as they are; a request under way may
\* have been written.
ChunkCancelled(c, wrote) ==
    /\ batch[BatchOf[c]] = "cancelled"
    /\ task[c] # "over"
    /\ wrote \subseteq (IF Sending(c) THEN pending[c] ELSE {})
    /\ IF task[c] = "calling" THEN Cancel(c) ELSE UNCHANGED breakerVars
    /\ task' = [task EXCEPT ![c] = "over"]
    /\ written' = Written(wrote)
    /\ uncertain' = IF Sending(c) THEN uncertain \cup pending[c] ELSE uncertain
    /\ UNCHANGED <<batch, attempt, pending, stored, failed, unclear, cancels>>

\* What the answer to the request of c, or its failure, can be.
BulkEnds(c) ==
    \/ \E ok, rejected \in SUBSET pending[c] : BulkAnswered(c, ok, rejected)
    \/ \E ok, wrote, refused \in SUBSET pending[c] : BulkMalformed(c, ok, wrote, refused)
    \/ \E wrote \in SUBSET pending[c] : BulkFails(c, wrote) \/ BulkUndecodable(c, wrote)
    \/ BulkRefused(c)

Next ==
    \/ \E b \in Batches : Store(b) \/ StoreRaises(b) \/ StoreReturns(b) \/ CancelStore(b)
    \/ \E c \in Callers :
        \/ ChunkCalls(c)
        \/ ChunkWaits(c)
        \/ BulkEnds(c)
        \/ \E wrote \in SUBSET pending[c] : ClientRetries(c, wrote) \/ ChunkCancelled(c, wrote)

Spec == Init /\ [][Next]_vars

\* Tasks that can go on are run, backoffs end, requests are answered or time
\* out.  Nobody has to store, or to cancel, a batch.
Fairness ==
    /\ \A b \in Batches : WF_vars(StoreReturns(b))
    /\ \A c \in Callers :
        /\ WF_vars(ChunkCalls(c))
        /\ WF_vars(ChunkWaits(c))
        /\ WF_vars(BulkEnds(c))
        /\ WF_vars(\E wrote \in SUBSET pending[c] : ChunkCancelled(c, wrote))

FairSpec == Spec /\ Fairness

(***************************************************************************)
(* Properties.                                                             *)
(***************************************************************************)

\* "invariant broken; event neither failed nor stored after store" (store) is
\* never said: whatever a chunk met, each of its events was decided.
NoInvariantBroken ==
    \A b \in Batches :
        batch[b] = "storing" /\ (\A c \in ChunksOf(b) : task[c] = "over") =>
            EventsOf(b) \subseteq stored \cup failed

\* An event is not both stored and failed, so that it is not delivered and
\* reported as an error: retries, partly read answers and fail_remaining leave
\* what was decided alone (_resolve_response_items, fail_remaining).
StoredXorFailed == stored \cap failed = {}

\* "Such rejections are authoritative 'not stored' responses, so retrying
\* them is duplicate-free" (max_bulk_item_retries): an event has one document
\* when it is stored and none when it is not, and that no matter how often its
\* chunk was sent, unless the outcome of one of its requests is unknown.
OneDocumentPerStoredEvent ==
    \A e \in Events :
        IF e \in uncertain THEN e \in stored => written[e] >= 1
                           ELSE written[e] = IF e \in stored THEN 1 ELSE 0

\* A batch that is stored is stored or failed in the end, however its chunks
\* compete with each other and with those of another batch.
StoreEnds == \A b \in Batches : batch[b] = "storing" ~> batch[b] # "storing"
===============================================================================
