# A TLA+ verification of Logprep

Logprep reads log events from an input, sends them through processors, whose rules
match and change them, and delivers them to outputs. The repository holds two
generations of it: the classic pipeline, several processes under one manager
(`src/logprep/framework`, `src/logprep/connector`), and its successor on one asyncio
event loop (`src/logprep/ng`). This project models both: of the successor the Kafka
and HTTP inputs, the workflow, the OpenSearch output with its circuit breaker, and
the runner around them; of the classic one the processes, their restarts and the
error queue; and the rule tree, which both use.

Paths below are relative to `src/logprep/ng` unless they start with `src/`.

## Inventory

| Part | State | Operations | Interacts with | Hard behaviour | What makes it correct | Module |
| --- | --- | --- | --- | --- | --- | --- |
| Offset tracker (`connector/confluent_kafka/offset_commit_tracker.py`) | next expected offset and committable offsets per partition | register, unregister, advance | called by the Kafka input | acknowledgements in any order, of old assignments, twice | commits only what is acknowledged without a gap | `OffsetCommitTracker` |
| Kafka input (`connector/confluent_kafka/input.py`) | message iterator, consumer, executor, tracker | assign, revoke, lost, next message, acknowledge, shut down | the broker and librdkafka, the workflow | rebalancing between awaits, a pool of threads, crashes | at-least-once; commits go on | `KafkaInput` |
| Workflow (`util/workflow/*.py`) | five queues; buffer and timer per worker; tasks; stop events | take, flush by size, timer or stop; the handlers; shutdown | input, processors, outputs | timers racing flushes, back-pressure, two timeouts, cancellation | no event lost, duplicated or acknowledged early; shutdown ends | `Workflow` |
| Circuit breaker (`util/retry.py`) | failure counter, lock, semaphore | call | outputs | checks before and after awaits, late answers, cancellation | one probe, bounded sends, every call ends | `CircuitBreaker` |
| OpenSearch output (`connector/opensearch/output.py`, `abc/output.py`) | chunks, stored and failed events | store | workflow, breaker, OpenSearch | partial answers, item retries, overlapping batches | each event decided once, no duplicates by item retries | `OpensearchOutput` |
| Input base (`abc/input.py`), events (`abc/event.py`), output base (`abc/output.py`) | status of an event | next, mark failed, store | all of the above | | | folded into the modules above |
| Runner, manager, refresh (`runner.py`, `manager.py`, `util/config_refresh.py`, `util/async_helpers.py`) | stop event, running manager, configuration object | run, reload, stop and cancel, shut down | getters, exporter, components | a reload in place, a stop during it, shielded tasks, the abort of a task group | one manager at a time, no new version missed, components released, each stop ends | `Runner` |
| HTTP input (`connector/http/input.py`, `util/http.py`) | server, bounded queue | put, next, set up, shut down | clients, workflow, runner | back-pressure towards clients, requests open at a shutdown | answered means queued; no client and no shutdown waits for ever | `HttpInput` |
| Error queue and listener (`src/logprep/framework/pipeline_manager.py`) | bounded multiprocessing queue, listener process | put, get, synchronize, drain | pipelines, error output | the queue's feeder threads and pipe, a listener or a putter that dies | what is put is stored, or the ways it is not are known | `ErrorListener` |
| Classic pipeline (`src/logprep/framework/pipeline.py`, classic Kafka input and OpenSearch output) | last record, backlog, stop flag | process one event, write backlog, finish batch, shut down | error queue, broker | offsets stored before delivery, kills, failing callbacks | committed events are accounted for | `ClassicPipeline` |
| Classic manager and runner (`src/logprep/framework/pipeline_manager.py`, `src/logprep/runner.py`) | processes, restart count | create with a health check, restart, reload, stop | all of the above | a stop racing a start, limits, a dead listener | ended pipelines are replaced, a stop ends | `ClassicManager` |
| Rule tree, filters (`src/logprep/framework/rule_tree`, `src/logprep/filter`) | tree of expressions, rules | add, match | processors | normal form, sorting, tags, shared nodes | matches what the filters match | `RuleTree` |
| Rule loop (`src/logprep/abc/processor.py`, `abc/processor.py`) | event, rules to apply | process | rule tree | rules change the event they are matched against | a rule once, none forgotten | `RuleProcessor` |
| Kafka output; other connectors; single processors; getters and resource cache; metrics; configuration; generator; rule tester | | | | | | see "What is not modelled" |

The hazards this code is exposed to are listed at their lines in `PROJECT.json`;
each names the properties that would catch it.

## The modules

`OffsetCommitTracker` holds the tracker's two variables and three operations.
`nextExpected` and `committable` are the dictionary of `_PartitionOffsets`; a
partition that is not in it has the value `Unregistered`. The loop that advances
over contiguous offsets is `ContiguousEnd`. `KafkaInput` EXTENDS it and uses its
operations inside its own actions.

`KafkaInput` is the input between broker and workflow. `AssignRead` and
`AssignRegister` are `_assign_callback` before and after the await of
`committed()`; `Revoke` is `_revoke_callback` and `_lost_callback`. The callbacks run
on the event loop, while a thread of the library is inside `consume`; that thread
changes the assignment when they have returned, in a step of its own
(`LibraryAssigns`, `LibraryUnassigns`). In the gap (`joining`, `leaving`) other tasks
of the loop run: an acknowledgement is counted, or not, for a partition that is not
fetched yet, or still is, and the library refuses a store call for one it does not
have. `Consume` and `NextMessage` are `_get_next_message` and `_get_raw_event`;
`Acknowledge` is `acknowledge` up to its await, `StoreOffsets` and `StoreOffsetsFails`
are the call a thread of the executor makes then, one of the first `MaxWorkers` that
wait. That is more than the code allows while `consume` occupies one of the threads;
with `max_workers` 1 the await of `committed()` would wait for the very thread that
waits for the callback, so two at least are assumed. `AutoCommit`, `Unassign`,
`FetchStart`, `Refused`, `Overwritten`, the library's two steps and
`OtherMemberCommits` stand for librdkafka, the broker and the rest of the group,
as the input's configuration uses them (`enable.auto.commit` on,
`enable.auto.offset.store` off, `auto.offset.reset` earliest): they are external.
`Discard` is an event the workflow gives up. `Restart` is both `shut_down` and a
crash: what is stored may or may not get committed. The variables `processed`,
`base`, `acked`, `unstored` and `discarded` are history; `unstored` are the partitions
whose tracked offset the library does not have, because a call failed, was refused or
was overtaken by an older one.

`EventLifecycle` is the abstract specification of the workflow: events are read,
settled (delivered, deleted or reported), and acknowledged or given up, never both,
and acknowledged only when settled.

`Workflow` is the concrete one. A step is what a task does between two awaits at
which it can be suspended; no await lies inside `_buffer_lock`, so what happens
under it is one step. `queue` and `buffer` are the `in_queue` and `_batch_buffer` of
each batching worker; `timer` are its tasks that sleep in `_flush_after_interval`: the
one `_flush_timer` refers to ("current"), and such as it has forgotten ("stray"), which
would flush a later batch. Only the first event of a batch starts one
(`StartsTimer`), starting replaces the current one (`Started`), draining cancels it
(`Drained`); a timer that has fired does not cancel itself. `jobs` are the
handler calls under way, in the loop's task or in the task of a timer that has
fired; `loop` is the state of the worker's task. `Take` is `_handle_next`,
`TimerFires` is `_flush_after_interval`, `TakeStop` is the end of `run`; `Call` is a
handler up to the result of its output or processors, `Route` one of its puts into
the next queue, which waits for room; `HandlerRaises` is whatever leaves a handler as an
exception, `raise_from_gather`'s ExceptionGroup among it. `phase` and `group` are the orchestrator's
position in `run`, `_shut_down` and `_stop_workers_in_topological_order`;
`StopOrder` is what `iterate_workers_topologically` yields for these six workers.
Assumed: events have input metadata, as those of the Kafka input do (others are
not acknowledged by `_send_default_output_handler`), and `default_output` is one of
the named outputs. `ImplementsLifecycle` maps it to `EventLifecycle`: `settled` are
the events with a settled status that are not yet acknowledged or given up.

`CircuitBreaker` is `BlockingCircuitBreaker` for a set of callers. Lock and
semaphore are queues of callers: the lock belongs to its head, the slots to the
first `Concurrency` members. A caller that finds one free takes a step to enter
it, which the code does without suspending; the model therefore allows more
interleavings than the code, not fewer. The callers call again and again.

`OpensearchOutput` EXTENDS it: a chunk of a batch is a caller. `Store` is the
preparation of a batch (`_serialize`, `_chunks`), `ChunkCalls` the next round of
`_resolve_chunk`, `ChunkWaits` the breaker's own steps, `BulkAnswered`,
`BulkMalformed`, `BulkFails`, `BulkRefused` and `BulkUndecodable` (its body is no JSON,
so that the breaker learns of no success) what can become of a request,
`ClientRetries` the client's own repetitions of it within one send,
`StoreReturns` the end of `store`, `CancelStore` and `ChunkCancelled` the
cancellation of the worker that stores. Which events share a chunk is a constant.
Documents have no id of their own (`use_event_id_as_doc_id` off, the default), so
each write of an event makes a document. `max_connection_retries` and
`max_bulk_item_retries` are finite here; with `None` a call or a chunk goes on
while failures or rejections do, which adds no new state.

`Runner` is `Runner.run` in its task group. `body` is the await at which it is;
`refresh`, `getters` and `exporter` are the tasks beside it, `managers` all pipeline
managers created so far, each with its own stop event, a possibly pending
`CancelledError`, and the versions of the configuration its components and its
workflow were built from. `AbortAnd` is what `asyncio.TaskGroup` does when a task has
raised. `ManagerCreates`, `ManagerSetUp`, `OrchestratorEnds`, `OrchestratorFails` and
`ShutDownEnds` are the awaits of `_run_pipeline_manager` and `PipelineManager`;
`WaitReturns` to `ManagerStopped` the loop of `run`, `HardTimeout` the second wait of
`stop_and_cancel`, which gives up the shield's wait, not the task. `ReloadChanges`,
`ReloadOverwrites`, `ReloadKeeps` and `ReloadFails` are the outcomes of
`Configuration.reload`, which changes the one configuration object in place, also when
its content is another but its version is not: then `edition` counts, and nobody is
told (`config_refresh.py:65`).

`HttpInput` EXTENDS it: every manager has a server, a queue and a workflow that reads,
and the runner's steps are taken together with the server's where one awaits the
other (`SetUpWithServer`, `CloseServer`, `ShutDownWithServer`). `Put` is one
`put_message` of a handler, `RequestArrives` its start, `ServerCloses` the end of
uvicorn's graceful shutdown, which cancels what waits.

`ErrorListener` is `OutputQueueListener` and the error queue, a
`multiprocessing.Queue`: `slots` are its semaphore, `pipe` what `empty` and `get` see;
between the two an item is with the feeder thread of the process that put it (`ping`
in the listener, `transit` in a pipeline, `handedOver` in the manager), which waits while
the pipe of the operating system is full (`PipeSize` items). The listener may die in its
set-up without a word, with any exception that is no SystemExit (`ListenerSetupFails`).
`accounted` is history: events that have come to an end, or were lost in a way the code
leaves open, since they were last read.

`ClassicPipeline` EXTENDS it with the processes. A `Process` record is its place in
`process_pipeline`, the shared flag `_continue_iterating`, the Kafka input's last
valid record, stored offset and position, the output's backlog, and the error items
`enqueue_error` has still to put. `GetNext` has the record that yields no event (no
value, null or an empty object), whose offset is nevertheless the last valid one.
`Write` is `_write_backlog`, which may fail for any
part of the backlog. `ShutDown` is the end of `run`, where closing the consumer
commits before the output's last write; that the broker takes this commit is assumed.
With `InputShutDownFails` the close raises, and the outputs are not shut down. A process
that has ended its work still waits for its feeder thread (`Exiting`, `Leave`).
`Crash` is a kill (the container's, the kernel's); `CallbackFails` is an `InputWarning`
of `store_offsets`, which `process_pipeline` logs, unless it is raised in the error
handler (`handling`): then the process ends.

`ClassicManager` EXTENDS that with the main process: `Handshake` is the `get` of
`_setup_error_queue`; a signal that comes before it is lost, as there is no runner yet
(`StopRunner`). `Probe` and `CreatePipelines` are `_create_pipeline`: with the exporter
and an error output the manager calls `get_output_instance` itself before it creates the
first pipeline, puts a 1 and waits until the queue is empty, or puts a sentinel nobody
expects. `Iterate` and `CheckPipelines` are `Runner._iterate`, `TellLast` and `JoinLast`
`_decrease_to_count`, `StopListener` and `JoinListener` the rest of `stop` and the exit.
A kill or a change of the configuration counts against one bound (`Disruption`). A
process killed in the middle of a write to the pipe, which leaves half an item there and
a lock, is not modelled.

`RuleTree` has the rule parser as functions from filters to segments (`Resolve`,
`Segments`, `Sorted`, `WithExists`, `WithTags`), the tree as a sequence of nodes with
parents (`AddRule`), and its traversal (`Retrieve`, `MatchingRules`). An event is what
its leaves can tell: each key is absent, has the value wanted or another. What recurses
in the code is a recursive function here, over the set `Expressions` or over the nodes.
Its assumption says what makes filters finite trees: the set is closed under what is
done to filters, and what is done makes a filter's parts lower (`Height`).
`RuleProcessor` EXTENDS it with the loops of `Processor.process`: once, multiple
times, and past the tree (bypass). `RuleLoop` is what these loops promise of any tree,
an abstract specification: the tree may give any sequence of rules without
repetitions, and applying one may change the event in any way.
`ImplementsRuleLoop` maps `RuleProcessor` to it, rule by rule (`RuleIds`).

`MC*` modules give the constants values. Every module of code holds a few
operators commented as mutants: a plausible mistake in the definition that follows
it, used to make sure that each property can fail.

## What the runs check

| Run | Instance | Shows |
| --- | --- | --- |
| `kafka_safety` | 1 partition, 4 messages (the third without a value), 2 threads, 2 disruptions, 1 failed store or dropped event; 0.5 million states | `CommitSafe`: no message below a committed offset lacks an acknowledgement. `TrackerIsExact`: forgetting what was passed loses nothing. `DeliveredIsTracked`: what was delivered is tracked, in spite of the gaps. `EverythingCommitted`: commits come to rest only at the end, before a message that is never acknowledged, or where the last store call was lost |
| `kafka_retention` | the broker has deleted message 0 | the tracker waits for it (finding) |
| `workflow_safety` | 2 events, sizes 2 and 1, stop, timeouts and crashes; 1.9 million states | nothing acknowledged early, each event in exactly one place, buffers have timers, workers end in order, nothing left after a graceful stop but for late flushes; implements `EventLifecycle` |
| `workflow_live` | 2 events, no error output, a stop at any time or never | `EveryEventFinishes`, `ShutdownEnds` |
| `workflow_late_flush` | 2 events, a stop | a flush outlives the shutdown (finding) |
| `circuit_breaker` | 3 callers, 2 slots, 1 retry, 4 failures, deadlock checked | one probe, bounded sends, one request per outage, exact counting, `CallsEnd` |
| `circuit_breaker_gives_up` | the same | a call that was no probe gives up (finding) |
| `opensearch_output` | 2 batches of one chunk each, 3 events, 1 slot, 2 failures, 1 unreadable answer or repetition by the client, 1 cancellation; 0.5 million states | every event decided exactly once, no duplicates by item retries, `StoreEnds` |
| `runner` | 1 change of the configuration, the exporter on; stops, failures and ends at any moment; a request of 2 events, a queue of 1; 0.9 million states | `OneManagerAtATime`, `CurrentVersionOrRestart`: no new version missed and no mixture of versions left, `ComponentsReleased`, `RunnerEnds`; `AnsweredIsQueued`, `EveryRequestEnds` |
| `runner_hard_timeout` | a stop, an orchestrator that hangs | the runner waits on after the hard timeout (finding) |
| `classic_pipelines` | 1 pipeline with 2 events, an output backlog of 2, an error queue of 2, a pipe of 1, the exporter on, 1 kill or reload, 1 restart; 0.9 million states | `CommittedIsAccountedFor`, `NoErrorLeftBehind`; `StopEndsOrHangs` and `EndedIsReplaced` hold but for seven hangs, which they name |
| `rule_tree` | 2 rules, filters up to three deep, 2 tree configurations, all events; 0.9 million states | `MatchesLikeItsFilter`: tree and filters decide alike, and which rules are left out. `AppliedOnce`: no rule twice and, with `apply_multiple_times`, none forgotten. `ImplementsRuleLoop` |

### Bounds, and why they are enough

Partitions do not interact but in `advance_offsets`, which treats them one by one,
so one is enough for TLC; the proofs cover any number. Four messages make a gap with
acknowledged offsets on both sides, also around the one without a value, and a batch
boundary (`ConsumeNumMessage` is 2).
Two disruptions allow a second assignment while copies of messages and calls of the
first are still under way, followed by another loss. `MaxFaults` is 1: a second failed
call or dropped event behaves like the first. Two threads reorder store calls in the
liveness check, too.

In the workflow two events with a batch size of two give full and partial batches,
a queue at its limit, timers that race a size trigger and batches split over two
flushes; the extra output and error workers pass on single events so that a queue of
one blocks its producers. Nothing else is bounded: each disruption that happens
changes the state for good. Symmetry of events is used only where no
liveness is checked. Deadlock checking is off where the system may come to rest: the
shutdown ended, the source is read, the bounds are used up.

Three callers on two slots have a probe, a late send and a caller in a queue;
`MaxFailures` is one more than needed to exhaust one retry while another request is
late. It also makes failures finite, which `CallsEnd` needs. `MaxUnclear` counts the
requests of `opensearch_output` whose outcome is unknown for another reason than a
failure in transit: unreadable or undecodable answers and the client's repetitions.

In `runner` one change of the configuration, of its version or under the same one,
makes at most two managers, so that stops,
failures and timeouts fall before, into and after the handover; a third manager meets
what the second met. A mixture of contents of one version is what a second manager that
is being set up would meet as the first does. One request with two events and a queue of one makes a handler
wait in the middle of its request. `classic_pipelines` has one process: processes
share only the error queue, of which a killed or slow one takes slots as another
would; two events with a backlog of two make a backlog that is written when full,
scheduled and at the end; the error queue of two slots is full with an item and the
manager's or the listener's 1, the pipe of one with a single item. One kill or one
reload: both may hit any state that set-up, restart and stop go through, and what a kill
leaves (slots taken, a dead listener) lasts. `rule_tree` has the shapes of filters on which the steps of the parser act:
each operator below each other, negations of both and of negations, equal and shared
segments, Always alone and in compounds.

### Fairness

Weak fairness of single actions, for what an event loop, a timer or a thread pool
will run: a task that can go on does, backoffs and batch intervals end, requests are
answered or time out, the executor runs its calls. For the workflow it also says that
a source delivers what it has. Nothing is assumed of disruptions, failures,
cancellations, of a request to stop, of the end of the source or of the timeouts:
`ShutdownEnds` holds without any timeout. `KafkaInput` assumes that the workflow
acknowledges what it was given (`EveryEventFinishes` is that promise of `Workflow`)
and that partitions are assigned again.

In `Runner`, tasks that can run do; a set-up, a shutdown and the awaits of a reload
come to their end, and an orchestrator that was told to stop (`ShutdownEnds` of
`Workflow`). With `HttpInput`, servers start and close, handlers run, and the workflow
reads as long as it was not told to stop. In the classic pipelines the main process,
the listener and each process are scheduled, polls and writes return, feeder threads
run. A stop, a failure, a kill, a hard timeout or a reload is never assumed.
`runner_hard_timeout` uses a weaker fairness (`HangingFairSpec`): an orchestrator need not
end, all else is as in `runner`.

## What is proved

TLAPS proves these for all values of the constants.

* `KafkaInputProofs`, from the assumptions on the constants alone.
  `TypeCorrect`, which rests on `ContiguousEndSpec`: the loop of `advance_offsets`
  always finds an end (least element of the positions not acknowledged).
  `CommitIsSafe`: `CommitSafe` alone is not inductive, because an offset on its way to
  the broker must be safe everywhere it passes. The strengthening `CommitChain`
  says so of every such place: what is tracked, read by an assignment, handed to the
  executor, stored and committed lies behind a run of processed messages.
  `TrackerExact`: the invariant `Exact` says which offsets of the history are below,
  at and beyond the next expected one. `DeliveredMessagesAreTracked`: `Delivery`
  adds that the callbacks come one at a time and never while messages are in hand, that
  nobody else commits for a partition between the read of `_assign_callback` and the
  library's assignment, so that it is registered at the offset fetching starts from, and
  that the library's position never falls below that.
* `CircuitBreakerProofs`: the inductive invariant relates `pc` to the two queues
  (a caller is in a queue exactly if its `pc` says so, no caller is twice in one, and
  who sends is among the first), says that a send started in an outage is a
  probe, and contains the counting property. `SingleProbe`, `ConcurrencyBounded` (a
  cardinality argument) and `OneRequestPerOutage` follow.
* `OpensearchOutputProofs`: `OutputUsesBreaker` shows that every step of the output
  is a step of the breaker or none, so the breaker's theorems hold for its chunks
  (`OneChunkProbes`). The inductive invariant `OutputInv` says that pending events are
  undecided, that a chunk that is over has none, and that documents match what was
  decided; `StoredXorFailed`, `NoInvariantBroken` and `OneDocumentPerStoredEvent`
  follow. A second one, `AttemptsCounted`, bounds the attempts of a chunk
  (`OutputTypeCorrect`).
* `WorkflowProofs`: all invariants of the workflow's passing runs, for any number of events,
  all sizes of queues and batches, with stops, timeouts and crashes.
  `ExactlyOnePlace` counts places and is not inductive. The inductive invariant `Placed`
  says that by the function `At` (place -> the events in it) every event is in exactly one
  place (`OnePlace`); that no event occurs twice in a queue, a buffer or a call, that
  at most one call is the loop's, and only while the loop waits for it (`JobsRight`); that
  the input's hand is empty unless it puts (`HandRight`); and `TimerGuardsBuffer`, which
  rests on it: a buffer holds one event exactly after the first of a batch was appended,
  so only then a timer is started, and every drain finds and cancels it. Each
  action moves a set of events from some places to another (`Moves`).
  `StatusRight` says that every place holds only events of a status its worker expects;
  `AckedIsSettled` follows, and `WorkflowImplementsLifecycle`: every step is a step of
  `EventLifecycle` or a stutter.
  `StopsRight` says that all workers before the one being stopped, or before one with a
  sentinel in its queue or behind it, have ended; `UpstreamEndsFirst` follows.
  `LateRight` says that behind a sentinel there are only events of flushes that outlived
  a worker that had ended regularly; `DrainedButForLateFlushes` follows.
* `RunnerProofs`: the inductive invariant `RunnerInv` says that a live manager is the
  last one made, that a body that waits has one and a body that has ended none, that the
  version known never exceeds the present one, and that a manager that was set up runs
  until its shut-down begins (`WellFormed`). `OneManagerAtATime`,
  `CurrentVersionOrRestart` (`NoNewVersionMissed`) and `ComponentsReleased` follow.
  For `HttpInput`: `HttpSpec` implements the `Spec` of `Runner`, so what is proved of
  the runner holds with servers and requests; the queue keeps its limit
  (`HttpTypeCorrect`); and `AnsweredEventsAreAccepted`. What a manager has accepted is what
  its workflow has read, then what its queue holds (`Accepted`); `AnsweredIsQueued` speaks
  of answered requests only and is not inductive. `QueueInv` says of every request, at each
  point of it, that exactly the events before its next one are accepted, in order. A put
  of one request leaves what is accepted of the others, and reading leaves it all.
* `ClassicProofs`: `CommittedIsAccountedFor` and `NoErrorLeftBehind`. The inductive
  invariant `ClassicInv` says for every process which events it accounts for: all up to
  its committed offset, and all it has taken but the one it works on, are in its memory
  or outside (`Accounts`); a callback stores the offset only in the states where that
  one is accounted for, too. What is outside of one process stays outside by the steps of
  the others (`KeptOutside`), so each step is checked for the process that takes it
  (`Moves`); a process that takes up its partition again gives up what is accounted
  beyond the committed offset, for it reads that again. A process that leaves has its
  items with the feeder thread only; one that fails holds what it held. `MainOrder` and
  `ListenerOrder` say that a sentinel is put, and the listener drains, only when every
  process has been joined, unless a health check has put one.
  `ClassicTypeCorrect`: `ClassicTypeOK` bounds the semaphore of the error queue, and
  is not inductive, because the feeder threads of all processes hold slots. The
  invariant `SlotsInv` says that the items that hold one (`Held`: in the pipe, with the
  listener, with the manager's feeder thread, with a process, named by owner and position)
  are at most as many as the slots taken. Counting that set replaces a sum over the processes: a put adds one
  element, a feeder thread moves one (an injection), a get removes one.
* `RuleProofs`: `DecidesLikeFilters`, `AppliesOnce` and `RefinesRuleLoop`, for filters of
  any depth, any number of rules, any priorities and tags, from `RuleTreeAssumption`.
  The argument follows the code. *Parser*: by induction over `Height`, the normal form
  of a filter holds (`Holds`: all members of one of its segments match) for the events
  the filter matches (`SegmentsMatch`), and a plain filter parses (`PlainParses`);
  sorting permutes a segment, the `Exists` that are added follow from it, and what else
  is added are tags (`ParsedRule`). *Tree*: the `Conditions` of a node are the
  expressions on its path. The invariant `TreeInv` says that a node's conditions imply
  the filter of each rule it holds (`Sound`), and that for each rule in the tree and each
  event with its tags that it matches, some node whose conditions the event fulfils holds
  it or its equal (`Complete`); `MatchesLikeItsFilter` itself speaks of the loaded tree only and is not
  inductive. `AddSegment` keeps the conditions of all nodes (`ConditionsKept`) and
  adds the rule under the segment. `Retrieve` finds the rules whose conditions an
  event fulfils (`RetrieveElements`, up and down the tree). *Loop*: `EachRuleOnce` of
  `RuleLoop` is not inductive, as what is still to do matters: `LoopInv` says that no
  rule occurs twice in it and that it holds none that was applied (`NoRuleTwice`). Each
  step of `RuleProcessor` is a step of `RuleLoop` or none (`StepRefines`), so the first
  half of `AppliedOnce` follows from the loop alone, and the second, that no rule is
  forgotten, from the loop's end and the tree.

`SequenceLemmas` has what several of these need of sequences, and what the prover needs
in order to speak of recursive functions. TLA+ has them as a CHOOSE of a function that
satisfies an equation; `RecursiveFunction` proves, once, that such a function exists
if the value at each place depends only on places of less height, without the library's
theorems that take an operator. `HeightInduction` and `Iteration` are the induction and
the loop that go with it.

Only model-checked: all liveness properties, which are out of the prover's reach.

## Findings

1. `kafka_retention`: `_assign_callback` takes 0 for the first offset of a partition
   without commits; if the broker has deleted it, that partition is never committed.
2. `workflow_late_flush`: a graceful shutdown does not wait for the handler call of a
   timer that has fired.
3. `circuit_breaker_gives_up`: not only probes raise `RetriesExhaustedError`.
4. `runner_hard_timeout`: after `hard_orchestrator_shutdown_timeout_s` an orchestrator is
   not "considered stopped" (`util/configuration.py:686-691`). `stop` awaits the shielded
   task (`util/async_helpers.py:50-58, 90`), so the timeout ends that wait, cancels
   nothing, and the task is then awaited without a limit. That the runner ends
   (`RunnerEnds`) therefore rests on the orchestrator, which `ShutdownEnds` of `Workflow`
   says of its regular end.

The models show more of the code's behaviour that is worth knowing. None of it has a
run of its own.

*Asynchronous pipeline.*
An offset behind a message without a value, or behind an event that was dropped, is
not committed any more as long as the partition is owned; after a failed or reordered
`store_offsets` an offset is committed only after the next acknowledgement.
A reload that finds another content under the same version overwrites the configuration
object (`util/configuration.py:915-918`) and restarts nothing; a manager that is being
set up then may have its components of one content and its workflow of the other.
"The configuration will only be reloaded if the configuration version changes"
(`util/configuration.py:502`), and a configuration identical to the current one only
updates the interval (878-879): `SameVersionSameContent` of `Runner` says so, and with the
constants of `runner_hard_timeout` and `MaxChanges` 1 TLC refutes it in a few steps.
At a full queue the HTTP input does not answer 429, as `connector/http/input.py:378-380`
says: its handler waits for room. What the queue holds at a reload or stop is lost
although it was answered.

*Classic pipelines.*
A stop signal that comes while the listener is being started is lost: the runner it
would tell does not exist yet, and another, thrown away, gets the flag
(`src/logprep/run_logprep.py:340-342`, `src/logprep/runner.py:71-77`). A stop, or the
replacement of a pipeline, hangs in seven states, named at the end of `ClassicManager`:
the flag that a stop clears is set again by a process that is only starting (`StopLost`);
the listener takes its own synchronizing 1, or dies without a word, and the manager waits
for that 1 (`NoAnswer`; the lost signals make it deaf there); an error item, or the 1 of
the manager's health check, arrives while the listener waits for an empty queue
(`ListenerStuck`); the manager waits for an empty queue that nobody reads (`ProbeStuck`);
no slot is free for the sentinel or for the manager's 1 (`NoSlot`); and behind a dead
listener the feeder thread of a process (`FeederStuck`) or of the manager
(`ManagerStuck`) finds the pipe full, so that neither exits.
The health check may find the error output down: the manager then stops, and its sentinel
ends the listener while pipelines still put errors, the exception of `NoErrorLeftBehind`.
A record without a value, or with null or an empty object, counts as the last valid one:
its offset is stored with the next event's and nothing is reported. When the close of the
consumer raises, the outputs are not shut down, and the backlog is lost although offsets
behind it may be committed.
A scheduled write that fails ends the listener; its backlog is written when full, or
when the next item wakes it. When extra data cannot be stored the event is skipped
while its offset is stored; a failure of the last write at shutdown is swallowed,
after its offset has been committed. An `InputWarning` raised inside the error handler
ends the process; elsewhere it is logged. The restart count is reset at the first check that finds every process alive, also one
that is still being set up; and the limit is tested before that, so that Logprep exits
although its last restart succeeded, and at once with a limit of 0
(`src/doc/source/user_manual/execution.rst:188-199` has the count reset by a success).

*Rule tree.*
A rule with AND or OR below two negations (De Morgan's law makes such filters, of
`NOT (NOT (a OR b) AND c)` too), or with Always inside a compound, is left out with a
warning. A tag in front of a negated test makes the rule match fewer events. Past the
tree, equal rules are both applied. Parsing rewrites the rule's own filter in place.

*Resource cache* (`src/logprep/util/resource_cache.py`, `src/logprep/util/getter.py`;
read, not modelled).
`_get_updated_cache_item` does not carry `will_refresh` over, so after its first refresh
a resource of a dynamic URI is no longer kept alive by its use, and is invalidated one
`timeout_interval` later, which is meant to run from the last access (getter.py:129).
A refresh that raises anything but `RefreshableGetterError` leaves `refreshing` set, and
the target is never refreshed again.

## What is not modelled

* The contents of events, and what single processors do to them: sequential code on
  one document. To the rule loop a rule makes any change of a field or none.
* Getters and the resource cache but for the loop that refreshes them and its failure.
* Metrics and logging, but for the classic exporter, with which the manager checks the
  health of the error output and so uses the error queue; the other health checks;
  durations of backoffs and intervals.
* A kill in the middle of a write to a pipe, and a broker that refuses the commit of a
  closing consumer.
* Loading, merging and validating configurations; the Lucene parser; filters of
  ranges, regular expressions and the like, whose leaves behave as those modelled.
* The asynchronous Kafka output, to the workflow an output that stores or fails each
  event; the connectors for files, console, S3 and tests, and the classic HTTP input;
  the rest of the classic metrics exporter, and the log process.
* The load generator, the rule tester and the dry runner, which are tools.
* Failures of `committed()` in the assign callback, and messages with a Kafka error:
  they end the input and are `InputCrashes` of `Workflow`.

## Plan

Done: `OffsetCommitTracker`, `KafkaInput`, `CircuitBreaker`, `OpensearchOutput`,
`Workflow` over `EventLifecycle`, `Runner` and `HttpInput`, `ErrorListener`,
`ClassicPipeline` and `ClassicManager`, `RuleTree` and `RuleProcessor` over
`RuleLoop`, all with their proofs. Every safety property that the passing runs check is
a theorem.

Left: a module for getters and the resource cache (targets with their age, refreshes,
timeouts and callbacks, two rules that share a target).
