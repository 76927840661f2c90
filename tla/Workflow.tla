------------------------------ MODULE Workflow ------------------------------
(***************************************************************************)
(* The asynchronous workflow of logprep/ng/util/workflow: six workers that *)
(* are tasks of one event loop, connected by five bounded queues, and the  *)
(* orchestrator that starts them and shuts them down.                      *)
(*                                                                         *)
(*   input -> processing -> [extra_output ->] output -> acknowledge        *)
(*      \________\_______________\_____________\-> error ----^             *)
(*                                                                         *)
(* The input worker is sequential.  The others collect events in a buffer  *)
(* and flush it when it is full, when a timer fires, or when they stop.    *)
(* A flush by size runs in the worker's own loop; one by timer runs in the *)
(* timer's task, and nobody waits for that task.                           *)
(*                                                                         *)
(* A step is what a task does between two awaits that can suspend it.      *)
(***************************************************************************)
EXTENDS SequencesExt

CONSTANTS
    Events,             \* the events the source will deliver
    QueueSize,          \* batching worker -> its queue_size
    BatchSize,          \* batching worker -> its batch_size
    HasDefaultOutput,   \* default_output is configured
    HasErrorOutput,     \* error_output is configured
    Stop,               \* STOP_SENTINEL
    Disruptions         \* what may happen: "stop", "timeout", "crash"

\* The topological order of the workers; every group is a single worker.
StopOrder ==
    <<"input", "processing", "extra_output", "output", "error", "acknowledge">>
Workers == ToSet(StopOrder)
BatchingWorkers == Workers \ {"input"}

\* WorkerConfig refuses a batch_size above the queue_size.
ASSUME WorkflowAssumption ==
    /\ QueueSize \in [BatchingWorkers -> Nat \ {0}]
    /\ BatchSize \in [BatchingWorkers -> Nat \ {0}]
    /\ \A w \in BatchingWorkers : BatchSize[w] <= QueueSize[w]
    /\ HasDefaultOutput \in BOOLEAN
    /\ HasErrorOutput \in BOOLEAN
    /\ Stop \notin Events
    /\ Disruptions \subseteq {"stop", "timeout", "crash"}

VARIABLES
    unread,         \* events still at the source
    status,         \* event -> what has become of it
    hand,           \* events the input worker is about to put
    queue,          \* batching worker -> its in_queue
    buffer,         \* batching worker -> _batch_buffer
    timer,          \* batching worker -> its timer tasks that still sleep
    jobs,           \* batching worker -> running handler calls
    loop,           \* worker -> state of the task that runs it
    acked,          \* history: events acknowledged to the input
    givenUp,        \* history: events that left without acknowledgement
    lateFlush,      \* history: events in a timer's flush when its worker ended
    stopRequested,  \* the stop_event handed to the orchestrator
    internalStop,   \* _internal_stop
    phase, group    \* the orchestrator's run: state, worker being stopped

eventVars == <<unread, status, hand, acked, givenUp>>
workerVars == <<queue, buffer, timer, jobs, loop, lateFlush>>
orchestratorVars == <<stopRequested, internalStop, phase, group>>
vars == <<eventVars, workerVars, orchestratorVars>>

\* "log": a LogEvent to process.  After processing: with extra data, without
\* any data (deleted), or with data only.  "failed": an ErrorEvent.
\* "passed": its handler had no output to store it in.
Statuses == {"unread", "log", "extras", "empty", "data", "failed", "stored",
             "reported", "unreported", "passed"}

Ended == {"ended", "crashed", "cancelled"}

\* A sleeping timer task: the one _flush_timer refers to, or one it no longer
\* refers to, which nobody can cancel.
Timers == {"current", "stray"}

Jobs == [by : {"loop", "timer"}, stage : {"call", "route"}, todo : Seq(Events)]

TypeOK ==
    /\ unread \subseteq Events /\ acked \subseteq Events
    /\ givenUp \subseteq Events /\ lateFlush \subseteq Events
    /\ hand \subseteq Events
    /\ status \in [Events -> Statuses]
    /\ queue \in [BatchingWorkers -> Seq(Events \cup {Stop})]
    /\ buffer \in [BatchingWorkers -> Seq(Events)]
    /\ timer \in [BatchingWorkers -> SUBSET Timers]
    /\ \A w \in BatchingWorkers : jobs[w] \subseteq Jobs
    /\ loop \in [Workers -> {"waiting", "putting", "flushing", "draining"} \cup Ended]
    /\ stopRequested \in BOOLEAN /\ internalStop \in BOOLEAN
    /\ phase \in {"running", "stopping", "collecting", "awaiting", "ended", "failed"}
    /\ group \in DOMAIN StopOrder

Init ==
    /\ unread = Events
    /\ status = [e \in Events |-> "unread"]
    /\ hand = {} /\ acked = {} /\ givenUp = {} /\ lateFlush = {}
    /\ queue = [w \in BatchingWorkers |-> <<>>]
    /\ buffer = [w \in BatchingWorkers |-> <<>>]
    /\ timer = [w \in BatchingWorkers |-> {}]
    /\ jobs = [w \in BatchingWorkers |-> {}]
    /\ loop = [w \in Workers |-> "waiting"]
    /\ stopRequested = FALSE /\ internalStop = FALSE
    /\ phase = "running" /\ group = 1

(***************************************************************************)
(* Tasks and queues.                                                       *)
(***************************************************************************)
HasRoom(w) == Len(queue[w]) < QueueSize[w]

\* The task of worker w comes to its end: _done sets _internal_stop.
EndLoop(w, how) ==
    /\ loop' = [loop EXCEPT ![w] = how]
    /\ internalStop' = TRUE

\* Input: the orchestrator has set the worker's own stop event.
InputMustStop == phase # "running" /\ ~ (phase = "stopping" /\ group = 1)

(***************************************************************************)
(* The input worker: _process_items on an iterator, _distribute_input.     *)
(***************************************************************************)

\* anext returns an event: one to process, or an ErrorEvent that could not
\* be decoded or preprocessed.
InputReads(e) ==
    /\ loop["input"] = "waiting"
    /\ e \in unread
    /\ unread' = unread \ {e}
    /\ \E s \in {"log", "failed"} : status' = [status EXCEPT ![e] = s]
    /\ hand' = {e}
    /\ loop' = [loop EXCEPT !["input"] = "putting"]
    /\ UNCHANGED <<queue, buffer, timer, jobs, lateFlush, acked, givenUp, orchestratorVars>>

InputTarget(e) == IF status[e] = "log" THEN "processing" ELSE "error"

\* The put succeeds; the loop looks at its stop event before the next read.
InputPuts(e) ==
    /\ loop["input"] = "putting"
    /\ e \in hand
    /\ HasRoom(InputTarget(e))
    /\ queue' = [queue EXCEPT ![InputTarget(e)] = Append(@, e)]
    /\ hand' = {}
    /\ IF InputMustStop THEN EndLoop("input", "ended")
                        ELSE /\ loop' = [loop EXCEPT !["input"] = "waiting"]
                             /\ UNCHANGED internalStop
    /\ UNCHANGED <<unread, status, acked, givenUp, buffer, timer, jobs, lateFlush,
                   stopRequested, phase, group>>

\* anext returns None, and the stop event is set.
InputEnds ==
    /\ loop["input"] = "waiting"
    /\ InputMustStop
    /\ EndLoop("input", "ended")
    /\ UNCHANGED <<eventVars, queue, buffer, timer, jobs, lateFlush,
                   stopRequested, phase, group>>

\* anext raises StopAsyncIteration: the source has no more events.  No
\* fairness is assumed of it; a Kafka source never comes to its end.
InputExhausted ==
    /\ loop["input"] = "waiting"
    /\ unread = {}
    /\ EndLoop("input", "ended")
    /\ UNCHANGED <<eventVars, queue, buffer, timer, jobs, lateFlush,
                   stopRequested, phase, group>>

\* anext raises an InputError (a consumer error, for example).
InputCrashes ==
    /\ "crash" \in Disruptions
    /\ loop["input"] = "waiting"
    /\ EndLoop("input", "crashed")
    /\ UNCHANGED <<eventVars, queue, buffer, timer, jobs, lateFlush,
                   stopRequested, phase, group>>

(***************************************************************************)
(* A batching worker: buffer, timer and flushes.                           *)
(***************************************************************************)
NewJob(by, batch) == [by |-> by, stage |-> "call", todo |-> batch]

\* Mutant: the length is compared before the event is appended.
StartsTimerLate(batch) == Len(batch) = 2

\* Only the first event of a batch starts a timer.
StartsTimer(batch) == Len(batch) = 1

\* _start_timer_locked: a timer that is still pending is cancelled and
\* replaced.
Started(timers) == timers \cup {"current"}

\* Mutant: _flush_timer is reset and its task sleeps on.
DrainedUncancelled(timers) == IF timers = {} THEN {} ELSE {"stray"}

\* _drain_locked: the timer is cancelled (a sleep that is cancelled never
\* flushes) and _flush_timer reset.
Drained(timers) == timers \ {"current"}

\* _handle_next: the item is buffered; the first of a batch starts the timer,
\* the last drains the buffer.
Take(w) ==
    /\ loop[w] = "waiting"
    /\ queue[w] # <<>> /\ Head(queue[w]) # Stop
    /\ LET batch == Append(buffer[w], Head(queue[w]))
           full == Len(batch) >= BatchSize[w]
           timers == IF StartsTimer(batch) THEN Started(timer[w]) ELSE timer[w]
       IN  /\ buffer' = [buffer EXCEPT ![w] = IF full THEN <<>> ELSE batch]
           /\ timer' = [timer EXCEPT ![w] = IF full THEN Drained(timers) ELSE timers]
           /\ jobs' = [jobs EXCEPT ![w] =
                            IF full THEN @ \cup {NewJob("loop", batch)} ELSE @]
           /\ loop' = [loop EXCEPT ![w] = IF full THEN "flushing" ELSE @]
    /\ queue' = [queue EXCEPT ![w] = Tail(@)]
    /\ UNCHANGED <<eventVars, lateFlush, orchestratorVars>>

EventsOf(js) == UNION {ToSet(j.todo) : j \in js}
TimerJobs(w) == {j \in jobs[w] : j.by = "timer"}

\* Mutant: the worker ends without the final flush.
TakeStopWithoutFlush(w) ==
    /\ loop[w] = "waiting"
    /\ queue[w] # <<>> /\ Head(queue[w]) = Stop
    /\ queue' = [queue EXCEPT ![w] = Tail(@)]
    /\ EndLoop(w, "ended")
    /\ UNCHANGED <<eventVars, buffer, timer, jobs, lateFlush, stopRequested, phase, group>>

\* The loop meets the sentinel: the timer is cancelled and what is buffered
\* is flushed a last time.
TakeStop(w) ==
    /\ loop[w] = "waiting"
    /\ queue[w] # <<>> /\ Head(queue[w]) = Stop
    /\ queue' = [queue EXCEPT ![w] = Tail(@)]
    /\ buffer' = [buffer EXCEPT ![w] = <<>>]
    /\ timer' = [timer EXCEPT ![w] = @ \ {"current"}]
    /\ IF buffer[w] = <<>>
       THEN /\ EndLoop(w, "ended")
            /\ lateFlush' = lateFlush \cup EventsOf(TimerJobs(w))
            /\ UNCHANGED jobs
       ELSE /\ loop' = [loop EXCEPT ![w] = "draining"]
            /\ jobs' = [jobs EXCEPT ![w] = @ \cup {NewJob("loop", buffer[w])}]
            /\ UNCHANGED <<internalStop, lateFlush>>
    /\ UNCHANGED <<eventVars, stopRequested, phase, group>>

\* Mutant: the timer flushes a copy and does not clear the buffer.
TimerFiresKeepingBuffer(w) ==
    /\ \E t \in timer[w] : timer' = [timer EXCEPT ![w] = Drained(@ \ {t})]
    /\ jobs' = [jobs EXCEPT ![w] =
                    IF buffer[w] = <<>> THEN @ ELSE @ \cup {NewJob("timer", buffer[w])}]
    /\ UNCHANGED <<eventVars, queue, buffer, loop, lateFlush, orchestratorVars>>

\* _flush_after_interval: a timer, which may outlive its cancelled or failed
\* worker, drains what is in the buffer and flushes it in its own task.
TimerFires(w) ==
    /\ \E t \in timer[w] : timer' = [timer EXCEPT ![w] =
            IF buffer[w] = <<>> THEN @ \ {t} ELSE Drained(@ \ {t})]
    /\ buffer' = [buffer EXCEPT ![w] = <<>>]
    /\ jobs' = [jobs EXCEPT ![w] =
                    IF buffer[w] = <<>> THEN @ ELSE @ \cup {NewJob("timer", buffer[w])}]
    /\ UNCHANGED <<eventVars, queue, loop, lateFlush, orchestratorVars>>

\* The handler call j of w goes on as k, or is over when nothing is left to
\* do; the loop, if it was waiting for the call, goes on or ends.
Continue(w, j, k) ==
    LET others == jobs[w] \ {j}
        over == k.todo = <<>>
    IN  /\ jobs' = [jobs EXCEPT ![w] = IF over THEN others ELSE others \cup {k}]
        /\ IF over /\ j.by = "loop" /\ loop[w] = "draining"
           THEN /\ EndLoop(w, "ended")
                /\ lateFlush' = lateFlush \cup EventsOf(TimerJobs(w))
           ELSE /\ loop' = [loop EXCEPT ![w] =
                                IF over /\ j.by = "loop" THEN "waiting" ELSE @]
                /\ UNCHANGED <<internalStop, lateFlush>>

(***************************************************************************)
(* The handlers of workflow.py.                                            *)
(***************************************************************************)

\* What becomes of one event of a batch in the handler's call.
Processed(e) == {"extras", "empty", "data", "failed"}
ExtrasSent(e) == {"empty", "data", "failed"}
DefaultStored(e) == IF HasDefaultOutput THEN {"stored", "failed"} ELSE {"passed"}
ErrorStored(e) == IF HasErrorOutput THEN {"reported", "unreported"} ELSE {"passed"}

Outcomes(w, e) ==
    CASE w = "processing" -> Processed(e)
      [] w = "extra_output" -> ExtrasSent(e)
      [] w = "output" -> DefaultStored(e)
      [] w = "error" -> ErrorStored(e)

\* process works on one event of the batch at a time, store on all of them.
Called(w, j) == IF w = "processing" THEN {Head(j.todo)} ELSE ToSet(j.todo)

Call(w, j) ==
    /\ w # "acknowledge"
    /\ j.stage = "call"
    /\ status' \in {f \in [Events -> Statuses] : \A e \in Events :
            f[e] \in IF e \in Called(w, j) THEN Outcomes(w, e) ELSE {status[e]}}
    /\ jobs' = [jobs EXCEPT ![w] = (@ \ {j}) \cup {[j EXCEPT !.stage = "route"]}]
    /\ UNCHANGED <<unread, hand, acked, givenUp, queue, buffer, timer, loop, lateFlush,
                   orchestratorVars>>

\* Mutant: only the processing worker looks for failed events.
TargetOfFailedIgnored(w, e) ==
    CASE w = "processing" /\ status[e] = "failed" -> "error"
      [] w = "processing" /\ status[e] = "extras" -> "extra_output"
      [] w \in {"processing", "extra_output"} /\ status[e] = "data" -> "output"
      [] OTHER -> "acknowledge"

\* The queue an event goes to after the call.
Target(w, e) ==
    CASE w # "error" /\ status[e] = "failed" -> "error"
      [] w = "processing" /\ status[e] = "extras" -> "extra_output"
      [] w \in {"processing", "extra_output"} /\ status[e] = "data" -> "output"
      [] OTHER -> "acknowledge"

\* The call goes on with the next event of its batch.
AfterRouting(w, j) ==
    [j EXCEPT !.todo = Tail(@), !.stage = IF w = "processing" THEN "call" ELSE @]

Route(w, j) ==
    /\ j.stage = "route"
    /\ LET e == Head(j.todo)
       IN  /\ status[e] # "unreported"
           /\ HasRoom(Target(w, e))
           /\ queue' = [queue EXCEPT ![Target(w, e)] = Append(@, e)]
    /\ Continue(w, j, AfterRouting(w, j))
    /\ UNCHANGED <<eventVars, buffer, timer, stopRequested, phase, group>>

\* Mutant: every error event is acknowledged, stored or not.
AcknowledgeUnreported(w, j) ==
    /\ j.stage = "route"
    /\ status[Head(j.todo)] = "unreported"
    /\ HasRoom("acknowledge")
    /\ queue' = [queue EXCEPT !["acknowledge"] = Append(@, Head(j.todo))]
    /\ Continue(w, j, AfterRouting(w, j))
    /\ UNCHANGED <<eventVars, buffer, timer, stopRequested, phase, group>>

\* The error handler drops what the error output could not store.
DropUnreported(w, j) ==
    /\ j.stage = "route"
    /\ status[Head(j.todo)] = "unreported"
    /\ givenUp' = givenUp \cup {Head(j.todo)}
    /\ Continue(w, j, AfterRouting(w, j))
    /\ UNCHANGED <<unread, status, hand, acked, queue, buffer, timer, stopRequested,
                   phase, group>>

\* _acknowledge_events: input_source.acknowledge returns or only warns.
AcknowledgeBatch(w, j) ==
    /\ w = "acknowledge"
    /\ acked' = acked \cup ToSet(j.todo)
    /\ Continue(w, j, [j EXCEPT !.todo = <<>>])
    /\ UNCHANGED <<unread, status, hand, givenUp, queue, buffer, timer, stopRequested,
                   phase, group>>

\* The handler raises: acknowledge its InputError again, the extra output's
\* what its stores raised (raise_from_gather), the others what store raises;
\* only the processing handler catches everything.  In the loop that ends the
\* worker; in a timer's task nobody notices.
HandlerRaises(w, j) ==
    /\ "crash" \in Disruptions
    /\ w # "processing"
    /\ j.stage = "call"
    /\ givenUp' = givenUp \cup ToSet(j.todo)
    /\ jobs' = [jobs EXCEPT ![w] = @ \ {j}]
    /\ IF j.by = "loop" THEN EndLoop(w, "crashed") ELSE UNCHANGED <<loop, internalStop>>
    /\ UNCHANGED <<unread, status, hand, acked, queue, buffer, timer, lateFlush,
                   stopRequested, phase, group>>

JobStep(w, j) ==
    \/ Call(w, j)
    \/ Route(w, j)
    \/ DropUnreported(w, j)
    \/ AcknowledgeBatch(w, j)
    \/ HandlerRaises(w, j)

(***************************************************************************)
(* The orchestrator: run, _shut_down, _stop_workers_in_topological_order.  *)
(***************************************************************************)
Stopping == StopOrder[group]
Finished(w) == loop[w] \in Ended

RequestStop ==
    /\ "stop" \in Disruptions
    /\ ~ stopRequested
    /\ stopRequested' = TRUE
    /\ UNCHANGED <<eventVars, workerVars, internalStop, phase, group>>

\* run: either event wakes it, and the shutdown begins.
BeginShutdown ==
    /\ phase = "running"
    /\ stopRequested \/ internalStop
    /\ phase' = "stopping"
    /\ UNCHANGED <<eventVars, workerVars, stopRequested, internalStop, group>>

\* Mutant: the worker's own queue never gets the sentinel.
StopWorkerWithoutSentinel ==
    /\ phase = "stopping"
    /\ phase' = "collecting"
    /\ UNCHANGED <<eventVars, workerVars, stopRequested, internalStop, group>>

\* worker.stop(): the input's event is set, a queue gets the sentinel, which
\* waits for room like every put, even if nobody reads the queue any more.
StopWorker ==
    /\ phase = "stopping"
    /\ IF Stopping = "input"
       THEN UNCHANGED queue
       ELSE /\ HasRoom(Stopping)
            /\ queue' = [queue EXCEPT ![Stopping] = Append(@, Stop)]
    /\ phase' = "collecting"
    /\ UNCHANGED <<eventVars, buffer, timer, jobs, loop, lateFlush, stopRequested,
                   internalStop, group>>

\* Mutant: nothing notices that the last worker is stopped.
NextGroupUnbounded == phase' = "stopping" /\ group' = group + 1

NextGroup ==
    IF group = Len(StopOrder) THEN phase' = "ended" /\ UNCHANGED group
                              ELSE phase' = "stopping" /\ group' = group + 1

\* Mutant: the next worker is stopped although this one is still running.
CollectWithoutAwaiting ==
    /\ phase = "collecting"
    /\ NextGroup
    /\ UNCHANGED <<eventVars, workerVars, stopRequested, internalStop>>

\* group_tasks: a task that has finished is no longer registered, once the
\* event loop has called _done.
CollectTasks ==
    /\ phase = "collecting"
    /\ \/ Finished(Stopping) /\ NextGroup
       \/ phase' = "awaiting" /\ UNCHANGED group
    /\ UNCHANGED <<eventVars, workerVars, stopRequested, internalStop>>

\* The awaited task finishes; an exception of it ends the whole shutdown.
GroupFinishes ==
    /\ phase = "awaiting"
    /\ Finished(Stopping)
    /\ IF loop[Stopping] = "crashed" THEN phase' = "failed" /\ UNCHANGED group ELSE NextGroup
    /\ UNCHANGED <<eventVars, workerVars, stopRequested, internalStop>>

\* Workers of ws are cancelled: what their loop was handling is gone, what
\* they have buffered and the timer that will flush it are not.
CancelLoops(ws) ==
    LET gone(w) == {j \in jobs[w] : j.by = "loop"}
        handled == (UNION {EventsOf(gone(w)) : w \in ws \ {"input"}})
                     \cup IF "input" \in ws THEN hand ELSE {}
    IN  /\ loop' = [w \in Workers |-> IF w \in ws THEN "cancelled" ELSE loop[w]]
        /\ jobs' = [w \in BatchingWorkers |->
                        IF w \in ws THEN jobs[w] \ gone(w) ELSE jobs[w]]
        /\ hand' = IF "input" \in ws THEN {} ELSE hand
        /\ givenUp' = givenUp \cup handled
        /\ internalStop' = TRUE

\* The timeout of a group: its task is cancelled and awaited again.
GroupTimeout ==
    /\ "timeout" \in Disruptions
    /\ phase = "awaiting"
    /\ ~ Finished(Stopping)
    /\ CancelLoops({Stopping})
    /\ UNCHANGED <<unread, status, acked, queue, buffer, timer, lateFlush,
                   stopRequested, phase, group>>

\* The timeout of the whole shutdown: every task that is left is cancelled.
TotalTimeout ==
    /\ "timeout" \in Disruptions
    /\ phase \in {"stopping", "collecting", "awaiting"}
    /\ CancelLoops({w \in Workers : ~ Finished(w)})
    /\ phase' = "ended"
    /\ UNCHANGED <<unread, status, acked, queue, buffer, timer, lateFlush,
                   stopRequested, group>>

Next ==
    \/ \E e \in Events : InputReads(e) \/ InputPuts(e)
    \/ InputEnds
    \/ InputExhausted
    \/ InputCrashes
    \/ \E w \in BatchingWorkers :
        \/ Take(w)
        \/ TakeStop(w)
        \/ TimerFires(w)
        \/ \E j \in jobs[w] : JobStep(w, j)
    \/ RequestStop
    \/ BeginShutdown
    \/ StopWorker
    \/ CollectTasks
    \/ GroupFinishes
    \/ GroupTimeout
    \/ TotalTimeout

Spec == Init /\ [][Next]_vars

\* The event loop runs every task that can go on, timers fire, handlers and
\* outputs answer (they time out themselves), and a source that has events
\* delivers them.  Whether anybody asks for a stop is left open.
Fairness ==
    /\ \A e \in Events : WF_vars(InputReads(e)) /\ WF_vars(InputPuts(e))
    /\ WF_vars(InputEnds)
    /\ \A w \in BatchingWorkers :
        /\ WF_vars(Take(w))
        /\ WF_vars(TakeStop(w))
        /\ WF_vars(TimerFires(w))
        /\ \A e \in Events : WF_vars(\E j \in jobs[w] :
                                        Head(j.todo) = e /\ JobStep(w, j))
    /\ WF_vars(BeginShutdown)
    /\ WF_vars(StopWorker)
    /\ WF_vars(CollectTasks)
    /\ WF_vars(GroupFinishes)

FairSpec == Spec /\ Fairness

(***************************************************************************)
(* Properties.                                                             *)
(***************************************************************************)

\* The outcomes an event may be acknowledged with.  Without a default output
\* (or an error output) the code counts the event itself as dealt with.
SettledStatuses == {"stored", "reported", "empty", "passed"}

\* At-least-once: only an event that was stored, reported or deleted by a
\* processor is acknowledged, whichever handler sent it to the acknowledge
\* worker, and whatever was cancelled on the way (workflow.py).
AckedIsSettled == \A e \in acked : status[e] \in SettledStatuses

\* Every place that can hold an event, one element for every copy.
PlacesOf(e) ==
    (IF e \in unread THEN {<<"source">>} ELSE {})
    \cup (IF e \in hand THEN {<<"input">>} ELSE {})
    \cup (UNION {
            {<<"queue", w, i>> : i \in {k \in DOMAIN queue[w] : queue[w][k] = e}}
            \cup {<<"buffer", w, i>> : i \in {k \in DOMAIN buffer[w] : buffer[w][k] = e}}
            \cup {<<"job", w, j>> : j \in {k \in jobs[w] : e \in ToSet(k.todo)}} :
                w \in BatchingWorkers})
    \cup (IF e \in acked THEN {<<"acked">>} ELSE {})
    \cup (IF e \in givenUp THEN {<<"given up">>} ELSE {})

\* No event is lost between two workers or duplicated by a timer that races
\* the size trigger, a stop or a cancellation: it is in exactly one place
\* (_handle_next, _flush_after_interval, _drain_locked, run).
ExactlyOnePlace == \A e \in Events : Cardinality(PlacesOf(e)) = 1

\* A buffer that holds events has exactly one timer asleep, the one it can
\* cancel, also after its worker failed or was cancelled; an empty one has
\* none.  So no partial batch waits for ever because its timer was cancelled
\* or never started, and none is flushed early by the timer of a batch before
\* it (_start_timer_locked, _cancel_timer_if_needed, _drain_locked, run).
TimerGuardsBuffer ==
    \A w \in BatchingWorkers : timer[w] = IF buffer[w] = <<>> THEN {} ELSE {"current"}

\* Workers finish in the order of the data flow unless something fails: a
\* worker whose input may still grow is not ended (iterate_workers_topologically).
UpstreamEndsFirst ==
    \A i, k \in DOMAIN StopOrder :
        i < k /\ loop[StopOrder[k]] = "ended" => loop[StopOrder[i]] \in Ended

\* A graceful shutdown leaves nothing it has read in a queue, a buffer or a
\* handler, but for events in a flush that a timer had started when its
\* worker ended: nobody waits for that (_stop_workers_in_topological_order).
IsDone(e) == e \in unread \cup acked \cup givenUp
StoppedGracefully == phase = "ended" /\ \A w \in Workers : loop[w] = "ended"
DrainedButForLateFlushes ==
    StoppedGracefully => \A e \in Events : IsDone(e) \/ e \in lateFlush

\* "Ensures a final buffer flush during shutdown" (BatchingWorker.run), and
\* "Stops workers and background tasks" (_shut_down): when a shutdown without
\* timeouts and failures is over, no flush is under way.
NoFlushAfterShutdown ==
    StoppedGracefully => \A w \in BatchingWorkers : jobs[w] = {}

\* The workflow implements the life cycle of events.
Settled == {e \in Events \ (acked \cup givenUp) : status[e] \in SettledStatuses}
Lifecycle == INSTANCE EventLifecycle WITH
    settled <- Settled,
    inFlight <- Events \ (unread \cup Settled \cup acked \cup givenUp)
ImplementsLifecycle == Lifecycle!Spec

\* Back-pressure never blocks the workers for good: an event that was read is
\* acknowledged or given up in the end.  Only a shutdown can prevent that, for
\* events in a flush it does not wait for.
EveryEventFinishes ==
    \A e \in Events : e \in hand ~> e \in acked \cup givenUp \cup lateFlush

\* A shutdown needs no timeout to come to its end, whether it was requested or
\* a worker has ended by itself: every sentinel finds room and every worker
\* meets its own (run, stop, _stop_workers_in_topological_order).
ShutdownEnds == stopRequested \/ internalStop ~> phase = "ended"
=============================================================================
