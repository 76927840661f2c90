--------------------------- MODULE ClassicManager ---------------------------
(***************************************************************************)
(* The classic runner (logprep/runner.py) and PipelineManager              *)
(* (logprep/framework/pipeline_manager.py): the main process, which starts *)
(* the error listener and the pipelines, restarts pipelines that have      *)
(* ended, reloads them when the configuration has changed, and stops them  *)
(* one after the other.                                                    *)
(***************************************************************************)
EXTENDS ClassicPipeline

CONSTANTS
    RestartLimit,   \* restart_count of the configuration; negative: no limit
    MetricsEnabled  \* metrics.enabled: there is a prometheus_exporter

ASSUME ClassicManagerAssumption == RestartLimit \in Int /\ MetricsEnabled \in BOOLEAN

VARIABLES
    main,           \* where the main process is
    count,          \* the number of processes in _pipelines
    told,           \* the last of them has been told to stop
    due,            \* the failed pipelines that are to be created again
    probe,          \* the manager's own call of get_output_instance
    handedOver,     \* put by the manager, but not in the pipe yet
    restartCount,   \* restart_count of the manager
    exitReceived    \* _exit_received

creationVars == <<due, probe, handedOver>>
mainVars == <<main, count, told, creationVars, restartCount, exitReceived>>
vars == <<mainVars, pipelineVars, queueVars, listenerVars, accounted, disruptions>>

ClassicTypeOK ==
    /\ ListenerTypeOK /\ PipelineTypeOK
    /\ main \in {"handshake", "starting", "head", "check", "restarting", "reloading",
                 "stopping", "sentinel", "joining", "ended"}
    /\ count \in 0 .. ProcessCount /\ told \in BOOLEAN
    /\ due \subseteq Processes
    /\ probe \in {"none", "sent", "failed"} /\ handedOver \in Seq({Ping, Sentinel})
    /\ restartCount \in Nat /\ exitReceived \in BOOLEAN

\* PipelineManager.__init__ has started the listener, if there is one, and
\* awaits it; otherwise start has created the pipelines.
Init ==
    /\ ListenerInit /\ PipelineInit
    /\ main = IF HasErrorQueue THEN "handshake" ELSE "head"
    /\ count = IF HasErrorQueue THEN 0 ELSE ProcessCount
    /\ told = FALSE /\ restartCount = 0 /\ exitReceived = FALSE
    /\ due = {} /\ probe = "none" /\ handedOver = <<>>

\* The signal handler.  Before the manager is complete there is no runner to
\* be stopped: a signal that comes during the handshake is lost.
StopRunner ==
    /\ ~ exitReceived /\ main \notin {"handshake", "ended"}
    /\ exitReceived' = TRUE
    /\ UNCHANGED <<main, count, told, creationVars, restartCount, pipelineVars,
                   queueVars, listenerVars, accounted, disruptions>>

MainFrame == UNCHANGED <<exitReceived, committed, listenerVars, accounted, disruptions>>

\* error_queue.get: the listener's 1, or the sentinel of one that failed.
Handshake ==
    /\ main = "handshake"
    /\ Take
    /\ main' = IF Got = Sentinel THEN "stopping" ELSE "starting"
    /\ UNCHANGED <<count, told, creationVars, restartCount, process>> /\ MainFrame

(***************************************************************************)
(* The creation of pipelines, by start, reload or restart_failed_pipeline. *)
(***************************************************************************)

Creating == main \in {"starting", "restarting"} \/ (main = "reloading" /\ count = 0)

\* The pipelines that are created: all, or those that have failed.
Due == IF main = "restarting" THEN due ELSE Processes

\* The exporter's health check of the error output: for the first pipeline
\* the manager calls get_output_instance as the listener has done.
NeedsProbe == MetricsEnabled /\ HasErrorQueue /\ 1 \in Due

\* output.setup returns, and a 1 is put; or it exits, and the manager stops
\* after a sentinel that nobody expects; or it raises another exception, and
\* the manager stops at once.
Probe ==
    /\ Creating /\ NeedsProbe /\ probe = "none"
    /\ \/ /\ HasSlot
          /\ slots' = slots + 1
          /\ \/ /\ handedOver' = Append(handedOver, Ping)
                /\ probe' = "sent" /\ UNCHANGED main
             \/ /\ handedOver' = Append(handedOver, Sentinel)
                /\ probe' = "failed" /\ main' = "stopping"
       \/ main' = "stopping" /\ UNCHANGED <<slots, probe, handedOver>>
    /\ UNCHANGED <<count, told, due, restartCount, process, pipe>>
    /\ MainFrame

\* The manager waits until the queue is empty, and creates the processes.
CreatePipelines ==
    /\ Creating
    /\ NeedsProbe => probe = "sent" /\ pipe = <<>>
    /\ process' = [p \in Processes |-> IF p \in Due THEN NewProcess ELSE process[p]]
    /\ count' = ProcessCount
    /\ main' = IF main = "reloading" THEN "check" ELSE "head"
    /\ restartCount' = IF main = "restarting" /\ RestartLimit >= 0
                       THEN restartCount + 1 ELSE restartCount
    /\ due' = {} /\ probe' = "none"
    /\ UNCHANGED <<told, handedOver, queueVars>> /\ MainFrame

\* The manager's feeder thread.
ManagerFeeds ==
    /\ handedOver # <<>> /\ ~ PipeFull
    /\ pipe' = Append(pipe, Head(handedOver)) /\ handedOver' = Tail(handedOver)
    /\ UNCHANGED <<main, count, told, due, probe, restartCount, process,
                   slots>>
    /\ MainFrame

(***************************************************************************)
(* The iteration of the runner.                                            *)
(***************************************************************************)

ShouldExit == RestartLimit >= 0 /\ restartCount >= RestartLimit

\* Mutant: only processes with an exit code other than 0.
FailedByExitCode == {p \in Processes : At(p, "dead")}
Failed == {p \in Processes : ~ Alive(p)}

\* should_exit and restart_failed_pipeline: sys.exit, whose exit handler stops
\* the manager, or every process that has ended is replaced.
CheckPipelines ==
    \/ ShouldExit /\ main' = "stopping" /\ UNCHANGED <<due, restartCount>>
    \/ /\ ~ ShouldExit /\ Failed = {}
       /\ main' = "head" /\ restartCount' = 0 /\ UNCHANGED due
    \/ /\ ~ ShouldExit /\ Failed # {}
       /\ main' = "restarting" /\ due' = Failed /\ UNCHANGED restartCount

\* _iterate: a stop, a new version of the configuration, or neither; a reload
\* comes back in "check".
Iterate ==
    /\ \/ /\ main = "head" /\ exitReceived
          /\ main' = "stopping" /\ UNCHANGED <<due, restartCount, disruptions>>
       \/ /\ main = "head" /\ ~ exitReceived /\ Disruption
          /\ main' = "reloading" /\ UNCHANGED <<due, restartCount>>
       \/ /\ main = "check" \/ (main = "head" /\ ~ exitReceived)
          /\ CheckPipelines /\ UNCHANGED disruptions
    /\ UNCHANGED <<count, told, probe, handedOver, exitReceived, pipelineVars, queueVars,
                   listenerVars, accounted>>

(***************************************************************************)
(* The stop, and the first half of a reload.                               *)
(***************************************************************************)

\* _decrease_to_count: the last process is told to stop ...
TellLast ==
    /\ main \in {"reloading", "stopping"} /\ count > 0 /\ ~ told
    /\ Become(count, [process[count] EXCEPT !.iterating = FALSE])
    /\ told' = TRUE
    /\ UNCHANGED <<main, count, creationVars, restartCount, queueVars>>
    /\ MainFrame

\* ... and joined.
JoinLast ==
    /\ told /\ ~ Alive(count)
    /\ count' = count - 1 /\ told' = FALSE
    /\ UNCHANGED <<main, creationVars, restartCount, process, queueVars>>
    /\ MainFrame

\* Mutant: stop turns to the listener first.
AllStoppedUnchecked == main = "stopping"

AllStopped == main = "stopping" /\ count = 0

\* stop of the listener: the sentinel needs a slot, without a timeout.
StopListener ==
    /\ \/ /\ AllStopped
          /\ main' = IF HasErrorQueue THEN "sentinel" ELSE "ended"
          /\ UNCHANGED <<slots, handedOver>>
       \/ /\ main = "sentinel" /\ HasSlot
          /\ slots' = slots + 1 /\ handedOver' = Append(handedOver, Sentinel)
          /\ main' = "joining"
    /\ UNCHANGED <<count, told, due, probe, restartCount, process, pipe>>
    /\ MainFrame

\* The listener is joined; the exit then waits for the feeder thread.
JoinListener ==
    /\ main = "joining" /\ listener \in ListenerEnded /\ handedOver = <<>>
    /\ main' = "ended"
    /\ UNCHANGED <<count, told, creationVars, restartCount, process, queueVars>>
    /\ MainFrame

MainStep == \/ Handshake \/ Probe \/ CreatePipelines \/ Iterate \/ TellLast
            \/ JoinLast \/ StopListener \/ JoinListener

Next == \/ StopRunner \/ MainStep \/ ManagerFeeds
        \/ (ListenerStep /\ UNCHANGED <<mainVars, pipelineVars>>)
        \/ \E p \in Processes : PipelineStep(p) /\ UNCHANGED mainVars

Spec == Init /\ [][Next]_vars

\* The processes are scheduled, a poll of the source times out, a write to
\* an output returns; the feeder threads run.  No failure is promised.
Fairness ==
    /\ WF_vars(MainStep) /\ WF_vars(ManagerFeeds)
    /\ WF_vars(/\ \/ ListenerSetsUp \/ PingArrives \/ ListenerSynced \/ ListenerGets
                  \/ ListenerDrains \/ ListenerEnds
                  \/ (ListenerRunsTasks /\ listener' # "dead")
               /\ UNCHANGED <<mainVars, pipelineVars>>)
    /\ \A p \in Processes : WF_vars((Works(p) \/ Feed(p)) /\ UNCHANGED mainVars)

FairSpec == Spec /\ Fairness

(***************************************************************************)
(* Properties.                                                             *)
(***************************************************************************)

\* An event whose offset is committed has been delivered, deleted or stored
\* in the error output, is still on its way there, or is lost in one of the
\* ways the code leaves open: without a log message when its record yields
\* no event, when a process is killed, ends in its error handler or its
\* input fails to shut down, and when extra data cannot be stored instead of
\* it; with one when the error queue is full or missing or the last write of
\* a shutdown fails (abc/input.py:215-217, pipeline.py:283-309, 342-351,
\* 379-430).
CommittedIsAccountedFor ==
    \A e \in Events : IsCommitted(e) =>
        e \in UNION {accounted, errorBacklog, ToSet(pipe), InMemory(e[1])}

\* A manager that has stopped, with its listener, has left no error item in
\* the queue: the pipelines are joined before the listener is told to stop,
\* and it drains what is left (pipeline_manager.py:108-131, 286-296).  But
\* a health check of the exporter that finds the error output down tells the
\* listener to stop while pipelines may be running (76-83, 318-323).
NoErrorLeftBehind ==
    main = "ended" /\ listener = "ended" /\ probe # "failed" =>
        /\ errorBacklog = {} /\ ToSet(pipe) \cap Events = {}
        /\ \A p \in Processes : InMemory(p) = {}

(***************************************************************************)
(* Liveness.  The main process, a pipeline or the listener can hang in     *)
(* seven states, which they leave by a kill or a failure only.             *)
(***************************************************************************)

\* The pipeline p works no longer.
Stopped(p) == process[p].state \in Exiting \cup ProcessEnded

\* The child's run has set the flag after stop had cleared it; join waits.
StopLost == told /\ process[count].iterating /\ ~ Stopped(count)

\* The listener has taken its own 1, or died without a word; get waits.
NoAnswer ==
    main = "handshake" /\ listener \notin {"setup", "syncing"} /\ ~ ping /\ pipe = <<>>

\* An item arrived before the listener saw the queue empty: an error, or the
\* manager's 1.  It waits for an empty queue, which only itself could empty.
ListenerStuck == main # "handshake" /\ listener = "syncing" /\ pipe # <<>>

\* The manager waits for an empty queue that nobody reads.
ProbeStuck == Creating /\ probe = "sent" /\ listener \in ListenerEnded /\ pipe # <<>>

\* The manager waits for a slot: the listener has ended, or the slots were
\* taken by processes that were killed.
NoSlot ==
    /\ main = "sentinel" \/ (Creating /\ NeedsProbe /\ probe = "none")
    /\ ~ HasSlot
    /\ \/ listener \in ListenerEnded
       \/ /\ pipe = <<>> /\ ~ ping /\ handedOver = <<>>
          /\ \A p \in Processes : process[p].transit = <<>>

\* A feeder thread waits for room in a pipe that nobody reads: its pipeline
\* does not exit, and is alive for the manager, ...
FeederStuck(p) ==
    /\ process[p].state \in Exiting /\ process[p].transit # <<>>
    /\ PipeFull /\ listener \in ListenerEnded

\* ... or the manager does not.
ManagerStuck == main = "joining" /\ handedOver # <<>> /\ PipeFull /\ listener \in ListenerEnded

Hangs == \/ StopLost \/ NoAnswer \/ ListenerStuck \/ ProbeStuck \/ NoSlot \/ ManagerStuck
         \/ \E p \in Processes : FeederStuck(p)

\* A stop, by a signal that has reached the runner, the restart limit or an
\* error output that is down, comes to its end, whatever the pipelines and
\* the listener are doing, but for those hangs
\* (runner.py:104-122, pipeline_manager.py:76-131, 196-200, 244-249,
\* 286-296, 312-325, pipeline.py:269-281).
StopEndsOrHangs == exitReceived \/ main = "stopping" ~> main = "ended" \/ Hangs

\* A pipeline that has stopped working, of its own accord or killed, is
\* replaced, or the whole of Logprep stops: it never runs on without one of
\* its pipelines, but for those hangs (pipeline_manager.py:251-284, 312-341,
\* runner.py:104-122).
EndedIsReplaced ==
    \A p \in Processes : Stopped(p) ~> ~ Stopped(p) \/ main = "ended" \/ Hangs
=============================================================================
