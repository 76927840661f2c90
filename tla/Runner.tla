------------------------------- MODULE Runner -------------------------------
(***************************************************************************)
(* The asynchronous runner of logprep/ng/runner.py: one task group with    *)
(* the body of Runner.run, the loop that refreshes the getters, the task   *)
(* that reloads the configuration, the metrics exporter, and one pipeline  *)
(* manager after the other, each built from the configuration of its time. *)
(*                                                                         *)
(* The configuration is ONE object, reloaded in place: a manager that is   *)
(* still being set up can take its components from one version and its    *)
(* workflow from the next.                                                 *)
(*                                                                         *)
(* The first task that raises aborts the group: every other task and the   *)
(* body get one CancelledError, and the group ends when all of them have.  *)
(***************************************************************************)
EXTENDS Naturals, Sequences, FiniteSets

CONSTANTS
    MaxChanges,         \* bound: how often the configuration changes
    MetricsEnabled,     \* metrics.enabled
    Faults              \* what may happen: "stop", "fail", "quit"

ASSUME RunnerAssumption ==
    /\ MaxChanges \in Nat
    /\ MetricsEnabled \in BOOLEAN
    /\ Faults \subseteq {"stop", "fail", "quit"}

VARIABLES
    stopEvent,      \* _stop_event
    aborting,       \* the task group is aborting
    pending,        \* tasks whose CancelledError is not yet delivered
    body,           \* where Runner.run awaits
    done,           \* the tasks its asyncio.wait found done
    version,        \* the version of the configuration object
    edition,        \* counts its contents that came without a new version
    refresh,        \* the refresh_config task
    known,          \* its current_config_version
    getters,        \* the refresh_getters task
    exporter,       \* the prometheus_exporter task
    exporterStop,   \* the exporter's should_exit
    managers        \* the managers created so far

configVars == <<version, edition, refresh, known>>
exporterVars == <<exporter, exporterStop>>
vars == <<stopEvent, aborting, pending, body, done, configVars, getters, exporterVars,
          managers>>

Versions == 0 .. MaxChanges
Editions == 0 .. MaxChanges
Configs == [version : Versions, edition : Editions]

\* What the configuration object holds, and what no manager has read.
Present == [version |-> version, edition |-> edition]
NotYet == [version |-> MaxChanges + 1, edition |-> 0]

\* The tasks of the group.  A manager's own CancelledError is in its record.
Tasks == {"body", "refresh", "getters", "exporter"}
Ended == {"done", "failed", "cancelled"}
RefreshEnded == {"changed", "none", "failed", "cancelled"}

Manager == [state : {"created", "setup", "running", "closing"} \cup Ended,
            outcome : Ended,                \* how it ends after "closing"
            stop : BOOLEAN,                 \* its stop event
            cancel : BOOLEAN,               \* a CancelledError is pending
            components : Configs \cup {NotYet},
            workflow : Configs \cup {NotYet},
            shutDown : {"no", "begun", "complete"}]

NewManager == [state |-> "created", outcome |-> "done", stop |-> FALSE, cancel |-> FALSE,
               components |-> NotYet, workflow |-> NotYet, shutDown |-> "no"]

Ids == DOMAIN managers
Current == Len(managers)
Live(m) == managers[m].state \notin Ended

RunnerTypeOK ==
    /\ stopEvent \in BOOLEAN /\ aborting \in BOOLEAN
    /\ pending \subseteq Tasks
    /\ body \in {"starting", "wait", "stopping", "late", "exporter", "join", "ended"}
    /\ done \subseteq {"stop", "refresh", "getters", "manager", "exporter"}
    /\ version \in Versions /\ known \in Versions /\ edition \in Editions
    /\ refresh \in {"created", "waiting", "loading", "off"} \cup RefreshEnded
    /\ getters \in {"running"} \cup Ended
    /\ exporter \in {"absent", "starting", "running"} \cup Ended
    /\ exporterStop \in BOOLEAN
    /\ managers \in Seq(Manager)

Init ==
    /\ stopEvent = FALSE /\ aborting = FALSE /\ pending = {} /\ done = {}
    /\ version = 0 /\ edition = 0 /\ known = 0 /\ refresh = "created"
    /\ getters = "running"
    /\ exporter = IF MetricsEnabled THEN "starting" ELSE "absent"
    /\ exporterStop = FALSE
    /\ IF MetricsEnabled THEN body = "starting" /\ managers = <<>>
                         ELSE body = "wait" /\ managers = <<NewManager>>

(***************************************************************************)
(* The task group.                                                         *)
(***************************************************************************)
Undisturbed(task) == task \notin pending

\* TaskGroup._abort, after the step that leaves the managers as ms.
AbortAnd(ms) ==
    /\ aborting' = TRUE
    /\ pending' = IF aborting THEN pending ELSE Tasks
    /\ managers' = IF aborting THEN ms
                   ELSE [m \in DOMAIN ms |->
                            [ms[m] EXCEPT !.cancel = ms[m].state \notin Ended]]

\* The CancelledError of task is delivered.
Deliver(task) ==
    /\ task \in pending
    /\ pending' = pending \ {task}

\* The signal handler, or whoever calls Runner.stop.
StopRunner ==
    /\ "stop" \in Faults
    /\ ~ stopEvent
    /\ body # "ended"
    /\ stopEvent' = TRUE
    /\ UNCHANGED <<aborting, pending, body, done, configVars, getters, exporterVars,
                   managers>>

(***************************************************************************)
(* _refresh_getters.                                                       *)
(***************************************************************************)
GettersStop ==
    /\ getters = "running" /\ Undisturbed("getters")
    /\ stopEvent
    /\ getters' = "done"
    /\ UNCHANGED <<stopEvent, aborting, pending, body, done, configVars, exporterVars,
                   managers>>

\* A getter's refresh raises.
GettersFail ==
    /\ "fail" \in Faults
    /\ getters = "running" /\ Undisturbed("getters")
    /\ getters' = "failed"
    /\ AbortAnd(managers)
    /\ UNCHANGED <<stopEvent, body, done, configVars, exporterVars>>

GettersCancelled ==
    /\ getters = "running"
    /\ Deliver("getters")
    /\ getters' = "cancelled"
    /\ UNCHANGED <<stopEvent, aborting, body, done, configVars, exporterVars, managers>>

(***************************************************************************)
(* _refresh_config, wait_for_refreshed_config and Configuration.reload.    *)
(***************************************************************************)
RefreshFrame == UNCHANGED <<stopEvent, body, done, getters, exporterVars>>

\* The first step of the task.  Without a config_refresh_interval it only
\* waits for the end; a reload leaves none without an interval.
RefreshBegins ==
    /\ refresh = "created" /\ Undisturbed("refresh")
    /\ known' = version
    /\ refresh' \in IF version = 0 THEN {"waiting", "off"} ELSE {"waiting"}
    /\ UNCHANGED <<aborting, pending, managers, version, edition>> /\ RefreshFrame

\* The interval has passed: reload awaits the sources.
RefreshWakes ==
    /\ refresh = "waiting" /\ Undisturbed("refresh")
    /\ ~ stopEvent
    /\ refresh' = "loading"
    /\ UNCHANGED <<aborting, pending, managers, version, edition, known>> /\ RefreshFrame

\* StopConfigRefresh, caught by _refresh_config, which awaits the stop event.
RefreshStops ==
    /\ refresh \in {"waiting", "off"} /\ Undisturbed("refresh")
    /\ stopEvent
    /\ refresh' = "none"
    /\ UNCHANGED <<aborting, pending, managers, version, edition, known>> /\ RefreshFrame

\* The same content, a source that cannot be read or an invalid document:
\* reload swallows it and leaves the configuration as it was.
ReloadKeeps ==
    /\ refresh = "loading" /\ Undisturbed("refresh")
    /\ refresh' = "waiting"
    /\ UNCHANGED <<aborting, pending, managers, version, edition, known>> /\ RefreshFrame

\* Another content under the same version: the object is overwritten all the
\* same, and nobody is told.
ReloadOverwrites ==
    /\ refresh = "loading" /\ Undisturbed("refresh")
    /\ version + edition < MaxChanges
    /\ edition' = edition + 1
    /\ refresh' = "waiting"
    /\ UNCHANGED <<aborting, pending, managers, version, known>> /\ RefreshFrame

\* Mutant: the versions are compared before the sources are awaited.
ReloadComparesFirst ==
    /\ refresh = "loading" /\ Undisturbed("refresh")
    /\ version + edition < MaxChanges
    /\ version' = version + 1
    /\ refresh' = IF version # known THEN "changed" ELSE "waiting"
    /\ UNCHANGED <<aborting, pending, managers, edition, known>> /\ RefreshFrame

\* All attributes are set, and the versions compared, in one step.
ReloadChanges ==
    /\ refresh = "loading" /\ Undisturbed("refresh")
    /\ version + edition < MaxChanges
    /\ version' = version + 1
    /\ refresh' = IF version' # known THEN "changed" ELSE "waiting"
    /\ UNCHANGED <<aborting, pending, managers, edition, known>> /\ RefreshFrame

\* Any other exception of reload is logged and raised.
ReloadFails ==
    /\ "fail" \in Faults
    /\ refresh = "loading" /\ Undisturbed("refresh")
    /\ refresh' = "failed"
    /\ AbortAnd(managers)
    /\ UNCHANGED <<version, edition, known>> /\ RefreshFrame

RefreshCancelled ==
    /\ refresh \notin RefreshEnded
    /\ Deliver("refresh")
    /\ refresh' = "cancelled"
    /\ UNCHANGED <<aborting, managers, version, edition, known>> /\ RefreshFrame

(***************************************************************************)
(* The exporter's server (uvicorn).                                        *)
(***************************************************************************)
ExporterFrame ==
    UNCHANGED <<stopEvent, aborting, body, done, configVars, getters, managers>>

ExporterStarts ==
    /\ exporter = "starting" /\ Undisturbed("exporter")
    /\ exporter' = "running"
    /\ UNCHANGED <<pending, exporterStop>> /\ ExporterFrame

\* It was told to exit, or ends by itself: its own signal handlers stop it.
ExporterEnds ==
    /\ exporter = "running" /\ Undisturbed("exporter")
    /\ exporterStop \/ "quit" \in Faults
    /\ exporter' = "done"
    /\ UNCHANGED <<pending, exporterStop>> /\ ExporterFrame

ExporterCancelled ==
    /\ exporter \in {"starting", "running"}
    /\ Deliver("exporter")
    /\ exporter' = "cancelled"
    /\ UNCHANGED exporterStop /\ ExporterFrame

(***************************************************************************)
(* A manager's task: _run_pipeline_manager and PipelineManager.            *)
(***************************************************************************)
ManagerFrame == UNCHANGED <<stopEvent, body, done, configVars, getters, exporterVars>>

\* Manager m steps undisturbed to the record r; an exception aborts the group.
Step(m, r) ==
    LET ms == [managers EXCEPT ![m] = r]
    IN  /\ ~ managers[m].cancel
        /\ IF r.state = "failed"
           THEN AbortAnd(ms)
           ELSE managers' = ms /\ UNCHANGED <<aborting, pending>>

\* Its first step: Factory.create, from the configuration as it is now.
ManagerCreates(m) ==
    /\ managers[m].state = "created"
    /\ Step(m, [managers[m] EXCEPT !.state = "setup", !.components = Present])
    /\ ManagerFrame

\* A component cannot be created or set up.
ManagerSetupFails(m) ==
    /\ "fail" \in Faults
    /\ managers[m].state \in {"created", "setup"}
    /\ Step(m, [managers[m] EXCEPT !.state = "failed"])
    /\ ManagerFrame

\* gather has returned: the workflow's configuration is read only now.
ManagerSetUp(m) ==
    /\ managers[m].state = "setup"
    /\ Step(m, [managers[m] EXCEPT !.state = "running", !.workflow = Present])
    /\ ManagerFrame

\* _shut_down begins; the task will end with outcome.
BeginShutDown(r, outcome) ==
    [r EXCEPT !.state = "closing", !.outcome = outcome, !.shutDown = "begun"]

\* The orchestrator's run returns: stopped, or by itself (a worker ended).
OrchestratorEnds(m) ==
    /\ managers[m].state = "running"
    /\ managers[m].stop \/ "quit" \in Faults
    /\ Step(m, BeginShutDown(managers[m], "done"))
    /\ ManagerFrame

\* The orchestrator's run raises.
OrchestratorFails(m) ==
    /\ "fail" \in Faults
    /\ managers[m].state = "running"
    /\ Step(m, BeginShutDown(managers[m], "failed"))
    /\ ManagerFrame

\* Every component's shut_down has returned.
ShutDownEnds(m) ==
    /\ managers[m].state = "closing"
    /\ Step(m, [managers[m] EXCEPT !.state = managers[m].outcome,
                                    !.shutDown = "complete"])
    /\ ManagerFrame

\* Every one has returned or raised, and one has raised.
ShutDownFails(m) ==
    /\ "fail" \in Faults
    /\ managers[m].state = "closing"
    /\ Step(m, [managers[m] EXCEPT !.state = "failed", !.shutDown = "complete"])
    /\ ManagerFrame

\* Mutant: run only catches Exception, which a CancelledError is not.
AfterCancelNotCaught(r) == [r EXCEPT !.state = "cancelled", !.cancel = FALSE]

\* A CancelledError shuts a running manager down, and interrupts a set-up or
\* a shut-down that has begun.
AfterCancel(r) ==
    LET s == [r EXCEPT !.cancel = FALSE]
    IN  IF r.state = "running" THEN BeginShutDown(s, "cancelled")
                               ELSE [s EXCEPT !.state = "cancelled"]

ManagerCancelled(m) ==
    /\ managers[m].cancel
    /\ managers' = [managers EXCEPT ![m] = AfterCancel(@)]
    /\ UNCHANGED <<aborting, pending>> /\ ManagerFrame

(***************************************************************************)
(* The body of Runner.run.                                                 *)
(***************************************************************************)
BodyFrame == UNCHANGED <<version, edition, known, getters, exporter>>

\* Mutant: the exporter is awaited, but not told to exit.
ToFinallyWithoutStop ==
    /\ body' = IF MetricsEnabled THEN "exporter" ELSE "join"
    /\ UNCHANGED exporterStop

\* The finally clause: the exporter is told to exit, and awaited.
ToFinally ==
    /\ body' = IF MetricsEnabled THEN "exporter" ELSE "join"
    /\ exporterStop' = MetricsEnabled

\* The while loop's condition, and the task of the next manager.
LoopHead ==
    IF stopEvent'
    THEN ToFinally /\ UNCHANGED managers
    ELSE /\ managers' = Append(managers, NewManager)
         /\ body' = "wait"
         /\ UNCHANGED exporterStop

\* wait_until_started polls the server's flag, which stays set when it ends.
ExporterSeen ==
    /\ body = "starting" /\ Undisturbed("body")
    /\ exporter \in {"running", "done"}
    /\ UNCHANGED stopEvent
    /\ LoopHead
    /\ UNCHANGED <<aborting, pending, done, refresh>> /\ BodyFrame

DoneTasks ==
    {t \in {"stop", "refresh", "getters", "manager", "exporter"} :
        CASE t = "stop" -> stopEvent
          [] t = "refresh" -> refresh \in RefreshEnded
          [] t = "getters" -> getters \in Ended
          [] t = "manager" -> ~ Live(Current)
          [] t = "exporter" -> exporter \in Ended}

\* asyncio.wait returns.  A changed configuration gets a new refresh task,
\* and in any case the manager is told to stop.
WaitReturns ==
    /\ body = "wait" /\ Undisturbed("body")
    /\ DoneTasks # {}
    /\ done' = DoneTasks
    /\ refresh' = IF refresh = "changed" THEN "created" ELSE refresh
    /\ managers' = [managers EXCEPT ![Current].stop = TRUE]
    /\ body' = "stopping"
    /\ UNCHANGED <<stopEvent, aborting, pending, exporterStop>> /\ BodyFrame

\* stop_and_cancel: hard_orchestrator_shutdown_timeout_s has passed.  The
\* shielded task is not cancelled, only awaited again.
HardTimeout ==
    /\ body = "stopping" /\ Undisturbed("body")
    /\ Live(Current)
    /\ body' = "late"
    /\ UNCHANGED <<stopEvent, aborting, pending, done, refresh, exporterStop, managers>>
    /\ BodyFrame

\* Mutant: after the timeout the runner goes on without the task's end.
ManagerAwaitedOnce == body = "late" \/ (body = "stopping" /\ ~ Live(Current))

ManagerAwaited == body \in {"stopping", "late"} /\ ~ Live(Current)

\* The manager has ended.  What was done besides the refresh ends the loop.
ManagerStopped ==
    /\ ManagerAwaited /\ Undisturbed("body")
    /\ stopEvent' = (stopEvent \/ done \cap {"manager", "getters", "exporter"} # {})
    /\ done' = {}
    /\ LoopHead
    /\ UNCHANGED <<aborting, pending, refresh>> /\ BodyFrame

\* The group's CancelledError.  A body that awaits the late manager itself
\* gets it when that task ends; in __aexit__ it is absorbed.
BodyCancelled ==
    /\ body # "ended"
    /\ body = "late" => ~ Live(Current)
    /\ Deliver("body")
    /\ IF body \in {"wait", "stopping", "late"}
       THEN ToFinally
       ELSE body' = "join" /\ UNCHANGED exporterStop
    /\ UNCHANGED <<stopEvent, aborting, done, refresh, managers>> /\ BodyFrame

ExporterAwaited ==
    /\ body = "exporter" /\ Undisturbed("body")
    /\ exporter \in Ended
    /\ body' = "join"
    /\ UNCHANGED <<stopEvent, aborting, pending, done, refresh, exporterStop, managers>>
    /\ BodyFrame

\* __aexit__ has awaited every task, wait_for_stop among them.
GroupEnds ==
    /\ body = "join" /\ Undisturbed("body")
    /\ stopEvent \/ aborting
    /\ refresh \in RefreshEnded /\ getters \in Ended /\ exporter \in Ended \cup {"absent"}
    /\ \A m \in Ids : ~ Live(m)
    /\ body' = "ended"
    /\ UNCHANGED <<stopEvent, aborting, pending, done, refresh, exporterStop, managers>>
    /\ BodyFrame

(***************************************************************************)
(* Specification.                                                          *)
(***************************************************************************)
GettersStep == GettersStop \/ GettersFail \/ GettersCancelled
RefreshStep == \/ RefreshBegins \/ RefreshWakes \/ RefreshStops \/ ReloadKeeps
               \/ ReloadOverwrites \/ ReloadChanges \/ ReloadFails \/ RefreshCancelled
ExporterStep == ExporterStarts \/ ExporterEnds \/ ExporterCancelled
ManagerStep(m) == \/ ManagerCreates(m) \/ ManagerSetupFails(m) \/ ManagerSetUp(m)
                  \/ OrchestratorEnds(m) \/ OrchestratorFails(m)
                  \/ ShutDownEnds(m) \/ ShutDownFails(m) \/ ManagerCancelled(m)
BodyStep == \/ ExporterSeen \/ WaitReturns \/ HardTimeout \/ ManagerStopped
            \/ BodyCancelled \/ ExporterAwaited \/ GroupEnds

Next == \/ StopRunner \/ GettersStep \/ RefreshStep \/ ExporterStep \/ BodyStep
        \/ \E m \in Ids : ManagerStep(m)

Spec == Init /\ [][Next]_vars

\* A manager is only followed by another when the configuration has changed.
MaxManagers == MaxChanges + 1

\* Tasks that can run do run; a set-up, an orchestrator that was stopped, a
\* shut-down and the awaits of a reload come to their end.
TaskFairness ==
    /\ WF_vars(GettersStop \/ GettersCancelled)
    /\ WF_vars(RefreshBegins \/ RefreshStops \/ ReloadKeeps \/ RefreshCancelled)
    /\ WF_vars(ExporterStarts \/ (exporterStop /\ ExporterEnds) \/ ExporterCancelled)
    /\ WF_vars(BodyStep)

Fairness ==
    /\ TaskFairness
    /\ \A m \in 1 .. MaxManagers :
        WF_vars(/\ m \in Ids
                /\ \/ ManagerCreates(m) \/ ManagerSetUp(m)
                   \/ (managers[m].stop /\ OrchestratorEnds(m))
                   \/ ShutDownEnds(m) \/ ManagerCancelled(m))

FairSpec == Spec /\ Fairness

\* An orchestrator that is told to stop may hang, and every other task runs.
HangingFairSpec ==
    /\ Spec
    /\ TaskFairness
    /\ \A m \in 1 .. MaxManagers :
        WF_vars(/\ m \in Ids
                /\ ManagerCreates(m) \/ ManagerSetUp(m) \/ ShutDownEnds(m) \/ ManagerCancelled(m))

(***************************************************************************)
(* Properties.                                                             *)
(***************************************************************************)

\* Two pipeline managers never live at the same time, whatever reload, stop,
\* timeout or failure comes between: their inputs would listen on the same
\* port, and their consumers would share a group (runner.py:101-140).
OneManagerAtATime == Cardinality({m \in Ids : Live(m)}) <= 1

\* When the runner has ended, every manager whose components had been set up
\* has begun to shut them down: on a stop, a reload, a failure of its own
\* and a cancellation because another task failed (manager.py:87-95).
ComponentsReleased ==
    body = "ended" =>
        \A m \in Ids : managers[m].workflow # NotYet => managers[m].shutDown # "no"

\* No version of the configuration is missed, and no manager goes on with an
\* old version, or with components of one and a workflow of another, once
\* the refresh task has ended: unless a change is about to be noticed, the
\* manager the runner waits for is built from the present version, although
\* the object is reloaded in place (config_refresh.py:57, runner.py:123-139).
\* It may be built from an earlier content of that version.
CurrentVersionOrRestart ==
    body = "wait" /\ refresh # "changed" =>
        \A c \in {managers[Current].components, managers[Current].workflow} :
            c.version \in {version, NotYet.version}

\* A stop, or the failure of any task, ends the runner, its manager and all
\* its other tasks, at whatever moment it comes (runner.py:80-160).
RunnerEnds == stopEvent \/ aborting ~> body = "ended"

\* "Time after which the orchestrator is considered stopped. After that the
\* application might exit [...] or a new pipeline might start"
\* (hard_orchestrator_shutdown_timeout_s): after the timeout the runner goes
\* on, even if the orchestrator does not.
HardTimeoutIsFinal == body = "late" ~> body # "late"

\* "the configuration will only be reloaded if the configuration version
\* changes" (config_refresh_interval): what a manager has read of one version
\* has one content.
SameVersionSameContent ==
    \A m \in Ids :
        managers[m].components.version = managers[m].workflow.version =>
            managers[m].components = managers[m].workflow
=============================================================================
