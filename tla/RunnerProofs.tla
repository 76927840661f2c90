---------------------------- MODULE RunnerProofs -----------------------------
(***************************************************************************)
(* Proofs about the runner: one pipeline manager at a time, no new version *)
(* of the configuration missed, the components of every manager released;  *)
(* and about the HTTP input in it: with servers, queues and requests the   *)
(* runner behaves as Runner says, so what is proved of it holds there, and *)
(* the queue keeps its bound and loses no event.                           *)
(***************************************************************************)
EXTENDS HttpInput, TLAPS, SequenceTheorems, FiniteSetTheorems

(***************************************************************************)
(* What the steps do to a manager's record.                                *)
(***************************************************************************)

\* A manager is set up only with its workflow's version, and what was set up
\* runs until its shut-down begins.
WellFormed(r) ==
    /\ r.state \in {"created", "setup"} => r.workflow = NotYet
    /\ r.workflow # NotYet /\ r.shutDown = "no" => r.state = "running"

\* A step may turn r into s: it revives no manager, and reads at most the
\* present configuration.
Develops(r, s) ==
    /\ s \in Manager
    /\ r.state \in Ended => s.state \in Ended
    /\ WellFormed(r) => WellFormed(s)
    /\ s.components \in {r.components, Present}
    /\ s.workflow \in {r.workflow, Present}

\* All managers develop, and none is created.
ManagersDevelop(ms) ==
    /\ ms \in Seq(Manager)
    /\ Len(ms) = Len(managers)
    /\ \A m \in Ids : Develops(managers[m], ms[m])

LEMMA NewManagerType == NewManager \in Manager /\ WellFormed(NewManager)
BY DEF NewManager, Manager, Ended, WellFormed

LEMMA IdsOfManagers ==
    ASSUME RunnerTypeOK
    PROVE  /\ Current \in Nat
           /\ Ids = 1 .. Current
           /\ \A m \in Ids : managers[m] \in Manager
BY LenProperties, ElementOfSeq DEF RunnerTypeOK, Ids, Current

\* A manager that is left alone develops.
LEMMA DevelopsUnchanged ==
    ASSUME NEW r \in Manager
    PROVE  Develops(r, r)
BY DEF Develops

\* One manager's record is replaced by one it develops into.
LEMMA OneDevelops ==
    ASSUME RunnerTypeOK, NEW m \in Ids, NEW r, Develops(managers[m], r)
    PROVE  ManagersDevelop([managers EXCEPT ![m] = r])
<1> DEFINE ms == [managers EXCEPT ![m] = r]
<1>1. r \in Manager
    BY DEF Develops
<1>2. ms \in Seq(Manager) /\ Len(ms) = Len(managers)
    BY <1>1, IdsOfManagers, ExceptSeq DEF RunnerTypeOK, Current
<1>3. ASSUME NEW k \in Ids
      PROVE  Develops(managers[k], ms[k])
    <2>1. CASE k = m
        BY <2>1, IdsOfManagers DEF Ids
    <2>2. CASE k # m
        BY <2>2, IdsOfManagers, DevelopsUnchanged DEF Ids
    <2> QED
        BY <2>1, <2>2
<1> QED
    BY <1>2, <1>3 DEF ManagersDevelop

\* An abort of the task group only sets flags.
LEMMA AbortDevelops ==
    ASSUME RunnerTypeOK, NEW ms, ManagersDevelop(ms), AbortAnd(ms)
    PROVE  ManagersDevelop(managers')
<1> DEFINE flagged == [m \in DOMAIN ms |-> [ms[m] EXCEPT !.cancel = ms[m].state \notin Ended]]
<1>1. CASE aborting
    BY <1>1 DEF AbortAnd
<1>2. CASE ~ aborting
    <2>1. managers' = flagged
        BY <1>2 DEF AbortAnd
    <2>2. /\ DOMAIN ms = 1 .. Len(ms) /\ Len(ms) = Current /\ Current \in Nat
          /\ Ids = 1 .. Current
        BY IdsOfManagers, LenProperties DEF ManagersDevelop, Current
    <2>3. ASSUME NEW m \in Ids
          PROVE  flagged[m] \in Manager /\ Develops(managers[m], flagged[m])
        <3>1. Develops(managers[m], ms[m]) /\ flagged[m] = [ms[m] EXCEPT !.cancel = ms[m].state \notin Ended]
            BY <2>2 DEF ManagersDevelop
        <3> HIDE DEF flagged
        <3>2. ms[m] \in Manager
            BY <3>1 DEF Develops
        <3>3. (ms[m].state \notin Ended) \in BOOLEAN
            OBVIOUS
        <3> QED
            BY <3>1, <3>2, <3>3 DEF Develops, Manager, WellFormed
    <2>4. flagged = [m \in 1 .. Current |-> flagged[m]] /\ \A m \in 1 .. Current : flagged[m] \in Manager
        BY <2>2, <2>3
    <2> HIDE DEF flagged
    <2>5. flagged \in Seq(Manager) /\ Len(flagged) = Current
        BY <2>2, <2>4, IsASeq, LenProperties
    <2> QED
        BY <2>1, <2>3, <2>5 DEF ManagersDevelop, Current
<1> QED
    BY <1>1, <1>2

\* A step of manager m to a record it may develop into.
LEMMA StepDevelops ==
    ASSUME RunnerTypeOK, NEW m \in Ids, NEW r, Develops(managers[m], r), Step(m, r)
    PROVE  ManagersDevelop(managers')
<1>1. ManagersDevelop([managers EXCEPT ![m] = r])
    BY OneDevelops
<1> QED
    BY <1>1, AbortDevelops DEF Step

\* What each of a manager's steps makes of its record.
LEMMA RecordsDevelop ==
    ASSUME RunnerTypeOK, NEW m \in Ids
    PROVE  LET r == managers[m]
           IN  /\ r.state = "created" =>
                    Develops(r, [r EXCEPT !.state = "setup", !.components = Present])
               /\ r.state \in {"created", "setup"} => Develops(r, [r EXCEPT !.state = "failed"])
               /\ r.state = "setup" =>
                    Develops(r, [r EXCEPT !.state = "running", !.workflow = Present])
               /\ r.state = "running" => \A outcome \in Ended :
                    Develops(r, BeginShutDown(r, outcome))
               /\ r.state = "closing" => \A end \in Ended :
                    Develops(r, [r EXCEPT !.state = end, !.shutDown = "complete"])
               /\ r.outcome \in Ended
               /\ Develops(r, AfterCancel(r))
<1> DEFINE r == managers[m]
<1>1. r \in Manager
    BY IdsOfManagers
<1>2. Present \in Configs
    BY DEF RunnerTypeOK, Present, Configs
<1> USE <1>1, <1>2 DEF Develops, Manager, WellFormed, Ended
<1>3. r.state = "created" => Develops(r, [r EXCEPT !.state = "setup", !.components = Present])
    OBVIOUS
<1>4. r.state \in {"created", "setup"} => Develops(r, [r EXCEPT !.state = "failed"])
    OBVIOUS
<1>5. r.state = "setup" => Develops(r, [r EXCEPT !.state = "running", !.workflow = Present])
    OBVIOUS
<1>6. r.state = "running" => \A outcome \in Ended : Develops(r, BeginShutDown(r, outcome))
    BY DEF BeginShutDown
<1>7. r.state = "closing" => \A end \in Ended :
        Develops(r, [r EXCEPT !.state = end, !.shutDown = "complete"])
    OBVIOUS
<1>8. r.outcome \in Ended
    OBVIOUS
<1>9. Develops(r, AfterCancel(r))
    BY DEF BeginShutDown, AfterCancel
<1> QED
    BY <1>3, <1>4, <1>5, <1>6, <1>7, <1>8, <1>9

LEMMA ManagerStepDevelops ==
    ASSUME RunnerTypeOK, NEW m \in Ids, ManagerStep(m)
    PROVE  ManagersDevelop(managers') /\ ManagerFrame
<1> DEFINE r == managers[m]
<1>1. CASE ManagerCreates(m)
    BY <1>1, RecordsDevelop, StepDevelops DEF ManagerCreates
<1>2. CASE ManagerSetupFails(m)
    BY <1>2, RecordsDevelop, StepDevelops DEF ManagerSetupFails
<1>3. CASE ManagerSetUp(m)
    BY <1>3, RecordsDevelop, StepDevelops DEF ManagerSetUp
<1>4. CASE OrchestratorEnds(m)
    BY <1>4, RecordsDevelop, StepDevelops DEF OrchestratorEnds, Ended
<1>5. CASE OrchestratorFails(m)
    BY <1>5, RecordsDevelop, StepDevelops DEF OrchestratorFails, Ended
<1>6. CASE ShutDownEnds(m)
    BY <1>6, RecordsDevelop, StepDevelops DEF ShutDownEnds
<1>7. CASE ShutDownFails(m)
    BY <1>7, RecordsDevelop, StepDevelops DEF ShutDownFails, Ended
<1>8. CASE ManagerCancelled(m)
    <2>1. managers' = [managers EXCEPT ![m] = AfterCancel(managers[m])]
        BY <1>8 DEF ManagerCancelled
    <2>2. ManagersDevelop([managers EXCEPT ![m] = AfterCancel(managers[m])])
        BY RecordsDevelop, OneDevelops
    <2> QED
        BY <1>8, <2>1, <2>2 DEF ManagerCancelled
<1> QED
    BY <1>1, <1>2, <1>3, <1>4, <1>5, <1>6, <1>7, <1>8 DEF ManagerStep

(***************************************************************************)
(* The inductive invariant.                                                *)
(***************************************************************************)

\* Every manager but the last has ended.
OnlyCurrentLives == \A m \in Ids : Live(m) => m = Current

\* Where the body awaits tells whether there are managers, and live ones.
BodyKnowsManagers ==
    /\ body = "starting" => managers = <<>>
    /\ body \in {"wait", "stopping", "late"} => managers # <<>>
    /\ body = "ended" => \A m \in Ids : ~ Live(m)

RunnerInv ==
    /\ RunnerTypeOK
    /\ known <= version
    /\ OnlyCurrentLives
    /\ BodyKnowsManagers
    /\ CurrentVersionOrRestart
    /\ \A m \in Ids : WellFormed(managers[m])

LEMMA InitInv == Init => RunnerInv
<1> SUFFICES ASSUME Init PROVE RunnerInv
    OBVIOUS
<1>1. 0 \in Versions /\ 0 \in Editions
    BY RunnerAssumption DEF Versions, Editions
<1>2. CASE MetricsEnabled
    <2>1. managers = <<>> /\ body = "starting"
        BY <1>2 DEF Init
    <2>2. Len(managers) = 0 /\ Ids = {} /\ managers \in Seq(Manager)
        BY <2>1, EmptySeq, LenProperties DEF Ids
    <2>3. RunnerTypeOK
        BY <1>1, <1>2, <2>1, <2>2 DEF Init, RunnerTypeOK
    <2> QED
        BY <2>1, <2>2, <2>3 DEF Init, RunnerInv, OnlyCurrentLives, BodyKnowsManagers,
            CurrentVersionOrRestart
<1>3. CASE ~ MetricsEnabled
    <2>1. managers = <<NewManager>> /\ body = "wait"
        BY <1>3 DEF Init
    <2>2. /\ managers \in Seq(Manager) /\ Current = 1 /\ Ids = {1}
          /\ managers # <<>> /\ managers[1] = NewManager
        BY <2>1, NewManagerType DEF Ids, Current
    <2>3. RunnerTypeOK
        BY <1>1, <1>3, <2>1, <2>2 DEF Init, RunnerTypeOK
    <2>4. CurrentVersionOrRestart
        BY <2>2 DEF CurrentVersionOrRestart, NewManager
    <2> QED
        BY <2>1, <2>2, <2>3, <2>4, NewManagerType DEF Init, RunnerInv, OnlyCurrentLives,
            BodyKnowsManagers
<1> QED
    BY <1>2, <1>3

\* An abort keeps the types of the group's variables.
LEMMA AbortTypes ==
    ASSUME RunnerTypeOK, NEW ms, AbortAnd(ms)
    PROVE  aborting' \in BOOLEAN /\ pending' \subseteq Tasks
BY DEF RunnerTypeOK, AbortAnd

\* Steps that create no manager and change no version.
LEMMA DevelopmentKeepsInv ==
    ASSUME RunnerInv, RunnerTypeOK', ManagersDevelop(managers'),
           version' = version, known' <= version',
           refresh' # "changed" => refresh # "changed" \/ body' # "wait",
           \/ body' = body
           \/ body \in {"wait", "stopping"} /\ body' \in {"stopping", "late"}
           \/ body' \in {"exporter", "join"}
           \/ body' = "ended" /\ \A m \in Ids : ~ Live(m)
    PROVE  RunnerInv'
<1>1. /\ Current' = Current /\ Current \in Nat
      /\ Ids = 1 .. Current /\ Ids' = 1 .. Current
    BY IdsOfManagers, LenProperties DEF RunnerInv, ManagersDevelop, Current, Ids, RunnerTypeOK
<1>2. \A m \in Ids : Develops(managers[m], managers'[m])
    BY DEF ManagersDevelop
<1>3. \A m \in Ids : Live(m)' => Live(m)
    BY <1>2 DEF Live, Develops
<1>4. OnlyCurrentLives'
    BY <1>1, <1>3 DEF RunnerInv, OnlyCurrentLives
<1>5. managers = <<>> <=> managers' = <<>>
    BY <1>1, EmptySeq DEF RunnerInv, RunnerTypeOK, Current
<1>6. BodyKnowsManagers'
    BY <1>1, <1>3, <1>5 DEF RunnerInv, BodyKnowsManagers
<1>7. CurrentVersionOrRestart'
    <2> SUFFICES ASSUME body' = "wait", refresh' # "changed"
                 PROVE  /\ managers'[Current'].components.version \in {version', NotYet.version}
                        /\ managers'[Current'].workflow.version \in {version', NotYet.version}
        BY DEF CurrentVersionOrRestart, NotYet
    <2>1. body = "wait" /\ refresh # "changed"
        OBVIOUS
    <2>2. Current \in Ids
        BY <1>1, <2>1, EmptySeq DEF RunnerInv, BodyKnowsManagers, RunnerTypeOK, Current
    <2>3. /\ managers[Current].components.version \in {version, NotYet.version}
          /\ managers[Current].workflow.version \in {version, NotYet.version}
        BY <2>1 DEF RunnerInv, CurrentVersionOrRestart
    <2>4. Present.version = version
        BY DEF Present
    <2> QED
        BY <1>1, <1>2, <2>2, <2>3, <2>4 DEF Develops
<1>8. \A m \in Ids' : WellFormed(managers'[m])
    BY <1>1, <1>2 DEF RunnerInv, Develops
<1> QED
    BY <1>4, <1>6, <1>7, <1>8 DEF RunnerInv

\* Nothing happens to the managers.
LEMMA UnchangedDevelops ==
    ASSUME RunnerTypeOK, managers' = managers
    PROVE  ManagersDevelop(managers')
BY IdsOfManagers, DevelopsUnchanged DEF RunnerTypeOK, ManagersDevelop

\* The next manager follows when none is live.
LEMMA LoopHeadKeepsInv ==
    ASSUME RunnerInv, LoopHead, \A m \in Ids : ~ Live(m),
           version' = version, edition' = edition, known' = known, refresh' = refresh,
           getters' = getters, exporter' = exporter, aborting' = aborting,
           pending' = pending, stopEvent' \in BOOLEAN,
           done' \subseteq {"stop", "refresh", "getters", "manager", "exporter"}
    PROVE  RunnerInv'
<1>1. CASE stopEvent'
    <2>1. managers' = managers /\ body' \in {"exporter", "join"} /\ exporterStop' \in BOOLEAN
        BY <1>1, RunnerAssumption DEF LoopHead, ToFinally
    <2>2. RunnerTypeOK'
        BY <2>1 DEF RunnerInv, RunnerTypeOK, Versions
    <2> QED
        BY <2>1, <2>2, UnchangedDevelops, DevelopmentKeepsInv DEF RunnerInv
<1>2. CASE ~ stopEvent'
    <2>1. managers' = Append(managers, NewManager) /\ body' = "wait" /\ exporterStop' = exporterStop
        BY <1>2 DEF LoopHead
    <2>2. /\ managers' \in Seq(Manager)
          /\ Current' = Current + 1
          /\ \A m \in Ids : managers'[m] = managers[m]
          /\ managers'[Current'] = NewManager
        BY <2>1, NewManagerType, AppendProperties, IdsOfManagers
            DEF RunnerInv, RunnerTypeOK, Current
    <2>3. /\ Ids = 1 .. Current /\ Current \in Nat /\ Ids' = 1 .. Current + 1
        BY <2>2, IdsOfManagers, LenProperties DEF RunnerInv, Current, Ids
    <2>4. RunnerTypeOK'
        BY <2>1, <2>2 DEF RunnerInv, RunnerTypeOK, Versions
    <2>5. OnlyCurrentLives'
        BY <2>2, <2>3 DEF OnlyCurrentLives, Live
    <2>6. BodyKnowsManagers'
        <3>1. managers' # <<>>
            BY <2>2, <2>3, EmptySeq DEF Current
        <3> QED
            BY <2>1, <3>1 DEF BodyKnowsManagers
    <2>7. CurrentVersionOrRestart'
        BY <2>2 DEF CurrentVersionOrRestart, NewManager, NotYet
    <2>8. \A m \in Ids' : WellFormed(managers'[m])
        BY <2>2, <2>3, NewManagerType DEF RunnerInv
    <2> QED
        BY <2>4, <2>5, <2>6, <2>7, <2>8 DEF RunnerInv
<1> QED
    BY <1>1, <1>2

(***************************************************************************)
(* Every step keeps it.                                                    *)
(***************************************************************************)

LEMMA StopKeepsInv ==
    ASSUME RunnerInv, StopRunner
    PROVE  RunnerInv'
<1>1. RunnerTypeOK'
    BY DEF RunnerInv, RunnerTypeOK, StopRunner, configVars, exporterVars, Versions
<1> QED
    BY <1>1, UnchangedDevelops, DevelopmentKeepsInv
        DEF RunnerInv, StopRunner, configVars, exporterVars

LEMMA GettersKeepInv ==
    ASSUME RunnerInv, GettersStep
    PROVE  RunnerInv'
<1>1. ManagersDevelop(managers') /\ aborting' \in BOOLEAN /\ pending' \subseteq Tasks
    <2>1. CASE GettersStop \/ GettersCancelled
        BY <2>1, UnchangedDevelops
            DEF RunnerInv, RunnerTypeOK, GettersStop, GettersCancelled, Deliver
    <2>2. CASE GettersFail
        BY <2>2, UnchangedDevelops, AbortDevelops, AbortTypes, IdsOfManagers, DevelopsUnchanged
            DEF RunnerInv, RunnerTypeOK, GettersFail, ManagersDevelop
    <2> QED
        BY <2>1, <2>2 DEF GettersStep
<1>2. /\ getters' \in Ended
      /\ UNCHANGED <<stopEvent, body, done, configVars, exporterVars>>
    BY DEF GettersStep, GettersStop, GettersFail, GettersCancelled, Ended
<1>3. RunnerTypeOK'
    BY <1>1, <1>2 DEF RunnerInv, RunnerTypeOK, ManagersDevelop, configVars, exporterVars, Versions
<1> QED
    BY <1>1, <1>2, <1>3, DevelopmentKeepsInv DEF RunnerInv, configVars

\* A changed version is noticed in the same step.
LEMMA ReloadKeepsInv ==
    ASSUME RunnerInv, ReloadChanges
    PROVE  RunnerInv'
<1>1. /\ version' = version + 1 /\ version + edition < MaxChanges /\ known <= version
      /\ version \in Nat /\ edition \in Nat /\ known \in Nat /\ MaxChanges \in Nat
    BY RunnerAssumption DEF RunnerInv, RunnerTypeOK, ReloadChanges, Versions, Editions
<1>2. /\ refresh' = "changed" /\ known' = known /\ edition' = edition
      /\ version' \in Versions /\ known' <= version'
    BY <1>1 DEF ReloadChanges, Versions
<1>3. UNCHANGED <<aborting, pending, managers, stopEvent, body, done, getters, exporterVars>>
    BY DEF ReloadChanges, RefreshFrame
<1>4. RunnerTypeOK'
    BY <1>2, <1>3 DEF RunnerInv, RunnerTypeOK, exporterVars, RefreshEnded, Versions
<1> QED
    BY <1>2, <1>3, <1>4 DEF RunnerInv, OnlyCurrentLives, BodyKnowsManagers,
        CurrentVersionOrRestart, Live, Ids, Current, WellFormed, NotYet

LEMMA RefreshKeepsInv ==
    ASSUME RunnerInv, RefreshStep
    PROVE  RunnerInv'
<1>1. CASE ReloadChanges
    BY <1>1, ReloadKeepsInv
<1>2. CASE ~ ReloadChanges
    <2>0. edition' \in Editions
        <3>1. CASE ReloadOverwrites
            <4>1. /\ edition' = edition + 1 /\ version + edition < MaxChanges
                  /\ version \in Nat /\ edition \in Nat /\ MaxChanges \in Nat
                BY <3>1, RunnerAssumption
                    DEF RunnerInv, RunnerTypeOK, ReloadOverwrites, Versions, Editions
            <4> QED
                BY <4>1 DEF Editions
        <3>2. CASE ~ ReloadOverwrites
            BY <1>2, <3>2 DEF RefreshStep, RefreshBegins, RefreshWakes, RefreshStops,
                ReloadKeeps, ReloadFails, RefreshCancelled, RunnerInv, RunnerTypeOK
        <3> QED
            BY <3>1, <3>2
    <2>1. /\ version' = version /\ known' \in {known, version}
          /\ refresh' \in {"waiting", "loading", "off", "none", "failed", "cancelled"}
          /\ refresh # "changed"
        BY <1>2 DEF RefreshStep, RefreshBegins, RefreshWakes, RefreshStops, ReloadKeeps,
            ReloadOverwrites, ReloadFails, RefreshCancelled, RefreshEnded
    <2>2. RefreshFrame
        BY <1>2 DEF RefreshStep, RefreshBegins, RefreshWakes, RefreshStops, ReloadKeeps,
            ReloadOverwrites, ReloadFails, RefreshCancelled
    <2>3. ManagersDevelop(managers') /\ aborting' \in BOOLEAN /\ pending' \subseteq Tasks
        <3>1. CASE ReloadFails
            BY <3>1, AbortDevelops, AbortTypes, IdsOfManagers, DevelopsUnchanged
                DEF RunnerInv, RunnerTypeOK, ReloadFails, ManagersDevelop
        <3>2. CASE ~ ReloadFails
            <4>1. managers' = managers /\ aborting' = aborting /\ pending' \subseteq pending
                BY <1>2, <3>2 DEF RefreshStep, RefreshBegins, RefreshWakes, RefreshStops,
                    ReloadKeeps, ReloadOverwrites, RefreshCancelled, Deliver
            <4> QED
                BY <4>1, UnchangedDevelops DEF RunnerInv, RunnerTypeOK
        <3> QED
            BY <3>1, <3>2
    <2>4. RunnerTypeOK'
        BY <2>0, <2>1, <2>2, <2>3 DEF RunnerInv, RunnerTypeOK, ManagersDevelop, RefreshFrame,
            RefreshEnded, exporterVars, Versions
    <2>5. known' <= version'
        BY <2>1 DEF RunnerInv, RunnerTypeOK, Versions
    <2> QED
        BY <2>1, <2>2, <2>3, <2>4, <2>5, DevelopmentKeepsInv DEF RefreshFrame
<1> QED
    BY <1>1, <1>2

LEMMA ExporterKeepsInv ==
    ASSUME RunnerInv, ExporterStep
    PROVE  RunnerInv'
<1>1. /\ exporter' \in {"running"} \cup Ended
      /\ exporterStop' = exporterStop /\ pending' \subseteq pending
      /\ ExporterFrame
    BY DEF ExporterStep, ExporterStarts, ExporterEnds, ExporterCancelled, Deliver, Ended
<1>2. RunnerTypeOK'
    BY <1>1 DEF RunnerInv, RunnerTypeOK, ExporterFrame, configVars, Versions
<1> QED
    BY <1>1, <1>2, UnchangedDevelops, DevelopmentKeepsInv
        DEF RunnerInv, ExporterFrame, configVars

LEMMA ManagerKeepsInv ==
    ASSUME RunnerInv, NEW m \in Ids, ManagerStep(m)
    PROVE  RunnerInv'
<1>1. ManagersDevelop(managers') /\ ManagerFrame
    BY ManagerStepDevelops DEF RunnerInv
<1>2. aborting' \in BOOLEAN /\ pending' \subseteq Tasks
    BY AbortTypes DEF RunnerInv, RunnerTypeOK, ManagerStep, ManagerCreates, ManagerSetupFails,
        ManagerSetUp, OrchestratorEnds, OrchestratorFails, ShutDownEnds, ShutDownFails,
        ManagerCancelled, Step, AbortAnd
<1>3. RunnerTypeOK'
    BY <1>1, <1>2 DEF RunnerInv, RunnerTypeOK, ManagersDevelop, ManagerFrame, configVars,
        exporterVars, Versions
<1> QED
    BY <1>1, <1>3, DevelopmentKeepsInv DEF RunnerInv, ManagerFrame, configVars

LEMMA BodyKeepsInv ==
    ASSUME RunnerInv, BodyStep
    PROVE  RunnerInv'
<1>1. CASE ExporterSeen
    <2>1. /\ LoopHead /\ body = "starting"
          /\ UNCHANGED <<stopEvent, aborting, pending, done, refresh>> /\ BodyFrame
        BY <1>1 DEF ExporterSeen
    <2>2. Ids = {}
        BY <2>1, IdsOfManagers, EmptySeq DEF RunnerInv, BodyKnowsManagers, Current
    <2> QED
        BY <2>1, <2>2, LoopHeadKeepsInv DEF RunnerInv, RunnerTypeOK, BodyFrame
<1>2. CASE WaitReturns
    <2>1. /\ Current \in Ids
          /\ managers' = [managers EXCEPT ![Current].stop = TRUE]
        BY <1>2, IdsOfManagers, EmptySeq
            DEF WaitReturns, RunnerInv, RunnerTypeOK, BodyKnowsManagers, Current
    <2>2. managers[Current] \in Manager
        BY <2>1, IdsOfManagers DEF RunnerInv
    <2>3. Develops(managers[Current], [managers[Current] EXCEPT !.stop = TRUE])
        BY <2>2 DEF Develops, Manager, WellFormed
    <2>4. ManagersDevelop(managers')
        <3>1. managers' = [managers EXCEPT ![Current] = [managers[Current] EXCEPT !.stop = TRUE]]
            BY <2>1
        <3> QED
            BY <2>1, <2>3, <3>1, OneDevelops DEF RunnerInv
    <2>5. RunnerTypeOK'
        BY <1>2, <2>4 DEF WaitReturns, RunnerInv, RunnerTypeOK, ManagersDevelop, BodyFrame,
            DoneTasks, Versions
    <2> QED
        BY <1>2, <2>4, <2>5, DevelopmentKeepsInv DEF WaitReturns, RunnerInv, BodyFrame
<1>3. CASE HardTimeout
    <2>1. RunnerTypeOK'
        BY <1>3 DEF HardTimeout, RunnerInv, RunnerTypeOK, BodyFrame, Versions
    <2> QED
        BY <1>3, <2>1, UnchangedDevelops, DevelopmentKeepsInv DEF HardTimeout, RunnerInv, BodyFrame
<1>4. CASE ManagerStopped
    <2>1. /\ LoopHead /\ body \in {"stopping", "late"} /\ ~ Live(Current)
          /\ done' = {} /\ stopEvent' \in BOOLEAN
          /\ UNCHANGED <<aborting, pending, refresh>> /\ BodyFrame
        BY <1>4 DEF ManagerStopped, ManagerAwaited
    <2>2. \A m \in Ids : ~ Live(m)
        BY <2>1 DEF RunnerInv, OnlyCurrentLives
    <2> QED
        BY <2>1, <2>2, LoopHeadKeepsInv DEF BodyFrame
<1>5. CASE BodyCancelled
    <2>1. /\ body' \in {"exporter", "join"} /\ exporterStop' \in BOOLEAN
          /\ pending' \subseteq pending
          /\ UNCHANGED <<stopEvent, aborting, done, refresh, managers>> /\ BodyFrame
        BY <1>5, RunnerAssumption DEF BodyCancelled, ToFinally, Deliver, RunnerInv, RunnerTypeOK
    <2>2. RunnerTypeOK'
        BY <2>1 DEF RunnerInv, RunnerTypeOK, BodyFrame, Versions
    <2> QED
        BY <2>1, <2>2, UnchangedDevelops, DevelopmentKeepsInv DEF RunnerInv, BodyFrame
<1>6. CASE ExporterAwaited
    <2>1. RunnerTypeOK'
        BY <1>6 DEF ExporterAwaited, RunnerInv, RunnerTypeOK, BodyFrame, Versions
    <2> QED
        BY <1>6, <2>1, UnchangedDevelops, DevelopmentKeepsInv
            DEF ExporterAwaited, RunnerInv, BodyFrame
<1>7. CASE GroupEnds
    <2>1. RunnerTypeOK'
        BY <1>7 DEF GroupEnds, RunnerInv, RunnerTypeOK, BodyFrame, Versions
    <2> QED
        BY <1>7, <2>1, UnchangedDevelops, DevelopmentKeepsInv DEF GroupEnds, RunnerInv, BodyFrame
<1> QED
    BY <1>1, <1>2, <1>3, <1>4, <1>5, <1>6, <1>7 DEF BodyStep

LEMMA NextKeepsInv == RunnerInv /\ [Next]_vars => RunnerInv'
<1> SUFFICES ASSUME RunnerInv, [Next]_vars PROVE RunnerInv'
    OBVIOUS
<1>1. CASE Next
    BY <1>1, StopKeepsInv, GettersKeepInv, RefreshKeepsInv, ExporterKeepsInv, BodyKeepsInv,
        ManagerKeepsInv DEF Next
<1>2. CASE UNCHANGED vars
    <2>1. RunnerTypeOK'
        BY <1>2 DEF vars, configVars, exporterVars, RunnerInv, RunnerTypeOK, Versions
    <2> QED
        BY <1>2, <2>1, UnchangedDevelops, DevelopmentKeepsInv
            DEF vars, configVars, exporterVars, RunnerInv
<1> QED
    BY <1>1, <1>2

LEMMA RunnerInvariant == Spec => []RunnerInv
BY InitInv, NextKeepsInv, PTL DEF Spec

(***************************************************************************)
(* The theorems.                                                           *)
(***************************************************************************)

\* Every variable of the runner, and every manager's record, has its type.
THEOREM RunnerTypeCorrect == Spec => []RunnerTypeOK
<1>1. RunnerInv => RunnerTypeOK
    BY DEF RunnerInv
<1> QED
    BY <1>1, RunnerInvariant, PTL

\* Two pipeline managers are never alive at the same time, for any number of
\* reloads: Runner.run creates the next one only after stop_and_cancel has
\* seen the task of the last one end.
THEOREM SingleManager == Spec => []OneManagerAtATime
<1>1. RunnerInv => OneManagerAtATime
    <2> SUFFICES ASSUME RunnerInv PROVE OneManagerAtATime
        OBVIOUS
    <2> DEFINE alive == {m \in Ids : Live(m)}
    <2>1. alive \subseteq {Current}
        BY DEF RunnerInv, OnlyCurrentLives
    <2>2. IsFiniteSet({Current}) /\ Cardinality({Current}) = 1
        BY FS_Singleton
    <2>3. Cardinality(alive) <= 1
        BY <2>1, <2>2, FS_Subset
    <2> QED
        BY <2>3 DEF OneManagerAtATime
<1> QED
    BY <1>1, RunnerInvariant, PTL

\* No change of the configuration's version is missed, however often its
\* content is overwritten under an unchanged one: the refresh task compares
\* versions in the step that changes them, and the object only gets newer.
THEOREM NoNewVersionMissed == Spec => []CurrentVersionOrRestart
<1>1. RunnerInv => CurrentVersionOrRestart
    BY DEF RunnerInv
<1> QED
    BY <1>1, RunnerInvariant, PTL

\* When the runner has ended, all managers whose set-up had ended have begun
\* to shut their components down, however they were ended.
THEOREM EveryComponentReleased == Spec => []ComponentsReleased
<1>1. RunnerInv => ComponentsReleased
    BY DEF RunnerInv, BodyKnowsManagers, ComponentsReleased, WellFormed, Live, Ended
<1> QED
    BY <1>1, RunnerInvariant, PTL

(***************************************************************************)
(* The HTTP input: every step of it is a step of the runner, or leaves the *)
(* runner's variables alone.                                               *)
(***************************************************************************)
LEMMA HttpStepIsRunnerStep == [HttpNext]_allVars => [Next]_vars
<1> SUFFICES ASSUME [HttpNext]_allVars PROVE [Next]_vars
    OBVIOUS
<1>1. CASE StopRunner \/ GettersStep \/ RefreshStep \/ ExporterStep \/ BodyStep
    BY <1>1 DEF Next
<1>2. ASSUME NEW m \in Ids, ManagerWithServer(m)
      PROVE  ManagerStep(m)
    BY <1>2 DEF ManagerWithServer, SetUpWithServer, CloseServer, ShutDownWithServer,
        CancelWithoutClose, ManagerStep
<1>3. ASSUME NEW m \in Servers, ServerStarts(m) \/ ServerSignalled(m) \/ Read(m) \/ ServerCloses(m)
      PROVE  UNCHANGED vars
    BY <1>3 DEF ServerStarts, ServerSignalled, Read, ServerCloses
<1>4. ASSUME NEW r \in Requests, Put(r) \/ \E m \in Servers : RequestArrives(r, m)
      PROVE  UNCHANGED vars
    BY <1>4 DEF Put, EventPut, RequestArrives
<1>5. CASE UNCHANGED allVars
    BY <1>5 DEF allVars
<1> QED
    BY <1>1, <1>2, <1>3, <1>4, <1>5 DEF HttpNext, Next

\* The runner with the HTTP input implements the runner: the server's steps
\* are stutters, and what awaits the server only comes later.
THEOREM HttpImplementsRunner == HttpSpec => Spec
<1>1. HttpInit => Init
    BY DEF HttpInit
<1> QED
    BY <1>1, HttpStepIsRunnerStep, PTL DEF HttpSpec, Spec

\* So no two managers listen on the same port at a time.
THEOREM SingleManagerWithServer == HttpSpec => []OneManagerAtATime
BY HttpImplementsRunner, SingleManager, PTL

(***************************************************************************)
(* The types, and the queue.                                               *)
(***************************************************************************)

\* A handler that is still at work has events left.
HttpTypes ==
    /\ server \in [Servers -> {"off", "listening", "closing", "closed"}]
    /\ messages \in [Servers -> Seq(HttpEvents)]
    /\ read \in [Servers -> Seq(HttpEvents)]
    /\ request \in [Requests -> [to : Servers, sent : Nat, state : RequestStates]]
    /\ \A m \in Servers : Len(messages[m]) <= BacklogSize
    /\ \A r \in Requests :
        /\ request[r].sent <= EventsIn[r]
        /\ request[r].state \in {"new", "handling"} => request[r].sent < EventsIn[r]

LEMMA HttpInitTypes == HttpInit => HttpTypes
<1> SUFFICES ASSUME HttpInit PROVE HttpTypes
    OBVIOUS
<1>1. 1 \in Servers
    BY RunnerAssumption DEF Servers, MaxManagers
<1>2. /\ \A r \in Requests : EventsIn[r] \in Nat \ {0}
      /\ BacklogSize \in Nat \ {0}
    BY HttpAssumption
<1>3. <<>> \in Seq(HttpEvents) /\ Len(<<>>) = 0
    BY EmptySeq
<1>4. /\ server = [m \in Servers |-> "off"]
      /\ messages = [m \in Servers |-> <<>>] /\ read = [m \in Servers |-> <<>>]
      /\ request = [r \in Requests |-> [to |-> 1, sent |-> 0, state |-> "new"]]
    BY DEF HttpInit
<1>5. request \in [Requests -> [to : Servers, sent : Nat, state : RequestStates]]
    BY <1>1, <1>4 DEF RequestStates
<1>6. \A m \in Servers : Len(messages[m]) <= BacklogSize
    BY <1>2, <1>3, <1>4
<1>7. \A r \in Requests : 0 < EventsIn[r] /\ 0 <= EventsIn[r]
    BY <1>2
<1> QED
    BY <1>3, <1>4, <1>5, <1>6, <1>7 DEF HttpTypes

\* A handler's put.
LEMMA PutKeepsTypes ==
    ASSUME HttpTypes, NEW r \in Requests, Put(r)
    PROVE  HttpTypes'
<1> DEFINE m == request[r].to
           e == <<r, request[r].sent + 1>>
<1>1. /\ m \in Servers /\ request[r].sent \in Nat /\ EventsIn[r] \in Nat
      /\ request[r].state = "handling" /\ request[r].sent < EventsIn[r]
      /\ messages[m] \in Seq(HttpEvents) /\ Len(messages[m]) < BacklogSize
    BY HttpAssumption DEF HttpTypes, Put, EventPut, HasRoom
<1>2. e \in HttpEvents
    BY <1>1 DEF HttpEvents
<1>3. messages' = [messages EXCEPT ![m] = Append(messages[m], e)]
    BY DEF Put, EventPut, Appended
<1> HIDE DEF e
<1>4. /\ Append(messages[m], e) \in Seq(HttpEvents)
      /\ Len(Append(messages[m], e)) = Len(messages[m]) + 1
      /\ Len(messages[m]) \in Nat
    BY <1>1, <1>2, AppendProperties, LenProperties
<1>5. /\ messages' \in [Servers -> Seq(HttpEvents)]
      /\ \A k \in Servers : Len(messages'[k]) <= BacklogSize
    BY <1>1, <1>3, <1>4, HttpAssumption DEF HttpTypes
<1> DEFINE sent == request[r].sent + 1
           state == IF sent = EventsIn[r] THEN "answered" ELSE "handling"
           next == [request[r] EXCEPT !.sent = sent, !.state = state]
<1>6. request' = [request EXCEPT ![r] = next] /\ server' = server /\ read' = read
    BY DEF Put, EventPut
<1>7. /\ sent \in Nat /\ sent <= EventsIn[r] /\ state \in RequestStates
      /\ state \in {"new", "handling"} => sent < EventsIn[r]
    BY <1>1 DEF RequestStates
<1> HIDE DEF sent, state
<1>8. /\ next \in [to : Servers, sent : Nat, state : RequestStates]
      /\ next.sent = sent /\ next.state = state
    <2>1. request[r] \in [to : Servers, sent : Nat, state : RequestStates]
        BY DEF HttpTypes
    <2> QED
        BY <1>7, <2>1
<1> HIDE DEF next
<1> QED
    BY <1>5, <1>6, <1>7, <1>8 DEF HttpTypes

LEMMA HttpNextTypes == HttpTypes /\ [HttpNext]_allVars => HttpTypes'
<1> SUFFICES ASSUME HttpTypes, [HttpNext]_allVars PROVE HttpTypes'
    OBVIOUS
<1>1. CASE UNCHANGED httpVars
    BY <1>1 DEF httpVars, HttpTypes
<1>2. ASSUME NEW m \in Ids, CloseServer(m)
      PROVE  HttpTypes'
    BY <1>2 DEF CloseServer, HttpTypes
<1>3. ASSUME NEW m \in Servers, ServerStarts(m) \/ ServerSignalled(m)
      PROVE  HttpTypes'
    BY <1>3 DEF ServerStarts, ServerSignalled, HttpTypes
<1>4. ASSUME NEW m \in Servers, Read(m)
      PROVE  HttpTypes'
    <2>1. /\ messages[m] \in Seq(HttpEvents) /\ messages[m] # <<>> /\ read[m] \in Seq(HttpEvents)
          /\ read' = [read EXCEPT ![m] = Append(read[m], Head(messages[m]))]
          /\ messages' = [messages EXCEPT ![m] = Tail(messages[m])]
          /\ server' = server /\ request' = request
        BY <1>4 DEF Read, HttpTypes
    <2>2. /\ Append(read[m], Head(messages[m])) \in Seq(HttpEvents)
          /\ Tail(messages[m]) \in Seq(HttpEvents)
          /\ Len(Tail(messages[m])) = Len(messages[m]) - 1
          /\ Len(messages[m]) \in Nat
        BY <2>1, HeadTailProperties, AppendProperties, LenProperties
    <2>3. \A k \in Servers : Len(messages'[k]) <= BacklogSize
        BY <2>1, <2>2, HttpAssumption DEF HttpTypes
    <2> QED
        BY <2>1, <2>2, <2>3 DEF HttpTypes
<1>5. ASSUME NEW m \in Servers, ServerCloses(m)
      PROVE  HttpTypes'
    <2>1. /\ server' = [server EXCEPT ![m] = "closed"] /\ messages' = messages /\ read' = read
          /\ request' = [r \in Requests |->
                IF request[r].to = m /\ request[r].state = "handling"
                THEN [request[r] EXCEPT !.state = "aborted"] ELSE request[r]]
        BY <1>5 DEF ServerCloses
    <2>2. ASSUME NEW r \in Requests
          PROVE  /\ request'[r] \in [to : Servers, sent : Nat, state : RequestStates]
                 /\ request'[r].sent = request[r].sent
                 /\ request'[r].state \in {request[r].state, "aborted"}
        <3>1. request[r] \in [to : Servers, sent : Nat, state : RequestStates]
            BY DEF HttpTypes
        <3>2. request'[r] \in {request[r], [request[r] EXCEPT !.state = "aborted"]}
            BY <2>1
        <3> QED
            BY <3>1, <3>2 DEF RequestStates
    <2> QED
        BY <2>1, <2>2 DEF HttpTypes
<1>6. ASSUME NEW r \in Requests, Put(r)
      PROVE  HttpTypes'
    BY <1>6, PutKeepsTypes
<1>7. ASSUME NEW r \in Requests, NEW m \in Servers, RequestArrives(r, m)
      PROVE  HttpTypes'
    <2>1. /\ request[r] \in [to : Servers, sent : Nat, state : RequestStates]
          /\ request[r].state = "new"
          /\ request' = [request EXCEPT ![r] =
                [request[r] EXCEPT !.to = m, !.state = "handling"]]
          /\ UNCHANGED <<server, messages, read>>
        BY <1>7 DEF RequestArrives, HttpTypes
    <2> QED
        BY <2>1 DEF HttpTypes, RequestStates
<1>8. CASE UNCHANGED allVars
    BY <1>8, <1>1 DEF allVars
<1> QED
    BY <1>1, <1>2, <1>3, <1>4, <1>5, <1>6, <1>7, <1>8 DEF HttpNext, ManagerWithServer,
        SetUpWithServer, ShutDownWithServer, CancelWithoutClose

\* The types of the runner and the HTTP input; in particular, no queue ever
\* holds more than message_backlog_size events, however many handlers put.
THEOREM HttpTypeCorrect == HttpSpec => []TypeOK
<1>1. HttpTypes /\ RunnerTypeOK => TypeOK
    <2> SUFFICES ASSUME HttpTypes, RunnerTypeOK PROVE TypeOK
        OBVIOUS
    <2>1. \A r \in Requests : EventsIn[r] \in Nat
        BY HttpAssumption
    <2>2. \A r \in Requests : /\ request[r].to \in Servers
                             /\ request[r].state \in RequestStates
                             /\ request[r].sent \in 0 .. EventsIn[r]
        BY <2>1 DEF HttpTypes
    <2> QED
        BY <2>2 DEF HttpTypes, TypeOK
<1>2. HttpSpec => []HttpTypes
    BY HttpInitTypes, HttpNextTypes, PTL DEF HttpSpec
<1> QED
    BY <1>1, <1>2, HttpImplementsRunner, RunnerTypeCorrect, PTL

(***************************************************************************)
(* Every event that was put is in the queue or was read, in order.  The    *)
(* argument is about the log of a manager: what it read and what it has    *)
(* queued.  A read moves an event within the log and leaves it as it is,   *)
(* a put appends one, and nothing else touches it.                         *)
(***************************************************************************)

\* What moves from the head of a queue to the end of the events read stays
\* where it is in the log.
LEMMA ReadKeepsLog ==
    ASSUME NEW S, NEW a \in Seq(S), NEW b \in Seq(S), b # <<>>
    PROVE  Append(a, Head(b)) \o Tail(b) = a \o b
<1> DEFINE left == Append(a, Head(b)) \o Tail(b)
           right == a \o b
<1>1. /\ Len(a) \in Nat /\ Len(b) \in Nat \ {0}
      /\ Head(b) = b[1] /\ Head(b) \in S /\ Tail(b) \in Seq(S)
      /\ Len(Tail(b)) = Len(b) - 1
      /\ \A i \in 1 .. Len(Tail(b)) : Tail(b)[i] = b[i + 1]
    BY LenProperties, EmptySeq, HeadTailProperties
<1>2. /\ Append(a, Head(b)) \in Seq(S)
      /\ Len(Append(a, Head(b))) = Len(a) + 1
      /\ \A i \in 1 .. Len(a) : Append(a, Head(b))[i] = a[i]
      /\ Append(a, Head(b))[Len(a) + 1] = Head(b)
    BY <1>1, AppendProperties
<1>3. /\ left \in Seq(S) /\ right \in Seq(S)
      /\ Len(left) = Len(a) + Len(b) /\ Len(right) = Len(a) + Len(b)
    BY <1>1, <1>2, ConcatProperties
<1>4. ASSUME NEW i \in 1 .. Len(a) + Len(b)
      PROVE  left[i] = right[i]
    <2>1. CASE i <= Len(a)
        BY <2>1, <1>1, <1>2, ConcatProperties
    <2>2. CASE i = Len(a) + 1
        BY <2>2, <1>1, <1>2, ConcatProperties
    <2>3. CASE i > Len(a) + 1
        <3>1. /\ i \in 1 .. (Len(a) + 1) + (Len(b) - 1)
              /\ i - (Len(a) + 1) \in 1 .. Len(b) - 1
              /\ (i - (Len(a) + 1)) + 1 = i - Len(a)
            BY <2>3, <1>1
        <3>2. left[i] = Tail(b)[i - (Len(a) + 1)]
            BY <2>3, <3>1, <1>1, <1>2, ConcatProperties
        <3>3. right[i] = b[i - Len(a)]
            BY <2>3, <1>1, ConcatProperties
        <3> QED
            BY <3>1, <3>2, <3>3, <1>1
    <2> QED
        BY <2>1, <2>2, <2>3, <1>1
<1> HIDE DEF left, right
<1>5. left = right
    BY <1>3, <1>4, SeqEqual
<1> QED
    BY <1>5 DEF left, right

\* The next event of r at the end of the log, which has those before it.
LEMMA NextEventInOrder ==
    ASSUME NEW log \in Seq(HttpEvents), NEW r \in Requests, NEW n \in Nat, HasFirst(log, r, n)
    PROVE  HasFirst(Append(log, <<r, n + 1>>), r, n + 1)
<1> DEFINE e == <<r, n + 1>>
           new == Append(log, e)
<1>1. e \in HttpEvents /\ e[1] = r /\ e[2] = n + 1
    BY DEF HttpEvents
<1> HIDE DEF e
<1>2. /\ DOMAIN log = 1 .. Len(log) /\ Len(log) \in Nat /\ DOMAIN new = 1 .. Len(log) + 1
      /\ \A i \in 1 .. Len(log) : new[i] = log[i]
      /\ new[Len(log) + 1] = e
    BY <1>1, LenProperties, AppendProperties
<1> HIDE DEF new
<1>3. \A k \in 1 .. n + 1 : \E i \in DOMAIN new : new[i] = <<r, k>>
    <2> SUFFICES ASSUME NEW k \in 1 .. n + 1 PROVE \E i \in DOMAIN new : new[i] = <<r, k>>
        OBVIOUS
    <2>1. CASE k \in 1 .. n
        <3>1. PICK i \in DOMAIN log : log[i] = <<r, k>>
            BY <2>1 DEF HasFirst
        <3>2. i \in DOMAIN new /\ new[i] = log[i]
            BY <1>2
        <3> QED
            BY <3>1, <3>2
    <2>2. CASE k = n + 1
        BY <2>2, <1>2 DEF e
    <2> QED
        BY <2>1, <2>2
<1>4. \A i \in DOMAIN new : new[i][1] = r => new[i][2] \in 1 .. n + 1
    <2> SUFFICES ASSUME NEW i \in DOMAIN new, new[i][1] = r PROVE new[i][2] \in 1 .. n + 1
        OBVIOUS
    <2>1. CASE i \in DOMAIN log
        <3>1. new[i] = log[i]
            BY <2>1, <1>2
        <3>2. log[i][2] \in 1 .. n
            BY <2>1, <3>1 DEF HasFirst
        <3> QED
            BY <3>1, <3>2
    <2>2. CASE i = Len(log) + 1
        BY <2>2, <1>1, <1>2
    <2> QED
        BY <2>1, <2>2, <1>2
<1>5. \A i, j \in DOMAIN new :
        i < j /\ new[i][1] = r /\ new[j][1] = r => new[i][2] < new[j][2]
    <2> SUFFICES ASSUME NEW i \in DOMAIN new, NEW j \in DOMAIN new,
                        i < j, new[i][1] = r, new[j][1] = r
                 PROVE  new[i][2] < new[j][2]
        OBVIOUS
    <2>1. i \in DOMAIN log /\ new[i] = log[i]
        BY <1>2
    <2>2. CASE j \in DOMAIN log
        BY <2>1, <2>2, <1>2 DEF HasFirst
    <2>3. CASE j = Len(log) + 1
        BY <2>1, <2>3, <1>1, <1>2 DEF HasFirst
    <2> QED
        BY <2>2, <2>3, <1>2
<1> QED
    BY <1>3, <1>4, <1>5 DEF HasFirst, new, e

\* An event of another request at the end of the log changes nothing for r.
LEMMA OthersKeepOrder ==
    ASSUME NEW log \in Seq(HttpEvents), NEW r \in Requests, NEW n \in Nat, HasFirst(log, r, n),
           NEW q \in Requests, q # r, NEW k \in Nat \ {0}
    PROVE  HasFirst(Append(log, <<q, k>>), r, n)
<1> DEFINE e == <<q, k>>
           new == Append(log, e)
<1>1. e \in HttpEvents /\ e[1] # r
    BY DEF HttpEvents
<1> HIDE DEF e
<1>2. /\ DOMAIN log = 1 .. Len(log) /\ Len(log) \in Nat /\ DOMAIN new = 1 .. Len(log) + 1
      /\ \A i \in 1 .. Len(log) : new[i] = log[i]
      /\ new[Len(log) + 1] = e
    BY <1>1, LenProperties, AppendProperties
<1> HIDE DEF new
<1>3. \A i \in DOMAIN new : new[i][1] = r => i \in DOMAIN log /\ new[i] = log[i]
    BY <1>1, <1>2
<1>4. \A i \in DOMAIN log : i \in DOMAIN new /\ new[i] = log[i]
    BY <1>2
<1> QED
    BY <1>3, <1>4 DEF HasFirst, new, e

\* The events of r that manager m accepted.
Sent(r, m) == IF m = request[r].to THEN request[r].sent ELSE 0

\* The inductive invariant: a request that has not arrived has no events
\* anywhere, and a handler answers exactly when it has put all of them.
QueueInv ==
    \A r \in Requests :
        /\ \A m \in Servers : HasFirst(Accepted(m), r, Sent(r, m))
        /\ request[r].state = "new" => request[r].sent = 0
        /\ request[r].state = "answered" => request[r].sent = EventsIn[r]

LEMMA QueueInit == HttpInit => QueueInv
<1> SUFFICES ASSUME HttpInit, NEW r \in Requests
             PROVE  /\ \A m \in Servers : HasFirst(Accepted(m), r, Sent(r, m))
                    /\ request[r].state = "new" => request[r].sent = 0
                    /\ request[r].state = "answered" => request[r].sent = EventsIn[r]
    BY DEF QueueInv
<1>1. request[r].sent = 0 /\ request[r].state = "new" /\ \A m \in Servers : Sent(r, m) = 0
    BY DEF HttpInit, Sent
<1>2. ASSUME NEW m \in Servers PROVE HasFirst(Accepted(m), r, Sent(r, m))
    <2>1. Accepted(m) = <<>> \o <<>> /\ <<>> \in Seq(HttpEvents)
        BY EmptySeq DEF HttpInit, Accepted
    <2>2. Accepted(m) = <<>>
        BY <2>1, ConcatEmptySeq
    <2>3. DOMAIN Accepted(m) = {}
        BY <2>2
    <2> QED
        BY <2>3, <1>1 DEF HasFirst
<1> QED
    BY <1>1, <1>2

\* What leaves the logs and what was sent alone, and answers nobody.
LEMMA QueueKept ==
    ASSUME QueueInv,
           \A m \in Servers : Accepted(m)' = Accepted(m),
           \A r \in Requests :
               /\ request'[r].sent = request[r].sent
               /\ request'[r].to = request[r].to \/ request[r].state = "new"
               /\ request'[r].state \in {request[r].state, "aborted", "handling"}
    PROVE  QueueInv'
<1> SUFFICES ASSUME NEW r \in Requests
             PROVE  /\ \A m \in Servers : HasFirst(Accepted(m)', r, Sent(r, m)')
                    /\ request'[r].state = "new" => request'[r].sent = 0
                    /\ request'[r].state = "answered" => request'[r].sent = EventsIn[r]
    BY DEF QueueInv, HasFirst
<1>1. \A m \in Servers : Sent(r, m)' = Sent(r, m)
    BY DEF QueueInv, Sent
<1> QED
    BY <1>1 DEF QueueInv

LEMMA QueuePut ==
    ASSUME HttpTypes, QueueInv, NEW r \in Requests, Put(r)
    PROVE  QueueInv'
<1>0. /\ request[r].to \in Servers /\ request[r].sent \in Nat /\ request[r].state = "handling"
    BY DEF HttpTypes, Put, EventPut
<1> PICK to \in Servers, sent \in Nat : to = request[r].to /\ sent = request[r].sent
    BY <1>0
<1>1. /\ request[r].state = "handling"
      /\ messages[to] \in Seq(HttpEvents) /\ read[to] \in Seq(HttpEvents)
      /\ messages \in [Servers -> Seq(HttpEvents)]
    BY DEF HttpTypes, Put, EventPut
<1>2. messages' = [messages EXCEPT ![to] = Append(messages[to], <<r, sent + 1>>)] /\ read' = read
    BY DEF Put, EventPut, Appended
<1>3. /\ request'[r].to = to /\ request'[r].sent = sent + 1
      /\ request'[r].state \in {"answered", "handling"}
      /\ request'[r].state = "answered" => request'[r].sent = EventsIn[r]
      /\ \A q \in Requests \ {r} : request'[q] = request[q]
    <2>1. request[r] \in [to : Servers, sent : Nat, state : RequestStates]
        BY DEF HttpTypes
    <2>2. request \in [Requests -> [to : Servers, sent : Nat, state : RequestStates]]
        BY DEF HttpTypes
    <2> QED
        BY <2>1, <2>2 DEF Put, EventPut
<1>4. Accepted(to)' = Append(Accepted(to), <<r, sent + 1>>) /\ Accepted(to) \in Seq(HttpEvents)
    <2> DEFINE e == <<r, sent + 1>>
               a == read[to]
               b == messages[to]
    <2>1. e \in HttpEvents
        BY <1>1 DEF HttpEvents
    <2>2. Accepted(to)' = a \o Append(b, e)
        BY <1>1, <1>2 DEF Accepted
    <2> HIDE DEF e
    <2>3. a \o Append(b, e) = Append(a \o b, e) /\ a \o b \in Seq(HttpEvents)
        <3> HIDE DEF a, b
        <3>1. a \in Seq(HttpEvents) /\ b \in Seq(HttpEvents)
            BY <1>1 DEF a, b
        <3> QED
            BY <2>1, <3>1, AppendIsConcat, ConcatProperties, ConcatAssociative
    <2> QED
        BY <2>2, <2>3 DEF Accepted, e
<1>5. ASSUME NEW m \in Servers \ {to} PROVE Accepted(m)' = Accepted(m)
    BY <1>1, <1>2 DEF Accepted
<1>6. \A m \in Servers : HasFirst(Accepted(m), r, Sent(r, m))
    BY DEF QueueInv
<1>7. ASSUME NEW m \in Servers PROVE HasFirst(Accepted(m)', r, Sent(r, m)')
    <2>1. CASE m = to
        <3>1. HasFirst(Accepted(to), r, sent)
            BY <1>1, <1>6 DEF Sent
        <3>2. HasFirst(Append(Accepted(to), <<r, sent + 1>>), r, sent + 1)
            BY <3>1, <1>1, <1>4, NextEventInOrder
        <3> QED
            BY <2>1, <3>2, <1>3, <1>4 DEF Sent
    <2>2. CASE m # to
        <3>1. Sent(r, m)' = Sent(r, m)
            BY <2>2, <1>3 DEF Sent
        <3> QED
            BY <2>2, <3>1, <1>5, <1>6
    <2> QED
        BY <2>1, <2>2
<1>8. ASSUME NEW q \in Requests \ {r}, NEW m \in Servers
      PROVE  HasFirst(Accepted(m)', q, Sent(q, m)')
    <2>1. Sent(q, m)' = Sent(q, m) /\ Sent(q, m) \in Nat
        BY <1>3 DEF Sent, HttpTypes
    <2>2. HasFirst(Accepted(m), q, Sent(q, m))
        BY DEF QueueInv
    <2>3. CASE m = to
        <3>1. HasFirst(Append(Accepted(m), <<r, sent + 1>>), q, Sent(q, m))
            BY <2>1, <2>2, <2>3, <1>1, <1>4, OthersKeepOrder
        <3> QED
            BY <2>1, <2>3, <3>1, <1>4
    <2>4. CASE m # to
        BY <2>1, <2>2, <2>4, <1>5
    <2> QED
        BY <2>3, <2>4
<1>9. ASSUME NEW q \in Requests
      PROVE  /\ request'[q].state = "new" => request'[q].sent = 0
             /\ request'[q].state = "answered" => request'[q].sent = EventsIn[q]
    BY <1>3 DEF QueueInv
<1>10. ASSUME NEW q \in Requests
       PROVE  \A m \in Servers : HasFirst(Accepted(m)', q, Sent(q, m)')
    BY <1>7, <1>8
<1> QED
    BY <1>9, <1>10 DEF QueueInv, HasFirst

LEMMA QueueNext == HttpTypes /\ QueueInv /\ [HttpNext]_allVars => QueueInv'
<1> SUFFICES ASSUME HttpTypes, QueueInv, [HttpNext]_allVars PROVE QueueInv'
    OBVIOUS
<1>1. CASE UNCHANGED <<messages, read, request>>
    <2>1. \A m \in Servers : Accepted(m)' = Accepted(m)
        BY <1>1 DEF Accepted
    <2> QED
        BY <1>1, <2>1, QueueKept
<1>2. ASSUME NEW m \in Servers, Read(m)
      PROVE  QueueInv'
    <2>1. /\ messages[m] \in Seq(HttpEvents) /\ messages[m] # <<>> /\ read[m] \in Seq(HttpEvents)
          /\ read' = [read EXCEPT ![m] = Append(read[m], Head(messages[m]))]
          /\ messages' = [messages EXCEPT ![m] = Tail(messages[m])]
          /\ read \in [Servers -> Seq(HttpEvents)] /\ messages \in [Servers -> Seq(HttpEvents)]
          /\ request' = request
        BY <1>2 DEF Read, HttpTypes
    <2>2. Append(read[m], Head(messages[m])) \o Tail(messages[m]) = read[m] \o messages[m]
        BY <2>1, ReadKeepsLog
    <2>3. \A k \in Servers : Accepted(k)' = Accepted(k)
        BY <2>1, <2>2 DEF Accepted
    <2> QED
        BY <2>1, <2>3, QueueKept
<1>3. ASSUME NEW m \in Servers, ServerCloses(m)
      PROVE  QueueInv'
    <2>1. \A k \in Servers : Accepted(k)' = Accepted(k)
        BY <1>3 DEF ServerCloses, Accepted
    <2>2. ASSUME NEW r \in Requests
          PROVE  /\ request'[r].sent = request[r].sent /\ request'[r].to = request[r].to
                 /\ request'[r].state \in {request[r].state, "aborted"}
        <3>1. request[r] \in [to : Servers, sent : Nat, state : RequestStates]
            BY DEF HttpTypes
        <3>2. request'[r] \in {request[r], [request[r] EXCEPT !.state = "aborted"]}
            BY <1>3 DEF ServerCloses
        <3> QED
            BY <3>1, <3>2
    <2> QED
        BY <2>1, <2>2, QueueKept
<1>4. ASSUME NEW r \in Requests, NEW m \in Servers, RequestArrives(r, m)
      PROVE  QueueInv'
    <2>1. \A k \in Servers : Accepted(k)' = Accepted(k)
        BY <1>4 DEF RequestArrives, Accepted
    <2>2. ASSUME NEW q \in Requests
          PROVE  /\ request'[q].sent = request[q].sent
                 /\ request'[q].to = request[q].to \/ request[q].state = "new"
                 /\ request'[q].state \in {request[q].state, "handling"}
        <3>1. request \in [Requests -> [to : Servers, sent : Nat, state : RequestStates]]
            BY DEF HttpTypes
        <3> QED
            BY <3>1, <1>4 DEF RequestArrives
    <2> QED
        BY <2>1, <2>2, QueueKept
<1>5. ASSUME NEW r \in Requests, Put(r)
      PROVE  QueueInv'
    BY <1>5, QueuePut
<1>6. ASSUME NEW m \in Ids, CloseServer(m)
      PROVE  UNCHANGED <<messages, read, request>>
    BY <1>6 DEF CloseServer
<1>7. ASSUME NEW m \in Servers, ServerStarts(m) \/ ServerSignalled(m)
      PROVE  UNCHANGED <<messages, read, request>>
    BY <1>7 DEF ServerStarts, ServerSignalled
<1>8. UNCHANGED httpVars \/ UNCHANGED allVars => UNCHANGED <<messages, read, request>>
    BY DEF httpVars, allVars
<1> QED
    BY <1>1, <1>2, <1>3, <1>4, <1>5, <1>6, <1>7, <1>8 DEF HttpNext, ManagerWithServer,
        SetUpWithServer, ShutDownWithServer, CancelWithoutClose

\* No event is lost between a client and the workflow: an answered request
\* has all its events accepted, in order and once, by the manager it reached,
\* and every other request exactly those that its handler put.
THEOREM AnsweredEventsAreAccepted == HttpSpec => []AnsweredIsQueued
<1>1. HttpSpec => []HttpTypes
    BY HttpInitTypes, HttpNextTypes, PTL DEF HttpSpec
<1>2. HttpSpec => []QueueInv
    BY <1>1, QueueInit, QueueNext, PTL DEF HttpSpec
<1>3. QueueInv => AnsweredIsQueued
    BY DEF QueueInv, AnsweredIsQueued, Sent
<1> QED
    BY <1>2, <1>3, PTL
=============================================================================
