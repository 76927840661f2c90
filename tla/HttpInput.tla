----------------------------- MODULE HttpInput ------------------------------
(***************************************************************************)
(* The asynchronous HTTP input of logprep/ng/connector/http/input.py in    *)
(* the managers of Runner: every manager has an instance of its own, with  *)
(* a uvicorn server that is started by its setup and closed by its         *)
(* shut_down, and a bounded queue between the endpoints and the workflow.  *)
(*                                                                         *)
(* A request carries one event or, at a jsonl endpoint, several.  Its      *)
(* handler puts them one by one, waiting where the queue is full, and      *)
(* answers when the last is in the queue.  The server goes on accepting    *)
(* requests when the workflow has stopped reading.                         *)
(***************************************************************************)
EXTENDS Runner, SequencesExt

CONSTANTS
    Requests,       \* the requests clients make
    EventsIn,       \* request -> the number of its events
    BacklogSize     \* message_backlog_size

ASSUME HttpAssumption ==
    /\ EventsIn \in [Requests -> Nat \ {0}]
    /\ BacklogSize \in Nat \ {0}        \* SizeLimitedQueue refuses 0

VARIABLES
    server,         \* manager -> its uvicorn server
    messages,       \* manager -> its queue of events
    read,           \* history: manager -> the events its workflow has read
    request         \* request -> [to, sent, state]

httpVars == <<server, messages, read, request>>
allVars == <<vars, httpVars>>

Servers == 1 .. MaxManagers
HttpEvents == Requests \X (Nat \ {0})
RequestStates == {"new", "handling", "answered", "aborted"}

\* The events manager m accepted, in their order: those its workflow has read
\* and those in its queue.
Accepted(m) == read[m] \o messages[m]

TypeOK ==
    /\ RunnerTypeOK
    /\ server \in [Servers -> {"off", "listening", "closing", "closed"}]
    /\ \A m \in Servers : /\ messages[m] \in Seq(HttpEvents) /\ read[m] \in Seq(HttpEvents)
                          /\ Len(messages[m]) <= BacklogSize
    /\ \A r \in Requests : /\ request[r].to \in Servers /\ request[r].state \in RequestStates
                           /\ request[r].sent \in 0 .. EventsIn[r]

HttpInit ==
    /\ Init
    /\ server = [m \in Servers |-> "off"]
    /\ messages = [m \in Servers |-> <<>>] /\ read = [m \in Servers |-> <<>>]
    /\ request = [r \in Requests |-> [to |-> 1, sent |-> 0, state |-> "new"]]

(***************************************************************************)
(* The server (uvicorn) and the endpoints.                                 *)
(***************************************************************************)

\* _create_and_run_server, in the setup of the manager's components.
ServerStarts(m) ==
    /\ m \in Ids /\ managers[m].state = "setup" /\ ~ managers[m].cancel
    /\ server[m] = "off"
    /\ server' = [server EXCEPT ![m] = "listening"]
    /\ UNCHANGED <<vars, messages, read, request>>

\* uvicorn's own handler of the signal that stops the runner.
ServerSignalled(m) ==
    /\ stopEvent
    /\ server[m] = "listening"
    /\ server' = [server EXCEPT ![m] = "closing"]
    /\ UNCHANGED <<vars, messages, read, request>>

\* A request reaches an endpoint of the listening server.
RequestArrives(r, m) ==
    /\ body # "ended"
    /\ server[m] = "listening"
    /\ request[r].state = "new"
    /\ request' = [request EXCEPT ![r] = [@ EXCEPT !.to = m, !.state = "handling"]]
    /\ UNCHANGED <<vars, server, messages, read>>

\* The next event of request r is in the queue q of its server.
EventPut(r, q) ==
    LET sent == request[r].sent + 1
    IN  /\ body # "ended"
        /\ request[r].state = "handling"
        /\ server[request[r].to] \in {"listening", "closing"}
        /\ messages' = [messages EXCEPT ![request[r].to] = q]
        /\ request' = [request EXCEPT ![r] = [@ EXCEPT
                !.sent = sent,
                !.state = IF sent = EventsIn[r] THEN "answered" ELSE "handling"]]
        /\ UNCHANGED <<vars, server, read>>

Appended(r) == Append(messages[request[r].to], <<r, request[r].sent + 1>>)

\* Mutant: the queue takes one event more than its size.
HasRoomForOneMore(m) == Len(messages[m]) <= BacklogSize
HasRoom(m) == Len(messages[m]) < BacklogSize

\* Mutant: put_nowait, and an event that finds the queue full is dropped.
PutWithoutWaiting(r) ==
    EventPut(r, IF HasRoom(request[r].to) THEN Appended(r) ELSE messages[request[r].to])

\* put_message waits for room; the answer follows the last put.
Put(r) ==
    /\ HasRoom(request[r].to)
    /\ EventPut(r, Appended(r))

\* _get_event, for the input worker of the manager's workflow.
Read(m) ==
    /\ m \in Ids /\ managers[m].state = "running"
    /\ messages[m] # <<>>
    /\ read' = [read EXCEPT ![m] = Append(@, Head(messages[m]))]
    /\ messages' = [messages EXCEPT ![m] = Tail(@)]
    /\ UNCHANGED <<vars, server, request>>

\* Mutant: no timeout_graceful_shutdown, the server waits for its requests.
ServerClosesWhenIdle(m) ==
    /\ server[m] = "closing"
    /\ \A r \in Requests : request[r].to = m => request[r].state # "handling"
    /\ server' = [server EXCEPT ![m] = "closed"]
    /\ UNCHANGED <<vars, messages, read, request>>

\* The server has served its open requests, or timeout_graceful_shutdown has
\* passed and those that are left, waiting for the queue, are cancelled.
ServerCloses(m) ==
    /\ server[m] = "closing"
    /\ server' = [server EXCEPT ![m] = "closed"]
    /\ request' = [r \in Requests |->
            IF request[r].to = m /\ request[r].state = "handling"
            THEN [request[r] EXCEPT !.state = "aborted"] ELSE request[r]]
    /\ UNCHANGED <<vars, messages, read>>

(***************************************************************************)
(* The runner's steps.                                                     *)
(***************************************************************************)

\* setup returns when the server has started, shut_down when it has closed.
SetUpWithServer(m) == ManagerSetUp(m) /\ server[m] # "off" /\ UNCHANGED httpVars
ShutDownWithServer(m) == /\ ShutDownEnds(m) \/ ShutDownFails(m)
                         /\ server[m] = "closed"
                         /\ UNCHANGED httpVars

\* shut_down sets the server's should_exit.
CloseServer(m) ==
    /\ \/ OrchestratorEnds(m) \/ OrchestratorFails(m)
       \/ managers[m].state = "running" /\ ManagerCancelled(m)
    /\ server' = [server EXCEPT ![m] = IF @ = "listening" THEN "closing" ELSE @]
    /\ UNCHANGED <<messages, read, request>>

CancelWithoutClose(m) ==
    managers[m].state # "running" /\ ManagerCancelled(m) /\ UNCHANGED httpVars

ManagerWithServer(m) ==
    \/ (ManagerCreates(m) \/ ManagerSetupFails(m)) /\ UNCHANGED httpVars
    \/ SetUpWithServer(m) \/ CloseServer(m) \/ ShutDownWithServer(m) \/ CancelWithoutClose(m)

HttpNext ==
    \/ (StopRunner \/ GettersStep \/ RefreshStep \/ ExporterStep \/ BodyStep)
            /\ UNCHANGED httpVars
    \/ \E m \in Ids : ManagerWithServer(m)
    \/ \E m \in Servers : ServerStarts(m) \/ ServerSignalled(m) \/ Read(m) \/ ServerCloses(m)
    \/ \E r \in Requests : Put(r) \/ \E m \in Servers : RequestArrives(r, m)

HttpSpec == HttpInit /\ [][HttpNext]_allVars

\* As in Runner, and: the server starts and closes, handlers run, and the
\* workflow reads for as long as it is not told to stop.
HttpFairness ==
    /\ WF_allVars((GettersStop \/ GettersCancelled) /\ UNCHANGED httpVars)
    /\ WF_allVars(/\ RefreshBegins \/ RefreshStops \/ ReloadKeeps \/ RefreshCancelled
                  /\ UNCHANGED httpVars)
    /\ WF_allVars(/\ ExporterStarts \/ (exporterStop /\ ExporterEnds) \/ ExporterCancelled
                  /\ UNCHANGED httpVars)
    /\ WF_allVars(BodyStep /\ UNCHANGED httpVars)
    /\ \A m \in Servers :
        /\ WF_allVars(/\ m \in Ids
                      /\ \/ ManagerCreates(m) /\ UNCHANGED httpVars
                         \/ SetUpWithServer(m) \/ ShutDownWithServer(m)
                         \/ managers[m].stop /\ CloseServer(m)
                         \/ managers[m].cancel /\ (CloseServer(m) \/ CancelWithoutClose(m)))
        /\ WF_allVars(ServerStarts(m)) /\ WF_allVars(ServerCloses(m))
        /\ WF_allVars(m \in Ids /\ ~ managers[m].stop /\ Read(m))
    /\ \A r \in Requests : WF_allVars(Put(r))

HttpFairSpec == HttpSpec /\ HttpFairness

(***************************************************************************)
(* Properties.                                                             *)
(***************************************************************************)

\* Of request r, log has the first n events, in their order and once each.
HasFirst(log, r, n) ==
    /\ \A k \in 1 .. n : \E i \in DOMAIN log : log[i] = <<r, k>>
    /\ \A i \in DOMAIN log : log[i][1] = r => log[i][2] \in 1 .. n
    /\ \A i, j \in DOMAIN log :
        i < j /\ log[i][1] = r /\ log[j][1] = r => log[i][2] < log[j][2]

\* A request that is answered has all its events, in their order and once,
\* in the queue or already with the workflow, and one that is not answered,
\* or whose server closes under it, has exactly those put before: an event
\* is never dropped because the backlog is full (http/input.py:218-294).
AnsweredIsQueued ==
    \A r \in Requests :
        /\ \A m \in Servers :
            HasFirst(Accepted(m), r, IF m = request[r].to THEN request[r].sent ELSE 0)
        /\ request[r].state = "answered" => request[r].sent = EventsIn[r]

\* A request is answered, or aborted by the server's shutdown, although its
\* handler may wait for a queue that is full and that nobody reads any more:
\* neither the client nor the shutdown waits for ever (http/input.py:218-223,
\* 542-545, util/http.py:16-19).  Only the end of the process leaves one open.
EveryRequestEnds ==
    \A r \in Requests :
        request[r].state = "handling" ~> request[r].state # "handling" \/ body = "ended"
=============================================================================
