-------------------------- MODULE ClassicPipeline ---------------------------
(***************************************************************************)
(* The pipeline processes of logprep/framework/pipeline.py, with a Kafka   *)
(* input (logprep/connector/confluent_kafka/input.py) and an OpenSearch    *)
(* output (logprep/connector/opensearch/output.py) that collects events    *)
(* in a backlog.                                                           *)
(*                                                                         *)
(* A process works on one event at a time, on its own partition here.  A   *)
(* killed process leaves its slots of the error queue taken, and its       *)
(* successor reads from the committed offset on.                           *)
(***************************************************************************)
EXTENDS ErrorListener

CONSTANT BacklogSize    \* message_backlog_size of the output

ASSUME ClassicPipelineAssumption == BacklogSize \in Nat \ {0}

VARIABLES
    process,        \* pipeline -> its present process
    committed       \* partition -> the highest committed offset

pipelineVars == <<process, committed>>
otherVars == <<ping, listener, errorBacklog>>

Offsets == 0 .. EventCount      \* 0: none
ProcessEnded == {"exited", "dead"}
Exiting == {"leaving", "failing"}   \* waits for its feeder thread

Process == [state : {"created", "setup", "idle", "processing", "storing", "reporting",
                     "reported", "finishing"} \cup Exiting \cup ProcessEnded,
            iterating : BOOLEAN,        \* _continue_iterating, shared memory
            last : Offsets,             \* _last_valid_record
            stored : Offsets,           \* the offset given to store_offsets
            next : 1 .. EventCount + 1, \* the consumer's position
            backlog : SUBSET Events,    \* _message_backlog of the output
            items : Seq(Events),        \* error items to put
            transit : Seq(Events),      \* put, but not in the pipe yet
            handling : BOOLEAN]         \* in the error handler of process_pipeline

NewProcess == [state |-> "created", iterating |-> FALSE, last |-> 0, stored |-> 0,
               next |-> 1, backlog |-> {}, items |-> <<>>, transit |-> <<>>,
               handling |-> FALSE]
Gone(state) == [NewProcess EXCEPT !.state = state]

PipelineTypeOK ==
    /\ process \in [Processes -> Process]
    /\ committed \in [Processes -> Offsets]

\* With an error listener the processes are created after the handshake.
PipelineInit ==
    /\ process = [p \in Processes |->
            IF HasErrorQueue THEN Gone("exited") ELSE NewProcess]
    /\ committed = [p \in Processes |-> 0]

Alive(p) == process[p].state \notin ProcessEnded
Current(p) == <<p, process[p].last>>    \* the event p works on
IsCommitted(e) == e[2] <= committed[e[1]]

Become(p, r) == process' = [process EXCEPT ![p] = r]
At(p, state) == process[p].state = state
To(p, state) == [process[p] EXCEPT !.state = state]

(***************************************************************************)
(* Start: Pipeline.run and _setup.                                         *)
(***************************************************************************)

\* run sets the flag, whatever a stop has written to it before.
Begin(p) ==
    /\ At(p, "created")
    /\ Become(p, [To(p, "setup") EXCEPT !.iterating = TRUE])
    /\ UNCHANGED <<committed, queueVars, otherVars, accounted, disruptions>>

\* The consumer takes up the partition at the committed offset: what follows
\* is read again, and has to be accounted for again.
SetUp(p) ==
    /\ At(p, "setup")
    /\ Become(p, [To(p, "idle") EXCEPT !.next = committed[p] + 1])
    /\ accounted' = {e \in accounted : e[1] # p \/ IsCommitted(e)}
    /\ UNCHANGED <<committed, queueVars, otherVars, disruptions>>

\* A component is not healthy (SystemExit), or a FatalError stops the process.
SetUpFails(p) ==
    /\ At(p, "setup")
    /\ Become(p, Gone("exited"))
    /\ UNCHANGED <<committed, queueVars, otherVars, accounted, disruptions>>

(***************************************************************************)
(* process_pipeline.                                                       *)
(***************************************************************************)

\* The backlog B is written except for F, which CriticalOutputError carries
\* to enqueue_error; without an error the process goes on to state.
Write(p, B, state) ==
    \E F \in SUBSET B :
        /\ Account(B \ F)
        /\ Become(p, [To(p, IF F = {} THEN state ELSE "reporting") EXCEPT
                        !.backlog = {}, !.items = SetToSeq(F), !.handling = F # {}])
        /\ UNCHANGED <<committed, queueVars, otherVars, disruptions>>

\* run_pending_tasks: the output's scheduled _write_backlog.
ScheduledWrite(p) ==
    /\ At(p, "idle") /\ process[p].iterating
    /\ process[p].backlog # {}
    /\ Write(p, process[p].backlog, "idle")

\* get_next returns an event, or raises a CriticalInputError that carries it,
\* or returns nothing: a record without a value, or with null or an empty
\* object in it, is the last valid record and nothing else.
GetNext(p) ==
    /\ At(p, "idle") /\ process[p].iterating
    /\ process[p].next <= EventCount
    /\ LET event == <<p, process[p].next>>
           polled == [process[p] EXCEPT !.last = process[p].next, !.next = @ + 1]
       IN  \/ /\ Become(p, [polled EXCEPT !.state = "processing"])
              /\ UNCHANGED accounted
           \/ /\ Become(p, [polled EXCEPT !.state = "reporting", !.items = <<event>>,
                                           !.handling = TRUE])
              /\ UNCHANGED accounted
           \/ /\ Become(p, polled)
              /\ Account({event})
    /\ UNCHANGED <<committed, queueVars, otherVars, disruptions>>

\* FatalInputError or SourceDisconnectedWarning: the process stops itself.
SourceFails(p) ==
    /\ At(p, "idle") /\ process[p].iterating
    /\ Become(p, [process[p] EXCEPT !.iterating = FALSE])
    /\ UNCHANGED <<committed, queueVars, otherVars, accounted, disruptions>>

\* The processors delete the event, pass it on, or report errors, which
\* process_pipeline enqueues itself.
ProcessEvent(p) ==
    /\ At(p, "processing")
    /\ \/ /\ Become(p, To(p, "storing"))
          /\ UNCHANGED accounted
       \/ /\ Become(p, To(p, "finishing"))
          /\ Account({Current(p)})
       \/ /\ Become(p, [To(p, "reporting") EXCEPT !.items = <<Current(p)>>])
          /\ UNCHANGED accounted
    /\ UNCHANGED <<committed, queueVars, otherVars, disruptions>>

\* _store_extra_data raises a CriticalOutputError about extra data, of this
\* event or another: the handler reports that data, and the event itself is
\* never stored.
ExtraDataFails(p) ==
    /\ At(p, "storing")
    /\ Account({Current(p)})
    /\ Become(p, [To(p, "reported") EXCEPT !.handling = TRUE])
    /\ UNCHANGED <<committed, queueVars, otherVars, disruptions>>

\* _store_event: the event joins the backlog; a full one is written.
StoreEvent(p) ==
    LET B == process[p].backlog \cup {Current(p)}
    IN  /\ At(p, "storing")
        /\ IF Cardinality(B) >= BacklogSize
           THEN Write(p, B, "finishing")
           ELSE /\ Become(p, [To(p, "finishing") EXCEPT !.backlog = B])
                /\ UNCHANGED <<committed, queueVars, otherVars, accounted, disruptions>>

(***************************************************************************)
(* enqueue_error.                                                          *)
(***************************************************************************)

\* An item gets a slot of the error queue; after the last the callback follows.
PutItem(p) ==
    /\ At(p, "reporting")
    /\ HasErrorQueue /\ HasSlot
    /\ slots' = slots + 1
    /\ LET left == Tail(process[p].items)
       IN  Become(p, [To(p, IF left = <<>> THEN "reported" ELSE "reporting") EXCEPT
                        !.items = left, !.transit = Append(@, Head(process[p].items))])
    /\ UNCHANGED <<committed, pipe, otherVars, accounted, disruptions>>

\* No error queue, or 0.1 s without a free slot: the items that are left are
\* dropped with a log message.
DropItems(p) ==
    /\ At(p, "reporting")
    /\ ~ (HasErrorQueue /\ HasSlot)
    /\ Account(ToSet(process[p].items))
    /\ Become(p, [To(p, "reported") EXCEPT !.items = <<>>])
    /\ UNCHANGED <<committed, queueVars, otherVars, disruptions>>

\* The process's feeder thread.
Feed(p) ==
    /\ Alive(p) /\ process[p].transit # <<>> /\ ~ PipeFull
    /\ pipe' = Append(pipe, Head(process[p].transit))
    /\ Become(p, [process[p] EXCEPT !.transit = Tail(@)])
    /\ UNCHANGED <<committed, slots, otherVars, accounted, disruptions>>

(***************************************************************************)
(* batch_finished_callback, the broker, and the end of the process.        *)
(***************************************************************************)

\* store_offsets of the last valid record.
Callback(p) ==
    /\ process[p].state \in {"finishing", "reported"}
    /\ Become(p, [To(p, "idle") EXCEPT !.stored = process[p].last, !.handling = FALSE])
    /\ UNCHANGED <<committed, queueVars, otherVars, accounted, disruptions>>

\* store_offsets fails: an InputWarning, which process_pipeline logs, but
\* which ends the process when it is raised in the error handler.
CallbackFails(p) ==
    /\ process[p].state \in {"finishing", "reported"}
    /\ Become(p, To(p, IF process[p].handling THEN "failing" ELSE "idle"))
    /\ UNCHANGED <<committed, queueVars, otherVars, accounted, disruptions>>

\* librdkafka commits the stored offset in the background.
AutoCommit(p) ==
    /\ Alive(p) /\ process[p].stored > committed[p]
    /\ committed' = [committed EXCEPT ![p] = process[p].stored]
    /\ UNCHANGED <<process, queueVars, otherVars, accounted, disruptions>>

\* The process leaves the loop: its consumer is closed, and its feeder thread
\* has what is in transit.
LeavesLoop(p) ==
    /\ At(p, "idle") /\ ~ process[p].iterating
    /\ Become(p, [NewProcess EXCEPT !.state = "leaving", !.transit = process[p].transit])

CommitUpTo(p, offset) ==
    committed' = [committed EXCEPT ![p] = IF offset > @ THEN offset ELSE @]

\* Mutant: the outputs are not shut down, the backlog is left.
ShutDownWithoutFlush(p) ==
    /\ LeavesLoop(p)
    /\ CommitUpTo(p, process[p].last)
    /\ UNCHANGED <<queueVars, otherVars, accounted, disruptions>>

\* close() revokes the partition, which calls batch_finished_callback, and
\* commits; the output then writes its backlog.  What it cannot write is
\* gone: the exception is swallowed.
ShutDown(p) ==
    /\ LeavesLoop(p)
    /\ CommitUpTo(p, process[p].last)
    /\ Account(process[p].backlog)
    /\ UNCHANGED <<queueVars, otherVars, disruptions>>

\* The callback fails in close(), which raises its InputWarning when it has
\* committed what was stored before: the outputs are not shut down, and
\* nobody writes the backlog.
InputShutDownFails(p) ==
    /\ LeavesLoop(p)
    /\ CommitUpTo(p, process[p].stored)
    /\ Account({e \in process[p].backlog : IsCommitted(e)'})
    /\ UNCHANGED <<queueVars, otherVars, disruptions>>

\* What the process p holds in memory.
InMemory(p) == process[p].backlog \cup ToSet(process[p].items) \cup ToSet(process[p].transit)

\* The process dies, and what it has lost is read again if not yet committed.
Die(p, lost) ==
    /\ Account({e \in lost : IsCommitted(e)})
    /\ Become(p, Gone("dead"))
    /\ UNCHANGED <<committed, queueVars, otherVars>>

\* The feeder thread is done, and the process ends.
Leave(p) ==
    /\ process[p].state \in Exiting /\ process[p].transit = <<>>
    /\ \/ /\ At(p, "leaving")
          /\ Become(p, Gone("exited"))
          /\ UNCHANGED <<committed, queueVars, otherVars, accounted>>
       \/ At(p, "failing") /\ Die(p, process[p].backlog)
    /\ UNCHANGED disruptions

\* The process is killed.
Crash(p) ==
    /\ process[p].state \notin {"created"} \cup ProcessEnded
    /\ Disruption
    /\ Die(p, InMemory(p))

\* The steps a process takes of its own accord, and those done to it.
Works(p) ==
    \/ Begin(p) \/ SetUp(p) \/ ScheduledWrite(p) \/ GetNext(p) \/ ProcessEvent(p)
    \/ StoreEvent(p) \/ PutItem(p) \/ DropItems(p) \/ Callback(p) \/ ShutDown(p)
    \/ Leave(p)
PipelineStep(p) ==
    \/ Works(p) \/ SetUpFails(p) \/ SourceFails(p) \/ ExtraDataFails(p)
    \/ Feed(p) \/ AutoCommit(p) \/ CallbackFails(p) \/ InputShutDownFails(p) \/ Crash(p)
=============================================================================
