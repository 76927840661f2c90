--------------------------- MODULE ErrorListener ----------------------------
(***************************************************************************)
(* The error queue of the classic pipelines and OutputQueueListener of     *)
(* logprep/framework/pipeline_manager.py, the process that takes failed    *)
(* events out of it and stores them in the error output.                   *)
(*                                                                         *)
(* The queue is a multiprocessing queue: a put takes a slot and returns,   *)
(* and the feeder thread of the putting process hands the item to the      *)
(* shared pipe later; it waits while the pipe is full.  Only the pipe is   *)
(* seen by empty(), so the listener, which puts a 1 and waits until the    *)
(* queue is empty, may go on before the 1 has been in the pipe, or find an *)
(* error item in place of its 1.  A process killed in the middle of a      *)
(* write to the pipe, which leaves half an item and a lock, is not         *)
(* modelled.                                                               *)
(***************************************************************************)
EXTENDS Integers, SequencesExt

CONSTANTS
    ProcessCount,       \* process_count: the pipelines, one partition each
    EventCount,         \* bound: the events of a partition
    ErrorQueueSize,     \* error_backlog_size
    PipeSize,           \* the items the pipe of the operating system holds
    MaxDisruptions      \* bound: kills of a process and changes of the configuration

ASSUME ErrorListenerAssumption ==
    /\ ProcessCount \in Nat \ {0} /\ EventCount \in Nat
    /\ ErrorQueueSize \in Nat \ {0} /\ PipeSize \in Nat \ {0}
    /\ MaxDisruptions \in Nat

Processes == 1 .. ProcessCount
Events == Processes \X (1 .. EventCount)    \* a partition and an offset
Ping == <<0, 0>>                            \* the "1" that synchronizes
Sentinel == <<0, 1>>

VARIABLES
    pipe,           \* the items get and empty see
    slots,          \* slots taken and not yet given back by a get
    ping,           \* the listener's 1 has not reached the pipe
    listener,       \* the listener process
    errorBacklog,   \* the error output's events that are not written yet
    accounted,      \* history: events delivered, deleted, in the error output or lost,
                    \* since they were read last
    disruptions     \* kills and changes of the configuration so far

queueVars == <<pipe, slots>>
listenerVars == <<ping, listener, errorBacklog>>

HasErrorQueue == listener # "absent"
ListenerEnded == {"ended", "dead"}

ListenerTypeOK ==
    /\ pipe \in Seq(Events \cup {Ping, Sentinel})
    /\ slots \in 0 .. ErrorQueueSize
    /\ ping \in BOOLEAN
    /\ listener \in {"absent", "setup", "syncing", "ready", "getting", "draining"}
                        \cup ListenerEnded
    /\ errorBacklog \subseteq Events
    /\ accounted \subseteq Events
    /\ disruptions \in 0 .. MaxDisruptions

ListenerInit ==
    /\ pipe = <<>> /\ slots = 0 /\ ping = FALSE
    /\ listener \in {"absent", "setup"}     \* error_output configured or not
    /\ errorBacklog = {}
    /\ accounted = {} /\ disruptions = 0

\* Mutant: the queue takes one item more than its size.
HasSlotForOneMore == slots <= ErrorQueueSize
HasSlot == slots < ErrorQueueSize
PipeFull == Len(pipe) >= PipeSize

Disruption == disruptions < MaxDisruptions /\ disruptions' = disruptions + 1

(***************************************************************************)
(* get_output_instance: the handshake.                                     *)
(***************************************************************************)

\* output.setup returns, and a 1 is put.
ListenerSetsUp ==
    /\ listener = "setup"
    /\ HasSlot
    /\ slots' = slots + 1 /\ ping' = TRUE
    /\ listener' = "syncing"
    /\ UNCHANGED <<pipe, errorBacklog, accounted, disruptions>>

\* output.setup exits: the sentinel is put, and the process ends with it.
\* Any other exception ends the process without a word.
ListenerSetupFails ==
    /\ listener = "setup"
    /\ \/ /\ HasSlot
          /\ slots' = slots + 1 /\ pipe' = Append(pipe, Sentinel)
       \/ UNCHANGED queueVars
    /\ listener' = "dead"
    /\ UNCHANGED <<ping, errorBacklog, accounted, disruptions>>

\* The feeder thread hands the 1 to the pipe.
PingArrives ==
    /\ ping /\ ~ PipeFull
    /\ ping' = FALSE /\ pipe' = Append(pipe, Ping)
    /\ UNCHANGED <<slots, listener, errorBacklog, accounted, disruptions>>

\* queue.empty() is true.
ListenerSynced ==
    /\ listener = "syncing"
    /\ pipe = <<>>
    /\ listener' = "ready"
    /\ UNCHANGED <<queueVars, ping, errorBacklog, accounted, disruptions>>

(***************************************************************************)
(* _listen and _drain_queue.                                               *)
(***************************************************************************)

\* The end of the events E: they have reached their destination, or are lost
\* in one of the ways the code leaves open.
Account(E) == accounted' = accounted \cup E

\* The output writes its backlog, now B; what fails is logged at most.
WriteErrors(B) == errorBacklog' = {} /\ Account(B)

\* run_pending_tasks, once before every get: the output's _write_backlog, if
\* it is due.  An exception is not caught here: the process ends.
ListenerRunsTasks ==
    /\ listener = "ready" /\ errorBacklog # {}
    /\ \/ /\ listener' = "getting"
          /\ UNCHANGED <<errorBacklog, accounted>>
       \/ /\ WriteErrors(errorBacklog)
          /\ listener' \in {"ready", "dead"}
    /\ UNCHANGED <<queueVars, ping, disruptions>>

\* target(item): the event joins the backlog, which may be due for writing;
\* an exception is caught, and logged with this item only.
StoreError(e) ==
    \/ /\ errorBacklog' = errorBacklog \cup {e}
       /\ UNCHANGED accounted
    \/ WriteErrors(errorBacklog \cup {e})

Got == Head(pipe)
Take == /\ pipe # <<>>
        /\ pipe' = Tail(pipe) /\ slots' = slots - 1

\* Mutant: the sentinel is an item like any other.
AfterAnyItem == "ready"
AfterItem == IF Got = Sentinel THEN "draining" ELSE "ready"

\* get; without a backlog no task precedes it.
ListenerGets ==
    /\ listener = "getting" \/ (listener = "ready" /\ errorBacklog = {})
    /\ Take
    /\ IF Got \in {Ping, Sentinel}
       THEN UNCHANGED <<errorBacklog, accounted>>
       ELSE StoreError(Got)
    /\ listener' = AfterItem
    /\ UNCHANGED <<ping, disruptions>>

\* After the sentinel, until the queue is empty.
ListenerDrains ==
    /\ listener = "draining"
    /\ Take
    /\ IF Got \in {Ping, Sentinel}
       THEN UNCHANGED <<errorBacklog, accounted>>
       ELSE StoreError(Got)
    /\ UNCHANGED <<ping, listener, disruptions>>

\* component.shut_down writes the backlog.
ListenerEnds ==
    /\ listener = "draining"
    /\ pipe = <<>>
    /\ WriteErrors(errorBacklog)
    /\ listener' = "ended"
    /\ UNCHANGED <<queueVars, ping, disruptions>>

\* The process is killed; its backlog is gone.
ListenerCrashes ==
    /\ listener \notin {"absent"} \cup ListenerEnded
    /\ Disruption
    /\ listener' = "dead" /\ ping' = FALSE
    /\ WriteErrors(errorBacklog)
    /\ UNCHANGED queueVars

ListenerStep ==
    \/ ListenerSetsUp \/ ListenerSetupFails \/ PingArrives \/ ListenerSynced
    \/ ListenerRunsTasks \/ ListenerGets \/ ListenerDrains \/ ListenerEnds \/ ListenerCrashes
=============================================================================
