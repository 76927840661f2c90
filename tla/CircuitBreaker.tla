---------------------------- MODULE CircuitBreaker ----------------------------
(***************************************************************************)
(* The blocking circuit breaker of the asynchronous outputs                *)
(* (BlockingCircuitBreaker in logprep/ng/util/retry.py).                   *)
(*                                                                         *)
(* Callers are tasks of one event loop that share a breaker.  A call sends *)
(* until a send succeeds.  A semaphore limits the sends under way; while   *)
(* the circuit is broken a lock lets one caller at a time wait out the     *)
(* backoff and probe.                                                      *)
(*                                                                         *)
(* The lock and the semaphore of asyncio hand themselves to their waiters  *)
(* in order.  Each is a queue of callers: the lock belongs to its head,    *)
(* the semaphore to its first Concurrency members.  A caller that finds    *)
(* one free takes a step of its own to enter it, although the code does    *)
(* not suspend there: it may see an outcome another caller records in      *)
(* between, exactly as one that had to wait.                               *)
(***************************************************************************)
EXTENDS SequencesExt

CONSTANTS
    Callers,        \* the tasks that use the breaker, one call at a time each
    Concurrency,    \* _concurrency: sends allowed concurrently
    MaxRetries,     \* _max_retries
    MaxFailures     \* bound: sends that fail transiently

ASSUME BreakerAssumption ==
    /\ Concurrency \in Nat \ {0}
    /\ MaxRetries \in Nat
    /\ MaxFailures \in Nat

VARIABLES
    failures,       \* _failures
    pc,             \* caller -> where its call is
    outcome,        \* caller -> how its last call ended
    probeLock,      \* _limit_to_single_probe: its owner, then who waits
    sendSlots,      \* _limit_concurrent_send: its owners, then who waits
    inARow,         \* history: transient failures since the last success
    sinceBroken,    \* history: sends started while the circuit was broken
    allFailures     \* counter of the bound MaxFailures

breakerVars == <<failures, pc, outcome, probeLock, sendSlots, inARow, sinceBroken, allFailures>>

Idle == "idle"
PCs == {Idle, "waitLock", "backoff", "waitProbe", "probing", "waitSend", "sending"}
Outcomes == {"none", "result", "exhausted", "error", "cancelled"}

TypeOK ==
    /\ failures \in Nat /\ inARow \in Nat
    /\ pc \in [Callers -> PCs]
    /\ outcome \in [Callers -> Outcomes]
    /\ probeLock \in Seq(Callers)
    /\ sendSlots \in Seq(Callers)
    /\ sinceBroken \subseteq Callers
    /\ allFailures \in 0 .. MaxFailures

BreakerInit ==
    /\ failures = 0 /\ inARow = 0 /\ allFailures = 0
    /\ pc = [c \in Callers |-> Idle]
    /\ outcome = [c \in Callers |-> "none"]
    /\ probeLock = <<>> /\ sendSlots = <<>>
    /\ sinceBroken = {}

(***************************************************************************)
(* Operators.                                                              *)
(***************************************************************************)
Healthy == failures = 0

\* is_exhausted
IsExhausted(attempts) == attempts > MaxRetries

\* Mutants: whoever waits for the lock has it; one slot too many.
WantsLock(c) == c \in ToSet(probeLock)
OwnsSlotOrNext(c) == \E i \in 1 .. Len(sendSlots) : i <= Concurrency + 1 /\ sendSlots[i] = c

OwnsLock(c) == probeLock # <<>> /\ Head(probeLock) = c
OwnsSlot(c) == \E i \in 1 .. Len(sendSlots) : i <= Concurrency /\ sendSlots[i] = c

Sending(c) == pc[c] \in {"sending", "probing"}

\* c leaves the queue q, wherever it is.
Without(q, c) ==
    IF c \in ToSet(q) THEN RemoveAt(q, CHOOSE i \in 1 .. Len(q) : q[i] = c) ELSE q

\* Mutants: a probe that fails counts down; only probes are recorded.
FailuresCountedDown(c) ==
    IF pc[c] = "probing" THEN failures - 1
    ELSE IF failures > 1 THEN failures ELSE 1
FailuresOfProbes(c) == IF pc[c] = "probing" THEN failures + 1 ELSE failures

\* What _attempt makes of _failures when a send of c fails transiently.
FailuresAfter(c) ==
    IF pc[c] = "probing" THEN failures + 1
    ELSE IF failures > 1 THEN failures ELSE 1

\* Mutant: the lock is not released with the call.
EndCallKeepingLock(c, how) ==
    /\ pc' = [pc EXCEPT ![c] = Idle]
    /\ outcome' = [outcome EXCEPT ![c] = how]
    /\ probeLock' = probeLock
    /\ sendSlots' = Without(sendSlots, c)
    /\ sinceBroken' = sinceBroken \ {c}

\* The call of c is over: both "async with" blocks are left.
EndCall(c, how) ==
    /\ pc' = [pc EXCEPT ![c] = Idle]
    /\ outcome' = [outcome EXCEPT ![c] = how]
    /\ probeLock' = Without(probeLock, c)
    /\ sendSlots' = Without(sendSlots, c)
    /\ sinceBroken' = sinceBroken \ {c}

(***************************************************************************)
(* call                                                                    *)
(***************************************************************************)

\* The first look at the circuit: a healthy one is used at once.
Call(c) ==
    /\ pc[c] = Idle
    /\ IF Healthy
       THEN /\ pc' = [pc EXCEPT ![c] = "waitSend"]
            /\ sendSlots' = Append(sendSlots, c)
            /\ UNCHANGED probeLock
       ELSE /\ pc' = [pc EXCEPT ![c] = "waitLock"]
            /\ probeLock' = Append(probeLock, c)
            /\ UNCHANGED sendSlots
    /\ outcome' = [outcome EXCEPT ![c] = "none"]
    /\ UNCHANGED <<failures, inARow, sinceBroken, allFailures>>

\* With the lock, the circuit is looked at again: it may have recovered.
EnterLock(c) ==
    /\ pc[c] = "waitLock"
    /\ OwnsLock(c)
    /\ IF Healthy
       THEN /\ probeLock' = Without(probeLock, c)
            /\ sendSlots' = Append(sendSlots, c)
            /\ pc' = [pc EXCEPT ![c] = "waitSend"]
       ELSE /\ pc' = [pc EXCEPT ![c] = "backoff"]
            /\ UNCHANGED <<probeLock, sendSlots>>
    /\ UNCHANGED <<failures, outcome, inARow, sinceBroken, allFailures>>

\* The backoff is over; a probe needs a slot like every send.
BackoffEnds(c) ==
    /\ pc[c] = "backoff"
    /\ pc' = [pc EXCEPT ![c] = "waitProbe"]
    /\ sendSlots' = Append(sendSlots, c)
    /\ UNCHANGED <<failures, outcome, probeLock, inARow, sinceBroken, allFailures>>

\* A send of c starts, as state s says.
StartSend(c, s) ==
    /\ pc' = [pc EXCEPT ![c] = s]
    /\ sinceBroken' = IF Healthy THEN sinceBroken ELSE sinceBroken \cup {c}
    /\ UNCHANGED <<probeLock, sendSlots>>

\* The probe does not look at the circuit again.
EnterProbe(c) ==
    /\ pc[c] = "waitProbe"
    /\ OwnsSlot(c)
    /\ StartSend(c, "probing")
    /\ UNCHANGED <<failures, outcome, inARow, allFailures>>

\* c goes back to the top of the loop while the circuit is broken: it leaves
\* what it holds and queues for the lock.
Requeue(c) ==
    /\ pc' = [pc EXCEPT ![c] = "waitLock"]
    /\ probeLock' = Append(Without(probeLock, c), c)
    /\ sendSlots' = Without(sendSlots, c)
    /\ sinceBroken' = sinceBroken \ {c}

\* Mutant: the circuit is not looked at again.
EnterSendUnchecked(c) ==
    /\ pc[c] = "waitSend"
    /\ OwnsSlot(c)
    /\ StartSend(c, "sending")
    /\ UNCHANGED <<failures, outcome, inARow, allFailures>>

\* With a slot, the circuit is looked at again: it may have failed.
EnterSend(c) ==
    /\ pc[c] = "waitSend"
    /\ OwnsSlot(c)
    /\ IF Healthy THEN StartSend(c, "sending") ELSE Requeue(c)
    /\ UNCHANGED <<failures, outcome, inARow, allFailures>>

(***************************************************************************)
(* _attempt                                                                *)
(***************************************************************************)
SendSucceeds(c) ==
    /\ Sending(c)
    /\ failures' = 0 /\ inARow' = 0
    /\ EndCall(c, "result")
    /\ UNCHANGED allFailures

\* A transient failure is recorded.  Whoever sent, the call gives up when
\* the retries are exhausted.
SendFails(c) ==
    /\ Sending(c)
    /\ allFailures < MaxFailures
    /\ failures' = FailuresAfter(c)
    /\ inARow' = inARow + 1
    /\ allFailures' = allFailures + 1
    /\ IF IsExhausted(failures') THEN EndCall(c, "exhausted")
                                 ELSE Requeue(c) /\ UNCHANGED outcome

\* Any other exception passes through and says nothing of the circuit.
SendRaises(c) ==
    /\ Sending(c)
    /\ EndCall(c, "error")
    /\ UNCHANGED <<failures, inARow, allFailures>>

\* The task of c is cancelled at any await.
Cancel(c) ==
    /\ pc[c] # Idle
    /\ EndCall(c, "cancelled")
    /\ UNCHANGED <<failures, inARow, allFailures>>

(***************************************************************************)
(* The breaker with callers that call it again and again.                  *)
(***************************************************************************)
BreakerNext ==
    \E c \in Callers :
        \/ Call(c)
        \/ EnterLock(c)
        \/ BackoffEnds(c)
        \/ EnterProbe(c)
        \/ EnterSend(c)
        \/ SendSucceeds(c)
        \/ SendFails(c)
        \/ SendRaises(c)
        \/ Cancel(c)

BreakerSpec == BreakerInit /\ [][BreakerNext]_breakerVars

\* A task that can go on is run, the backoff timer fires, and a send comes
\* to its end (requests have a timeout).  Failures are finite by MaxFailures.
SendEnds(c) == SendSucceeds(c) \/ SendFails(c) \/ SendRaises(c)

BreakerFairness ==
    \A c \in Callers :
        /\ WF_breakerVars(EnterLock(c))
        /\ WF_breakerVars(BackoffEnds(c))
        /\ WF_breakerVars(EnterProbe(c))
        /\ WF_breakerVars(EnterSend(c))
        /\ WF_breakerVars(SendEnds(c))

FairBreakerSpec == BreakerSpec /\ BreakerFairness

(***************************************************************************)
(* Properties.                                                             *)
(***************************************************************************)

\* "One caller at a time probes": even when probes are cancelled, circuits
\* close under a waiting probe and callers queue again (call).
SingleProbe ==
    \A c, d \in Callers :
        {pc[c], pc[d]} \subseteq {"backoff", "waitProbe", "probing"} => c = d

\* The sends under way, probes included, never exceed the concurrency, and
\* no slot is lost: a send holds one, and only pending sends hold or want one
\* (call, _attempt).
ConcurrencyBounded ==
    /\ Cardinality({c \in Callers : Sending(c)}) <= Concurrency
    /\ ToSet(sendSlots) = {c \in Callers :
                            Sending(c) \/ pc[c] \in {"waitSend", "waitProbe"}}

\* A broken downstream system meets at most one new request at a time: of
\* the sends under way, one at most was started while the circuit was broken.
OneRequestPerOutage ==
    \A c, d \in Callers : {c, d} \subseteq sinceBroken => c = d

\* A late answer of an older request, a late failure or several failures of
\* one moment never make the breaker count more failures than there were
\* since the last success, nor forget that there was one: the retries are not
\* used up too early (_attempt, is_exhausted).
CountsConsecutiveFailures ==
    /\ failures <= inARow
    /\ Healthy <=> inARow = 0

\* "Work keeps draining": when the failures come to an end every call does,
\* whoever holds the lock and the slots (call).
CallsEnd == \A c \in Callers : pc[c] # Idle ~> pc[c] = Idle

\* "Beyond max_retries consecutive failures, each further failed probe raises
\* RetriesExhaustedError to its caller", "non-probes only activate failure
\* mode": a call that gives up was a probe.
OnlyProbesGiveUp ==
    [][\A c \in Callers :
        outcome[c] # "exhausted" /\ outcome'[c] = "exhausted" => pc[c] = "probing"]_breakerVars
===============================================================================
