------------------------- MODULE CircuitBreakerProofs -------------------------
(***************************************************************************)
(* Proofs about the circuit breaker: that there is a single probe, that    *)
(* the sends under way never exceed the concurrency, and that failures are *)
(* not counted twice.                                                      *)
(***************************************************************************)
EXTENDS CircuitBreaker, TLAPS, SequenceTheorems, FiniteSetTheorems

(***************************************************************************)
(* Queues of callers.                                                      *)
(***************************************************************************)
NoRepeats(q) == \A i, j \in 1 .. Len(q) : q[i] = q[j] => i = j

\* x is one of the first n members of q; one of all of them.
Among(q, n, x) == \E i \in 1 .. Len(q) : i <= n /\ q[i] = x
InQueue(q, x) == \E i \in 1 .. Len(q) : q[i] = x

\* What is left of a sequence without its k-th element.
LEMMA RemoveAtElements ==
    ASSUME NEW S, NEW s \in Seq(S), NEW k \in 1 .. Len(s)
    PROVE  /\ RemoveAt(s, k) \in Seq(S)
           /\ Len(RemoveAt(s, k)) = Len(s) - 1
           /\ \A i \in 1 .. Len(s) - 1 :
                RemoveAt(s, k)[i] = IF i < k THEN s[i] ELSE s[i + 1]
<1> DEFINE left == SubSeq(s, 1, k - 1)
           right == SubSeq(s, k + 1, Len(s))
<1>1. Len(s) \in Nat /\ \A i \in 1 .. Len(s) : s[i] \in S
    BY LenProperties, ElementOfSeq
<1>2. /\ left \in Seq(S)
      /\ Len(left) = k - 1
      /\ \A i \in 1 .. k - 1 : left[i] = s[i]
    <2>1. \A i \in 1 .. k - 1 : s[i] \in S
        BY <1>1
    <2> QED
        BY <1>1, <2>1, SubSeqProperties
<1>3. /\ right \in Seq(S)
      /\ Len(right) = Len(s) - k
      /\ \A i \in 1 .. Len(s) - k : right[i] = s[k + i]
    <2>1. \A i \in k + 1 .. Len(s) : s[i] \in S
        BY <1>1
    <2>2. /\ right \in Seq(S)
          /\ Len(right) = IF k + 1 <= Len(s) THEN Len(s) - (k + 1) + 1 ELSE 0
          /\ \A i \in 1 .. Len(s) - (k + 1) + 1 : right[i] = s[(k + 1) + i - 1]
        BY <1>1, <2>1, SubSeqProperties
    <2> QED
        BY <1>1, <2>2
<1>4. RemoveAt(s, k) = left \o right
    BY DEF RemoveAt
<1> HIDE DEF left, right
<1>5. /\ left \o right \in Seq(S)
      /\ Len(left \o right) = Len(left) + Len(right)
      /\ \A i \in 1 .. Len(left) + Len(right) : (left \o right)[i] =
            IF i <= Len(left) THEN left[i] ELSE right[i - Len(left)]
    BY <1>2, <1>3, ConcatProperties
<1>6. ASSUME NEW i \in 1 .. Len(s) - 1
      PROVE  (left \o right)[i] = IF i < k THEN s[i] ELSE s[i + 1]
    <2>1. CASE i < k
        BY <1>1, <1>2, <1>3, <1>5, <2>1
    <2>2. CASE ~ (i < k)
        <3>1. i - Len(left) \in 1 .. Len(s) - k /\ k + (i - Len(left)) = i + 1
            BY <1>1, <1>2, <2>2
        <3>2. (left \o right)[i] = right[i - Len(left)]
            BY <1>1, <1>2, <1>3, <1>5, <2>2
        <3> QED
            BY <1>3, <2>2, <3>1, <3>2
    <2> QED
        BY <2>1, <2>2
<1> QED
    BY <1>1, <1>2, <1>3, <1>4, <1>5, <1>6

\* A caller that leaves a queue makes nobody else leave or fall back.
LEMMA WithoutSpec ==
    ASSUME NEW S, NEW q \in Seq(S), NoRepeats(q), NEW c
    PROVE  /\ Without(q, c) \in Seq(S)
           /\ NoRepeats(Without(q, c))
           /\ \A x : InQueue(Without(q, c), x) <=> InQueue(q, x) /\ x # c
           /\ \A x, n : n \in Nat /\ Among(q, n, x) /\ x # c => Among(Without(q, c), n, x)
<1>1. Len(q) \in Nat
    BY LenProperties
<1>2. c \in ToSet(q) <=> InQueue(q, c)
    BY <1>1 DEF ToSet, InQueue
<1>3. CASE ~ InQueue(q, c)
    BY <1>2, <1>3 DEF Without, InQueue
<1>4. CASE InQueue(q, c)
    <2> DEFINE k == CHOOSE i \in 1 .. Len(q) : q[i] = c
               r == RemoveAt(q, k)
    <2>1. k \in 1 .. Len(q) /\ q[k] = c
        BY <1>4 DEF InQueue
    <2>2. Without(q, c) = r
        BY <1>2, <1>4 DEF Without
    <2> HIDE DEF k
    <2>3. /\ r \in Seq(S)
          /\ Len(r) = Len(q) - 1
          /\ \A i \in 1 .. Len(q) - 1 : r[i] = IF i < k THEN q[i] ELSE q[i + 1]
        BY <2>1, RemoveAtElements
    <2> HIDE DEF r
    <2>4. NoRepeats(r)
        BY <1>1, <2>1, <2>3 DEF NoRepeats
    <2>5. ASSUME NEW i \in 1 .. Len(r)
          PROVE  r[i] # c /\ InQueue(q, r[i])
        <3>1. CASE i < k
            BY <1>1, <2>1, <2>3, <3>1 DEF NoRepeats, InQueue
        <3>2. CASE ~ (i < k)
            <4>1. i + 1 \in 1 .. Len(q) /\ i + 1 # k /\ r[i] = q[i + 1]
                BY <1>1, <2>1, <2>3, <3>2
            <4> QED
                BY <2>1, <4>1 DEF NoRepeats, InQueue
        <3> QED
            BY <3>1, <3>2
    <2>6. ASSUME NEW j \in 1 .. Len(q), q[j] # c
          PROVE  \E i \in 1 .. Len(r) : i <= j /\ r[i] = q[j]
        <3>1. CASE j < k
            BY <1>1, <2>1, <2>3, <3>1
        <3>2. CASE ~ (j < k)
            <4>1. j - 1 \in 1 .. Len(r) /\ ~ (j - 1 < k) /\ (j - 1) + 1 = j
                BY <1>1, <2>1, <2>3, <2>6, <3>2
            <4> QED
                BY <2>3, <4>1
        <3> QED
            BY <3>1, <3>2
    <2>7. Len(r) \in Nat
        BY <2>3, LenProperties
    <2>8. \A x : InQueue(r, x) <=> InQueue(q, x) /\ x # c
        BY <2>5, <2>6 DEF InQueue
    <2>9. ASSUME NEW x, NEW n \in Nat, Among(q, n, x), x # c
          PROVE  Among(r, n, x)
        <3>1. PICK j \in 1 .. Len(q) : j <= n /\ q[j] = x
            BY <2>9 DEF Among
        <3>2. PICK i \in 1 .. Len(r) : i <= j /\ r[i] = x
            BY <2>6, <2>9, <3>1
        <3> QED
            BY <1>1, <2>7, <3>1, <3>2 DEF Among
    <2> QED
        BY <2>2, <2>3, <2>4, <2>8, <2>9
<1> QED
    BY <1>3, <1>4

\* Nor does one that joins it.
LEMMA JoinSpec ==
    ASSUME NEW S, NEW q \in Seq(S), NoRepeats(q), NEW c \in S, ~ InQueue(q, c)
    PROVE  /\ Append(q, c) \in Seq(S)
           /\ NoRepeats(Append(q, c))
           /\ \A x : InQueue(Append(q, c), x) <=> InQueue(q, x) \/ x = c
           /\ \A x, n : Among(q, n, x) => Among(Append(q, c), n, x)
<1> DEFINE r == Append(q, c)
<1>1. /\ Len(q) \in Nat
      /\ r \in Seq(S)
      /\ Len(r) = Len(q) + 1
      /\ \A i \in 1 .. Len(q) : r[i] = q[i]
      /\ r[Len(q) + 1] = c
    BY LenProperties, AppendProperties
<1> HIDE DEF r
<1>2. NoRepeats(r)
    BY <1>1 DEF NoRepeats, InQueue
<1>3. \A x : InQueue(r, x) <=> InQueue(q, x) \/ x = c
    BY <1>1 DEF InQueue
<1>4. \A x, n : Among(q, n, x) => Among(r, n, x)
    BY <1>1 DEF Among
<1> QED
    BY <1>1, <1>2, <1>3, <1>4 DEF r

(***************************************************************************)
(* The inductive invariant: who is in which queue, and who owns it.        *)
(***************************************************************************)
ProbeStates == {"backoff", "waitProbe", "probing"}
LockStates == ProbeStates \cup {"waitLock"}
SendStates == {"sending", "probing"}
SlotStates == SendStates \cup {"waitSend", "waitProbe"}

\* A queue whose members are the callers in some states, those in some of
\* these states being among its first n members.
QueueInv(q, n, members, owners, p) ==
    /\ NoRepeats(q)
    /\ \A c \in Callers :
        /\ InQueue(q, c) <=> p[c] \in members
        /\ p[c] \in owners => Among(q, n, c)

LockInv == QueueInv(probeLock, 1, LockStates, ProbeStates, pc)
SlotInv == QueueInv(sendSlots, Concurrency, SlotStates, SendStates, pc)

BrokenSendsAreProbes == \A c \in sinceBroken : pc[c] = "probing"

IInv == TypeOK /\ LockInv /\ SlotInv /\ BrokenSendsAreProbes /\ CountsConsecutiveFailures

\* Caller c changes its state from p[c] to t, and queue q becomes r: c leaves
\* it, joins it, goes to its end or keeps its place, as t demands.
QueueMove(q, r, n, members, owners, p, c, t) ==
    \/ r = Without(q, c) /\ t \notin members
    \/ r = Append(q, c) /\ p[c] \notin members /\ t \in members \ owners
    \/ r = Append(Without(q, c), c) /\ t \in members \ owners
    \/ r = q /\ (p[c] \in members <=> t \in members) /\ (t \in owners => Among(q, n, c))

LEMMA QueueStep ==
    ASSUME NEW q \in Seq(Callers), NEW n \in Nat, NEW members, NEW owners,
           owners \subseteq members,
           NEW p \in [Callers -> PCs], QueueInv(q, n, members, owners, p),
           NEW c \in Callers, NEW s \in PCs, NEW r,
           QueueMove(q, r, n, members, owners, p, c, s)
    PROVE  /\ r \in Seq(Callers)
           /\ QueueInv(r, n, members, owners, [p EXCEPT ![c] = s])
<1> DEFINE w == Without(q, c)
           np == [p EXCEPT ![c] = s]
<1>1. /\ NoRepeats(q)
      /\ \A d \in Callers : /\ InQueue(q, d) <=> p[d] \in members
                            /\ p[d] \in owners => Among(q, n, d)
    BY DEF QueueInv
<1>2. /\ w \in Seq(Callers)
      /\ NoRepeats(w)
      /\ \A x : InQueue(w, x) <=> InQueue(q, x) /\ x # c
      /\ \A x : Among(q, n, x) /\ x # c => Among(w, n, x)
    BY <1>1, WithoutSpec
<1>3. np[c] = s /\ \A d \in Callers \ {c} : np[d] = p[d]
    OBVIOUS
<1> HIDE DEF w, np
<1>4. CASE r = w /\ s \notin members
    BY <1>1, <1>2, <1>3, <1>4 DEF QueueInv
<1>5. CASE r = Append(q, c) /\ p[c] \notin members /\ s \in members \ owners
    <2>1. /\ r \in Seq(Callers)
          /\ NoRepeats(r)
          /\ \A x : InQueue(r, x) <=> InQueue(q, x) \/ x = c
          /\ \A x : Among(q, n, x) => Among(r, n, x)
        BY <1>1, <1>5, JoinSpec
    <2> QED
        BY <1>1, <1>3, <1>5, <2>1 DEF QueueInv
<1>6. CASE r = Append(w, c) /\ s \in members \ owners
    <2>1. ~ InQueue(w, c)
        BY <1>2
    <2>2. /\ r \in Seq(Callers)
          /\ NoRepeats(r)
          /\ \A x : InQueue(r, x) <=> InQueue(w, x) \/ x = c
          /\ \A x : Among(w, n, x) => Among(r, n, x)
        BY <1>2, <1>6, <2>1, JoinSpec
    <2> QED
        BY <1>1, <1>2, <1>3, <1>6, <2>2 DEF QueueInv
<1>7. CASE r = q /\ (p[c] \in members <=> s \in members) /\ (s \in owners => Among(q, n, c))
    BY <1>1, <1>3, <1>7 DEF QueueInv
<1> QED
    BY <1>4, <1>5, <1>6, <1>7 DEF QueueMove, w, np

LEMMA InitInv == BreakerInit => IInv
<1> SUFFICES ASSUME BreakerInit PROVE IInv
    OBVIOUS
<1> USE BreakerAssumption
<1>1. TypeOK
    BY DEF BreakerInit, TypeOK, PCs, Idle, Outcomes
<1>2. LockInv /\ SlotInv
    BY DEF BreakerInit, LockInv, SlotInv, QueueInv, NoRepeats, InQueue, Among, LockStates,
           SlotStates, ProbeStates, SendStates, Idle
<1>3. BrokenSendsAreProbes /\ CountsConsecutiveFailures
    BY DEF BreakerInit, BrokenSendsAreProbes, CountsConsecutiveFailures, Healthy
<1> QED
    BY <1>1, <1>2, <1>3 DEF IInv

LockMove(c, t) == QueueMove(probeLock, probeLock', 1, LockStates, ProbeStates, pc, c, t)
SlotMove(c, t) ==
    QueueMove(sendSlots, sendSlots', Concurrency, SlotStates, SendStates, pc, c, t)

\* Both queues after a step of c that moves it properly in both.
LEMMA QueuesStep ==
    ASSUME IInv, NEW c \in Callers, NEW s \in PCs, pc' = [pc EXCEPT ![c] = s],
           LockMove(c, s), SlotMove(c, s)
    PROVE  /\ probeLock' \in Seq(Callers) /\ sendSlots' \in Seq(Callers)
           /\ pc' \in [Callers -> PCs]
           /\ LockInv' /\ SlotInv'
<1>1. pc \in [Callers -> PCs] /\ probeLock \in Seq(Callers) /\ sendSlots \in Seq(Callers)
    BY DEF IInv, TypeOK
<1>2. probeLock' \in Seq(Callers) /\ QueueInv(probeLock', 1, LockStates, ProbeStates, pc')
    <2>1. ProbeStates \subseteq LockStates
        BY DEF LockStates
    <2>2. QueueInv(probeLock, 1, LockStates, ProbeStates, pc)
        BY DEF IInv, LockInv
    <2> QED
        BY <1>1, <2>1, <2>2, QueueStep DEF LockMove
<1>3. sendSlots' \in Seq(Callers) /\ QueueInv(sendSlots', Concurrency, SlotStates, SendStates, pc')
    <2>1. SendStates \subseteq SlotStates
        BY DEF SlotStates
    <2>2. QueueInv(sendSlots, Concurrency, SlotStates, SendStates, pc) /\ Concurrency \in Nat
        BY BreakerAssumption DEF IInv, SlotInv
    <2> QED
        BY <1>1, <2>1, <2>2, QueueStep DEF SlotMove
<1> QED
    BY <1>1, <1>2, <1>3 DEF LockInv, SlotInv

\* What every step but a start of a send leaves of sinceBroken: the sends of
\* others, and c's own only as long as c is probing.
LEMMA BrokenStep ==
    ASSUME IInv, NEW c \in Callers, NEW s \in PCs, pc' = [pc EXCEPT ![c] = s],
           sinceBroken' \in SUBSET Callers,
           sinceBroken' \subseteq sinceBroken \cup {c},
           c \in sinceBroken' => s = "probing"
    PROVE  BrokenSendsAreProbes'
    BY DEF IInv, TypeOK, BrokenSendsAreProbes

\* The end of a call, and going back to the lock, move c properly.
LEMMA EndCallMoves ==
    ASSUME NEW c \in Callers, NEW how, EndCall(c, how)
    PROVE  pc' = [pc EXCEPT ![c] = Idle] /\ LockMove(c, Idle) /\ SlotMove(c, Idle)
    BY DEF EndCall, LockMove, SlotMove, QueueMove, LockStates, SlotStates, ProbeStates,
           SendStates, Idle

LEMMA RequeueMoves ==
    ASSUME NEW c \in Callers, Requeue(c)
    PROVE  pc' = [pc EXCEPT ![c] = "waitLock"] /\ LockMove(c, "waitLock") /\ SlotMove(c, "waitLock")
    BY DEF Requeue, LockMove, SlotMove, QueueMove, LockStates, SlotStates, ProbeStates,
           SendStates

\* Every step of the breaker keeps the invariant.
LEMMA StepInv == IInv /\ [BreakerNext]_breakerVars => IInv'
<1> SUFFICES ASSUME IInv, [BreakerNext]_breakerVars PROVE IInv'
    OBVIOUS
<1> USE BreakerAssumption
<1>t. TypeOK /\ CountsConsecutiveFailures /\ BrokenSendsAreProbes
    BY DEF IInv
\* A step that moves c to s properly and records no outcome of a send.
<1>m. ASSUME NEW c \in Callers, NEW s \in PCs, pc' = [pc EXCEPT ![c] = s],
             LockMove(c, s), SlotMove(c, s),
             outcome' \in [Callers -> Outcomes],
             sinceBroken' \in SUBSET Callers,
             sinceBroken' \subseteq sinceBroken \cup {c},
             c \in sinceBroken' => s = "probing",
             failures' \in Nat, inARow' \in Nat, allFailures' \in 0 .. MaxFailures,
             CountsConsecutiveFailures'
      PROVE  IInv'
    <2>1. /\ probeLock' \in Seq(Callers) /\ sendSlots' \in Seq(Callers)
          /\ pc' \in [Callers -> PCs]
          /\ LockInv' /\ SlotInv'
        BY <1>m, QueuesStep
    <2>2. BrokenSendsAreProbes'
        BY <1>m, BrokenStep
    <2> QED
        BY <1>m, <2>1, <2>2 DEF IInv, TypeOK
<1>e. ASSUME NEW c \in Callers, NEW how \in Outcomes, EndCall(c, how)
      PROVE  /\ pc' = [pc EXCEPT ![c] = Idle] /\ LockMove(c, Idle) /\ SlotMove(c, Idle)
             /\ Idle \in PCs
             /\ outcome' \in [Callers -> Outcomes]
             /\ sinceBroken' \in SUBSET Callers
             /\ sinceBroken' \subseteq sinceBroken \cup {c}
             /\ c \notin sinceBroken'
    BY <1>t, <1>e, EndCallMoves DEF EndCall, TypeOK, PCs
<1>r. ASSUME NEW c \in Callers, Requeue(c)
      PROVE  /\ pc' = [pc EXCEPT ![c] = "waitLock"]
             /\ LockMove(c, "waitLock") /\ SlotMove(c, "waitLock")
             /\ "waitLock" \in PCs
             /\ sinceBroken' \in SUBSET Callers
             /\ sinceBroken' \subseteq sinceBroken \cup {c}
             /\ c \notin sinceBroken'
    BY <1>t, <1>r, RequeueMoves DEF Requeue, TypeOK, PCs
<1>u. ASSUME UNCHANGED <<failures, inARow, allFailures>>
      PROVE  /\ failures' \in Nat /\ inARow' \in Nat /\ allFailures' \in 0 .. MaxFailures
             /\ CountsConsecutiveFailures'
    BY <1>t, <1>u DEF TypeOK, CountsConsecutiveFailures, Healthy
\* A caller whose state lies outside the broken sends' leaves them alone.
<1>n. ASSUME NEW c \in Callers, pc[c] # "probing", UNCHANGED sinceBroken
      PROVE  /\ sinceBroken' \in SUBSET Callers
             /\ sinceBroken' \subseteq sinceBroken \cup {c}
             /\ c \notin sinceBroken'
    BY <1>t, <1>n DEF TypeOK, BrokenSendsAreProbes
<1>1. ASSUME NEW c \in Callers, Call(c) PROVE IInv'
    <2>1. outcome' \in [Callers -> Outcomes] /\ UNCHANGED <<failures, inARow, allFailures>>
        BY <1>t, <1>1 DEF Call, TypeOK, Outcomes
    <2>2. pc[c] # "probing" /\ UNCHANGED sinceBroken
        BY <1>1 DEF Call, Idle
    <2>3. CASE Healthy
        <3>1. LockMove(c, "waitSend") /\ SlotMove(c, "waitSend")
            BY <1>1, <2>3 DEF Call, LockMove, SlotMove, QueueMove, LockStates, SlotStates,
                              ProbeStates, SendStates, Idle
        <3> QED
            BY <1>1, <1>m, <1>n, <1>u, <2>1, <2>2, <2>3, <3>1 DEF Call, PCs
    <2>4. CASE ~ Healthy
        <3>1. LockMove(c, "waitLock") /\ SlotMove(c, "waitLock")
            BY <1>1, <2>4 DEF Call, LockMove, SlotMove, QueueMove, LockStates, SlotStates,
                              ProbeStates, SendStates, Idle
        <3> QED
            BY <1>1, <1>m, <1>n, <1>u, <2>1, <2>2, <2>4, <3>1 DEF Call, PCs
    <2> QED
        BY <2>3, <2>4
<1>2. ASSUME NEW c \in Callers, EnterLock(c) PROVE IInv'
    <2>1. outcome' \in [Callers -> Outcomes] /\ UNCHANGED <<failures, inARow, allFailures>>
        BY <1>t, <1>2 DEF EnterLock, TypeOK
    <2>2. pc[c] # "probing" /\ UNCHANGED sinceBroken
        BY <1>2 DEF EnterLock
    <2>3. CASE Healthy
        <3>1. LockMove(c, "waitSend") /\ SlotMove(c, "waitSend")
            BY <1>2, <2>3 DEF EnterLock, LockMove, SlotMove, QueueMove, LockStates,
                              SlotStates, ProbeStates, SendStates
        <3> QED
            BY <1>2, <1>m, <1>n, <1>u, <2>1, <2>2, <2>3, <3>1 DEF EnterLock, PCs
    <2>4. CASE ~ Healthy
        <3>1. Among(probeLock, 1, c)
            <4>1. probeLock # <<>> /\ Head(probeLock) = c /\ probeLock \in Seq(Callers)
                BY <1>t, <1>2 DEF EnterLock, OwnsLock, TypeOK
            <4>2. 1 \in 1 .. Len(probeLock) /\ probeLock[1] = c
                BY <4>1, EmptySeq, HeadTailProperties, LenProperties
            <4> QED
                BY <4>2 DEF Among
        <3>2. LockMove(c, "backoff") /\ SlotMove(c, "backoff")
            BY <1>2, <2>4, <3>1 DEF EnterLock, LockMove, SlotMove, QueueMove, LockStates,
                                    SlotStates, ProbeStates, SendStates
        <3> QED
            BY <1>2, <1>m, <1>n, <1>u, <2>1, <2>2, <2>4, <3>2 DEF EnterLock, PCs
    <2> QED
        BY <2>3, <2>4
<1>3. ASSUME NEW c \in Callers, BackoffEnds(c) PROVE IInv'
    <2>1. outcome' \in [Callers -> Outcomes] /\ UNCHANGED <<failures, inARow, allFailures>>
        BY <1>t, <1>3 DEF BackoffEnds, TypeOK
    <2>2. pc[c] # "probing" /\ UNCHANGED sinceBroken
        BY <1>3 DEF BackoffEnds
    <2>3. Among(probeLock, 1, c)
        BY <1>3 DEF BackoffEnds, IInv, LockInv, QueueInv, ProbeStates
    <2>4. LockMove(c, "waitProbe") /\ SlotMove(c, "waitProbe")
        BY <1>3, <2>3 DEF BackoffEnds, LockMove, SlotMove, QueueMove, LockStates, SlotStates,
                          ProbeStates, SendStates
    <2> QED
        BY <1>3, <1>m, <1>n, <1>u, <2>1, <2>2, <2>4 DEF BackoffEnds, PCs
<1>o. ASSUME NEW c \in Callers, OwnsSlot(c) PROVE Among(sendSlots, Concurrency, c)
    BY <1>o DEF OwnsSlot, Among
<1>4. ASSUME NEW c \in Callers, EnterProbe(c) PROVE IInv'
    <2>1. outcome' \in [Callers -> Outcomes] /\ UNCHANGED <<failures, inARow, allFailures>>
        BY <1>t, <1>4 DEF EnterProbe, TypeOK
    <2>2. sinceBroken' \in SUBSET Callers /\ sinceBroken' \subseteq sinceBroken \cup {c}
        BY <1>t, <1>4 DEF EnterProbe, StartSend, TypeOK
    <2>3. Among(probeLock, 1, c)
        BY <1>4 DEF EnterProbe, IInv, LockInv, QueueInv, ProbeStates
    <2>4. LockMove(c, "probing") /\ SlotMove(c, "probing")
        BY <1>4, <1>o, <2>3 DEF EnterProbe, StartSend, LockMove, SlotMove, QueueMove, LockStates,
                                SlotStates, ProbeStates, SendStates
    <2> QED
        BY <1>4, <1>m, <1>u, <2>1, <2>2, <2>4 DEF EnterProbe, StartSend, PCs
<1>5. ASSUME NEW c \in Callers, EnterSend(c) PROVE IInv'
    <2>1. outcome' \in [Callers -> Outcomes] /\ UNCHANGED <<failures, inARow, allFailures>>
        BY <1>t, <1>5 DEF EnterSend, TypeOK
    <2>2. CASE Healthy
        <3>1. pc[c] # "probing" /\ UNCHANGED sinceBroken
            BY <1>5, <2>2 DEF EnterSend, StartSend
        <3>2. LockMove(c, "sending") /\ SlotMove(c, "sending")
            BY <1>5, <1>o, <2>2 DEF EnterSend, StartSend, LockMove, SlotMove, QueueMove,
                                    LockStates, SlotStates, ProbeStates, SendStates
        <3> QED
            BY <1>5, <1>m, <1>n, <1>u, <2>1, <2>2, <3>1, <3>2 DEF EnterSend, StartSend, PCs
    <2>3. CASE ~ Healthy
        <3>1. Requeue(c)
            BY <1>5, <2>3 DEF EnterSend
        <3> QED
            BY <1>m, <1>r, <1>u, <2>1, <3>1
    <2> QED
        BY <2>2, <2>3
<1>6. ASSUME NEW c \in Callers, SendSucceeds(c) PROVE IInv'
    <2>1. EndCall(c, "result") /\ "result" \in Outcomes
        BY <1>6 DEF SendSucceeds, Outcomes
    <2>2. /\ failures' \in Nat /\ inARow' \in Nat /\ allFailures' \in 0 .. MaxFailures
          /\ CountsConsecutiveFailures'
        BY <1>t, <1>6 DEF SendSucceeds, TypeOK, CountsConsecutiveFailures, Healthy
    <2> QED
        BY <1>m, <1>e, <2>1, <2>2
<1>7. ASSUME NEW c \in Callers, SendFails(c) PROVE IInv'
    <2>1. /\ failures' \in Nat /\ inARow' \in Nat /\ allFailures' \in 0 .. MaxFailures
          /\ CountsConsecutiveFailures'
        BY <1>t, <1>7 DEF SendFails, FailuresAfter, TypeOK, CountsConsecutiveFailures, Healthy
    <2>2. CASE EndCall(c, "exhausted")
        BY <1>m, <1>e, <2>1, <2>2 DEF Outcomes
    <2>3. CASE Requeue(c) /\ UNCHANGED outcome
        <3>1. outcome' \in [Callers -> Outcomes]
            BY <1>t, <2>3 DEF TypeOK
        <3> QED
            BY <1>m, <1>r, <2>1, <2>3, <3>1
    <2> QED
        BY <1>7, <2>2, <2>3 DEF SendFails
<1>8. ASSUME NEW c \in Callers, SendRaises(c) PROVE IInv'
    <2>1. EndCall(c, "error") /\ "error" \in Outcomes /\ UNCHANGED <<failures, inARow, allFailures>>
        BY <1>8 DEF SendRaises, Outcomes
    <2> QED
        BY <1>m, <1>e, <1>u, <2>1
<1>9. ASSUME NEW c \in Callers, Cancel(c) PROVE IInv'
    <2>1. /\ EndCall(c, "cancelled") /\ "cancelled" \in Outcomes
          /\ UNCHANGED <<failures, inARow, allFailures>>
        BY <1>9 DEF Cancel, Outcomes
    <2> QED
        BY <1>m, <1>e, <1>u, <2>1
<1>10. CASE UNCHANGED breakerVars
    BY <1>10 DEF breakerVars, IInv, TypeOK, LockInv, SlotInv, QueueInv, NoRepeats, InQueue, Among,
                 BrokenSendsAreProbes, CountsConsecutiveFailures, Healthy
<1> QED
    BY <1>1, <1>2, <1>3, <1>4, <1>5, <1>6, <1>7, <1>8, <1>9, <1>10 DEF BreakerNext

(***************************************************************************)
(* What the invariant gives.                                               *)
(***************************************************************************)
LEMMA SingleProbeInv == IInv => SingleProbe
<1> SUFFICES ASSUME IInv, NEW c \in Callers, NEW d \in Callers,
                    pc[c] \in ProbeStates, pc[d] \in ProbeStates
             PROVE  c = d
    BY DEF SingleProbe, ProbeStates
<1>1. Among(probeLock, 1, c) /\ Among(probeLock, 1, d)
    BY DEF IInv, LockInv, QueueInv
<1>2. PICK i \in 1 .. Len(probeLock) : i <= 1 /\ probeLock[i] = c
    BY <1>1 DEF Among
<1>3. PICK j \in 1 .. Len(probeLock) : j <= 1 /\ probeLock[j] = d
    BY <1>1 DEF Among
<1>4. i = 1 /\ j = 1
    BY <1>2, <1>3, LenProperties DEF IInv, TypeOK
<1> QED
    BY <1>2, <1>3, <1>4

\* The places of the callers that send map them into 1 .. Concurrency.
LEMMA ConcurrencyInv == IInv => ConcurrencyBounded
<1> SUFFICES ASSUME IInv PROVE ConcurrencyBounded
    OBVIOUS
<1> DEFINE T == {c \in Callers : Sending(c)}
           place(c) == CHOOSE i \in 1 .. Len(sendSlots) : i <= Concurrency /\ sendSlots[i] = c
           f == [c \in T |-> place(c)]
<1>1. Concurrency \in Nat /\ Len(sendSlots) \in Nat
    BY BreakerAssumption, LenProperties DEF IInv, TypeOK
<1>2. ASSUME NEW c \in T
      PROVE  place(c) \in 1 .. Concurrency /\ sendSlots[place(c)] = c
    <2>1. Among(sendSlots, Concurrency, c)
        BY DEF IInv, SlotInv, QueueInv, Sending, SendStates
    <2>2. \E i \in 1 .. Len(sendSlots) : i <= Concurrency /\ sendSlots[i] = c
        BY <2>1 DEF Among
    <2>3. /\ place(c) \in 1 .. Len(sendSlots)
          /\ place(c) <= Concurrency /\ sendSlots[place(c)] = c
        BY <2>2
    <2> HIDE DEF place
    <2> QED
        BY <1>1, <2>3
<1> HIDE DEF place
<1>3. f \in Injection(T, 1 .. Concurrency)
    <2>1. f \in [T -> 1 .. Concurrency]
        BY <1>2
    <2>2. \A a, b \in T : f[a] = f[b] => a = b
        BY <1>2
    <2> QED
        BY <2>1, <2>2 DEF Injection, IsInjective
<1> HIDE DEF f
<1>4. IsFiniteSet(1 .. Concurrency) /\ Cardinality(1 .. Concurrency) = Concurrency
    <2>1. /\ IsFiniteSet(1 .. Concurrency)
          /\ Cardinality(1 .. Concurrency) = IF 1 > Concurrency THEN 0 ELSE Concurrency - 1 + 1
        BY <1>1, FS_Interval
    <2> QED
        BY <1>1, <2>1
<1>5. Cardinality(T) <= Concurrency
    BY <1>3, <1>4, FS_Injection
<1>6. ToSet(sendSlots) = {c \in Callers : Sending(c) \/ pc[c] \in {"waitSend", "waitProbe"}}
    <2>1. \A c \in Callers : InQueue(sendSlots, c) <=> pc[c] \in SlotStates
        BY DEF IInv, SlotInv, QueueInv
    <2>2. sendSlots \in Seq(Callers)
        BY DEF IInv, TypeOK
    <2>3. \A x : x \in ToSet(sendSlots) <=> InQueue(sendSlots, x)
        BY <2>2, LenProperties DEF ToSet, InQueue
    <2>4. \A x : InQueue(sendSlots, x) => x \in Callers
        BY <2>2, ElementOfSeq DEF InQueue
    <2>5. \A c \in Callers :
            pc[c] \in SlotStates <=> Sending(c) \/ pc[c] \in {"waitSend", "waitProbe"}
        BY DEF SlotStates, SendStates, Sending
    <2> QED
        BY <2>1, <2>3, <2>4, <2>5
<1> QED
    BY <1>5, <1>6 DEF ConcurrencyBounded

LEMMA OutageInv == IInv => OneRequestPerOutage
    BY SingleProbeInv DEF IInv, BrokenSendsAreProbes, OneRequestPerOutage, SingleProbe

LEMMA Invariance == BreakerSpec => []IInv
    BY InitInv, StepInv, PTL DEF BreakerSpec

(***************************************************************************)
(* The theorems.                                                           *)
(***************************************************************************)

\* The state of the breaker is well-formed whatever its callers do (call).
THEOREM TypeCorrect == BreakerSpec => []TypeOK
<1>1. IInv => TypeOK
    BY DEF IInv
<1> QED
    BY <1>1, Invariance, PTL

\* "One caller at a time probes", for any number of callers, slots, retries
\* and failures, and whatever is cancelled (call).
THEOREM OnlyOneProbe == BreakerSpec => []SingleProbe
    BY SingleProbeInv, Invariance, PTL

\* Never more sends than the semaphore allows, and no slot is lost (call).
THEOREM SendsAreBounded == BreakerSpec => []ConcurrencyBounded
    BY ConcurrencyInv, Invariance, PTL

\* A broken downstream system meets one new request at a time (call).
THEOREM OneRequestAtATime == BreakerSpec => []OneRequestPerOutage
    BY OutageInv, Invariance, PTL

\* No failure is counted twice and no outage forgotten (_attempt).
THEOREM FailuresAreCounted == BreakerSpec => []CountsConsecutiveFailures
<1>1. IInv => CountsConsecutiveFailures
    BY DEF IInv
<1> QED
    BY <1>1, Invariance, PTL
===============================================================================
