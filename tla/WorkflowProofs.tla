--------------------------- MODULE WorkflowProofs ---------------------------
(***************************************************************************)
(* Proofs about the workflow: every event is in exactly one place, only    *)
(* settled events are acknowledged, workers end in the order of the data   *)
(* flow, a graceful shutdown leaves nothing but late flushes, and the      *)
(* workflow implements the life cycle of events.                           *)
(***************************************************************************)
EXTENDS Workflow, SequenceLemmas

\* The workers by name.
LEMMA WorkerNames ==
    /\ DOMAIN StopOrder = 1 .. 6 /\ Len(StopOrder) = 6
    /\ Workers = {"input", "processing", "extra_output", "output", "error", "acknowledge"}
    /\ BatchingWorkers = {"processing", "extra_output", "output", "error", "acknowledge"}
    /\ StopOrder[1] = "input"
    /\ \A i \in 2 .. 6 : StopOrder[i] \in BatchingWorkers
<1>1. /\ DOMAIN StopOrder = 1 .. 6 /\ Len(StopOrder) = 6
      /\ StopOrder[1] = "input" /\ StopOrder[2] = "processing" /\ StopOrder[3] = "extra_output"
      /\ StopOrder[4] = "output" /\ StopOrder[5] = "error" /\ StopOrder[6] = "acknowledge"
    BY DEF StopOrder
<1>2. 1 .. 6 = {1, 2, 3, 4, 5, 6}
    OBVIOUS
<1>3. Workers = {"input", "processing", "extra_output", "output", "error", "acknowledge"}
    BY <1>1, <1>2 DEF Workers, ToSet
<1>4. BatchingWorkers = {"processing", "extra_output", "output", "error", "acknowledge"}
    BY <1>3 DEF BatchingWorkers
<1>5. \A i \in 2 .. 6 : i \in {2, 3, 4, 5, 6}
    OBVIOUS
<1> QED
    BY <1>1, <1>3, <1>4, <1>5

(***************************************************************************)
(* Sequences in which no event occurs twice.                               *)
(***************************************************************************)
Items == Events \cup {Stop}

Once(s) == \A i, k \in DOMAIN s : s[i] = s[k] /\ s[i] \in Events => i = k

LEMMA OnceEmpty == Once(<<>>)
BY DEF Once

\* Another event at the end keeps it.
LEMMA OnceAppend ==
    ASSUME NEW s \in Seq(Items), Once(s), NEW x \in Items, x \notin ToSet(s) \/ x \notin Events
    PROVE  Once(Append(s, x))
<1>1. /\ DOMAIN s = 1 .. Len(s) /\ Len(s) \in Nat
      /\ DOMAIN Append(s, x) = 1 .. Len(s) + 1
      /\ \A i \in 1 .. Len(s) : Append(s, x)[i] = s[i]
      /\ Append(s, x)[Len(s) + 1] = x
    BY LenProperties, AppendProperties
<1>2. \A i \in 1 .. Len(s) : s[i] \in ToSet(s)
    BY <1>1 DEF ToSet
<1>3. \A i \in 1 .. Len(s) + 1 : i \in 1 .. Len(s) \/ i = Len(s) + 1
    BY <1>1
<1> QED
    BY <1>1, <1>2, <1>3 DEF Once

\* So does taking the head, which is then nowhere in the rest.
LEMMA OnceTail ==
    ASSUME NEW s \in Seq(Items), s # <<>>, Once(s)
    PROVE  Once(Tail(s)) /\ (Head(s) \in Events => Head(s) \notin ToSet(Tail(s)))
<1>1. /\ DOMAIN s = 1 .. Len(s) /\ Len(s) \in Nat \ {0} /\ Head(s) = s[1]
      /\ DOMAIN Tail(s) = 1 .. Len(s) - 1
      /\ \A i \in 1 .. Len(s) - 1 : Tail(s)[i] = s[i + 1]
    BY LenProperties, EmptySeq, HeadTailProperties
<1>2. \A i \in 1 .. Len(s) - 1 : i + 1 \in 1 .. Len(s) /\ i + 1 # 1
    BY <1>1
<1>3. Once(Tail(s))
    <2> SUFFICES ASSUME NEW i \in 1 .. Len(s) - 1, NEW k \in 1 .. Len(s) - 1,
                        s[i + 1] = s[k + 1], s[i + 1] \in Events
                 PROVE  i = k
        BY <1>1 DEF Once
    <2>1. i + 1 = k + 1
        BY <1>1, <1>2 DEF Once
    <2> QED
        BY <2>1
<1>4. ASSUME Head(s) \in Events, Head(s) \in ToSet(Tail(s)) PROVE FALSE
    <2>1. PICK i \in 1 .. Len(s) - 1 : s[i + 1] = s[1]
        BY <1>1, <1>4 DEF ToSet
    <2>2. 1 \in DOMAIN s /\ i + 1 \in DOMAIN s /\ i + 1 # 1 /\ s[1] \in Events
        BY <1>1, <1>2, <1>4
    <2> QED
        BY <2>1, <2>2 DEF Once
<1> QED
    BY <1>3, <1>4

(***************************************************************************)
(* The places of events.                                                   *)
(***************************************************************************)
Types == TypeOK /\ jobs \in [BatchingWorkers -> SUBSET Jobs]

\* The handler calls js of a worker whose loop is in the state l have events
\* to handle, of which no two have one in common; one call at most is made by
\* the loop, which waits for it.
CallsRight(js, l) ==
    \A j \in js :
        /\ j.todo # <<>> /\ Once(j.todo)
        /\ j.by = "loop" => l \in {"flushing", "draining"}
        /\ \A k \in js :
            \/ j.by = "loop" /\ k.by = "loop"
            \/ \E e \in Events : e \in ToSet(j.todo) /\ e \in ToSet(k.todo)
            => j = k
JobsRight == \A w \in BatchingWorkers : CallsRight(jobs[w], loop[w])

\* The input worker has one event in its hand while it puts it, or none.
HandRight ==
    /\ loop["input"] # "putting" => hand = {}
    /\ \A e, f \in hand : e = f

SequencesRight == \A w \in BatchingWorkers : Once(queue[w]) /\ Once(buffer[w])

Places == {<<"source", "input">>, <<"input", "input">>,
           <<"acked", "input">>, <<"given up", "input">>}
            \cup {<<"queue", w>> : w \in BatchingWorkers}
            \cup {<<"buffer", w>> : w \in BatchingWorkers}
            \cup {<<"job", w>> : w \in BatchingWorkers}

\* The event e is in the place pl.
In(e, pl) ==
    \/ pl[1] = "source" /\ e \in unread
    \/ pl[1] = "input" /\ e \in hand
    \/ pl[1] = "acked" /\ e \in acked
    \/ pl[1] = "given up" /\ e \in givenUp
    \/ pl[1] = "queue" /\ e \in ToSet(queue[pl[2]])
    \/ pl[1] = "buffer" /\ e \in ToSet(buffer[pl[2]])
    \/ pl[1] = "job" /\ e \in EventsOf(jobs[pl[2]])

\* Place -> the events in it.
At == [pl \in Places |-> {e \in Events : In(e, pl)}]

\* By a, every event is in exactly one place.
OneOf(a) == \A e \in Events : \E pl \in Places : \A ql \in Places : e \in a[ql] <=> ql = pl
OnePlace == OneOf(At)

LEMMA PlacesByName ==
    /\ <<"source", "input">> \in Places /\ <<"input", "input">> \in Places
    /\ <<"acked", "input">> \in Places /\ <<"given up", "input">> \in Places
    /\ \A w \in BatchingWorkers :
        <<"queue", w>> \in Places /\ <<"buffer", w>> \in Places /\ <<"job", w>> \in Places
    /\ \A e \in Events :
        /\ e \in At[<<"source", "input">>] <=> e \in unread
        /\ e \in At[<<"input", "input">>] <=> e \in hand
        /\ e \in At[<<"acked", "input">>] <=> e \in acked
        /\ e \in At[<<"given up", "input">>] <=> e \in givenUp
        /\ \A w \in BatchingWorkers :
            /\ e \in At[<<"queue", w>>] <=> e \in ToSet(queue[w])
            /\ e \in At[<<"buffer", w>>] <=> e \in ToSet(buffer[w])
            /\ e \in At[<<"job", w>>] <=> e \in EventsOf(jobs[w])
<1>1. /\ <<"source", "input">> \in Places /\ <<"input", "input">> \in Places
      /\ <<"acked", "input">> \in Places /\ <<"given up", "input">> \in Places
      /\ \A w \in BatchingWorkers :
            <<"queue", w>> \in Places /\ <<"buffer", w>> \in Places /\ <<"job", w>> \in Places
    BY DEF Places
<1>2. \A pl \in Places : \A e \in Events : e \in At[pl] <=> In(e, pl)
    BY DEF At
<1>3. \A e : /\ In(e, <<"source", "input">>) <=> e \in unread
             /\ In(e, <<"input", "input">>) <=> e \in hand
             /\ In(e, <<"acked", "input">>) <=> e \in acked
             /\ In(e, <<"given up", "input">>) <=> e \in givenUp
    BY DEF In
<1>4. \A e, w : /\ In(e, <<"queue", w>>) <=> e \in ToSet(queue[w])
                /\ In(e, <<"buffer", w>>) <=> e \in ToSet(buffer[w])
                /\ In(e, <<"job", w>>) <=> e \in EventsOf(jobs[w])
    BY DEF In
<1> QED
    BY <1>1, <1>2, <1>3, <1>4

\* The same of the next state.
LEMMA PlacesByNameNext ==
    \A e \in Events :
        /\ e \in At'[<<"source", "input">>] <=> e \in unread'
        /\ e \in At'[<<"input", "input">>] <=> e \in hand'
        /\ e \in At'[<<"acked", "input">>] <=> e \in acked'
        /\ e \in At'[<<"given up", "input">>] <=> e \in givenUp'
        /\ \A w \in BatchingWorkers :
            /\ e \in At'[<<"queue", w>>] <=> e \in ToSet(queue'[w])
            /\ e \in At'[<<"buffer", w>>] <=> e \in ToSet(buffer'[w])
            /\ e \in At'[<<"job", w>>] <=> e \in EventsOf(jobs'[w])
<1>1. \A pl \in Places : \A e \in Events : e \in At'[pl] <=> In(e, pl)'
    BY DEF At, Places
<1>2. \A e : /\ In(e, <<"source", "input">>)' <=> e \in unread'
             /\ In(e, <<"input", "input">>)' <=> e \in hand'
             /\ In(e, <<"acked", "input">>)' <=> e \in acked'
             /\ In(e, <<"given up", "input">>)' <=> e \in givenUp'
    BY DEF In
<1>3. \A e, w : /\ In(e, <<"queue", w>>)' <=> e \in ToSet(queue'[w])
                /\ In(e, <<"buffer", w>>)' <=> e \in ToSet(buffer'[w])
                /\ In(e, <<"job", w>>)' <=> e \in EventsOf(jobs'[w])
    BY DEF In
<1> QED
    BY <1>1, <1>2, <1>3, PlacesByName

LEMMA PlacesByKind ==
    ASSUME NEW pl \in Places
    PROVE  \/ pl = <<"source", "input">> \/ pl = <<"input", "input">>
           \/ pl = <<"acked", "input">> \/ pl = <<"given up", "input">>
           \/ \E w \in BatchingWorkers :
                pl = <<"queue", w>> \/ pl = <<"buffer", w>> \/ pl = <<"job", w>>
BY DEF Places

\* Two places have no event in common.
LEMMA Elsewhere ==
    ASSUME OnePlace, NEW e \in Events, NEW pl \in Places, NEW ql \in Places,
           e \in At[pl], e \in At[ql]
    PROVE  pl = ql
BY DEF OnePlace, OneOf

\* From a to b, the events of S stay in, leave or reach the place pl.
Stays(a, b, pl) == \A e \in Events : e \in b[pl] <=> e \in a[pl]
Leave(a, b, S, pl) == \A e \in Events : e \in b[pl] <=> e \in a[pl] /\ e \notin S
Reach(a, b, S, pl) == \A e \in Events : e \in b[pl] <=> e \in a[pl] \/ e \in S

\* From a to b, the events of S move from the places F to the place g.
Moves(a, b, S, F, g) ==
    /\ S \in SUBSET Events /\ F \in SUBSET Places /\ g \in Places \ F
    /\ \A e \in S : \E pl \in F : e \in a[pl]
    /\ \A pl \in F : Leave(a, b, S, pl)
    /\ Reach(a, b, S, g)
    /\ \A pl \in Places \ (F \cup {g}) : Stays(a, b, pl)

LEMMA Moved ==
    ASSUME OnePlace, NEW S, NEW F, NEW g, Moves(At, At', S, F, g)
    PROVE  OnePlace'
<1> SUFFICES ASSUME NEW e \in Events
             PROVE  \E pl \in Places : \A ql \in Places : e \in At'[ql] <=> ql = pl
    BY DEF OnePlace, OneOf
<1>1. PICK pl \in Places : \A ql \in Places : e \in At[ql] <=> ql = pl
    BY DEF OnePlace, OneOf
<1>2. CASE e \in S
    BY <1>1, <1>2 DEF Moves, Stays, Leave, Reach
<1>3. CASE e \notin S
    BY <1>1, <1>3 DEF Moves, Stays, Leave, Reach
<1> QED
    BY <1>2, <1>3

(***************************************************************************)
(* Handler calls come and go.                                              *)
(***************************************************************************)
LEMMA JobFields ==
    ASSUME NEW j \in Jobs
    PROVE  /\ j.by \in {"loop", "timer"} /\ j.stage \in {"call", "route"}
           /\ j.todo \in Seq(Events) /\ j.todo \in Seq(Items) /\ ToSet(j.todo) \subseteq Events
           /\ j.todo # <<>> => \E e \in Events : e \in ToSet(j.todo)
<1>1. j.by \in {"loop", "timer"} /\ j.stage \in {"call", "route"} /\ j.todo \in Seq(Events)
    BY DEF Jobs
<1>2. j.todo \in Seq(Items)
    BY <1>1, SeqMonotonic DEF Items
<1> QED
    BY <1>1, <1>2, ToSetType, ToSetHeadTail

\* A call n of a batch begins; the loop, if it calls, was waiting for items.
LEMMA CallBegins ==
    ASSUME NEW js \in SUBSET Jobs, NEW l, CallsRight(js, l), NEW n \in Jobs, NEW m,
           n.todo # <<>>, Once(n.todo), \A e \in ToSet(n.todo) : e \notin EventsOf(js),
           n.by = "loop" => l = "waiting" /\ m \in {"flushing", "draining"},
           n.by = "timer" => m = l
    PROVE  /\ CallsRight(js \cup {n}, m)
           /\ \A e : e \in EventsOf(js \cup {n}) <=> e \in EventsOf(js) \/ e \in ToSet(n.todo)
<1>1. n.by \in {"loop", "timer"} /\ \A j \in js : j.by \in {"loop", "timer"}
    BY JobFields
<1>2. \A j \in js : \A e \in ToSet(j.todo) : e \notin ToSet(n.todo)
    BY DEF EventsOf
<1> QED
    BY <1>1, <1>2 DEF CallsRight, EventsOf

\* A call j goes on as k with the same events, or fewer.
LEMMA CallGoesOn ==
    ASSUME NEW js \in SUBSET Jobs, NEW l, CallsRight(js, l), NEW j \in js, NEW k \in Jobs,
           k.by = j.by, k.todo # <<>>, Once(k.todo), ToSet(k.todo) \subseteq ToSet(j.todo)
    PROVE  /\ CallsRight((js \ {j}) \cup {k}, l)
           /\ \A e : e \in EventsOf((js \ {j}) \cup {k}) <=>
                        \/ e \in EventsOf(js) /\ e \notin ToSet(j.todo)
                        \/ e \in ToSet(k.todo)
<1>1. \A i \in js : ToSet(i.todo) \subseteq Events
    BY JobFields
<1>2. \A i \in js : \A e \in ToSet(i.todo) : e \in ToSet(j.todo) => i = j
    BY <1>1 DEF CallsRight
<1>3. CallsRight((js \ {j}) \cup {k}, l)
    BY <1>2 DEF CallsRight
<1> QED
    BY <1>2, <1>3 DEF EventsOf

\* A call j is over; if it was the loop's, the loop may be anywhere.
LEMMA CallEnds ==
    ASSUME NEW js \in SUBSET Jobs, NEW l, CallsRight(js, l), NEW j \in js, NEW m,
           j.by = "loop" \/ m = l
    PROVE  /\ CallsRight(js \ {j}, m)
           /\ \A e : e \in EventsOf(js \ {j}) <=> e \in EventsOf(js) /\ e \notin ToSet(j.todo)
<1>1. \A i \in js : ToSet(i.todo) \subseteq Events
    BY JobFields
<1>2. \A i \in js : \A e \in ToSet(i.todo) : e \in ToSet(j.todo) => i = j
    BY <1>1 DEF CallsRight
<1>3. CallsRight(js \ {j}, m)
    BY DEF CallsRight
<1> QED
    BY <1>2, <1>3 DEF EventsOf

\* The loop is cancelled, and its call with it.
LEMMA LoopCallGone ==
    ASSUME NEW js \in SUBSET Jobs, NEW l, CallsRight(js, l), NEW m
    PROVE  LET gone == {j \in js : j.by = "loop"}
           IN  /\ CallsRight(js \ gone, m)
               /\ \A e : e \in EventsOf(js \ gone) <=> e \in EventsOf(js) /\ e \notin EventsOf(gone)
<1>1. \A i \in js : ToSet(i.todo) \subseteq Events
    BY JobFields
<1>2. \A i, j \in js : \A e \in ToSet(i.todo) : e \in ToSet(j.todo) => i = j
    BY <1>1 DEF CallsRight
<1> QED
    BY <1>2 DEF CallsRight, EventsOf

(***************************************************************************)
(* Every event is in one place: the inductive invariant.                   *)
(***************************************************************************)
Placed ==
    /\ Types /\ JobsRight /\ HandRight /\ SequencesRight
    /\ OnePlace /\ TimerGuardsBuffer

LoopStates == {"waiting", "putting", "flushing", "draining"} \cup Ended

\* The type invariant again, when the queues and handler calls have theirs.
LEMMA TypesNext ==
    ASSUME Types,
           queue' \in [BatchingWorkers -> Seq(Items)],
           jobs' \in [BatchingWorkers -> SUBSET Jobs], loop' \in [Workers -> LoopStates],
           buffer' \in [BatchingWorkers -> Seq(Events)],
           timer' \in [BatchingWorkers -> SUBSET Timers],
           status' \in [Events -> Statuses],
           unread' = unread, hand' = hand \/ hand' = {},
           acked' \subseteq Events, givenUp' \subseteq Events, lateFlush' \subseteq Events,
           internalStop' = internalStop \/ internalStop' = TRUE,
           UNCHANGED stopRequested,
           phase' = phase \/ phase' = "ended", UNCHANGED group
    PROVE  Types'
BY DEF Types, TypeOK, LoopStates, Items

\* An item is put into the queue of w.
LEMMA PutInQueue ==
    ASSUME Types, SequencesRight, NEW w \in BatchingWorkers, NEW x \in Items,
           x \notin ToSet(queue[w]) \/ x \notin Events,
           queue' = [queue EXCEPT ![w] = Append(queue[w], x)]
    PROVE  /\ queue' \in [BatchingWorkers -> Seq(Items)]
           /\ \A v \in BatchingWorkers :
                /\ Once(queue'[v])
                /\ \A e : e \in ToSet(queue'[v]) <=> e \in ToSet(queue[v]) \/ (v = w /\ e = x)
<1>1. queue[w] \in Seq(Items) /\ queue \in [BatchingWorkers -> Seq(Items)]
    BY DEF Types, TypeOK, Items
<1>2. /\ Append(queue[w], x) \in Seq(Items) /\ Once(Append(queue[w], x))
      /\ ToSet(Append(queue[w], x)) = ToSet(queue[w]) \cup {x}
    BY <1>1, AppendProperties, ToSetAppend, OnceAppend DEF SequencesRight
<1>3. \A v \in BatchingWorkers :
        queue'[v] = IF v = w THEN Append(queue[w], x) ELSE queue[v]
    BY <1>1
<1> QED
    BY <1>1, <1>2, <1>3 DEF SequencesRight

\* The head of the queue of w is taken.
LEMMA TakeFromQueue ==
    ASSUME Types, SequencesRight, NEW w \in BatchingWorkers, queue[w] # <<>>,
           queue' = [queue EXCEPT ![w] = Tail(queue[w])]
    PROVE  /\ queue' \in [BatchingWorkers -> Seq(Items)]
           /\ Head(queue[w]) \in Items /\ Head(queue[w]) \in ToSet(queue[w])
           /\ \A v \in BatchingWorkers :
                /\ Once(queue'[v])
                /\ \A e \in Events : e \in ToSet(queue'[v]) <=>
                        e \in ToSet(queue[v]) /\ ~ (v = w /\ e = Head(queue[w]))
<1>1. queue[w] \in Seq(Items) /\ queue \in [BatchingWorkers -> Seq(Items)]
    BY DEF Types, TypeOK, Items
<1>2. /\ Tail(queue[w]) \in Seq(Items) /\ Head(queue[w]) \in Items
      /\ ToSet(queue[w]) = {Head(queue[w])} \cup ToSet(Tail(queue[w]))
      /\ Once(Tail(queue[w]))
      /\ Head(queue[w]) \in Events => Head(queue[w]) \notin ToSet(Tail(queue[w]))
    BY <1>1, ToSetHeadTail, OnceTail DEF SequencesRight
<1>3. \A v \in BatchingWorkers :
        queue'[v] = IF v = w THEN Tail(queue[w]) ELSE queue[v]
    BY <1>1
<1> QED
    BY <1>1, <1>2, <1>3 DEF SequencesRight

LEMMA InputReadsKeepsPlaces ==
    ASSUME Placed, NEW x \in Events, InputReads(x)
    PROVE  Placed'
<1>1. /\ x \in unread /\ unread' = unread \ {x} /\ hand = {} /\ hand' = {x}
      /\ UNCHANGED <<queue, buffer, timer, jobs, acked, givenUp>>
      /\ loop["input"] = "waiting" /\ loop' = [loop EXCEPT !["input"] = "putting"]
    BY DEF InputReads, Placed, HandRight
<1>2. Types'
    <2>1. status' \in [Events -> Statuses]
        BY DEF InputReads, Placed, Types, TypeOK, Statuses
    <2>2. loop' \in [Workers -> {"waiting", "putting", "flushing", "draining"} \cup Ended]
        BY <1>1 DEF Placed, Types, TypeOK
    <2>3. unread' \subseteq Events /\ hand' \subseteq Events
        BY <1>1 DEF Placed, Types, TypeOK
    <2>4. UNCHANGED <<queue, buffer, timer, jobs, lateFlush, acked, givenUp,
                      stopRequested, internalStop, phase, group>>
        BY DEF InputReads, orchestratorVars
    <2> QED
        BY <2>1, <2>2, <2>3, <2>4 DEF Placed, Types, TypeOK
<1>3. loop'["input"] = "putting" /\ \A w \in BatchingWorkers : loop'[w] = loop[w]
    BY <1>1, WorkerNames DEF Placed, Types, TypeOK
<1>4. JobsRight' /\ HandRight' /\ SequencesRight' /\ TimerGuardsBuffer'
    BY <1>1, <1>3 DEF Placed, JobsRight, HandRight, SequencesRight, TimerGuardsBuffer
<1>5. Moves(At, At', {x}, {<<"source", "input">>}, <<"input", "input">>)
    BY <1>1, PlacesByKind, PlacesByName, PlacesByNameNext
       DEF Moves, Stays, Leave, Reach
<1>6. OnePlace'
    BY <1>5, Moved DEF Placed
<1> QED
    BY <1>2, <1>4, <1>6 DEF Placed

LEMMA InputPutsKeepsPlaces ==
    ASSUME Placed, NEW x \in Events, InputPuts(x)
    PROVE  Placed'
<1>1. PICK t \in BatchingWorkers :
      /\ x \in hand /\ hand' = {} /\ loop["input"] = "putting"
      /\ queue' = [queue EXCEPT ![t] = Append(queue[t], x)]
      /\ \/ loop' = [loop EXCEPT !["input"] = "ended"] /\ internalStop' = TRUE
         \/ loop' = [loop EXCEPT !["input"] = "waiting"] /\ internalStop' = internalStop
      /\ UNCHANGED <<unread, status, acked, givenUp, buffer, timer, jobs, lateFlush,
                     stopRequested, phase, group>>
    BY WorkerNames DEF InputPuts, EndLoop, InputTarget
<1>2. x \notin ToSet(queue[t])
    <2>1. <<"input", "input">> # <<"queue", t>>
        OBVIOUS
    <2> QED
        BY <1>1, <2>1, Elsewhere, PlacesByName DEF Placed
<1>3. /\ queue' \in [BatchingWorkers -> Seq(Items)]
      /\ \A v \in BatchingWorkers :
            /\ Once(queue'[v])
            /\ \A e : e \in ToSet(queue'[v]) <=> e \in ToSet(queue[v]) \/ (v = t /\ e = x)
    BY <1>1, <1>2, PutInQueue DEF Placed, Items
<1>4. Types'
    <2>1. /\ Types /\ loop \in [Workers -> LoopStates]
          /\ "ended" \in LoopStates /\ "waiting" \in LoopStates
        BY DEF Placed, Types, TypeOK, LoopStates, Ended
    <2>2. loop' \in [Workers -> LoopStates]
        BY <1>1, <2>1
    <2>3. /\ jobs' \in [BatchingWorkers -> SUBSET Jobs] /\ buffer' \in [BatchingWorkers -> Seq(Events)]
          /\ timer' \in [BatchingWorkers -> SUBSET Timers] /\ status' \in [Events -> Statuses]
          /\ acked' \subseteq Events /\ givenUp' \subseteq Events /\ lateFlush' \subseteq Events
        BY <1>1, <2>1 DEF Types, TypeOK
    <2> QED
        BY <1>1, <1>3, <2>1, <2>2, <2>3, TypesNext
<1>5. loop'["input"] # "putting" /\ \A w \in BatchingWorkers : loop'[w] = loop[w]
    BY <1>1, WorkerNames DEF Placed, Types, TypeOK
<1>6. JobsRight' /\ HandRight' /\ SequencesRight' /\ TimerGuardsBuffer'
    BY <1>1, <1>3, <1>5 DEF Placed, JobsRight, HandRight, SequencesRight, TimerGuardsBuffer
<1>7. hand = {x}
    BY <1>1 DEF Placed, HandRight
<1>8. Moves(At, At', {x}, {<<"input", "input">>}, <<"queue", t>>)
    <2>1. /\ Stays(At, At', <<"source", "input">>)
          /\ Stays(At, At', <<"acked", "input">>) /\ Stays(At, At', <<"given up", "input">>)
        BY <1>1, PlacesByName, PlacesByNameNext DEF Stays
    <2>2. \A v \in BatchingWorkers : /\ Stays(At, At', <<"job", v>>)
                                     /\ Stays(At, At', <<"buffer", v>>)
        BY <1>1, PlacesByName, PlacesByNameNext DEF Stays
    <2>3. \A v \in BatchingWorkers \ {t} : Stays(At, At', <<"queue", v>>)
        BY <1>3, PlacesByName, PlacesByNameNext DEF Stays
    <2>4. Leave(At, At', {x}, <<"input", "input">>)
        BY <1>1, <1>7, PlacesByName, PlacesByNameNext DEF Leave
    <2>5. Reach(At, At', {x}, <<"queue", t>>)
        BY <1>3, PlacesByName, PlacesByNameNext DEF Reach
    <2>6. x \in At[<<"input", "input">>]
        BY <1>1, PlacesByName
    <2>7. \A pl \in Places \ {<<"input", "input">>, <<"queue", t>>} : Stays(At, At', pl)
        BY <2>1, <2>2, <2>3, PlacesByKind
    <2>8. /\ <<"input", "input">> \in Places /\ <<"queue", t>> \in Places
          /\ <<"queue", t>> # <<"input", "input">>
        BY PlacesByName
    <2> QED
        BY <2>4, <2>5, <2>6, <2>7, <2>8 DEF Moves
<1>9. OnePlace'
    BY <1>8, Moved DEF Placed
<1> QED
    BY <1>4, <1>6, <1>9 DEF Placed

\* Where events are does not change.
LEMMA NothingMoves ==
    ASSUME OnePlace,
           \A e \in Events :
            /\ e \in unread' <=> e \in unread
            /\ e \in hand' <=> e \in hand
            /\ e \in acked' <=> e \in acked
            /\ e \in givenUp' <=> e \in givenUp
            /\ \A w \in BatchingWorkers :
                /\ e \in ToSet(queue'[w]) <=> e \in ToSet(queue[w])
                /\ e \in ToSet(buffer'[w]) <=> e \in ToSet(buffer[w])
                /\ e \in EventsOf(jobs'[w]) <=> e \in EventsOf(jobs[w])
    PROVE  OnePlace'
<1>1. \A e \in Events : \A pl \in Places : e \in At'[pl] <=> e \in At[pl]
    BY PlacesByKind, PlacesByName, PlacesByNameNext
<1> QED
    BY <1>1 DEF OnePlace, OneOf

\* The input worker ends, and it has nothing in its hand.
LEMMA InputStopsKeepsPlaces ==
    ASSUME Placed, InputEnds \/ InputExhausted \/ InputCrashes
    PROVE  Placed'
<1>1. /\ loop["input"] = "waiting" /\ internalStop' = TRUE
      /\ \E how \in {"ended", "crashed"} : loop' = [loop EXCEPT !["input"] = how]
      /\ UNCHANGED <<unread, status, hand, acked, givenUp, queue, buffer, timer, jobs,
                     lateFlush, stopRequested, phase, group>>
    BY DEF InputEnds, InputExhausted, InputCrashes, EndLoop, eventVars
<1>2. Types'
    <2>1. /\ Types /\ loop \in [Workers -> LoopStates]
          /\ "ended" \in LoopStates /\ "crashed" \in LoopStates
        BY DEF Placed, Types, TypeOK, LoopStates, Ended
    <2>2. loop' \in [Workers -> LoopStates]
        BY <1>1, <2>1
    <2>3. /\ queue' \in [BatchingWorkers -> Seq(Items)]
          /\ jobs' \in [BatchingWorkers -> SUBSET Jobs] /\ buffer' \in [BatchingWorkers -> Seq(Events)]
          /\ timer' \in [BatchingWorkers -> SUBSET Timers] /\ status' \in [Events -> Statuses]
          /\ acked' \subseteq Events /\ givenUp' \subseteq Events /\ lateFlush' \subseteq Events
        BY <1>1, <2>1 DEF Types, TypeOK, Items
    <2> QED
        BY <1>1, <2>1, <2>2, <2>3, TypesNext
<1>3. loop'["input"] # "putting" /\ \A w \in BatchingWorkers : loop'[w] = loop[w]
    BY <1>1, WorkerNames DEF Placed, Types, TypeOK
<1>4. JobsRight' /\ HandRight' /\ SequencesRight' /\ TimerGuardsBuffer'
    BY <1>1, <1>3 DEF Placed, JobsRight, HandRight, SequencesRight, TimerGuardsBuffer
<1>5. OnePlace'
    BY <1>1, NothingMoves DEF Placed
<1> QED
    BY <1>2, <1>4, <1>5 DEF Placed

\* A step of one batching worker: its handler calls become js, its loop m.
LEMMA WorkerStep ==
    ASSUME Types, JobsRight, NEW w \in BatchingWorkers, NEW js \in SUBSET Jobs,
           NEW m \in LoopStates, CallsRight(js, m),
           jobs' = [jobs EXCEPT ![w] = js], loop' = [loop EXCEPT ![w] = m]
    PROVE  /\ jobs' \in [BatchingWorkers -> SUBSET Jobs] /\ loop' \in [Workers -> LoopStates]
           /\ JobsRight'
           /\ jobs'[w] = js /\ \A v \in BatchingWorkers \ {w} : jobs'[v] = jobs[v]
           /\ loop'["input"] = loop["input"]
<1>1. jobs \in [BatchingWorkers -> SUBSET Jobs] /\ loop \in [Workers -> LoopStates]
    BY DEF Types, TypeOK, LoopStates
<1>2. w \in Workers /\ w # "input" /\ "input" \in Workers /\ BatchingWorkers \subseteq Workers
    BY WorkerNames
<1>3. /\ jobs' \in [BatchingWorkers -> SUBSET Jobs] /\ loop' \in [Workers -> LoopStates]
      /\ jobs'[w] = js /\ \A v \in BatchingWorkers \ {w} : jobs'[v] = jobs[v]
      /\ loop'[w] = m /\ \A v \in Workers \ {w} : loop'[v] = loop[v]
    BY <1>1, <1>2
<1>4. \A v \in BatchingWorkers : CallsRight(jobs'[v], loop'[v])
    BY <1>2, <1>3 DEF JobsRight
<1>5. JobsRight'
    BY <1>4 DEF JobsRight, CallsRight
<1> QED
    BY <1>2, <1>3, <1>5

LEMMA NewJobRight ==
    ASSUME NEW by \in {"loop", "timer"}, NEW batch \in Seq(Events)
    PROVE  /\ NewJob(by, batch) \in Jobs
           /\ NewJob(by, batch).by = by /\ NewJob(by, batch).todo = batch
BY DEF NewJob, Jobs

LEMMA TakeKeepsPlaces ==
    ASSUME Placed, NEW w \in BatchingWorkers, Take(w)
    PROVE  Placed'
<1> DEFINE x == Head(queue[w])
           batch == Append(buffer[w], x)
           full == Len(batch) >= BatchSize[w]
           n == NewJob("loop", batch)
           timers == IF StartsTimer(batch) THEN Started(timer[w]) ELSE timer[w]
<1>1. /\ loop[w] = "waiting" /\ queue[w] # <<>> /\ x # Stop
      /\ queue' = [queue EXCEPT ![w] = Tail(queue[w])]
      /\ buffer' = [buffer EXCEPT ![w] = IF full THEN <<>> ELSE batch]
      /\ timer' = [timer EXCEPT ![w] = IF full THEN Drained(timers) ELSE timers]
      /\ jobs' = [jobs EXCEPT ![w] = IF full THEN jobs[w] \cup {n} ELSE jobs[w]]
      /\ loop' = [loop EXCEPT ![w] = IF full THEN "flushing" ELSE loop[w]]
      /\ UNCHANGED <<unread, status, hand, acked, givenUp, lateFlush, stopRequested,
                     internalStop, phase, group>>
    BY DEF Take, eventVars, orchestratorVars
<1>2. /\ queue' \in [BatchingWorkers -> Seq(Items)]
      /\ x \in Events /\ x \in ToSet(queue[w])
      /\ \A v \in BatchingWorkers :
            /\ Once(queue'[v])
            /\ \A e \in Events :
                e \in ToSet(queue'[v]) <=> e \in ToSet(queue[v]) /\ ~ (v = w /\ e = x)
    BY <1>1, TakeFromQueue DEF Placed, Items
<1>3. buffer[w] \in Seq(Events) /\ buffer[w] \in Seq(Items) /\ Once(buffer[w])
    BY SeqMonotonic DEF Placed, Types, TypeOK, Items, SequencesRight
<1>4. x \notin ToSet(buffer[w])
    BY <1>2, Elsewhere, PlacesByName DEF Placed
<1>5. /\ batch \in Seq(Events) /\ batch # <<>> /\ Once(batch)
      /\ ToSet(batch) = ToSet(buffer[w]) \cup {x}
    BY <1>2, <1>3, <1>4, AppendProperties, ToSetAppend, OnceAppend DEF Items
<1>6. \A e \in ToSet(batch) : e \notin EventsOf(jobs[w])
    <2> SUFFICES ASSUME NEW e \in ToSet(batch), e \in EventsOf(jobs[w]) PROVE FALSE
        OBVIOUS
    <2>1. e \in Events /\ (e \in ToSet(buffer[w]) \/ e \in ToSet(queue[w]))
        BY <1>2, <1>3, <1>5, ToSetType
    <2> QED
        BY <2>1, Elsewhere, PlacesByName DEF Placed
<1>7. n \in Jobs /\ n.by = "loop" /\ n.todo = batch
    BY <1>5, NewJobRight
<1>8. jobs[w] \in SUBSET Jobs /\ CallsRight(jobs[w], loop[w])
    BY DEF Placed, Types, JobsRight
<1>9. timers = {"current"} /\ Drained(timers) = {}
    <2>1. timer[w] = IF buffer[w] = <<>> THEN {} ELSE {"current"}
        BY DEF Placed, TimerGuardsBuffer
    <2>2. Len(batch) = Len(buffer[w]) + 1 /\ Len(buffer[w]) \in Nat
        BY <1>3, LenProperties, AppendProperties DEF batch
    <2>3. buffer[w] = <<>> <=> Len(batch) = 1
        BY <1>3, <2>2, EmptySeq
    <2> QED
        BY <2>1, <2>3 DEF StartsTimer, Started, Drained, timers
<1> HIDE DEF x, batch, n, timers
<1>10. /\ \A v \in BatchingWorkers \ {w} : buffer'[v] = buffer[v] /\ timer'[v] = timer[v]
       /\ buffer'[w] = IF full THEN <<>> ELSE batch
       /\ timer'[w] = IF full THEN {} ELSE {"current"}
       /\ buffer' \in [BatchingWorkers -> Seq(Events)]
       /\ timer' \in [BatchingWorkers -> SUBSET Timers]
    <2> HIDE DEF full
    <2>1. timer' = [timer EXCEPT ![w] = IF full THEN {} ELSE {"current"}]
        BY <1>1, <1>9
    <2>2. /\ buffer \in [BatchingWorkers -> Seq(Events)]
          /\ timer \in [BatchingWorkers -> SUBSET Timers]
        BY DEF Placed, Types, TypeOK
    <2>3. <<>> \in Seq(Events) /\ batch \in Seq(Events)
        BY <1>5
    <2>4. (IF full THEN <<>> ELSE batch) \in Seq(Events)
        BY <2>3
    <2>5. (IF full THEN {} ELSE {"current"}) \in SUBSET Timers
        BY DEF Timers
    <2>6. /\ buffer' \in [BatchingWorkers -> Seq(Events)]
          /\ buffer'[w] = IF full THEN <<>> ELSE batch
          /\ \A v \in BatchingWorkers \ {w} : buffer'[v] = buffer[v]
        BY <1>1, <2>2, <2>4
    <2>7. /\ timer' \in [BatchingWorkers -> SUBSET Timers]
          /\ timer'[w] = IF full THEN {} ELSE {"current"}
          /\ \A v \in BatchingWorkers \ {w} : timer'[v] = timer[v]
        BY <2>1, <2>2, <2>5
    <2> QED
        BY <2>6, <2>7
<1>11. SequencesRight'
    BY <1>2, <1>5, <1>10, OnceEmpty DEF SequencesRight, Placed
<1>12. TimerGuardsBuffer'
    BY <1>5, <1>10 DEF TimerGuardsBuffer, Placed
<1>13. CASE full
    <2>1. /\ CallsRight(jobs[w] \cup {n}, "flushing")
          /\ \A e : e \in EventsOf(jobs[w] \cup {n}) <=> e \in EventsOf(jobs[w]) \/ e \in ToSet(batch)
        BY <1>1, <1>5, <1>6, <1>7, <1>8, CallBegins
    <2>2. /\ jobs' = [jobs EXCEPT ![w] = jobs[w] \cup {n}]
          /\ loop' = [loop EXCEPT ![w] = "flushing"]
          /\ jobs[w] \cup {n} \in SUBSET Jobs /\ "flushing" \in LoopStates
        BY <1>1, <1>7, <1>8, <1>13 DEF LoopStates
    <2>3. /\ jobs' \in [BatchingWorkers -> SUBSET Jobs] /\ loop' \in [Workers -> LoopStates]
          /\ JobsRight'
          /\ jobs'[w] = jobs[w] \cup {n}
          /\ \A v \in BatchingWorkers \ {w} : jobs'[v] = jobs[v]
          /\ loop'["input"] = loop["input"]
        BY <2>1, <2>2, WorkerStep DEF Placed
    <2>4. Types' /\ HandRight'
        BY <1>1, <1>2, <1>10, <2>3, TypesNext DEF Placed, Types, TypeOK, HandRight
    <2>5. ToSet(batch) \subseteq Events /\ UNCHANGED <<unread, hand, acked, givenUp>>
        BY <1>1, <1>5, ToSetType
    <2>6. \A e \in ToSet(batch) : e \in ToSet(queue[w]) \/ e \in ToSet(buffer[w])
        BY <1>2, <1>5
    <2>7. \A e \in Events, v \in BatchingWorkers :
            /\ e \in ToSet(queue'[v]) <=>
                    e \in ToSet(queue[v]) /\ ~ (v = w /\ e \in ToSet(batch))
            /\ e \in ToSet(buffer'[v]) <=> e \in ToSet(buffer[v]) /\ v # w
            /\ v = w /\ e \in ToSet(buffer[v]) => e \in ToSet(batch)
            /\ e \in EventsOf(jobs'[v]) <=>
                    e \in EventsOf(jobs[v]) \/ (v = w /\ e \in ToSet(batch))
        <3> SUFFICES ASSUME NEW e \in Events, NEW v \in BatchingWorkers
                     PROVE  /\ e \in ToSet(queue'[v]) <=>
                                    e \in ToSet(queue[v]) /\ ~ (v = w /\ e \in ToSet(batch))
                            /\ e \in ToSet(buffer'[v]) <=> e \in ToSet(buffer[v]) /\ v # w
                            /\ v = w /\ e \in ToSet(buffer[v]) => e \in ToSet(batch)
                            /\ e \in EventsOf(jobs'[v]) <=>
                                    e \in EventsOf(jobs[v]) \/ (v = w /\ e \in ToSet(batch))
            OBVIOUS
        <3>1. e \in ToSet(buffer[w]) => e \notin ToSet(queue[w])
            BY Elsewhere, PlacesByName DEF Placed
        <3>2. e \in ToSet(queue'[v]) <=> e \in ToSet(queue[v]) /\ ~ (v = w /\ e \in ToSet(batch))
            BY <1>2, <1>5, <3>1
        <3>3. e \in ToSet(buffer'[v]) <=> e \in ToSet(buffer[v]) /\ v # w
            BY <1>10, <1>13, ToSetEmpty
        <3> QED
            BY <1>5, <2>1, <2>3, <3>2, <3>3
    <2>8. Moves(At, At', ToSet(batch), {<<"queue", w>>, <<"buffer", w>>}, <<"job", w>>)
        <3>1. /\ Stays(At, At', <<"source", "input">>) /\ Stays(At, At', <<"input", "input">>)
              /\ Stays(At, At', <<"acked", "input">>) /\ Stays(At, At', <<"given up", "input">>)
            BY <2>5, PlacesByName, PlacesByNameNext DEF Stays
        <3>2. \A v \in BatchingWorkers \ {w} : /\ Stays(At, At', <<"job", v>>)
                                               /\ Stays(At, At', <<"queue", v>>)
                                               /\ Stays(At, At', <<"buffer", v>>)
            BY <2>7, PlacesByName, PlacesByNameNext DEF Stays
        <3>3. /\ Leave(At, At', ToSet(batch), <<"queue", w>>)
              /\ Leave(At, At', ToSet(batch), <<"buffer", w>>)
              /\ Reach(At, At', ToSet(batch), <<"job", w>>)
            BY <2>7, PlacesByName, PlacesByNameNext DEF Leave, Reach
        <3>4. \A e \in ToSet(batch) : e \in At[<<"queue", w>>] \/ e \in At[<<"buffer", w>>]
            BY <2>5, <2>6, PlacesByName
        <3>5. \A pl \in Places \ {<<"queue", w>>, <<"buffer", w>>, <<"job", w>>} :
                Stays(At, At', pl)
            BY <3>1, <3>2, PlacesByKind
        <3>6. /\ <<"queue", w>> \in Places /\ <<"buffer", w>> \in Places
              /\ <<"job", w>> \in Places
              /\ <<"job", w>> # <<"queue", w>> /\ <<"job", w>> # <<"buffer", w>>
            BY PlacesByName
        <3> QED
            BY <2>5, <3>3, <3>4, <3>5, <3>6 DEF Moves
    <2> QED
        BY <1>11, <1>12, <2>3, <2>4, <2>8, Moved DEF Placed
<1>14. CASE ~ full
    <2>1. UNCHANGED <<jobs, loop>>
        BY <1>1, <1>14 DEF Placed, Types, TypeOK
    <2>2. JobsRight' /\ HandRight'
        BY <1>1, <2>1 DEF Placed, JobsRight, HandRight
    <2>3. Types'
        BY <1>1, <1>2, <1>10, <2>1, TypesNext DEF Placed, Types, TypeOK, LoopStates
    <2>4. \A e \in Events, v \in BatchingWorkers :
            /\ e \in ToSet(queue'[v]) <=> e \in ToSet(queue[v]) /\ ~ (v = w /\ e = x)
            /\ e \in ToSet(buffer'[v]) <=> e \in ToSet(buffer[v]) \/ (v = w /\ e = x)
            /\ jobs'[v] = jobs[v]
        BY <1>2, <1>5, <1>10, <1>14, <2>1
    <2>5. UNCHANGED <<unread, hand, acked, givenUp>> /\ x \in Events /\ x \in ToSet(queue[w])
        BY <1>1, <1>2
    <2>6. Moves(At, At', {x}, {<<"queue", w>>}, <<"buffer", w>>)
        <3>1. /\ Stays(At, At', <<"source", "input">>) /\ Stays(At, At', <<"input", "input">>)
              /\ Stays(At, At', <<"acked", "input">>) /\ Stays(At, At', <<"given up", "input">>)
            BY <2>5, PlacesByName, PlacesByNameNext DEF Stays
        <3>2. \A v \in BatchingWorkers : /\ Stays(At, At', <<"job", v>>)
                                         /\ v # w => /\ Stays(At, At', <<"queue", v>>)
                                                     /\ Stays(At, At', <<"buffer", v>>)
            BY <2>4, PlacesByName, PlacesByNameNext DEF Stays
        <3>3. Leave(At, At', {x}, <<"queue", w>>) /\ Reach(At, At', {x}, <<"buffer", w>>)
            BY <2>4, PlacesByName, PlacesByNameNext DEF Leave, Reach
        <3>4. x \in At[<<"queue", w>>]
            BY <2>5, PlacesByName
        <3>5. \A pl \in Places \ {<<"queue", w>>, <<"buffer", w>>} : Stays(At, At', pl)
            BY <3>1, <3>2, PlacesByKind
        <3>6. /\ <<"queue", w>> \in Places /\ <<"buffer", w>> \in Places
              /\ <<"buffer", w>> # <<"queue", w>>
            BY PlacesByName
        <3> QED
            BY <2>5, <3>3, <3>4, <3>5, <3>6 DEF Moves
    <2> QED
        BY <1>11, <1>12, <2>2, <2>3, <2>6, Moved DEF Placed
<1> QED
    BY <1>13, <1>14

LEMMA EventsOfType ==
    ASSUME NEW js \in SUBSET Jobs
    PROVE  EventsOf(js) \subseteq Events
BY JobFields DEF EventsOf

\* What is buffered can be handed to a call.
LEMMA FlushBegins ==
    ASSUME Placed, NEW w \in BatchingWorkers, buffer[w] # <<>>, NEW by \in {"loop", "timer"}
    PROVE  LET n == NewJob(by, buffer[w])
           IN  /\ n \in Jobs /\ n.by = by /\ n.todo = buffer[w] /\ Once(n.todo)
               /\ ToSet(buffer[w]) \subseteq Events
               /\ \A e \in ToSet(buffer[w]) : e \notin EventsOf(jobs[w])
<1>1. buffer[w] \in Seq(Events) /\ Once(buffer[w])
    BY DEF Placed, Types, TypeOK, SequencesRight
<1>2. ToSet(buffer[w]) \subseteq Events
    BY <1>1, ToSetType
<1>3. ASSUME NEW e \in ToSet(buffer[w]), e \in EventsOf(jobs[w]) PROVE FALSE
    <2>1. <<"buffer", w>> # <<"job", w>>
        OBVIOUS
    <2> QED
        BY <1>2, <1>3, <2>1, Elsewhere, PlacesByName DEF Placed
<1> QED
    BY <1>1, <1>2, <1>3, NewJobRight

\* The buffered events become events of a call.
LEMMA FlushMoves ==
    ASSUME OnePlace, NEW w \in BatchingWorkers, ToSet(buffer[w]) \subseteq Events,
           UNCHANGED <<unread, hand, acked, givenUp>>,
           \A e \in Events, v \in BatchingWorkers :
            /\ e \in ToSet(queue'[v]) <=> e \in ToSet(queue[v])
            /\ e \in ToSet(buffer'[v]) <=> e \in ToSet(buffer[v]) /\ v # w
            /\ e \in EventsOf(jobs'[v]) <=>
                    e \in EventsOf(jobs[v]) \/ (v = w /\ e \in ToSet(buffer[w]))
    PROVE  OnePlace'
<1> DEFINE S == ToSet(buffer[w])
<1> HIDE DEF S
<1>1. /\ Stays(At, At', <<"source", "input">>) /\ Stays(At, At', <<"input", "input">>)
      /\ Stays(At, At', <<"acked", "input">>) /\ Stays(At, At', <<"given up", "input">>)
    BY PlacesByName, PlacesByNameNext DEF Stays
<1>2. \A v \in BatchingWorkers : /\ Stays(At, At', <<"queue", v>>)
                                 /\ v # w => /\ Stays(At, At', <<"job", v>>)
                                             /\ Stays(At, At', <<"buffer", v>>)
    BY PlacesByName, PlacesByNameNext DEF Stays
<1>3. Leave(At, At', S, <<"buffer", w>>) /\ Reach(At, At', S, <<"job", w>>)
    BY PlacesByName, PlacesByNameNext DEF Leave, Reach, S
<1>4. S \in SUBSET Events /\ \A e \in S : e \in At[<<"buffer", w>>]
    BY PlacesByName DEF S
<1>5. \A pl \in Places \ {<<"buffer", w>>, <<"job", w>>} : Stays(At, At', pl)
    BY <1>1, <1>2, PlacesByKind
<1>6. /\ <<"buffer", w>> \in Places /\ <<"job", w>> \in Places
      /\ <<"job", w>> # <<"buffer", w>>
    BY PlacesByName
<1>7. Moves(At, At', S, {<<"buffer", w>>}, <<"job", w>>)
    BY <1>3, <1>4, <1>5, <1>6 DEF Moves
<1> QED
    BY <1>7, Moved

LEMMA TakeStopKeepsPlaces ==
    ASSUME Placed, NEW w \in BatchingWorkers, TakeStop(w)
    PROVE  Placed'
<1> DEFINE n == NewJob("loop", buffer[w])
<1>1. /\ loop[w] = "waiting" /\ queue[w] # <<>> /\ Head(queue[w]) = Stop
      /\ queue' = [queue EXCEPT ![w] = Tail(queue[w])]
      /\ buffer' = [buffer EXCEPT ![w] = <<>>]
      /\ timer' = [timer EXCEPT ![w] = timer[w] \ {"current"}]
      /\ UNCHANGED <<unread, status, hand, acked, givenUp, stopRequested, phase, group>>
    BY DEF TakeStop, eventVars
<1>2. /\ queue' \in [BatchingWorkers -> Seq(Items)]
      /\ \A v \in BatchingWorkers :
            /\ Once(queue'[v])
            /\ \A e \in Events : e \in ToSet(queue'[v]) <=> e \in ToSet(queue[v])
    BY <1>1, TakeFromQueue, WorkflowAssumption DEF Placed
<1>3. /\ \A v \in BatchingWorkers \ {w} : buffer'[v] = buffer[v] /\ timer'[v] = timer[v]
      /\ buffer'[w] = <<>> /\ timer'[w] = {}
      /\ buffer' \in [BatchingWorkers -> Seq(Events)]
      /\ timer' \in [BatchingWorkers -> SUBSET Timers]
    BY <1>1 DEF Placed, Types, TypeOK, TimerGuardsBuffer
<1>4. SequencesRight'
    BY <1>2, <1>3, OnceEmpty DEF SequencesRight, Placed
<1>5. TimerGuardsBuffer'
    BY <1>3 DEF TimerGuardsBuffer, Placed
<1>6. jobs[w] \in SUBSET Jobs /\ CallsRight(jobs[w], loop[w])
    BY DEF Placed, Types, JobsRight
<1>7. CASE buffer[w] = <<>>
    <2>1. CallsRight(jobs[w], "ended")
        BY <1>1, <1>6 DEF CallsRight
    <2>2. /\ jobs' = [jobs EXCEPT ![w] = jobs[w]] /\ jobs' = jobs
          /\ loop' = [loop EXCEPT ![w] = "ended"] /\ "ended" \in LoopStates
          /\ internalStop' = TRUE /\ lateFlush' = lateFlush \cup EventsOf(TimerJobs(w))
        BY <1>1, <1>7 DEF TakeStop, EndLoop, LoopStates, Ended, Placed, Types
    <2>3. /\ jobs' \in [BatchingWorkers -> SUBSET Jobs] /\ loop' \in [Workers -> LoopStates]
          /\ JobsRight' /\ loop'["input"] = loop["input"]
        BY <1>6, <2>1, <2>2, WorkerStep DEF Placed
    <2>4. lateFlush' \subseteq Events
        BY <1>6, <2>2, EventsOfType DEF TimerJobs, Placed, Types, TypeOK
    <2>5. Types' /\ HandRight'
        BY <1>1, <1>2, <1>3, <2>2, <2>3, <2>4, TypesNext DEF Placed, Types, TypeOK, HandRight
    <2>6. OnePlace'
        BY <1>1, <1>2, <1>3, <1>7, <2>2, NothingMoves DEF Placed
    <2> QED
        BY <1>4, <1>5, <2>3, <2>5, <2>6 DEF Placed
<1>8. CASE buffer[w] # <<>>
    <2>1. /\ n \in Jobs /\ n.by = "loop" /\ n.todo = buffer[w] /\ Once(n.todo)
          /\ ToSet(buffer[w]) \subseteq Events
          /\ \A e \in ToSet(buffer[w]) : e \notin EventsOf(jobs[w])
        BY <1>8, FlushBegins
    <2>2. /\ jobs' = [jobs EXCEPT ![w] = jobs[w] \cup {n}]
          /\ loop' = [loop EXCEPT ![w] = "draining"] /\ "draining" \in LoopStates
          /\ jobs[w] \cup {n} \in SUBSET Jobs
          /\ UNCHANGED <<internalStop, lateFlush>>
        BY <1>6, <1>8, <2>1 DEF TakeStop, LoopStates
    <2> HIDE DEF n
    <2>3. /\ CallsRight(jobs[w] \cup {n}, "draining")
          /\ \A e : e \in EventsOf(jobs[w] \cup {n}) <=>
                        e \in EventsOf(jobs[w]) \/ e \in ToSet(buffer[w])
        BY <1>1, <1>6, <1>8, <2>1, CallBegins
    <2>4. /\ jobs' \in [BatchingWorkers -> SUBSET Jobs] /\ loop' \in [Workers -> LoopStates]
          /\ JobsRight' /\ loop'["input"] = loop["input"]
          /\ jobs'[w] = jobs[w] \cup {n}
          /\ \A v \in BatchingWorkers \ {w} : jobs'[v] = jobs[v]
        BY <2>2, <2>3, WorkerStep DEF Placed
    <2>5. Types' /\ HandRight'
        BY <1>1, <1>2, <1>3, <2>2, <2>4, TypesNext DEF Placed, Types, TypeOK, HandRight
    <2>6. \A e \in Events, v \in BatchingWorkers :
            /\ e \in ToSet(buffer'[v]) <=> e \in ToSet(buffer[v]) /\ v # w
            /\ e \in EventsOf(jobs'[v]) <=>
                    e \in EventsOf(jobs[v]) \/ (v = w /\ e \in ToSet(buffer[w]))
        BY <1>3, <2>3, <2>4, ToSetEmpty
    <2>7. OnePlace'
        BY <1>1, <1>2, <2>1, <2>6, FlushMoves DEF Placed
    <2> QED
        BY <1>4, <1>5, <2>4, <2>5, <2>7 DEF Placed
<1> QED
    BY <1>7, <1>8

LEMMA TimerFiresKeepsPlaces ==
    ASSUME Placed, NEW w \in BatchingWorkers, TimerFires(w)
    PROVE  Placed'
<1> DEFINE n == NewJob("timer", buffer[w])
<1>1. buffer[w] # <<>>
    BY DEF TimerFires, Placed, TimerGuardsBuffer
<1>2. /\ n \in Jobs /\ n.by = "timer" /\ n.todo = buffer[w] /\ Once(n.todo)
      /\ ToSet(buffer[w]) \subseteq Events
      /\ \A e \in ToSet(buffer[w]) : e \notin EventsOf(jobs[w])
    BY <1>1, FlushBegins
<1>3. /\ timer' = [timer EXCEPT ![w] = {}] /\ buffer' = [buffer EXCEPT ![w] = <<>>]
      /\ jobs' = [jobs EXCEPT ![w] = jobs[w] \cup {n}]
      /\ UNCHANGED <<unread, status, hand, acked, givenUp, queue, loop, lateFlush,
                     stopRequested, internalStop, phase, group>>
    <2>1. PICK t \in timer[w] : timer' = [timer EXCEPT ![w] = Drained(timer[w] \ {t})]
        BY <1>1 DEF TimerFires
    <2>2. Drained(timer[w] \ {t}) = {}
        BY <1>1 DEF Drained, Placed, TimerGuardsBuffer
    <2> QED
        BY <1>1, <2>1, <2>2 DEF TimerFires, eventVars, orchestratorVars
<1> HIDE DEF n
<1>4. /\ \A v \in BatchingWorkers \ {w} : buffer'[v] = buffer[v] /\ timer'[v] = timer[v]
      /\ buffer'[w] = <<>> /\ timer'[w] = {}
      /\ buffer' \in [BatchingWorkers -> Seq(Events)]
      /\ timer' \in [BatchingWorkers -> SUBSET Timers]
    BY <1>3 DEF Placed, Types, TypeOK
<1>5. /\ jobs[w] \in SUBSET Jobs /\ CallsRight(jobs[w], loop[w])
      /\ jobs[w] \cup {n} \in SUBSET Jobs
      /\ loop' = [loop EXCEPT ![w] = loop[w]] /\ loop[w] \in LoopStates
    BY <1>2, <1>3, WorkerNames DEF Placed, Types, TypeOK, JobsRight, LoopStates
<1>6. /\ CallsRight(jobs[w] \cup {n}, loop[w])
      /\ \A e : e \in EventsOf(jobs[w] \cup {n}) <=>
                    e \in EventsOf(jobs[w]) \/ e \in ToSet(buffer[w])
    BY <1>1, <1>2, <1>5, CallBegins
<1>7. /\ jobs' \in [BatchingWorkers -> SUBSET Jobs] /\ loop' \in [Workers -> LoopStates]
      /\ JobsRight'
      /\ jobs'[w] = jobs[w] \cup {n} /\ \A v \in BatchingWorkers \ {w} : jobs'[v] = jobs[v]
    BY <1>3, <1>5, <1>6, WorkerStep DEF Placed
<1>8. Types' /\ HandRight' /\ SequencesRight' /\ TimerGuardsBuffer'
    <2>1. Types'
        BY <1>3, <1>4, <1>7, TypesNext DEF Placed, Types, TypeOK, Items
    <2>2. HandRight' /\ SequencesRight'
        BY <1>3, <1>4, OnceEmpty DEF Placed, HandRight, SequencesRight
    <2>3. TimerGuardsBuffer'
        BY <1>4 DEF TimerGuardsBuffer, Placed
    <2> QED
        BY <2>1, <2>2, <2>3
<1>9. \A e \in Events, v \in BatchingWorkers :
        /\ e \in ToSet(buffer'[v]) <=> e \in ToSet(buffer[v]) /\ v # w
        /\ e \in EventsOf(jobs'[v]) <=>
                e \in EventsOf(jobs[v]) \/ (v = w /\ e \in ToSet(buffer[w]))
    BY <1>4, <1>6, <1>7, ToSetEmpty
<1>10. OnePlace'
    BY <1>2, <1>3, <1>9, FlushMoves DEF Placed
<1> QED
    BY <1>7, <1>8, <1>10 DEF Placed

\* A call j of the worker w goes on as k, or is over.
LEMMA ContinueRight ==
    ASSUME Placed, NEW w \in BatchingWorkers, NEW j \in jobs[w], NEW k, Continue(w, j, k),
           \/ k.todo = <<>>
           \/ /\ k \in Jobs /\ k.by = j.by /\ Once(k.todo)
              /\ ToSet(k.todo) \subseteq ToSet(j.todo)
    PROVE  /\ jobs' \in [BatchingWorkers -> SUBSET Jobs] /\ loop' \in [Workers -> LoopStates]
           /\ JobsRight' /\ loop'["input"] = loop["input"]
           /\ lateFlush' \subseteq Events
           /\ internalStop' = internalStop \/ internalStop' = TRUE
           /\ \A v \in BatchingWorkers : \A e : e \in EventsOf(jobs'[v]) <=>
                e \in EventsOf(jobs[v])
                    /\ ~ (v = w /\ e \in ToSet(j.todo) /\ e \notin ToSet(k.todo))
<1>1. /\ jobs[w] \in SUBSET Jobs /\ CallsRight(jobs[w], loop[w]) /\ j \in Jobs
      /\ loop \in [Workers -> LoopStates] /\ w \in Workers /\ loop[w] \in LoopStates
      /\ lateFlush \subseteq Events
    BY WorkerNames DEF Placed, Types, TypeOK, JobsRight, LoopStates
<1>2. \A e : e \in ToSet(j.todo) => e \in EventsOf(jobs[w])
    BY DEF EventsOf
<1>3. lateFlush' \subseteq Events /\ (internalStop' = internalStop \/ internalStop' = TRUE)
    BY <1>1, EventsOfType DEF Continue, EndLoop, TimerJobs
<1>4. CASE k.todo = <<>>
    <2>1. PICK m \in LoopStates : /\ j.by = "loop" \/ m = loop[w]
                                  /\ loop' = [loop EXCEPT ![w] = m]
        BY <1>1, <1>4 DEF Continue, EndLoop, LoopStates, Ended
    <2>2. /\ jobs' = [jobs EXCEPT ![w] = jobs[w] \ {j}]
          /\ jobs[w] \ {j} \in SUBSET Jobs
        BY <1>1, <1>4 DEF Continue
    <2>3. /\ CallsRight(jobs[w] \ {j}, m)
          /\ \A e : e \in EventsOf(jobs[w] \ {j}) <=>
                        e \in EventsOf(jobs[w]) /\ e \notin ToSet(j.todo)
        BY <1>1, <2>1, CallEnds
    <2>4. /\ jobs' \in [BatchingWorkers -> SUBSET Jobs] /\ loop' \in [Workers -> LoopStates]
          /\ JobsRight' /\ loop'["input"] = loop["input"]
          /\ jobs'[w] = jobs[w] \ {j} /\ \A v \in BatchingWorkers \ {w} : jobs'[v] = jobs[v]
        BY <2>1, <2>2, <2>3, WorkerStep DEF Placed
    <2>5. \A e : e \notin ToSet(k.todo)
        BY <1>4, ToSetEmpty
    <2> QED
        BY <1>3, <2>3, <2>4, <2>5
<1>5. CASE /\ k.todo # <<>> /\ k \in Jobs /\ k.by = j.by /\ Once(k.todo)
           /\ ToSet(k.todo) \subseteq ToSet(j.todo)
    <2>1. /\ jobs' = [jobs EXCEPT ![w] = (jobs[w] \ {j}) \cup {k}]
          /\ (jobs[w] \ {j}) \cup {k} \in SUBSET Jobs
        BY <1>1, <1>5 DEF Continue
    <2>2. loop' = [loop EXCEPT ![w] = loop[w]]
        BY <1>1, <1>5 DEF Continue
    <2>3. /\ CallsRight((jobs[w] \ {j}) \cup {k}, loop[w])
          /\ \A e : e \in EventsOf((jobs[w] \ {j}) \cup {k}) <=>
                        \/ e \in EventsOf(jobs[w]) /\ e \notin ToSet(j.todo)
                        \/ e \in ToSet(k.todo)
        BY <1>1, <1>5, CallGoesOn
    <2>4. /\ jobs' \in [BatchingWorkers -> SUBSET Jobs] /\ loop' \in [Workers -> LoopStates]
          /\ JobsRight' /\ loop'["input"] = loop["input"]
          /\ jobs'[w] = (jobs[w] \ {j}) \cup {k}
          /\ \A v \in BatchingWorkers \ {w} : jobs'[v] = jobs[v]
        BY <1>1, <2>1, <2>2, <2>3, WorkerStep DEF Placed
    <2> QED
        BY <1>2, <1>3, <1>5, <2>3, <2>4
<1> QED
    BY <1>4, <1>5

LEMMA JobIsNoEnd ==
    \A w : <<"job", w>> # <<"acked", "input">> /\ <<"job", w>> # <<"given up", "input">>
OBVIOUS

\* Some events of a call go to the place g.
LEMMA JobMoves ==
    ASSUME OnePlace, NEW w \in BatchingWorkers, NEW S \in SUBSET Events,
           S \subseteq EventsOf(jobs[w]),
           NEW g \in {<<"acked", "input">>, <<"given up", "input">>}
                        \cup {<<"queue", v>> : v \in BatchingWorkers},
           UNCHANGED <<unread, hand, buffer>>,
           \A e \in Events :
            /\ e \in acked' <=> e \in acked \/ (g = <<"acked", "input">> /\ e \in S)
            /\ e \in givenUp' <=> e \in givenUp \/ (g = <<"given up", "input">> /\ e \in S)
            /\ \A v \in BatchingWorkers :
                /\ e \in ToSet(queue'[v]) <=> e \in ToSet(queue[v]) \/ (g = <<"queue", v>> /\ e \in S)
                /\ e \in EventsOf(jobs'[v]) <=> e \in EventsOf(jobs[v]) /\ ~ (v = w /\ e \in S)
    PROVE  OnePlace'
<1>1. Stays(At, At', <<"source", "input">>) /\ Stays(At, At', <<"input", "input">>)
    BY PlacesByName, PlacesByNameNext DEF Stays
<1>2. /\ g # <<"acked", "input">> => Stays(At, At', <<"acked", "input">>)
      /\ g # <<"given up", "input">> => Stays(At, At', <<"given up", "input">>)
    BY PlacesByName, PlacesByNameNext DEF Stays
<1>3. \A v \in BatchingWorkers : /\ Stays(At, At', <<"buffer", v>>)
                                 /\ v # w => Stays(At, At', <<"job", v>>)
    BY PlacesByName, PlacesByNameNext DEF Stays
<1>4. \A v \in BatchingWorkers : g # <<"queue", v>> => Stays(At, At', <<"queue", v>>)
    BY PlacesByName, PlacesByNameNext DEF Stays
<1>5. Leave(At, At', S, <<"job", w>>)
    BY PlacesByName, PlacesByNameNext DEF Leave
<1>6. Reach(At, At', S, g)
    <2>1. CASE g = <<"acked", "input">>
        BY <2>1, PlacesByName, PlacesByNameNext DEF Reach
    <2>2. CASE g = <<"given up", "input">>
        BY <2>2, PlacesByName, PlacesByNameNext DEF Reach
    <2>3. ASSUME NEW v \in BatchingWorkers, g = <<"queue", v>> PROVE Reach(At, At', S, g)
        BY <2>3, PlacesByName, PlacesByNameNext DEF Reach
    <2> QED
        BY <2>1, <2>2, <2>3
<1>7. \A pl \in Places \ {<<"job", w>>, g} : Stays(At, At', pl)
    BY <1>1, <1>2, <1>3, <1>4, PlacesByKind
<1>8. g \in Places /\ g # <<"job", w>> /\ <<"job", w>> \in Places
    <2>1. CASE g = <<"acked", "input">> \/ g = <<"given up", "input">>
        BY <2>1, PlacesByName, JobIsNoEnd
    <2>2. ASSUME NEW v \in BatchingWorkers, g = <<"queue", v>>
          PROVE  g \in Places /\ g # <<"job", w>>
        BY <2>2, PlacesByName
    <2> QED
        BY <2>1, <2>2, PlacesByName
<1>9. \A e \in S : e \in At[<<"job", w>>]
    BY PlacesByName
<1>10. Moves(At, At', S, {<<"job", w>>}, g)
    BY <1>5, <1>6, <1>7, <1>8, <1>9 DEF Moves
<1> QED
    BY <1>10, Moved

\* Some events of a call are acknowledged, or given up.
LEMMA JobsAcked ==
    ASSUME OnePlace, NEW w \in BatchingWorkers, NEW S, S \subseteq Events,
           S \subseteq EventsOf(jobs[w]),
           UNCHANGED <<unread, hand, givenUp, queue, buffer>>, acked' = acked \cup S,
           \A e \in Events, v \in BatchingWorkers :
                e \in EventsOf(jobs'[v]) <=> e \in EventsOf(jobs[v]) /\ ~ (v = w /\ e \in S)
    PROVE  OnePlace'
<1> PICK g : g = <<"acked", "input">>
    OBVIOUS
<1>1. g # <<"given up", "input">> /\ \A v : g # <<"queue", v>>
    OBVIOUS
<1> QED
    BY <1>1, JobMoves

LEMMA JobsGivenUp ==
    ASSUME OnePlace, NEW w \in BatchingWorkers, NEW S, S \subseteq Events,
           S \subseteq EventsOf(jobs[w]),
           UNCHANGED <<unread, hand, acked, queue, buffer>>, givenUp' = givenUp \cup S,
           \A e \in Events, v \in BatchingWorkers :
                e \in EventsOf(jobs'[v]) <=> e \in EventsOf(jobs[v]) /\ ~ (v = w /\ e \in S)
    PROVE  OnePlace'
<1> PICK g : g = <<"given up", "input">>
    OBVIOUS
<1>1. g # <<"acked", "input">> /\ \A v : g # <<"queue", v>>
    OBVIOUS
<1> QED
    BY <1>1, JobMoves

LEMMA CallKeepsPlaces ==
    ASSUME Placed, NEW w \in BatchingWorkers, NEW j \in jobs[w], Call(w, j)
    PROVE  Placed'
<1> DEFINE k == [j EXCEPT !.stage = "route"]
<1>1. /\ jobs[w] \in SUBSET Jobs /\ CallsRight(jobs[w], loop[w]) /\ j \in Jobs
      /\ w \in Workers /\ loop[w] \in LoopStates
    BY WorkerNames DEF Placed, Types, TypeOK, JobsRight, LoopStates
<1>2. /\ jobs' = [jobs EXCEPT ![w] = (jobs[w] \ {j}) \cup {k}]
      /\ status' \in [Events -> Statuses]
      /\ UNCHANGED <<unread, hand, acked, givenUp, queue, buffer, timer, loop, lateFlush,
                     stopRequested, internalStop, phase, group>>
    BY DEF Call, orchestratorVars
<1>3. k \in Jobs /\ k.by = j.by /\ k.todo = j.todo
    BY <1>1 DEF Jobs
<1>4. j.todo # <<>> /\ Once(j.todo)
    BY <1>1 DEF CallsRight
<1> HIDE DEF k
<1>5. /\ CallsRight((jobs[w] \ {j}) \cup {k}, loop[w])
      /\ \A e : e \in EventsOf((jobs[w] \ {j}) \cup {k}) <=>
                    \/ e \in EventsOf(jobs[w]) /\ e \notin ToSet(j.todo)
                    \/ e \in ToSet(k.todo)
    BY <1>1, <1>3, <1>4, CallGoesOn
<1>6. /\ loop' = [loop EXCEPT ![w] = loop[w]] /\ (jobs[w] \ {j}) \cup {k} \in SUBSET Jobs
      /\ loop' \in [Workers -> LoopStates]
    BY <1>1, <1>2, <1>3 DEF Placed, Types, TypeOK, LoopStates
<1>7. /\ jobs' \in [BatchingWorkers -> SUBSET Jobs] /\ JobsRight'
      /\ jobs'[w] = (jobs[w] \ {j}) \cup {k}
      /\ \A v \in BatchingWorkers \ {w} : jobs'[v] = jobs[v]
    BY <1>1, <1>2, <1>5, <1>6, WorkerStep DEF Placed
<1>8. \A e : e \in ToSet(j.todo) => e \in EventsOf(jobs[w])
    BY DEF EventsOf
<1>9. \A v \in BatchingWorkers : \A e : e \in EventsOf(jobs'[v]) <=> e \in EventsOf(jobs[v])
    BY <1>3, <1>5, <1>7, <1>8
<1>10. OnePlace'
    BY <1>2, <1>9, NothingMoves DEF Placed
<1>11. Types'
    BY <1>2, <1>6, <1>7, TypesNext DEF Placed, Types, TypeOK, Items
<1>12. HandRight' /\ SequencesRight' /\ TimerGuardsBuffer'
    BY <1>2 DEF Placed, HandRight, SequencesRight, TimerGuardsBuffer
<1> QED
    BY <1>7, <1>10, <1>11, <1>12 DEF Placed

\* The rest of the invariant, after a step of a call that leaves buffers alone.
LEMMA CallStepRest ==
    ASSUME Placed,
           jobs' \in [BatchingWorkers -> SUBSET Jobs], loop' \in [Workers -> LoopStates],
           loop'["input"] = loop["input"], lateFlush' \subseteq Events,
           internalStop' = internalStop \/ internalStop' = TRUE,
           acked' \subseteq Events, givenUp' \subseteq Events,
           queue' \in [BatchingWorkers -> Seq(Items)],
           \A v \in BatchingWorkers : Once(queue'[v]),
           UNCHANGED <<unread, status, hand, buffer, timer, stopRequested, phase, group>>
    PROVE  Types' /\ HandRight' /\ SequencesRight' /\ TimerGuardsBuffer'
<1>1. Types'
    BY TypesNext DEF Placed, Types, TypeOK
<1>2. HandRight' /\ SequencesRight' /\ TimerGuardsBuffer'
    BY DEF Placed, HandRight, SequencesRight, TimerGuardsBuffer
<1> QED
    BY <1>1, <1>2

\* Of a call that has something left to do, the head and the rest.
LEMMA CallHead ==
    ASSUME Placed, NEW w \in BatchingWorkers, NEW j \in jobs[w]
    PROVE  LET x == Head(j.todo)
               k == AfterRouting(w, j)
           IN  /\ j \in Jobs /\ x \in Events /\ x \in ToSet(j.todo) /\ x \in EventsOf(jobs[w])
               /\ k \in Jobs /\ k.by = j.by /\ Once(k.todo)
               /\ ToSet(k.todo) \subseteq ToSet(j.todo)
               /\ \A e : e \in ToSet(j.todo) /\ e \notin ToSet(k.todo) <=> e = x
<1>1. j \in Jobs /\ j.todo # <<>> /\ Once(j.todo)
    BY DEF Placed, Types, JobsRight, CallsRight
<1>2. j.todo \in Seq(Events) /\ j.todo \in Seq(Items)
    BY <1>1, JobFields
<1>3. /\ Head(j.todo) \in Events /\ Tail(j.todo) \in Seq(Events)
      /\ ToSet(j.todo) = {Head(j.todo)} \cup ToSet(Tail(j.todo))
      /\ Once(Tail(j.todo)) /\ Head(j.todo) \notin ToSet(Tail(j.todo))
    BY <1>1, <1>2, ToSetHeadTail, OnceTail
<1>4. /\ AfterRouting(w, j) \in Jobs /\ AfterRouting(w, j).by = j.by
      /\ AfterRouting(w, j).todo = Tail(j.todo)
    BY <1>1, <1>3 DEF AfterRouting, Jobs
<1>5. \A e \in ToSet(j.todo) : e \in EventsOf(jobs[w])
    BY DEF EventsOf
<1> QED
    BY <1>1, <1>3, <1>4, <1>5

LEMMA TargetType ==
    ASSUME NEW w, NEW e
    PROVE  Target(w, e) \in BatchingWorkers
<1>1. /\ "error" \in BatchingWorkers /\ "extra_output" \in BatchingWorkers
      /\ "output" \in BatchingWorkers /\ "acknowledge" \in BatchingWorkers
    BY WorkerNames
<1> QED
    BY <1>1, Zenon DEF Target

LEMMA RouteKeepsPlaces ==
    ASSUME Placed, NEW w \in BatchingWorkers, NEW j \in jobs[w], Route(w, j)
    PROVE  Placed'
<1> DEFINE x == Head(j.todo)
           k == AfterRouting(w, j)
<1>1. /\ j \in Jobs /\ x \in Events /\ x \in ToSet(j.todo) /\ x \in EventsOf(jobs[w])
      /\ k \in Jobs /\ k.by = j.by /\ Once(k.todo)
      /\ ToSet(k.todo) \subseteq ToSet(j.todo)
      /\ \A e : e \in ToSet(j.todo) /\ e \notin ToSet(k.todo) <=> e = x
    BY CallHead
<1>2. PICK t \in BatchingWorkers :
        /\ queue' = [queue EXCEPT ![t] = Append(queue[t], x)]
        /\ t = Target(w, x)
    BY TargetType DEF Route
<1>3. /\ Continue(w, j, k)
      /\ UNCHANGED <<unread, status, hand, acked, givenUp, buffer, timer, stopRequested,
                     phase, group>>
    BY DEF Route, eventVars
<1> HIDE DEF x, k
<1>4. /\ jobs' \in [BatchingWorkers -> SUBSET Jobs] /\ loop' \in [Workers -> LoopStates]
      /\ JobsRight' /\ loop'["input"] = loop["input"] /\ lateFlush' \subseteq Events
      /\ internalStop' = internalStop \/ internalStop' = TRUE
      /\ \A v \in BatchingWorkers : \A e : e \in EventsOf(jobs'[v]) <=>
            e \in EventsOf(jobs[v]) /\ ~ (v = w /\ e \in ToSet(j.todo) /\ e \notin ToSet(k.todo))
    BY <1>1, <1>3, ContinueRight
<1>5. x \notin ToSet(queue[t])
    <2>1. <<"queue", t>> # <<"job", w>>
        OBVIOUS
    <2>2. <<"queue", t>> \in Places /\ <<"job", w>> \in Places /\ x \in At[<<"job", w>>]
        BY <1>1, PlacesByName
    <2>3. x \in ToSet(queue[t]) => x \in At[<<"queue", t>>]
        BY <1>1, PlacesByName
    <2>4. OnePlace
        BY DEF Placed
    <2> QED
        BY <1>1, <2>1, <2>2, <2>3, <2>4, Elsewhere
<1>6. /\ queue' \in [BatchingWorkers -> Seq(Items)]
      /\ \A v \in BatchingWorkers :
            /\ Once(queue'[v])
            /\ \A e : e \in ToSet(queue'[v]) <=> e \in ToSet(queue[v]) \/ (v = t /\ e = x)
    BY <1>1, <1>2, <1>5, PutInQueue DEF Placed, Items
<1>7. Types' /\ HandRight' /\ SequencesRight' /\ TimerGuardsBuffer'
    BY <1>3, <1>4, <1>6, CallStepRest DEF Placed, Types, TypeOK
<1>8. OnePlace'
    <2> PICK g : g = <<"queue", t>>
        OBVIOUS
    <2>1. /\ g \in {<<"queue", v>> : v \in BatchingWorkers}
          /\ \A v \in BatchingWorkers : g = <<"queue", v>> <=> v = t
          /\ g # <<"acked", "input">> /\ g # <<"given up", "input">>
        OBVIOUS
    <2>2. /\ {x} \in SUBSET Events /\ {x} \subseteq EventsOf(jobs[w])
          /\ \A e \in Events, v \in BatchingWorkers :
                /\ e \in ToSet(queue'[v]) <=>
                        e \in ToSet(queue[v]) \/ (g = <<"queue", v>> /\ e \in {x})
                /\ e \in EventsOf(jobs'[v]) <=> e \in EventsOf(jobs[v]) /\ ~ (v = w /\ e \in {x})
        BY <1>1, <1>4, <1>6, <2>1
    <2> DEFINE S == {x}
    <2> HIDE DEF S
    <2>3. /\ S \in SUBSET Events /\ S \subseteq EventsOf(jobs[w])
          /\ \A e \in Events :
                /\ e \in acked' <=> e \in acked \/ (g = <<"acked", "input">> /\ e \in S)
                /\ e \in givenUp' <=> e \in givenUp \/ (g = <<"given up", "input">> /\ e \in S)
                /\ \A v \in BatchingWorkers :
                    /\ e \in ToSet(queue'[v]) <=>
                            e \in ToSet(queue[v]) \/ (g = <<"queue", v>> /\ e \in S)
                    /\ e \in EventsOf(jobs'[v]) <=> e \in EventsOf(jobs[v]) /\ ~ (v = w /\ e \in S)
        BY <1>3, <2>1, <2>2 DEF S
    <2>4. g \in {<<"acked", "input">>, <<"given up", "input">>}
                    \cup {<<"queue", v>> : v \in BatchingWorkers}
        BY <2>1
    <2>5. OnePlace /\ UNCHANGED <<unread, hand, buffer>>
        BY <1>3 DEF Placed
    <2> QED
        BY <2>3, <2>4, <2>5, JobMoves
<1> QED
    BY <1>4, <1>7, <1>8 DEF Placed

LEMMA DropUnreportedKeepsPlaces ==
    ASSUME Placed, NEW w \in BatchingWorkers, NEW j \in jobs[w], DropUnreported(w, j)
    PROVE  Placed'
<1> DEFINE x == Head(j.todo)
           k == AfterRouting(w, j)
<1>1. /\ j \in Jobs /\ x \in Events /\ x \in ToSet(j.todo) /\ x \in EventsOf(jobs[w])
      /\ k \in Jobs /\ k.by = j.by /\ Once(k.todo)
      /\ ToSet(k.todo) \subseteq ToSet(j.todo)
      /\ \A e : e \in ToSet(j.todo) /\ e \notin ToSet(k.todo) <=> e = x
    BY CallHead
<1>2. /\ Continue(w, j, k) /\ givenUp' = givenUp \cup {x}
      /\ UNCHANGED <<unread, status, hand, acked, queue, buffer, timer, stopRequested,
                     phase, group>>
    BY DEF DropUnreported
<1> HIDE DEF x, k
<1>3. /\ jobs' \in [BatchingWorkers -> SUBSET Jobs] /\ loop' \in [Workers -> LoopStates]
      /\ JobsRight' /\ loop'["input"] = loop["input"] /\ lateFlush' \subseteq Events
      /\ internalStop' = internalStop \/ internalStop' = TRUE
      /\ \A v \in BatchingWorkers : \A e : e \in EventsOf(jobs'[v]) <=>
            e \in EventsOf(jobs[v]) /\ ~ (v = w /\ e \in ToSet(j.todo) /\ e \notin ToSet(k.todo))
    BY <1>1, <1>2, ContinueRight
<1>4. Types' /\ HandRight' /\ SequencesRight' /\ TimerGuardsBuffer'
    BY <1>1, <1>2, <1>3, CallStepRest DEF Placed, Types, TypeOK, Items, SequencesRight
<1>5. OnePlace'
    <2> DEFINE S == {x}
    <2>1. /\ S \subseteq Events /\ S \subseteq EventsOf(jobs[w])
          /\ givenUp' = givenUp \cup S
          /\ \A e \in Events, v \in BatchingWorkers :
                e \in EventsOf(jobs'[v]) <=> e \in EventsOf(jobs[v]) /\ ~ (v = w /\ e \in S)
        BY <1>1, <1>2, <1>3
    <2> HIDE DEF S
    <2> QED
        BY <1>2, <2>1, JobsGivenUp DEF Placed
<1> QED
    BY <1>3, <1>4, <1>5 DEF Placed

LEMMA AcknowledgeBatchKeepsPlaces ==
    ASSUME Placed, NEW w \in BatchingWorkers, NEW j \in jobs[w], AcknowledgeBatch(w, j)
    PROVE  Placed'
<1> DEFINE k == [j EXCEPT !.todo = <<>>]
           S == ToSet(j.todo)
<1>1. j \in Jobs /\ S \subseteq Events /\ S \subseteq EventsOf(jobs[w])
    BY JobFields DEF Placed, Types, EventsOf
<1>2. k.todo = <<>> /\ \A e : e \notin ToSet(k.todo)
    BY <1>1, ToSetEmpty DEF Jobs
<1>3. /\ Continue(w, j, k) /\ acked' = acked \cup S
      /\ UNCHANGED <<unread, status, hand, givenUp, queue, buffer, timer, stopRequested,
                     phase, group>>
    BY DEF AcknowledgeBatch
<1> HIDE DEF k
<1>4. /\ jobs' \in [BatchingWorkers -> SUBSET Jobs] /\ loop' \in [Workers -> LoopStates]
      /\ JobsRight' /\ loop'["input"] = loop["input"] /\ lateFlush' \subseteq Events
      /\ internalStop' = internalStop \/ internalStop' = TRUE
      /\ \A v \in BatchingWorkers : \A e : e \in EventsOf(jobs'[v]) <=>
            e \in EventsOf(jobs[v]) /\ ~ (v = w /\ e \in S /\ e \notin ToSet(k.todo))
    BY <1>2, <1>3, ContinueRight
<1> HIDE DEF S
<1>5. Types' /\ HandRight' /\ SequencesRight' /\ TimerGuardsBuffer'
    BY <1>1, <1>3, <1>4, CallStepRest DEF Placed, Types, TypeOK, Items, SequencesRight
<1>6. OnePlace'
    BY <1>1, <1>2, <1>3, <1>4, JobsAcked DEF Placed
<1> QED
    BY <1>4, <1>5, <1>6 DEF Placed

LEMMA HandlerRaisesKeepsPlaces ==
    ASSUME Placed, NEW w \in BatchingWorkers, NEW j \in jobs[w], HandlerRaises(w, j)
    PROVE  Placed'
<1> DEFINE S == ToSet(j.todo)
<1>1. j \in Jobs /\ S \subseteq Events /\ S \subseteq EventsOf(jobs[w])
    BY JobFields DEF Placed, Types, EventsOf
<1>2. /\ jobs[w] \in SUBSET Jobs /\ CallsRight(jobs[w], loop[w])
      /\ loop \in [Workers -> LoopStates] /\ w \in Workers /\ loop[w] \in LoopStates
    BY WorkerNames DEF Placed, Types, TypeOK, JobsRight, LoopStates
<1>3. /\ jobs' = [jobs EXCEPT ![w] = jobs[w] \ {j}] /\ givenUp' = givenUp \cup S
      /\ UNCHANGED <<unread, status, hand, acked, queue, buffer, timer, lateFlush,
                     stopRequested, phase, group>>
    BY DEF HandlerRaises
<1>4. PICK m \in LoopStates : /\ j.by = "loop" \/ m = loop[w]
                              /\ loop' = [loop EXCEPT ![w] = m]
    BY <1>2 DEF HandlerRaises, EndLoop, LoopStates, Ended
<1>5. internalStop' = internalStop \/ internalStop' = TRUE
    BY DEF HandlerRaises, EndLoop
<1>6. /\ CallsRight(jobs[w] \ {j}, m) /\ jobs[w] \ {j} \in SUBSET Jobs
      /\ \A e : e \in EventsOf(jobs[w] \ {j}) <=> e \in EventsOf(jobs[w]) /\ e \notin S
    BY <1>2, <1>4, CallEnds
<1> HIDE DEF S
<1>7. /\ jobs' \in [BatchingWorkers -> SUBSET Jobs] /\ loop' \in [Workers -> LoopStates]
      /\ JobsRight' /\ loop'["input"] = loop["input"]
      /\ jobs'[w] = jobs[w] \ {j} /\ \A v \in BatchingWorkers \ {w} : jobs'[v] = jobs[v]
    BY <1>3, <1>4, <1>6, WorkerStep DEF Placed
<1>8. Types' /\ HandRight' /\ SequencesRight' /\ TimerGuardsBuffer'
    BY <1>1, <1>3, <1>5, <1>7, CallStepRest DEF Placed, Types, TypeOK, Items, SequencesRight
<1>9. \A e \in Events, v \in BatchingWorkers :
        e \in EventsOf(jobs'[v]) <=> e \in EventsOf(jobs[v]) /\ ~ (v = w /\ e \in S)
    BY <1>6, <1>7
<1>10. OnePlace'
    BY <1>1, <1>3, <1>9, JobsGivenUp DEF Placed
<1> QED
    BY <1>7, <1>8, <1>10 DEF Placed

\* What the loops of ws, when cancelled, leave unfinished.
LoopCalls(w) == {j \in jobs[w] : j.by = "loop"}
Unfinished(ws) ==
    (UNION {EventsOf(LoopCalls(w)) : w \in ws \ {"input"}})
        \cup IF "input" \in ws THEN hand ELSE {}

LEMMA CancelLoopsKeepsPlaces ==
    ASSUME Placed, NEW ws \in SUBSET Workers, CancelLoops(ws),
           UNCHANGED <<unread, status, acked, queue, buffer, timer, lateFlush,
                       stopRequested, group>>,
           phase' = phase \/ phase' = "ended"
    PROVE  Placed'
<1> DEFINE S == Unfinished(ws)
<1>1. /\ loop' = [w \in Workers |-> IF w \in ws THEN "cancelled" ELSE loop[w]]
      /\ jobs' = [w \in BatchingWorkers |->
                    IF w \in ws THEN jobs[w] \ LoopCalls(w) ELSE jobs[w]]
      /\ hand' = IF "input" \in ws THEN {} ELSE hand
      /\ givenUp' = givenUp \cup S
      /\ internalStop' = TRUE
    BY DEF CancelLoops, Unfinished, LoopCalls
<1>2. "input" \in Workers /\ "input" \notin BatchingWorkers /\ BatchingWorkers \subseteq Workers
      /\ ws \ {"input"} \subseteq BatchingWorkers
    BY WorkerNames
<1>3. \A w \in BatchingWorkers : /\ jobs[w] \in SUBSET Jobs /\ LoopCalls(w) \in SUBSET Jobs
                                 /\ \A e \in EventsOf(LoopCalls(w)) : e \in EventsOf(jobs[w])
    BY DEF Placed, Types, LoopCalls, EventsOf
<1>4. \A e : e \in S <=> \/ \E w \in ws \ {"input"} : e \in EventsOf(LoopCalls(w))
                         \/ "input" \in ws /\ e \in hand
    BY DEF Unfinished
<1> HIDE DEF S
<1>5. S \subseteq Events
    BY <1>2, <1>3, <1>4, EventsOfType DEF Placed, Types, TypeOK
<1>6. /\ jobs' \in [BatchingWorkers -> SUBSET Jobs] /\ loop' \in [Workers -> LoopStates]
      /\ \A w \in BatchingWorkers :
            jobs'[w] = IF w \in ws THEN jobs[w] \ LoopCalls(w) ELSE jobs[w]
      /\ \A w \in Workers : loop'[w] = IF w \in ws THEN "cancelled" ELSE loop[w]
    BY <1>1, <1>3 DEF Placed, Types, TypeOK, LoopStates, Ended
<1>7. \A w \in BatchingWorkers :
        /\ CallsRight(jobs[w] \ LoopCalls(w), "cancelled")
        /\ \A e : e \in EventsOf(jobs[w] \ LoopCalls(w)) <=>
                    e \in EventsOf(jobs[w]) /\ e \notin EventsOf(LoopCalls(w))
    <2> SUFFICES ASSUME NEW w \in BatchingWorkers
                 PROVE  /\ CallsRight(jobs[w] \ LoopCalls(w), "cancelled")
                        /\ \A e : e \in EventsOf(jobs[w] \ LoopCalls(w)) <=>
                                    e \in EventsOf(jobs[w]) /\ e \notin EventsOf(LoopCalls(w))
        OBVIOUS
    <2>1. CallsRight(jobs[w], loop[w])
        BY DEF Placed, JobsRight
    <2> QED
        BY <1>3, <2>1, LoopCallGone DEF LoopCalls
<1>8. JobsRight'
    <2>1. \A w \in BatchingWorkers : CallsRight(jobs'[w], loop'[w])
        BY <1>2, <1>6, <1>7 DEF Placed, JobsRight
    <2> QED
        BY <2>1 DEF JobsRight, CallsRight
<1>9. HandRight'
    BY <1>1, <1>2, <1>6 DEF Placed, HandRight
<1>10. Types'
    BY <1>1, <1>5, <1>6, TypesNext DEF Placed, Types, TypeOK, Items
<1>11. SequencesRight' /\ TimerGuardsBuffer'
    BY DEF Placed, SequencesRight, TimerGuardsBuffer
<1>12. OnePlace'
    <2> DEFINE F == {<<"job", w>> : w \in BatchingWorkers} \cup {<<"input", "input">>}
    <2>1. /\ Stays(At, At', <<"source", "input">>) /\ Stays(At, At', <<"acked", "input">>)
          /\ \A w \in BatchingWorkers : /\ Stays(At, At', <<"queue", w>>)
                                        /\ Stays(At, At', <<"buffer", w>>)
        BY PlacesByName, PlacesByNameNext DEF Stays
    <2>2. Reach(At, At', S, <<"given up", "input">>)
        BY <1>1, PlacesByName, PlacesByNameNext DEF Reach
    <2>3. \A v, w \in BatchingWorkers : \A e \in Events :
            e \in EventsOf(jobs[v]) /\ e \in EventsOf(jobs[w]) => v = w
        <3> SUFFICES ASSUME NEW v \in BatchingWorkers, NEW w \in BatchingWorkers,
                            NEW e \in Events, e \in EventsOf(jobs[v]), e \in EventsOf(jobs[w])
                     PROVE  v = w
            OBVIOUS
        <3>1. <<"job", v>> = <<"job", w>>
            BY Elsewhere, PlacesByName DEF Placed
        <3> QED
            BY <3>1
    <2>4. \A w \in BatchingWorkers : \A e \in Events : e \in EventsOf(jobs[w]) => e \notin hand
        <3> SUFFICES ASSUME NEW w \in BatchingWorkers, NEW e \in Events,
                            e \in EventsOf(jobs[w]), e \in hand
                     PROVE  FALSE
            OBVIOUS
        <3>1. <<"job", w>> = <<"input", "input">>
            BY Elsewhere, PlacesByName DEF Placed
        <3> QED
            BY <3>1
    <2>5. \A w \in BatchingWorkers : Leave(At, At', S, <<"job", w>>)
        <3>1. \A w \in BatchingWorkers : \A e \in Events :
                e \in EventsOf(jobs'[w]) <=> e \in EventsOf(jobs[w]) /\ e \notin S
            BY <1>2, <1>3, <1>4, <1>6, <1>7, <2>3, <2>4
        <3> QED
            BY <3>1, PlacesByName, PlacesByNameNext DEF Leave
    <2>6. Leave(At, At', S, <<"input", "input">>)
        <3>1. \A e \in Events : e \in hand' <=> e \in hand /\ e \notin S
            BY <1>1, <1>2, <1>3, <1>4, <2>4
        <3> QED
            BY <3>1, PlacesByName, PlacesByNameNext DEF Leave
    <2>7. F \in SUBSET Places /\ <<"given up", "input">> \in Places
        BY DEF Places
    <2>8. <<"given up", "input">> \notin F
        BY JobIsNoEnd
    <2>9. \A e \in S : \E pl \in F : e \in At[pl]
        <3> SUFFICES ASSUME NEW e \in S PROVE \E pl \in F : e \in At[pl]
            OBVIOUS
        <3>1. CASE e \in hand
            BY <1>5, <3>1, PlacesByName
        <3>2. ASSUME NEW w \in BatchingWorkers, e \in EventsOf(jobs[w])
              PROVE  \E pl \in F : e \in At[pl]
            BY <1>5, <3>2, PlacesByName
        <3> QED
            BY <1>2, <1>3, <1>4, <3>1, <3>2
    <2>10. \A pl \in F : Leave(At, At', S, pl)
        BY <2>5, <2>6
    <2>11. \A pl \in Places : pl \notin F /\ pl # <<"given up", "input">> => Stays(At, At', pl)
        BY <2>1, PlacesByKind
    <2> HIDE DEF F
    <2>12. Moves(At, At', S, F, <<"given up", "input">>)
        BY <1>5, <2>2, <2>7, <2>8, <2>9, <2>10, <2>11 DEF Moves
    <2> QED
        BY <2>12, Moved DEF Placed
<1> QED
    BY <1>8, <1>9, <1>10, <1>11, <1>12 DEF Placed

LEMMA StopWorkerKeepsPlaces ==
    ASSUME Placed, StopWorker
    PROVE  Placed'
<1>1. /\ phase' = "collecting"
      /\ UNCHANGED <<unread, status, hand, acked, givenUp, buffer, timer, jobs, loop, lateFlush,
                     stopRequested, internalStop, group>>
    BY DEF StopWorker, eventVars
<1>2. group \in 1 .. 6
    BY WorkerNames DEF Placed, Types, TypeOK
<1>3. /\ queue' \in [BatchingWorkers -> Seq(Items)]
      /\ \A v \in BatchingWorkers :
            /\ Once(queue'[v])
            /\ \A e \in Events : e \in ToSet(queue'[v]) <=> e \in ToSet(queue[v])
    <2>1. CASE Stopping = "input"
        BY <2>1 DEF StopWorker, Placed, Types, TypeOK, Items, SequencesRight
    <2>2. CASE Stopping # "input"
        <3>1. group \in 2 .. 6
            BY <1>2, <2>2, WorkerNames DEF Stopping
        <3>2. PICK w \in BatchingWorkers : w = Stopping
            BY <3>1, WorkerNames DEF Stopping
        <3>3. queue' = [queue EXCEPT ![w] = Append(queue[w], Stop)]
            BY <2>2, <3>2 DEF StopWorker
        <3> QED
            BY <3>3, PutInQueue, WorkflowAssumption DEF Placed, Items
    <2> QED
        BY <2>1, <2>2
<1>4. Types'
    BY <1>1, <1>3 DEF Placed, Types, TypeOK, Items
<1>5. JobsRight' /\ HandRight' /\ SequencesRight' /\ TimerGuardsBuffer'
    BY <1>1, <1>3 DEF Placed, JobsRight, HandRight, SequencesRight, TimerGuardsBuffer
<1>6. OnePlace'
    BY <1>1, <1>3, NothingMoves DEF Placed
<1> QED
    BY <1>4, <1>5, <1>6 DEF Placed

\* The other steps of the orchestrator.
LEMMA OrchestratorKeepsPlaces ==
    ASSUME Placed, RequestStop \/ BeginShutdown \/ CollectTasks \/ GroupFinishes
    PROVE  Placed'
<1>1. /\ UNCHANGED <<unread, status, hand, acked, givenUp, queue, buffer, timer, jobs, loop,
                     lateFlush, internalStop>>
      /\ stopRequested' = stopRequested \/ stopRequested' = TRUE
    BY DEF RequestStop, BeginShutdown, CollectTasks, GroupFinishes, eventVars, workerVars
<1>2. group' \in DOMAIN StopOrder
    <2>1. group \in 1 .. 6 /\ DOMAIN StopOrder = 1 .. 6 /\ Len(StopOrder) = 6
        BY WorkerNames DEF Placed, Types, TypeOK
    <2>2. group' = group \/ (group # 6 /\ group' = group + 1)
        BY <2>1 DEF RequestStop, BeginShutdown, CollectTasks, GroupFinishes, NextGroup
    <2> QED
        BY <2>1, <2>2
<1>3. phase' \in {"running", "stopping", "collecting", "awaiting", "ended", "failed"}
    BY DEF Placed, Types, TypeOK, RequestStop, BeginShutdown, CollectTasks, GroupFinishes,
           NextGroup
<1>4. Types'
    BY <1>1, <1>2, <1>3 DEF Placed, Types, TypeOK
<1>5. JobsRight' /\ HandRight' /\ SequencesRight' /\ TimerGuardsBuffer'
    BY <1>1 DEF Placed, JobsRight, HandRight, SequencesRight, TimerGuardsBuffer
<1>6. OnePlace'
    BY <1>1, NothingMoves DEF Placed
<1> QED
    BY <1>4, <1>5, <1>6 DEF Placed

LEMMA PlacedInitially == Init => Placed
<1> SUFFICES ASSUME Init PROVE Placed
    OBVIOUS
<1>1. Types
    <2>1. 1 \in DOMAIN StopOrder
        BY WorkerNames
    <2>2. <<>> \in Seq(Events) /\ <<>> \in Seq(Events \cup {Stop})
        OBVIOUS
    <2>3. /\ queue \in [BatchingWorkers -> Seq(Events \cup {Stop})]
          /\ buffer \in [BatchingWorkers -> Seq(Events)]
        BY <2>2 DEF Init
    <2>4. /\ jobs \in [BatchingWorkers -> SUBSET Jobs]
          /\ \A w \in BatchingWorkers : jobs[w] \subseteq Jobs
          /\ status \in [Events -> Statuses]
          /\ timer \in [BatchingWorkers -> SUBSET Timers]
          /\ loop \in [Workers -> {"waiting", "putting", "flushing", "draining"} \cup Ended]
        BY DEF Init, Statuses
    <2> QED
        BY <2>1, <2>3, <2>4 DEF Init, Types, TypeOK
<1>2. JobsRight /\ HandRight /\ SequencesRight /\ TimerGuardsBuffer
    BY OnceEmpty DEF Init, JobsRight, CallsRight, HandRight, SequencesRight, TimerGuardsBuffer
<1>3. OnePlace
    <2>1. \A e \in Events :
            /\ e \in At[<<"source", "input">>] /\ e \notin At[<<"input", "input">>]
            /\ e \notin At[<<"acked", "input">>] /\ e \notin At[<<"given up", "input">>]
            /\ \A w \in BatchingWorkers : /\ e \notin At[<<"queue", w>>]
                                          /\ e \notin At[<<"buffer", w>>]
                                          /\ e \notin At[<<"job", w>>]
        <3>1. \A w \in BatchingWorkers : /\ queue[w] = <<>> /\ buffer[w] = <<>>
                                         /\ \A e : e \notin EventsOf(jobs[w])
            BY DEF Init, EventsOf
        <3>2. unread = Events /\ hand = {} /\ acked = {} /\ givenUp = {}
            BY DEF Init
        <3> QED
            BY <3>1, <3>2, PlacesByName, ToSetEmpty
    <2>2. \A e \in Events : \A pl \in Places : e \in At[pl] <=> pl = <<"source", "input">>
        BY <2>1, PlacesByKind
    <2> QED
        BY <2>2, PlacesByName DEF OnePlace, OneOf
<1> QED
    BY <1>1, <1>2, <1>3 DEF Placed

LEMMA PlacedStep == Placed /\ [Next]_vars => Placed'
<1> SUFFICES ASSUME Placed, [Next]_vars PROVE Placed'
    OBVIOUS
<1>1. ASSUME NEW e \in Events, InputReads(e) PROVE Placed'
    BY <1>1, InputReadsKeepsPlaces
<1>2. ASSUME NEW e \in Events, InputPuts(e) PROVE Placed'
    BY <1>2, InputPutsKeepsPlaces
<1>3. CASE InputEnds \/ InputExhausted \/ InputCrashes
    BY <1>3, InputStopsKeepsPlaces
<1>4. ASSUME NEW w \in BatchingWorkers, Take(w) PROVE Placed'
    BY <1>4, TakeKeepsPlaces
<1>5. ASSUME NEW w \in BatchingWorkers, TakeStop(w) PROVE Placed'
    BY <1>5, TakeStopKeepsPlaces
<1>6. ASSUME NEW w \in BatchingWorkers, TimerFires(w) PROVE Placed'
    BY <1>6, TimerFiresKeepsPlaces
<1>7. ASSUME NEW w \in BatchingWorkers, NEW j \in jobs[w], JobStep(w, j) PROVE Placed'
    BY <1>7, CallKeepsPlaces, RouteKeepsPlaces, DropUnreportedKeepsPlaces,
       AcknowledgeBatchKeepsPlaces, HandlerRaisesKeepsPlaces DEF JobStep
<1>8. CASE RequestStop \/ BeginShutdown \/ CollectTasks \/ GroupFinishes
    BY <1>8, OrchestratorKeepsPlaces
<1>9. CASE StopWorker
    BY <1>9, StopWorkerKeepsPlaces
<1>10. CASE GroupTimeout
    <2>1. {Stopping} \in SUBSET Workers
        BY WorkerNames DEF Placed, Types, TypeOK, Stopping, Workers, ToSet
    <2> QED
        BY <1>10, <2>1, CancelLoopsKeepsPlaces DEF GroupTimeout
<1>11. CASE TotalTimeout
    <2>1. {w \in Workers : ~ Finished(w)} \in SUBSET Workers
        OBVIOUS
    <2> QED
        BY <1>11, <2>1, CancelLoopsKeepsPlaces DEF TotalTimeout
<1>12. CASE UNCHANGED vars
    <2>1. UNCHANGED <<unread, status, hand, acked, givenUp, queue, buffer, timer, jobs, loop,
                      lateFlush, stopRequested, internalStop, phase, group>>
        BY <1>12 DEF vars, eventVars, workerVars, orchestratorVars
    <2>2. Types' /\ JobsRight' /\ HandRight' /\ SequencesRight' /\ TimerGuardsBuffer'
        BY <2>1 DEF Placed, Types, TypeOK, JobsRight, CallsRight, HandRight, SequencesRight,
                    TimerGuardsBuffer
    <2>3. OnePlace'
        BY <2>1, NothingMoves DEF Placed
    <2> QED
        BY <2>2, <2>3 DEF Placed
<1> QED
    BY <1>1, <1>2, <1>3, <1>4, <1>5, <1>6, <1>7, <1>8, <1>9, <1>10, <1>11, <1>12 DEF Next

\* The inductive invariant: types, handler calls, the input's hand and the
\* sequences are well formed, every event is in one place, and a buffer that
\* is not empty has its one timer asleep (worker.py, workflow.py).
THEOREM AlwaysPlaced == Spec => []Placed
<1> QED
    BY PlacedInitially, PlacedStep, PTL DEF Spec

\* The type invariant of the workflow: whatever its workers and its shutdown
\* do, queues hold events and sentinels, buffers and calls only events.
THEOREM TypeCorrect == Spec => []TypeOK
<1>1. Placed => TypeOK
    BY DEF Placed, Types
<1> QED
    BY <1>1, AlwaysPlaced, PTL

\* A buffer that holds events has exactly one timer asleep, the one that
\* _flush_timer refers to, and an empty one has none, whatever races it: a
\* stop, a cancellation, a failed handler or the batch size, at any number of
\* events (_start_timer_locked, _cancel_timer_if_needed, _drain_locked).
THEOREM TimersGuardBuffers == Spec => []TimerGuardsBuffer
<1>1. Placed => TimerGuardsBuffer
    BY DEF Placed
<1> QED
    BY <1>1, AlwaysPlaced, PTL

(***************************************************************************)
(* ... which is also true of the positions in its queue or buffer.         *)
(***************************************************************************)
ItemAt(e, z, w) ==
    \/ \E i \in DOMAIN queue[w] : queue[w][i] = e /\ z = <<"queue", w, i>>
    \/ \E i \in DOMAIN buffer[w] : buffer[w][i] = e /\ z = <<"buffer", w, i>>
    \/ \E j \in jobs[w] : e \in ToSet(j.todo) /\ z = <<"job", w, j>>

LEMMA PlacesOfMember ==
    ASSUME NEW e, NEW z
    PROVE  z \in PlacesOf(e) <=>
            \/ z = <<"source">> /\ e \in unread
            \/ z = <<"input">> /\ e \in hand
            \/ z = <<"acked">> /\ e \in acked
            \/ z = <<"given up">> /\ e \in givenUp
            \/ \E w \in BatchingWorkers : ItemAt(e, z, w)
<1> DEFINE Q(w) == {<<"queue", w, i>> : i \in {k \in DOMAIN queue[w] : queue[w][k] = e}}
           B(w) == {<<"buffer", w, i>> : i \in {k \in DOMAIN buffer[w] : buffer[w][k] = e}}
           J(w) == {<<"job", w, j>> : j \in {k \in jobs[w] : e \in ToSet(k.todo)}}
<1>1. \A w : /\ z \in Q(w) <=> \E i \in DOMAIN queue[w] : queue[w][i] = e /\ z = <<"queue", w, i>>
             /\ z \in B(w) <=> \E i \in DOMAIN buffer[w] : buffer[w][i] = e /\ z = <<"buffer", w, i>>
             /\ z \in J(w) <=> \E j \in jobs[w] : e \in ToSet(j.todo) /\ z = <<"job", w, j>>
    OBVIOUS
<1> DEFINE U == UNION {Q(w) \cup B(w) \cup J(w) : w \in BatchingWorkers}
<1>2. PlacesOf(e) = (IF e \in unread THEN {<<"source">>} ELSE {})
                        \cup (IF e \in hand THEN {<<"input">>} ELSE {})
                        \cup U
                        \cup (IF e \in acked THEN {<<"acked">>} ELSE {})
                        \cup (IF e \in givenUp THEN {<<"given up">>} ELSE {})
    BY DEF PlacesOf
<1> HIDE DEF Q, B, J
<1>3. z \in U <=> \E w \in BatchingWorkers : z \in Q(w) \/ z \in B(w) \/ z \in J(w)
    OBVIOUS
<1> HIDE DEF U
<1>4. /\ z \in (IF e \in unread THEN {<<"source">>} ELSE {}) <=> z = <<"source">> /\ e \in unread
      /\ z \in (IF e \in hand THEN {<<"input">>} ELSE {}) <=> z = <<"input">> /\ e \in hand
      /\ z \in (IF e \in acked THEN {<<"acked">>} ELSE {}) <=> z = <<"acked">> /\ e \in acked
      /\ z \in (IF e \in givenUp THEN {<<"given up">>} ELSE {}) <=>
            z = <<"given up">> /\ e \in givenUp
    OBVIOUS
<1>5. z \in PlacesOf(e) <=>
            \/ z = <<"source">> /\ e \in unread
            \/ z = <<"input">> /\ e \in hand
            \/ z = <<"acked">> /\ e \in acked
            \/ z = <<"given up">> /\ e \in givenUp
            \/ z \in U
    BY <1>2, <1>4
<1>6. \A w : z \in Q(w) \/ z \in B(w) \/ z \in J(w) <=> ItemAt(e, z, w)
    BY <1>1 DEF ItemAt
<1> QED
    BY <1>3, <1>5, <1>6

Sole(s, t) == \A z : z \in s <=> z = t

LEMMA OneMember ==
    ASSUME NEW s, NEW t, Sole(s, t)
    PROVE  Cardinality(s) = 1
<1>1. s = {t}
    BY DEF Sole
<1> QED
    BY <1>1, FS_Singleton

LEMMA WorkerPlacesDiffer ==
    \A k \in {"queue", "buffer", "job"} : \A w :
        /\ <<k, w>> # <<"source", "input">> /\ <<k, w>> # <<"input", "input">>
        /\ <<k, w>> # <<"acked", "input">> /\ <<k, w>> # <<"given up", "input">>
OBVIOUS

LEMMA PlacedIsOnePlace ==
    ASSUME Placed, NEW e \in Events
    PROVE  Cardinality(PlacesOf(e)) = 1
<1>1. PICK pl \in Places : \A ql \in Places : e \in At[ql] <=> ql = pl
    BY DEF Placed, OnePlace, OneOf
<1>2. \A w \in BatchingWorkers :
        /\ \A i \in DOMAIN queue[w] : queue[w][i] = e => e \in ToSet(queue[w])
        /\ \A i \in DOMAIN buffer[w] : buffer[w][i] = e => e \in ToSet(buffer[w])
        /\ \A j \in jobs[w] : e \in ToSet(j.todo) => e \in EventsOf(jobs[w])
    BY DEF ToSet, EventsOf
<1>3. /\ e \in unread <=> pl = <<"source", "input">>
      /\ e \in hand <=> pl = <<"input", "input">>
      /\ e \in acked <=> pl = <<"acked", "input">>
      /\ e \in givenUp <=> pl = <<"given up", "input">>
      /\ \A w \in BatchingWorkers : /\ e \in ToSet(queue[w]) <=> pl = <<"queue", w>>
                                    /\ e \in ToSet(buffer[w]) <=> pl = <<"buffer", w>>
                                    /\ e \in EventsOf(jobs[w]) <=> pl = <<"job", w>>
    BY <1>1, PlacesByName
<1>4. CASE pl = <<"source", "input">>
    <2>1. /\ e \in unread /\ e \notin hand /\ e \notin acked /\ e \notin givenUp
          /\ \A w \in BatchingWorkers : /\ e \notin ToSet(queue[w]) /\ e \notin ToSet(buffer[w])
                                        /\ e \notin EventsOf(jobs[w])
        BY <1>3, <1>4
    <2> PICK t : t = <<"source">>
        OBVIOUS
    <2>2. \A w \in BatchingWorkers : \A z : ~ ItemAt(e, z, w)
        BY <1>2, <2>1 DEF ItemAt
    <2>3. Sole(PlacesOf(e), t)
        BY <2>1, <2>2, PlacesOfMember DEF Sole
    <2> QED
        BY <2>3, OneMember
<1>5. CASE pl = <<"input", "input">>
    <2>1. /\ e \notin unread /\ e \in hand /\ e \notin acked /\ e \notin givenUp
          /\ \A w \in BatchingWorkers : /\ e \notin ToSet(queue[w]) /\ e \notin ToSet(buffer[w])
                                        /\ e \notin EventsOf(jobs[w])
        BY <1>3, <1>5
    <2> PICK t : t = <<"input">>
        OBVIOUS
    <2>2. \A w \in BatchingWorkers : \A z : ~ ItemAt(e, z, w)
        BY <1>2, <2>1 DEF ItemAt
    <2>3. Sole(PlacesOf(e), t)
        BY <2>1, <2>2, PlacesOfMember DEF Sole
    <2> QED
        BY <2>3, OneMember
<1>6. CASE pl = <<"acked", "input">>
    <2>1. /\ e \notin unread /\ e \notin hand /\ e \in acked /\ e \notin givenUp
          /\ \A w \in BatchingWorkers : /\ e \notin ToSet(queue[w]) /\ e \notin ToSet(buffer[w])
                                        /\ e \notin EventsOf(jobs[w])
        BY <1>3, <1>6
    <2> PICK t : t = <<"acked">>
        OBVIOUS
    <2>2. \A w \in BatchingWorkers : \A z : ~ ItemAt(e, z, w)
        BY <1>2, <2>1 DEF ItemAt
    <2>3. Sole(PlacesOf(e), t)
        BY <2>1, <2>2, PlacesOfMember DEF Sole
    <2> QED
        BY <2>3, OneMember
<1>7. CASE pl = <<"given up", "input">>
    <2>1. /\ e \notin unread /\ e \notin hand /\ e \notin acked /\ e \in givenUp
          /\ \A w \in BatchingWorkers : /\ e \notin ToSet(queue[w]) /\ e \notin ToSet(buffer[w])
                                        /\ e \notin EventsOf(jobs[w])
        BY <1>3, <1>7
    <2> PICK t : t = <<"given up">>
        OBVIOUS
    <2>2. \A w \in BatchingWorkers : \A z : ~ ItemAt(e, z, w)
        BY <1>2, <2>1 DEF ItemAt
    <2>3. Sole(PlacesOf(e), t)
        BY <2>1, <2>2, PlacesOfMember DEF Sole
    <2> QED
        BY <2>3, OneMember
<1>8. ASSUME NEW w \in BatchingWorkers,
             pl = <<"queue", w>> \/ pl = <<"buffer", w>> \/ pl = <<"job", w>>
      PROVE  Cardinality(PlacesOf(e)) = 1
    <2>1. e \notin unread /\ e \notin hand /\ e \notin acked /\ e \notin givenUp
        BY <1>3, <1>8, WorkerPlacesDiffer
    <2>2. CASE pl = <<"queue", w>>
        <3>1. PICK i \in DOMAIN queue[w] : queue[w][i] = e
            BY <1>3, <2>2 DEF ToSet
        <3>2. \A k \in DOMAIN queue[w] : queue[w][k] = e => k = i
            BY <3>1 DEF Placed, SequencesRight, Once
        <3>3. \A v \in BatchingWorkers : /\ e \in ToSet(queue[v]) => v = w
                                         /\ e \notin ToSet(buffer[v])
                                         /\ e \notin EventsOf(jobs[v])
            BY <1>3, <2>2
        <3> PICK t : t = <<"queue", w, i>>
            OBVIOUS
        <3>4. ASSUME NEW z PROVE z \in PlacesOf(e) <=> z = t
            <4>1. t \in PlacesOf(e)
                BY <3>1, PlacesOfMember DEF ItemAt
            <4>2. ASSUME z \in PlacesOf(e) PROVE z = t
                <5>1. PICK v \in BatchingWorkers : ItemAt(e, z, v)
                    BY <2>1, <4>2, PlacesOfMember
                <5>2. v = w /\ \E k \in DOMAIN queue[v] : queue[v][k] = e /\ z = <<"queue", v, k>>
                    BY <1>2, <3>3, <5>1 DEF ItemAt
                <5> QED
                    BY <3>2, <5>2
            <4> QED
                BY <4>1, <4>2
        <3>5. Sole(PlacesOf(e), t)
            BY <3>4 DEF Sole
        <3> QED
            BY <3>5, OneMember
    <2>3. CASE pl = <<"buffer", w>>
        <3>1. PICK i \in DOMAIN buffer[w] : buffer[w][i] = e
            BY <1>3, <2>3 DEF ToSet
        <3>2. \A k \in DOMAIN buffer[w] : buffer[w][k] = e => k = i
            BY <3>1 DEF Placed, SequencesRight, Once
        <3>3. \A v \in BatchingWorkers : /\ e \in ToSet(buffer[v]) => v = w
                                         /\ e \notin ToSet(queue[v])
                                         /\ e \notin EventsOf(jobs[v])
            BY <1>3, <2>3
        <3> PICK t : t = <<"buffer", w, i>>
            OBVIOUS
        <3>4. ASSUME NEW z PROVE z \in PlacesOf(e) <=> z = t
            <4>1. t \in PlacesOf(e)
                BY <3>1, PlacesOfMember DEF ItemAt
            <4>2. ASSUME z \in PlacesOf(e) PROVE z = t
                <5>1. PICK v \in BatchingWorkers : ItemAt(e, z, v)
                    BY <2>1, <4>2, PlacesOfMember
                <5>2. v = w /\ \E k \in DOMAIN buffer[v] : buffer[v][k] = e /\ z = <<"buffer", v, k>>
                    BY <1>2, <3>3, <5>1 DEF ItemAt
                <5> QED
                    BY <3>2, <5>2
            <4> QED
                BY <4>1, <4>2
        <3>5. Sole(PlacesOf(e), t)
            BY <3>4 DEF Sole
        <3> QED
            BY <3>5, OneMember
    <2>4. CASE pl = <<"job", w>>
        <3>1. PICK j \in jobs[w] : e \in ToSet(j.todo)
            BY <1>3, <2>4 DEF EventsOf
        <3>2. \A k \in jobs[w] : e \in ToSet(k.todo) => k = j
            BY <3>1 DEF Placed, JobsRight, CallsRight
        <3>3. \A v \in BatchingWorkers : /\ e \in EventsOf(jobs[v]) => v = w
                                         /\ e \notin ToSet(queue[v])
                                         /\ e \notin ToSet(buffer[v])
            BY <1>3, <2>4
        <3> PICK t : t = <<"job", w, j>>
            OBVIOUS
        <3>4. ASSUME NEW z PROVE z \in PlacesOf(e) <=> z = t
            <4>1. t \in PlacesOf(e)
                BY <3>1, PlacesOfMember DEF ItemAt
            <4>2. ASSUME z \in PlacesOf(e) PROVE z = t
                <5>1. PICK v \in BatchingWorkers : ItemAt(e, z, v)
                    BY <2>1, <4>2, PlacesOfMember
                <5>2. v = w /\ \E k \in jobs[v] : e \in ToSet(k.todo) /\ z = <<"job", v, k>>
                    BY <1>2, <3>3, <5>1 DEF ItemAt
                <5> QED
                    BY <3>2, <5>2
            <4> QED
                BY <4>1, <4>2
        <3>5. Sole(PlacesOf(e), t)
            BY <3>4 DEF Sole
        <3> QED
            BY <3>5, OneMember
    <2> QED
        BY <1>8, <2>2, <2>3, <2>4
<1> QED
    BY <1>4, <1>5, <1>6, <1>7, <1>8, PlacesByKind

\* No event is lost between two workers or duplicated: whatever timers, stops,
\* timeouts and cancellations race each other, it is in exactly one place
\* (_handle_next, _flush_after_interval, _drain_locked, run).
THEOREM EventsAreInOnePlace == Spec => []ExactlyOnePlace
<1>1. Placed => ExactlyOnePlace
    <2> SUFFICES ASSUME Placed, NEW e \in Events PROVE Cardinality(PlacesOf(e)) = 1
        BY DEF ExactlyOnePlace
    <2> QED
        BY PlacedIsOnePlace
<1> QED
    BY <1>1, AlwaysPlaced, PTL

(***************************************************************************)
(* What has become of an event, by the place it is in.                     *)
(***************************************************************************)

\* The outcome that an event has when the worker w gets it.
Expects(w, s) ==
    \/ w = "processing" /\ s = "log"
    \/ w = "extra_output" /\ s = "extras"
    \/ w = "output" /\ s = "data"
    \/ w = "error" /\ s = "failed"
    \/ w = "acknowledge" /\ s \in {"stored", "reported", "empty", "passed"}

\* The outcome that it has after the call.
AfterCall(w, s) ==
    \/ w = "processing" /\ s \in {"extras", "empty", "data", "failed"}
    \/ w = "extra_output" /\ s \in {"empty", "data", "failed"}
    \/ w = "output" /\ s \in {"stored", "failed", "passed"}
    \/ w = "error" /\ s \in {"reported", "unreported", "passed"}

JobStatus(w, j) ==
    /\ w = "acknowledge" => j.stage = "call"
    /\ \A e \in ToSet(j.todo) :
        /\ j.stage = "route" /\ e \in Called(w, j) => AfterCall(w, status[e])
        /\ ~ (j.stage = "route" /\ e \in Called(w, j)) => Expects(w, status[e])

StatusRight ==
    /\ \A e \in unread : status[e] = "unread"
    /\ \A e \in hand : status[e] \in {"log", "failed"}
    /\ \A e \in acked : Expects("acknowledge", status[e])
    /\ \A w \in BatchingWorkers : \A e \in Events :
        e \in ToSet(queue[w]) \/ e \in ToSet(buffer[w]) => Expects(w, status[e])
    /\ \A w \in BatchingWorkers : \A j \in jobs[w] : JobStatus(w, j)

\* A call has the outcomes of its handler.
LEMMA CallOutcomes ==
    ASSUME NEW w \in BatchingWorkers, w # "acknowledge", NEW e, NEW s \in Outcomes(w, e)
    PROVE  AfterCall(w, s)
<1>1. CASE w = "processing"
    <2>1. Outcomes(w, e) = Processed(e)
        BY <1>1, Zenon DEF Outcomes
    <2> QED
        BY <1>1, <2>1 DEF Processed, AfterCall
<1>2. CASE w = "extra_output"
    <2>1. Outcomes(w, e) = ExtrasSent(e)
        BY <1>2, Zenon DEF Outcomes
    <2> QED
        BY <1>2, <2>1 DEF ExtrasSent, AfterCall
<1>3. CASE w = "output"
    <2>1. Outcomes(w, e) = DefaultStored(e)
        BY <1>3, Zenon DEF Outcomes
    <2> QED
        BY <1>3, <2>1 DEF DefaultStored, AfterCall
<1>4. CASE w = "error"
    <2>1. Outcomes(w, e) = ErrorStored(e)
        BY <1>4, Zenon DEF Outcomes
    <2> QED
        BY <1>4, <2>1 DEF ErrorStored, AfterCall
<1> QED
    BY <1>1, <1>2, <1>3, <1>4, WorkerNames

\* An event goes where its outcome is expected.
LEMMA TargetExpects ==
    ASSUME NEW w, NEW e, AfterCall(w, status[e]), status[e] # "unreported"
    PROVE  Expects(Target(w, e), status[e])
<1>1. CASE w # "error" /\ status[e] = "failed"
    <2>1. Target(w, e) = "error"
        BY <1>1, Zenon DEF Target
    <2> QED
        BY <1>1, <2>1 DEF Expects
<1>2. CASE w = "processing" /\ status[e] = "extras"
    <2>1. status[e] # "failed"
        BY <1>2
    <2>2. Target(w, e) = "extra_output"
        BY <1>2, <2>1, Zenon DEF Target
    <2> QED
        BY <1>2, <2>2 DEF Expects
<1>3. CASE w \in {"processing", "extra_output"} /\ status[e] = "data"
    <2>1. status[e] # "failed" /\ status[e] # "extras"
        BY <1>3
    <2>2. Target(w, e) = "output"
        BY <1>3, <2>1, Zenon DEF Target
    <2> QED
        BY <1>3, <2>2 DEF Expects
<1>4. CASE /\ ~ (w # "error" /\ status[e] = "failed")
           /\ ~ (w = "processing" /\ status[e] = "extras")
           /\ ~ (w \in {"processing", "extra_output"} /\ status[e] = "data")
    <2>1. Target(w, e) = "acknowledge"
        BY <1>4, Zenon DEF Target
    <2>2. status[e] \in {"stored", "reported", "empty", "passed"}
        BY <1>4 DEF AfterCall
    <2> QED
        BY <2>1, <2>2 DEF Expects
<1> QED
    BY <1>1, <1>2, <1>3, <1>4

\* Nothing is decided, and events do not come to other workers.
LEMMA StatusKept ==
    ASSUME StatusRight, UNCHANGED status,
           unread' \subseteq unread, hand' \subseteq hand,
           \A e \in acked' : e \in acked \/ Expects("acknowledge", status[e]),
           \A w \in BatchingWorkers :
            /\ \A e \in Events : e \in ToSet(queue'[w]) \/ e \in ToSet(buffer'[w]) =>
                    \/ e \in ToSet(queue[w]) \/ e \in ToSet(buffer[w])
                    \/ Expects(w, status[e])
            /\ \A j \in jobs'[w] : j \in jobs[w] \/ JobStatus(w, j)
    PROVE  StatusRight'
<1>1. \A w \in BatchingWorkers : \A j \in jobs'[w] : JobStatus(w, j)'
    BY DEF StatusRight, JobStatus, Called
<1>2. \A w \in BatchingWorkers : \A e \in Events :
        e \in ToSet(queue'[w]) \/ e \in ToSet(buffer'[w]) => Expects(w, status'[e])
    BY DEF StatusRight
<1> QED
    BY <1>1, <1>2 DEF StatusRight

LEMMA NewJobStatus ==
    ASSUME NEW w, NEW by, NEW batch, \A e \in ToSet(batch) : Expects(w, status[e])
    PROVE  JobStatus(w, NewJob(by, batch))
BY DEF NewJob, JobStatus

\* After the routing of its head, the rest of a call is as it should be.
LEMMA RestStatus ==
    ASSUME Placed, NEW w \in BatchingWorkers, NEW j \in jobs[w], JobStatus(w, j), j.stage = "route"
    PROVE  /\ JobStatus(w, AfterRouting(w, j))
           /\ AfterCall(w, status[Head(j.todo)])
<1> DEFINE x == Head(j.todo)
           k == AfterRouting(w, j)
<1>1. /\ j \in Jobs /\ x \in ToSet(j.todo)
      /\ ToSet(k.todo) \subseteq ToSet(j.todo)
      /\ \A e : e \in ToSet(j.todo) /\ e \notin ToSet(k.todo) <=> e = x
    BY CallHead
<1>2. k.stage = IF w = "processing" THEN "call" ELSE j.stage
    BY <1>1 DEF AfterRouting, Jobs
<1>3. w # "acknowledge"
    BY DEF JobStatus
<1>4. x \in Called(w, j)
    BY <1>1 DEF Called
<1> HIDE DEF k
<1>5. CASE w = "processing"
    <2>1. \A e \in ToSet(k.todo) : e \in ToSet(j.todo) /\ e \notin Called(w, j)
        BY <1>1, <1>5 DEF Called
    <2> QED
        BY <1>1, <1>2, <1>3, <1>4, <1>5, <2>1 DEF JobStatus, k
<1>6. CASE w # "processing"
    <2>1. \A e \in ToSet(k.todo) : e \in Called(w, j) /\ e \in Called(w, k)
        BY <1>1, <1>6 DEF Called
    <2> QED
        BY <1>1, <1>2, <1>3, <1>4, <1>6, <2>1 DEF JobStatus, k
<1> QED
    BY <1>5, <1>6

LEMMA InputStatus ==
    ASSUME Placed, StatusRight, NEW x \in Events, InputReads(x) \/ InputPuts(x)
    PROVE  StatusRight'
<1>1. CASE InputReads(x)
    <2>1. /\ x \in unread /\ unread' = unread \ {x} /\ hand' = {x}
          /\ UNCHANGED <<queue, buffer, jobs, acked>>
        BY <1>1 DEF InputReads
    <2>2. status'[x] \in {"log", "failed"} /\ \A e \in Events : e # x => status'[e] = status[e]
        BY <1>1 DEF InputReads, Placed, Types, TypeOK
    <2>3. /\ x \notin acked
          /\ \A w \in BatchingWorkers : /\ x \notin ToSet(queue[w]) /\ x \notin ToSet(buffer[w])
                                        /\ x \notin EventsOf(jobs[w])
        BY <2>1, Elsewhere, PlacesByName, WorkerPlacesDiffer DEF Placed
    <2>4. \A w \in BatchingWorkers : \A j \in jobs[w] : JobStatus(w, j)'
        <3> SUFFICES ASSUME NEW w \in BatchingWorkers, NEW j \in jobs[w] PROVE JobStatus(w, j)'
            OBVIOUS
        <3>1. \A e \in ToSet(j.todo) : e # x /\ e \in Events
            BY <2>3, JobFields DEF EventsOf, Placed, Types
        <3>2. \A e \in ToSet(j.todo) : status'[e] = status[e]
            BY <2>2, <3>1
        <3> QED
            BY <3>2 DEF StatusRight, JobStatus, Called
    <2>5. /\ \A e \in unread' : status'[e] = "unread"
          /\ \A e \in hand' : status'[e] \in {"log", "failed"}
          /\ \A e \in acked' : Expects("acknowledge", status'[e])
        BY <2>1, <2>2, <2>3 DEF StatusRight, Placed, Types, TypeOK
    <2>6. \A w \in BatchingWorkers : \A e \in Events :
            e \in ToSet(queue'[w]) \/ e \in ToSet(buffer'[w]) => Expects(w, status'[e])
        BY <2>1, <2>2, <2>3 DEF StatusRight
    <2> QED
        BY <2>1, <2>4, <2>5, <2>6 DEF StatusRight
<1>2. CASE InputPuts(x)
    <2>1. PICK t \in BatchingWorkers :
            /\ x \in hand /\ hand' = {}
            /\ queue' = [queue EXCEPT ![t] = Append(queue[t], x)]
            /\ t = InputTarget(x)
            /\ UNCHANGED <<unread, status, acked, buffer, jobs>>
        BY <1>2, WorkerNames DEF InputPuts, InputTarget
    <2>2. x \notin ToSet(queue[t])
        BY <2>1, Elsewhere, PlacesByName, WorkerPlacesDiffer DEF Placed
    <2>3. \A v \in BatchingWorkers : \A e :
            e \in ToSet(queue'[v]) <=> e \in ToSet(queue[v]) \/ (v = t /\ e = x)
        BY <2>1, <2>2, PutInQueue DEF Placed, Items
    <2>4. Expects(t, status[x])
        BY <2>1 DEF StatusRight, InputTarget, Expects
    <2> QED
        BY <2>1, <2>3, <2>4, StatusKept
<1> QED
    BY <1>1, <1>2

LEMMA BufferStatus ==
    ASSUME Placed, StatusRight, NEW w \in BatchingWorkers,
           Take(w) \/ TakeStop(w) \/ TimerFires(w)
    PROVE  StatusRight'
<1>1. UNCHANGED <<unread, hand, acked, status>>
    BY DEF Take, TakeStop, TimerFires, eventVars
<1>2. buffer[w] \in Seq(Events) /\ ToSet(buffer[w]) \subseteq Events
    BY ToSetType DEF Placed, Types, TypeOK
<1>3. \A e \in ToSet(buffer[w]) : Expects(w, status[e])
    BY <1>2 DEF StatusRight
<1>4. CASE Take(w)
    <2> DEFINE x == Head(queue[w])
               batch == Append(buffer[w], x)
               full == Len(batch) >= BatchSize[w]
               n == NewJob("loop", batch)
    <2>1. /\ queue[w] # <<>> /\ x # Stop
          /\ queue' = [queue EXCEPT ![w] = Tail(queue[w])]
          /\ buffer' = [buffer EXCEPT ![w] = IF full THEN <<>> ELSE batch]
          /\ jobs' = [jobs EXCEPT ![w] = IF full THEN jobs[w] \cup {n} ELSE jobs[w]]
        BY <1>4 DEF Take
    <2>2. /\ x \in Events /\ x \in ToSet(queue[w])
          /\ \A v \in BatchingWorkers : \A e \in Events :
                e \in ToSet(queue'[v]) => e \in ToSet(queue[v])
        BY <2>1, TakeFromQueue DEF Placed, Items
    <2>3. ToSet(batch) = ToSet(buffer[w]) \cup {x}
        BY <1>2, <2>2, ToSetAppend
    <2>4. \A e \in ToSet(batch) : Expects(w, status[e])
        BY <1>3, <2>2, <2>3 DEF StatusRight
    <2>5. JobStatus(w, n)
        BY <2>4, NewJobStatus
    <2> HIDE DEF batch, n
    <2>6. \A v \in BatchingWorkers :
            /\ \A e : e \in ToSet(buffer'[v]) =>
                    e \in ToSet(buffer[v]) \/ (v = w /\ e \in ToSet(batch))
            /\ \A j \in jobs'[v] : j \in jobs[v] \/ (v = w /\ j = n)
        BY <2>1, ToSetEmpty DEF Placed, Types, TypeOK
    <2> QED
        BY <1>1, <2>2, <2>4, <2>5, <2>6, StatusKept
<1>5. CASE TakeStop(w) \/ TimerFires(w)
    <2>1. PICK by \in {"loop", "timer"} :
            /\ buffer' = [buffer EXCEPT ![w] = <<>>]
            /\ \/ jobs' = jobs
               \/ jobs' = [jobs EXCEPT ![w] = jobs[w]]
               \/ jobs' = [jobs EXCEPT ![w] = jobs[w] \cup {NewJob(by, buffer[w])}]
        BY <1>5 DEF TakeStop, TimerFires
    <2> DEFINE n == NewJob(by, buffer[w])
    <2>2. JobStatus(w, n)
        BY <1>3, NewJobStatus
    <2>3. \A v \in BatchingWorkers : \A e \in Events :
            e \in ToSet(queue'[v]) => e \in ToSet(queue[v])
        <3>1. CASE queue' = queue
            BY <3>1
        <3>2. CASE queue[w] # <<>> /\ queue' = [queue EXCEPT ![w] = Tail(queue[w])]
            BY <3>2, TakeFromQueue DEF Placed
        <3> QED
            BY <1>5, <3>1, <3>2 DEF TakeStop, TimerFires
    <2> HIDE DEF n
    <2>4. \A v \in BatchingWorkers :
            /\ \A e : e \in ToSet(buffer'[v]) => e \in ToSet(buffer[v])
            /\ \A j \in jobs'[v] : j \in jobs[v] \/ (v = w /\ j = n)
        BY <2>1, ToSetEmpty DEF Placed, Types, TypeOK, n
    <2> QED
        BY <1>1, <2>2, <2>3, <2>4, StatusKept
<1> QED
    BY <1>4, <1>5

\* In a call, a handler decides events that were expected, and no others.
LEMMA CallChanges ==
    ASSUME Placed, StatusRight, NEW w \in BatchingWorkers, NEW j \in jobs[w], Call(w, j)
    PROVE  /\ w # "acknowledge" /\ j.stage = "call"
           /\ Called(w, j) \subseteq ToSet(j.todo) /\ ToSet(j.todo) \subseteq Events
           /\ \A e \in Called(w, j) : Expects(w, status[e]) /\ AfterCall(w, status'[e])
           /\ \A e \in Events : e \notin Called(w, j) => status'[e] = status[e]
           /\ \A e \in Called(w, j) :
                /\ e \in EventsOf(jobs[w])
                /\ e \notin unread /\ e \notin hand /\ e \notin acked /\ e \notin givenUp
                /\ \A v \in BatchingWorkers : /\ e \notin ToSet(queue[v])
                                              /\ e \notin ToSet(buffer[v])
                                              /\ e \in EventsOf(jobs[v]) => v = w
<1>1. /\ j \in Jobs /\ Head(j.todo) \in ToSet(j.todo) /\ JobStatus(w, j)
      /\ ToSet(j.todo) \subseteq Events /\ ToSet(j.todo) \subseteq EventsOf(jobs[w])
    BY CallHead, JobFields DEF StatusRight, EventsOf
<1>2. Called(w, j) \subseteq ToSet(j.todo)
    BY <1>1 DEF Called
<1>3. w # "acknowledge" /\ j.stage = "call"
    BY DEF Call
<1>4. \A e \in Events :
        status'[e] \in IF e \in Called(w, j) THEN Outcomes(w, e) ELSE {status[e]}
    BY DEF Call
<1>5. \A e \in Called(w, j) : Expects(w, status[e])
    BY <1>1, <1>2, <1>3 DEF JobStatus
<1>6. \A e \in Called(w, j) : AfterCall(w, status'[e])
    BY <1>1, <1>2, <1>3, <1>4, CallOutcomes
<1>7. ASSUME NEW e \in Called(w, j)
      PROVE  /\ e \in EventsOf(jobs[w])
             /\ e \notin unread /\ e \notin hand /\ e \notin acked /\ e \notin givenUp
             /\ \A v \in BatchingWorkers : /\ e \notin ToSet(queue[v])
                                           /\ e \notin ToSet(buffer[v])
                                           /\ e \in EventsOf(jobs[v]) => v = w
    <2>1. e \in Events /\ e \in EventsOf(jobs[w]) /\ e \in At[<<"job", w>>] /\ <<"job", w>> \in Places
        BY <1>1, <1>2, PlacesByName
    <2>2. \A pl \in Places : e \in At[pl] => pl = <<"job", w>>
        BY <2>1, Elsewhere DEF Placed
    <2>3. e \notin unread /\ e \notin hand /\ e \notin acked /\ e \notin givenUp
        BY <2>1, <2>2, PlacesByName, WorkerPlacesDiffer
    <2>4. \A v \in BatchingWorkers : /\ e \notin ToSet(queue[v])
                                     /\ e \notin ToSet(buffer[v])
                                     /\ e \in EventsOf(jobs[v]) => v = w
        BY <2>1, <2>2, PlacesByName
    <2> QED
        BY <2>1, <2>3, <2>4
<1> QED
    BY <1>1, <1>2, <1>3, <1>4, <1>5, <1>6, <1>7

LEMMA CallStatus ==
    ASSUME Placed, StatusRight, NEW w \in BatchingWorkers, NEW j \in jobs[w], Call(w, j)
    PROVE  StatusRight'
<1> DEFINE k == [j EXCEPT !.stage = "route"]
<1>1. /\ jobs' = [jobs EXCEPT ![w] = (jobs[w] \ {j}) \cup {k}]
      /\ UNCHANGED <<unread, hand, acked, queue, buffer>>
    BY DEF Call
<1>2. /\ w # "acknowledge" /\ j.stage = "call"
      /\ \A e \in Called(w, j) : AfterCall(w, status'[e])
      /\ \A e \in Events : e \notin Called(w, j) => status'[e] = status[e]
      /\ \A e \in Called(w, j) :
            /\ e \notin unread /\ e \notin hand /\ e \notin acked
            /\ \A v \in BatchingWorkers : /\ e \notin ToSet(queue[v])
                                          /\ e \notin ToSet(buffer[v])
                                          /\ e \in EventsOf(jobs[v]) => v = w
    BY CallChanges
<1>3. /\ j \in Jobs /\ k.stage = "route" /\ k.todo = j.todo /\ Called(w, k) = Called(w, j)
      /\ Called(w, j) \subseteq ToSet(j.todo) /\ ToSet(j.todo) \subseteq Events
    BY CallChanges DEF Placed, Types, Jobs, Called
<1> HIDE DEF k
<1>4. JobStatus(w, k)'
    <2>1. ASSUME NEW e \in ToSet(j.todo), e \notin Called(w, j) PROVE Expects(w, status'[e])
        <3>1. Expects(w, status[e])
            BY <1>2, <2>1 DEF StatusRight, JobStatus
        <3> QED
            BY <1>2, <1>3, <2>1, <3>1
    <2>2. /\ w # "acknowledge" /\ k.stage = "route" /\ k.todo = j.todo
          /\ \A e : e \in Called(w, k) <=> e \in Called(w, j)
        BY <1>2, <1>3
    <2> QED
        BY <1>2, <2>1, <2>2 DEF JobStatus, Called, k
<1>5. ASSUME NEW v \in BatchingWorkers, NEW i \in jobs[v], v # w \/ i # j
      PROVE  JobStatus(v, i)'
    <2>1. ASSUME NEW e \in ToSet(i.todo) PROVE e \in Events /\ e \notin Called(w, j)
        <3>1. e \in Events /\ e \in EventsOf(jobs[v])
            BY <2>1, JobFields DEF Placed, Types, EventsOf
        <3>2. CASE v # w
            BY <1>2, <3>1, <3>2
        <3>3. CASE v = w /\ i # j
            <4>1. CallsRight(jobs[w], loop[w])
                BY DEF Placed, JobsRight
            <4>2. e \notin ToSet(j.todo)
                BY <2>1, <3>1, <3>3, <4>1 DEF CallsRight
            <4> QED
                BY <1>3, <3>1, <4>2
        <3> QED
            BY <1>5, <3>2, <3>3
    <2>2. \A e \in ToSet(i.todo) : status'[e] = status[e]
        BY <1>2, <2>1
    <2>3. JobStatus(v, i)
        BY DEF StatusRight
    <2> QED
        BY <2>2, <2>3 DEF JobStatus, Called
<1>6. \A v \in BatchingWorkers : \A i \in jobs'[v] : JobStatus(v, i)'
    <2>1. \A v \in BatchingWorkers : \A i \in jobs'[v] :
            \/ v = w /\ i = k
            \/ i \in jobs[v] /\ (v # w \/ i # j)
        BY <1>1 DEF Placed, Types
    <2> QED
        BY <1>4, <1>5, <2>1
<1>7. /\ \A e \in unread' : status'[e] = "unread"
      /\ \A e \in hand' : status'[e] \in {"log", "failed"}
      /\ \A e \in acked' : Expects("acknowledge", status'[e])
    BY <1>1, <1>2 DEF StatusRight, Placed, Types, TypeOK
<1>8. \A v \in BatchingWorkers : \A e \in Events :
        e \in ToSet(queue'[v]) \/ e \in ToSet(buffer'[v]) => Expects(v, status'[e])
    BY <1>1, <1>2 DEF StatusRight
<1> QED
    BY <1>6, <1>7, <1>8 DEF StatusRight

LEMMA ContinueJobs ==
    ASSUME Placed, NEW w \in BatchingWorkers, NEW j \in jobs[w], NEW k, Continue(w, j, k)
    PROVE  \A v \in BatchingWorkers : \A i \in jobs'[v] : i \in jobs[v] \/ (v = w /\ i = k /\ k.todo # <<>>)
BY DEF Continue, Placed, Types

LEMMA JobStepStatus ==
    ASSUME Placed, StatusRight, NEW w \in BatchingWorkers, NEW j \in jobs[w], JobStep(w, j)
    PROVE  StatusRight'
<1>1. JobStatus(w, j)
    BY DEF StatusRight
<1>2. CASE Call(w, j)
    BY <1>2, CallStatus
<1>3. CASE Route(w, j)
    <2> DEFINE x == Head(j.todo)
               k == AfterRouting(w, j)
    <2>1. x \in Events /\ x \in EventsOf(jobs[w])
        BY CallHead
    <2>2. JobStatus(w, k) /\ AfterCall(w, status[x])
        BY <1>1, <1>3, RestStatus DEF Route
    <2>3. /\ Continue(w, j, k) /\ status[x] # "unreported"
          /\ UNCHANGED <<unread, status, hand, acked, buffer>>
        BY <1>3 DEF Route, eventVars
    <2>4. PICK t \in BatchingWorkers :
            t = Target(w, x) /\ queue' = [queue EXCEPT ![t] = Append(queue[t], x)]
        BY <1>3, TargetType DEF Route
    <2> HIDE DEF x, k
    <2>5. Expects(t, status[x])
        BY <2>2, <2>3, <2>4, TargetExpects
    <2>6. x \notin ToSet(queue[t])
        <3>1. <<"queue", t>> # <<"job", w>>
            OBVIOUS
        <3> QED
            BY <2>1, <3>1, Elsewhere, PlacesByName DEF Placed
    <2>7. \A v \in BatchingWorkers : \A e :
            e \in ToSet(queue'[v]) <=> e \in ToSet(queue[v]) \/ (v = t /\ e = x)
        BY <2>1, <2>4, <2>6, PutInQueue DEF Placed, Items
    <2>8. \A v \in BatchingWorkers : \A i \in jobs'[v] : i \in jobs[v] \/ JobStatus(v, i)
        BY <2>2, <2>3, ContinueJobs
    <2> QED
        BY <2>3, <2>5, <2>7, <2>8, StatusKept
<1>4. CASE DropUnreported(w, j)
    <2>1. JobStatus(w, AfterRouting(w, j))
        BY <1>1, <1>4, RestStatus DEF DropUnreported
    <2>2. /\ Continue(w, j, AfterRouting(w, j))
          /\ UNCHANGED <<unread, status, hand, acked, queue, buffer>>
        BY <1>4 DEF DropUnreported
    <2>3. \A v \in BatchingWorkers : \A i \in jobs'[v] : i \in jobs[v] \/ JobStatus(v, i)
        BY <2>1, <2>2, ContinueJobs
    <2> QED
        BY <2>2, <2>3, StatusKept
<1>5. CASE AcknowledgeBatch(w, j)
    <2> DEFINE k == [j EXCEPT !.todo = <<>>]
    <2>1. /\ Continue(w, j, k) /\ w = "acknowledge" /\ acked' = acked \cup ToSet(j.todo)
          /\ UNCHANGED <<unread, status, hand, queue, buffer>>
        BY <1>5 DEF AcknowledgeBatch
    <2>2. k.todo = <<>>
        BY DEF Placed, Types, Jobs
    <2> HIDE DEF k
    <2>3. \A v \in BatchingWorkers : \A i \in jobs'[v] : i \in jobs[v]
        BY <2>1, <2>2, ContinueJobs
    <2>4. \A e \in ToSet(j.todo) : Expects("acknowledge", status[e])
        BY <1>1, <2>1 DEF JobStatus
    <2> QED
        BY <2>1, <2>3, <2>4, StatusKept
<1>6. CASE HandlerRaises(w, j)
    <2>1. /\ jobs' = [jobs EXCEPT ![w] = jobs[w] \ {j}]
          /\ UNCHANGED <<unread, status, hand, acked, queue, buffer>>
        BY <1>6 DEF HandlerRaises
    <2>2. \A v \in BatchingWorkers : \A i \in jobs'[v] : i \in jobs[v]
        BY <2>1 DEF Placed, Types
    <2> QED
        BY <2>1, <2>2, StatusKept
<1> QED
    BY <1>2, <1>3, <1>4, <1>5, <1>6 DEF JobStep

\* The other steps decide nothing and put no event into a queue.
LEMMA OtherStatus ==
    ASSUME Placed, StatusRight,
           \/ InputEnds \/ InputExhausted \/ InputCrashes \/ RequestStop \/ BeginShutdown
           \/ StopWorker \/ CollectTasks \/ GroupFinishes \/ GroupTimeout \/ TotalTimeout
           \/ UNCHANGED vars
    PROVE  StatusRight'
<1>1. UNCHANGED <<unread, status, acked, buffer>> /\ hand' \subseteq hand
    BY DEF InputEnds, InputExhausted, InputCrashes, RequestStop, BeginShutdown, StopWorker,
           CollectTasks, GroupFinishes, GroupTimeout, TotalTimeout, CancelLoops, vars, eventVars,
           workerVars
<1>2. \A w \in BatchingWorkers : jobs'[w] \subseteq jobs[w]
    BY DEF InputEnds, InputExhausted, InputCrashes, RequestStop, BeginShutdown, StopWorker,
           CollectTasks, GroupFinishes, GroupTimeout, TotalTimeout, CancelLoops, vars, eventVars,
           workerVars
<1>3. \A v \in BatchingWorkers : \A e \in Events : e \in ToSet(queue'[v]) => e \in ToSet(queue[v])
    <2>1. CASE queue' = queue
        BY <2>1
    <2>2. CASE StopWorker /\ queue' # queue
        <3>1. group \in 1 .. 6 /\ Stopping # "input"
            BY <2>2, WorkerNames DEF Placed, Types, TypeOK, StopWorker
        <3>2. group \in 2 .. 6
            BY <3>1, WorkerNames DEF Stopping
        <3>3. PICK w \in BatchingWorkers : w = Stopping
            BY <3>2, WorkerNames DEF Stopping
        <3>4. queue' = [queue EXCEPT ![w] = Append(queue[w], Stop)]
            BY <2>2, <3>1, <3>3 DEF StopWorker
        <3> QED
            BY <3>4, PutInQueue, WorkflowAssumption DEF Placed, Items
    <2>3. queue' = queue \/ StopWorker
        BY DEF InputEnds, InputExhausted, InputCrashes, RequestStop, BeginShutdown,
               CollectTasks, GroupFinishes, GroupTimeout, TotalTimeout, vars, workerVars
    <2> QED
        BY <2>1, <2>2, <2>3
<1> QED
    BY <1>1, <1>2, <1>3, StatusKept

LEMMA StatusInitially == Init => StatusRight
<1> SUFFICES ASSUME Init PROVE StatusRight
    OBVIOUS
<1>1. \A w \in BatchingWorkers : /\ \A e : e \notin ToSet(queue[w]) /\ e \notin ToSet(buffer[w])
                                 /\ jobs[w] = {}
    BY ToSetEmpty DEF Init
<1> QED
    BY <1>1 DEF Init, StatusRight

LEMMA StatusStep == Placed /\ StatusRight /\ [Next]_vars => StatusRight'
<1> SUFFICES ASSUME Placed, StatusRight, [Next]_vars PROVE StatusRight'
    OBVIOUS
<1>1. ASSUME NEW e \in Events, InputReads(e) \/ InputPuts(e) PROVE StatusRight'
    BY <1>1, InputStatus
<1>2. ASSUME NEW w \in BatchingWorkers, Take(w) \/ TakeStop(w) \/ TimerFires(w)
      PROVE  StatusRight'
    BY <1>2, BufferStatus
<1>3. ASSUME NEW w \in BatchingWorkers, NEW j \in jobs[w], JobStep(w, j) PROVE StatusRight'
    BY <1>3, JobStepStatus
<1>4. CASE \/ InputEnds \/ InputExhausted \/ InputCrashes \/ RequestStop \/ BeginShutdown
           \/ StopWorker \/ CollectTasks \/ GroupFinishes \/ GroupTimeout \/ TotalTimeout
           \/ UNCHANGED vars
    BY <1>4, OtherStatus
<1> QED
    BY <1>1, <1>2, <1>3, <1>4 DEF Next

\* What has become of an event fits the place it is in: every queue, buffer
\* and handler call has only events its worker expects (workflow.py).
THEOREM AlwaysStatusRight == Spec => []StatusRight
<1> QED
    BY StatusInitially, StatusStep, AlwaysPlaced, PTL DEF Spec

\* At-least-once: only an event that was stored, reported or deleted by a
\* processor is acknowledged, whatever failed, was cancelled or timed out on
\* its way (workflow.py).
THEOREM AcknowledgedAreSettled == Spec => []AckedIsSettled
<1>1. StatusRight => AckedIsSettled
    BY DEF StatusRight, AckedIsSettled, Expects, SettledStatuses
<1> QED
    BY <1>1, AlwaysStatusRight, PTL

(***************************************************************************)
(* The workflow implements the life cycle of events.                       *)
(***************************************************************************)

\* An event that is somewhere in the workflow has no end yet.
LEMMA EndsAreDisjoint ==
    ASSUME Placed, NEW e \in Events
    PROVE  /\ e \in unread => e \notin acked /\ e \notin givenUp
           /\ e \in hand => e \notin unread /\ e \notin acked /\ e \notin givenUp
           /\ e \in acked => e \notin givenUp
           /\ \A w \in BatchingWorkers : e \in EventsOf(jobs[w]) =>
                e \notin unread /\ e \notin acked /\ e \notin givenUp
BY Elsewhere, PlacesByName, WorkerPlacesDiffer DEF Placed

LEMMA LifecycleInitially == Init => Lifecycle!Init
BY DEF Init, Lifecycle!Init, Settled, SettledStatuses

\* A step that decides nothing and ends nothing is no step of the life cycle.
LEMMA LifecycleStutters ==
    ASSUME UNCHANGED <<unread, status, acked, givenUp>>
    PROVE  UNCHANGED Lifecycle!vars
BY DEF Lifecycle!vars, Settled

LEMMA LifecycleGivesUp ==
    ASSUME Placed, NEW S, S \subseteq Events, UNCHANGED <<unread, status, acked>>,
           givenUp' = givenUp \cup S,
           \A e \in S : e \notin unread /\ e \notin acked /\ e \notin givenUp
    PROVE  [Lifecycle!Next]_Lifecycle!vars
<1>1. CASE S = {}
    <2>1. givenUp' = givenUp
        BY <1>1
    <2> QED
        BY <2>1, LifecycleStutters
<1>2. CASE S # {}
    <2>1. /\ Settled' = Settled \ S
          /\ (Events \ (unread \cup Settled \cup acked \cup givenUp))' =
                (Events \ (unread \cup Settled \cup acked \cup givenUp)) \ S
          /\ S \subseteq (Events \ (unread \cup Settled \cup acked \cup givenUp)) \cup Settled
        BY DEF Settled
    <2>2. Lifecycle!GiveUp(S)
        BY <1>2, <2>1 DEF Lifecycle!GiveUp
    <2> QED
        BY <2>2 DEF Lifecycle!Next
<1> QED
    BY <1>1, <1>2

LEMMA LifecycleReads ==
    ASSUME Placed, StatusRight, NEW x \in Events, InputReads(x)
    PROVE  Lifecycle!Next
<1>1. /\ x \in unread /\ unread' = unread \ {x} /\ UNCHANGED <<acked, givenUp>>
      /\ x \notin acked /\ x \notin givenUp
    BY EndsAreDisjoint DEF InputReads
<1>2. status'[x] \in {"log", "failed"} /\ \A e \in Events : e # x => status'[e] = status[e]
    BY DEF InputReads, Placed, Types, TypeOK
<1>3. status[x] = "unread"
    BY <1>1 DEF StatusRight
<1>4. Settled' = Settled
    BY <1>1, <1>2, <1>3 DEF Settled, SettledStatuses
<1>5. (Events \ (unread \cup Settled \cup acked \cup givenUp))' =
            (Events \ (unread \cup Settled \cup acked \cup givenUp)) \cup {x}
    <2>1. x \notin Settled
        BY <1>3 DEF Settled, SettledStatuses
    <2> QED
        BY <1>1, <1>4, <2>1
<1>6. Lifecycle!Read(x)
    BY <1>1, <1>4, <1>5 DEF Lifecycle!Read
<1> QED
    BY <1>6 DEF Lifecycle!Next

\* A handler's call settles some of its events.
LEMMA LifecycleSettles ==
    ASSUME Placed, StatusRight, NEW w \in BatchingWorkers, NEW j \in jobs[w], Call(w, j)
    PROVE  [Lifecycle!Next]_Lifecycle!vars
<1> DEFINE es == {e \in Called(w, j) : status'[e] \in SettledStatuses}
<1>1. /\ Called(w, j) \subseteq Events
      /\ \A e \in Called(w, j) :
            /\ w # "acknowledge" /\ Expects(w, status[e])
            /\ e \notin unread /\ e \notin acked /\ e \notin givenUp
      /\ \A e \in Events : e \notin Called(w, j) => status'[e] = status[e]
    BY CallChanges
<1>2. UNCHANGED <<unread, acked, givenUp>>
    BY DEF Call
<1>3. \A e \in Called(w, j) : e \notin Settled
    BY <1>1 DEF Settled, SettledStatuses, Expects
<1>4. es \subseteq Events \ (unread \cup Settled \cup acked \cup givenUp)
    BY <1>1, <1>3
<1>5. Settled' = Settled \cup es
    BY <1>1, <1>2, <1>3 DEF Settled
<1>6. (Events \ (unread \cup Settled \cup acked \cup givenUp))' =
            (Events \ (unread \cup Settled \cup acked \cup givenUp)) \ es
    BY <1>2, <1>5
<1> HIDE DEF es
<1>7. CASE es = {}
    BY <1>2, <1>5, <1>6, <1>7 DEF Lifecycle!vars
<1>8. CASE es # {}
    <2>1. Lifecycle!Settle(es, {})
        BY <1>2, <1>4, <1>5, <1>6, <1>8 DEF Lifecycle!Settle
    <2>2. es \in SUBSET Events /\ {} \in SUBSET Events
        BY <1>4
    <2> QED
        BY <2>1, <2>2 DEF Lifecycle!Next
<1> QED
    BY <1>7, <1>8

LEMMA LifecycleAcknowledges ==
    ASSUME Placed, StatusRight, NEW w \in BatchingWorkers, NEW j \in jobs[w],
           AcknowledgeBatch(w, j)
    PROVE  Lifecycle!Next
<1> DEFINE es == ToSet(j.todo)
<1>1. /\ w = "acknowledge" /\ acked' = acked \cup es /\ UNCHANGED <<unread, status, givenUp>>
    BY DEF AcknowledgeBatch
<1>2. /\ Head(j.todo) \in es /\ es \subseteq Events /\ es \subseteq EventsOf(jobs[w])
      /\ JobStatus(w, j)
    BY CallHead, JobFields DEF StatusRight, EventsOf
<1>3. \A e \in es : status[e] \in SettledStatuses
    BY <1>1, <1>2 DEF JobStatus, Expects, SettledStatuses
<1>4. \A e \in es : e \notin unread /\ e \notin acked /\ e \notin givenUp
    BY <1>2, EndsAreDisjoint
<1> HIDE DEF es
<1>5. /\ es \subseteq Settled /\ Settled' = Settled \ es
      /\ (Events \ (unread \cup Settled \cup acked \cup givenUp))' =
            Events \ (unread \cup Settled \cup acked \cup givenUp)
    BY <1>1, <1>2, <1>3, <1>4 DEF Settled
<1>6. Lifecycle!Acknowledge(es)
    BY <1>1, <1>2, <1>5 DEF Lifecycle!Acknowledge
<1> QED
    BY <1>2, <1>6 DEF Lifecycle!Next

LEMMA LifecycleStep ==
    ASSUME Placed, StatusRight, [Next]_vars
    PROVE  [Lifecycle!Next]_Lifecycle!vars
<1>1. ASSUME NEW e \in Events, InputReads(e) PROVE [Lifecycle!Next]_Lifecycle!vars
    BY <1>1, LifecycleReads
<1>2. ASSUME NEW e \in Events, InputPuts(e) PROVE [Lifecycle!Next]_Lifecycle!vars
    BY <1>2, LifecycleStutters DEF InputPuts
<1>3. ASSUME NEW w \in BatchingWorkers, Take(w) \/ TakeStop(w) \/ TimerFires(w)
      PROVE  [Lifecycle!Next]_Lifecycle!vars
    BY <1>3, LifecycleStutters DEF Take, TakeStop, TimerFires, eventVars
<1>4. ASSUME NEW w \in BatchingWorkers, NEW j \in jobs[w], JobStep(w, j)
      PROVE  [Lifecycle!Next]_Lifecycle!vars
    <2>1. CASE Call(w, j)
        BY <2>1, LifecycleSettles
    <2>2. CASE Route(w, j)
        BY <2>2, LifecycleStutters DEF Route, eventVars
    <2>3. CASE DropUnreported(w, j)
        <3> DEFINE S == {Head(j.todo)}
        <3>1. /\ S \subseteq Events /\ givenUp' = givenUp \cup S
              /\ \A e \in S : e \notin unread /\ e \notin acked /\ e \notin givenUp
              /\ UNCHANGED <<unread, status, acked>>
            BY <2>3, CallHead, EndsAreDisjoint DEF DropUnreported
        <3> HIDE DEF S
        <3> QED
            BY <3>1, LifecycleGivesUp
    <2>4. CASE AcknowledgeBatch(w, j)
        BY <2>4, LifecycleAcknowledges
    <2>5. CASE HandlerRaises(w, j)
        <3> DEFINE S == ToSet(j.todo)
        <3>1. S \subseteq Events /\ S \subseteq EventsOf(jobs[w])
            BY JobFields DEF Placed, Types, EventsOf
        <3>2. /\ givenUp' = givenUp \cup S
              /\ \A e \in S : e \notin unread /\ e \notin acked /\ e \notin givenUp
              /\ UNCHANGED <<unread, status, acked>>
            BY <2>5, <3>1, EndsAreDisjoint DEF HandlerRaises
        <3> HIDE DEF S
        <3> QED
            BY <3>1, <3>2, LifecycleGivesUp
    <2> QED
        BY <1>4, <2>1, <2>2, <2>3, <2>4, <2>5 DEF JobStep
<1>5. CASE \/ InputEnds \/ InputExhausted \/ InputCrashes \/ RequestStop \/ BeginShutdown
           \/ StopWorker \/ CollectTasks \/ GroupFinishes \/ UNCHANGED vars
    BY <1>5, LifecycleStutters DEF InputEnds, InputExhausted, InputCrashes, RequestStop,
       BeginShutdown, StopWorker, CollectTasks, GroupFinishes, vars, eventVars
<1>6. ASSUME NEW ws \in SUBSET Workers, CancelLoops(ws), UNCHANGED <<unread, status, acked>>
      PROVE  [Lifecycle!Next]_Lifecycle!vars
    <2> DEFINE S == Unfinished(ws)
    <2>1. givenUp' = givenUp \cup S
        BY <1>6 DEF CancelLoops, Unfinished, LoopCalls
    <2>2. /\ ws \ {"input"} \subseteq BatchingWorkers
          /\ \A w \in BatchingWorkers : /\ jobs[w] \in SUBSET Jobs
                                        /\ LoopCalls(w) \in SUBSET Jobs
                                        /\ \A e \in EventsOf(LoopCalls(w)) : e \in EventsOf(jobs[w])
        BY WorkerNames DEF Placed, Types, LoopCalls, EventsOf
    <2>3. \A e \in S : \/ \E w \in BatchingWorkers : e \in EventsOf(jobs[w])
                       \/ e \in hand
        BY <2>2 DEF Unfinished
    <2> HIDE DEF S
    <2>4. S \subseteq Events
        BY <2>2, <2>3, EventsOfType DEF Placed, Types, TypeOK
    <2>5. \A e \in S : e \notin unread /\ e \notin acked /\ e \notin givenUp
        BY <2>3, <2>4, EndsAreDisjoint
    <2> QED
        BY <1>6, <2>1, <2>4, <2>5, LifecycleGivesUp
<1>7. CASE GroupTimeout
    <2>1. {Stopping} \in SUBSET Workers
        BY WorkerNames DEF Placed, Types, TypeOK, Stopping, Workers, ToSet
    <2> QED
        BY <1>6, <1>7, <2>1 DEF GroupTimeout
<1>8. CASE TotalTimeout
    <2>1. {w \in Workers : ~ Finished(w)} \in SUBSET Workers
        OBVIOUS
    <2> QED
        BY <1>6, <1>8, <2>1 DEF TotalTimeout
<1> QED
    BY <1>1, <1>2, <1>3, <1>4, <1>5, <1>7, <1>8 DEF Next

\* Whatever interleaving of workers, timers and shutdown: every event is read,
\* settled and then acknowledged, or given up and never acknowledged (workflow.py,
\* worker.py).
THEOREM WorkflowImplementsLifecycle == Spec => ImplementsLifecycle
<1>1. Spec => [](Placed /\ StatusRight)
    BY AlwaysPlaced, AlwaysStatusRight, PTL
<1>2. Placed /\ StatusRight /\ [Next]_vars => [Lifecycle!Next]_Lifecycle!vars
    BY LifecycleStep
<1> QED
    BY <1>1, <1>2, LifecycleInitially, PTL DEF Spec, ImplementsLifecycle, Lifecycle!Spec

(***************************************************************************)
(* Workers end in the order of the data flow.                              *)
(***************************************************************************)
Before(v, w) ==
    \E i, k \in DOMAIN StopOrder : i < k /\ v = StopOrder[i] /\ w = StopOrder[k]

\* Every worker sends events to later ones only.
LEMMA DataFlow ==
    /\ \A i, k \in 1 .. 6 : StopOrder[i] = StopOrder[k] => i = k
    /\ Before("input", "processing") /\ Before("input", "error")
    /\ Before("processing", "extra_output") /\ Before("processing", "output")
    /\ Before("processing", "error") /\ Before("processing", "acknowledge")
    /\ Before("extra_output", "output") /\ Before("extra_output", "error")
    /\ Before("extra_output", "acknowledge")
    /\ Before("output", "error") /\ Before("output", "acknowledge")
    /\ Before("error", "acknowledge")
<1>1. /\ DOMAIN StopOrder = {1, 2, 3, 4, 5, 6} /\ 1 .. 6 = {1, 2, 3, 4, 5, 6}
      /\ StopOrder[1] = "input" /\ StopOrder[2] = "processing" /\ StopOrder[3] = "extra_output"
      /\ StopOrder[4] = "output" /\ StopOrder[5] = "error" /\ StopOrder[6] = "acknowledge"
    BY WorkerNames DEF StopOrder
<1>2. \A i, k \in 1 .. 6 : StopOrder[i] = StopOrder[k] => i = k
    BY <1>1
<1>3. \A i, k \in {1, 2, 3, 4, 5, 6} : i < k => Before(StopOrder[i], StopOrder[k])
    BY <1>1 DEF Before
<1>4. /\ Before(StopOrder[1], StopOrder[2]) /\ Before(StopOrder[1], StopOrder[5])
      /\ Before(StopOrder[2], StopOrder[3]) /\ Before(StopOrder[2], StopOrder[4])
      /\ Before(StopOrder[2], StopOrder[5]) /\ Before(StopOrder[2], StopOrder[6])
      /\ Before(StopOrder[3], StopOrder[4]) /\ Before(StopOrder[3], StopOrder[5])
      /\ Before(StopOrder[3], StopOrder[6])
      /\ Before(StopOrder[4], StopOrder[5]) /\ Before(StopOrder[4], StopOrder[6])
      /\ Before(StopOrder[5], StopOrder[6])
    BY <1>3
<1> QED
    BY <1>1, <1>2, <1>4

LEMMA TargetIsLater ==
    ASSUME NEW w \in BatchingWorkers, NEW e, AfterCall(w, status[e]), status[e] # "unreported"
    PROVE  Before(w, Target(w, e))
<1>1. Expects(Target(w, e), status[e])
    BY TargetExpects
<1> QED
    BY <1>1, DataFlow DEF AfterCall, Expects

\* Workers that are before the one being stopped, or before one that has met
\* its sentinel or has it in its queue, have come to their end.
StopsRight ==
    /\ \A v \in Workers : Before(v, Stopping) => loop[v] \in Ended
    /\ \A w \in BatchingWorkers :
        Stop \in ToSet(queue[w]) \/ loop[w] \in {"draining", "ended"} =>
            \A v \in Workers : Before(v, w) => loop[v] \in Ended

\* How a step changes the loop and the queue of a worker.
LoopAdvances ==
    /\ \A w \in Workers : loop[w] \in Ended => loop'[w] = loop[w]
    /\ \A w \in BatchingWorkers :
        /\ loop'[w] \in {"draining", "ended"} =>
                loop[w] \in {"draining", "ended"} \/ Stop \in ToSet(queue[w])
        /\ Stop \in ToSet(queue'[w]) => Stop \in ToSet(queue[w]) \/ w = Stopping

LEMMA QueueTail ==
    ASSUME Types, NEW w \in BatchingWorkers, queue[w] # <<>>,
           queue' = [queue EXCEPT ![w] = Tail(queue[w])]
    PROVE  /\ Head(queue[w]) \in ToSet(queue[w])
           /\ \A v \in BatchingWorkers : ToSet(queue'[v]) \subseteq ToSet(queue[v])
<1>1. queue[w] \in Seq(Items) /\ queue \in [BatchingWorkers -> Seq(Items)]
    BY DEF Types, TypeOK, Items
<1>2. ToSet(queue[w]) = {Head(queue[w])} \cup ToSet(Tail(queue[w]))
    BY <1>1, ToSetHeadTail
<1> QED
    BY <1>1, <1>2

LEMMA QueueAppend ==
    ASSUME Types, NEW w \in BatchingWorkers, NEW x \in Items,
           queue' = [queue EXCEPT ![w] = Append(queue[w], x)]
    PROVE  \A v \in BatchingWorkers : \A e :
                e \in ToSet(queue'[v]) <=> e \in ToSet(queue[v]) \/ (v = w /\ e = x)
<1>1. queue[w] \in Seq(Items) /\ queue \in [BatchingWorkers -> Seq(Items)]
    BY DEF Types, TypeOK, Items
<1>2. ToSet(Append(queue[w], x)) = ToSet(queue[w]) \cup {x}
    BY <1>1, ToSetAppend
<1> QED
    BY <1>1, <1>2

LEMMA ContinueLoop ==
    ASSUME Placed, NEW w \in BatchingWorkers, NEW j \in jobs[w], NEW k, Continue(w, j, k)
    PROVE  /\ \A v \in Workers : v # w => loop'[v] = loop[v]
           /\ loop[w] \in Ended => loop'[w] = loop[w]
           /\ loop'[w] \in {"draining", "ended"} => loop[w] \in {"draining", "ended"}
<1>1. loop \in [Workers -> LoopStates] /\ w \in Workers
    BY WorkerNames DEF Placed, Types, TypeOK, LoopStates
<1>2. j.by = "loop" => loop[w] \notin Ended
    BY DEF Placed, JobsRight, CallsRight, Ended
<1> QED
    BY <1>1, <1>2 DEF Continue, EndLoop, Ended

LEMMA LoopsAdvance ==
    ASSUME Placed, [Next]_vars
    PROVE  LoopAdvances
<1>1. /\ loop \in [Workers -> LoopStates] /\ "input" \in Workers /\ "input" \notin BatchingWorkers
      /\ BatchingWorkers \subseteq Workers /\ Stop \in Items /\ Stop \notin Events
    BY WorkerNames, WorkflowAssumption DEF Placed, Types, TypeOK, LoopStates, Items
<1>2. ASSUME NEW e \in Events, InputReads(e) PROVE LoopAdvances
    BY <1>1, <1>2 DEF InputReads, LoopAdvances, Ended
<1>3. ASSUME NEW e \in Events, InputPuts(e) PROVE LoopAdvances
    <2>1. InputTarget(e) \in BatchingWorkers /\ e \in Items
        BY WorkerNames DEF InputTarget, Items
    <2>2. \A v \in BatchingWorkers : Stop \in ToSet(queue'[v]) => Stop \in ToSet(queue[v])
        BY <1>1, <1>3, <2>1, QueueAppend DEF InputPuts, Placed
    <2> QED
        BY <1>1, <1>3, <2>2 DEF InputPuts, EndLoop, LoopAdvances, Ended
<1>4. CASE InputEnds \/ InputExhausted \/ InputCrashes
    BY <1>1, <1>4 DEF InputEnds, InputExhausted, InputCrashes, EndLoop, LoopAdvances, Ended
<1>5. ASSUME NEW w \in BatchingWorkers, Take(w) PROVE LoopAdvances
    <2>1. /\ \A v \in BatchingWorkers : ToSet(queue'[v]) \subseteq ToSet(queue[v])
          /\ loop[w] = "waiting" /\ loop'[w] \in {"waiting", "flushing"}
          /\ \A v \in Workers : v # w => loop'[v] = loop[v]
        BY <1>1, <1>5, QueueTail DEF Take, Placed
    <2> QED
        BY <1>1, <2>1 DEF LoopAdvances, Ended
<1>6. ASSUME NEW w \in BatchingWorkers, TakeStop(w) PROVE LoopAdvances
    <2>1. /\ \A v \in BatchingWorkers : ToSet(queue'[v]) \subseteq ToSet(queue[v])
          /\ Stop \in ToSet(queue[w]) /\ loop[w] = "waiting"
        BY <1>6, QueueTail DEF TakeStop, Placed
    <2>2. \A v \in Workers : v # w => loop'[v] = loop[v]
        BY <1>1, <1>6 DEF TakeStop, EndLoop
    <2> QED
        BY <1>1, <2>1, <2>2 DEF LoopAdvances, Ended
<1>7. ASSUME NEW w \in BatchingWorkers, TimerFires(w) PROVE LoopAdvances
    BY <1>7 DEF TimerFires, LoopAdvances
<1>8. ASSUME NEW w \in BatchingWorkers, NEW j \in jobs[w], JobStep(w, j) PROVE LoopAdvances
    <2>1. \A v \in BatchingWorkers : Stop \in ToSet(queue'[v]) => Stop \in ToSet(queue[v])
        <3>1. CASE Route(w, j)
            <4>1. Head(j.todo) \in Items /\ Head(j.todo) # Stop
                BY <1>1, CallHead DEF Items
            <4>2. PICK t \in BatchingWorkers :
                    queue' = [queue EXCEPT ![t] = Append(queue[t], Head(j.todo))]
                BY <3>1, TargetType DEF Route
            <4>3. PICK x \in Items : x = Head(j.todo)
                BY <4>1
            <4>4. queue' = [queue EXCEPT ![t] = Append(queue[t], x)] /\ x # Stop
                BY <4>1, <4>2, <4>3
            <4>5. Types
                BY DEF Placed
            <4>6. \A v \in BatchingWorkers : \A y :
                    y \in ToSet(queue'[v]) <=> y \in ToSet(queue[v]) \/ (v = t /\ y = x)
                BY <4>4, <4>5, QueueAppend
            <4> QED
                BY <4>4, <4>6
        <3>2. CASE queue' = queue
            BY <3>2
        <3> QED
            BY <1>8, <3>1, <3>2 DEF JobStep, Call, DropUnreported, AcknowledgeBatch,
               HandlerRaises
    <2>2. CASE Call(w, j)
        BY <2>1, <2>2 DEF Call, LoopAdvances
    <2>3. ASSUME NEW k, Continue(w, j, k) PROVE LoopAdvances
        BY <1>1, <2>1, <2>3, ContinueLoop DEF LoopAdvances
    <2>4. CASE HandlerRaises(w, j)
        <3>1. j.by = "loop" => loop[w] \notin Ended
            BY DEF Placed, JobsRight, CallsRight, Ended
        <3> QED
            BY <1>1, <2>1, <2>4, <3>1 DEF HandlerRaises, EndLoop, LoopAdvances, Ended
    <2> QED
        BY <1>8, <2>2, <2>3, <2>4 DEF JobStep, Route, DropUnreported, AcknowledgeBatch
<1>9. CASE RequestStop \/ BeginShutdown \/ CollectTasks \/ GroupFinishes \/ UNCHANGED vars
    BY <1>9 DEF RequestStop, BeginShutdown, CollectTasks, GroupFinishes, vars, workerVars,
       LoopAdvances
<1>10. CASE StopWorker
    <2>1. loop' = loop
        BY <1>10 DEF StopWorker
    <2>2. \A v \in BatchingWorkers :
            Stop \in ToSet(queue'[v]) => Stop \in ToSet(queue[v]) \/ v = Stopping
        <3>1. CASE Stopping = "input"
            BY <1>10, <3>1 DEF StopWorker
        <3>2. CASE Stopping # "input"
            <4>1. group \in 2 .. 6
                BY <3>2, WorkerNames DEF Placed, Types, TypeOK, Stopping
            <4>2. PICK w \in BatchingWorkers : w = Stopping
                BY <4>1, WorkerNames DEF Stopping
            <4>3. queue' = [queue EXCEPT ![w] = Append(queue[w], Stop)]
                BY <1>10, <3>2, <4>2 DEF StopWorker
            <4> QED
                BY <1>1, <4>2, <4>3, QueueAppend DEF Placed
        <3> QED
            BY <3>1, <3>2
    <2> QED
        BY <2>1, <2>2 DEF LoopAdvances
<1>11. ASSUME NEW ws, CancelLoops(ws), queue' = queue,
              \A w \in ws : loop[w] \notin Ended
       PROVE  LoopAdvances
    BY <1>1, <1>11 DEF CancelLoops, LoopAdvances, Ended
<1>12. CASE GroupTimeout \/ TotalTimeout
    BY <1>11, <1>12 DEF GroupTimeout, TotalTimeout, Finished
<1> QED
    BY <1>2, <1>3, <1>4, <1>5, <1>6, <1>7, <1>8, <1>9, <1>10, <1>12 DEF Next

LEMMA StopsInitially == Init => StopsRight
<1>1. /\ \A i, k \in 1 .. 6 : StopOrder[i] = StopOrder[k] => i = k
      /\ DOMAIN StopOrder = 1 .. 6
    BY DataFlow, WorkerNames
<1>2. ASSUME Init PROVE \A v : ~ Before(v, Stopping)
    BY <1>1, <1>2 DEF Init, Before, Stopping
<1>3. ASSUME Init, NEW w \in BatchingWorkers
      PROVE  loop[w] = "waiting" /\ Stop \notin ToSet(queue[w])
    BY <1>3, WorkerNames, ToSetEmpty DEF Init
<1> QED
    BY <1>2, <1>3 DEF StopsRight

\* The orchestrator goes on to the next worker only behind one that has ended.
LEMMA GroupsAdvance ==
    ASSUME Types, [Next]_vars
    PROVE  \/ group' = group
           \/ group' = group + 1 /\ loop[Stopping] \in Ended
<1>1. ASSUME NEW e \in Events, InputReads(e) \/ InputPuts(e) PROVE group' = group
    BY <1>1 DEF InputReads, InputPuts, orchestratorVars
<1>2. CASE InputEnds \/ InputExhausted \/ InputCrashes
    BY <1>2 DEF InputEnds, InputExhausted, InputCrashes
<1>3. ASSUME NEW w \in BatchingWorkers, Take(w) \/ TakeStop(w) \/ TimerFires(w)
      PROVE  group' = group
    BY <1>3 DEF Take, TakeStop, TimerFires, orchestratorVars
<1>4. ASSUME NEW w \in BatchingWorkers, NEW j \in jobs[w], JobStep(w, j) PROVE group' = group
    BY <1>4 DEF JobStep, Call, Route, DropUnreported, AcknowledgeBatch, HandlerRaises,
       orchestratorVars
<1>5. CASE RequestStop \/ BeginShutdown \/ StopWorker \/ GroupTimeout \/ TotalTimeout
    BY <1>5 DEF RequestStop, BeginShutdown, StopWorker, GroupTimeout, TotalTimeout
<1>6. CASE CollectTasks
    BY <1>6 DEF CollectTasks, NextGroup, Finished
<1>7. CASE GroupFinishes
    BY <1>7 DEF GroupFinishes, NextGroup, Finished
<1>8. CASE UNCHANGED vars
    BY <1>8 DEF vars, orchestratorVars
<1> QED
    BY <1>1, <1>2, <1>3, <1>4, <1>5, <1>6, <1>7, <1>8 DEF Next

LEMMA StopsStep == Placed /\ StopsRight /\ [Next]_vars => StopsRight'
<1> SUFFICES ASSUME Placed, StopsRight, [Next]_vars PROVE StopsRight'
    OBVIOUS
<1>1. Types /\ BatchingWorkers \subseteq Workers
    BY WorkerNames DEF Placed
<1>2. LoopAdvances
    BY LoopsAdvance
<1>3. \A v \in Workers : loop[v] \in Ended => loop'[v] \in Ended
    BY <1>2 DEF LoopAdvances
<1>4. \A v \in Workers : Before(v, Stopping)' => loop'[v] \in Ended
    <2>1. CASE group' = group
        BY <1>3, <2>1 DEF StopsRight, Before, Stopping
    <2>2. CASE group' = group + 1 /\ loop[Stopping] \in Ended
        <3>1. /\ \A i, k \in 1 .. 6 : StopOrder[i] = StopOrder[k] => i = k
              /\ DOMAIN StopOrder = 1 .. 6 /\ Stopping \in Workers
            BY <1>1, DataFlow, WorkerNames DEF Types, TypeOK, Stopping
        <3>2. group \in 1 .. 6 /\ group' \in 1 .. 6
            <4>1. TypeOK'
                BY PlacedStep DEF Placed, Types
            <4> QED
                BY <1>1, <3>1, <4>1 DEF Types, TypeOK
        <3>3. ASSUME NEW v \in Workers, Before(v, Stopping)'
              PROVE  v = Stopping \/ Before(v, Stopping)
            <4>1. PICK i, k \in 1 .. 6 : i < k /\ v = StopOrder[i] /\ StopOrder[group'] = StopOrder[k]
                BY <3>1, <3>3 DEF Before, Stopping
            <4>2. k = group + 1
                BY <2>2, <3>1, <3>2, <4>1
            <4>3. i = group \/ i < group
                BY <3>2, <4>1, <4>2
            <4> QED
                BY <3>1, <3>2, <4>1, <4>3 DEF Before, Stopping
        <3> QED
            BY <1>3, <2>2, <3>1, <3>3 DEF StopsRight
    <2> QED
        BY <1>1, <2>1, <2>2, GroupsAdvance
<1>5. ASSUME NEW w \in BatchingWorkers,
             Stop \in ToSet(queue'[w]) \/ loop'[w] \in {"draining", "ended"},
             NEW v \in Workers, Before(v, w)
      PROVE  loop'[v] \in Ended
    <2>1. \/ Stop \in ToSet(queue[w]) \/ loop[w] \in {"draining", "ended"}
          \/ w = Stopping
        BY <1>2, <1>5 DEF LoopAdvances
    <2>2. loop[v] \in Ended
        BY <1>5, <2>1 DEF StopsRight
    <2> QED
        BY <1>3, <2>2
<1> QED
    BY <1>4, <1>5 DEF StopsRight, Before

LEMMA AlwaysStopsRight == Spec => []StopsRight
<1>1. Spec => []Placed
    BY AlwaysPlaced
<1> QED
    BY <1>1, StopsInitially, StopsStep, PTL DEF Spec

\* Workers finish in the order of the data flow, for every number of events and
\* every size of queues and batches (iterate_workers_topologically, stop).
THEOREM WorkersEndInOrder == Spec => []UpstreamEndsFirst
<1>1. StopsRight => UpstreamEndsFirst
    <2> SUFFICES ASSUME StopsRight, NEW i \in DOMAIN StopOrder, NEW k \in DOMAIN StopOrder,
                        i < k, loop[StopOrder[k]] = "ended"
                 PROVE  loop[StopOrder[i]] \in Ended
        BY DEF UpstreamEndsFirst
    <2>1. /\ i \in 1 .. 6 /\ k \in 2 .. 6
          /\ StopOrder[i] \in Workers /\ StopOrder[k] \in BatchingWorkers
        BY WorkerNames
    <2>2. Before(StopOrder[i], StopOrder[k])
        BY DEF Before
    <2> QED
        BY <2>1, <2>2 DEF StopsRight
<1> QED
    BY <1>1, AlwaysStopsRight, PTL

(***************************************************************************)
(* A graceful shutdown leaves nothing but late flushes.                    *)
(***************************************************************************)
Leaving(w) == loop[w] \in {"draining", "ended"}

\* Every worker before w has come to its regular end.
Graceful(w) == \A v \in Workers : Before(v, w) => loop[v] = "ended"

\* What is behind a sentinel in the sequence s.
BehindStop(s) == {s[k] : k \in {m \in DOMAIN s : \E i \in DOMAIN s : i < m /\ s[i] = Stop}}

\* Once its upstream has ended, a worker finds behind its sentinel nothing but
\* events of late flushes; they stay in its queue.
LateRight ==
    \A w \in BatchingWorkers :
        /\ Leaving(w) => buffer[w] = <<>>
        /\ loop[w] = "ended" => EventsOf(jobs[w]) \subseteq lateFlush
        /\ Graceful(w) =>
            /\ BehindStop(queue[w]) \subseteq lateFlush \cup {Stop}
            /\ Leaving(w) => ToSet(queue[w]) \subseteq lateFlush \cup {Stop}

LEMMA BehindAppend ==
    ASSUME NEW s \in Seq(Items), NEW x \in Items
    PROVE  BehindStop(Append(s, x)) \subseteq BehindStop(s) \cup {x}
<1>1. /\ DOMAIN s = 1 .. Len(s) /\ Len(s) \in Nat
      /\ DOMAIN Append(s, x) = 1 .. Len(s) + 1
      /\ \A i \in 1 .. Len(s) : Append(s, x)[i] = s[i]
      /\ Append(s, x)[Len(s) + 1] = x
    BY LenProperties, AppendProperties
<1>2. ASSUME NEW i \in 1 .. Len(s) + 1, NEW m \in 1 .. Len(s) + 1, i < m,
             Append(s, x)[i] = Stop
      PROVE  Append(s, x)[m] \in BehindStop(s) \cup {x}
    <2>1. CASE m = Len(s) + 1
        BY <1>1, <2>1
    <2>2. CASE m # Len(s) + 1
        <3>1. i \in 1 .. Len(s) /\ m \in 1 .. Len(s)
            BY <1>1, <1>2, <2>2
        <3> QED
            BY <1>1, <1>2, <3>1 DEF BehindStop
    <2> QED
        BY <2>1, <2>2
<1> QED
    BY <1>1, <1>2 DEF BehindStop

LEMMA BehindTail ==
    ASSUME NEW s \in Seq(Items), s # <<>>
    PROVE  /\ BehindStop(Tail(s)) \subseteq BehindStop(s)
           /\ Head(s) = Stop => ToSet(Tail(s)) \subseteq BehindStop(s)
<1>1. /\ DOMAIN s = 1 .. Len(s) /\ Len(s) \in Nat \ {0} /\ Head(s) = s[1]
      /\ DOMAIN Tail(s) = 1 .. Len(s) - 1
      /\ \A i \in 1 .. Len(s) - 1 : Tail(s)[i] = s[i + 1]
    BY LenProperties, EmptySeq, HeadTailProperties
<1>2. \A i, m \in 1 .. Len(s) : i < m /\ s[i] = Stop => s[m] \in BehindStop(s)
    BY <1>1 DEF BehindStop
<1>3. \A i, m \in 1 .. Len(s) - 1 : i < m /\ Tail(s)[i] = Stop => Tail(s)[m] \in BehindStop(s)
    <2> SUFFICES ASSUME NEW i \in 1 .. Len(s) - 1, NEW m \in 1 .. Len(s) - 1,
                        i < m, Tail(s)[i] = Stop
                 PROVE  Tail(s)[m] \in BehindStop(s)
        OBVIOUS
    <2>1. i + 1 \in 1 .. Len(s) /\ m + 1 \in 1 .. Len(s) /\ i + 1 < m + 1
        BY <1>1
    <2> QED
        BY <1>1, <1>2, <2>1
<1>4. BehindStop(Tail(s)) \subseteq BehindStop(s)
    BY <1>1, <1>3 DEF BehindStop
<1>5. ASSUME Head(s) = Stop, NEW m \in 1 .. Len(s) - 1 PROVE Tail(s)[m] \in BehindStop(s)
    <2>1. 1 \in 1 .. Len(s) /\ m + 1 \in 1 .. Len(s) /\ 1 < m + 1
        BY <1>1
    <2> QED
        BY <1>1, <1>2, <1>5, <2>1
<1> QED
    BY <1>1, <1>4, <1>5 DEF ToSet

LEMMA BehindNothing ==
    ASSUME NEW s, Stop \notin ToSet(s)
    PROVE  BehindStop(s) = {}
BY DEF BehindStop, ToSet

\* How a step changes what w has to hand: its buffer and its handler calls.
HandlersAdvance(w) ==
    /\ buffer'[w] # <<>> => buffer'[w] = buffer[w] \/ loop[w] = "waiting"
    /\ loop'[w] \in {"draining", "ended"} => Leaving(w) \/ buffer'[w] = <<>>
    /\ loop[w] = "ended" /\ buffer[w] = <<>> =>
            EventsOf(jobs'[w]) \subseteq EventsOf(jobs[w])
    /\ loop'[w] = "ended" => loop[w] = "ended" \/ EventsOf(jobs'[w]) \subseteq lateFlush'

\* When nothing but a queue and a status changes.
LEMMA HandlersRest ==
    ASSUME NEW w \in BatchingWorkers, buffer'[w] = buffer[w],
           \A e : e \in EventsOf(jobs'[w]) => e \in EventsOf(jobs[w]),
           loop'[w] \in {"draining", "ended"} => loop'[w] = loop[w]
    PROVE  HandlersAdvance(w)
BY DEF HandlersAdvance, Leaving

LEMMA ContinueHandlers ==
    ASSUME Placed, NEW w \in BatchingWorkers, NEW j \in jobs[w], NEW k, Continue(w, j, k),
           \/ k.todo = <<>>
           \/ /\ k \in Jobs /\ k.by = j.by /\ Once(k.todo)
              /\ ToSet(k.todo) \subseteq ToSet(j.todo),
           buffer' = buffer
    PROVE  /\ lateFlush \subseteq lateFlush'
           /\ \A v \in BatchingWorkers : HandlersAdvance(v)
<1>1. /\ w \in Workers /\ loop \in [Workers -> LoopStates]
      /\ jobs \in [BatchingWorkers -> SUBSET Jobs] /\ CallsRight(jobs[w], loop[w])
      /\ BatchingWorkers \subseteq Workers
    BY WorkerNames DEF Placed, Types, TypeOK, JobsRight, LoopStates
<1>2. \A v \in BatchingWorkers : \A e : e \in EventsOf(jobs'[v]) => e \in EventsOf(jobs[v])
    BY ContinueRight
<1>3. lateFlush \subseteq lateFlush'
    BY DEF Continue
<1>4. ASSUME NEW v \in BatchingWorkers, v # w PROVE HandlersAdvance(v)
    <2>1. loop'[v] = loop[v]
        BY <1>1, <1>4, ContinueLoop
    <2> QED
        BY <1>2, <2>1, HandlersRest
<1>5. ASSUME k.todo = <<>>, j.by = "loop", loop[w] = "draining"
      PROVE  HandlersAdvance(w)
    <2>1. /\ jobs'[w] = jobs[w] \ {j}
          /\ lateFlush' = lateFlush \cup EventsOf(TimerJobs(w))
        BY <1>1, <1>5 DEF Continue
    <2>2. \A i \in jobs[w] \ {j} : i.by = "timer"
        BY <1>1, <1>5, JobFields DEF CallsRight
    <2>3. EventsOf(jobs'[w]) \subseteq lateFlush'
        BY <2>1, <2>2 DEF EventsOf, TimerJobs
    <2> QED
        BY <1>1, <1>5, <2>3 DEF HandlersAdvance, Leaving
<1>6. ASSUME ~ (k.todo = <<>> /\ j.by = "loop" /\ loop[w] = "draining")
      PROVE  HandlersAdvance(w)
    <2>1. loop'[w] \in {"draining", "ended"} => loop'[w] = loop[w]
        BY <1>1, <1>6 DEF Continue
    <2> QED
        BY <1>2, <2>1, HandlersRest
<1> QED
    BY <1>3, <1>4, <1>5, <1>6

\* No step adds to what a worker that ends has to hand, and none forgets a
\* late flush.
LEMMA EveryHandlerAdvances ==
    ASSUME Placed, [Next]_vars
    PROVE  /\ lateFlush \subseteq lateFlush'
           /\ \A w \in BatchingWorkers : HandlersAdvance(w)
<1>1. /\ loop \in [Workers -> LoopStates] /\ "input" \in Workers /\ "input" \notin BatchingWorkers
      /\ BatchingWorkers \subseteq Workers
      /\ jobs \in [BatchingWorkers -> SUBSET Jobs] /\ buffer \in [BatchingWorkers -> Seq(Events)]
    BY WorkerNames DEF Placed, Types, TypeOK, LoopStates
<1>2. ASSUME NEW w \in BatchingWorkers, loop'[w] = loop[w], jobs' = jobs, buffer' = buffer
      PROVE  HandlersAdvance(w)
    BY <1>2, HandlersRest
<1>3. CASE \E e \in Events : InputReads(e) \/ InputPuts(e)
    BY <1>1, <1>2, <1>3 DEF InputReads, InputPuts, EndLoop
<1>4. CASE InputEnds \/ InputExhausted \/ InputCrashes
    BY <1>1, <1>2, <1>4 DEF InputEnds, InputExhausted, InputCrashes, EndLoop
<1>5. ASSUME NEW w \in BatchingWorkers, Take(w)
      PROVE  lateFlush' = lateFlush /\ \A v \in BatchingWorkers : HandlersAdvance(v)
    <2>1. /\ lateFlush' = lateFlush /\ loop[w] = "waiting"
          /\ loop'[w] \in {"waiting", "flushing"}
          /\ \A v \in BatchingWorkers \ {w} :
                loop'[v] = loop[v] /\ jobs'[v] = jobs[v] /\ buffer'[v] = buffer[v]
        BY <1>1, <1>5 DEF Take
    <2>2. HandlersAdvance(w)
        BY <2>1 DEF HandlersAdvance
    <2>3. \A v \in BatchingWorkers \ {w} : HandlersAdvance(v)
        BY <2>1, HandlersRest
    <2> QED
        BY <2>1, <2>2, <2>3
<1>6. ASSUME NEW w \in BatchingWorkers, TakeStop(w)
      PROVE  lateFlush \subseteq lateFlush' /\ \A v \in BatchingWorkers : HandlersAdvance(v)
    <2>1. /\ lateFlush \subseteq lateFlush' /\ loop[w] = "waiting" /\ buffer'[w] = <<>>
          /\ \A v \in BatchingWorkers \ {w} :
                loop'[v] = loop[v] /\ jobs'[v] = jobs[v] /\ buffer'[v] = buffer[v]
        BY <1>1, <1>6 DEF TakeStop, EndLoop
    <2>2. ASSUME loop'[w] = "ended" PROVE EventsOf(jobs'[w]) \subseteq lateFlush'
        <3>1. jobs' = jobs /\ lateFlush' = lateFlush \cup EventsOf(TimerJobs(w))
            BY <1>1, <1>6, <2>2 DEF TakeStop
        <3>2. \A i \in jobs[w] : i.by = "timer"
            BY <1>1, <2>1, JobFields DEF Placed, JobsRight, CallsRight
        <3> QED
            BY <3>1, <3>2 DEF EventsOf, TimerJobs
    <2>3. HandlersAdvance(w)
        BY <2>1, <2>2 DEF HandlersAdvance
    <2>4. \A v \in BatchingWorkers \ {w} : HandlersAdvance(v)
        BY <2>1, HandlersRest
    <2> QED
        BY <2>1, <2>3, <2>4
<1>7. ASSUME NEW w \in BatchingWorkers, TimerFires(w)
      PROVE  lateFlush' = lateFlush /\ \A v \in BatchingWorkers : HandlersAdvance(v)
    <2>1. /\ lateFlush' = lateFlush /\ loop' = loop /\ buffer'[w] = <<>>
          /\ buffer[w] = <<>> => jobs'[w] = jobs[w]
          /\ \A v \in BatchingWorkers \ {w} : jobs'[v] = jobs[v] /\ buffer'[v] = buffer[v]
        BY <1>1, <1>7 DEF TimerFires
    <2>2. HandlersAdvance(w)
        BY <2>1 DEF HandlersAdvance
    <2>3. \A v \in BatchingWorkers \ {w} : HandlersAdvance(v)
        BY <2>1, HandlersRest
    <2> QED
        BY <2>1, <2>2, <2>3
<1>8. ASSUME NEW w \in BatchingWorkers, NEW j \in jobs[w], JobStep(w, j)
      PROVE  lateFlush \subseteq lateFlush' /\ \A v \in BatchingWorkers : HandlersAdvance(v)
    <2>1. CASE Call(w, j)
        <3>1. /\ loop' = loop /\ buffer' = buffer /\ lateFlush' = lateFlush
              /\ jobs'[w] = (jobs[w] \ {j}) \cup {[j EXCEPT !.stage = "route"]}
              /\ \A v \in BatchingWorkers \ {w} : jobs'[v] = jobs[v]
            BY <1>1, <2>1 DEF Call
        <3>2. [j EXCEPT !.stage = "route"].todo = j.todo
            BY <1>1 DEF Jobs
        <3>3. EventsOf(jobs'[w]) \subseteq EventsOf(jobs[w])
            BY <3>1, <3>2 DEF EventsOf
        <3> QED
            BY <3>1, <3>3, HandlersRest
    <2>2. CASE Route(w, j) \/ DropUnreported(w, j)
        <3>1. PICK k : k = AfterRouting(w, j)
            OBVIOUS
        <3>2. /\ Continue(w, j, k) /\ buffer' = buffer
            BY <2>2, <3>1 DEF Route, DropUnreported
        <3>3. k \in Jobs /\ k.by = j.by /\ Once(k.todo) /\ ToSet(k.todo) \subseteq ToSet(j.todo)
            BY <3>1, CallHead
        <3> QED
            BY <3>2, <3>3, ContinueHandlers
    <2>3. CASE AcknowledgeBatch(w, j)
        <3>1. PICK k : k = [j EXCEPT !.todo = <<>>]
            OBVIOUS
        <3>2. Continue(w, j, k) /\ buffer' = buffer
            BY <2>3, <3>1 DEF AcknowledgeBatch
        <3>3. k.todo = <<>>
            BY <1>1, <3>1 DEF Jobs
        <3> QED
            BY <3>2, <3>3, ContinueHandlers
    <2>4. CASE HandlerRaises(w, j)
        <3>1. /\ buffer' = buffer /\ lateFlush' = lateFlush
              /\ jobs'[w] = jobs[w] \ {j} /\ \A v \in BatchingWorkers \ {w} : jobs'[v] = jobs[v]
              /\ \A v \in BatchingWorkers : loop'[v] = loop[v] \/ loop'[v] = "crashed"
            BY <1>1, <2>4 DEF HandlerRaises, EndLoop
        <3>2. EventsOf(jobs'[w]) \subseteq EventsOf(jobs[w])
            BY <3>1 DEF EventsOf
        <3> QED
            BY <3>1, <3>2, HandlersRest
    <2> QED
        BY <1>8, <2>1, <2>2, <2>3, <2>4 DEF JobStep
<1>9. CASE RequestStop \/ BeginShutdown \/ CollectTasks \/ GroupFinishes \/ UNCHANGED vars
    BY <1>2, <1>9 DEF RequestStop, BeginShutdown, CollectTasks, GroupFinishes, vars, workerVars
<1>10. CASE StopWorker
    BY <1>2, <1>10 DEF StopWorker
<1>11. ASSUME NEW ws, CancelLoops(ws), buffer' = buffer, lateFlush' = lateFlush
       PROVE  lateFlush' = lateFlush /\ \A v \in BatchingWorkers : HandlersAdvance(v)
    <2>1. /\ \A v \in BatchingWorkers : jobs'[v] \subseteq jobs[v]
          /\ \A v \in BatchingWorkers : loop'[v] = loop[v] \/ loop'[v] = "cancelled"
        BY <1>1, <1>11 DEF CancelLoops
    <2>2. \A v \in BatchingWorkers : EventsOf(jobs'[v]) \subseteq EventsOf(jobs[v])
        BY <2>1 DEF EventsOf
    <2> QED
        BY <1>11, <2>1, <2>2, HandlersRest
<1>12. CASE GroupTimeout \/ TotalTimeout
    BY <1>11, <1>12 DEF GroupTimeout, TotalTimeout
<1> QED
    BY <1>3, <1>4, <1>5, <1>6, <1>7, <1>8, <1>9, <1>10, <1>12 DEF Next

\* How a step changes the queue of w: not at all, by a sentinel, by an event
\* that its input worker or a call of an earlier worker puts, or by taking the
\* head.  A worker leaves at a sentinel only.
QueueAdvances(w) ==
    \/ /\ \/ queue'[w] = queue[w]
          \/ \E x \in Items :
                /\ queue'[w] = Append(queue[w], x)
                /\ \/ x = Stop
                   \/ Before("input", w) /\ loop["input"] # "ended"
                   \/ \E v \in BatchingWorkers : Before(v, w) /\ x \in EventsOf(jobs[v])
       /\ loop'[w] \in {"draining", "ended"} => Leaving(w)
    \/ /\ queue[w] # <<>> /\ queue'[w] = Tail(queue[w])
       /\ ~ Leaving(w)
       /\ loop'[w] \in {"draining", "ended"} => Head(queue[w]) = Stop

LEMMA EveryQueueAdvances ==
    ASSUME Placed, StatusRight, [Next]_vars
    PROVE  \A w \in BatchingWorkers : QueueAdvances(w)
<1>1. /\ loop \in [Workers -> LoopStates] /\ "input" \in Workers /\ "input" \notin BatchingWorkers
      /\ BatchingWorkers \subseteq Workers /\ Stop \in Items /\ Events \subseteq Items
      /\ queue \in [BatchingWorkers -> Seq(Items)]
    BY WorkerNames DEF Placed, Types, TypeOK, LoopStates, Items
<1>2. ASSUME NEW w \in BatchingWorkers, queue'[w] = queue[w],
             loop'[w] \in {"draining", "ended"} => loop[w] \in {"draining", "ended"}
      PROVE  QueueAdvances(w)
    BY <1>2 DEF QueueAdvances, Leaving
<1>3. ASSUME NEW e \in Events, InputReads(e) PROVE \A w \in BatchingWorkers : QueueAdvances(w)
    BY <1>1, <1>2, <1>3 DEF InputReads
<1>4. ASSUME NEW e \in Events, InputPuts(e) PROVE \A w \in BatchingWorkers : QueueAdvances(w)
    <2>1. /\ loop["input"] = "putting" /\ \A v \in BatchingWorkers : loop'[v] = loop[v]
        BY <1>1, <1>4 DEF InputPuts, EndLoop
    <2>2. PICK t \in BatchingWorkers :
            /\ queue' = [queue EXCEPT ![t] = Append(queue[t], e)] /\ Before("input", t)
        BY <1>4, WorkerNames, DataFlow DEF InputPuts, InputTarget
    <2>3. PICK x \in Items : x = e
        BY <1>1
    <2>4. queue'[t] = Append(queue[t], x) /\ \A v \in BatchingWorkers \ {t} : queue'[v] = queue[v]
        BY <1>1, <2>2, <2>3
    <2>5. QueueAdvances(t)
        BY <2>1, <2>2, <2>4 DEF QueueAdvances, Leaving
    <2> QED
        BY <1>2, <2>1, <2>4, <2>5
<1>5. CASE InputEnds \/ InputExhausted \/ InputCrashes
    BY <1>1, <1>2, <1>5 DEF InputEnds, InputExhausted, InputCrashes, EndLoop
<1>6. ASSUME NEW w \in BatchingWorkers, Take(w)
      PROVE  \A v \in BatchingWorkers : QueueAdvances(v)
    <2>1. /\ loop[w] = "waiting" /\ loop'[w] \in {"waiting", "flushing"}
          /\ queue[w] # <<>> /\ queue'[w] = Tail(queue[w])
          /\ \A v \in BatchingWorkers \ {w} : loop'[v] = loop[v] /\ queue'[v] = queue[v]
        BY <1>1, <1>6 DEF Take
    <2>2. QueueAdvances(w)
        BY <2>1 DEF QueueAdvances, Leaving
    <2> QED
        BY <1>2, <2>1, <2>2
<1>7. ASSUME NEW w \in BatchingWorkers, TakeStop(w)
      PROVE  \A v \in BatchingWorkers : QueueAdvances(v)
    <2>1. /\ loop[w] = "waiting" /\ Head(queue[w]) = Stop
          /\ queue[w] # <<>> /\ queue'[w] = Tail(queue[w])
          /\ \A v \in BatchingWorkers \ {w} : loop'[v] = loop[v] /\ queue'[v] = queue[v]
        BY <1>1, <1>7 DEF TakeStop, EndLoop
    <2>2. QueueAdvances(w)
        BY <2>1 DEF QueueAdvances, Leaving
    <2> QED
        BY <1>2, <2>1, <2>2
<1>8. ASSUME NEW w \in BatchingWorkers, TimerFires(w)
      PROVE  \A v \in BatchingWorkers : QueueAdvances(v)
    BY <1>2, <1>8 DEF TimerFires
<1>9. ASSUME NEW w \in BatchingWorkers, NEW j \in jobs[w], JobStep(w, j)
      PROVE  \A v \in BatchingWorkers : QueueAdvances(v)
    <2>1. ASSUME NEW k, Continue(w, j, k), NEW v \in BatchingWorkers
          PROVE  loop'[v] \in {"draining", "ended"} => loop[v] \in {"draining", "ended"}
        BY <1>1, <2>1, ContinueLoop
    <2>2. CASE Call(w, j)
        BY <1>2, <2>2 DEF Call
    <2>3. CASE Route(w, j)
        <3>1. Continue(w, j, AfterRouting(w, j))
            BY <2>3 DEF Route
        <3>2. PICK x \in Items : x = Head(j.todo) /\ x \in EventsOf(jobs[w])
            BY <1>1, CallHead
        <3>3. status[x] # "unreported" /\ AfterCall(w, status[x])
            <4>1. JobStatus(w, j) /\ j.stage = "route"
                BY <2>3 DEF StatusRight, Route
            <4>2. AfterCall(w, status[x])
                BY <2>3, <3>2, <4>1, RestStatus DEF Route
            <4> QED
                BY <2>3, <3>2, <4>2 DEF Route
        <3>4. PICK t \in BatchingWorkers :
                /\ queue' = [queue EXCEPT ![t] = Append(queue[t], x)] /\ Before(w, t)
            BY <2>3, <3>2, <3>3, TargetType, TargetIsLater DEF Route
        <3>5. queue'[t] = Append(queue[t], x) /\ \A v \in BatchingWorkers \ {t} : queue'[v] = queue[v]
            BY <1>1, <3>4
        <3>6. loop'[t] \in {"draining", "ended"} => Leaving(t)
            BY <2>1, <3>1 DEF Leaving
        <3>7. QueueAdvances(t)
            BY <3>2, <3>4, <3>5, <3>6 DEF QueueAdvances
        <3> QED
            BY <1>2, <2>1, <3>1, <3>5, <3>7
    <2>4. CASE DropUnreported(w, j)
        BY <1>2, <2>1, <2>4 DEF DropUnreported
    <2>5. CASE AcknowledgeBatch(w, j)
        BY <1>2, <2>1, <2>5 DEF AcknowledgeBatch
    <2>6. CASE HandlerRaises(w, j)
        BY <1>1, <1>2, <2>6 DEF HandlerRaises, EndLoop
    <2> QED
        BY <1>9, <2>2, <2>3, <2>4, <2>5, <2>6 DEF JobStep
<1>10. CASE RequestStop \/ BeginShutdown \/ CollectTasks \/ GroupFinishes \/ UNCHANGED vars
    BY <1>2, <1>10 DEF RequestStop, BeginShutdown, CollectTasks, GroupFinishes, vars, workerVars
<1>11. CASE StopWorker
    <2>1. loop' = loop
        BY <1>11 DEF StopWorker
    <2>2. CASE Stopping = "input"
        BY <1>2, <1>11, <2>1, <2>2 DEF StopWorker
    <2>3. CASE Stopping # "input"
        <3>1. group \in 2 .. 6
            BY <2>3, WorkerNames DEF Placed, Types, TypeOK, Stopping
        <3>2. PICK w \in BatchingWorkers : w = Stopping
            BY <3>1, WorkerNames DEF Stopping
        <3>3. /\ queue'[w] = Append(queue[w], Stop)
              /\ \A v \in BatchingWorkers \ {w} : queue'[v] = queue[v]
            BY <1>1, <1>11, <2>3, <3>2 DEF StopWorker
        <3>4. QueueAdvances(w)
            BY <1>1, <2>1, <3>3 DEF QueueAdvances, Leaving
        <3> QED
            BY <1>2, <2>1, <3>3, <3>4
    <2> QED
        BY <2>2, <2>3
<1>12. ASSUME NEW ws, CancelLoops(ws), queue' = queue
       PROVE  \A v \in BatchingWorkers : QueueAdvances(v)
    BY <1>1, <1>2, <1>12 DEF CancelLoops
<1>13. CASE GroupTimeout \/ TotalTimeout
    BY <1>12, <1>13 DEF GroupTimeout, TotalTimeout
<1> QED
    BY <1>3, <1>4, <1>5, <1>6, <1>7, <1>8, <1>9, <1>10, <1>11, <1>13 DEF Next

LEMMA LateInitially == Init => LateRight
<1> SUFFICES ASSUME Init, NEW w \in BatchingWorkers
             PROVE  ~ Leaving(w) /\ BehindStop(queue[w]) = {}
    BY DEF LateRight, Leaving
<1>1. loop[w] = "waiting" /\ Stop \notin ToSet(queue[w])
    BY WorkerNames, ToSetEmpty DEF Init
<1> QED
    BY <1>1, BehindNothing DEF Leaving

LEMMA LateStep == Placed /\ StatusRight /\ StopsRight /\ LateRight /\ [Next]_vars => LateRight'
<1> SUFFICES ASSUME Placed, StatusRight, StopsRight, LateRight, [Next]_vars,
                    NEW w \in BatchingWorkers
             PROVE  /\ Leaving(w)' => buffer'[w] = <<>>
                    /\ loop'[w] = "ended" => EventsOf(jobs'[w]) \subseteq lateFlush'
                    /\ Graceful(w)' =>
                        /\ BehindStop(queue'[w]) \subseteq lateFlush' \cup {Stop}
                        /\ Leaving(w)' => ToSet(queue'[w]) \subseteq lateFlush' \cup {Stop}
    BY DEF LateRight, Leaving, BehindStop, EventsOf, ToSet
<1>1. /\ lateFlush \subseteq lateFlush' /\ HandlersAdvance(w) /\ QueueAdvances(w)
      /\ LoopAdvances
    BY EveryHandlerAdvances, EveryQueueAdvances, LoopsAdvance
<1>2. /\ BatchingWorkers \subseteq Workers /\ "input" \in Workers
      /\ queue[w] \in Seq(Items) /\ Stop \in Items
    BY WorkerNames DEF Placed, Types, TypeOK, Items
<1>3. /\ Leaving(w) => buffer[w] = <<>>
      /\ loop[w] = "ended" => EventsOf(jobs[w]) \subseteq lateFlush /\ buffer[w] = <<>>
    BY DEF LateRight, Leaving
<1>4. Leaving(w)' => buffer'[w] = <<>>
    BY <1>1, <1>3 DEF HandlersAdvance, Leaving
<1>5. loop'[w] = "ended" => EventsOf(jobs'[w]) \subseteq lateFlush'
    BY <1>1, <1>3 DEF HandlersAdvance
<1>6. ASSUME Graceful(w)', ~ Graceful(w)
      PROVE  Stop \notin ToSet(queue'[w]) /\ ~ Leaving(w)'
    <2>1. PICK v \in Workers : Before(v, w) /\ loop[v] # "ended" /\ loop'[v] = "ended"
        BY <1>6 DEF Graceful, Before
    <2>2. loop[v] \notin Ended
        BY <1>1, <2>1 DEF LoopAdvances
    <2>3. Stop \notin ToSet(queue[w]) /\ ~ Leaving(w) /\ w # Stopping
        BY <2>1, <2>2 DEF StopsRight, Leaving
    <2> QED
        BY <1>1, <2>3 DEF LoopAdvances, Leaving
<1>7. ASSUME Graceful(w)
      PROVE  /\ BehindStop(queue'[w]) \subseteq lateFlush' \cup {Stop}
             /\ Leaving(w)' => ToSet(queue'[w]) \subseteq lateFlush' \cup {Stop}
    <2>1. /\ BehindStop(queue[w]) \subseteq lateFlush \cup {Stop}
          /\ Leaving(w) => ToSet(queue[w]) \subseteq lateFlush \cup {Stop}
        BY <1>7 DEF LateRight
    <2>2. CASE queue'[w] = queue[w] /\ (Leaving(w)' => Leaving(w))
        BY <1>1, <2>1, <2>2
    <2>3. ASSUME NEW x \in Items, queue'[w] = Append(queue[w], x), Leaving(w)' => Leaving(w),
                 \/ x = Stop
                 \/ Before("input", w) /\ loop["input"] # "ended"
                 \/ \E v \in BatchingWorkers : Before(v, w) /\ x \in EventsOf(jobs[v])
          PROVE  /\ BehindStop(queue'[w]) \subseteq lateFlush' \cup {Stop}
                 /\ Leaving(w)' => ToSet(queue'[w]) \subseteq lateFlush' \cup {Stop}
        <3>1. x \in lateFlush \cup {Stop}
            BY <1>2, <1>7, <2>3 DEF Graceful, LateRight
        <3>2. /\ BehindStop(queue'[w]) \subseteq BehindStop(queue[w]) \cup {x}
              /\ ToSet(queue'[w]) = ToSet(queue[w]) \cup {x}
            BY <1>2, <2>3, BehindAppend, ToSetAppend
        <3> QED
            BY <1>1, <2>1, <2>3, <3>1, <3>2
    <2>4. CASE /\ queue[w] # <<>> /\ queue'[w] = Tail(queue[w])
               /\ Leaving(w)' => Head(queue[w]) = Stop
        <3>1. /\ BehindStop(queue'[w]) \subseteq BehindStop(queue[w])
              /\ Head(queue[w]) = Stop => ToSet(queue'[w]) \subseteq BehindStop(queue[w])
            BY <1>2, <2>4, BehindTail
        <3> QED
            BY <1>1, <2>1, <2>4, <3>1
    <2> QED
        BY <1>1, <2>2, <2>3, <2>4 DEF QueueAdvances, Leaving
<1> QED
    BY <1>4, <1>5, <1>6, <1>7, BehindNothing

LEMMA AlwaysLateRight == Spec => []LateRight
<1>1. Spec => [](Placed /\ StatusRight /\ StopsRight)
    BY AlwaysPlaced, AlwaysStatusRight, AlwaysStopsRight, PTL
<1> QED
    BY <1>1, LateInitially, LateStep, PTL DEF Spec

\* A shutdown without timeouts and failures leaves no event behind that was
\* read, but for those in a flush that a timer had started when its worker
\* ended (_stop_workers_in_topological_order, BatchingWorker.run).
THEOREM ShutdownDrains == Spec => []DrainedButForLateFlushes
<1>1. Placed /\ LateRight => DrainedButForLateFlushes
    <2> SUFFICES ASSUME Placed, LateRight, StoppedGracefully, NEW e \in Events
                 PROVE  IsDone(e) \/ e \in lateFlush
        BY DEF DrainedButForLateFlushes
    <2>1. \A w \in Workers : loop[w] = "ended"
        BY DEF StoppedGracefully
    <2>2. hand = {} /\ Stop \notin Events
        BY <2>1, WorkerNames, WorkflowAssumption DEF Placed, HandRight
    <2>3. ASSUME NEW w \in BatchingWorkers
          PROVE  /\ buffer[w] = <<>> /\ EventsOf(jobs[w]) \subseteq lateFlush
                 /\ ToSet(queue[w]) \subseteq lateFlush \cup {Stop}
        <3>1. w \in Workers /\ Graceful(w) /\ Leaving(w) /\ loop[w] = "ended"
            BY <2>1, WorkerNames DEF Graceful, Leaving
        <3> QED
            BY <3>1 DEF LateRight
    <2>4. PICK pl \in Places : e \in At[pl]
        BY DEF Placed, OnePlace, OneOf
    <2>5. \/ e \in unread \/ e \in hand \/ e \in acked \/ e \in givenUp
          \/ \E w \in BatchingWorkers :
                e \in ToSet(queue[w]) \/ e \in ToSet(buffer[w]) \/ e \in EventsOf(jobs[w])
        BY <2>4, PlacesByKind, PlacesByName
    <2> QED
        BY <2>2, <2>3, <2>5, ToSetEmpty DEF IsDone
<1> QED
    BY <1>1, AlwaysPlaced, AlwaysLateRight, PTL
=============================================================================
