---------------------------- MODULE ClassicProofs ----------------------------
(***************************************************************************)
(* Proofs about the classic pipelines: every event whose offset is         *)
(* committed is accounted for, and a manager that has stopped has left no  *)
(* error item behind.                                                      *)
(***************************************************************************)
EXTENDS ClassicManager, SequenceLemmas

(***************************************************************************)
(* Events and where they are.                                              *)
(***************************************************************************)
Items == Events \cup {Ping, Sentinel}

\* What a process holds in memory, by its record; what is outside of all.
Memory(r) == r.backlog \cup ToSet(r.items) \cup ToSet(r.transit)
Outside == accounted \cup errorBacklog \cup (ToSet(pipe) \cap Events)

Running == {"idle", "processing", "storing", "reporting", "reported", "finishing", "failing"}

\* The record r of the process of partition p, which is committed up to c,
\* when the events of O are outside.  Every event that is committed or that
\* the process has taken is in memory or outside, but for the one at work.
Accounts(p, r, c, O) ==
    /\ r \in Process /\ c \in Offsets
    /\ r.state \notin Running => r.backlog = {} /\ r.last = 0 /\ r.stored = 0
    /\ r.state \notin Running \cup {"leaving"} => Memory(r) = {}
    /\ IF r.state = "reporting" THEN r.items # <<>> ELSE ToSet(r.items) = {}
    /\ r.stored <= r.last /\ r.last < r.next
    /\ r.state \in {"processing", "storing"} => r.stored < r.last
    /\ \A k \in 1 .. EventCount :
        /\ k <= c => <<p, k>> \in O \cup Memory(r)
        /\ r.state \in Running /\ k < r.next =>
            \/ <<p, k>> \in O \cup Memory(r)
            \/ r.state \in {"processing", "storing"} /\ k = r.last

LEMMA Markers == Ping \notin Events /\ Sentinel \notin Events /\ Ping # Sentinel
BY DEF Ping, Sentinel, Events, Processes

LEMMA EventsAreFinite == IsFiniteSet(Events)
<1>1. ProcessCount \in Int /\ EventCount \in Int
    BY ErrorListenerAssumption
<1>2. IsFiniteSet(1 .. ProcessCount) /\ IsFiniteSet(1 .. EventCount)
    BY <1>1, FS_Interval
<1> QED
    BY <1>2, FS_Product DEF Events, Processes

\* The fields of a process's record.
LEMMA ProcessFields ==
    ASSUME NEW r \in Process
    PROVE  /\ r.last \in Offsets /\ r.stored \in Offsets /\ r.next \in 1 .. EventCount + 1
           /\ r.backlog \subseteq Events /\ r.items \in Seq(Events) /\ r.transit \in Seq(Events)
           /\ r.iterating \in BOOLEAN /\ r.handling \in BOOLEAN
           /\ EventCount \in Nat /\ Offsets = 0 .. EventCount
BY ErrorListenerAssumption DEF Process, Offsets

LEMMA NewProcessAccounts ==
    ASSUME NEW state \in {"created", "exited", "dead"}
    PROVE  Gone(state) \in Process /\ Memory(Gone(state)) = {} /\ NewProcess = Gone("created")
<1>1. EventCount \in Nat /\ <<>> \in Seq(Events)
    BY ErrorListenerAssumption, EmptySeq
<1>2. /\ NewProcess \in Process /\ NewProcess.backlog = {}
      /\ NewProcess.items = <<>> /\ NewProcess.transit = <<>>
    BY <1>1 DEF NewProcess, Process, ProcessEnded, Exiting, Offsets
<1>3. /\ Gone(state) \in Process /\ Gone(state).backlog = {}
      /\ Gone(state).items = <<>> /\ Gone(state).transit = <<>>
    BY <1>2 DEF Gone, Process, ProcessEnded, Exiting
<1>4. NewProcess = Gone("created")
    BY DEF Gone, NewProcess
<1> QED
    BY <1>3, <1>4, ToSetEmpty DEF Memory

\* What is outside of p stays outside.
KeptOutside(p, O, O2) == \A k \in 1 .. EventCount : <<p, k>> \in O => <<p, k>> \in O2

LEMMA AccountsKept ==
    ASSUME NEW p, NEW r, NEW c, NEW O, NEW O2, KeptOutside(p, O, O2), Accounts(p, r, c, O)
    PROVE  Accounts(p, r, c, O2)
BY DEF Accounts, KeptOutside

LEMMA AccountsGrow ==
    ASSUME NEW p, NEW r, NEW c, NEW O, NEW O2, O \subseteq O2, Accounts(p, r, c, O)
    PROVE  Accounts(p, r, c, O2)
BY AccountsKept DEF KeptOutside

\* A process that is gone leaves what is committed outside.
LEMMA GoneAccounts ==
    ASSUME NEW p, NEW c \in Offsets, NEW O, NEW state \in {"created", "exited", "dead"},
           \A k \in 1 .. EventCount : k <= c => <<p, k>> \in O
    PROVE  Accounts(p, Gone(state), c, O)
<1>1. Gone(state) \in Process /\ Memory(Gone(state)) = {}
    BY NewProcessAccounts
<1>2. /\ Gone(state).state = state /\ Gone(state).last = 0 /\ Gone(state).stored = 0
      /\ Gone(state).next = 1 /\ Gone(state).items = <<>> /\ Gone(state).backlog = {}
    BY DEF Gone, NewProcess
<1> QED
    BY <1>1, <1>2, ToSetEmpty DEF Accounts, Running

(***************************************************************************)
(* The steps of a process.                                                 *)
(***************************************************************************)
ClassicTypes ==
    /\ process \in [Processes -> Process]
    /\ committed \in [Processes -> Offsets]
    /\ pipe \in Seq(Items)
    /\ accounted \subseteq Events /\ errorBacklog \subseteq Events
    /\ handedOver \in Seq({Ping, Sentinel})

\* A step of p makes its record r and its committed offset c.
Moves(p, r, c) ==
    /\ Alive(p)
    /\ process' = [process EXCEPT ![p] = r]
    /\ committed' = [committed EXCEPT ![p] = c]
    /\ pipe' \in Seq(Items) /\ ToSet(pipe') \subseteq ToSet(pipe) \cup Events
    /\ accounted' \subseteq Events
    /\ \A q \in Processes : q # p => KeptOutside(q, Outside, Outside')
    /\ UNCHANGED <<errorBacklog, listener>>
    /\ Accounts(p, r, c, Outside')

AccountsOf(p) == Accounts(p, process[p], committed[p], Outside)

\* A step that changes the record only.
LEMMA QuietMove ==
    ASSUME ClassicTypes, NEW p \in Processes, Alive(p), NEW r, NEW c,
           process' = [process EXCEPT ![p] = r], committed' = [committed EXCEPT ![p] = c],
           UNCHANGED <<pipe, accounted, errorBacklog, listener>>,
           Accounts(p, r, c, Outside)
    PROVE  Moves(p, r, c)
BY DEF Moves, ClassicTypes, Outside, KeptOutside

\* A step after which the events of E are accounted for.
LEMMA AccountingMove ==
    ASSUME ClassicTypes, NEW p \in Processes, Alive(p), NEW r, NEW c, NEW E \in SUBSET Events,
           process' = [process EXCEPT ![p] = r], committed' = [committed EXCEPT ![p] = c],
           Account(E), UNCHANGED <<pipe, errorBacklog, listener>>,
           Accounts(p, r, c, Outside \cup E)
    PROVE  Moves(p, r, c)
<1>1. Outside' = Outside \cup E
    BY DEF Outside, Account
<1> QED
    BY <1>1 DEF Moves, ClassicTypes, Account, KeptOutside

LEMMA StartMoves ==
    ASSUME ClassicTypes, NEW p \in Processes, AccountsOf(p),
           Begin(p) \/ SetUp(p) \/ SetUpFails(p)
    PROVE  \E r, c : Moves(p, r, c)
<1> DEFINE old == process[p]
           c == committed[p]
<1>1. /\ old \in Process /\ c \in Offsets /\ committed' = [committed EXCEPT ![p] = c]
      /\ UNCHANGED <<pipe, errorBacklog, listener>>
      /\ Begin(p) \/ SetUpFails(p) => UNCHANGED accounted
    BY DEF ClassicTypes, Begin, SetUp, SetUpFails, queueVars, otherVars
<1>2. /\ old.state \in {"created", "setup"} /\ Alive(p) /\ EventCount \in Nat /\ Offsets = 0 .. EventCount
    BY <1>1, ProcessFields DEF Begin, SetUp, SetUpFails, At, Alive, ProcessEnded
<1>3. /\ Memory(old) = {} /\ old.last = 0 /\ old.stored = 0 /\ old.backlog = {}
      /\ ToSet(old.items) = {}
      /\ \A k \in 1 .. EventCount : k <= c => <<p, k>> \in Outside
    BY <1>2 DEF AccountsOf, Accounts, Running
<1>4. CASE Begin(p)
    <2> DEFINE r == [old EXCEPT !.state = "setup", !.iterating = TRUE]
    <2>1. process' = [process EXCEPT ![p] = r]
        BY <1>4 DEF Begin, Become, To
    <2>2. r \in Process /\ Memory(r) = {} /\ r.last = 0 /\ r.stored = 0 /\ ToSet(r.items) = {}
          /\ r.state = "setup" /\ r.next = old.next /\ r.backlog = {}
        BY <1>1, <1>3 DEF Process, Memory
    <2> HIDE DEF r
    <2>3. Accounts(p, r, c, Outside)
        BY <1>1, <1>3, <2>2, ProcessFields DEF Accounts, Running
    <2> QED
        BY <1>1, <1>2, <1>4, <2>1, <2>3, QuietMove
<1>5. CASE SetUp(p)
    <2> DEFINE r == [old EXCEPT !.state = "idle", !.next = c + 1]
    <2>1. process' = [process EXCEPT ![p] = r]
        BY <1>5 DEF SetUp, Become, To
    <2>2. c + 1 \in 1 .. EventCount + 1
        BY <1>1, <1>2
    <2>3. r \in Process /\ Memory(r) = {} /\ r.last = 0 /\ r.stored = 0 /\ ToSet(r.items) = {}
          /\ r.state = "idle" /\ r.next = c + 1
        BY <1>1, <1>3, <2>2 DEF Process, Memory
    <2> HIDE DEF r
    <2>4. accounted' = {e \in accounted : e[1] # p \/ IsCommitted(e)}
        BY <1>5 DEF SetUp
    <2>5. \A q \in Processes : q # p => KeptOutside(q, Outside, Outside')
        BY <1>1, <2>4 DEF KeptOutside, Outside
    <2>6. \A k \in 1 .. EventCount : k <= c => <<p, k>> \in Outside'
        BY <1>1, <1>3, <2>4 DEF IsCommitted, Outside
    <2> HIDE DEF c
    <2>7. Accounts(p, r, c, Outside')
        BY <1>1, <1>2, <1>3, <2>3, <2>6 DEF Accounts, Running
    <2>8. accounted' \subseteq Events /\ pipe' \in Seq(Items)
        BY <1>1, <2>4 DEF ClassicTypes
    <2>9. Moves(p, r, c)
        BY <1>1, <1>2, <2>1, <2>5, <2>7, <2>8 DEF Moves
    <2> QED
        BY <2>9
<1>6. CASE SetUpFails(p)
    <2>1. process' = [process EXCEPT ![p] = Gone("exited")]
        BY <1>6 DEF SetUpFails, Become
    <2>2. Accounts(p, Gone("exited"), c, Outside)
        BY <1>1, <1>3, GoneAccounts
    <2> QED
        BY <1>1, <1>2, <1>6, <2>1, <2>2, QuietMove
<1> QED
    BY <1>4, <1>5, <1>6

\* What is known of the process a step is taken of.
LEMMA OldRecord ==
    ASSUME ClassicTypes, NEW p \in Processes, AccountsOf(p)
    PROVE  /\ process[p] \in Process /\ committed[p] \in Offsets /\ committed[p] \in Nat
           /\ Accounts(p, process[p], committed[p], Outside)
           /\ Memory(process[p]) \subseteq Events
           /\ process[p].last \in Nat /\ process[p].stored \in Nat /\ process[p].next \in Nat
           /\ Outside \subseteq Events
<1>1. process[p] \in Process /\ committed[p] \in Offsets
    BY DEF ClassicTypes
<1>2. Memory(process[p]) \subseteq Events
    BY <1>1, ProcessFields, ToSetType DEF Memory
<1> QED
    BY <1>1, <1>2, ProcessFields DEF ClassicTypes, AccountsOf, Outside

LEMMA InputMoves ==
    ASSUME ClassicTypes, NEW p \in Processes, AccountsOf(p), GetNext(p) \/ SourceFails(p)
    PROVE  \E r, c : Moves(p, r, c)
<1> DEFINE old == process[p]
           c == committed[p]
<1>1. /\ old \in Process /\ c \in Offsets /\ committed' = [committed EXCEPT ![p] = c]
      /\ UNCHANGED <<pipe, errorBacklog, listener>>
      /\ old.state = "idle" /\ Alive(p)
      /\ Accounts(p, old, c, Outside)
      /\ SourceFails(p) => UNCHANGED accounted
    BY OldRecord DEF ClassicTypes, GetNext, SourceFails, queueVars, otherVars, At, Alive, ProcessEnded
<1>2. /\ old.last \in Offsets /\ old.stored \in Offsets /\ old.next \in 1 .. EventCount + 1
      /\ old.items \in Seq(Events) /\ EventCount \in Nat /\ Offsets = 0 .. EventCount
    BY <1>1, ProcessFields
<1>3. CASE SourceFails(p)
    <2> DEFINE r == [old EXCEPT !.iterating = FALSE]
    <2>1. process' = [process EXCEPT ![p] = r]
        BY <1>3 DEF SourceFails, Become
    <2>2. /\ r \in Process /\ Memory(r) = Memory(old) /\ r.last = old.last
          /\ r.stored = old.stored /\ r.items = old.items /\ r.state = old.state
          /\ r.next = old.next /\ r.backlog = old.backlog
        BY <1>1 DEF Process, Memory
    <2> HIDE DEF r
    <2>3. Accounts(p, r, c, Outside)
        BY <1>1, <2>2 DEF Accounts
    <2> QED
        BY <1>1, <1>3, <2>1, <2>3, QuietMove
<1>4. CASE GetNext(p)
    <2> DEFINE n == old.next
               processing == [old EXCEPT !.last = n, !.next = n + 1, !.state = "processing"]
               reporting == [old EXCEPT !.last = n, !.next = n + 1, !.state = "reporting",
                                !.items = <<<<p, n>>>>, !.handling = TRUE]
               skipped == [old EXCEPT !.last = n, !.next = n + 1]
    <2>1. n \in 1 .. EventCount /\ <<p, n>> \in Events /\ n + 1 \in 1 .. EventCount + 1 /\ n \in Offsets
        BY <1>2, <1>4 DEF GetNext, Events
    <2>2. \/ process' = [process EXCEPT ![p] = processing] /\ UNCHANGED accounted
          \/ process' = [process EXCEPT ![p] = reporting] /\ UNCHANGED accounted
          \/ process' = [process EXCEPT ![p] = skipped] /\ Account({<<p, n>>})
        BY <1>4 DEF GetNext, Become
    <2>3. ToSet(old.items) = {} /\ old.stored < n
        BY <1>1, <1>2, <2>1 DEF Accounts
    <2>4. /\ processing \in Process /\ Memory(processing) = Memory(old)
          /\ processing.state = "processing" /\ processing.last = n /\ processing.next = n + 1
          /\ processing.stored = old.stored /\ processing.items = old.items
        BY <1>1, <2>1 DEF Process, Memory
    <2>5. Accounts(p, processing, c, Outside)
        <3> HIDE DEF processing
        <3> QED
            BY <1>1, <1>2, <2>1, <2>3, <2>4 DEF Accounts, Running
    <2>6. <<<<p, n>>>> \in Seq(Events) /\ ToSet(<<<<p, n>>>>) = {<<p, n>>}
        BY <2>1 DEF ToSet
    <2>7. /\ reporting \in Process /\ reporting.items = <<<<p, n>>>>
          /\ reporting.backlog = old.backlog /\ reporting.transit = old.transit
          /\ reporting.state = "reporting" /\ reporting.last = n /\ reporting.next = n + 1
          /\ reporting.stored = old.stored
        BY <1>1, <2>1, <2>6 DEF Process
    <2>8. Accounts(p, reporting, c, Outside)
        <3> HIDE DEF reporting
        <3>1. Memory(reporting) = Memory(old) \cup {<<p, n>>}
            BY <2>3, <2>6, <2>7 DEF Memory
        <3> QED
            BY <1>1, <1>2, <2>1, <2>3, <2>7, <3>1 DEF Accounts, Running
    <2>9. /\ skipped \in Process /\ Memory(skipped) = Memory(old)
          /\ skipped.state = "idle" /\ skipped.last = n /\ skipped.next = n + 1
          /\ skipped.stored = old.stored /\ skipped.items = old.items
        BY <1>1, <2>1 DEF Process, Memory
    <2> HIDE DEF processing, reporting, skipped
    <2>10. Accounts(p, skipped, c, Outside \cup {<<p, n>>})
        BY <1>1, <1>2, <2>1, <2>3, <2>9 DEF Accounts, Running
    <2>11. {<<p, n>>} \in SUBSET Events
        BY <2>1
    <2> HIDE DEF n, c, old
    <2>12. CASE process' = [process EXCEPT ![p] = skipped] /\ Account({<<p, n>>})
        BY <1>1, <2>10, <2>11, <2>12, AccountingMove
    <2> QED
        BY <1>1, <2>2, <2>5, <2>8, <2>12, QuietMove
<1> QED
    BY <1>3, <1>4

\* A part F of a written backlog B is reported.
LEMMA WriteMoves ==
    ASSUME ClassicTypes, NEW p \in Processes, AccountsOf(p),
           \/ At(p, "idle") /\ Write(p, process[p].backlog, "idle")
           \/ At(p, "storing") /\ Write(p, process[p].backlog \cup {Current(p)}, "finishing")
    PROVE  \E r, c : Moves(p, r, c)
<1> DEFINE old == process[p]
           c == committed[p]
           B == IF old.state = "idle" THEN old.backlog ELSE old.backlog \cup {Current(p)}
           next == IF old.state = "idle" THEN "idle" ELSE "finishing"
<1>1. /\ old \in Process /\ c \in Offsets /\ Accounts(p, old, c, Outside)
      /\ old.state \in {"idle", "storing"} /\ Alive(p) /\ Write(p, B, next)
    BY OldRecord DEF At, Alive, ProcessEnded
<1>2. /\ old.last \in Offsets /\ old.stored \in Offsets /\ old.next \in 1 .. EventCount + 1
      /\ old.items \in Seq(Events) /\ EventCount \in Nat /\ Offsets = 0 .. EventCount
      /\ old.backlog \subseteq Events
    BY <1>1, ProcessFields
<1>3. B \subseteq Events
    BY <1>1, <1>2 DEF Accounts, Current, Events
<1>4. next \in {"idle", "finishing"} /\ (old.state = "idle" => B = old.backlog)
        /\ (old.state = "storing" => B = old.backlog \cup {<<p, old.last>>})
    BY <1>1 DEF Current
<1> HIDE DEF B, next
<1>5. PICK F \in SUBSET B :
        /\ Account(B \ F)
        /\ process' = [process EXCEPT ![p] =
            [old EXCEPT !.state = IF F = {} THEN next ELSE "reporting", !.backlog = {},
                        !.items = SetToSeq(F), !.handling = F # {}]]
        /\ UNCHANGED <<committed, pipe, errorBacklog, listener>>
    BY <1>1 DEF Write, Become, To, queueVars, otherVars
<1> DEFINE state == IF F = {} THEN next ELSE "reporting"
           r == [old EXCEPT !.state = state, !.backlog = {}, !.items = SetToSeq(F),
                    !.handling = F # {}]
<1>6. IsFiniteSet(F)
    BY <1>3, EventsAreFinite, FS_Subset
<1>7. SetToSeq(F) \in Seq(Events) /\ ToSet(SetToSeq(F)) = F
    BY <1>3, <1>6, SetToSeqElements, SeqMonotonic
<1>8. state \in {"idle", "finishing", "reporting"} /\ (state # "reporting" <=> F = {})
    BY <1>4
<1>9. process' = [process EXCEPT ![p] = r]
    BY <1>5
<1> HIDE DEF state
<1>10. /\ r \in Process /\ r.state = state /\ r.backlog = {} /\ r.items = SetToSeq(F)
       /\ r.transit = old.transit /\ r.last = old.last /\ r.stored = old.stored /\ r.next = old.next
    BY <1>1, <1>7, <1>8 DEF Process
<1> HIDE DEF r
<1>11. Memory(r) = F \cup ToSet(old.transit)
    BY <1>7, <1>10 DEF Memory
<1>12. ToSet(old.items) = {} /\ (SetToSeq(F) = <<>> => F = {})
    BY <1>1, <1>7, ToSetEmpty DEF Accounts
<1>13. Memory(old) \cup B \subseteq (B \ F) \cup Memory(r)
    BY <1>1, <1>4, <1>11, <1>12 DEF Memory
<1>14. Accounts(p, r, c, Outside \cup (B \ F))
    BY <1>1, <1>2, <1>4, <1>7, <1>8, <1>10, <1>12, <1>13 DEF Accounts, Running
<1>15. committed' = [committed EXCEPT ![p] = c]
    BY <1>5 DEF ClassicTypes
<1> QED
    BY <1>1, <1>3, <1>5, <1>9, <1>14, <1>15, AccountingMove

\* The event p works on is processed, and stored or not.
LEMMA EventMoves ==
    ASSUME ClassicTypes, NEW p \in Processes, AccountsOf(p),
           ProcessEvent(p) \/ ExtraDataFails(p) \/ StoreEvent(p)
    PROVE  \E r, c : Moves(p, r, c)
<1> DEFINE old == process[p]
           c == committed[p]
           e == <<p, old.last>>
<1>1. /\ old \in Process /\ c \in Offsets /\ Accounts(p, old, c, Outside)
      /\ old.state \in {"processing", "storing"} /\ Alive(p)
    BY OldRecord DEF ProcessEvent, ExtraDataFails, StoreEvent, At, Alive, ProcessEnded
<1>2. /\ old.last \in Offsets /\ old.stored \in Offsets /\ old.next \in 1 .. EventCount + 1
      /\ old.items \in Seq(Events) /\ EventCount \in Nat /\ Offsets = 0 .. EventCount
      /\ old.backlog \subseteq Events
    BY <1>1, ProcessFields
<1>3. e \in Events /\ Current(p) = e /\ ToSet(old.items) = {} /\ old.stored < old.last
    BY <1>1, <1>2 DEF Accounts, Events, Current
<1>4. CASE ProcessEvent(p) /\ process' = [process EXCEPT ![p] = To(p, "storing")]
                           /\ UNCHANGED accounted
    <2> DEFINE r == [old EXCEPT !.state = "storing"]
    <2>1. /\ r \in Process /\ r.state = "storing" /\ Memory(r) = Memory(old) /\ r.items = old.items
          /\ r.last = old.last /\ r.stored = old.stored /\ r.next = old.next
        BY <1>1 DEF Process, Memory
    <2> HIDE DEF r
    <2>2. Accounts(p, r, c, Outside)
        BY <1>1, <1>2, <1>3, <2>1 DEF Accounts, Running
    <2>3. process' = [process EXCEPT ![p] = r] /\ committed' = [committed EXCEPT ![p] = c]
          /\ UNCHANGED <<pipe, accounted, errorBacklog, listener>>
        BY <1>4 DEF ProcessEvent, queueVars, otherVars, r, To, ClassicTypes
    <2> QED
        BY <1>1, <2>2, <2>3, QuietMove
<1>5. CASE /\ Account({Current(p)}) /\ UNCHANGED <<committed, queueVars, otherVars>>
           /\ \E state \in {"finishing", "reported"}, handling \in BOOLEAN :
                process' = [process EXCEPT ![p] = [To(p, state) EXCEPT !.handling = handling]]
    <2> PICK state \in {"finishing", "reported"}, handling \in BOOLEAN :
            process' = [process EXCEPT ![p] = [To(p, state) EXCEPT !.handling = handling]]
        BY <1>5
    <2> DEFINE r == [old EXCEPT !.state = state, !.handling = handling]
    <2>1. /\ r \in Process /\ r.state = state /\ Memory(r) = Memory(old) /\ r.items = old.items
          /\ r.last = old.last /\ r.stored = old.stored /\ r.next = old.next
        BY <1>1 DEF Process, Memory
    <2>2. process' = [process EXCEPT ![p] = r]
        BY DEF To
    <2> HIDE DEF r
    <2>3. Accounts(p, r, c, Outside \cup {e})
        BY <1>1, <1>2, <1>3, <2>1 DEF Accounts, Running
    <2>4. committed' = [committed EXCEPT ![p] = c] /\ UNCHANGED <<pipe, errorBacklog, listener>>
        BY <1>5 DEF queueVars, otherVars, ClassicTypes
    <2>5. Account({e}) /\ {e} \in SUBSET Events
        BY <1>3, <1>5
    <2> HIDE DEF e
    <2>6. Moves(p, r, c)
        BY <1>1, <2>2, <2>3, <2>4, <2>5, AccountingMove
    <2> QED
        BY <2>6
<1>6. CASE /\ ProcessEvent(p) /\ UNCHANGED accounted
           /\ process' = [process EXCEPT ![p] =
                [To(p, "reporting") EXCEPT !.items = <<Current(p)>>]]
    <2> DEFINE r == [old EXCEPT !.state = "reporting", !.items = <<e>>]
    <2>1. <<e>> \in Seq(Events) /\ ToSet(<<e>>) = {e}
        BY <1>3 DEF ToSet
    <2>2. /\ r \in Process /\ r.state = "reporting" /\ r.items = <<e>>
          /\ r.backlog = old.backlog /\ r.transit = old.transit
          /\ r.last = old.last /\ r.stored = old.stored /\ r.next = old.next
        BY <1>1, <2>1 DEF Process
    <2>3. process' = [process EXCEPT ![p] = r]
        BY <1>3, <1>6 DEF To
    <2> HIDE DEF r
    <2>4. Memory(r) = Memory(old) \cup {e}
        BY <1>3, <2>1, <2>2 DEF Memory
    <2>5. Accounts(p, r, c, Outside)
        BY <1>1, <1>2, <1>3, <2>2, <2>4 DEF Accounts, Running
    <2>6. committed' = [committed EXCEPT ![p] = c]
          /\ UNCHANGED <<pipe, accounted, errorBacklog, listener>>
        BY <1>6 DEF ProcessEvent, queueVars, otherVars, ClassicTypes
    <2> QED
        BY <1>1, <2>3, <2>5, <2>6, QuietMove
<1>7. CASE /\ StoreEvent(p) /\ UNCHANGED <<committed, queueVars, otherVars, accounted>>
           /\ process' = [process EXCEPT ![p] =
                [To(p, "finishing") EXCEPT !.backlog = old.backlog \cup {Current(p)}]]
    <2> DEFINE r == [old EXCEPT !.state = "finishing", !.backlog = old.backlog \cup {e}]
    <2>1. /\ r \in Process /\ r.state = "finishing" /\ r.backlog = old.backlog \cup {e}
          /\ r.items = old.items /\ r.transit = old.transit
          /\ r.last = old.last /\ r.stored = old.stored /\ r.next = old.next
        BY <1>1, <1>2, <1>3 DEF Process
    <2>2. process' = [process EXCEPT ![p] = r]
        BY <1>3, <1>7 DEF To
    <2> HIDE DEF r
    <2>3. Memory(r) = Memory(old) \cup {e}
        BY <2>1 DEF Memory
    <2>4. Accounts(p, r, c, Outside)
        BY <1>1, <1>2, <1>3, <2>1, <2>3 DEF Accounts, Running
    <2>5. committed' = [committed EXCEPT ![p] = c]
          /\ UNCHANGED <<pipe, accounted, errorBacklog, listener>>
        BY <1>7 DEF queueVars, otherVars, ClassicTypes
    <2> QED
        BY <1>1, <2>2, <2>4, <2>5, QuietMove
<1>8. CASE At(p, "storing") /\ Write(p, process[p].backlog \cup {Current(p)}, "finishing")
    BY <1>8, WriteMoves
<1>9. CASE ProcessEvent(p)
    <2>1. old.handling \in BOOLEAN
          /\ To(p, "finishing") = [To(p, "finishing") EXCEPT !.handling = old.handling]
        BY <1>1, ProcessFields DEF To, Process
    <2>2. CASE /\ process' = [process EXCEPT ![p] = To(p, "finishing")]
               /\ Account({Current(p)})
        <3> HIDE DEF old
        <3> QED
            BY <1>5, <1>9, <2>1, <2>2 DEF ProcessEvent
    <2> QED
        BY <1>4, <1>6, <1>9, <2>2 DEF ProcessEvent, Become
<1>10. CASE ExtraDataFails(p)
    BY <1>5, <1>10 DEF ExtraDataFails, Become
<1>11. CASE StoreEvent(p)
    BY <1>7, <1>8, <1>11 DEF StoreEvent, Become
<1> QED
    BY <1>9, <1>10, <1>11

\* Error items go to the queue, or are dropped.
LEMMA ReportMoves ==
    ASSUME ClassicTypes, NEW p \in Processes, AccountsOf(p), PutItem(p) \/ DropItems(p)
    PROVE  \E r, c : Moves(p, r, c)
<1> DEFINE old == process[p]
           c == committed[p]
<1>1. /\ old \in Process /\ c \in Offsets /\ Accounts(p, old, c, Outside)
      /\ old.state = "reporting" /\ Alive(p)
      /\ committed' = [committed EXCEPT ![p] = c]
      /\ UNCHANGED <<pipe, errorBacklog, listener>>
    BY OldRecord DEF PutItem, DropItems, At, Alive, ProcessEnded, otherVars, queueVars, ClassicTypes
<1>2. /\ old.last \in Offsets /\ old.stored \in Offsets /\ old.next \in 1 .. EventCount + 1
      /\ old.items \in Seq(Events) /\ old.transit \in Seq(Events)
      /\ EventCount \in Nat /\ Offsets = 0 .. EventCount
    BY <1>1, ProcessFields
<1>3. CASE DropItems(p)
    <2> DEFINE r == [old EXCEPT !.state = "reported", !.items = <<>>]
    <2>1. <<>> \in Seq(Events)
        BY EmptySeq
    <2>2. /\ r \in Process /\ r.state = "reported" /\ r.items = <<>>
          /\ r.backlog = old.backlog /\ r.transit = old.transit
          /\ r.last = old.last /\ r.stored = old.stored /\ r.next = old.next
        BY <1>1, <2>1 DEF Process
    <2>3. process' = [process EXCEPT ![p] = r] /\ Account(ToSet(old.items))
        BY <1>3 DEF DropItems, Become, To
    <2> HIDE DEF r
    <2>4. Memory(old) \subseteq Memory(r) \cup ToSet(old.items) /\ ToSet(r.items) = {}
        BY <2>2, ToSetEmpty DEF Memory
    <2>5. Accounts(p, r, c, Outside \cup ToSet(old.items))
        BY <1>1, <1>2, <2>2, <2>4 DEF Accounts, Running
    <2>6. ToSet(old.items) \in SUBSET Events
        BY <1>2, ToSetType
    <2>7. Moves(p, r, c)
        BY <1>1, <2>3, <2>5, <2>6, AccountingMove
    <2> QED
        BY <2>7
<1>4. CASE PutItem(p)
    <2> DEFINE state == IF Tail(old.items) = <<>> THEN "reported" ELSE "reporting"
               r == [old EXCEPT !.state = state, !.items = Tail(old.items),
                        !.transit = Append(old.transit, Head(old.items))]
    <2>1. /\ ToSet(old.items) = {Head(old.items)} \cup ToSet(Tail(old.items))
          /\ Head(old.items) \in Events /\ Tail(old.items) \in Seq(Events)
        BY <1>1, <1>2, ToSetHeadTail DEF Accounts
    <2>2. /\ Append(old.transit, Head(old.items)) \in Seq(Events)
          /\ ToSet(Append(old.transit, Head(old.items))) = ToSet(old.transit) \cup {Head(old.items)}
        BY <1>2, <2>1, AppendProperties, ToSetAppend
    <2>3. /\ state \in {"reported", "reporting"}
          /\ state = "reported" <=> Tail(old.items) = <<>>
        OBVIOUS
    <2>4. process' = [process EXCEPT ![p] = r] /\ accounted' = accounted
        BY <1>4 DEF PutItem, Become, To
    <2> HIDE DEF state
    <2>5. /\ r \in Process /\ r.state = state /\ r.items = Tail(old.items)
          /\ r.transit = Append(old.transit, Head(old.items)) /\ r.backlog = old.backlog
          /\ r.last = old.last /\ r.stored = old.stored /\ r.next = old.next
        BY <1>1, <2>1, <2>2, <2>3 DEF Process
    <2> HIDE DEF r
    <2>6. Memory(r) = Memory(old) /\ (state # "reporting" => ToSet(r.items) = {})
          /\ (state = "reporting" => r.items # <<>>)
        BY <2>1, <2>2, <2>3, <2>5, ToSetEmpty DEF Memory
    <2>7. Accounts(p, r, c, Outside)
        BY <1>1, <1>2, <2>3, <2>5, <2>6 DEF Accounts, Running
    <2>8. Moves(p, r, c)
        BY <1>1, <2>4, <2>7, QuietMove
    <2> QED
        BY <2>8
<1> QED
    BY <1>3, <1>4

\* A step that hands an event of its own memory to the pipe.
LEMMA FeedingMove ==
    ASSUME ClassicTypes, NEW p \in Processes, Alive(p), NEW r, NEW c, NEW e \in Events,
           process' = [process EXCEPT ![p] = r], committed' = [committed EXCEPT ![p] = c],
           pipe' = Append(pipe, e), UNCHANGED <<accounted, errorBacklog, listener>>,
           Accounts(p, r, c, Outside \cup {e})
    PROVE  Moves(p, r, c)
<1>1. pipe \in Seq(Items) /\ e \in Items
    BY DEF Items, ClassicTypes
<1>2. pipe' \in Seq(Items) /\ ToSet(pipe') = ToSet(pipe) \cup {e}
    BY <1>1, AppendProperties, ToSetAppend
<1>3. Outside' = Outside \cup {e}
    BY <1>2 DEF Outside
<1> QED
    BY <1>1, <1>2, <1>3 DEF Moves, ClassicTypes, KeptOutside

LEMMA FeedMoves ==
    ASSUME ClassicTypes, NEW p \in Processes, AccountsOf(p), Feed(p)
    PROVE  \E r, c : Moves(p, r, c)
<1> DEFINE old == process[p]
           c == committed[p]
           h == Head(old.transit)
           r == [old EXCEPT !.transit = Tail(old.transit)]
<1>1. /\ old \in Process /\ c \in Offsets /\ Accounts(p, old, c, Outside) /\ Alive(p)
      /\ old.transit \in Seq(Events) /\ old.transit # <<>>
      /\ process' = [process EXCEPT ![p] = r] /\ pipe' = Append(pipe, h)
      /\ committed' = [committed EXCEPT ![p] = c]
      /\ UNCHANGED <<accounted, errorBacklog, listener>>
    BY OldRecord, ProcessFields DEF Feed, Become, otherVars, ClassicTypes
<1>2. ToSet(old.transit) = {h} \cup ToSet(Tail(old.transit)) /\ h \in Events
        /\ Tail(old.transit) \in Seq(Events)
    BY <1>1, ToSetHeadTail
<1>3. /\ r \in Process /\ r.transit = Tail(old.transit) /\ r.items = old.items
      /\ r.backlog = old.backlog /\ r.state = old.state
      /\ r.last = old.last /\ r.stored = old.stored /\ r.next = old.next
    BY <1>1, <1>2 DEF Process
<1> HIDE DEF r, h
<1>4. Memory(old) = Memory(r) \cup {h} /\ Memory(r) \subseteq Memory(old)
    BY <1>2, <1>3 DEF Memory
<1>5. Accounts(p, r, c, Outside \cup {h})
    BY <1>1, <1>3, <1>4 DEF Accounts
<1>6. Moves(p, r, c)
    BY <1>1, <1>2, <1>5, FeedingMove
<1> QED
    BY <1>6

\* The offset is stored, and committed later.
LEMMA CallbackMoves ==
    ASSUME ClassicTypes, NEW p \in Processes, AccountsOf(p),
           Callback(p) \/ CallbackFails(p) \/ AutoCommit(p)
    PROVE  \E r, c : Moves(p, r, c)
<1> DEFINE old == process[p]
           c == committed[p]
<1>1. /\ old \in Process /\ c \in Offsets /\ Accounts(p, old, c, Outside)
      /\ UNCHANGED <<pipe, accounted, errorBacklog, listener>>
    BY OldRecord DEF Callback, CallbackFails, AutoCommit, queueVars, otherVars
<1>2. /\ old.last \in Offsets /\ old.stored \in Offsets /\ old.next \in 1 .. EventCount + 1
      /\ EventCount \in Nat /\ Offsets = 0 .. EventCount /\ old.handling \in BOOLEAN
    BY <1>1, ProcessFields
<1>3. ASSUME NEW stored \in {old.stored, old.last}, NEW state \in {"idle", "failing"},
             NEW handling \in BOOLEAN, old.state \in {"finishing", "reported"},
             process' = [process EXCEPT ![p] =
                [old EXCEPT !.state = state, !.stored = stored, !.handling = handling]],
             committed' = committed
      PROVE  \E r, d : Moves(p, r, d)
    <2> DEFINE r == [old EXCEPT !.state = state, !.stored = stored, !.handling = handling]
    <2>1. /\ r \in Process /\ r.state = state /\ Memory(r) = Memory(old) /\ r.items = old.items
          /\ r.last = old.last /\ r.stored = stored /\ r.next = old.next
        BY <1>1, <1>2, <1>3 DEF Process, Exiting, Memory
    <2>2. process' = [process EXCEPT ![p] = r] /\ committed' = [committed EXCEPT ![p] = c] /\ Alive(p)
        BY <1>3 DEF ClassicTypes, Alive, ProcessEnded
    <2> HIDE DEF r
    <2>3. Accounts(p, r, c, Outside)
        BY <1>1, <1>2, <1>3, <2>1 DEF Accounts, Running
    <2>4. Moves(p, r, c)
        BY <1>1, <2>2, <2>3, QuietMove
    <2> QED
        BY <2>4
<1>4. CASE Callback(p)
    BY <1>3, <1>4 DEF Callback, Become, To
<1>5. CASE CallbackFails(p)
    <2> DEFINE state == IF old.handling THEN "failing" ELSE "idle"
    <2>1. [old EXCEPT !.state = state] =
            [old EXCEPT !.state = state, !.stored = old.stored, !.handling = old.handling]
        BY <1>1 DEF Process
    <2>2. state \in {"idle", "failing"} /\ process' = [process EXCEPT ![p] = [old EXCEPT !.state = state]]
        BY <1>5 DEF CallbackFails, Become, To
    <2>3. committed' = committed /\ old.state \in {"finishing", "reported"}
        BY <1>5 DEF CallbackFails
    <2> HIDE DEF state, old
    <2> QED
        BY <1>2, <1>3, <2>1, <2>2, <2>3
<1>6. CASE AutoCommit(p)
    <2>1. /\ process' = [process EXCEPT ![p] = old] /\ Alive(p) /\ old.stored > c
          /\ committed' = [committed EXCEPT ![p] = old.stored]
        BY <1>6 DEF AutoCommit, ClassicTypes
    <2>2. old.state \in Running
        BY <1>1, <1>2, <2>1 DEF Accounts, Offsets
    <2>3. Accounts(p, old, old.stored, Outside)
        BY <1>1, <1>2, <2>1, <2>2 DEF Accounts
    <2>4. Moves(p, old, old.stored)
        BY <1>1, <2>1, <2>3, QuietMove
    <2> QED
        BY <2>4
<1> QED
    BY <1>4, <1>5, <1>6

\* A process that dies has lost nothing that is committed but not accounted for.
LEMMA DeathMoves ==
    ASSUME ClassicTypes, NEW p \in Processes, AccountsOf(p), Alive(p),
           NEW lost \in SUBSET Events, Memory(process[p]) \subseteq lost, Die(p, lost)
    PROVE  \E r, c : Moves(p, r, c)
<1> DEFINE c == committed[p]
           dead == Gone("dead")
           E == {e \in lost : IsCommitted(e)}
<1>1. /\ c \in Offsets /\ Accounts(p, process[p], c, Outside)
      /\ process' = [process EXCEPT ![p] = dead] /\ committed' = [committed EXCEPT ![p] = c]
      /\ Account(E) /\ UNCHANGED <<pipe, errorBacklog, listener>> /\ E \in SUBSET Events
    BY OldRecord DEF Die, Become, queueVars, otherVars, ClassicTypes
<1>2. \A k \in 1 .. EventCount : k <= c => <<p, k>> \in Outside \cup lost
    BY <1>1 DEF Accounts
<1>3. \A k \in 1 .. EventCount : k <= c => <<p, k>> \in Outside \cup E
    BY <1>2 DEF IsCommitted
<1> HIDE DEF E
<1>4. Accounts(p, dead, c, Outside \cup E)
    BY <1>1, <1>3, GoneAccounts
<1>5. Moves(p, dead, c)
    BY <1>1, <1>4, AccountingMove
<1> QED
    BY <1>5

\* The end of the loop commits up to the offset of the callback, if it
\* comes to it; what is left in transit is with the feeder thread.
LEMMA ShutDownMoves ==
    ASSUME ClassicTypes, NEW p \in Processes, AccountsOf(p), ShutDown(p) \/ InputShutDownFails(p)
    PROVE  \E r, c : Moves(p, r, c)
<1> DEFINE old == process[p]
           upTo(offset) == IF offset > committed[p] THEN offset ELSE committed[p]
           r == [NewProcess EXCEPT !.state = "leaving", !.transit = old.transit]
<1>1. /\ old \in Process /\ committed[p] \in Offsets /\ Accounts(p, old, committed[p], Outside)
      /\ old.state = "idle" /\ Alive(p) /\ process' = [process EXCEPT ![p] = r]
      /\ UNCHANGED <<pipe, errorBacklog, listener>>
    BY OldRecord DEF ShutDown, InputShutDownFails, LeavesLoop, Become, At, Alive, ProcessEnded,
        queueVars, otherVars
<1>2. /\ old.last \in Offsets /\ old.stored \in Offsets /\ old.next \in 1 .. EventCount + 1
      /\ old.transit \in Seq(Events) /\ old.backlog \in SUBSET Events
      /\ EventCount \in Nat /\ Offsets = 0 .. EventCount
    BY <1>1, ProcessFields
<1>3. /\ r \in Process /\ r.state = "leaving" /\ r.transit = old.transit /\ r.backlog = {}
      /\ r.items = <<>> /\ r.last = 0 /\ r.stored = 0 /\ r.next = 1
    BY <1>1, <1>2, NewProcessAccounts DEF NewProcess, Process, Exiting
<1> HIDE DEF r
<1>4. Memory(r) = ToSet(old.transit) /\ ToSet(r.items) = {}
    BY <1>3, ToSetEmpty DEF Memory
<1>5. ASSUME NEW offset \in {old.last, old.stored}, NEW E \in SUBSET Events, Account(E),
             committed' = [committed EXCEPT ![p] = upTo(offset)],
             \A k \in 1 .. EventCount : <<p, k>> \in old.backlog /\ k <= upTo(offset) => <<p, k>> \in E
      PROVE  \E s, d : Moves(p, s, d)
    <2> DEFINE d == upTo(offset)
    <2>1. d \in {offset, committed[p]} /\ d \in Offsets
        BY <1>1, <1>2
    <2>2. \A k \in 1 .. EventCount : <<p, k>> \in old.backlog /\ k <= d => <<p, k>> \in E
        BY <1>5
    <2> HIDE DEF d, upTo
    <2>3. \A k \in 1 .. EventCount : k <= d => <<p, k>> \in Outside \cup Memory(old)
        BY <1>1, <1>2, <1>5, <2>1 DEF Accounts, Running
    <2>4. \A k \in 1 .. EventCount : k <= d => <<p, k>> \in Outside \cup E \cup Memory(r)
        <3>1. ToSet(old.items) = {}
            BY <1>1 DEF Accounts
        <3> QED
            BY <1>4, <2>2, <2>3, <3>1 DEF Memory
    <2> HIDE DEF old
    <2>5. Accounts(p, r, d, Outside \cup E)
        BY <1>3, <1>4, <2>1, <2>4 DEF Accounts, Running
    <2>6. committed' = [committed EXCEPT ![p] = d]
        BY <1>5 DEF d
    <2>7. Moves(p, r, d)
        BY <1>1, <1>5, <2>5, <2>6, AccountingMove
    <2> QED
        BY <2>7
<1>6. CASE ShutDown(p)
    <2>1. Account(old.backlog) /\ committed' = [committed EXCEPT ![p] = upTo(old.last)]
        BY <1>6 DEF ShutDown, CommitUpTo
    <2> HIDE DEF old, upTo
    <2> QED
        BY <1>2, <1>5, <2>1
<1>7. CASE InputShutDownFails(p)
    <2> DEFINE E == {e \in old.backlog : e[2] <= committed'[e[1]]}
    <2>1. committed' = [committed EXCEPT ![p] = upTo(old.stored)] /\ Account(E)
        BY <1>7 DEF InputShutDownFails, CommitUpTo, IsCommitted
    <2>2. committed'[p] = upTo(old.stored)
        BY <2>1 DEF ClassicTypes
    <2>3. E \in SUBSET Events
        BY <1>2
    <2>4. \A k \in 1 .. EventCount : <<p, k>> \in old.backlog /\ k <= upTo(old.stored) => <<p, k>> \in E
        BY <2>2
    <2> HIDE DEF old, upTo, E
    <2> QED
        BY <1>5, <2>1, <2>3, <2>4
<1> QED
    BY <1>6, <1>7

\* A process that leaves has nothing in transit any more; a killed one loses
\* its memory.
LEMMA EndMoves ==
    ASSUME ClassicTypes, NEW p \in Processes, AccountsOf(p), Leave(p) \/ Crash(p)
    PROVE  \E r, c : Moves(p, r, c)
<1> DEFINE old == process[p]
           c == committed[p]
<1>1. /\ old \in Process /\ c \in Offsets /\ Accounts(p, old, c, Outside)
      /\ Memory(old) \subseteq Events
    BY OldRecord
<1>2. old.backlog \in SUBSET Events
    BY <1>1, ProcessFields
<1>3. CASE Crash(p)
    <2>1. Alive(p) /\ Die(p, Memory(old))
        BY <1>3 DEF Crash, Alive, InMemory, Memory
    <2> QED
        BY <1>1, <2>1, DeathMoves
<1>4. CASE Leave(p)
    <2>1. /\ old.state \in {"leaving", "failing"} /\ Alive(p) /\ old.transit = <<>>
          /\ ToSet(old.items) = {}
        BY <1>1, <1>4 DEF Leave, Exiting, Alive, ProcessEnded, Accounts
    <2>2. Memory(old) = old.backlog
        BY <2>1, ToSetEmpty DEF Memory
    <2>3. CASE Die(p, old.backlog)
        BY <1>2, <2>1, <2>2, <2>3, DeathMoves
    <2>4. CASE /\ At(p, "leaving") /\ Become(p, Gone("exited"))
               /\ UNCHANGED <<committed, queueVars, otherVars, accounted>>
        <3>1. /\ process' = [process EXCEPT ![p] = Gone("exited")]
              /\ committed' = [committed EXCEPT ![p] = c]
              /\ UNCHANGED <<pipe, accounted, errorBacklog, listener>>
            BY <2>4 DEF Become, queueVars, otherVars, ClassicTypes
        <3>2. \A k \in 1 .. EventCount : k <= c => <<p, k>> \in Outside
            BY <1>1, <2>2, <2>4 DEF Accounts, Running, At
        <3>3. Accounts(p, Gone("exited"), c, Outside)
            BY <1>1, <3>2, GoneAccounts
        <3>4. Moves(p, Gone("exited"), c)
            BY <2>1, <3>1, <3>3, QuietMove
        <3> QED
            BY <3>4
    <2> QED
        BY <1>4, <2>3, <2>4 DEF Leave
<1> QED
    BY <1>3, <1>4

LEMMA PipelineStepMoves ==
    ASSUME ClassicTypes, NEW p \in Processes, AccountsOf(p), PipelineStep(p)
    PROVE  \E r, c : Moves(p, r, c)
<1>1. CASE Begin(p) \/ SetUp(p) \/ SetUpFails(p)
    BY <1>1, StartMoves
<1>2. CASE GetNext(p) \/ SourceFails(p)
    BY <1>2, InputMoves
<1>3. CASE ScheduledWrite(p)
    BY <1>3, WriteMoves DEF ScheduledWrite
<1>4. CASE ProcessEvent(p) \/ ExtraDataFails(p) \/ StoreEvent(p)
    BY <1>4, EventMoves
<1>5. CASE PutItem(p) \/ DropItems(p)
    BY <1>5, ReportMoves
<1>6. CASE Feed(p)
    BY <1>6, FeedMoves
<1>7. CASE Callback(p) \/ CallbackFails(p) \/ AutoCommit(p)
    BY <1>7, CallbackMoves
<1>8. CASE ShutDown(p) \/ InputShutDownFails(p)
    BY <1>8, ShutDownMoves
<1>9. CASE Leave(p) \/ Crash(p)
    BY <1>9, EndMoves
<1> QED
    BY <1>1, <1>2, <1>3, <1>4, <1>5, <1>6, <1>7, <1>8, <1>9 DEF PipelineStep, Works

(***************************************************************************)
(* The main process and the listener.                                      *)
(***************************************************************************)

\* The pipelines past count have ended, and so have those that are created
\* again; in some places there is none, or all.
MainOrder ==
    /\ count \in 0 .. ProcessCount /\ told \in BOOLEAN /\ due \subseteq Processes
    /\ \A p \in Processes : p > count => ~ Alive(p)
    /\ main \in {"head", "check", "restarting"} => count = ProcessCount
    /\ main \in {"handshake", "starting", "sentinel", "joining", "ended"} => count = 0
    /\ main = "restarting" => \A p \in due : ~ Alive(p)
    /\ told => main \in {"reloading", "stopping"} /\ count > 0

\* The listener drains only when the pipelines are gone, but for the sentinel
\* of a health check.
ListenerOrder ==
    /\ main = "handshake" => ToSet(pipe) \cap Events = {}
    /\ probe = "failed" => main \in {"stopping", "sentinel", "joining", "ended"}
    /\ probe # "failed" =>
        /\ Sentinel \in ToSet(pipe) \cup ToSet(handedOver) =>
                main \in {"joining", "ended"} \/ listener = "dead"
        /\ listener \in {"draining", "ended"} => main \in {"joining", "ended"}
        /\ listener = "ended" => errorBacklog = {} /\ ToSet(pipe) \cap Events = {}

ClassicInv ==
    /\ ClassicTypes /\ MainOrder /\ ListenerOrder
    /\ \A p \in Processes : AccountsOf(p)

LEMMA MovePreserves ==
    ASSUME ClassicInv, NEW p \in Processes, NEW r, NEW c, Moves(p, r, c), UNCHANGED mainVars
    PROVE  ClassicInv'
<1>1. r \in Process /\ c \in Offsets /\ Accounts(p, r, c, Outside')
    BY DEF Moves, Accounts
<1>2. ClassicTypes'
    BY <1>1 DEF ClassicInv, ClassicTypes, Moves, mainVars, creationVars
<1>3. count > 0 /\ ~ (p > count)
    BY ErrorListenerAssumption DEF ClassicInv, MainOrder, Moves, Processes
<1>4. \A q \in Processes : q # p => process'[q] = process[q] /\ committed'[q] = committed[q]
    BY DEF Moves, ClassicInv, ClassicTypes
<1>5. process'[p] = r /\ committed'[p] = c
    BY DEF Moves, ClassicInv, ClassicTypes
<1>6. MainOrder'
    <2>1. \A q \in Processes : ~ Alive(q) => ~ Alive(q)'
        BY <1>4 DEF Moves, Alive
    <2> QED
        BY <1>3, <2>1 DEF ClassicInv, MainOrder, mainVars, creationVars
<1>7. ListenerOrder'
    BY <1>3, Markers DEF ClassicInv, MainOrder, ListenerOrder, Moves, mainVars, creationVars
<1>8. \A q \in Processes : AccountsOf(q)'
    <2> SUFFICES ASSUME NEW q \in Processes PROVE Accounts(q, process'[q], committed'[q], Outside')
        BY DEF AccountsOf
    <2>1. CASE q = p
        BY <2>1, <1>1, <1>5
    <2>2. CASE q # p
        BY <2>2, <1>4, AccountsKept DEF ClassicInv, AccountsOf, Moves
    <2> QED
        BY <2>1, <2>2
<1> QED
    BY <1>2, <1>6, <1>7, <1>8 DEF ClassicInv

LEMMA TakeEffect ==
    ASSUME ClassicTypes, Take
    PROVE  /\ Got \in Items /\ pipe' \in Seq(Items)
           /\ ToSet(pipe) = {Got} \cup ToSet(pipe')
BY ToSetHeadTail DEF ClassicTypes, Take, Got

\* The pipelines as they are, while more is outside.
LEMMA OthersKeepAccounts ==
    ASSUME ClassicInv, UNCHANGED pipelineVars, Outside \subseteq Outside'
    PROVE  \A p \in Processes : AccountsOf(p)'
BY AccountsGrow DEF ClassicInv, AccountsOf, pipelineVars

\* The listener's own 1 and its sentinel are no events.
LEMMA ListenerSyncPreserves ==
    ASSUME ClassicInv, UNCHANGED <<mainVars, pipelineVars>>,
           ListenerSetsUp \/ ListenerSetupFails \/ PingArrives \/ ListenerSynced
    PROVE  ClassicInv'
<1>1. UNCHANGED <<errorBacklog, accounted>> /\ pipe \in Seq(Items)
    BY DEF ListenerSetsUp, ListenerSetupFails, PingArrives, ListenerSynced, ClassicInv, ClassicTypes
<1>2. \/ pipe' = pipe
      \/ pipe' = Append(pipe, Ping)
      \/ pipe' = Append(pipe, Sentinel) /\ listener' = "dead"
    BY DEF ListenerSetsUp, ListenerSetupFails, PingArrives, ListenerSynced, queueVars
<1>3. /\ pipe' \in Seq(Items) /\ ToSet(pipe) \subseteq ToSet(pipe')
      /\ ToSet(pipe') \subseteq ToSet(pipe) \cup {Ping, Sentinel}
      /\ Sentinel \in ToSet(pipe') => Sentinel \in ToSet(pipe) \/ listener' = "dead"
    <2>1. /\ Append(pipe, Ping) \in Seq(Items) /\ Append(pipe, Sentinel) \in Seq(Items)
          /\ ToSet(Append(pipe, Ping)) = ToSet(pipe) \cup {Ping}
          /\ ToSet(Append(pipe, Sentinel)) = ToSet(pipe) \cup {Sentinel}
        BY <1>1, AppendProperties, ToSetAppend DEF Items
    <2> QED
        BY <1>1, <1>2, <2>1, Markers
<1>4. listener' # listener => listener \in {"setup", "syncing"} /\ listener' \in {"syncing", "dead", "ready"}
    BY DEF ListenerSetsUp, ListenerSetupFails, PingArrives, ListenerSynced
<1>5. ClassicTypes' /\ Outside \subseteq Outside'
    BY <1>1, <1>3 DEF ClassicInv, ClassicTypes, Outside, pipelineVars, mainVars, creationVars
<1>6. ListenerOrder'
    BY <1>1, <1>3, <1>4, Markers DEF ClassicInv, ListenerOrder, mainVars, creationVars
<1>7. MainOrder'
    BY DEF ClassicInv, MainOrder, mainVars, creationVars, pipelineVars, Alive
<1> QED
    BY <1>5, <1>6, <1>7, OthersKeepAccounts DEF ClassicInv

\* A write takes the backlog to its end; the queue stays as it is.
LEMMA ListenerWritePreserves ==
    ASSUME ClassicInv, UNCHANGED <<mainVars, pipelineVars>>,
           ListenerRunsTasks \/ ListenerEnds \/ ListenerCrashes
    PROVE  ClassicInv'
<1>1. /\ pipe' = pipe
      /\ WriteErrors(errorBacklog) \/ UNCHANGED <<errorBacklog, accounted>>
    BY DEF ListenerRunsTasks, ListenerEnds, ListenerCrashes, queueVars
<1>2. ClassicTypes' /\ Outside \subseteq Outside'
    BY <1>1 DEF ClassicInv, ClassicTypes, Outside, WriteErrors, Account, pipelineVars, mainVars, creationVars
<1>3. \/ listener \notin {"dead", "ended", "draining"} /\ listener' \in {"ready", "getting", "dead"}
      \/ listener \notin {"dead", "ended"} /\ listener' = "dead"
      \/ /\ listener = "draining" /\ listener' = "ended"
         /\ pipe = <<>> /\ errorBacklog' = {}
    BY DEF ListenerRunsTasks, ListenerEnds, ListenerCrashes, ListenerEnded, WriteErrors
<1>4. ListenerOrder'
    BY <1>1, <1>3, ToSetEmpty DEF ClassicInv, ListenerOrder, mainVars, creationVars
<1>5. MainOrder'
    BY DEF ClassicInv, MainOrder, mainVars, creationVars, pipelineVars, Alive
<1> QED
    BY <1>2, <1>4, <1>5, OthersKeepAccounts DEF ClassicInv

\* The head of the queue, if it is an event, goes to the error output.
LEMMA ListenerTakePreserves ==
    ASSUME ClassicInv, UNCHANGED <<mainVars, pipelineVars>>, ListenerGets \/ ListenerDrains
    PROVE  ClassicInv'
<1>1. /\ Got \in Items /\ pipe' \in Seq(Items)
      /\ ToSet(pipe) = {Got} \cup ToSet(pipe')
    BY TakeEffect DEF ClassicInv, ListenerGets, ListenerDrains
<1>2. \/ Got \in {Ping, Sentinel} /\ UNCHANGED <<errorBacklog, accounted>>
      \/ Got \notin {Ping, Sentinel} /\ StoreError(Got)
    BY DEF ListenerGets, ListenerDrains
<1>3. Got \notin {Ping, Sentinel} => Got \in Events
    BY <1>1 DEF Items
<1>4. ClassicTypes' /\ Outside \subseteq Outside'
    <2>1. CASE Got \in {Ping, Sentinel} /\ UNCHANGED <<errorBacklog, accounted>>
        BY <2>1, <1>1, Markers DEF ClassicInv, ClassicTypes, Outside, pipelineVars, mainVars, creationVars
    <2>2. CASE Got \in Events /\ StoreError(Got)
        BY <2>2, <1>1 DEF ClassicInv, ClassicTypes, Outside, pipelineVars, mainVars, creationVars,
            StoreError, WriteErrors, Account
    <2> QED
        BY <1>2, <1>3, <2>1, <2>2
<1>5. /\ listener \in {"ready", "getting", "draining"} /\ listener' \in {"ready", "draining"}
      /\ listener' = "draining" => listener = "draining" \/ Got = Sentinel
    BY DEF ListenerGets, ListenerDrains, AfterItem
<1>6. ListenerOrder'
    BY <1>1, <1>5 DEF ClassicInv, ListenerOrder, mainVars, creationVars
<1>7. MainOrder'
    BY DEF ClassicInv, MainOrder, mainVars, creationVars, pipelineVars, Alive
<1> QED
    BY <1>4, <1>6, <1>7, OthersKeepAccounts DEF ClassicInv

LEMMA HandshakePreserves ==
    ASSUME ClassicInv, Handshake
    PROVE  ClassicInv'
<1>1. /\ Got \in Items /\ pipe' \in Seq(Items) /\ ToSet(pipe) = {Got} \cup ToSet(pipe')
      /\ UNCHANGED <<committed, listener, errorBacklog, accounted, told, count, process,
                     due, probe, handedOver>>
    BY TakeEffect DEF ClassicInv, Handshake, MainFrame, listenerVars, creationVars
<1>2. main = "handshake" /\ main' \in {"stopping", "starting"} /\ Got \notin Events
    BY <1>1 DEF Handshake, ClassicInv, ListenerOrder
<1>3. Outside \subseteq Outside'
    BY <1>1, <1>2 DEF Outside
<1>4. ClassicTypes' /\ \A p \in Processes : AccountsOf(p)'
    BY <1>1, <1>3, OthersKeepAccounts DEF ClassicInv, ClassicTypes, pipelineVars
<1>5. ListenerOrder'
    BY <1>1, <1>2 DEF ClassicInv, ListenerOrder
<1>6. MainOrder'
    BY <1>1, <1>2 DEF ClassicInv, MainOrder, Alive
<1> QED
    BY <1>4, <1>5, <1>6 DEF ClassicInv

\* A process that has ended leaves nothing for its successor but its offset.
LEMMA CreatePreserves ==
    ASSUME ClassicInv, CreatePipelines
    PROVE  ClassicInv'
<1>1. /\ UNCHANGED <<committed, listener, errorBacklog, accounted, pipe, told, handedOver>>
      /\ count' = ProcessCount /\ main' \in {"head", "check"} /\ due' = {} /\ probe' = "none"
      /\ process' = [p \in Processes |-> IF p \in Due THEN NewProcess ELSE process[p]]
      /\ Creating
    BY DEF CreatePipelines, MainFrame, listenerVars, queueVars
<1>2. Outside' = Outside /\ ProcessCount \in Nat /\ ProcessCount > 0
    BY <1>1, ErrorListenerAssumption DEF Outside
<1>3. /\ \A p \in Due : ~ Alive(p) /\ Due \subseteq Processes
      /\ ~ told /\ told \in BOOLEAN /\ probe # "failed" /\ main \notin {"joining", "ended"}
    BY <1>1, <1>2 DEF Creating, Due, ClassicInv, MainOrder, ListenerOrder, Processes
<1>4. ClassicTypes'
    <2>1. \A p \in Processes : process'[p] \in Process
        BY <1>1, NewProcessAccounts DEF ClassicInv, ClassicTypes
    <2> QED
        BY <1>1, <2>1 DEF ClassicInv, ClassicTypes
<1>5. ASSUME NEW p \in Processes
      PROVE  AccountsOf(p)'
    <2>1. Accounts(p, process[p], committed[p], Outside) /\ committed[p] \in Offsets
        BY DEF ClassicInv, AccountsOf, ClassicTypes
    <2>2. CASE p \in Due
        <3>1. process[p].state \notin Running \cup {"leaving"}
            BY <1>3, <2>2 DEF Alive, ProcessEnded, Running
        <3>2. \A k \in 1 .. EventCount : k <= committed[p] => <<p, k>> \in Outside
            BY <2>1, <3>1 DEF Accounts
        <3> QED
            BY <1>1, <1>2, <2>1, <2>2, <3>2, GoneAccounts, NewProcessAccounts DEF AccountsOf
    <2>3. CASE p \notin Due
        BY <1>1, <1>2, <2>1, <2>3 DEF AccountsOf
    <2> QED
        BY <2>2, <2>3
<1>6. ListenerOrder'
    BY <1>1, <1>3 DEF ClassicInv, ListenerOrder
<1>7. MainOrder'
    BY <1>1, <1>2, <1>3 DEF MainOrder, Processes
<1> QED
    BY <1>4, <1>5, <1>6, <1>7 DEF ClassicInv

\* The manager's 1 and its sentinels are no events.
LEMMA MarkersPreserve ==
    ASSUME ClassicInv, Probe \/ ManagerFeeds
    PROVE  ClassicInv'
<1> DEFINE both == ToSet(pipe) \cup ToSet(handedOver)
<1>1. /\ UNCHANGED <<committed, listener, errorBacklog, accounted, told, count, process, due>>
      /\ handedOver \in Seq({Ping, Sentinel}) /\ pipe \in Seq(Items)
    BY DEF Probe, ManagerFeeds, MainFrame, listenerVars, ClassicInv, ClassicTypes
<1>2. CASE Probe
    <2>1. /\ UNCHANGED pipe /\ probe # "failed"
          /\ \/ handedOver' = Append(handedOver, Ping) /\ probe' = "sent" /\ UNCHANGED main
             \/ /\ handedOver' = Append(handedOver, Sentinel)
                /\ probe' = "failed" /\ main' = "stopping"
             \/ main' = "stopping" /\ UNCHANGED <<probe, handedOver>>
          /\ main \in {"starting", "restarting", "reloading"}
        BY <1>2 DEF Probe, Creating
    <2>2. /\ Append(handedOver, Ping) \in Seq({Ping, Sentinel})
          /\ Append(handedOver, Sentinel) \in Seq({Ping, Sentinel})
          /\ ToSet(Append(handedOver, Ping)) = ToSet(handedOver) \cup {Ping}
        BY <1>1, AppendProperties, ToSetAppend
    <2>3. ClassicTypes' /\ Outside \subseteq Outside'
        BY <1>1, <2>1, <2>2 DEF ClassicInv, ClassicTypes, Outside
    <2>4. ListenerOrder'
        BY <1>1, <2>1, <2>2, Markers DEF ClassicInv, ListenerOrder
    <2>5. MainOrder'
        BY <1>1, <2>1 DEF ClassicInv, MainOrder, Alive
    <2> QED
        BY <1>1, <2>3, <2>4, <2>5, OthersKeepAccounts DEF ClassicInv, pipelineVars
<1>3. CASE ManagerFeeds
    <2> DEFINE h == Head(handedOver)
    <2>1. /\ UNCHANGED <<main, probe>> /\ handedOver # <<>>
          /\ pipe' = Append(pipe, h) /\ handedOver' = Tail(handedOver)
        BY <1>3 DEF ManagerFeeds
    <2>2. /\ ToSet(handedOver) = {h} \cup ToSet(handedOver') /\ h \in {Ping, Sentinel}
          /\ handedOver' \in Seq({Ping, Sentinel})
        BY <1>1, <2>1, ToSetHeadTail
    <2> HIDE DEF h
    <2>3. pipe' \in Seq(Items) /\ ToSet(pipe') = ToSet(pipe) \cup {h}
        <3>1. h \in Items
            BY <2>2 DEF Items
        <3> QED
            BY <1>1, <2>1, <3>1, AppendProperties, ToSetAppend
    <2>4. ClassicTypes' /\ Outside \subseteq Outside'
        BY <1>1, <2>2, <2>3 DEF ClassicInv, ClassicTypes, Outside
    <2>5. h \notin Events /\ ToSet(pipe') \cap Events = ToSet(pipe) \cap Events
        BY <2>2, <2>3, Markers
    <2>6. ListenerOrder'
        BY <1>1, <2>1, <2>2, <2>3, <2>5 DEF ClassicInv, ListenerOrder
    <2>7. MainOrder'
        BY <1>1, <2>1 DEF ClassicInv, MainOrder, Alive
    <2> QED
        BY <1>1, <2>4, <2>6, <2>7, OthersKeepAccounts DEF ClassicInv, pipelineVars
<1> QED
    BY <1>2, <1>3

\* Where the runner goes from its iteration.
LEMMA IteratePreserves ==
    ASSUME ClassicInv, Iterate
    PROVE  ClassicInv'
<1>1. UNCHANGED <<process, committed, listener, errorBacklog, accounted, pipe, told, count,
                  probe, handedOver>>
    BY DEF Iterate, pipelineVars, queueVars, listenerVars
<1>2. /\ main \in {"head", "check"} /\ main' \in {"head", "stopping", "reloading", "restarting"}
      /\ IF main' = "restarting" THEN due' = Failed ELSE due' = due
    BY DEF Iterate, CheckPipelines
<1>3. Outside' = Outside /\ Failed \subseteq Processes /\ \A p \in Failed : ~ Alive(p)
    BY <1>1 DEF Outside, Failed
<1>4. ClassicTypes' /\ \A p \in Processes : AccountsOf(p)'
    BY <1>1, <1>3, OthersKeepAccounts DEF ClassicInv, ClassicTypes, pipelineVars
<1>5. ListenerOrder'
    BY <1>1, <1>2 DEF ClassicInv, ListenerOrder
<1>6. MainOrder'
    BY <1>1, <1>2, <1>3 DEF ClassicInv, MainOrder, Alive
<1> QED
    BY <1>4, <1>5, <1>6 DEF ClassicInv

\* The steps that stop the pipelines.
LEMMA DecreasePreserves ==
    ASSUME ClassicInv, TellLast \/ JoinLast
    PROVE  ClassicInv'
<1>1. /\ UNCHANGED <<committed, listener, errorBacklog, accounted, pipe, main,
                     due, probe, handedOver>>
      /\ main \in {"reloading", "stopping"} /\ count > 0 /\ count \in Processes
      /\ ProcessCount \in Nat
    BY ErrorListenerAssumption DEF TellLast, JoinLast, MainFrame, listenerVars, queueVars,
        creationVars, ClassicInv, MainOrder, Processes
<1>2. Outside' = Outside /\ ListenerOrder'
    BY <1>1 DEF Outside, ClassicInv, ListenerOrder
<1>3. CASE TellLast
    <2> DEFINE old == process[count]
               r == [old EXCEPT !.iterating = FALSE]
    <2>1. /\ process' = [process EXCEPT ![count] = r] /\ told' = TRUE /\ UNCHANGED count
          /\ old \in Process /\ Accounts(count, old, committed[count], Outside)
        BY <1>1, <1>3 DEF TellLast, Become, ClassicInv, ClassicTypes, AccountsOf
    <2>2. /\ r \in Process /\ Memory(r) = Memory(old) /\ r.last = old.last /\ r.state = old.state
          /\ r.stored = old.stored /\ r.items = old.items /\ r.next = old.next
          /\ r.backlog = old.backlog
        BY <2>1 DEF Process, Memory
    <2> HIDE DEF r
    <2>3. Accounts(count, r, committed[count], Outside)
        BY <2>1, <2>2 DEF Accounts
    <2>4. /\ process'[count] = r
          /\ \A p \in Processes : p # count => process'[p] = process[p]
        BY <1>1, <2>1 DEF ClassicInv, ClassicTypes
    <2>5. \A p \in Processes : AccountsOf(p)'
        BY <1>1, <1>2, <2>3, <2>4 DEF ClassicInv, AccountsOf
    <2>6. ClassicTypes'
        BY <1>1, <2>1, <2>2 DEF ClassicInv, ClassicTypes
    <2>7. MainOrder'
        BY <1>1, <2>1, <2>2, <2>4 DEF ClassicInv, MainOrder, Alive, Processes
    <2> QED
        BY <1>2, <2>5, <2>6, <2>7 DEF ClassicInv
<1>4. CASE JoinLast
    <2>1. ~ Alive(count) /\ count' = count - 1 /\ told' = FALSE /\ UNCHANGED process
        BY <1>4 DEF JoinLast
    <2>2. MainOrder'
        <3>1. \A p \in Processes : p > count => ~ Alive(p)
            BY DEF ClassicInv, MainOrder
        <3>2. \A p \in Processes : p > count - 1 => p > count \/ p = count
            BY <1>1 DEF Processes
        <3>3. \A p \in Processes : p > count' => ~ Alive(p)'
            BY <2>1, <3>1, <3>2 DEF Alive
        <3>4. /\ count' \in 0 .. ProcessCount /\ told' = FALSE /\ main' \in {"reloading", "stopping"}
              /\ due' \subseteq Processes
            BY <1>1, <2>1 DEF Processes, ClassicInv, MainOrder
        <3> QED
            BY <3>3, <3>4 DEF MainOrder
    <2>3. ClassicTypes' /\ \A p \in Processes : AccountsOf(p)'
        BY <1>1, <1>2, <2>1, OthersKeepAccounts DEF ClassicInv, ClassicTypes, pipelineVars
    <2> QED
        BY <1>2, <2>2, <2>3 DEF ClassicInv
<1> QED
    BY <1>3, <1>4

\* The steps that stop the listener; every pipeline has been joined.
LEMMA StopListenerPreserves ==
    ASSUME ClassicInv, StopListener \/ JoinListener
    PROVE  ClassicInv'
<1>1. /\ UNCHANGED <<count, told, process, committed, listener, errorBacklog, accounted, pipe,
                     due, probe>>
      /\ \/ main = "stopping" /\ count = 0 /\ main' \in {"sentinel", "ended"} /\ UNCHANGED handedOver
         \/ main = "sentinel" /\ main' = "joining" /\ handedOver' = Append(handedOver, Sentinel)
         \/ main = "joining" /\ main' = "ended" /\ UNCHANGED handedOver
    BY DEF StopListener, JoinListener, AllStopped, MainFrame, listenerVars, queueVars, creationVars
<1>2. Append(handedOver, Sentinel) \in Seq({Ping, Sentinel})
    BY AppendProperties DEF ClassicInv, ClassicTypes
<1>3. ClassicTypes' /\ Outside \subseteq Outside'
    BY <1>1, <1>2 DEF ClassicInv, ClassicTypes, Outside
<1>4. MainOrder'
    BY <1>1 DEF ClassicInv, MainOrder, Alive
<1>5. ListenerOrder'
    BY <1>1 DEF ClassicInv, ListenerOrder
<1> QED
    BY <1>1, <1>3, <1>4, <1>5, OthersKeepAccounts DEF ClassicInv, pipelineVars

(***************************************************************************)
(* The theorems.                                                           *)
(***************************************************************************)
LEMMA ClassicInitial == Init => ClassicInv
<1> SUFFICES ASSUME Init PROVE ClassicInv
    OBVIOUS
<1>1. /\ ProcessCount \in Nat \ {0} /\ EventCount \in Nat
      /\ 0 \in Offsets /\ Offsets = 0 .. EventCount
    BY ErrorListenerAssumption DEF Offsets
<1>2. /\ pipe = <<>> /\ accounted = {} /\ errorBacklog = {} /\ <<>> \in Seq(Items)
      /\ ToSet(pipe) = {} /\ listener \in {"absent", "setup"} /\ due = {} /\ probe = "none"
      /\ handedOver = <<>> /\ <<>> \in Seq({Ping, Sentinel})
    BY EmptySeq, ToSetEmpty DEF Init, ListenerInit
<1>3. /\ committed = [p \in Processes |-> 0]
      /\ \A p \in Processes : process[p] \in {Gone("exited"), NewProcess}
      /\ process = [p \in Processes |-> process[p]]
      /\ \A p \in Processes : HasErrorQueue => ~ Alive(p)
    BY DEF Init, PipelineInit, Alive, ProcessEnded, Gone, NewProcess
<1>4. \A p \in Processes : process[p] \in Process /\ AccountsOf(p)
    <2> SUFFICES ASSUME NEW p \in Processes PROVE process[p] \in Process /\ AccountsOf(p)
        OBVIOUS
    <2>1. \A k \in 1 .. EventCount : k <= 0 => <<p, k>> \in Outside
        BY <1>1
    <2> QED
        BY <1>1, <1>3, <2>1, NewProcessAccounts, GoneAccounts DEF AccountsOf
<1>5. ClassicTypes
    BY <1>1, <1>2, <1>3, <1>4 DEF ClassicTypes
<1>6. MainOrder
    <2>1. told = FALSE
        BY DEF Init
    <2>2. \/ HasErrorQueue /\ main = "handshake" /\ count = 0
          \/ ~ HasErrorQueue /\ main = "head" /\ count = ProcessCount
        BY DEF Init
    <2>3. CASE HasErrorQueue /\ main = "handshake" /\ count = 0
        <3>1. count \in 0 .. ProcessCount /\ \A p \in Processes : ~ Alive(p)
            BY <1>1, <1>3, <2>3
        <3> QED
            BY <1>2, <2>1, <2>3, <3>1 DEF MainOrder
    <2>4. CASE ~ HasErrorQueue /\ main = "head" /\ count = ProcessCount
        <3>1. count \in 0 .. ProcessCount /\ \A p \in Processes : ~ (p > count)
            BY <1>1, <2>4 DEF Processes
        <3> QED
            BY <1>2, <2>1, <2>4, <3>1 DEF MainOrder
    <2> QED
        BY <2>2, <2>3, <2>4
<1>7. ListenerOrder
    <2>1. main \in {"handshake", "head"}
        BY DEF Init
    <2> QED
        BY <1>2, <2>1 DEF ListenerOrder
<1> QED
    BY <1>4, <1>5, <1>6, <1>7 DEF ClassicInv

LEMMA ClassicStep == ClassicInv /\ [Next]_vars => ClassicInv'
<1> SUFFICES ASSUME ClassicInv, [Next]_vars PROVE ClassicInv'
    OBVIOUS
<1>1. CASE StopRunner \/ UNCHANGED vars
    <2>1. UNCHANGED <<process, committed, pipe, accounted, errorBacklog, listener, main, count, told,
                      due, probe, handedOver>>
        BY <1>1 DEF StopRunner, vars, mainVars, creationVars, pipelineVars, queueVars, listenerVars
    <2>2. Outside' = Outside
        BY <2>1 DEF Outside
    <2>3. ClassicTypes' /\ ListenerOrder' /\ MainOrder'
        BY <2>1 DEF ClassicInv, ClassicTypes, ListenerOrder, MainOrder, Alive
    <2> QED
        BY <2>1, <2>2, <2>3, OthersKeepAccounts DEF ClassicInv, pipelineVars
<1>2. CASE MainStep \/ ManagerFeeds
    BY <1>2, HandshakePreserves, MarkersPreserve, CreatePreserves, IteratePreserves,
        DecreasePreserves, StopListenerPreserves DEF MainStep
<1>3. CASE ListenerStep /\ UNCHANGED <<mainVars, pipelineVars>>
    BY <1>3, ListenerSyncPreserves, ListenerWritePreserves, ListenerTakePreserves
        DEF ListenerStep
<1>4. CASE \E p \in Processes : PipelineStep(p) /\ UNCHANGED mainVars
    <2> PICK p \in Processes : PipelineStep(p) /\ UNCHANGED mainVars
        BY <1>4
    <2>1. \E r, c : Moves(p, r, c)
        BY PipelineStepMoves DEF ClassicInv
    <2> QED
        BY <2>1, MovePreserves
<1> QED
    BY <1>1, <1>2, <1>3, <1>4 DEF Next

\* However the steps of the pipelines, the listener and the main process
\* interleave, and whichever of them fails or is killed when: an event whose
\* offset a pipeline has committed is delivered, deleted, in the error output
\* or on its way there, or lost in one of the ways CommittedIsAccountedFor
\* lists.  No order of those steps loses one in another way, and an event
\* that is read again has to be accounted for again
\* (abc/input.py:215-217, pipeline.py:283-309, 342-351, 379-430).
THEOREM CommittedIsNotForgotten == Spec => []CommittedIsAccountedFor
<1>1. ClassicInv => CommittedIsAccountedFor
    <2> SUFFICES ASSUME ClassicInv, NEW e \in Events, IsCommitted(e)
        PROVE  e \in UNION {accounted, errorBacklog, ToSet(pipe), InMemory(e[1])}
        BY DEF CommittedIsAccountedFor
    <2>1. PICK p \in Processes, k \in 1 .. EventCount : e = <<p, k>>
        BY DEF Events
    <2>2. k <= committed[p] /\ Accounts(p, process[p], committed[p], Outside)
        BY <2>1 DEF IsCommitted, ClassicInv, AccountsOf
    <2>3. e \in Outside \cup Memory(process[p])
        BY <2>1, <2>2 DEF Accounts
    <2>4. InMemory(e[1]) = Memory(process[p])
        BY <2>1 DEF InMemory, Memory
    <2> QED
        BY <2>3, <2>4 DEF Outside
<1> QED
    BY <1>1, ClassicInitial, ClassicStep, PTL DEF Spec

\* The pipelines are joined one after the other before the listener gets its
\* sentinel, and it empties the queue after it: a manager that has stopped
\* has left no error item behind, unless its listener died, or was told to
\* stop by a failing health check of the exporter
\* (pipeline_manager.py:76-83, 108-131, 286-296, 318-323).
THEOREM StoppedManagerLeavesNothing == Spec => []NoErrorLeftBehind
<1>1. ClassicInv => NoErrorLeftBehind
    <2> SUFFICES ASSUME ClassicInv, main = "ended", listener = "ended", probe # "failed"
        PROVE  /\ errorBacklog = {} /\ ToSet(pipe) \cap Events = {}
               /\ \A p \in Processes : InMemory(p) = {}
        BY DEF NoErrorLeftBehind
    <2>1. \A p \in Processes : ~ Alive(p)
        BY ErrorListenerAssumption DEF ClassicInv, MainOrder, Processes
    <2>2. \A p \in Processes : Memory(process[p]) = {}
        BY <2>1 DEF ClassicInv, AccountsOf, Accounts, Alive, ProcessEnded, Running
    <2> QED
        BY <2>2 DEF ClassicInv, ListenerOrder, InMemory, Memory
<1> QED
    BY <1>1, ClassicInitial, ClassicStep, PTL DEF Spec

(***************************************************************************)
(* The slots of the error queue.  A put takes a slot, a get gives one      *)
(* back, and in between the item is with its process's feeder thread or in *)
(* the pipe; a process that is killed takes its items with it, but not     *)
(* their slots.  So there is a slot for every item, and the slots never    *)
(* fall below zero.                                                        *)
(***************************************************************************)
Owners == 0 .. ProcessCount     \* 0 is the pipe, with what the manager and the listener put

\* The listener's 1, and what the manager has put, on the way to the pipe.
MarkLoad == (IF ping THEN 1 ELSE 0) + Len(handedOver)

\* The number of the items that each owner holds.
Load == [q \in Owners |-> IF q = 0 THEN Len(pipe) + MarkLoad ELSE Len(process[q].transit)]

\* The items, by their owner and their number there.
HeldItems == [at : Owners, n : Nat \ {0}]
Held(L) == {h \in HeldItems : h.n <= L[h.at]}

\* There are at most s items.
Fits(L, s) ==
    /\ L \in [Owners -> Nat] /\ s \in Nat
    /\ IsFiniteSet(Held(L)) /\ Cardinality(Held(L)) <= s

LEMMA OwnersAre == 0 \in Owners /\ Processes = Owners \ {0} /\ Processes \subseteq Owners
BY ErrorListenerAssumption DEF Owners, Processes

LEMMA ItemByParts == \A h, g \in HeldItems : h.at = g.at /\ h.n = g.n => h = g
BY DEF HeldItems

\* One item more.
LEMMA OneMoreFits ==
    ASSUME NEW L \in [Owners -> Nat], NEW M \in [Owners -> Nat], NEW s \in Nat,
           NEW q \in Owners, M[q] = L[q] + 1, \A o \in Owners \ {q} : M[o] = L[o]
    PROVE  /\ Fits(L, s) => Fits(M, s + 1)
           /\ Fits(M, s) => s > 0 /\ Fits(L, s - 1)
<1> DEFINE x == [at |-> q, n |-> M[q]]
<1>1. x \in HeldItems /\ x.at = q /\ x.n = M[q]
    BY DEF HeldItems
<1> HIDE DEF x
<1>2. \A h \in HeldItems : h \in Held(M) <=> h \in Held(L) \/ h = x
    <2> SUFFICES ASSUME NEW h \in HeldItems PROVE h \in Held(M) <=> h \in Held(L) \/ h = x
        OBVIOUS
    <2>1. h.at \in Owners /\ h.n \in Nat
        BY DEF HeldItems
    <2>2. CASE h.at = q
        <3>1. h = x <=> h.n = M[q]
            BY <2>2, <1>1, ItemByParts
        <3>2. h.n <= M[q] <=> h.n <= L[q] \/ h.n = M[q]
            BY <2>1
        <3> QED
            BY <2>2, <3>1, <3>2 DEF Held
    <2>3. CASE h.at # q
        BY <2>1, <2>3, <1>1 DEF Held
    <2> QED
        BY <2>2, <2>3
<1>3. x \notin Held(L) /\ x \in Held(M)
    BY <1>1 DEF Held
<1>4. Held(M) = Held(L) \cup {x} /\ Held(L) = Held(M) \ {x}
    BY <1>1, <1>2, <1>3 DEF Held
<1>5. ASSUME Fits(L, s)
      PROVE  Fits(M, s + 1)
    <2>1. IsFiniteSet(Held(L)) /\ Cardinality(Held(L)) \in Nat /\ Cardinality(Held(L)) <= s
        BY <1>5, FS_CardinalityType DEF Fits
    <2>2. IsFiniteSet(Held(M)) /\ Cardinality(Held(M)) = Cardinality(Held(L)) + 1
        BY <2>1, <1>3, <1>4, FS_AddElement
    <2> QED
        BY <2>1, <2>2 DEF Fits
<1>6. ASSUME Fits(M, s)
      PROVE  s > 0 /\ Fits(L, s - 1)
    <2>1. IsFiniteSet(Held(M)) /\ Cardinality(Held(M)) \in Nat /\ Cardinality(Held(M)) <= s
        BY <1>6, FS_CardinalityType DEF Fits
    <2>2. IsFiniteSet(Held(L)) /\ Cardinality(Held(L)) = Cardinality(Held(M)) - 1
        <3> HIDE DEF x
        <3>1. /\ IsFiniteSet(Held(M) \ {x})
              /\ Cardinality(Held(M) \ {x}) = Cardinality(Held(M)) - 1
            BY <2>1, <1>3, FS_RemoveElement
        <3> QED
            BY <3>1, <1>4
    <2>3. Cardinality(Held(L)) \in Nat
        BY <2>2, FS_CardinalityType
    <2>4. s > 0 /\ s - 1 \in Nat /\ Cardinality(Held(L)) <= s - 1
        BY <2>1, <2>2, <2>3
    <2> QED
        BY <2>2, <2>4 DEF Fits
<1> QED
    BY <1>5, <1>6

\* Items that are gone.
LEMMA FewerFit ==
    ASSUME NEW L, NEW M \in [Owners -> Nat], NEW s, Fits(L, s),
           \A q \in Owners : M[q] <= L[q]
    PROVE  Fits(M, s)
<1>1. Held(M) \subseteq Held(L)
    <2> SUFFICES ASSUME NEW h \in HeldItems, h.n <= M[h.at] PROVE h.n <= L[h.at]
        BY DEF Held
    <2>1. h.at \in Owners /\ h.n \in Nat /\ L[h.at] \in Nat /\ M[h.at] \in Nat
        BY DEF HeldItems, Fits
    <2> QED
        BY <2>1
<1>2. /\ IsFiniteSet(Held(M)) /\ Cardinality(Held(M)) <= Cardinality(Held(L))
      /\ Cardinality(Held(M)) \in Nat /\ Cardinality(Held(L)) \in Nat
    BY <1>1, FS_Subset, FS_CardinalityType DEF Fits
<1> QED
    BY <1>2 DEF Fits

\* An item of q goes to the pipe.
LEMMA MovedFit ==
    ASSUME NEW L, NEW M \in [Owners -> Nat], NEW s, Fits(L, s), NEW q \in Owners \ {0},
           L[q] = M[q] + 1, M[0] = L[0] + 1, \A o \in Owners \ {0, q} : M[o] = L[o]
    PROVE  Fits(M, s)
<1> DEFINE K == [L EXCEPT ![q] = M[q]]
<1>1. /\ 0 \in Owners /\ q \in Owners /\ q # 0
      /\ L \in [Owners -> Nat] /\ s \in Nat
    BY OwnersAre DEF Fits
<1>2. /\ K \in [Owners -> Nat] /\ L[q] = K[q] + 1 /\ \A o \in Owners \ {q} : L[o] = K[o]
      /\ M[0] = K[0] + 1 /\ \A o \in Owners \ {0} : M[o] = K[o]
    BY <1>1
<1> HIDE DEF K
<1>3. s > 0 /\ Fits(K, s - 1) /\ s - 1 \in Nat
    BY <1>1, <1>2, OneMoreFits
<1>4. Fits(M, (s - 1) + 1)
    BY <1>1, <1>2, <1>3, OneMoreFits
<1>5. (s - 1) + 1 = s
    BY <1>1
<1> QED
    BY <1>4, <1>5

\* The inductive invariant.
SlotsInv == Fits(Load, slots) /\ slots <= ErrorQueueSize

\* What the load is, and that it is one.
LoadRight ==
    /\ Load \in [Owners -> Nat]
    /\ Load[0] = Len(pipe) + MarkLoad /\ MarkLoad \in Nat /\ Len(pipe) \in Nat
    /\ \A p \in Processes : Load[p] = Len(process[p].transit) /\ Load[p] \in Nat

LEMMA LoadIs == ClassicTypes => LoadRight
<1> SUFFICES ASSUME ClassicTypes PROVE LoadRight
    OBVIOUS
<1>1. Len(pipe) \in Nat /\ MarkLoad \in Nat
    <2>1. Len(pipe) \in Nat /\ Len(handedOver) \in Nat
        BY LenProperties DEF ClassicTypes
    <2> QED
        BY <2>1 DEF MarkLoad
<1>2. ASSUME NEW p \in Processes PROVE Len(process[p].transit) \in Nat
    <2>1. process[p] \in Process
        BY DEF ClassicTypes
    <2> QED
        BY <2>1, ProcessFields, LenProperties
<1>3. /\ 0 \in Owners /\ \A q \in Owners : q = 0 \/ q \in Processes
      /\ Processes \subseteq Owners /\ 0 \notin Processes
    BY OwnersAre
<1>4. \A q \in Owners : Load[q] = IF q = 0 THEN Len(pipe) + MarkLoad ELSE Len(process[q].transit)
    BY DEF Load
<1>5. Load[0] = Len(pipe) + MarkLoad /\ \A p \in Processes : Load[p] = Len(process[p].transit)
    BY <1>3, <1>4
<1>6. \A q \in Owners : Load[q] \in Nat
    BY <1>1, <1>2, <1>3, <1>5
<1>7. Load = [q \in Owners |-> Load[q]]
    BY DEF Load
<1> QED
    BY <1>1, <1>2, <1>5, <1>6, <1>7 DEF LoadRight

\* The same of the next state.
LEMMA LoadIsNext == ClassicTypes' => LoadRight'
BY LoadIs, PTL

\* Nothing is put or got; items may be gone.
LEMMA SlotsKept ==
    ASSUME ClassicTypes, ClassicTypes', SlotsInv, slots' = slots,
           \A q \in Owners : Load'[q] <= Load[q]
    PROVE  SlotsInv'
<1>1. Load' \in [Owners -> Nat]
    BY LoadIsNext DEF LoadRight
<1>2. Fits(Load', slots)
    BY <1>1, FewerFit DEF SlotsInv
<1> QED
    BY <1>2 DEF SlotsInv

\* A put.
LEMMA SlotTaken ==
    ASSUME ClassicTypes, ClassicTypes', SlotsInv, HasSlot, slots' = slots + 1,
           NEW q \in Owners, Load'[q] <= Load[q] + 1, \A o \in Owners \ {q} : Load'[o] <= Load[o]
    PROVE  SlotsInv'
<1> DEFINE M == [Load EXCEPT ![q] = Load[q] + 1]
<1>1. Load \in [Owners -> Nat] /\ Load' \in [Owners -> Nat] /\ slots \in Nat /\ Fits(Load, slots)
    BY LoadIs, LoadIsNext DEF LoadRight, SlotsInv, Fits
<1>2. M \in [Owners -> Nat] /\ M[q] = Load[q] + 1 /\ \A o \in Owners \ {q} : M[o] = Load[o]
    BY <1>1
<1> HIDE DEF M
<1>3. Fits(M, slots + 1)
    BY <1>1, <1>2, OneMoreFits
<1>4. \A o \in Owners : Load'[o] <= M[o]
    BY <1>2
<1>5. Fits(Load', slots')
    BY <1>1, <1>3, <1>4, FewerFit
<1>6. slots + 1 <= ErrorQueueSize
    BY <1>1, ErrorListenerAssumption DEF HasSlot
<1> QED
    BY <1>5, <1>6 DEF SlotsInv

\* A get.
LEMMA SlotReturned ==
    ASSUME ClassicTypes, ClassicTypes', SlotsInv, slots' = slots - 1,
           Load[0] > 0, Load'[0] <= Load[0] - 1, \A p \in Processes : Load'[p] <= Load[p]
    PROVE  SlotsInv'
<1> DEFINE M == [Load EXCEPT ![0] = Load[0] - 1]
<1>1. /\ Load \in [Owners -> Nat] /\ Load' \in [Owners -> Nat] /\ slots \in Nat
      /\ Fits(Load, slots) /\ 0 \in Owners /\ Owners \ {0} = Processes
    BY LoadIs, LoadIsNext, OwnersAre DEF LoadRight, SlotsInv, Fits
<1>2. /\ M \in [Owners -> Nat] /\ M[0] = Load[0] - 1 /\ Load[0] = M[0] + 1
      /\ \A o \in Owners \ {0} : M[o] = Load[o] /\ Load[o] = M[o]
    BY <1>1
<1> HIDE DEF M
<1>3. slots > 0 /\ Fits(M, slots - 1)
    BY <1>1, <1>2, OneMoreFits
<1>4. \A o \in Owners : Load'[o] <= M[o]
    BY <1>1, <1>2
<1>5. Fits(Load', slots')
    BY <1>1, <1>3, <1>4, FewerFit
<1>6. slots - 1 <= ErrorQueueSize
    BY <1>1, ErrorListenerAssumption DEF SlotsInv
<1> QED
    BY <1>5, <1>6 DEF SlotsInv

\* A feeder thread hands an item to the pipe.
LEMMA ItemsFed ==
    ASSUME ClassicTypes, ClassicTypes', SlotsInv, slots' = slots, NEW p \in Processes,
           Load[p] = Load'[p] + 1, Load'[0] = Load[0] + 1,
           \A o \in Processes \ {p} : Load'[o] = Load[o]
    PROVE  SlotsInv'
<1>1. Load' \in [Owners -> Nat] /\ p \in Owners \ {0} /\ Owners \ {0, p} = Processes \ {p}
    BY LoadIsNext, OwnersAre DEF LoadRight
<1>2. Fits(Load', slots)
    BY <1>1, MovedFit DEF SlotsInv
<1> QED
    BY <1>2 DEF SlotsInv

\* The same in terms of the variables.  Nothing is put or got:
LEMMA QuietKeepsSlots ==
    ASSUME ClassicTypes, ClassicTypes', SlotsInv, slots' = slots, pipe' = pipe,
           MarkLoad' <= MarkLoad,
           \A p \in Processes : process'[p].transit \in {process[p].transit, <<>>}
    PROVE  SlotsInv'
<1>1. LoadRight /\ LoadRight'
    BY LoadIs, LoadIsNext
<1>2. Load'[0] <= Load[0]
    BY <1>1 DEF LoadRight
<1>3. ASSUME NEW p \in Processes PROVE Load'[p] <= Load[p]
    <2>1. Len(process'[p].transit) \in {Len(process[p].transit), 0}
        BY EmptySeq
    <2> QED
        BY <2>1, <1>1 DEF LoadRight
<1>4. \A q \in Owners : Load'[q] <= Load[q]
    BY <1>2, <1>3, OwnersAre
<1> QED
    BY <1>4, SlotsKept

\* an item is put into the pipe, or the 1 is with its feeder thread:
LEMMA PutToPipe ==
    ASSUME ClassicTypes, ClassicTypes', SlotsInv, HasSlot, slots' = slots + 1,
           Len(pipe') + MarkLoad' <= Len(pipe) + MarkLoad + 1, UNCHANGED process
    PROVE  SlotsInv'
<1>1. LoadRight /\ LoadRight'
    BY LoadIs, LoadIsNext
<1>2. Load'[0] <= Load[0] + 1
    BY <1>1 DEF LoadRight
<1>3. ASSUME NEW p \in Processes PROVE Load'[p] <= Load[p]
    BY <1>1 DEF LoadRight
<1>4. 0 \in Owners /\ \A q \in Owners \ {0} : Load'[q] <= Load[q]
    BY <1>3, OwnersAre
<1> QED
    BY <1>2, <1>4, SlotTaken

\* the head of the pipe is taken:
LEMMA TakeReturnsSlot ==
    ASSUME ClassicTypes, ClassicTypes', SlotsInv, Take, MarkLoad' = MarkLoad,
           \A p \in Processes : process'[p].transit \in {process[p].transit, <<>>}
    PROVE  SlotsInv'
<1>1. LoadRight /\ LoadRight'
    BY LoadIs, LoadIsNext
<1>2. slots' = slots - 1 /\ Len(pipe') = Len(pipe) - 1 /\ Len(pipe) > 0
    <2>1. pipe \in Seq(Items) /\ pipe # <<>> /\ pipe' = Tail(pipe) /\ slots' = slots - 1
        BY DEF Take, ClassicTypes
    <2> QED
        BY <2>1, HeadTailProperties, LenProperties, EmptySeq
<1>3. Load[0] > 0 /\ Load'[0] <= Load[0] - 1
    BY <1>1, <1>2 DEF LoadRight
<1>4. ASSUME NEW p \in Processes PROVE Load'[p] <= Load[p]
    <2>1. Len(process'[p].transit) \in {Len(process[p].transit), 0}
        BY EmptySeq
    <2> QED
        BY <2>1, <1>1 DEF LoadRight
<1> QED
    BY <1>2, <1>3, <1>4, SlotReturned

\* the 1 or the sentinel reaches the pipe:
LEMMA MarkArrives ==
    ASSUME ClassicTypes, ClassicTypes', SlotsInv, slots' = slots, UNCHANGED process,
           Len(pipe') = Len(pipe) + 1, MarkLoad = MarkLoad' + 1
    PROVE  SlotsInv'
<1>1. LoadRight /\ LoadRight'
    BY LoadIs, LoadIsNext
<1>2. Load'[0] <= Load[0]
    BY <1>1 DEF LoadRight
<1>3. ASSUME NEW p \in Processes PROVE Load'[p] <= Load[p]
    BY <1>1 DEF LoadRight
<1>4. \A q \in Owners : Load'[q] <= Load[q]
    BY <1>2, <1>3, OwnersAre
<1> QED
    BY <1>4, SlotsKept

\* p's first item goes from p to the pipe.
LEMMA FeedKeepsSlots ==
    ASSUME ClassicTypes, ClassicTypes', SlotsInv, slots' = slots, MarkLoad' = MarkLoad,
           NEW p \in Processes,
           Len(process[p].transit) = Len(process'[p].transit) + 1, Len(pipe') = Len(pipe) + 1,
           \A q \in Processes \ {p} : process'[q] = process[q]
    PROVE  SlotsInv'
<1>1. LoadRight /\ LoadRight'
    BY LoadIs, LoadIsNext
<1>2. Load'[0] = Load[0] + 1
    BY <1>1 DEF LoadRight
<1>3. Load[p] = Load'[p] + 1
    BY <1>1 DEF LoadRight
<1>4. ASSUME NEW q \in Processes \ {p} PROVE Load'[q] = Load[q]
    BY <1>1 DEF LoadRight
<1> QED
    BY <1>2, <1>3, <1>4, ItemsFed

(***************************************************************************)
(* The steps, and the slots.                                               *)
(***************************************************************************)

\* The steps of a process that neither put nor feed.
LEMMA QuietPipelineSlots ==
    ASSUME ClassicTypes, ClassicTypes', SlotsInv, NEW p \in Processes, PipelineStep(p),
           ~ PutItem(p), ~ Feed(p), UNCHANGED handedOver
    PROVE  SlotsInv'
<1>1. process[p] \in Process /\ process \in [Processes -> Process]
    BY DEF ClassicTypes
<1>2. \A state : /\ To(p, state).transit = process[p].transit
                 /\ Gone(state).transit = <<>>
    BY <1>1 DEF To, Process, Gone, NewProcess
<1>3. slots' = slots /\ pipe' = pipe /\ ping' = ping
    BY DEF PipelineStep, Works, Begin, SetUp, SetUpFails, ScheduledWrite, Write, GetNext,
        SourceFails, ProcessEvent, ExtraDataFails, StoreEvent, DropItems, Callback,
        AutoCommit, CallbackFails, ShutDown, InputShutDownFails, Leave, Crash, Die,
        queueVars, otherVars
<1> DEFINE Quiet == /\ process'[p].transit \in {process[p].transit, <<>>}
                    /\ \A q \in Processes \ {p} : process'[q] = process[q]
<1>4. Quiet
    <2>1. CASE Begin(p) \/ SetUp(p) \/ SetUpFails(p)
        <3>1. CASE Begin(p)
            BY <3>1, <1>1, <1>2 DEF Begin, To, Process, Become
        <3>2. CASE SetUp(p)
            BY <3>2, <1>1, <1>2 DEF SetUp, To, Process, Become
        <3>3. CASE SetUpFails(p)
            BY <3>3, <1>1, <1>2 DEF SetUpFails, To, Process, Become
        <3> QED
            BY <2>1, <3>1, <3>2, <3>3
    <2>2. ASSUME NEW B, NEW state, Write(p, B, state) PROVE Quiet
        <3>1. PICK F \in SUBSET B :
                Become(p, [To(p, IF F = {} THEN state ELSE "reporting") EXCEPT
                            !.backlog = {}, !.items = SetToSeq(F), !.handling = F # {}])
            BY <2>2 DEF Write
        <3> QED
            BY <3>1, <1>1 DEF To, Process, Become
    <2>3. CASE StoreEvent(p)
        <3> DEFINE B == process[p].backlog \cup {Current(p)}
                   kept == [To(p, "finishing") EXCEPT !.backlog = B]
        <3>1. Write(p, B, "finishing") \/ process' = [process EXCEPT ![p] = kept]
            BY <2>3 DEF StoreEvent, Become
        <3>2. kept.transit = process[p].transit
            BY <1>1 DEF To, Process
        <3> HIDE DEF B, kept
        <3> QED
            BY <3>1, <3>2, <2>2, <1>1
    <2>4. CASE GetNext(p) \/ SourceFails(p)
        <3>1. CASE GetNext(p)
            <4> DEFINE n == process[p].next
                       taken == [process[p] EXCEPT !.last = n, !.next = n + 1,
                                                   !.state = "processing"]
                       failed == [process[p] EXCEPT !.last = n, !.next = n + 1, !.state = "reporting",
                                    !.items = <<<<p, n>>>>, !.handling = TRUE]
                       skipped == [process[p] EXCEPT !.last = n, !.next = n + 1]
            <4>1. \/ process' = [process EXCEPT ![p] = taken]
                  \/ process' = [process EXCEPT ![p] = failed]
                  \/ process' = [process EXCEPT ![p] = skipped]
                BY <3>1 DEF GetNext, Become
            <4>2. /\ taken.transit = process[p].transit /\ failed.transit = process[p].transit
                  /\ skipped.transit = process[p].transit
                BY <1>1 DEF Process
            <4> HIDE DEF taken, failed, skipped
            <4> QED
                BY <4>1, <4>2, <1>1
        <3>2. CASE SourceFails(p)
            BY <3>2, <1>1 DEF SourceFails, Process, Become
        <3> QED
            BY <2>4, <3>1, <3>2
    <2>5. CASE ProcessEvent(p) \/ ExtraDataFails(p)
        <3>1. CASE ProcessEvent(p)
            <4> DEFINE failed == [To(p, "reporting") EXCEPT !.items = <<Current(p)>>]
            <4>1. \/ \E state : process' = [process EXCEPT ![p] = To(p, state)]
                  \/ process' = [process EXCEPT ![p] = failed]
                BY <3>1 DEF ProcessEvent, Become
            <4>2. failed.transit = process[p].transit
                BY <1>1 DEF To, Process
            <4> HIDE DEF failed
            <4> QED
                BY <4>1, <4>2, <1>1, <1>2
        <3>2. CASE ExtraDataFails(p)
            BY <3>2, <1>1 DEF ExtraDataFails, To, Process, Become
        <3> QED
            BY <2>5, <3>1, <3>2
    <2>6. CASE DropItems(p)
        <3>1. process' = [process EXCEPT ![p] = [To(p, "reported") EXCEPT !.items = <<>>]]
            BY <2>6 DEF DropItems, Become
        <3> QED
            BY <3>1, <1>1 DEF To, Process
    <2>7. CASE Callback(p) \/ AutoCommit(p) \/ CallbackFails(p)
        <3>1. CASE Callback(p)
            <4>1. process' = [process EXCEPT ![p] =
                    [To(p, "idle") EXCEPT !.stored = process[p].last, !.handling = FALSE]]
                BY <3>1 DEF Callback, Become
            <4> QED
                BY <4>1, <1>1 DEF To, Process
        <3>2. CASE AutoCommit(p)
            BY <3>2 DEF AutoCommit
        <3>3. CASE CallbackFails(p)
            <4>1. \E state : process' = [process EXCEPT ![p] = To(p, state)]
                BY <3>3 DEF CallbackFails, Become
            <4> QED
                BY <4>1, <1>1, <1>2
        <3> QED
            BY <2>7, <3>1, <3>2, <3>3
    <2>8. CASE ShutDown(p) \/ InputShutDownFails(p)
        <3>1. process' = [process EXCEPT ![p] =
                [NewProcess EXCEPT !.state = "leaving", !.transit = process[p].transit]]
            BY <2>8 DEF ShutDown, InputShutDownFails, LeavesLoop, Become
        <3> QED
            BY <3>1, <1>1 DEF NewProcess
    <2>9. CASE Leave(p) \/ Crash(p)
        <3>1. \E state : process' = [process EXCEPT ![p] = Gone(state)]
            BY <2>9 DEF Leave, Crash, Die, Become
        <3> QED
            BY <3>1, <1>1, <1>2
    <2> QED
        BY <2>1, <2>2, <2>3, <2>4, <2>5, <2>6, <2>7, <2>8, <2>9
            DEF PipelineStep, Works, ScheduledWrite
<1>5. \A q \in Processes : process'[q].transit \in {process[q].transit, <<>>}
    BY <1>4
<1>6. MarkLoad' <= MarkLoad
    <2>1. MarkLoad' = MarkLoad
        BY <1>3 DEF MarkLoad
    <2> QED
        BY <2>1, LoadIs DEF LoadRight
<1> QED
    BY <1>3, <1>5, <1>6, QuietKeepsSlots

\* The steps that put or feed.
LEMMA PipelineSlots ==
    ASSUME ClassicTypes, ClassicTypes', SlotsInv, NEW p \in Processes, PipelineStep(p),
           UNCHANGED handedOver
    PROVE  SlotsInv'
<1>1. /\ process[p] \in Process /\ process \in [Processes -> Process]
      /\ pipe \in Seq(Items) /\ process[p].transit \in Seq(Events)
      /\ process[p].transit \in Seq(Items)
    BY ProcessFields, SeqMonotonic DEF ClassicTypes, Items
<1>2. CASE PutItem(p)
    <2> DEFINE t == Append(process[p].transit, Head(process[p].items))
    <2>1. /\ HasSlot /\ slots' = slots + 1 /\ UNCHANGED <<pipe, ping>>
          /\ process'[p].transit = t
          /\ \A q \in Processes \ {p} : process'[q] = process[q]
        BY <1>1, <1>2 DEF PutItem, Become, To, otherVars, Process
    <2>2. Len(process'[p].transit) = Len(process[p].transit) + 1
        BY <1>1, <2>1
    <2>3. LoadRight /\ LoadRight'
        BY LoadIs, LoadIsNext
    <2>4. Load'[0] <= Load[0]
        <3>1. MarkLoad' = MarkLoad
            BY <2>1 DEF MarkLoad
        <3> QED
            BY <2>1, <2>3, <3>1 DEF LoadRight
    <2>5. Load'[p] <= Load[p] + 1
        BY <2>2, <2>3 DEF LoadRight
    <2>6. ASSUME NEW q \in Processes \ {p} PROVE Load'[q] <= Load[q]
        <3>1. process'[q].transit = process[q].transit
            BY <2>1
        <3>2. Load[q] = Len(process[q].transit) /\ Load'[q] = Len(process'[q].transit) /\ Load[q] \in Nat
            BY <2>3 DEF LoadRight
        <3> QED
            BY <3>1, <3>2
    <2>7. p \in Owners /\ \A q \in Owners \ {p} : Load'[q] <= Load[q]
        BY <2>4, <2>6, OwnersAre
    <2> QED
        BY <2>1, <2>5, <2>7, SlotTaken
<1>3. CASE Feed(p)
    <2>1. /\ process[p].transit # <<>> /\ pipe' = Append(pipe, Head(process[p].transit))
          /\ process'[p].transit = Tail(process[p].transit) /\ UNCHANGED <<slots, ping>>
          /\ \A q \in Processes \ {p} : process'[q] = process[q]
        BY <1>1, <1>3 DEF Feed, Become, otherVars, Process
    <2>2. /\ Len(pipe') = Len(pipe) + 1
          /\ Len(process[p].transit) = Len(process'[p].transit) + 1
        BY <1>1, <2>1
    <2>3. MarkLoad' = MarkLoad
        BY <2>1 DEF MarkLoad
    <2> QED
        BY <2>1, <2>2, <2>3, FeedKeepsSlots
<1> QED
    BY <1>2, <1>3, QuietPipelineSlots

\* The listener puts its 1, or the sentinel, and gets.
LEMMA ListenerSlots ==
    ASSUME ClassicTypes, ClassicTypes', SlotsInv, ListenerStep,
           UNCHANGED <<pipelineVars, handedOver>>
    PROVE  SlotsInv'
<1>1. /\ pipe \in Seq(Items) /\ UNCHANGED <<process, handedOver>>
      /\ Len(handedOver) \in Nat /\ Len(pipe) \in Nat
      /\ \A p \in Processes : process'[p].transit \in {process[p].transit, <<>>}
    BY LenProperties DEF ClassicTypes, pipelineVars
<1>2. ping' = ping => MarkLoad' = MarkLoad /\ MarkLoad' <= MarkLoad
    BY <1>1 DEF MarkLoad
<1>3. Len(Append(pipe, Ping)) = Len(pipe) + 1 /\ Len(Append(pipe, Sentinel)) = Len(pipe) + 1
    BY <1>1, AppendProperties DEF Items
<1>4. CASE ListenerSetsUp
    <2>1. HasSlot /\ slots' = slots + 1 /\ pipe' = pipe /\ MarkLoad' <= MarkLoad + 1
        BY <1>1, <1>4 DEF ListenerSetsUp, MarkLoad
    <2>2. Len(pipe') + MarkLoad' <= Len(pipe) + MarkLoad + 1
        BY <2>1, <1>1, LoadIs, LoadIsNext DEF LoadRight
    <2> QED
        BY <2>1, <2>2, <1>1, PutToPipe
<1>5. CASE ListenerSetupFails
    <2>1. ping' = ping
        BY <1>5 DEF ListenerSetupFails
    <2>2. CASE HasSlot /\ slots' = slots + 1 /\ pipe' = Append(pipe, Sentinel)
        <3>1. Len(pipe') + MarkLoad' <= Len(pipe) + MarkLoad + 1
            BY <2>1, <2>2, <1>2, <1>3, <1>1, LoadIs DEF LoadRight
        <3> QED
            BY <2>2, <3>1, <1>1, PutToPipe
    <2>3. CASE UNCHANGED queueVars
        BY <2>1, <2>3, <1>1, <1>2, QuietKeepsSlots DEF queueVars
    <2> QED
        BY <1>5, <2>2, <2>3 DEF ListenerSetupFails
<1>6. CASE PingArrives
    <2>1. slots' = slots /\ pipe' = Append(pipe, Ping) /\ MarkLoad = MarkLoad' + 1
        BY <1>1, <1>6 DEF PingArrives, MarkLoad
    <2> QED
        BY <2>1, <1>1, <1>3, MarkArrives
<1>7. CASE ListenerSynced \/ ListenerRunsTasks \/ ListenerEnds
    <2>1. UNCHANGED <<pipe, slots, ping>>
        BY <1>7 DEF ListenerSynced, ListenerRunsTasks, ListenerEnds, queueVars
    <2> QED
        BY <2>1, <1>1, <1>2, QuietKeepsSlots
<1>8. CASE ListenerCrashes
    <2>1. UNCHANGED <<pipe, slots>> /\ MarkLoad' <= MarkLoad
        BY <1>1, <1>8 DEF ListenerCrashes, queueVars, MarkLoad
    <2> QED
        BY <2>1, <1>1, QuietKeepsSlots
<1>9. CASE ListenerGets \/ ListenerDrains
    <2>1. Take /\ ping' = ping
        BY <1>9 DEF ListenerGets, ListenerDrains
    <2> QED
        BY <2>1, <1>1, <1>2, TakeReturnsSlot
<1> QED
    BY <1>4, <1>5, <1>6, <1>7, <1>8, <1>9 DEF ListenerStep

\* The main process takes what it waits for; it puts a 1 or a sentinel, which
\* its feeder thread hands to the pipe.
LEMMA MainSlots ==
    ASSUME ClassicTypes, ClassicTypes', SlotsInv, MainStep \/ ManagerFeeds
    PROVE  SlotsInv'
<1>1. /\ pipe \in Seq(Items) /\ process \in [Processes -> Process]
      /\ handedOver \in Seq({Ping, Sentinel})
      /\ LoadRight /\ LoadRight' /\ ping' = ping
    BY LoadIs, LoadIsNext DEF ClassicTypes, MainStep, Handshake, Probe, CreatePipelines, Iterate,
        TellLast, JoinLast, StopListener, JoinListener, ManagerFeeds, MainFrame, listenerVars
<1>2. UNCHANGED handedOver => MarkLoad' = MarkLoad /\ MarkLoad' <= MarkLoad
    BY <1>1 DEF MarkLoad, LoadRight
<1>3. CASE Handshake
    <2>1. Take /\ UNCHANGED <<process, handedOver>>
        BY <1>3 DEF Handshake, creationVars
    <2> QED
        BY <2>1, <1>2, TakeReturnsSlot
<1>4. CASE CreatePipelines
    <2>1. /\ UNCHANGED <<pipe, slots, handedOver>>
          /\ \A p \in Processes : process'[p].transit \in {process[p].transit, <<>>}
        BY <1>4 DEF CreatePipelines, queueVars, NewProcess
    <2> QED
        BY <2>1, <1>2, QuietKeepsSlots
<1>5. CASE Iterate \/ JoinLast \/ JoinListener
    <2>1. UNCHANGED <<pipe, slots, process, handedOver>>
        BY <1>5 DEF Iterate, JoinLast, JoinListener, queueVars, pipelineVars, creationVars
    <2> QED
        BY <2>1, <1>2, QuietKeepsSlots
<1>6. CASE TellLast
    <2>1. /\ UNCHANGED <<pipe, slots, handedOver>>
          /\ process' = [process EXCEPT ![count] = [process[count] EXCEPT !.iterating = FALSE]]
        BY <1>6 DEF TellLast, Become, queueVars, creationVars
    <2>2. ASSUME NEW p \in Processes PROVE process'[p].transit = process[p].transit
        <3>1. process[p] \in Process
            BY <1>1
        <3>2. process'[p] \in {process[p], [process[p] EXCEPT !.iterating = FALSE]}
            BY <1>1, <2>1
        <3> QED
            BY <3>1, <3>2 DEF Process
    <2> QED
        BY <2>1, <2>2, <1>2, QuietKeepsSlots
<1>7. CASE Probe \/ StopListener
    <2>1. /\ UNCHANGED <<pipe, process>>
          /\ \/ UNCHANGED <<slots, handedOver>>
             \/ /\ HasSlot /\ slots' = slots + 1
                /\ \E m \in {Ping, Sentinel} : handedOver' = Append(handedOver, m)
        BY <1>7 DEF Probe, StopListener
    <2>2. CASE UNCHANGED <<slots, handedOver>>
        BY <2>1, <2>2, <1>2, QuietKeepsSlots
    <2>3. ASSUME NEW m \in {Ping, Sentinel}, handedOver' = Append(handedOver, m),
                 HasSlot, slots' = slots + 1
          PROVE  SlotsInv'
        <3>1. Len(handedOver') = Len(handedOver) + 1 /\ Len(handedOver) \in Nat
            BY <2>3, <1>1, AppendProperties, LenProperties
        <3>2. MarkLoad' = MarkLoad + 1
            BY <1>1, <3>1 DEF MarkLoad
        <3>3. Len(pipe') + MarkLoad' <= Len(pipe) + MarkLoad + 1
            BY <1>1, <2>1, <3>2 DEF LoadRight
        <3> QED
            BY <2>1, <2>3, <3>3, PutToPipe
    <2> QED
        BY <2>1, <2>2, <2>3
<1>8. CASE ManagerFeeds
    <2>1. /\ UNCHANGED <<slots, process>> /\ handedOver # <<>>
          /\ pipe' = Append(pipe, Head(handedOver)) /\ handedOver' = Tail(handedOver)
        BY <1>8 DEF ManagerFeeds
    <2>2. /\ Head(handedOver) \in Items /\ Len(handedOver) \in Nat
          /\ Len(handedOver) = Len(handedOver') + 1
        BY <1>1, <2>1, HeadTailProperties, LenProperties, EmptySeq DEF Items
    <2>3. Len(pipe') = Len(pipe) + 1
        BY <1>1, <2>1, <2>2, AppendProperties
    <2>4. MarkLoad = MarkLoad' + 1
        BY <1>1, <2>2 DEF MarkLoad
    <2> QED
        BY <2>1, <2>3, <2>4, MarkArrives
<1> QED
    BY <1>3, <1>4, <1>5, <1>6, <1>7, <1>8 DEF MainStep

LEMMA SlotsNext == ClassicTypes /\ ClassicTypes' /\ SlotsInv /\ [Next]_vars => SlotsInv'
<1> SUFFICES ASSUME ClassicTypes, ClassicTypes', SlotsInv, [Next]_vars PROVE SlotsInv'
    OBVIOUS
<1>1. CASE StopRunner \/ UNCHANGED vars
    <2>1. UNCHANGED <<process, pipe, slots, ping, handedOver>>
        BY <1>1 DEF StopRunner, vars, mainVars, creationVars, pipelineVars, queueVars, listenerVars
    <2>2. MarkLoad' <= MarkLoad
        <3>1. MarkLoad' = MarkLoad
            BY <2>1 DEF MarkLoad
        <3> QED
            BY <3>1, LoadIs DEF LoadRight
    <2> QED
        BY <2>1, <2>2, QuietKeepsSlots
<1>2. CASE ListenerStep /\ UNCHANGED <<mainVars, pipelineVars>>
    BY <1>2, ListenerSlots DEF mainVars, creationVars
<1>3. CASE \E p \in Processes : PipelineStep(p) /\ UNCHANGED mainVars
    BY <1>3, PipelineSlots DEF mainVars, creationVars
<1> QED
    BY <1>1, <1>2, <1>3, MainSlots DEF Next

LEMMA SlotsInit == Init => SlotsInv
<1> SUFFICES ASSUME Init PROVE SlotsInv
    OBVIOUS
<1>1. LoadRight
    BY ClassicInitial, LoadIs DEF ClassicInv
<1>2. /\ pipe = <<>> /\ slots = 0 /\ ping = FALSE /\ handedOver = <<>>
      /\ \A p \in Processes : process[p].transit = <<>>
    BY DEF Init, ListenerInit, PipelineInit, Gone, NewProcess
<1>3. Load[0] = 0 /\ \A p \in Processes : Load[p] = 0
    BY <1>1, <1>2, EmptySeq DEF LoadRight, MarkLoad
<1>4. \A q \in Owners : Load[q] = 0
    BY <1>3, OwnersAre
<1>5. \A h \in HeldItems : h.at \in Owners /\ ~ (h.n <= 0)
    BY DEF HeldItems
<1>6. Held(Load) = {}
    BY <1>4, <1>5 DEF Held
<1>7. IsFiniteSet(Held(Load)) /\ Cardinality(Held(Load)) = 0
    BY <1>6, FS_EmptySet
<1> QED
    BY <1>1, <1>2, <1>7, ErrorListenerAssumption DEF SlotsInv, Fits, LoadRight

\* The rest of the types: the phases of the listener and the main process,
\* and the counters.
MainPhases == {"handshake", "starting", "head", "check", "restarting", "reloading",
               "stopping", "sentinel", "joining", "ended"}
ListenerPhases == {"absent", "setup", "syncing", "ready", "getting", "draining",
                   "ended", "dead"}

RestTypes ==
    /\ ping \in BOOLEAN /\ exitReceived \in BOOLEAN
    /\ listener \in ListenerPhases /\ main \in MainPhases
    /\ probe \in {"none", "sent", "failed"}
    /\ disruptions \in 0 .. MaxDisruptions /\ restartCount \in Nat

LEMMA RestNext == RestTypes /\ [Next]_vars => RestTypes'
<1> SUFFICES ASSUME RestTypes, [Next]_vars PROVE RestTypes'
    OBVIOUS
<1>1. disruptions' = disruptions \/ Disruption => disruptions' \in 0 .. MaxDisruptions
    BY ErrorListenerAssumption DEF Disruption, RestTypes
<1>2. CASE StopRunner
    BY <1>2 DEF StopRunner, RestTypes, listenerVars, creationVars
<1>3. CASE MainStep \/ ManagerFeeds
    <2>1. UNCHANGED <<exitReceived, ping, listener>> /\ (disruptions' = disruptions \/ Disruption)
        BY <1>3 DEF MainStep, ManagerFeeds, Handshake, Probe, CreatePipelines, Iterate, TellLast,
            JoinLast, StopListener, JoinListener, MainFrame, listenerVars
    <2>2. main' \in {main} \cup MainPhases
        BY <1>3 DEF MainStep, ManagerFeeds, Handshake, Probe, CreatePipelines, Iterate,
            CheckPipelines, TellLast, JoinLast, StopListener, JoinListener, MainPhases
    <2>3. /\ restartCount' \in {restartCount, 0, restartCount + 1}
          /\ probe' \in {probe, "none", "sent", "failed"}
        BY <1>3 DEF MainStep, ManagerFeeds, Handshake, Probe, CreatePipelines, Iterate,
            CheckPipelines, TellLast, JoinLast, StopListener, JoinListener, creationVars
    <2>4. restartCount' \in Nat
        BY <2>3 DEF RestTypes
    <2> QED
        BY <1>1, <2>1, <2>2, <2>3, <2>4 DEF RestTypes
<1>4. CASE ListenerStep /\ UNCHANGED <<mainVars, pipelineVars>>
    <2>1. UNCHANGED <<main, exitReceived, restartCount, probe>>
        BY <1>4 DEF mainVars, creationVars
    <2>2. /\ ping' \in {ping, TRUE, FALSE}
          /\ disruptions' = disruptions \/ Disruption
          /\ listener' \in {listener} \cup ListenerPhases
        BY <1>4 DEF ListenerStep, ListenerSetsUp, ListenerSetupFails, PingArrives, ListenerSynced,
            ListenerRunsTasks, ListenerGets, ListenerDrains, ListenerEnds, ListenerCrashes, AfterItem,
            ListenerPhases
    <2> QED
        BY <1>1, <2>1, <2>2 DEF RestTypes
<1>5. CASE \E p \in Processes : PipelineStep(p) /\ UNCHANGED mainVars
    <2>1. PICK p \in Processes : PipelineStep(p) /\ UNCHANGED mainVars
        BY <1>5
    <2>2. UNCHANGED <<main, exitReceived, restartCount, probe>>
        BY <2>1 DEF mainVars, creationVars
    <2>3. UNCHANGED <<ping, listener>> /\ (disruptions' = disruptions \/ Disruption)
        BY <2>1 DEF PipelineStep, Works, Begin, SetUp, SetUpFails, ScheduledWrite, Write, GetNext,
            SourceFails, ProcessEvent, ExtraDataFails, StoreEvent, PutItem, DropItems, Feed,
            Callback, AutoCommit, CallbackFails, ShutDown, InputShutDownFails, Leave, Crash, Die,
            otherVars
    <2> QED
        BY <1>1, <2>2, <2>3 DEF RestTypes
<1>6. CASE UNCHANGED vars
    BY <1>6 DEF vars, mainVars, creationVars, listenerVars, RestTypes
<1> QED
    BY <1>2, <1>3, <1>4, <1>5, <1>6 DEF Next

LEMMA RestInit == Init => RestTypes
<1> SUFFICES ASSUME Init PROVE RestTypes
    OBVIOUS
<1>1. MaxDisruptions \in Nat /\ disruptions = 0 /\ restartCount = 0 /\ probe = "none"
    BY ErrorListenerAssumption DEF Init, ListenerInit
<1>2. /\ ping = FALSE /\ exitReceived = FALSE /\ listener \in {"absent", "setup"}
      /\ main \in {"handshake", "head"}
    BY DEF Init, ListenerInit
<1>3. disruptions \in 0 .. MaxDisruptions /\ restartCount \in Nat
    BY <1>1
<1> QED
    BY <1>1, <1>2, <1>3 DEF RestTypes, MainPhases, ListenerPhases

\* The types of the classic manager, its pipelines and the error listener.
\* In particular the error queue never takes more items than its size and
\* never gives back a slot that was not taken, whichever process is killed
\* while it holds items (pipeline_manager.py:63-131, pipeline.py:379-430).
THEOREM ClassicTypeCorrect == Spec => []ClassicTypeOK
<1>1. Spec => []ClassicInv
    BY ClassicInitial, ClassicStep, PTL DEF Spec
<1>2. Spec => []RestTypes
    BY RestInit, RestNext, PTL DEF Spec
<1>3. ClassicInv => ClassicTypes
    BY DEF ClassicInv
<1>4. Spec => []SlotsInv
    BY <1>1, <1>3, SlotsInit, SlotsNext, PTL DEF Spec
<1>5. ClassicInv /\ RestTypes /\ SlotsInv => ClassicTypeOK
    <2> SUFFICES ASSUME ClassicInv, RestTypes, SlotsInv PROVE ClassicTypeOK
        OBVIOUS
    <2>1. slots \in 0 .. ErrorQueueSize
        BY ErrorListenerAssumption DEF SlotsInv, Fits
    <2>2. ListenerTypeOK
        BY <2>1 DEF ClassicInv, ClassicTypes, RestTypes, ListenerPhases, ListenerTypeOK,
            ListenerEnded, Items
    <2>3. PipelineTypeOK
        BY DEF ClassicInv, ClassicTypes, PipelineTypeOK
    <2> QED
        BY <2>2, <2>3 DEF ClassicInv, ClassicTypes, MainOrder, RestTypes, MainPhases, ClassicTypeOK
<1> QED
    BY <1>1, <1>2, <1>4, <1>5, PTL
=============================================================================
