--------------------------- MODULE EventLifecycle ---------------------------
(***************************************************************************)
(* What the asynchronous workflow promises for every event it reads: the   *)
(* input is told that an event is done (acknowledge) only after the event  *)
(* was delivered, deleted by a processor or reported as an error, and no   *)
(* event is both acknowledged and given up.  An event that is given up is  *)
(* never acknowledged, so the input can deliver it again.                  *)
(***************************************************************************)
CONSTANT Events

VARIABLES
    unread,     \* still at the source
    inFlight,   \* read, and nothing was decided yet
    settled,    \* delivered, deleted or reported
    acked,      \* acknowledged to the input
    givenUp     \* left the workflow without an acknowledgement

vars == <<unread, inFlight, settled, acked, givenUp>>

Init ==
    /\ unread = Events
    /\ inFlight = {} /\ settled = {} /\ acked = {} /\ givenUp = {}

Read(e) ==
    /\ e \in unread
    /\ unread' = unread \ {e}
    /\ inFlight' = inFlight \cup {e}
    /\ UNCHANGED <<settled, acked, givenUp>>

\* A whole batch is decided at once; some of its events may be given up.
Settle(es, lost) ==
    /\ es \cup lost # {} /\ es \cap lost = {}
    /\ es \cup lost \subseteq inFlight
    /\ inFlight' = inFlight \ (es \cup lost)
    /\ settled' = settled \cup es
    /\ givenUp' = givenUp \cup lost
    /\ UNCHANGED <<unread, acked>>

Acknowledge(es) ==
    /\ es # {} /\ es \subseteq settled
    /\ settled' = settled \ es
    /\ acked' = acked \cup es
    /\ UNCHANGED <<unread, inFlight, givenUp>>

GiveUp(es) ==
    /\ es # {} /\ es \subseteq inFlight \cup settled
    /\ inFlight' = inFlight \ es
    /\ settled' = settled \ es
    /\ givenUp' = givenUp \cup es
    /\ UNCHANGED <<unread, acked>>

Next ==
    \/ \E e \in Events : Read(e)
    \/ \E es, lost \in SUBSET Events : Settle(es, lost)
    \/ \E es \in SUBSET Events : Acknowledge(es) \/ GiveUp(es)

Spec == Init /\ [][Next]_vars
=============================================================================
