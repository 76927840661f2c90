---------------------------- MODULE MCHttpInput -----------------------------
(* An instance of HttpInput for TLC: a jsonl request of two lines.          *)
EXTENDS HttpInput

MCEventsIn == [r \in Requests |-> 2]
=============================================================================
