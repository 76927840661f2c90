----------------------------- MODULE MCWorkflow -----------------------------
(* Instances of Workflow for TLC. *)
EXTENDS Workflow, TLC

EventSymmetry == Permutations(Events)

\* The workers of the main path collect two events; the two others pass on
\* every event and hold a single one.
MCSizes == [w \in BatchingWorkers |-> IF w \in {"extra_output", "error"} THEN 1 ELSE 2]
=============================================================================
