------------------------- MODULE MCOpensearchOutput -------------------------
(* Instances of OpensearchOutput for TLC. *)
EXTENDS OpensearchOutput

CONSTANTS c1, c2, e1, e2, e3

\* Two chunks, one of two events, each of a batch of its own.
MCChunkOf == (e1 :> c1) @@ (e2 :> c1) @@ (e3 :> c2)
MCTwoBatches == (c1 :> "b1") @@ (c2 :> "b2")
=============================================================================
