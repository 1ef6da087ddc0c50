------------------------- MODULE MCDurableDispatch -------------------------
(***************************************************************************)
(* Instances of DurableDispatch: two sessions of one workspace.            *)
(*  - ParallelBatchOf: the first session proposes a batch of two calls,    *)
(*    the second session a batch of one;                                   *)
(*  - SingleBatchOf: one call each.                                        *)
(***************************************************************************)
EXTENDS DurableDispatch

CONSTANTS s1, s2, group, write, other, b1, b2

ParallelBatchOf == [a \in Actions |-> IF a = other THEN b2 ELSE b1]
SingleBatchOf == [a \in Actions |-> IF a = group THEN b1 ELSE b2]
MCSessionOf == [b \in Batches |-> IF b = b1 THEN s1 ELSE s2]
=============================================================================
