----------------------------- MODULE MCVizData -----------------------------
(* Instances of VizData for TLC. *)
EXTENDS VizData

MCTtl == [k \in Keys |-> 1]
=============================================================================
