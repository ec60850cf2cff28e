--------------------------- MODULE MCRuntimeSync ---------------------------
(* Small instances of RuntimeSync. *)
EXTENDS RuntimeSync

CONSTANTS a, b

(* a and b look credentials up in each other. *)
MutualDeps == [s \in {a, b} |-> {a, b} \ {s}]
=============================================================================
