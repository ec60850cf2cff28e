-------------------------- MODULE MCFilterOptions --------------------------
(* A small instance of FilterOptions. *)
EXTENDS FilterOptions, TLC

=============================================================================
