--------------------------- MODULE MCDashboardData ---------------------------
(***************************************************************************)
(* Two components below a dashboard in one run: the store of its parts and *)
(* the cache of the rows they show.  They share no state: each behaviour   *)
(* follows the steps of one, and the other stays as it started.            *)
(***************************************************************************)
EXTENDS MCVizData, DashboardStore, TLC

VARIABLE component  \* the one whose steps are followed

DashboardInit ==
  /\ component \in {"store", "cache"}
  /\ Init /\ VizInit
  /\ component # "store" => children = Empty

DashboardNext ==
  /\ \/ component = "store" /\ Next /\ UNCHANGED vizVars
     \/ component = "cache" /\ VizNext /\ UNCHANGED vars
  /\ UNCHANGED component

DashboardSpec == DashboardInit /\ [][DashboardNext]_<<component, vars, vizVars>>

Symmetric == Permutations(Tx)
=============================================================================
