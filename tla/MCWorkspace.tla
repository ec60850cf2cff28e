----------------------------- MODULE MCWorkspace -----------------------------
(* Small instances of Workspace. *)
EXTENDS Workspace, TLC

CONSTANTS d1, d2, e1, e2

Home == [dash |-> None, edit |-> FALSE]
Edit(d) == [dash |-> d, edit |-> TRUE]

MCRoutes == {Home, Edit(d1), Edit(d2)}
MCFirstRoute == Edit(d1)

MCFilterElements == [d \in {d1, d2} |-> IF d = d1 THEN {e2} ELSE {}]
=============================================================================
