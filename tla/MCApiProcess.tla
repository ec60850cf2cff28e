----------------------------- MODULE MCApiProcess -----------------------------
(***************************************************************************)
(* Four components of the API process in one run.  They share the event    *)
(* loop and no state, so that a property of one holds in every interleaving *)
(* of the four if and only if it holds of the steps of that one: each      *)
(* behaviour follows one of them, and the others stay as they started.     *)
(***************************************************************************)
EXTENDS AgentThread, CodexOAuth, SourceRecord, AnalyzerPlan, TLC

VARIABLE component  \* the one whose steps are followed

ProcessInit ==
  /\ component \in {"agent thread", "model login", "source record", "planner"}
  /\ ThreadInit /\ OAuthInit /\ RecordInit /\ PlanInit
  /\ component # "planner" => trusted = NoTable

ProcessNext ==
  /\ \/ /\ component = "agent thread" /\ ThreadNext
        /\ UNCHANGED <<oauthVars, recordVars, planVars>>
     \/ /\ component = "model login" /\ OAuthNext
        /\ UNCHANGED <<threadVars, recordVars, planVars>>
     \/ /\ component = "source record" /\ RecordNext
        /\ UNCHANGED <<threadVars, oauthVars, planVars>>
     \/ /\ component = "planner" /\ PlanNext
        /\ UNCHANGED <<threadVars, oauthVars, recordVars>>
  /\ UNCHANGED component

ProcessSpec ==
  ProcessInit /\ [][ProcessNext]_<<component, threadVars, oauthVars, recordVars, planVars>>

(* The logins and the edits are of different components and are given the   *)
(* same names, so that one permutation serves both.                        *)
Symmetric == Permutations(Logins \cup Edits) \cup Permutations(Reads)
=============================================================================
