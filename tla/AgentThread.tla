----------------------------- MODULE AgentThread -----------------------------
(***************************************************************************)
(* A conversation with the agent (agent-thread/routes.ts, store.ts).  A    *)
(* run reads the thread, asks the model, which takes a while, and then     *)
(* records the question with its answer; a compaction replaces all         *)
(* messages by a summary.  Handlers interleave while models answer.        *)
(***************************************************************************)
EXTENDS Integers, Sequences

CONSTANTS
  Runs,          \* POST .../run requests, each sent once
  MaxCompactions \* bound: POST .../compact requests

ASSUME AgentThreadAssumption == MaxCompactions \in Nat

VARIABLES
  status,      \* thread.status
  messages,    \* thread.messages
  run,         \* where each run request is
  compactions, \* history: how many there were
  recorded     \* history: compactions before the answer of a run was recorded

threadVars == <<status, messages, run, compactions, recorded>>

(* A message is its role and the runs whose question its text repeats. *)
Message(role, about) == [role |-> role, about |-> about]

ThreadInit ==
  /\ status = "idle"
  /\ messages = <<>>
  /\ run = [r \in Runs |-> "new"]
  /\ compactions = 0
  /\ recorded = [r \in Runs |-> 0]

InFlight == {r \in Runs : run[r] = "asking"}

(* handleRunThread up to codexAgent.invoke. *)
HandleRun(r) ==
  /\ run[r] = "new"
  /\ run' = [run EXCEPT ![r] = IF status = "running" THEN "conflict" ELSE "asking"]
  /\ UNCHANGED <<status, messages, compactions, recorded>>

(* The model answers; runThread sets status to running and back to idle.   *)
RunThread(r) ==
  /\ run[r] = "asking"
  /\ IF status = "running"
       THEN /\ run' = [run EXCEPT ![r] = "conflict"]
            /\ UNCHANGED <<messages, recorded>>
       ELSE /\ run' = [run EXCEPT ![r] = "answered"]
            /\ messages' = messages \o <<Message("user", {r}), Message("assistant", {r})>>
            /\ recorded' = [recorded EXCEPT ![r] = compactions]
  /\ UNCHANGED <<status, compactions>>

(* invoke throws. *)
InvokeFails(r) ==
  /\ run[r] = "asking"
  /\ run' = [run EXCEPT ![r] = "conflict"]
  /\ UNCHANGED <<status, messages, compactions, recorded>>

About(role) == UNION {messages[i].about : i \in {j \in DOMAIN messages : messages[j].role = role}}

(* Mutant: a thread that was compacted before keeps the summary it has. *)
Summary_Mutant == IF About("system") # {} THEN About("system") ELSE About("user")

(* summarizeMessages: what users said or, if nothing, what anyone said. *)
Summary ==
  IF \E i \in DOMAIN messages : messages[i].role = "user"
    THEN About("user")
    ELSE About("assistant") \cup About("system")

CompactThread ==
  /\ compactions < MaxCompactions
  /\ status # "running"
  /\ messages' = <<Message("system", Summary)>>
  /\ compactions' = compactions + 1
  /\ UNCHANGED <<status, run, recorded>>

ThreadNext ==
  \/ \E r \in Runs : HandleRun(r) \/ RunThread(r) \/ InvokeFails(r)
  \/ CompactThread

ThreadSpec == ThreadInit /\ [][ThreadNext]_threadVars

-----------------------------------------------------------------------------
Remembered == UNION {messages[i].about : i \in DOMAIN messages}

(* A question that was answered stays in the conversation or its summary   *)
(* until the second compaction after it, which keeps the questions since   *)
(* the first and drops that one's summary.                                 *)
OneCompactionForgetsNothing ==
  \A r \in Runs :
    run[r] = "answered" /\ compactions - recorded[r] <= 1 => r \in Remembered

(* A thread runs one request at a time, and is not compacted meanwhile:    *)
(* what the errors "Thread is already running" and "Cannot compact a       *)
(* running thread" are for.                                                *)
RunsExclusively ==
  [][/\ \A r \in Runs : run[r] = "new" /\ run'[r] = "asking" => InFlight = {}
     /\ compactions' # compactions => InFlight = {}]_threadVars
=============================================================================
