---------------------------- MODULE AnalyzerPlan ----------------------------
(***************************************************************************)
(* The planner of the analyzer: one question, put to a model that may only *)
(* call tools (codex-agent-tool-loop.ts), in two stages, the routing of    *)
(* the question and the building of the plan (analyzer-plan-agent-loop.ts), *)
(* with one more attempt after some failures.  The tools keep a state for  *)
(* the attempt and refuse calls that do not fit it, so that a plan rests   *)
(* on what the model inspected; the model may call them in any order, with *)
(* any arguments, several in one response.                                 *)
(*                                                                         *)
(* A table stands for its id and for its name.  What a refused call tells  *)
(* the model, the fields of a plan and what is traced are left out, and of *)
(* the tables of the source those that no model can be asked about.        *)
(***************************************************************************)
EXTENDS Integers

CONSTANTS
  Tables,     \* data models of the source
  Invented,   \* a name the source does not have
  NoTable,    \* the argument is left out
  RouteTurns, \* maxTurns of the routing stage: 4
  BuildTurns, \* maxTurns of the building stage: 12
  Attempts    \* of one request to the provider, retryAttemptCount: 3

ASSUME AnalyzerPlanAssumption ==
  /\ Invented \notin Tables /\ NoTable \notin Tables /\ NoTable # Invented
  /\ RouteTurns \in Nat \ {0} /\ BuildTurns \in Nat \ {0} /\ Attempts \in Nat \ {0}

VARIABLES
  stage,   \* "route", "build" or "over"
  turn,    \* of the stage
  tries,   \* failed requests of the turn
  calling, \* the calls of a response are being run
  retried, \* the second attempt is under way
  trusted, \* the retrieval candidate to use first, if there is one
  known,   \* the state the tools keep for the attempt
  outcome, \* what the planner returned
  asked    \* history: requests sent to the provider

planVars == <<stage, turn, tries, calling, retried, trusted, known, outcome, asked>>

Names == Tables \cup {Invented}
Arguments == Names \cup {NoTable}

(* createAnalyzerPlanToolState.  A preflight that finds nothing eligible   *)
(* ends the stage: the set is empty while there was none.                  *)
Fresh ==
  [routed |-> FALSE, breakdown |-> "none", eligible |-> {}, listed |-> FALSE,
   matched |-> FALSE, loaded |-> FALSE, id |-> NoTable, name |-> NoTable]

Without(kind) ==
  [kind |-> kind, id |-> NoTable, name |-> NoTable, table |-> NoTable, verified |-> NoTable]

PlanInit ==
  /\ stage = "route" /\ turn = 0 /\ tries = 0 /\ calling = FALSE
  /\ retried = FALSE
  /\ trusted \in Tables \cup {NoTable}
  /\ known = Fresh
  /\ outcome = Without("none")
  /\ asked = 0

-----------------------------------------------------------------------------
(* Stages and attempts *)

Enters(s) == stage' = s /\ turn' = 0 /\ tries' = 0 /\ calling' = FALSE

Concludes(result) ==
  /\ Enters("over")
  /\ outcome' = result
  /\ UNCHANGED <<retried, trusted, known>>

(* Mutant: the planner starts again after every such failure. *)
AttemptEnds_Mutant(why) ==
  IF why \in {"empty", "failed", "text"}
    THEN /\ Enters("route")
         /\ retried' = TRUE
         /\ trusted' = IF why = "empty" THEN NoTable ELSE trusted
         /\ known' = Fresh
         /\ UNCHANGED outcome
    ELSE Concludes(Without("fallback"))

(* Once more from the start, after an empty response without the retrieval *)
(* candidates.                                                             *)
AttemptEnds(why) ==
  IF ~retried /\ why \in {"empty", "failed", "text"}
    THEN /\ Enters("route")
         /\ retried' = TRUE
         /\ trusted' = IF why = "empty" THEN NoTable ELSE trusted
         /\ known' = Fresh
         /\ UNCHANGED outcome
    ELSE Concludes(Without("fallback"))

(* The planner looks at the state of the tools, not at why routing ended:  *)
(* with a breakdown in it, it goes on to build.                            *)
StageFails(why, state) ==
  IF stage = "route" /\ state.breakdown # "none"
    THEN /\ Enters("build")
         /\ known' = state
         /\ UNCHANGED <<retried, trusted, outcome>>
    ELSE AttemptEnds(why)

(* disabledReason: the stage sends no request. *)
ProviderMissing ==
  /\ stage # "over" /\ ~calling /\ turn = 0 /\ tries = 0
  /\ Concludes(Without("unavailable"))
  /\ UNCHANGED asked

-----------------------------------------------------------------------------
(* Turns: runCodexAgentToolLoop, createResponseWithRetry *)

Asks == stage # "over" /\ ~calling /\ asked' = asked + 1

LastTurn == turn + 1 = (IF stage = "route" THEN RouteTurns ELSE BuildTurns)

NextTurn == turn' = turn + 1 /\ tries' = 0 /\ calling' = FALSE

RequestRetried ==
  /\ Asks
  /\ tries + 1 < Attempts
  /\ tries' = tries + 1
  /\ UNCHANGED <<stage, turn, calling, retried, trusted, known, outcome>>

(* An empty response is worth every attempt, other errors may not be. *)
RequestFails(why) ==
  /\ Asks
  /\ why = "empty" => tries + 1 = Attempts
  /\ StageFails(why, known)

AnswersWithText ==
  /\ Asks
  /\ IF LastTurn
       THEN StageFails("text", known)
       ELSE NextTurn /\ UNCHANGED <<stage, retried, trusted, known, outcome>>

AnswersWithCalls ==
  /\ Asks
  /\ calling' = TRUE
  /\ UNCHANGED <<stage, turn, tries, retried, trusted, known, outcome>>

CallsHandled ==
  /\ calling
  /\ IF LastTurn
       THEN Concludes(Without("fallback"))
       ELSE NextTurn /\ UNCHANGED <<stage, retried, trusted, known, outcome>>
  /\ UNCHANGED asked

Calling(s) == stage = s /\ calling /\ UNCHANGED asked

Remember(state) ==
  /\ known' = state
  /\ UNCHANGED <<stage, turn, tries, calling, retried, trusted, outcome>>

-----------------------------------------------------------------------------
(* The tools of the routing stage *)

RouteAnalyzerUserTurn ==
  /\ Calling("route")
  /\ \/ Remember([known EXCEPT !.routed = TRUE])
     \/ Concludes(Without("reply"))  \* conversation, instruction, missing context

(* rememberResolvedModelCapabilities *)
Resolved(state, models) == [state EXCEPT !.eligible = models, !.matched = TRUE]

(* Filters, groups, a measure, an order or a limit: the inputs of a        *)
(* capability preflight, which is then part of the call.                   *)
BreakDownAnalyzerRequest ==
  /\ Calling("route")
  /\ known.routed
  /\ \/ /\ Enters("build")
        /\ \/ known' = [known EXCEPT !.breakdown = "plain"]
           \/ \E models \in (SUBSET Tables) \ {{}} :
                known' = Resolved([known EXCEPT !.breakdown = "inputs"], models)
        /\ UNCHANGED <<retried, trusted, outcome>>
     \/ Concludes(Without("reply"))  \* nothing is eligible

(* The breakdown is kept although its preflight failed. *)
BreakDownThrows ==
  /\ Calling("route")
  /\ known.routed
  /\ StageFails("failed", [known EXCEPT !.breakdown = "inputs"])

-----------------------------------------------------------------------------
(* The tools of the building stage *)

(* requestBreakdownRequiresCapabilityPreflight, and there was none. *)
NeedsPreflight == known.breakdown = "inputs" /\ known.eligible = {}

ResolveModelCapabilities ==
  /\ Calling("build")
  /\ \/ \E models \in (SUBSET Tables) \ {{}} : Remember(Resolved(known, models))
     \/ Concludes(Without("reply"))

(* A lookup of resolve_model_capabilities or resolve_field_values fails. *)
LookupThrows(why) ==
  /\ Calling("build")
  /\ StageFails(why, known)

ListDataModels ==
  /\ Calling("build")
  /\ trusted = NoTable
  /\ ~NeedsPreflight
  /\ \E some \in BOOLEAN : Remember([known EXCEPT !.listed = TRUE, !.matched = some])

Named(id, name) == id # NoTable \/ name # NoTable

(* preflightAllowsSchema, preflightAllowsBuildModel *)
PreflightAllows(id, name) ==
  known.eligible # {} /\ Named(id, name) => id \in known.eligible \/ name \in known.eligible

(* schemaArgsMatchTrustedDirectCandidate *)
MatchesTrusted(id, name) == trusted \in {id, name}

SchemaAllowed(id, name) ==
  /\ ~NeedsPreflight
  /\ PreflightAllows(id, name)
  /\ trusted # NoTable => MatchesTrusted(id, name)

Given(argument, default) == IF argument = NoTable THEN default ELSE argument

(* The model counts as loaded even when the source does not have it. *)
GetSchema(id, name) ==
  /\ Calling("build")
  /\ SchemaAllowed(id, name)
  /\ Remember([known EXCEPT !.loaded = TRUE, !.id = Given(id, @), !.name = Given(name, @)])

TrustedLoaded == trusted # NoTable /\ known.loaded /\ MatchesTrusted(known.id, known.name)

First(a, b, c, S) == IF a \in S THEN a ELSE IF b \in S THEN b ELSE IF c \in S THEN c ELSE NoTable

(* The plan of a call, what it leaves out taken from the last get_schema   *)
(* (buildComponentArgsWithSelectedSchema): its table is the first the      *)
(* source has of the id, the name and one the actions name                 *)
(* (resolveTableFromBuildComponent), its capability that of the first      *)
(* eligible one (preflightModelKeyForBuildArgs).                           *)
Plan(kind, id, name, inActions) ==
  LET i == Given(id, known.id)
      n == Given(name, known.name)
      E == known.eligible
  IN  [kind |-> kind, id |-> id, name |-> name,
       table |-> First(i, n, inActions, Tables),
       verified |-> First(i, n, First(known.id, known.name, NoTable, E), E)]

(* The plan, if there is a table for it; or a contract, a field or a mode  *)
(* is refused, which is an answer too.                                     *)
Returns(plan) ==
  \/ plan.table # NoTable /\ Concludes(plan)
  \/ Concludes(Without("reply"))

BuildComponent(id, name, inActions) ==
  /\ Calling("build")
  /\ known.loaded
  /\ trusted # NoTable => TrustedLoaded /\ (Named(id, name) => MatchesTrusted(id, name))
  /\ PreflightAllows(id, name)
  /\ Returns(Plan("single", id, name, inActions))

(* Mutant: one eligible name is enough, as for build_component. *)
AllVerified_Mutant(id, name) ==
  known.eligible # {} => id \in known.eligible \/ name \in known.eligible

(* preflightVerifiedMultiComponentBuildArgs *)
AllVerified(id, name) ==
  known.eligible # {} =>
    Named(id, name) /\ {id, name} \subseteq known.eligible \cup {NoTable}

(* One of the results of the call; the others are treated alike, and none  *)
(* is returned without them.  Results that come as "components" are built, *)
(* but neither filled in nor verified.                                     *)
BuildMultiComponent(id, name, inActions) ==
  /\ Calling("build")
  /\ known.loaded
  /\ \/ /\ AllVerified(Given(id, known.id), Given(name, known.name))
        /\ Returns(Plan("multi", id, name, inActions))
     \/ Returns([kind |-> "components", id |-> id, name |-> name,
                 table |-> First(id, name, inActions, Tables), verified |-> NoTable])

RequestDataSourceOrModelContext ==
  /\ Calling("build")
  /\ known.listed \/ TrustedLoaded
  /\ known.matched => known.loaded
  /\ Concludes(Without("reply"))

PlanNext ==
  \/ ProviderMissing \/ RequestRetried \/ AnswersWithText \/ AnswersWithCalls \/ CallsHandled
  \/ \E why \in {"empty", "failed", "refused"} : RequestFails(why)
  \/ RouteAnalyzerUserTurn \/ BreakDownAnalyzerRequest \/ BreakDownThrows
  \/ ResolveModelCapabilities \/ ListDataModels \/ RequestDataSourceOrModelContext
  \/ \E why \in {"failed", "refused"} : LookupThrows(why)
  \/ \E id, name \in Arguments :
       \/ GetSchema(id, name)
       \/ \E inActions \in Arguments :
            BuildComponent(id, name, inActions) \/ BuildMultiComponent(id, name, inActions)

PlanSpec == PlanInit /\ [][PlanNext]_planVars

-----------------------------------------------------------------------------
Planned == outcome.kind \in {"single", "multi", "components"}

(* Everything the call and the last get_schema name is eligible. *)
AllEligible ==
  LET named == {outcome.id, outcome.name, known.id, known.name} \ {NoTable}
  IN  named # {} /\ named \subseteq known.eligible

(* Whatever the model calls in whatever order, and whichever stage failed  *)
(* before: a plan for a request with filters, groups, a measure, an order  *)
(* or a limit comes after the preflight of its own attempt; and it queries *)
(* an eligible model with the capability verified for that model, if it is *)
(* one of several results, or everything that was named is eligible.       *)
GroundedPlan ==
  Planned /\ known.breakdown = "inputs" =>
    /\ known.eligible # {}
    /\ outcome.kind = "multi" \/ (outcome.kind = "single" /\ AllEligible) =>
         outcome.table \in known.eligible /\ outcome.verified = outcome.table

(* A question costs a bounded number of requests, retries of requests, of  *)
(* turns and of the planner included.                                      *)
AskedAtMost == asked <= 2 * (RouteTurns + BuildTurns) * Attempts

(* A result may name a data model of the source by its id or by its name:  *)
(* if it names no other, its plan is for that model, whichever model the   *)
(* last get_schema loaded.                                                 *)
BuildsWhatWasNamed ==
  Planned /\ known.id = known.name =>
    \A t \in Tables : {outcome.id, outcome.name} \ {NoTable} = {t} => outcome.table = t
=============================================================================
