--------------------------- MODULE FilterOptions ---------------------------
(***************************************************************************)
(* The filter controls of a dashboard fetch the lists they offer.  A       *)
(* filter with a dynamic option source asks fetchDynamicFilterOptionItems, *)
(* whose session cache of promises is shared by all controls; any other    *)
(* filter asks for the values of its field, trying three endpoints in      *)
(* turn.  A control starts over whenever its source or the preview scope   *)
(* changes, and does not abort what it asked before.                       *)
(*                                                                         *)
(* Promise continuations (Deliver) run before the next event.              *)
(***************************************************************************)
EXTENDS Integers, FiniteSets

CONSTANTS
  Dynamic,  \* cache keys of dynamic option sources with their preview scope
  Field,    \* other sources: a field of a data source, with its preview scope
  Controls, \* mounted filter controls
  Fetches,  \* identities for requests (bounds how many are ever sent)
  None

Sources == Dynamic \cup Field

ASSUME FilterOptionsAssumption ==
  /\ Dynamic \cap Field = {}
  /\ None \notin Sources \cup Fetches

VARIABLES
  cache,     \* dynamicFilterOptionCache: the request whose promise a key holds
  fetch,     \* the requests
  source,    \* what each control watches, None before it is mounted
  shown,     \* fetchedOptions: the source whose options a control holds
  loaded,    \* fetchedOptionsLoaded
  awaiting,  \* the requests that calls of fetchFieldOptions await
  overlapped \* history: controls whose source changed while they awaited one

vars == <<cache, fetch, source, shown, loaded, awaiting, overlapped>>

\* "sent" and "body" are the two awaits of requestFilterOptions; "values",
\* "tables", "target" and "concepts" those of the field chain.
Unsettled == {"sent", "body", "values", "tables", "target", "concepts"}
Settled == {"done", "empty", "rejected"}

Init ==
  /\ cache = [k \in Dynamic |-> None]
  /\ fetch = [f \in Fetches |-> [pc |-> "free", source |-> None]]
  /\ source = [c \in Controls |-> None]
  /\ shown = [c \in Controls |-> None]
  /\ loaded = [c \in Controls |-> FALSE]
  /\ awaiting = [c \in Controls |-> {}]
  /\ overlapped = {}

NoMicrotask == \A c \in Controls : \A f \in awaiting[c] : fetch[f].pc \notin Settled

-----------------------------------------------------------------------------
(* Mutant: the options of the source before stay until there are others. *)
StartOver_Mutant(c, k) ==
  /\ source' = [source EXCEPT ![c] = k]
  /\ loaded' = [loaded EXCEPT ![c] = FALSE]
  /\ overlapped' = IF awaiting[c] # {} THEN overlapped \cup {c} ELSE overlapped
  /\ UNCHANGED shown

(* The watcher of a control: its source or the preview scope changed.      *)
StartOver(c, k) ==
  /\ source' = [source EXCEPT ![c] = k]
  /\ shown' = [shown EXCEPT ![c] = None]
  /\ loaded' = [loaded EXCEPT ![c] = FALSE]
  /\ overlapped' = IF awaiting[c] # {} THEN overlapped \cup {c} ELSE overlapped

Unsent == {f \in Fetches : fetch[f].pc = "free"}

Send(c, k, pc) ==
  /\ Unsent # {}
  /\ LET f == CHOOSE g \in Unsent : TRUE IN
       /\ fetch' = [fetch EXCEPT ![f] = [pc |-> pc, source |-> k]]
       /\ awaiting' = [awaiting EXCEPT ![c] = @ \cup {f}]
       /\ cache' = IF k \in Dynamic THEN [cache EXCEPT ![k] = f] ELSE cache

(* Mutant: the promise in the cache is not looked for. *)
WatchDynamic_Mutant(c, k) ==
  /\ NoMicrotask /\ source[c] # k
  /\ StartOver(c, k)
  /\ Send(c, k, "sent")

(* fetchDynamicFilterOptionItems joins the promise in the cache, settled   *)
(* or not, or sends a request.                                             *)
WatchDynamic(c, k) ==
  /\ NoMicrotask /\ source[c] # k
  /\ StartOver(c, k)
  /\ \/ /\ cache[k] # None
        /\ awaiting' = [awaiting EXCEPT ![c] = @ \cup {cache[k]}]
        /\ UNCHANGED <<cache, fetch>>
     \/ /\ cache[k] = None
        /\ Send(c, k, "sent")

(* The field chain starts with the values of the configured table, if the  *)
(* filter has one, else with the tables of the data source.                *)
WatchField(c, k) ==
  /\ NoMicrotask /\ source[c] # k
  /\ StartOver(c, k)
  /\ \E pc \in {"values", "tables"} : Send(c, k, pc)

To(f, pc) == fetch' = [fetch EXCEPT ![f].pc = pc]

(* requestFilterOptions: a failed fetch or an error status evicts the key  *)
(* and answers with no options; otherwise the body is awaited.             *)
Replies(f) ==
  /\ NoMicrotask /\ fetch[f].pc = "sent"
  /\ \/ /\ To(f, "body")
        /\ UNCHANGED cache
     \/ /\ To(f, "empty")
        /\ cache' = [cache EXCEPT ![fetch[f].source] = None]
  /\ UNCHANGED <<source, shown, loaded, awaiting, overlapped>>

(* A body that cannot be read rejects the promise, which stays in the      *)
(* cache.                                                                  *)
BodyReplies(f) ==
  /\ NoMicrotask /\ fetch[f].pc = "body"
  /\ To(f, "done") \/ To(f, "rejected")
  /\ UNCHANGED <<cache, source, shown, loaded, awaiting, overlapped>>

(* Each step of the field chain finds values and stops, finds none and     *)
(* tries the next endpoint, or throws, which ends the chain.               *)
NextEndpoints(pc) ==
  CASE pc = "values" -> {"tables"}
    [] pc = "tables" -> {"target", "concepts"}
    [] pc = "target" -> {"concepts"}
    [] pc = "concepts" -> {"empty"}

ChainReplies(f) ==
  /\ NoMicrotask
  /\ fetch[f].pc \in {"values", "tables", "target", "concepts"}
  /\ \E pc \in NextEndpoints(fetch[f].pc) \cup {"done", "empty"} :
       /\ fetch[f].pc = "tables" => pc # "done"
       /\ To(f, pc)
  /\ UNCHANGED <<cache, source, shown, loaded, awaiting, overlapped>>

(* Mutant: loading only ends when there are options to show. *)
Deliver_Mutant(c, f) ==
  /\ f \in awaiting[c] /\ fetch[f].pc \in Settled
  /\ awaiting' = [awaiting EXCEPT ![c] = @ \ {f}]
  /\ loaded' = [loaded EXCEPT ![c] = @ \/ fetch[f].pc = "done"]
  /\ shown' = [shown EXCEPT ![c] = IF fetch[f].pc = "done" THEN fetch[f].source ELSE @]
  /\ UNCHANGED <<cache, fetch, source, overlapped>>

(* fetchFieldOptions resumes.  What it writes is not compared with what    *)
(* the control is about by now.  A dynamic source writes whatever it got,  *)
(* even nothing, but not when its promise is rejected; the field chain     *)
(* writes only values, but always ends the loading.                        *)
Deliver(c, f) ==
  LET k == fetch[f].source IN
  /\ f \in awaiting[c] /\ fetch[f].pc \in Settled
  /\ awaiting' = [awaiting EXCEPT ![c] = @ \ {f}]
  /\ loaded' = [loaded EXCEPT ![c] = @ \/ fetch[f].pc # "rejected"]
  /\ shown' = [shown EXCEPT ![c] = CASE fetch[f].pc = "done" -> k
                                      [] fetch[f].pc = "empty" /\ k \in Dynamic -> None
                                      [] OTHER -> @]
  /\ UNCHANGED <<cache, fetch, source, overlapped>>

Network(f) == Replies(f) \/ BodyReplies(f) \/ ChainReplies(f)

(* The dashboard may stay as it is for ever. *)
Rest ==
  /\ \A f \in Fetches : fetch[f].pc \notin Unsettled
  /\ NoMicrotask
  /\ UNCHANGED vars

Next ==
  \/ \E c \in Controls : \/ \E k \in Dynamic : WatchDynamic(c, k)
                         \/ \E k \in Field : WatchField(c, k)
                         \/ \E f \in Fetches : Deliver(c, f)
  \/ \E f \in Fetches : Network(f)
  \/ Rest

(* Requests are answered or fail, and the event loop gets to each answer   *)
(* however often continuations come before it; continuations run.  Nobody  *)
(* has to change a filter.                                                 *)
Fairness ==
  /\ \A f \in Fetches : SF_vars(Network(f))
  /\ \A c \in Controls, f \in Fetches : WF_vars(Deliver(c, f))

Spec == Init /\ [][Next]_vars
FairSpec == Spec /\ Fairness

-----------------------------------------------------------------------------
(* Properties. *)

(* "Concurrent callers for the same key share one in-flight request" and    *)
(* "we fetch each once and reuse it": however controls are mounted and     *)
(* change, a list that was asked for is not asked for again, unless the    *)
(* request failed.                                                         *)
FetchedOnce ==
  \A f, g \in Fetches :
    /\ fetch[f].source \in Dynamic /\ fetch[g].source = fetch[f].source
    /\ {fetch[f].pc, fetch[g].pc} \subseteq Unsettled \cup {"done"}
    => f = g

(* A control only ever offers the options of its own source, unless the    *)
(* source changed while it was waiting for those of another.               *)
OwnOptions ==
  \A c \in Controls \ overlapped : shown[c] \in {None, source[c]}

(* A control that shows it is loading stops, whatever its filter is changed  *)
(* to meanwhile and whatever the requests of other sources come to.  Only    *)
(* a control whose own list was asked for with a request that answered with  *)
(* a body that cannot be read goes on for ever: the promise was rejected     *)
(* and stays in the session cache.                                           *)
LoadingEnds ==
  \A c \in Controls :
    source[c] # None ~>
      loaded[c] \/ \E f \in Fetches : /\ fetch[f].pc = "rejected"
                                      /\ fetch[f].source = source[c]
=============================================================================
