---------------------------- MODULE LiveSqlQuery ----------------------------
(***************************************************************************)
(* executeLiveDataSourceSqlQuery runs a SELECT on a customer's database.   *)
(* Requests with the same cache key share the execution in flight          *)
(* (pendingLiveSqlQueries) and then its result for the TTL (the LRU map    *)
(* liveSqlResultCache); a request with bypassCache does neither.           *)
(*                                                                         *)
(* The rows of a result are abstracted to the time the database read them. *)
(* The promise reactions that follow the end of an execution (the owner's  *)
(* finally, the requests that joined) run before the next request is       *)
(* looked at and are part of the step that ends it.                        *)
(***************************************************************************)
EXTENDS Integers, Sequences, SequencesExt

CONSTANTS
  Keys,       \* cache keys: source id, limited SQL, values
  Requests,   \* calls of executeLiveDataSourceSqlQuery
  TTL,        \* INTRAQ_LIVE_SQL_CACHE_TTL_MS
  MaxEntries, \* INTRAQ_LIVE_SQL_CACHE_MAX_ENTRIES
  MaxTime,    \* bound on the clock
  Bypass,     \* the values of bypassCache that requests use
  None

ASSUME LiveSqlAssumption ==
  /\ TTL \in Nat /\ MaxTime \in Nat
  /\ MaxEntries \in Nat
  /\ Bypass \subseteq BOOLEAN
  /\ None \notin Requests

VARIABLES
  now,     \* Date.now()
  cache,   \* liveSqlResultCache: per key its entry, None where there is none
  order,   \* the keys of its entries as they were inserted, the oldest first
  pending, \* pendingLiveSqlQueries: the request whose execution it holds
  req,     \* the calls
  rows,    \* when the rows were read that a call's execution or answer holds
  called,  \* history: when each call was made
  ended    \* history: when each call was answered

vars == <<now, cache, order, pending, req, rows, called, ended>>

Times == 0..MaxTime
RequestRecords ==
  [pc : {"new", "running", "read", "joined", "done", "failed", "threw"}, key : Keys,
   bypass : BOOLEAN, on : Requests \cup {None}]

Init ==
  /\ now = 0
  /\ cache = [k \in Keys |-> None]
  /\ order = <<>>
  /\ pending = [k \in Keys |-> None]
  /\ req \in [Requests -> [pc : {"new"}, key : Keys, bypass : Bypass, on : {None}]]
  /\ rows = [r \in Requests |-> 0]
  /\ called = [r \in Requests |-> 0]
  /\ ended = [r \in Requests |-> 0]

-----------------------------------------------------------------------------
(* live-sql-result-cache.ts *)

(* Mutant: nothing expires. *)
Unexpired_Mutant(k) == cache[k] # None

Unexpired(k) == cache[k] # None /\ cache[k].expiresAt > now

Pruned == [k \in Keys |-> IF Unexpired(k) THEN cache[k] ELSE None]

(* An entry that is deleted and set again is the youngest. *)
Renewed(k) == Append(SelectSeq(order, LAMBDA j : j # k /\ Unexpired(j)), k)

(* trimCache drops the oldest entries. *)
Trim(keys) == SubSeq(keys, Max({1, 1 + Len(keys) - MaxEntries}), Len(keys))

SetCached(k, readAt) ==
  LET keys == Trim(Renewed(k))
      entry == [expiresAt |-> now + TTL, readAt |-> readAt]
  IN  IF TTL <= 0 THEN UNCHANGED <<cache, order>>
      ELSE /\ order' = keys
           /\ cache' = [j \in Keys |-> IF j \notin ToSet(keys) THEN None
                                       ELSE IF j = k THEN entry ELSE cache[j]]

-----------------------------------------------------------------------------
Start(r) ==
  /\ req' = [req EXCEPT ![r].pc = "running"]
  /\ pending' = [pending EXCEPT ![req[r].key] = r]

Join(r, q) ==
  /\ req' = [req EXCEPT ![r].pc = "joined", ![r].on = q]
  /\ UNCHANGED pending

(* bypassCache: neither the cache nor the execution in flight is looked    *)
(* at, yet the new execution takes the place of the one in flight.         *)
CallBypassed(r) ==
  /\ req[r].pc = "new" /\ req[r].bypass
  /\ Start(r)
  /\ called' = [called EXCEPT ![r] = now]
  /\ UNCHANGED <<now, cache, order, rows, ended>>

CallHit(r) ==
  LET k == req[r].key IN
  /\ req[r].pc = "new" /\ ~req[r].bypass
  /\ Unexpired(k)
  /\ cache' = Pruned
  /\ order' = Renewed(k)
  /\ rows' = [rows EXCEPT ![r] = cache[k].readAt]
  /\ req' = [req EXCEPT ![r].pc = "done"]
  /\ called' = [called EXCEPT ![r] = now]
  /\ ended' = [ended EXCEPT ![r] = now]
  /\ UNCHANGED <<now, pending>>

(* Mutant: the execution in flight is not looked for. *)
CallMiss_Mutant(r) ==
  /\ req[r].pc = "new" /\ ~req[r].bypass
  /\ ~Unexpired(req[r].key)
  /\ cache' = Pruned
  /\ order' = SelectSeq(order, Unexpired)
  /\ called' = [called EXCEPT ![r] = now]
  /\ Start(r)
  /\ UNCHANGED <<now, rows, ended>>

CallMiss(r) ==
  LET p == pending[req[r].key] IN
  /\ req[r].pc = "new" /\ ~req[r].bypass
  /\ ~Unexpired(req[r].key)
  /\ cache' = Pruned
  /\ order' = SelectSeq(order, Unexpired)
  /\ called' = [called EXCEPT ![r] = now]
  /\ \/ p = None /\ Start(r)
     \/ p # None /\ Join(r, p)
  /\ UNCHANGED <<now, rows, ended>>

(* The database evaluates the SELECT. *)
DatabaseReads(r) ==
  /\ req[r].pc = "running"
  /\ req' = [req EXCEPT ![r].pc = "read"]
  /\ rows' = [rows EXCEPT ![r] = now]
  /\ UNCHANGED <<now, cache, order, pending, called, ended>>

Joined(q, r) == req[q].pc = "joined" /\ req[q].on = r

(* Mutant: the entry of an execution that is over stays. *)
Settle_Mutant(r, mine, theirs) ==
  /\ req' = [q \in Requests |->
               IF q = r THEN [req[q] EXCEPT !.pc = mine]
               ELSE IF Joined(q, r) THEN [req[q] EXCEPT !.pc = theirs] ELSE req[q]]
  /\ rows' = [q \in Requests |-> IF Joined(q, r) THEN rows[r] ELSE rows[q]]
  /\ ended' = [q \in Requests |-> IF q = r \/ Joined(q, r) THEN now ELSE ended[q]]
  /\ UNCHANGED pending
(* Mutant: those who joined are not told. *)
Settle_Deaf(r, mine, theirs) ==
  /\ req' = [req EXCEPT ![r].pc = mine]
  /\ ended' = [ended EXCEPT ![r] = now]
  /\ pending' = [pending EXCEPT ![req[r].key] = None]
  /\ UNCHANGED rows

(* The owner's execution is over: it answers, removes whatever execution   *)
(* its key holds, and those who joined it resume.                          *)
Settle(r, mine, theirs) ==
  /\ req' = [q \in Requests |->
               IF q = r THEN [req[q] EXCEPT !.pc = mine]
               ELSE IF Joined(q, r) THEN [req[q] EXCEPT !.pc = theirs] ELSE req[q]]
  /\ rows' = [q \in Requests |-> IF Joined(q, r) THEN rows[r] ELSE rows[q]]
  /\ ended' = [q \in Requests |-> IF q = r \/ Joined(q, r) THEN now ELSE ended[q]]
  /\ pending' = [pending EXCEPT ![req[r].key] = None]

Replies(r) ==
  /\ req[r].pc = "read"
  /\ Settle(r, "done", "done")
  /\ IF req[r].bypass THEN UNCHANGED <<cache, order>> ELSE SetCached(req[r].key, rows[r])
  /\ UNCHANGED <<now, called>>

(* A failed or timed-out execution: its owner answers with an error, the   *)
(* await of those who joined throws.                                       *)
Fails(r) ==
  /\ req[r].pc \in {"running", "read"}
  /\ Settle(r, "failed", "threw")
  /\ UNCHANGED <<now, cache, order, called>>

Tick ==
  /\ now < MaxTime
  /\ now' = now + 1
  /\ UNCHANGED <<cache, order, pending, req, rows, called, ended>>

Answered(r) == req[r].pc \in {"done", "failed", "threw"}

Finished ==
  /\ \A r \in Requests : Answered(r)
  /\ UNCHANGED vars

Execution(r) == DatabaseReads(r) \/ Replies(r) \/ Fails(r)

Next ==
  \/ \E r \in Requests : CallBypassed(r) \/ CallHit(r) \/ CallMiss(r) \/ Execution(r)
  \/ Tick
  \/ Finished

(* The drivers answer, or time out; nobody has to send a request.          *)
Fairness == \A r \in Requests : WF_vars(Execution(r))

Spec == Init /\ [][Next]_vars
FairSpec == Spec /\ Fairness

-----------------------------------------------------------------------------
(* Properties. *)

Running(r) == req[r].pc \in {"running", "read"}
Bypassed(k) == \E r \in Requests : req[r].key = k /\ req[r].bypass /\ req[r].pc # "new"

(* As long as no request of a key has bypassed the cache, the database     *)
(* never runs the statement of that key twice at once.                     *)
SingleExecution ==
  \A q, r \in Requests :
    Running(q) /\ Running(r) /\ req[q].key = req[r].key /\ ~Bypassed(req[q].key) => q = r

(* What a request may join is still running, whichever executions of the   *)
(* key have replaced or removed each other's entry.                        *)
PendingRuns ==
  \A k \in Keys : pending[k] # None => Running(pending[k]) /\ req[pending[k]].key = k

(* A request called after another of its key was answered does not get     *)
(* older rows, unless a bypassing request let two executions overlap.      *)
ReadsNeverGoBack ==
  \A q, r \in Requests :
    /\ req[q].key = req[r].key /\ ~Bypassed(req[q].key)
    /\ req[q].pc = "done" /\ req[r].pc = "done"
    /\ ended[q] < called[r]
    => rows[q] <= rows[r]

(* Rows are at most the TTL plus one execution old: an answer read before  *)
(* its call comes from an execution that ended less than the TTL before    *)
(* the call, or after it.                                                  *)
StalenessBound ==
  \A r \in Requests : req[r].pc = "done" /\ rows[r] < called[r] =>
    \E q \in Requests :
      /\ req[q].pc = "done" /\ req[q].key = req[r].key
      /\ called[q] <= rows[q] /\ rows[q] = rows[r]
      /\ ended[q] >= called[r] \/ ended[q] > called[r] - TTL

(* Every call is answered, those that joined included. *)
EveryCallAnswered == \A r \in Requests : req[r].pc \notin {"new"} ~> Answered(r)
=============================================================================
