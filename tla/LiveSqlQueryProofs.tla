------------------------- MODULE LiveSqlQueryProofs -------------------------
(***************************************************************************)
(* The live SQL queries, for any number of keys and requests and any TTL.  *)
(*                                                                         *)
(* ExecInv: without a bypassing request of its key, an execution is the    *)
(* one its key holds.  RowInv: an answer is from the cache, in time, or    *)
(* from an execution that ran while the request was under way.  OrderInv:  *)
(* an execution starts only after the entry has gone, hence after all the  *)
(* answers of its key were read.                                           *)
(***************************************************************************)
EXTENDS LiveSqlQuery, TLAPS

(* Without a bypassing request of its key, an execution is the one that    *)
(* its key holds.                                                          *)
RegisteredExecution ==
  \A r \in Requests : Running(r) /\ ~Bypassed(req[r].key) => pending[req[r].key] = r

CallType ==
  /\ req \in [Requests -> RequestRecords]
  /\ pending \in [Keys -> Requests \cup {None}]

ExecInv == CallType /\ PendingRuns /\ RegisteredExecution

LEMMA InitExec == Init => ExecInv
<1> SUFFICES ASSUME Init PROVE ExecInv
  OBVIOUS
<1>1. CallType
  BY LiveSqlAssumption DEF Init, CallType, RequestRecords
<1>2. PendingRuns
  BY DEF Init, PendingRuns
<1>3. RegisteredExecution
  BY DEF Init, RegisteredExecution, Running
<1> QED BY <1>1, <1>2, <1>3 DEF ExecInv

(* An execution starts only where none is registered, or bypasses. *)
LEMMA StartExec ==
  ASSUME ExecInv, NEW r \in Requests, Start(r), req[r].pc = "new",
         pending[req[r].key] = None \/ req[r].bypass
  PROVE  ExecInv'
<1>1. req[r].key \in Keys /\ req[r] \in RequestRecords
  BY DEF ExecInv, CallType, RequestRecords
<1>2. /\ req'[r].pc = "running" /\ req'[r].key = req[r].key /\ req'[r].bypass = req[r].bypass
      /\ \A q \in Requests \ {r} : req'[q] = req[q]
  BY <1>1 DEF Start, ExecInv, CallType, RequestRecords
<1>3. pending'[req[r].key] = r /\ \A k \in Keys \ {req[r].key} : pending'[k] = pending[k]
  BY <1>1 DEF Start, ExecInv, CallType
<1>4. CallType'
  BY <1>1 DEF Start, ExecInv, CallType, RequestRecords
<1>5. PendingRuns'
  BY <1>1, <1>2, <1>3 DEF ExecInv, PendingRuns, CallType, Running
<1>6. RegisteredExecution'
  <2> SUFFICES ASSUME NEW q \in Requests, Running(q)', ~Bypassed(req[q].key)' PROVE pending'[req'[q].key] = q
    BY DEF RegisteredExecution
  <2>1. CASE q = r
    BY <2>1, <1>2, <1>3
  <2>2. CASE q # r
    <3>1. Running(q) /\ req'[q].key = req[q].key /\ req[q].key \in Keys
      BY <2>2, <1>2 DEF Running, ExecInv, CallType, RequestRecords
    <3>2. ~Bypassed(req[q].key)
      BY <1>2, <3>1 DEF Bypassed
    <3>3. pending[req[q].key] = q
      BY <3>1, <3>2 DEF ExecInv, RegisteredExecution
    <3>4. req[q].key # req[r].key
      <4>1. SUFFICES ASSUME req[q].key = req[r].key PROVE FALSE
        OBVIOUS
      <4>2. req[r].bypass
        BY <4>1, <3>3, LiveSqlAssumption
      <4>3. Bypassed(req[q].key)'
        BY <4>1, <4>2, <3>1, <1>2 DEF Bypassed
      <4> QED BY <4>3
    <3> QED BY <3>1, <3>3, <3>4, <1>3
  <2> QED BY <2>1, <2>2
<1> QED BY <1>4, <1>5, <1>6 DEF ExecInv

(* Steps that neither start nor end an execution. *)
LEMMA OtherExec ==
  ASSUME ExecInv, NEW r \in Requests, NEW x \in RequestRecords,
         x.pc # "new", x.key = req[r].key, x.bypass = req[r].bypass,
         x.pc \in {"running", "read"} <=> Running(r),
         req' = [req EXCEPT ![r] = x], UNCHANGED pending
  PROVE  ExecInv'
<1>2. CallType'
  BY DEF ExecInv, CallType
<1>3. \A q \in Requests : /\ req'[q].key = req[q].key /\ req'[q].bypass = req[q].bypass
                          /\ req[q].pc # "new" => req'[q].pc # "new"
                          /\ Running(q)' <=> Running(q)
  BY DEF ExecInv, CallType, RequestRecords, Running
<1>4. PendingRuns'
  BY <1>3 DEF ExecInv, CallType, PendingRuns
<1>5. \A q \in Requests : ~Bypassed(req[q].key)' => ~Bypassed(req[q].key)
  BY <1>3 DEF Bypassed
<1>6. RegisteredExecution'
  BY <1>3, <1>5 DEF ExecInv, RegisteredExecution
<1> QED BY <1>2, <1>4, <1>6 DEF ExecInv

LEMMA SettleExec ==
  ASSUME ExecInv, NEW r \in Requests, Running(r),
         NEW mine \in {"done", "failed"}, NEW theirs \in {"done", "threw"}, Settle(r, mine, theirs)
  PROVE  ExecInv'
<1>1. req[r].key \in Keys
  BY DEF ExecInv, CallType, RequestRecords
<1>2. req' = [q \in Requests |->
               IF q = r THEN [req[q] EXCEPT !.pc = mine]
               ELSE IF Joined(q, r) THEN [req[q] EXCEPT !.pc = theirs] ELSE req[q]]
  BY DEF Settle
<1>3. pending' = [pending EXCEPT ![req[r].key] = None]
  BY DEF Settle
<1>4. CallType'
  BY <1>1, <1>2, <1>3 DEF ExecInv, CallType, RequestRecords
<1>5. \A q \in Requests : /\ req'[q].key = req[q].key /\ req'[q].bypass = req[q].bypass
                          /\ req[q].pc # "new" => req'[q].pc # "new"
                          /\ Running(q)' <=> Running(q) /\ q # r
  BY <1>2 DEF ExecInv, CallType, RequestRecords, Running, Joined
<1>6. pending'[req[r].key] = None /\ \A k \in Keys \ {req[r].key} : pending'[k] = pending[k]
  BY <1>1, <1>3 DEF ExecInv, CallType
<1>7. PendingRuns'
  BY <1>4, <1>5, <1>6, LiveSqlAssumption DEF ExecInv, CallType, PendingRuns
<1>8. \A q \in Requests : ~Bypassed(req[q].key)' => ~Bypassed(req[q].key)
  BY <1>5 DEF Bypassed
<1>9. RegisteredExecution'
  <2> SUFFICES ASSUME NEW q \in Requests, Running(q)', ~Bypassed(req[q].key)' PROVE pending'[req'[q].key] = q
    BY DEF RegisteredExecution
  <2>1. Running(q) /\ q # r /\ ~Bypassed(req[q].key) /\ req'[q].key = req[q].key /\ req[q].key \in Keys
    BY <1>5, <1>8 DEF ExecInv, CallType, RequestRecords
  <2>2. pending[req[q].key] = q
    BY <2>1 DEF ExecInv, RegisteredExecution
  <2>3. req[q].key # req[r].key
    BY <2>1, <2>2 DEF ExecInv, RegisteredExecution
  <2> QED BY <1>6, <2>1, <2>2, <2>3
<1> QED BY <1>4, <1>7, <1>9 DEF ExecInv

LEMMA StepExec == ExecInv /\ [Next]_vars => ExecInv'
<1> SUFFICES ASSUME ExecInv, [Next]_vars PROVE ExecInv'
  OBVIOUS
<1>0. \A r \in Requests : req[r] \in RequestRecords /\ req[r].key \in Keys
  BY DEF ExecInv, CallType, RequestRecords
<1>1. ASSUME NEW r \in Requests, CallBypassed(r) PROVE ExecInv'
  BY <1>1, StartExec DEF CallBypassed
<1>2. ASSUME NEW r \in Requests, CallHit(r) PROVE ExecInv'
  <2> DEFINE x == [req[r] EXCEPT !.pc = "done"]
  <2>1. req' = [req EXCEPT ![r] = x] /\ UNCHANGED pending /\ req[r].pc = "new"
    BY <1>2 DEF CallHit
  <2>2. x \in RequestRecords /\ x.pc = "done" /\ x.key = req[r].key /\ x.bypass = req[r].bypass
    BY <1>0 DEF RequestRecords
  <2> HIDE DEF x
  <2> QED BY <2>1, <2>2, OtherExec DEF Running
<1>3. ASSUME NEW r \in Requests, CallMiss(r) PROVE ExecInv'
  <2> DEFINE p == pending[req[r].key]
             x == [req[r] EXCEPT !.pc = "joined", !.on = p]
  <2>1. CASE p = None
    BY <1>3, <2>1, StartExec DEF CallMiss
  <2>2. CASE p # None
    <3>1. req' = [req EXCEPT ![r].pc = "joined", ![r].on = p] /\ UNCHANGED pending /\ req[r].pc = "new"
      BY <1>3, <2>2 DEF CallMiss, Join
    <3>2. p \in Requests
      BY <1>0, <2>2 DEF ExecInv, CallType
    <3>3. x \in RequestRecords /\ x.pc = "joined" /\ x.key = req[r].key /\ x.bypass = req[r].bypass
      BY <1>0, <3>2 DEF RequestRecords
    <3>4. req' = [req EXCEPT ![r] = x]
      BY <3>1
    <3> HIDE DEF x
    <3> QED BY <3>1, <3>3, <3>4, OtherExec DEF Running
  <2> QED BY <2>1, <2>2
<1>4. ASSUME NEW r \in Requests, DatabaseReads(r) PROVE ExecInv'
  <2> DEFINE x == [req[r] EXCEPT !.pc = "read"]
  <2>1. req' = [req EXCEPT ![r] = x] /\ UNCHANGED pending /\ req[r].pc = "running"
    BY <1>4 DEF DatabaseReads
  <2>2. x \in RequestRecords /\ x.pc = "read" /\ x.key = req[r].key /\ x.bypass = req[r].bypass
    BY <1>0 DEF RequestRecords
  <2> HIDE DEF x
  <2> QED BY <2>1, <2>2, OtherExec DEF Running
<1>5. ASSUME NEW r \in Requests, Replies(r) \/ Fails(r) PROVE ExecInv'
  BY <1>5, SettleExec DEF Replies, Fails, Running
<1>6. ASSUME UNCHANGED <<req, pending>> PROVE ExecInv'
  BY <1>6 DEF ExecInv, CallType, PendingRuns, RegisteredExecution, Running, Bypassed
<1> QED BY <1>1, <1>2, <1>3, <1>4, <1>5, <1>6 DEF Next, Tick, Finished, Execution, vars

(* What a request may join is still running, however many executions of    *)
(* the key bypassing requests have started.                                *)
THEOREM PendingRunsHolds == Spec => []PendingRuns
<1>1. ExecInv => PendingRuns
  BY DEF ExecInv
<1> QED BY <1>1, InitExec, StepExec, PTL DEF Spec

(* The database runs one statement of a key at a time until a request      *)
(* bypasses the cache.                                                     *)
THEOREM SingleExecutionHolds == Spec => []SingleExecution
<1>1. ExecInv => SingleExecution
  <2> SUFFICES ASSUME ExecInv, NEW q \in Requests, NEW r \in Requests, Running(q), Running(r),
                      req[q].key = req[r].key, ~Bypassed(req[q].key)
               PROVE  q = r
    BY DEF SingleExecution
  <2> QED BY DEF ExecInv, RegisteredExecution
<1> QED BY <1>1, InitExec, StepExec, PTL DEF Spec

-----------------------------------------------------------------------------
(* Where rows come from. *)

Entries == [expiresAt : Nat, readAt : Nat]

RowType ==
  /\ now \in Nat
  /\ cache \in [Keys -> Entries \cup {None}]
  /\ rows \in [Requests -> Nat] /\ called \in [Requests -> Nat] /\ ended \in [Requests -> Nat]

(* A call cannot be answered with rows of the future. *)
InTime ==
  \A r \in Requests :
    /\ called[r] <= now
    /\ req[r].pc = "read" => called[r] <= rows[r] /\ rows[r] <= now
    /\ req[r].pc = "done" => rows[r] <= ended[r] /\ ended[r] <= now

JoinedRuns ==
  \A r \in Requests : req[r].pc = "joined" =>
    req[r].on \in Requests /\ Running(req[r].on) /\ req[req[r].on].key = req[r].key

(* The execution q of key k that read its rows after it was called. *)
Source(q, k, readAt) ==
  req[q].pc = "done" /\ req[q].key = k /\ called[q] <= rows[q] /\ rows[q] = readAt

EntriesHaveSource ==
  \A k \in Keys : cache[k] # None =>
    \E q \in Requests : Source(q, k, cache[k].readAt) /\ cache[k].expiresAt = ended[q] + TTL

RowInv ==
  RowType /\ InTime /\ JoinedRuns /\ EntriesHaveSource /\ StalenessBound

(* What keeps the answers of a key in order while nobody bypasses it: an   *)
(* execution finds no entry and starts after all the rows that its key's   *)
(* answers hold were read; an entry is the youngest answer.                *)
RunsWithoutEntry ==
  \A r \in Requests : Running(r) /\ ~Bypassed(req[r].key) => cache[req[r].key] = None

RunsAfterAnswers ==
  \A q, r \in Requests :
    Running(r) /\ ~Bypassed(req[r].key) /\ req[q].pc = "done" /\ req[q].key = req[r].key
    => rows[q] <= called[r]

EntryIsYoungest ==
  \A q \in Requests :
    req[q].pc = "done" /\ ~Bypassed(req[q].key) /\ cache[req[q].key] # None
    => rows[q] <= cache[req[q].key].readAt

OrderInv == RunsWithoutEntry /\ RunsAfterAnswers /\ EntryIsYoungest /\ ReadsNeverGoBack

(* What a step does to the entries: it drops some, and only the end of an  *)
(* execution writes one.                                                   *)
Drops == \A k \in Keys : cache'[k] \in {cache[k], None}
DropsOrSets(r) ==
  \A k \in Keys : \/ cache'[k] \in {cache[k], None}
                  \/ k = req[r].key /\ cache'[k] = [expiresAt |-> now + TTL, readAt |-> rows[r]]

(* What a step does to the calls. *)
Keeps(q) == req'[q] = req[q] /\ rows'[q] = rows[q] /\ called'[q] = called[q] /\ ended'[q] = ended[q]
Moves(r, pc) ==
  /\ req'[r].pc = pc /\ req'[r].key = req[r].key /\ req'[r].bypass = req[r].bypass
  /\ \A q \in Requests \ {r} : Keeps(q)
  /\ now' = now

Starts(r) ==
  /\ req[r].pc = "new" /\ Moves(r, "running") /\ called'[r] = now /\ Drops
  /\ req[r].bypass \/ cache'[req[r].key] = None
Waits(r) ==
  /\ req[r].pc = "new" /\ Moves(r, "joined") /\ called'[r] = now /\ Drops
  /\ req'[r].on = pending[req[r].key] /\ pending[req[r].key] # None
Hits(r) ==
  /\ req[r].pc = "new" /\ ~req[r].bypass /\ Moves(r, "done")
  /\ called'[r] = now /\ ended'[r] = now /\ Drops
  /\ Unexpired(req[r].key) /\ rows'[r] = cache[req[r].key].readAt
Reads(r) ==
  /\ req[r].pc = "running" /\ Moves(r, "read") /\ called'[r] = called[r] /\ rows'[r] = now /\ cache' = cache
Ends(r) ==
  /\ Running(r) /\ now' = now /\ called' = called
  /\ \A q \in Requests :
       /\ req'[q].key = req[q].key /\ req'[q].bypass = req[q].bypass
       /\ IF q = r \/ Joined(q, r)
          THEN /\ req'[q].pc \in {"done", "failed", "threw"} /\ rows'[q] = rows[r] /\ ended'[q] = now
               /\ req'[q].pc = "done" => req[r].pc = "read" /\ req'[r].pc = "done"
          ELSE Keeps(q)
  /\ \/ cache' = cache
     \/ req[r].pc = "read" /\ req'[r].pc = "done" /\ ~req[r].bypass /\ DropsOrSets(r)

RowTyped == CallType /\ RowType

LEMMA PrunedDrops ==
  ASSUME RowTyped, cache' = Pruned
  PROVE  Drops /\ cache' \in [Keys -> Entries \cup {None}]
BY DEF RowTyped, RowType, Pruned, Drops

LEMMA SetCachedSets ==
  ASSUME RowTyped, NEW r \in Requests, SetCached(req[r].key, rows[r])
  PROVE  (cache' = cache \/ DropsOrSets(r)) /\ cache' \in [Keys -> Entries \cup {None}]
<1>1. CASE TTL <= 0
  BY <1>1 DEF SetCached, RowTyped, RowType
<1>2. CASE ~(TTL <= 0)
  <2>1. PICK keys : cache' = [j \in Keys |-> IF j \notin ToSet(keys) THEN None
                                ELSE IF j = req[r].key THEN [expiresAt |-> now + TTL, readAt |-> rows[r]]
                                ELSE cache[j]]
    BY <1>2 DEF SetCached
  <2>2. [expiresAt |-> now + TTL, readAt |-> rows[r]] \in Entries
    BY LiveSqlAssumption DEF RowTyped, RowType, Entries
  <2> HIDE DEF Entries
  <2> QED BY <2>1, <2>2 DEF RowTyped, RowType, DropsOrSets
<1> QED BY <1>1, <1>2

(* Every step of Next is one of these, and keeps the types. *)
LEMMA StartShape ==
  ASSUME RowTyped, NEW r \in Requests, Start(r), req[r].pc = "new", Drops,
         req[r].bypass \/ cache'[req[r].key] = None,
         called' = [called EXCEPT ![r] = now], UNCHANGED <<now, rows, ended>>
  PROVE  Starts(r)
BY DEF RowTyped, RowType, CallType, RequestRecords, Start, Starts, Moves, Keeps

LEMMA JoinShape ==
  ASSUME RowTyped, NEW r \in Requests, Join(r, pending[req[r].key]), req[r].pc = "new", Drops,
         pending[req[r].key] # None, called' = [called EXCEPT ![r] = now], UNCHANGED <<now, rows, ended>>
  PROVE  Waits(r)
<1>1. req \in [Requests -> RequestRecords] /\ called \in [Requests -> Nat]
  BY DEF RowTyped, RowType, CallType
<1>2. req' = [req EXCEPT ![r] = [req[r] EXCEPT !.pc = "joined", !.on = pending[req[r].key]]]
  BY DEF Join
<1>3. req'[r] = [req[r] EXCEPT !.pc = "joined", !.on = pending[req[r].key]]
  BY <1>1, <1>2
<1>4. \A q \in Requests \ {r} : req'[q] = req[q]
  BY <1>1, <1>2
<1>5. req[r] \in RequestRecords
  BY <1>1
<1>6. /\ req'[r].pc = "joined" /\ req'[r].on = pending[req[r].key]
      /\ req'[r].key = req[r].key /\ req'[r].bypass = req[r].bypass
  BY <1>3, <1>5 DEF RequestRecords
<1> QED BY <1>1, <1>4, <1>6 DEF Waits, Moves, Keeps

LEMMA HitShape ==
  ASSUME RowTyped, NEW r \in Requests, CallHit(r)
  PROVE  Hits(r) /\ RowType'
<1>1. Drops /\ cache' \in [Keys -> Entries \cup {None}]
  BY PrunedDrops DEF CallHit
<1>2. Hits(r)
  BY <1>1 DEF RowTyped, RowType, CallType, RequestRecords, CallHit, Hits, Moves, Keeps
<1>3. cache[req[r].key] \in Entries
  BY DEF CallHit, Unexpired, RowTyped, RowType, CallType, RequestRecords
<1>4. cache[req[r].key].readAt \in Nat
  BY <1>3 DEF Entries
<1>5. now' \in Nat /\ rows' \in [Requests -> Nat] /\ called' \in [Requests -> Nat] /\ ended' \in [Requests -> Nat]
  BY <1>4 DEF CallHit, RowTyped, RowType
<1> QED BY <1>1, <1>2, <1>5 DEF RowType

LEMMA ReadShape ==
  ASSUME RowTyped, NEW r \in Requests, DatabaseReads(r)
  PROVE  Reads(r) /\ RowType'
BY DEF RowTyped, RowType, CallType, RequestRecords, DatabaseReads, Reads, Moves, Keeps

LEMMA SettleShape ==
  ASSUME RowTyped, NEW r \in Requests, Running(r),
         NEW mine \in {"done", "failed"}, NEW theirs \in {"done", "threw"}, Settle(r, mine, theirs),
         mine = "done" \/ theirs = "done" => req[r].pc = "read" /\ mine = "done",
         UNCHANGED <<now, called>>, cache' \in [Keys -> Entries \cup {None}],
         \/ cache' = cache
         \/ req[r].pc = "read" /\ mine = "done" /\ ~req[r].bypass /\ DropsOrSets(r)
  PROVE  Ends(r) /\ RowType'
<1>1. req \in [Requests -> RequestRecords] /\ rows \in [Requests -> Nat] /\ ended \in [Requests -> Nat]
      /\ now \in Nat /\ called \in [Requests -> Nat]
  BY DEF RowTyped, RowType, CallType
<1>2. RowType'
  BY <1>1 DEF Settle, RowType
<1>3. ASSUME NEW q \in Requests
      PROVE  /\ req'[q].key = req[q].key /\ req'[q].bypass = req[q].bypass
             /\ q = r => req'[q].pc = mine
             /\ q # r /\ Joined(q, r) => req'[q].pc = theirs
             /\ ~(q = r \/ Joined(q, r)) => req'[q] = req[q]
  BY <1>1 DEF Settle, RequestRecords
<1>4. ASSUME NEW q \in Requests
      PROVE  /\ rows'[q] = IF Joined(q, r) THEN rows[r] ELSE rows[q]
             /\ ended'[q] = IF q = r \/ Joined(q, r) THEN now ELSE ended[q]
  BY DEF Settle
<1>5. Ends(r)
  <2>1. \A q \in Requests :
          IF q = r \/ Joined(q, r)
          THEN /\ req'[q].pc \in {"done", "failed", "threw"} /\ rows'[q] = rows[r] /\ ended'[q] = now
               /\ req'[q].pc = "done" => req[r].pc = "read" /\ req'[r].pc = "done"
          ELSE Keeps(q)
    BY <1>3, <1>4 DEF Keeps
  <2> QED BY <1>3, <2>1 DEF Ends
<1> QED BY <1>2, <1>5

LEMMA StepShape ==
  ASSUME RowTyped, [Next]_vars
  PROVE  /\ RowType'
         /\ \/ \E r \in Requests : Starts(r) \/ Waits(r) \/ Hits(r) \/ Reads(r) \/ Ends(r)
            \/ UNCHANGED <<cache, req, rows, called, ended>> /\ now' >= now
<1>0. now \in Nat /\ rows \in [Requests -> Nat] /\ called \in [Requests -> Nat] /\ ended \in [Requests -> Nat]
      /\ cache \in [Keys -> Entries \cup {None}]
  BY DEF RowTyped, RowType
<1>1. ASSUME NEW r \in Requests, CallBypassed(r) PROVE Starts(r) /\ RowType'
  <2>1. Drops
    BY <1>1 DEF CallBypassed, Drops
  <2> QED BY <1>0, <1>1, <2>1, StartShape DEF CallBypassed, RowType
<1>2. ASSUME NEW r \in Requests, CallMiss(r) PROVE (Starts(r) \/ Waits(r)) /\ RowType'
  <2>1. Drops /\ cache' \in [Keys -> Entries \cup {None}]
    BY <1>2, PrunedDrops DEF CallMiss
  <2>2. RowType'
    BY <1>0, <1>2, <2>1 DEF CallMiss, RowType
  <2>3. req[r].pc = "new" /\ called' = [called EXCEPT ![r] = now] /\ UNCHANGED <<now, rows, ended>>
    BY <1>2 DEF CallMiss
  <2>4. Start(r) \/ (pending[req[r].key] # None /\ Join(r, pending[req[r].key]))
    BY <1>2 DEF CallMiss
  <2>5. cache'[req[r].key] = None
    BY <1>2 DEF CallMiss, Pruned, RowTyped, CallType, RequestRecords
  <2> QED BY <2>1, <2>2, <2>3, <2>4, <2>5, StartShape, JoinShape
<1>3. ASSUME NEW r \in Requests, Replies(r) PROVE Ends(r) /\ RowType'
  <2>1. /\ cache' \in [Keys -> Entries \cup {None}]
        /\ cache' = cache \/ (~req[r].bypass /\ DropsOrSets(r))
    BY <1>0, <1>3, SetCachedSets DEF Replies
  <2> QED BY <1>3, <2>1, SettleShape DEF Replies, Running
<1>4. ASSUME NEW r \in Requests, Fails(r) PROVE Ends(r) /\ RowType'
  BY <1>0, <1>4, SettleShape DEF Fails, Running
<1>5. ASSUME Tick \/ Finished \/ UNCHANGED vars
      PROVE  RowType' /\ UNCHANGED <<cache, req, rows, called, ended>> /\ now' >= now
  BY <1>0, <1>5 DEF Tick, Finished, vars, RowType
<1> QED BY <1>1, <1>2, <1>3, <1>4, <1>5, HitShape, ReadShape DEF Next, Execution

Shape(r) == Starts(r) \/ Waits(r) \/ Hits(r) \/ Reads(r) \/ Ends(r)

(* An answer is final, and a call keeps its key. *)
LEMMA AnswersStay ==
  ASSUME NEW r \in Requests, Shape(r)
  PROVE  /\ \A q \in Requests : req[q].pc = "done" => Keeps(q)
         /\ \A q \in Requests : req'[q].key = req[q].key /\ req'[q].bypass = req[q].bypass
         /\ \A q \in Requests : req[q].pc # "new" => req'[q].pc # "new"
         /\ now' = now
BY DEF Shape, Starts, Waits, Hits, Reads, Ends, Moves, Keeps, Running, Joined

LEMMA InTimeStep ==
  ASSUME RowType, InTime, EntriesHaveSource, CallType, NEW r \in Requests, Shape(r)
  PROVE  InTime'
<1> SUFFICES ASSUME NEW x \in Requests
             PROVE  /\ called'[x] <= now'
                    /\ req'[x].pc = "read" => called'[x] <= rows'[x] /\ rows'[x] <= now'
                    /\ req'[x].pc = "done" => rows'[x] <= ended'[x] /\ ended'[x] <= now'
  BY DEF InTime
<1>0. now \in Nat /\ rows \in [Requests -> Nat] /\ called \in [Requests -> Nat] /\ ended \in [Requests -> Nat]
  BY DEF RowType
<1>1. now' = now
  BY AnswersStay
<1>2. CASE Keeps(x)
  BY <1>1, <1>2 DEF InTime, Keeps
<1>3. CASE x = r /\ (Starts(r) \/ Waits(r) \/ Reads(r))
  BY <1>0, <1>1, <1>3 DEF Starts, Waits, Reads, Moves, InTime
<1>4. CASE x = r /\ Hits(r)
  <2>1. req[r].key \in Keys
    BY DEF CallType, RequestRecords
  <2>2. PICK q \in Requests : Source(q, req[r].key, cache[req[r].key].readAt)
    BY <1>4, <2>1 DEF Hits, Unexpired, EntriesHaveSource
  <2>3. rows'[r] <= now
    BY <1>0, <1>4, <2>2 DEF Hits, Source, InTime
  <2> QED BY <1>0, <1>1, <1>4, <2>3 DEF Hits, Moves
<1>5. CASE (x = r \/ Joined(x, r)) /\ Ends(r)
  <2>1. /\ req'[x].pc \in {"done", "failed", "threw"} /\ rows'[x] = rows[r] /\ ended'[x] = now
        /\ req'[x].pc = "done" => req[r].pc = "read"
        /\ called'[x] = called[x]
    BY <1>5 DEF Ends
  <2> QED BY <1>0, <1>1, <2>1 DEF InTime
<1> QED BY <1>2, <1>3, <1>4, <1>5 DEF Shape, Starts, Waits, Hits, Reads, Ends, Moves

LEMMA JoinedStep ==
  ASSUME ExecInv, JoinedRuns, NEW r \in Requests, Shape(r)
  PROVE  JoinedRuns'
<1> SUFFICES ASSUME NEW x \in Requests, req'[x].pc = "joined"
             PROVE  /\ req'[x].on \in Requests /\ req'[req'[x].on].pc \in {"running", "read"}
                    /\ req'[req'[x].on].key = req'[x].key
  BY DEF JoinedRuns, Running
<1>1. \A q \in Requests : req'[q].key = req[q].key
  BY AnswersStay
<1>2. ASSUME NEW p \in Requests, Running(p), ~(p = r /\ Ends(r)) PROVE req'[p].pc \in {"running", "read"}
  BY <1>2 DEF Shape, Starts, Waits, Hits, Reads, Ends, Moves, Keeps, Running, Joined
<1>3. CASE req[x].pc = "joined" /\ req'[x] = req[x]
  <2>1. req[x].on \in Requests /\ Running(req[x].on) /\ req[req[x].on].key = req[x].key
    BY <1>3 DEF JoinedRuns
  <2>2. ~(req[x].on = r /\ Ends(r))
    BY <1>3 DEF Ends, Joined
  <2> QED BY <1>1, <1>2, <1>3, <2>1, <2>2
<1>4. CASE x = r /\ Waits(r)
  <2>1. req[r].key \in Keys /\ pending[req[r].key] \in Requests
    BY <1>4 DEF Waits, ExecInv, CallType, RequestRecords
  <2>2. Running(pending[req[r].key]) /\ req[pending[req[r].key]].key = req[r].key
    BY <1>4, <2>1 DEF Waits, ExecInv, PendingRuns
  <2>3. ~Ends(r)
    BY <1>4 DEF Waits, Ends, Running
  <2> QED BY <1>1, <1>2, <1>4, <2>1, <2>2, <2>3 DEF Waits
<1>5. \/ x = r /\ Waits(r)
      \/ req'[x] = req[x]
  BY DEF Shape, Starts, Waits, Hits, Reads, Ends, Moves, Keeps
<1> QED BY <1>3, <1>4, <1>5

LEMMA EntriesStep ==
  ASSUME CallType, RowType, InTime, EntriesHaveSource, NEW r \in Requests, Shape(r)
  PROVE  EntriesHaveSource'
<1> SUFFICES ASSUME NEW k \in Keys, cache'[k] # None
             PROVE  \E q \in Requests : /\ req'[q].pc = "done" /\ req'[q].key = k
                                        /\ called'[q] <= rows'[q] /\ rows'[q] = cache'[k].readAt
                                        /\ cache'[k].expiresAt = ended'[q] + TTL
  BY DEF EntriesHaveSource, Source
<1>1. CASE cache'[k] = cache[k]
  <2>1. PICK q \in Requests : Source(q, k, cache[k].readAt) /\ cache[k].expiresAt = ended[q] + TTL
    BY <1>1 DEF EntriesHaveSource
  <2>2. Keeps(q)
    BY <2>1, AnswersStay DEF Source
  <2> QED BY <1>1, <2>1, <2>2 DEF Source, Keeps
<1>2. CASE cache'[k] # cache[k]
  <2>1. /\ Ends(r) /\ req[r].pc = "read" /\ req'[r].pc = "done" /\ k = req[r].key
        /\ cache'[k] = [expiresAt |-> now + TTL, readAt |-> rows[r]]
    BY <1>2 DEF Shape, Starts, Waits, Hits, Reads, Ends, Drops, DropsOrSets
  <2>2. req'[r].key = req[r].key /\ rows'[r] = rows[r] /\ ended'[r] = now /\ called'[r] = called[r]
    BY <2>1 DEF Ends
  <2>3. called[r] <= rows[r]
    BY <2>1 DEF InTime
  <2>4. cache'[k].readAt = rows[r] /\ cache'[k].expiresAt = now + TTL
    BY <2>1
  <2> QED BY <2>1, <2>2, <2>3, <2>4
<1> QED BY <1>1, <1>2

LEMMA StalenessStep ==
  ASSUME CallType, RowType, InTime, JoinedRuns, EntriesHaveSource, StalenessBound,
         NEW r \in Requests, Shape(r)
  PROVE  StalenessBound'
<1> DEFINE Explains(q, x) ==
      /\ req'[q].pc = "done" /\ req'[q].key = req'[x].key
      /\ called'[q] <= rows'[q] /\ rows'[q] = rows'[x]
      /\ ended'[q] >= called'[x] \/ ended'[q] > called'[x] - TTL
<1> SUFFICES ASSUME NEW x \in Requests, req'[x].pc = "done", rows'[x] < called'[x]
             PROVE  \E q \in Requests : Explains(q, x)
  BY DEF StalenessBound
<1>0. /\ now \in Nat /\ rows \in [Requests -> Nat] /\ called \in [Requests -> Nat]
      /\ ended \in [Requests -> Nat] /\ TTL \in Nat
  BY LiveSqlAssumption DEF RowType
<1>1. CASE req[x].pc = "done"
  <2>1. Keeps(x)
    BY <1>1, AnswersStay
  <2>2. PICK q \in Requests :
          /\ req[q].pc = "done" /\ req[q].key = req[x].key
          /\ called[q] <= rows[q] /\ rows[q] = rows[x]
          /\ ended[q] >= called[x] \/ ended[q] > called[x] - TTL
    BY <1>1, <2>1 DEF StalenessBound, Keeps
  <2>3. Keeps(q)
    BY <2>2, AnswersStay
  <2>4. Explains(q, x)
    BY <2>1, <2>2, <2>3 DEF Keeps
  <2> QED BY <2>4
<1>2. CASE x = r /\ Hits(r)
  <2>1. req[r].key \in Keys
    BY DEF CallType, RequestRecords
  <2>2. PICK q \in Requests : Source(q, req[r].key, cache[req[r].key].readAt)
                              /\ cache[req[r].key].expiresAt = ended[q] + TTL
    BY <1>2, <2>1 DEF Hits, Unexpired, EntriesHaveSource
  <2>3. ended[q] > now - TTL
    BY <1>0, <1>2, <2>2 DEF Hits, Unexpired
  <2>4. Keeps(q) /\ req'[r].key = req[r].key
    BY <2>2, AnswersStay DEF Source
  <2>5. rows'[r] = cache[req[r].key].readAt /\ called'[r] = now
    BY <1>2 DEF Hits
  <2>6. Explains(q, x)
    BY <1>2, <2>2, <2>3, <2>4, <2>5 DEF Keeps, Source
  <2> QED BY <2>6
<1>3. CASE (x = r \/ Joined(x, r)) /\ Ends(r)
  <2>1. /\ rows'[x] = rows[r] /\ req[r].pc = "read" /\ req'[r].pc = "done"
        /\ called' = called /\ rows'[r] = rows[r] /\ ended'[r] = now
        /\ req'[x].key = req[x].key /\ req'[r].key = req[r].key
    BY <1>3 DEF Ends
  <2>2. req[x].key = req[r].key
    BY <1>3 DEF JoinedRuns, Joined
  <2>3. called[r] <= rows[r] /\ called[x] <= now
    BY <2>1 DEF InTime
  <2>4. Explains(r, x)
    BY <1>0, <2>1, <2>2, <2>3
  <2> QED BY <2>4
<1>4. req[x].pc = "done" \/ (x = r /\ Hits(r)) \/ ((x = r \/ Joined(x, r)) /\ Ends(r))
  BY DEF Shape, Starts, Waits, Hits, Reads, Ends, Moves, Keeps
<1> HIDE DEF Explains
<1> QED BY <1>1, <1>2, <1>3, <1>4

LEMMA InitRow == Init => RowInv
<1> SUFFICES ASSUME Init PROVE RowInv
  OBVIOUS
<1>1. \A r \in Requests : req[r].pc = "new"
  BY DEF Init
<1>2. RowType
  BY DEF Init, RowType
<1>3. InTime
  BY <1>1 DEF Init, InTime
<1>4. JoinedRuns /\ StalenessBound
  BY <1>1 DEF JoinedRuns, StalenessBound
<1>5. EntriesHaveSource
  BY DEF Init, EntriesHaveSource
<1> QED BY <1>2, <1>3, <1>4, <1>5 DEF RowInv

LEMMA StepRow == ExecInv /\ RowInv /\ [Next]_vars => RowInv'
<1> SUFFICES ASSUME ExecInv, RowInv, [Next]_vars PROVE RowInv'
  OBVIOUS
<1>0. RowTyped /\ CallType /\ RowType /\ InTime /\ JoinedRuns /\ EntriesHaveSource /\ StalenessBound
  BY DEF RowInv, ExecInv, RowTyped
<1>1. /\ RowType'
      /\ (\E r \in Requests : Shape(r)) \/ (UNCHANGED <<cache, req, rows, called, ended>> /\ now' >= now)
  BY <1>0, StepShape DEF Shape
<1>2. ASSUME NEW r \in Requests, Shape(r) PROVE RowInv'
  BY <1>0, <1>1, <1>2, InTimeStep, JoinedStep, EntriesStep, StalenessStep DEF RowInv
<1>3. ASSUME UNCHANGED <<cache, req, rows, called, ended>>, now' >= now PROVE RowInv'
  <2>1. InTime'
    BY <1>0, <1>1, <1>3 DEF InTime, RowType
  <2>2. JoinedRuns'
    BY <1>0, <1>3 DEF JoinedRuns, Running
  <2>3. EntriesHaveSource'
    BY <1>0, <1>3 DEF EntriesHaveSource, Source
  <2>4. StalenessBound'
    BY <1>0, <1>3 DEF StalenessBound
  <2> QED BY <1>1, <2>1, <2>2, <2>3, <2>4 DEF RowInv
<1> QED BY <1>1, <1>2, <1>3

(* Rows are at most the TTL plus one execution old, whichever of the       *)
(* cache, the execution in flight or the database answered.                *)
THEOREM StalenessBoundHolds == Spec => []StalenessBound
<1>1. RowInv => StalenessBound
  BY DEF RowInv
<1> QED BY <1>1, InitExec, StepExec, InitRow, StepRow, PTL DEF Spec

(* A key that nobody bypassed before the step was not bypassed before.     *)
LEMMA BypassStays ==
  ASSUME NEW r \in Requests, Shape(r), NEW k, ~Bypassed(k)'
  PROVE  ~Bypassed(k)
BY AnswersStay DEF Bypassed

(* A key nobody bypassed: its one execution, and those who joined it.      *)
LEMMA Alone ==
  ASSUME RegisteredExecution, NEW q \in Requests, NEW r \in Requests, Running(q), Running(r),
         req[q].key = req[r].key, ~Bypassed(req[r].key)
  PROVE  q = r
BY DEF RegisteredExecution

(* The calls a step answers, and what they are answered with.              *)
LEMMA NewAnswers ==
  ASSUME RowInv, NEW r \in Requests, Shape(r), NEW q \in Requests, req'[q].pc = "done"
  PROVE  \/ req[q].pc = "done" /\ Keeps(q)
         \/ /\ q = r /\ Hits(r) /\ rows'[q] = cache[req[q].key].readAt /\ ended'[q] = now
            /\ called'[q] = now
         \/ /\ Ends(r) /\ req[r].pc = "read" /\ req'[r].pc = "done" /\ req[q].key = req[r].key
            /\ rows'[q] = rows[r] /\ ended'[q] = now
<1>1. CASE req[q].pc = "done"
  BY <1>1, AnswersStay
<1>2. CASE req[q].pc # "done"
  <2>1. (q = r /\ Hits(r)) \/ (Ends(r) /\ (q = r \/ Joined(q, r)))
    BY <1>2 DEF Shape, Starts, Waits, Hits, Reads, Ends, Moves, Keeps
  <2>2. Joined(q, r) => req[q].key = req[r].key
    BY DEF RowInv, JoinedRuns, Joined
  <2> QED BY <2>1, <2>2 DEF Hits, Ends
<1> QED BY <1>1, <1>2

LEMMA RunsWithoutEntryStep ==
  ASSUME ExecInv, RowInv, OrderInv, NEW r \in Requests, Shape(r)
  PROVE  RunsWithoutEntry'
<1> SUFFICES ASSUME NEW x \in Requests, Running(x)', ~Bypassed(req[x].key)' PROVE cache'[req'[x].key] = None
  BY DEF RunsWithoutEntry
<1>1. req'[x].key = req[x].key /\ req'[x].bypass = req[x].bypass /\ req[x].key \in Keys
  BY AnswersStay DEF ExecInv, CallType, RequestRecords
<1>2. ~Bypassed(req[x].key)
  BY <1>1, BypassStays
<1>3. CASE Running(x)
  <2>1. cache[req[x].key] = None
    BY <1>2, <1>3 DEF OrderInv, RunsWithoutEntry
  <2>2. ~(Ends(r) /\ req[r].key = req[x].key)
    <3> SUFFICES ASSUME Ends(r), req[r].key = req[x].key PROVE FALSE
      OBVIOUS
    <3>1. x = r
      BY <1>2, <1>3, Alone DEF Ends, ExecInv
    <3> QED BY <3>1 DEF Ends, Running
  <2>3. cache'[req[x].key] \in {cache[req[x].key], None}
    BY <1>1, <2>2 DEF Shape, Starts, Waits, Hits, Reads, Ends, Drops, DropsOrSets
  <2> QED BY <1>1, <2>1, <2>3
<1>4. CASE ~Running(x)
  <2>1. x = r /\ Starts(r)
    BY <1>4 DEF Shape, Starts, Waits, Hits, Reads, Ends, Moves, Keeps, Running
  <2>2. ~req[r].bypass
    BY <1>1, <2>1 DEF Bypassed, Running
  <2> QED BY <1>1, <2>1, <2>2 DEF Starts
<1> QED BY <1>3, <1>4

LEMMA RunsAfterAnswersStep ==
  ASSUME ExecInv, RowInv, OrderInv, NEW r \in Requests, Shape(r)
  PROVE  RunsAfterAnswers'
<1> SUFFICES ASSUME NEW q \in Requests, NEW x \in Requests, Running(x)', ~Bypassed(req[x].key)',
                    req'[q].pc = "done", req'[q].key = req'[x].key
             PROVE  rows'[q] <= called'[x]
  BY DEF RunsAfterAnswers
<1>0. now \in Nat /\ rows \in [Requests -> Nat] /\ called \in [Requests -> Nat] /\ ended \in [Requests -> Nat]
  BY DEF RowInv, RowType
<1>1. /\ req'[x].key = req[x].key /\ req'[q].key = req[q].key /\ req[x].key \in Keys
      /\ ~Bypassed(req[x].key)
  BY AnswersStay, BypassStays DEF ExecInv, CallType, RequestRecords
<1>2. CASE Running(x)
  <2>1. called'[x] = called[x] /\ cache[req[x].key] = None
    BY <1>1, <1>2 DEF Shape, Starts, Waits, Hits, Reads, Ends, Moves, Keeps, Running,
                      OrderInv, RunsWithoutEntry
  <2>2. ~(q = r /\ Hits(r))
    BY <1>1, <2>1 DEF Hits, Unexpired
  <2>3. ~(Ends(r) /\ req[r].key = req[x].key)
    <3> SUFFICES ASSUME Ends(r), req[r].key = req[x].key PROVE FALSE
      OBVIOUS
    <3>1. x = r
      BY <1>1, <1>2, Alone DEF Ends, ExecInv
    <3> QED BY <3>1 DEF Ends, Running
  <2>4. req[q].pc = "done" /\ Keeps(q)
    BY <1>1, <2>2, <2>3, NewAnswers
  <2> QED BY <1>1, <1>2, <2>1, <2>4 DEF OrderInv, RunsAfterAnswers, Keeps
<1>3. CASE ~Running(x)
  <2>1. x = r /\ Starts(r)
    BY <1>3 DEF Shape, Starts, Waits, Hits, Reads, Ends, Moves, Keeps, Running
  <2>2. req[q].pc = "done" /\ Keeps(q)
    BY <2>1 DEF Starts, Moves, Keeps
  <2>3. rows[q] <= now
    BY <1>0, <2>2 DEF RowInv, InTime
  <2> QED BY <2>1, <2>2, <2>3 DEF Starts, Keeps
<1> QED BY <1>2, <1>3

LEMMA EntryIsYoungestStep ==
  ASSUME ExecInv, RowInv, OrderInv, NEW r \in Requests, Shape(r)
  PROVE  EntryIsYoungest'
<1> SUFFICES ASSUME NEW q \in Requests, req'[q].pc = "done", ~Bypassed(req[q].key)', cache'[req'[q].key] # None
             PROVE  rows'[q] <= cache'[req'[q].key].readAt
  BY DEF EntryIsYoungest
<1>0. now \in Nat /\ rows \in [Requests -> Nat] /\ called \in [Requests -> Nat] /\ ended \in [Requests -> Nat]
      /\ cache \in [Keys -> Entries \cup {None}]
  BY DEF RowInv, RowType
<1>1. req'[q].key = req[q].key /\ req[q].key \in Keys /\ ~Bypassed(req[q].key)
  BY AnswersStay, BypassStays DEF ExecInv, CallType, RequestRecords
<1>2. CASE cache'[req[q].key] = cache[req[q].key]
  <2>1. CASE req[q].pc = "done" /\ Keeps(q)
    BY <1>1, <1>2, <2>1 DEF OrderInv, EntryIsYoungest, Keeps
  <2>2. CASE q = r /\ rows'[q] = cache[req[q].key].readAt
    <3>1. cache[req[q].key] \in Entries
      BY <1>0, <1>1, <1>2
    <3>2. cache[req[q].key].readAt \in Nat
      BY <3>1 DEF Entries
    <3> QED BY <1>1, <1>2, <2>2, <3>2
  <2>3. ~(Ends(r) /\ req[q].key = req[r].key)
    BY <1>1, <1>2 DEF Ends, OrderInv, RunsWithoutEntry
  <2> QED BY <2>1, <2>2, <2>3, NewAnswers
<1>3. CASE cache'[req[q].key] # cache[req[q].key]
  <2>1. /\ Ends(r) /\ req[r].pc = "read" /\ req[q].key = req[r].key
        /\ cache'[req[q].key] = [expiresAt |-> now + TTL, readAt |-> rows[r]]
    BY <1>1, <1>3 DEF Shape, Starts, Waits, Hits, Reads, Ends, Drops, DropsOrSets
  <2>2. cache'[req'[q].key].readAt = rows[r]
    BY <1>1, <2>1
  <2>3. CASE req[q].pc = "done" /\ Keeps(q)
    <3>1. rows[q] <= called[r]
      BY <1>1, <2>1, <2>3 DEF OrderInv, RunsAfterAnswers, Ends
    <3>2. called[r] <= rows[r]
      BY <2>1 DEF RowInv, InTime
    <3> QED BY <1>0, <2>2, <2>3, <3>1, <3>2 DEF Keeps
  <2>4. CASE rows'[q] = rows[r]
    BY <1>0, <2>2, <2>4
  <2>5. ~Hits(r)
    BY <2>1 DEF Hits, Ends, Running
  <2> QED BY <2>3, <2>4, <2>5, NewAnswers
<1> QED BY <1>2, <1>3

LEMMA NeverGoBackStep ==
  ASSUME ExecInv, RowInv, RowType', OrderInv, NEW r \in Requests, Shape(r)
  PROVE  ReadsNeverGoBack'
<1> SUFFICES ASSUME NEW q \in Requests, NEW x \in Requests, req'[q].key = req'[x].key,
                    ~Bypassed(req[q].key)', req'[q].pc = "done", req'[x].pc = "done", ended'[q] < called'[x]
             PROVE  rows'[q] <= rows'[x]
  BY DEF ReadsNeverGoBack
<1>0. now \in Nat /\ rows \in [Requests -> Nat] /\ called \in [Requests -> Nat] /\ ended \in [Requests -> Nat]
      /\ now' = now
  BY AnswersStay DEF RowInv, RowType
<1>1. req[q].key = req[x].key /\ ~Bypassed(req[q].key)
  BY AnswersStay, BypassStays
<1>2. called'[x] <= now /\ called'[x] \in Nat
  BY <1>0, InTimeStep DEF RowInv, RowType, ExecInv, InTime
<1>3. req[q].pc = "done" /\ Keeps(q)
  BY <1>0, <1>2, NewAnswers
<1>4. CASE req[x].pc = "done" /\ Keeps(x)
  BY <1>1, <1>3, <1>4 DEF OrderInv, ReadsNeverGoBack, Keeps
<1>5. CASE x = r /\ Hits(r) /\ rows'[x] = cache[req[x].key].readAt
  BY <1>1, <1>3, <1>5 DEF OrderInv, EntryIsYoungest, Keeps, Hits, Unexpired
<1>6. CASE Ends(r) /\ req[r].pc = "read" /\ req[x].key = req[r].key /\ rows'[x] = rows[r]
  <2>1. rows[q] <= called[r]
    BY <1>1, <1>3, <1>6 DEF OrderInv, RunsAfterAnswers, Ends
  <2>2. called[r] <= rows[r]
    BY <1>6 DEF RowInv, InTime
  <2> QED BY <1>0, <1>3, <1>6, <2>1, <2>2 DEF Keeps
<1> QED BY <1>4, <1>5, <1>6, NewAnswers

LEMMA InitOrder == Init => OrderInv
<1> SUFFICES ASSUME Init PROVE OrderInv
  OBVIOUS
<1>1. \A r \in Requests : req[r].pc = "new"
  BY DEF Init
<1> QED BY <1>1 DEF OrderInv, RunsWithoutEntry, RunsAfterAnswers, EntryIsYoungest, ReadsNeverGoBack, Running

LEMMA StepOrder == ExecInv /\ RowInv /\ OrderInv /\ [Next]_vars => OrderInv'
<1> SUFFICES ASSUME ExecInv, RowInv, OrderInv, [Next]_vars PROVE OrderInv'
  OBVIOUS
<1>0. RowTyped
  BY DEF RowInv, ExecInv, RowTyped
<1>1. RowType'
  BY <1>0, StepShape
<1>2. ASSUME NEW r \in Requests, Shape(r) PROVE OrderInv'
  BY <1>1, <1>2, RunsWithoutEntryStep, RunsAfterAnswersStep, EntryIsYoungestStep, NeverGoBackStep DEF OrderInv
<1>3. ASSUME UNCHANGED <<cache, req, rows, called, ended>> PROVE OrderInv'
  BY <1>3 DEF OrderInv, RunsWithoutEntry, RunsAfterAnswers, EntryIsYoungest, ReadsNeverGoBack, Running, Bypassed
<1> QED BY <1>0, <1>2, <1>3, StepShape DEF Shape

(* Nobody who calls after an answer of its key is answered with older      *)
(* rows, as long as no request of the key bypasses the cache.              *)
THEOREM ReadsNeverGoBackHolds == Spec => []ReadsNeverGoBack
<1>1. OrderInv => ReadsNeverGoBack
  BY DEF OrderInv
<1> QED BY <1>1, InitExec, StepExec, InitRow, StepRow, InitOrder, StepOrder, PTL DEF Spec
=============================================================================
