------------------------------ MODULE VizData ------------------------------
(***************************************************************************)
(* loadVisualizationData, below the element renderers of a dashboard: a    *)
(* map of promises in memory over answers kept in IndexedDB over the       *)
(* chart-data endpoint.                                                    *)
(*                                                                         *)
(* The key of a load holds its cache policy, so every key has one TTL.     *)
(* Keys in Live are those of groups of elements that share their rows      *)
(* under the policy "live": their answers are shared for a moment and      *)
(* never persisted.  An element whose group got no rows asks again under   *)
(* a key of its own.                                                       *)
(*                                                                         *)
(* Transactions on the one object store take effect in the order they were *)
(* asked for.  A continuation runs in the step that settles its promise.   *)
(***************************************************************************)
EXTENDS Integers, Sequences, FiniteSets, SequencesExt

CONSTANTS
  Readers,    \* elements, which start over without waiting for what they asked before
  Cached,     \* keys under a policy with a TTL
  Live,       \* keys of shared groups under the policy "live"
  Ttl,        \* [Cached \cup Live -> Nat]: CACHE_POLICY_TTL_MS, SHARED_LIVE_REQUEST_COALESCE_MS
  MaxEntries, \* MAX_CACHE_ENTRIES
  MaxAge,     \* MAX_AGE_MS of the persisted answers
  Timeout,    \* VISUALIZATION_DATA_REQUEST_TIMEOUT_MS
  MaxLoads,   \* bound: loads ever started
  MaxTime,    \* bound on the clock
  MaxResets,  \* bound: how often the caches are cleared or the page is loaded again
  Missing

Keys == Cached \cup Live
Loads == 1 .. MaxLoads

ASSUME VizDataAssumption ==
  /\ IsFiniteSet(Cached) /\ Cached \cap Live = {} /\ Missing \notin Keys /\ Missing \notin Nat
  /\ Ttl \in [Keys -> Nat \ {0}] /\ \A k \in Cached : Ttl[k] <= MaxAge
  /\ {MaxEntries, MaxAge, Timeout, MaxLoads, MaxTime, MaxResets} \subseteq Nat /\ MaxEntries > 0

VARIABLES
  now,
  mem,      \* visualizationDataCache: per key the load whose promise it holds
  load,     \* promises, numbered in the order their loads start
  started,  \* how many loads were started
  disk,     \* the object store sqlResults
  queue,    \* its transactions not yet done
  resets,   \* how often the caches were cleared or the page was loaded again
  db,       \* dbPromise: "opening", "open", or "none" when it resolved to null
  reader,   \* the load each reader was given
  detached, \* history: loads whose key something other than time took from mem
  gone      \* history: loads done when the caches were last cleared

vizVars == <<now, mem, load, started, disk, queue, resets, db, reader, detached, gone>>

\* sent: when its request was; expires: when its entry in the map is over,
\* Missing for a load that is not in the map.
Load(pc, k, expires) == [pc |-> pc, key |-> k, expires |-> expires, sent |-> now]

\* at: when the source read the rows; from: the load that requested them.
DoneLoad(l, at, from) ==
  [pc |-> "done", key |-> load[l].key, expires |-> load[l].expires, at |-> at, from |-> from]

Transaction(op, k, l) == [op |-> op, key |-> k, load |-> l]
Sweep == Transaction("sweep", Missing, Missing)

VizInit ==
  /\ now = 0
  /\ mem = [k \in Keys |-> Missing]
  /\ load = [l \in Loads |-> [pc |-> "free"]]
  /\ started = 0
  /\ disk = [k \in Cached |-> Missing]
  /\ queue = <<Sweep>>
  /\ resets = 0
  /\ db = "opening"
  /\ reader = [r \in Readers |-> Missing]
  /\ detached = {}
  /\ gone = {}

Unsettled == {l \in Loads : load[l].pc \in {"reading", "deleting", "sent"}}
Done == {l \in Loads : load[l].pc = "done"}

-----------------------------------------------------------------------------
(* Loads. *)

(* Mutant: an entry is over a moment too early. *)
Current_Mutant(m) == {k \in Keys : m[k] \in 1 .. started /\ now + 1 < load[m[k]].expires}

Current(m) == {k \in Keys : m[k] \in 1 .. started /\ now < load[m[k]].expires}

Join(r, k) ==
  /\ k \in Current(mem)
  /\ reader' = [reader EXCEPT ![r] = mem[k]]
  /\ UNCHANGED <<now, mem, load, started, disk, queue, resets, db, detached, gone>>

Begin(r, l) ==
  /\ started < MaxLoads /\ l = started + 1
  /\ started' = l
  /\ reader' = [reader EXCEPT ![r] = l]

(* pruneVisualizationDataCache, with l the newest entry of m: entries past *)
(* their time go, then the oldest.                                         *)
Pruned(m, l) ==
  LET current == {k \in Keys : m[k] = l} \cup Current(m)
      kept == {k \in current : Cardinality({j \in current : m[j] > m[k]}) < MaxEntries}
  IN  [k \in Keys |-> IF k \in kept THEN m[k] ELSE Missing]

(* A shared load is in the map before anything is awaited. *)
Start(r, k) ==
  \E l \in Loads :
    /\ k \notin Current(mem)
    /\ Begin(r, l)
    /\ mem' = Pruned([mem EXCEPT ![k] = l], l)
    /\ detached' = detached \cup ({mem[j] : j \in {i \in Current(mem) : mem'[i] = Missing}} \cap Unsettled)
    /\ load' = [load EXCEPT ![l] =
                  Load(IF k \in Cached THEN "reading" ELSE "sent", k, now + Ttl[k])]
    /\ queue' = IF k \in Cached THEN Append(queue, Transaction("get", k, l)) ELSE queue
    /\ UNCHANGED <<now, disk, db, gone, resets>>

(* A refresh and an element under "live" go past both caches. *)
StartDirect(r, k) ==
  \E l \in Loads :
    /\ Begin(r, l)
    /\ load' = [load EXCEPT ![l] = Load("sent", k, Missing)]
    /\ UNCHANGED <<now, mem, disk, queue, resets, db, detached, gone>>

(* The handler of a failed load deletes whatever its key holds by then.    *)
Fail(l) ==
  LET k == load[l].key IN
  /\ load' = [load EXCEPT ![l] = [pc |-> "failed", key |-> k]]
  /\ IF load[l].expires = Missing
     THEN UNCHANGED <<mem, detached>>
     ELSE /\ mem' = [mem EXCEPT ![k] = Missing]
          /\ detached' = detached \cup ({mem[k]} \cap (Unsettled \ {l}))

(* requestAndPersistVisualizationData: the source read the rows some time  *)
(* while the request was under way; they are persisted without waiting.    *)
Answer(l) ==
  /\ load[l].pc = "sent"
  /\ \E t \in load[l].sent .. now :
       /\ load' = [load EXCEPT ![l] = DoneLoad(l, t, l)]
       /\ queue' = IF load[l].expires # Missing /\ load[l].key \in Cached
                   THEN Append(queue, [op |-> "put", key |-> load[l].key, load |-> Missing,
                                       entry |-> [at |-> t, stamp |-> now, from |-> l]])
                   ELSE queue
  /\ UNCHANGED <<now, mem, started, disk, db, reader, detached, gone, resets>>

(* An error, an unreadable body, or the timeout, which nothing outlives.   *)
RequestFails(l) ==
  /\ load[l].pc = "sent"
  /\ Fail(l)
  /\ UNCHANGED <<now, started, disk, queue, resets, db, reader, gone>>

-----------------------------------------------------------------------------
(* IndexedDB. *)

(* The promise of the connection is kept whichever way it turns out.       *)
Open ==
  /\ db = "opening"
  /\ db' \in {"open", "none"}
  /\ UNCHANGED <<now, mem, load, started, disk, queue, reader, detached, gone, resets>>

Ready(op) == db # "opening" /\ queue # <<>> /\ Head(queue).op = op

Send(l) == [load EXCEPT ![l].pc = "sent", ![l].sent = now]

Expired(e, age) == now - e.stamp > age

(* Mutant: an answer found is used however old it is. *)
Get_Mutant ==
  LET l == Head(queue).load
      e == IF db = "open" THEN disk[Head(queue).key] ELSE Missing IN
  /\ Ready("get")
  /\ \/ /\ e = Missing
        /\ load' = Send(l)
     \/ /\ e # Missing
        /\ load' = [load EXCEPT ![l] = DoneLoad(l, e.at, e.from)]
  /\ queue' = Tail(queue)
  /\ UNCHANGED <<now, mem, started, disk, db, reader, detached, gone, resets>>

(* An answer past its time is deleted before the request is sent.          *)
Get ==
  LET k == Head(queue).key
      l == Head(queue).load
      e == IF db = "open" THEN disk[k] ELSE Missing IN
  /\ Ready("get")
  /\ \/ /\ e = Missing
        /\ load' = Send(l)
        /\ queue' = Tail(queue)
     \/ /\ e # Missing /\ ~Expired(e, Ttl[k])
        /\ load' = [load EXCEPT ![l] = DoneLoad(l, e.at, e.from)]
        /\ queue' = Tail(queue)
     \/ /\ e # Missing /\ Expired(e, Ttl[k])
        /\ load' = [load EXCEPT ![l].pc = "deleting"]
        /\ queue' = Append(Tail(queue), Transaction("delete", k, l))
  /\ UNCHANGED <<now, mem, started, disk, db, reader, detached, gone, resets>>

Put ==
  /\ Ready("put")
  /\ disk' = IF db = "open" THEN [disk EXCEPT ![Head(queue).key] = Head(queue).entry] ELSE disk
  /\ queue' = Tail(queue)
  /\ UNCHANGED <<now, mem, load, started, db, reader, detached, gone, resets>>

Delete ==
  LET l == Head(queue).load IN
  /\ Ready("delete")
  /\ disk' = IF db = "open" THEN [disk EXCEPT ![Head(queue).key] = Missing] ELSE disk
  /\ load' = IF l = Missing THEN load ELSE Send(l)
  /\ queue' = Tail(queue)
  /\ UNCHANGED <<now, mem, started, db, reader, detached, gone, resets>>

(* clearExpired, when the page starts: read everything, then delete.       *)
SweepExpired ==
  LET old == {k \in Cached : disk[k] # Missing /\ Expired(disk[k], MaxAge)} IN
  /\ Ready("sweep")
  /\ queue' = IF db = "open"
              THEN Tail(queue) \o SetToSeq({Transaction("delete", k, Missing) : k \in old})
              ELSE Tail(queue)
  /\ UNCHANGED <<now, mem, load, started, disk, db, reader, detached, gone, resets>>

(* Nothing was persisted that a page without a database could find, but    *)
(* the next one may.                                                       *)
ClearDisk ==
  /\ Ready("clear")
  /\ disk' = IF db = "open" THEN [k \in Cached |-> Missing] ELSE disk
  /\ gone' = IF db = "open" THEN gone ELSE {}
  /\ queue' = Tail(queue)
  /\ UNCHANGED <<now, mem, load, started, db, reader, detached, resets>>

(* A transaction fails or aborts: a load that awaits it fails with it, a   *)
(* write nobody awaits is forgotten.                                       *)
TransactionFails ==
  LET l == Head(queue).load IN
  /\ db = "open" /\ queue # <<>>
  /\ IF l = Missing THEN UNCHANGED <<load, mem, detached>> ELSE Fail(l)
  /\ gone' = IF Head(queue).op = "clear" THEN {} ELSE gone
  /\ queue' = Tail(queue)
  /\ UNCHANGED <<now, started, disk, db, reader, resets>>

-----------------------------------------------------------------------------
(* The page. *)

Reset == resets < MaxResets /\ resets' = resets + 1

(* Mutant: only the map is cleared. *)
Clear_Mutant ==
  /\ Reset
  /\ mem' = [k \in Keys |-> Missing]
  /\ detached' = detached \cup ({mem[k] : k \in Current(mem)} \cap Unsettled)
  /\ gone' = Done
  /\ UNCHANGED <<now, load, started, disk, queue, db, reader>>

(* clearVisualizationDataCache, when the token of an embed has expired.    *)
Clear ==
  /\ Reset
  /\ mem' = [k \in Keys |-> Missing]
  /\ detached' = detached \cup ({mem[k] : k \in Current(mem)} \cap Unsettled)
  /\ gone' = Done
  /\ queue' = Append(queue, Transaction("clear", Missing, Missing))
  /\ UNCHANGED <<now, load, started, disk, db, reader>>

(* The page is loaded again: what is not on disk is lost.                  *)
Reload ==
  /\ Reset
  /\ mem' = [k \in Keys |-> Missing]
  /\ load' = [l \in Loads |-> [pc |-> "free"]]
  /\ queue' = <<Sweep>>
  /\ db' = "opening"
  /\ reader' = [r \in Readers |-> Missing]
  /\ gone' = IF \E i \in DOMAIN queue : queue[i].op = "clear" THEN {} ELSE gone
  /\ UNCHANGED <<now, started, disk, detached>>

(* The timer of a request goes off in time.                                *)
Tick ==
  /\ now < MaxTime
  /\ \A l \in Loads : load[l].pc = "sent" => now < load[l].sent + Timeout
  /\ now' = now + 1
  /\ UNCHANGED <<mem, load, started, disk, queue, resets, db, reader, detached, gone>>

(* Nothing has to happen to a page that waits for nothing.                 *)
Rest ==
  /\ Unsettled = {} /\ queue = <<>> /\ db # "opening"
  /\ UNCHANGED vizVars

Storage == Get \/ Put \/ Delete \/ SweepExpired \/ ClearDisk \/ TransactionFails

VizNext ==
  \/ \E r \in Readers : \/ \E k \in Keys : Join(r, k) \/ Start(r, k)
                        \/ \E k \in Cached : StartDirect(r, k)
  \/ \E l \in Loads : Answer(l) \/ RequestFails(l)
  \/ Open \/ Storage
  \/ Clear \/ Reload \/ Tick \/ Rest

VizSpec == VizInit /\ [][VizNext]_vizVars

-----------------------------------------------------------------------------
(* Properties. *)

ReadOf(r) ==
  IF reader[r] = Missing THEN [pc |-> "idle"]
  ELSE LET l == load[reader[r]] IN
         CASE l.pc = "done" -> [pc |-> "answered", key |-> l.key, at |-> l.at]
           [] l.pc = "failed" -> [pc |-> "failed", key |-> l.key]
           [] OTHER -> [pc |-> "waiting", key |-> l.key]

Promised(k) == (IF k \in Cached THEN 2 * Ttl[k] ELSE Ttl[k]) + Timeout

Reads == INSTANCE BoundedReads WITH
  read <- [r \in Readers |-> ReadOf(r)],
  Bound <- [k \in Keys |-> Promised(k)]

(* An element is never given rows the source read longer ago than twice    *)
(* the TTL of its policy and the time a request may take: an answer is     *)
(* persisted for a TTL, and found in time is kept in memory for another.   *)
StalenessIsBounded == Reads!Spec

(* Elements that ask for one key share one load: a second one only starts  *)
(* while the first is under way when the time of the first is over, or the *)
(* map lost it because it was cleared, was full, or another load failed.   *)
LoadsAreShared ==
  \A l, m \in Unsettled :
    l < m /\ Missing \notin {load[l].expires, load[m].expires} /\ load[l].key = load[m].key
    /\ l \notin detached => load[l].expires <= now

(* Once the caches were cleared, nothing that was known before is given to *)
(* an element that asks, unless the browser refused to clear its database. *)
ClearForgets ==
  \A k \in Keys : mem[k] # Missing =>
    LET l == load[mem[k]] IN l.pc = "done" => l.from \notin gone

(* "IndexedDB is an optional acceleration layer.  Rendering should         *)
(* continue if browser storage rejects a value": an element is only given  *)
(* an error by a request of its load.                                      *)
StorageIsOptional ==
  [][TransactionFails => \A l \in Loads : load'[l].pc = "failed" => load[l].pc = "failed"]_vizVars
=============================================================================
