---------------------------- MODULE VizDataProofs ----------------------------
(***************************************************************************)
(* VizData implements BoundedReads: for any elements, keys, TTLs and any   *)
(* number of loads, whatever is cleared, fails or is loaded again, no      *)
(* element is given rows older than promised.                              *)
(*                                                                         *)
(* An answer ages in three places: between the source's read and the       *)
(* moment it is persisted, on disk, and in the map.  The invariant bounds  *)
(* each of them, and says which load every queued transaction is for: no   *)
(* two transactions have the same load, so each finds it still waiting.    *)
(***************************************************************************)
EXTENDS VizData, FiniteSetTheorems, SequenceTheorems, TLAPS

Pending == {"reading", "deleting", "sent"}
Times == Nat \cup {Missing}

LoadRecords ==
  [pc : {"free"}] \cup [pc : Pending, key : Keys, expires : Times, sent : Nat]
    \cup [pc : {"done"}, key : Keys, expires : Times, at : Nat, from : Loads]
    \cup [pc : {"failed"}, key : Keys]
Entries == [at : Nat, stamp : Nat, from : Loads]
Transactions ==
  [op : {"sweep", "clear"}, key : {Missing}, load : {Missing}]
    \cup [op : {"get"}, key : Cached, load : Loads]
    \cup [op : {"delete"}, key : Cached, load : Loads \cup {Missing}]
    \cup [op : {"put"}, key : Cached, load : {Missing}, entry : Entries]

VizType ==
  /\ now \in Nat /\ started \in 0..MaxLoads
  /\ mem \in [Keys -> Loads \cup {Missing}]
  /\ load \in [Loads -> LoadRecords]
  /\ disk \in [Cached -> Entries \cup {Missing}]
  /\ queue \in Seq(Transactions)
  /\ reader \in [Readers -> Loads \cup {Missing}]

(* Who refers to a load: readers and the map to one that was started; what *)
(* the map holds has not failed and is over at some time.                  *)
Referred ==
  /\ \A l \in Loads : load[l].pc # "free" => l <= started
  /\ \A r \in Readers : reader[r] # Missing => load[reader[r]].pc # "free"
  /\ \A k \in Keys : mem[k] # Missing =>
       /\ load[mem[k]].pc \in Pending \cup {"done"}
       /\ load[mem[k]].key = k /\ load[mem[k]].expires \in Nat

(* Where an answer ages. *)
AgeOfLoads ==
  \A l \in Loads :
    /\ load[l].pc \in Pending =>
         /\ load[l].sent <= now
         /\ load[l].expires # Missing => load[l].expires <= load[l].sent + Ttl[load[l].key]
    /\ load[l].pc = "sent" => now <= load[l].sent + Timeout
    /\ load[l].pc = "done" =>
         /\ load[l].at <= now
         /\ load[l].expires # Missing => load[l].expires <= load[l].at + Promised(load[l].key)

Fresh(e) == e.at <= e.stamp /\ e.stamp <= e.at + Timeout /\ e.stamp <= now

AgeOfEntries ==
  /\ \A k \in Cached : disk[k] # Missing => Fresh(disk[k])
  /\ \A i \in DOMAIN queue : queue[i].op = "put" => Fresh(queue[i].entry)

(* A transaction that a load awaits finds it waiting. *)
Awaits(t) ==
  /\ load[t.load].pc = (IF t.op = "get" THEN "reading" ELSE "deleting")
  /\ load[t.load].key = t.key /\ load[t.load].expires # Missing

Awaited ==
  \A i \in DOMAIN queue : queue[i].load # Missing =>
    /\ Awaits(queue[i])
    /\ \A j \in DOMAIN queue : queue[j].load = queue[i].load => j = i

VizInv == VizType /\ Referred /\ AgeOfLoads /\ AgeOfEntries /\ Awaited

-----------------------------------------------------------------------------
(* What the assumptions say of the constants, and of what is promised.     *)
LEMMA ConstantFacts ==
  /\ Missing \notin Nat /\ Missing \notin Keys /\ Timeout \in Nat
  /\ \A k \in Keys : Ttl[k] \in Nat /\ Ttl[k] > 0
  /\ \A k \in Keys : Promised(k) \in Nat /\ Promised(k) >= Ttl[k] + Timeout
  /\ \A k \in Cached : k \in Keys /\ Promised(k) = 2 * Ttl[k] + Timeout
<1>1. Missing \notin Nat /\ Missing \notin Keys /\ Timeout \in Nat
  BY VizDataAssumption
<1>2. \A k \in Keys : Ttl[k] \in Nat /\ Ttl[k] > 0
  BY VizDataAssumption
<1>3. \A k \in Keys : Promised(k) \in Nat /\ Promised(k) >= Ttl[k] + Timeout
  BY <1>1, <1>2 DEF Promised
<1>4. \A k \in Cached : k \in Keys /\ Promised(k) = 2 * Ttl[k] + Timeout
  BY DEF Keys, Promised
<1> QED BY <1>1, <1>2, <1>3, <1>4

(* The fields of a load, by where it is.                                   *)
LEMMA LoadFields ==
  ASSUME VizType, NEW l \in Loads
  PROVE  /\ load[l].pc \in Pending \cup {"free", "done", "failed"}
         /\ load[l].pc # "free" => load[l].key \in Keys
         /\ load[l].pc \in Pending \cup {"done"} => load[l].expires \in Times
         /\ load[l].pc \in Pending =>
              load[l] \in [pc : Pending, key : Keys, expires : Times, sent : Nat]
         /\ load[l].pc = "done" =>
              load[l] \in [pc : {"done"}, key : Keys, expires : Times, at : Nat, from : Loads]
<1>1. load[l] \in LoadRecords
  BY DEF VizType
<1> QED BY <1>1 DEF LoadRecords, Pending

LEMMA InitViz == VizInit => VizInv
<1> SUFFICES ASSUME VizInit PROVE VizInv
  OBVIOUS
<1>1. queue = <<Sweep>> /\ Sweep \in Transactions /\ Sweep.load = Missing /\ Sweep.op = "sweep"
  BY DEF VizInit, Sweep, Transaction, Transactions
<1>2. VizType
  BY <1>1, VizDataAssumption DEF VizInit, VizType, LoadRecords
<1>3. Referred /\ AgeOfLoads
  BY DEF VizInit, Referred, AgeOfLoads, Pending
<1>4. AgeOfEntries /\ Awaited
  BY <1>1 DEF VizInit, AgeOfEntries, Awaited
<1> QED BY <1>2, <1>3, <1>4 DEF VizInv

(* A load that was waiting becomes x.                                      *)
LEMMA LoadChanges ==
  ASSUME VizInv, NEW l \in Loads, load[l].pc \in Pending,
         NEW x \in LoadRecords, x.pc # "free", x.key = load[l].key,
         x.pc \in Pending => /\ x.sent <= now
                             /\ x.expires # Missing => x.expires <= x.sent + Ttl[x.key],
         x.pc = "sent" => now <= x.sent + Timeout,
         x.pc = "done" => /\ x.at <= now
                          /\ x.expires # Missing => x.expires <= x.at + Promised(x.key),
         x.pc # "failed" => x.expires = load[l].expires /\ mem' = mem,
         x.pc = "failed" => \A k \in Keys : mem'[k] = Missing \/ (mem'[k] = mem[k] /\ mem[k] # l),
         mem' \in [Keys -> Loads \cup {Missing}],
         load' = [load EXCEPT ![l] = x], UNCHANGED <<now, started, reader>>
  PROVE  /\ load' \in [Loads -> LoadRecords]
         /\ Referred' /\ AgeOfLoads'
<1>1. load' \in [Loads -> LoadRecords]
  BY DEF VizInv, VizType
<1>2. load'[l] = x /\ \A m \in Loads \ {l} : load'[m] = load[m]
  BY DEF VizInv, VizType
<1>3. AgeOfLoads'
  BY <1>2 DEF VizInv, AgeOfLoads
<1>4. x.pc \in Pending \cup {"done", "failed"}
  BY DEF LoadRecords
<1>5. \A r \in Readers : reader[r] \in Loads \cup {Missing}
  BY DEF VizInv, VizType
<1>6. \A k \in Keys : mem[k] \in Loads \cup {Missing}
  BY DEF VizInv, VizType
<1>7. Referred'
  <2>1. \A m \in Loads : load'[m].pc # "free" => m <= started
    BY <1>2 DEF VizInv, Referred, Pending
  <2>2. \A r \in Readers : reader[r] # Missing => load'[reader[r]].pc # "free"
    BY <1>2, <1>5 DEF VizInv, Referred
  <2>3. ASSUME NEW k \in Keys, mem'[k] # Missing
        PROVE  load'[mem'[k]].pc \in Pending \cup {"done"} /\ load'[mem'[k]].key = k /\ load'[mem'[k]].expires \in Nat
    <3>1. mem'[k] = mem[k] /\ (mem[k] = l => x.pc # "failed") /\ mem[k] \in Loads
      BY <2>3, <1>6
    <3>2. load[mem[k]].pc \in Pending \cup {"done"} /\ load[mem[k]].key = k /\ load[mem[k]].expires \in Nat
      BY <2>3, <3>1 DEF VizInv, Referred
    <3> QED BY <1>2, <1>4, <3>1, <3>2
  <2> QED BY <2>1, <2>2, <2>3 DEF Referred
<1> QED BY <1>1, <1>3, <1>7

(* The queue loses its first d transactions and takes others at its end.   *)
LEMMA QueueMoves ==
  ASSUME VizInv, NEW d \in {0, 1}, NEW n \in Nat, n + d = Len(queue),
         queue' \in Seq(Transactions), n <= Len(queue'),
         \A i \in 1..n : queue'[i] = queue[i + d],
         \A i \in (n + 1)..Len(queue') :
           /\ queue'[i].op = "put" => Fresh(queue'[i].entry)
           /\ queue'[i].load # Missing =>
                /\ Len(queue') = n + 1 /\ Awaits(queue[i])'
                /\ \A j \in 1..n : queue'[j].load # queue'[i].load,
         \A i \in 1..n : queue'[i].load # Missing => load'[queue'[i].load] = load[queue'[i].load],
         now' = now
  PROVE  /\ \A i \in DOMAIN queue' : queue'[i].op = "put" => Fresh(queue[i].entry)'
         /\ Awaited'
<1>1. DOMAIN queue = 1..(n + d) /\ d \in Nat
  BY DEF VizInv, VizType
<1>2. \A i \in 1..n : i + d \in DOMAIN queue
  <2> SUFFICES ASSUME NEW i \in 1..n PROVE i + d \in 1..(n + d)
    BY <1>1
  <2> QED BY <1>1
<1>0. \A i \in DOMAIN queue' : i \in 1..n \/ i \in (n + 1)..Len(queue')
  <2>1. Len(queue') \in Nat /\ DOMAIN queue' = 1..Len(queue')
    OBVIOUS
  <2> SUFFICES ASSUME NEW i \in 1..Len(queue') PROVE i \in 1..n \/ i \in (n + 1)..Len(queue')
    BY <2>1
  <2> QED BY <2>1
<1>3. ASSUME NEW i \in DOMAIN queue', queue'[i].op = "put" PROVE Fresh(queue[i].entry)'
  <2>1. CASE i \in 1..n
    BY <1>2, <1>3, <2>1 DEF VizInv, AgeOfEntries, Fresh
  <2>2. CASE i \in (n + 1)..Len(queue')
    BY <1>3, <2>2 DEF Fresh
  <2> QED BY <1>0, <2>1, <2>2
<1>4. ASSUME NEW i \in DOMAIN queue', queue'[i].load # Missing
      PROVE  /\ Awaits(queue[i])'
             /\ \A j \in DOMAIN queue' : queue'[j].load = queue'[i].load => j = i
  <2>1. CASE i \in 1..n
    <3>1. Awaits(queue[i + d]) /\ \A j \in DOMAIN queue : queue[j].load = queue[i + d].load => j = i + d
      BY <1>2, <1>4, <2>1 DEF VizInv, Awaited
    <3>2. Awaits(queue[i])'
      BY <1>4, <2>1, <3>1 DEF Awaits
    <3>3. ASSUME NEW j \in DOMAIN queue', queue'[j].load = queue'[i].load PROVE j = i
      <4>1. j \in 1..n
        BY <1>0, <1>4, <2>1, <3>3
      <4> QED BY <1>2, <2>1, <3>1, <3>3, <4>1
    <3> QED BY <3>2, <3>3
  <2>2. CASE i \notin 1..n
    <3>1. i \in (n + 1)..Len(queue')
      BY <1>0, <2>2
    <3>2. Len(queue') = n + 1 /\ i = n + 1
      BY <1>4, <3>1
    <3> QED BY <1>0, <1>4, <3>1, <3>2
  <2> QED BY <2>1, <2>2
<1> QED BY <1>3, <1>4 DEF Awaited

(* The same when the first transaction is done, and when one is asked for. *)
LEMMA QueuePops ==
  ASSUME VizInv, queue # <<>>, queue' = Tail(queue),
         \A i \in DOMAIN queue : i # 1 /\ queue[i].load # Missing => load'[queue[i].load] = load[queue[i].load],
         now' = now
  PROVE  /\ queue' \in Seq(Transactions)
         /\ \A i \in DOMAIN queue' : queue'[i].op = "put" => Fresh(queue[i].entry)'
         /\ Awaited'
<1> DEFINE n == Len(queue) - 1
<1>1. queue \in Seq(Transactions)
  BY DEF VizInv, VizType
<1>2. n \in Nat /\ n + 1 = Len(queue) /\ Len(queue') = n /\ queue' \in Seq(Transactions)
  BY <1>1
<1>3. \A i \in 1..n : queue'[i] = queue[i + 1] /\ i + 1 \in DOMAIN queue /\ i + 1 # 1
  BY <1>1
<1> HIDE DEF n
<1> QED BY <1>2, <1>3, QueueMoves

LEMMA QueueAppends ==
  ASSUME VizInv, NEW t \in Transactions, queue' = Append(queue, t),
         t.op = "put" => Fresh(t.entry),
         t.load # Missing => Awaits(t)' /\ \A i \in DOMAIN queue : queue[i].load # t.load,
         \A i \in DOMAIN queue : queue[i].load # Missing => load'[queue[i].load] = load[queue[i].load],
         now' = now
  PROVE  /\ queue' \in Seq(Transactions)
         /\ \A i \in DOMAIN queue' : queue'[i].op = "put" => Fresh(queue[i].entry)'
         /\ Awaited'
<1> DEFINE n == Len(queue)
<1>1. queue \in Seq(Transactions)
  BY DEF VizInv, VizType
<1>2. n \in Nat /\ n + 0 = Len(queue) /\ Len(queue') = n + 1 /\ queue' \in Seq(Transactions)
  BY <1>1
<1>3. \A i \in 1..n : queue'[i] = queue[i + 0] /\ i \in DOMAIN queue
  BY <1>1
<1>4. queue'[n + 1] = t
  BY <1>1
<1> HIDE DEF n
<1>5. \A i \in (n + 1)..Len(queue') : queue'[i] = t
  BY <1>2, <1>4
<1> QED BY <1>2, <1>3, <1>5, QueueMoves

LEMMA QueueStays ==
  ASSUME VizInv, queue' = queue, now' = now,
         \A i \in DOMAIN queue : queue[i].load # Missing => load'[queue[i].load] = load[queue[i].load]
  PROVE  /\ queue' \in Seq(Transactions)
         /\ \A i \in DOMAIN queue' : queue'[i].op = "put" => Fresh(queue[i].entry)'
         /\ Awaited'
<1>1. queue' \in Seq(Transactions)
  BY DEF VizInv, VizType
<1>2. \A i \in DOMAIN queue' : queue'[i].op = "put" => Fresh(queue[i].entry)'
  BY DEF VizInv, AgeOfEntries, Fresh
<1>3. Awaited'
  BY DEF VizInv, Awaited, Awaits
<1> QED BY <1>1, <1>2, <1>3

(* Nothing on disk changes but entries that are dropped or are fresh.      *)
LEMMA DiskMoves ==
  ASSUME VizInv, now' = now,
         \A i \in DOMAIN queue' : queue'[i].op = "put" => Fresh(queue[i].entry)',
         \A k \in Cached : disk'[k] \in {disk[k], Missing} \/ Fresh(disk'[k])
  PROVE  AgeOfEntries'
<1>1. \A k \in Cached : disk'[k] # Missing => Fresh(disk[k])'
  BY DEF VizInv, AgeOfEntries, Fresh
<1> QED BY <1>1 DEF AgeOfEntries

(* The head of the queue, and the load that awaits it.                     *)
LEMMA HeadFacts ==
  ASSUME VizInv, queue # <<>>
  PROVE  /\ Head(queue) = queue[1] /\ 1 \in DOMAIN queue /\ Head(queue) \in Transactions
         /\ Head(queue).op = "put" => Fresh(Head(queue).entry)
         /\ Head(queue).load # Missing =>
              /\ Head(queue).load \in Loads /\ load[Head(queue).load].pc \in Pending
              /\ load[Head(queue).load].key = Head(queue).key /\ Head(queue).key \in Cached
              /\ load[Head(queue).load].expires # Missing
              /\ \A i \in DOMAIN queue : i # 1 => queue[i].load # Head(queue).load
<1>1. queue \in Seq(Transactions)
  BY DEF VizInv, VizType
<1>2. Head(queue) = queue[1] /\ 1 \in DOMAIN queue /\ Head(queue) \in Transactions
  BY <1>1
<1>3. Head(queue).op = "put" => Fresh(Head(queue).entry)
  BY <1>2 DEF VizInv, AgeOfEntries
<1>4. Head(queue).load # Missing => Head(queue).load \in Loads /\ Head(queue).key \in Cached
  BY <1>2 DEF Transactions
<1>5. Head(queue).load # Missing =>
        /\ load[Head(queue).load].pc \in Pending
        /\ load[Head(queue).load].key = Head(queue).key
        /\ load[Head(queue).load].expires # Missing
        /\ \A i \in DOMAIN queue : i # 1 => queue[i].load # Head(queue).load
  BY <1>2 DEF VizInv, Awaited, Awaits, Pending
<1> QED BY <1>2, <1>3, <1>4, <1>5

(* Transactions that are awaited have loads of their own: those that have  *)
(* not been sent.                                                          *)
LEMMA AwaitedLoads ==
  ASSUME VizInv, NEW i \in DOMAIN queue, queue[i].load # Missing
  PROVE  /\ queue[i].load \in Loads
         /\ load[queue[i].load].pc \in {"reading", "deleting"}
<1>1. queue[i] \in Transactions
  BY DEF VizInv, VizType
<1>2. queue[i].load \in Loads
  BY <1>1 DEF Transactions
<1> QED BY <1>2 DEF VizInv, Awaited, Awaits

-----------------------------------------------------------------------------
(* Loads. *)

(* A reader is given a load that is there.                                 *)
LEMMA JoinInv ==
  ASSUME VizInv, NEW r \in Readers, NEW k \in Keys, Join(r, k)
  PROVE  VizInv'
<1>1. UNCHANGED <<now, mem, load, started, disk, queue>> /\ reader' = [reader EXCEPT ![r] = mem[k]]
  BY DEF Join
<1>2. mem[k] \in 1..started
  BY DEF Join, Current
<1>3. mem[k] \in Loads /\ mem[k] # Missing
  BY <1>2, ConstantFacts DEF VizInv, VizType
<1>4. VizType'
  BY <1>1, <1>3 DEF VizInv, VizType
<1>5. Referred'
  BY <1>1, <1>3 DEF VizInv, VizType, Referred, Pending
<1>6. AgeOfLoads' /\ AgeOfEntries' /\ Awaited'
  BY <1>1 DEF VizInv, AgeOfLoads, AgeOfEntries, Fresh, Awaited, Awaits
<1> QED BY <1>4, <1>5, <1>6 DEF VizInv

(* When an entry that is made now is over.                                 *)
Over(k) == now + Ttl[k]

(* The map loses entries and may get one for a load l that expires.         *)
MapGets(k, l, e) ==
  \A j \in Keys : mem'[j] \in {mem[j], Missing} \/ (j = k /\ mem'[j] = l /\ e # Missing)

(* A load that was never started gets started; the map may hold it.        *)
LEMMA BeginFacts ==
  ASSUME VizInv, NEW r \in Readers, NEW l \in Loads, Begin(r, l), NEW x,
         NEW k \in Keys, NEW e \in Times, NEW pc \in Pending,
         x = [pc |-> pc, key |-> k, expires |-> e, sent |-> now],
         e \in {Missing, Over(k)},
         load' = [load EXCEPT ![l] = x], UNCHANGED <<now, disk>>,
         mem' \in [Keys -> Loads \cup {Missing}],
         MapGets(k, l, e)
  PROVE  /\ load'[l] = x
         /\ load' \in [Loads -> LoadRecords]
         /\ reader' \in [Readers -> Loads \cup {Missing}] /\ started' \in 0..MaxLoads
         /\ Referred' /\ AgeOfLoads'
         /\ \A i \in DOMAIN queue : queue[i].load # Missing =>
              queue[i].load # l /\ load'[queue[i].load] = load[queue[i].load]
<1>1. /\ l = started + 1 /\ started' = l /\ started' \in 0..MaxLoads
      /\ reader' = [reader EXCEPT ![r] = l] /\ l # Missing
  BY ConstantFacts DEF Begin, Loads
<1>2. x \in LoadRecords
  BY DEF LoadRecords, VizInv, VizType
<1>3. load'[l] = x /\ \A m \in Loads \ {l} : load'[m] = load[m]
  BY DEF VizInv, VizType
<1>4. load[l].pc = "free"
  <2>1. load[l].pc # "free" => l <= started
    BY DEF VizInv, Referred
  <2> QED BY <1>1, <2>1 DEF VizInv, VizType
<1>5. \A i \in DOMAIN queue : queue[i].load # Missing =>
        queue[i].load # l /\ load'[queue[i].load] = load[queue[i].load]
  BY <1>3, <1>4, AwaitedLoads
<1>6. load' \in [Loads -> LoadRecords]
  BY <1>2 DEF VizInv, VizType
<1>7. reader' \in [Readers -> Loads \cup {Missing}]
  BY <1>1 DEF VizInv, VizType
<1>8. Referred'
  <2>1. \A m \in Loads : load'[m].pc # "free" => m <= started'
    BY <1>1, <1>3 DEF VizInv, VizType, Referred
  <2>2. \A q \in Readers : reader'[q] # Missing => load'[reader'[q]].pc # "free"
    BY <1>1, <1>3, <1>4 DEF VizInv, VizType, Referred, Pending
  <2>3. ASSUME NEW j \in Keys, mem'[j] # Missing
        PROVE  load'[mem'[j]].pc \in Pending \cup {"done"} /\ load'[mem'[j]].key = j /\ load'[mem'[j]].expires \in Nat
    <3> USE DEF MapGets
    <3>1. CASE mem'[j] = l /\ j = k /\ e # Missing
      BY <1>3, <3>1 DEF Times
    <3>2. CASE mem'[j] = mem[j]
      <4>1. mem[j] \in Loads /\ load[mem[j]].pc \in Pending \cup {"done"} /\ load[mem[j]].key = j /\ load[mem[j]].expires \in Nat
        BY <2>3, <3>2 DEF VizInv, VizType, Referred
      <4>2. mem[j] # l
        BY <1>4, <4>1 DEF Pending
      <4> QED BY <1>3, <3>2, <4>1, <4>2
    <3> QED BY <2>3, <3>1, <3>2
  <2> QED BY <2>1, <2>2, <2>3 DEF Referred
<1>9. AgeOfLoads'
  <2> SUFFICES ASSUME NEW m \in Loads
               PROVE  /\ load'[m].pc \in Pending =>
                           /\ load'[m].sent <= now
                           /\ load'[m].expires # Missing => load'[m].expires <= load'[m].sent + Ttl[load'[m].key]
                      /\ load'[m].pc = "sent" => now <= load'[m].sent + Timeout
                      /\ load'[m].pc = "done" =>
                           /\ load'[m].at <= now
                           /\ load'[m].expires # Missing => load'[m].expires <= load'[m].at + Promised(load'[m].key)
    BY DEF AgeOfLoads, Promised
  <2>1. CASE m = l
    BY <1>3, <2>1, ConstantFacts DEF VizInv, VizType, Pending, Over
  <2>2. CASE m # l
    BY <1>3, <2>2 DEF VizInv, AgeOfLoads
  <2> QED BY <2>1, <2>2
<1> QED BY <1>1, <1>3, <1>5, <1>6, <1>7, <1>8, <1>9

(* Pruning only takes entries away.                                        *)
LEMMA PrunedEntries ==
  ASSUME NEW m \in [Keys -> Loads \cup {Missing}], NEW l \in Loads
  PROVE  /\ Pruned(m, l) \in [Keys -> Loads \cup {Missing}]
         /\ \A j \in Keys : Pruned(m, l)[j] \in {m[j], Missing}
BY DEF Pruned

LEMMA StartInv ==
  ASSUME VizInv, NEW r \in Readers, NEW k \in Keys, Start(r, k)
  PROVE  VizInv'
<1>1. PICK l \in Loads :
        /\ Begin(r, l)
        /\ mem' = Pruned([mem EXCEPT ![k] = l], l)
        /\ load' = [load EXCEPT ![l] = Load(IF k \in Cached THEN "reading" ELSE "sent", k, now + Ttl[k])]
        /\ queue' = IF k \in Cached THEN Append(queue, Transaction("get", k, l)) ELSE queue
        /\ UNCHANGED <<now, disk>>
  BY DEF Start
<1> DEFINE pc == IF k \in Cached THEN "reading" ELSE "sent"
           e == now + Ttl[k]
           x == [pc |-> pc, key |-> k, expires |-> e, sent |-> now]
<1>2. pc \in Pending /\ load' = [load EXCEPT ![l] = x]
  BY <1>1 DEF Pending, Load
<1>3. [mem EXCEPT ![k] = l] \in [Keys -> Loads \cup {Missing}]
  BY DEF VizInv, VizType
<1>4. mem' \in [Keys -> Loads \cup {Missing}] /\ \A j \in Keys : mem'[j] \in {[mem EXCEPT ![k] = l][j], Missing}
  BY <1>1, <1>3, PrunedEntries
<1>5. e \in Nat /\ e \in Times /\ e # Missing /\ e \in {Missing, Over(k)}
  BY ConstantFacts DEF VizInv, VizType, Times, Over
<1>6. MapGets(k, l, e)
  BY <1>4, <1>5 DEF VizInv, VizType, MapGets
<1>7. x = [pc |-> pc, key |-> k, expires |-> e, sent |-> now]
  OBVIOUS
<1>8. Begin(r, l) /\ UNCHANGED <<now, disk>>
  BY <1>1
<1> HIDE DEF pc, e, x
<1>9. /\ load'[l] = x
      /\ load' \in [Loads -> LoadRecords]
      /\ reader' \in [Readers -> Loads \cup {Missing}] /\ started' \in 0..MaxLoads
      /\ Referred' /\ AgeOfLoads'
      /\ \A i \in DOMAIN queue : queue[i].load # Missing =>
           queue[i].load # l /\ load'[queue[i].load] = load[queue[i].load]
  BY <1>2, <1>4, <1>5, <1>6, <1>7, <1>8, BeginFacts
<1>10. /\ queue' \in Seq(Transactions) /\ Awaited'
       /\ \A i \in DOMAIN queue' : queue'[i].op = "put" => Fresh(queue[i].entry)'
  <2>1. CASE k \notin Cached
    BY <1>1, <1>9, <2>1, QueueStays
  <2>2. CASE k \in Cached
    <3> DEFINE t == [op |-> "get", key |-> k, load |-> l]
    <3>1. queue' = Append(queue, t) /\ x.pc = "reading" /\ x.key = k /\ x.expires # Missing
      BY <1>1, <1>5, <2>2 DEF Transaction, x, pc
    <3>2. t \in Transactions /\ t.op = "get" /\ t.load = l /\ t.key = k
      BY <2>2 DEF Transactions
    <3> HIDE DEF t
    <3>3. Awaits(t)'
      BY <1>9, <3>1, <3>2 DEF Awaits
    <3> QED BY <1>1, <1>9, <3>1, <3>2, <3>3, QueueAppends
  <2> QED BY <2>1, <2>2
<1>11. AgeOfEntries'
  BY <1>1, <1>10, DiskMoves
<1>12. VizType'
  BY <1>1, <1>4, <1>9, <1>10 DEF VizInv, VizType
<1> QED BY <1>9, <1>10, <1>11, <1>12 DEF VizInv

LEMMA StartDirectInv ==
  ASSUME VizInv, NEW r \in Readers, NEW k \in Cached, StartDirect(r, k)
  PROVE  VizInv'
<1>1. PICK l \in Loads :
        /\ Begin(r, l)
        /\ load' = [load EXCEPT ![l] = Load("sent", k, Missing)]
        /\ UNCHANGED <<now, mem, disk, queue>>
  BY DEF StartDirect
<1> DEFINE x == [pc |-> "sent", key |-> k, expires |-> Missing, sent |-> now]
<1>2. "sent" \in Pending /\ load' = [load EXCEPT ![l] = x] /\ Missing \in Times /\ k \in Keys
  BY <1>1, ConstantFacts DEF Pending, Load, Times
<1>3. mem' \in [Keys -> Loads \cup {Missing}] /\ MapGets(k, l, Missing)
  BY <1>1 DEF VizInv, VizType, MapGets
<1>4. x = [pc |-> "sent", key |-> k, expires |-> Missing, sent |-> now]
  OBVIOUS
<1> HIDE DEF x
<1>5. /\ load' \in [Loads -> LoadRecords]
      /\ reader' \in [Readers -> Loads \cup {Missing}] /\ started' \in 0..MaxLoads
      /\ Referred' /\ AgeOfLoads'
      /\ \A i \in DOMAIN queue : queue[i].load # Missing => load'[queue[i].load] = load[queue[i].load]
  BY <1>1, <1>2, <1>3, <1>4, BeginFacts
<1>6. /\ queue' \in Seq(Transactions) /\ Awaited'
      /\ \A i \in DOMAIN queue' : queue'[i].op = "put" => Fresh(queue[i].entry)'
  BY <1>1, <1>5, QueueStays
<1>7. AgeOfEntries'
  BY <1>1, <1>6, DiskMoves
<1>8. VizType'
  BY <1>1, <1>3, <1>5, <1>6 DEF VizInv, VizType
<1> QED BY <1>5, <1>6, <1>7, <1>8 DEF VizInv

(* The map forgets what its key held when a load fails.                    *)
LEMMA FailFacts ==
  ASSUME VizInv, NEW l \in Loads, load[l].pc \in Pending, Fail(l), UNCHANGED <<now, started, reader>>
  PROVE  /\ load' = [load EXCEPT ![l] = [pc |-> "failed", key |-> load[l].key]]
         /\ mem' \in [Keys -> Loads \cup {Missing}]
         /\ load' \in [Loads -> LoadRecords]
         /\ Referred' /\ AgeOfLoads'
<1> DEFINE k == load[l].key
           x == [pc |-> "failed", key |-> k]
<1>1. load' = [load EXCEPT ![l] = x]
  BY DEF Fail
<1>2. k \in Keys
  BY LoadFields DEF VizInv, Pending
<1>3. x \in LoadRecords /\ x.pc = "failed" /\ x.key = load[l].key
  BY <1>2 DEF LoadRecords
<1>4. \A j \in Keys : mem[j] = l => j = k /\ load[l].expires # Missing
  BY ConstantFacts DEF VizInv, Referred, Loads
<1>5. mem' \in [Keys -> Loads \cup {Missing}]
  BY DEF Fail, VizInv, VizType
<1>6. \A j \in Keys : mem'[j] = Missing \/ (mem'[j] = mem[j] /\ mem[j] # l)
  BY <1>2, <1>4 DEF Fail, VizInv, VizType
<1> HIDE DEF x, k
<1>7. /\ load' \in [Loads -> LoadRecords]
      /\ Referred' /\ AgeOfLoads'
  BY <1>1, <1>3, <1>5, <1>6, LoadChanges DEF Pending
<1> QED BY <1>1, <1>5, <1>7 DEF k, x

LEMMA SentFacts ==
  ASSUME VizInv, NEW l \in Loads, load[l].pc = "sent"
  PROVE  /\ load[l].pc \in Pending /\ load[l].sent \in Nat /\ load[l].key \in Keys
         /\ load[l].expires \in Times
         /\ load[l].sent <= now /\ now <= load[l].sent + Timeout
         /\ load[l].expires # Missing => load[l].expires <= load[l].sent + Ttl[load[l].key]
         /\ \A i \in DOMAIN queue : queue[i].load # Missing => queue[i].load # l
<1>1. load[l].pc \in Pending
  BY DEF Pending
<1>2. load[l] \in [pc : Pending, key : Keys, expires : Times, sent : Nat]
  BY <1>1, LoadFields DEF VizInv
<1>3. \A i \in DOMAIN queue : queue[i].load # Missing => queue[i].load # l
  BY AwaitedLoads
<1> QED BY <1>1, <1>2, <1>3 DEF VizInv, AgeOfLoads

LEMMA AnswerInv ==
  ASSUME VizInv, NEW l \in Loads, Answer(l)
  PROVE  VizInv'
<1>1. PICK t \in load[l].sent .. now :
        /\ load' = [load EXCEPT ![l] = DoneLoad(l, t, l)]
        /\ queue' = IF load[l].expires # Missing /\ load[l].key \in Cached
                    THEN Append(queue, [op |-> "put", key |-> load[l].key, load |-> Missing,
                                        entry |-> [at |-> t, stamp |-> now, from |-> l]])
                    ELSE queue
  BY DEF Answer
<1>2. load[l].pc = "sent" /\ UNCHANGED <<now, mem, started, disk, reader>>
  BY DEF Answer
<1> DEFINE k == load[l].key
           e == [at |-> t, stamp |-> now, from |-> l]
           x == [pc |-> "done", key |-> k, expires |-> load[l].expires, at |-> t, from |-> l]
           p == [op |-> "put", key |-> k, load |-> Missing, entry |-> e]
<1>3. t \in Nat /\ t <= now /\ load[l].sent <= t /\ now <= t + Timeout /\ now \in Nat
  BY <1>2, SentFacts, ConstantFacts DEF VizInv, VizType
<1>4. x \in LoadRecords /\ load' = [load EXCEPT ![l] = x]
  BY <1>1, <1>2, <1>3, SentFacts DEF LoadRecords, DoneLoad
<1>5. load[l].expires # Missing => load[l].expires <= t + Promised(k)
  <2> SUFFICES ASSUME load[l].expires # Missing PROVE load[l].expires <= t + Promised(k)
    OBVIOUS
  <2>1. load[l].expires \in Nat /\ load[l].expires <= load[l].sent + Ttl[k] /\ k \in Keys /\ load[l].sent \in Nat
    BY <1>2, SentFacts DEF Times
  <2>2. Promised(k) \in Nat /\ Ttl[k] \in Nat /\ Promised(k) >= Ttl[k]
    BY <2>1, ConstantFacts
  <2> QED BY <1>3, <2>1, <2>2
<1>6. Fresh(e) /\ e \in Entries
  BY <1>3 DEF Fresh, Entries
<1>7. /\ queue' \in Seq(Transactions) /\ Awaited'
      /\ \A i \in DOMAIN queue' : queue'[i].op = "put" => Fresh(queue[i].entry)'
  <2>1. \A i \in DOMAIN queue : queue[i].load # Missing => load'[queue[i].load] = load[queue[i].load]
    BY <1>2, <1>4, SentFacts, AwaitedLoads DEF VizInv, VizType
  <2>2. CASE queue' = queue
    BY <1>2, <2>1, <2>2, QueueStays
  <2>3. CASE queue' # queue
    <3>1. k \in Cached /\ queue' = Append(queue, p)
      BY <1>1, <2>3
    <3>2. p \in Transactions /\ p.op = "put" /\ p.load = Missing /\ p.entry = e
      BY <1>6, <3>1 DEF Transactions
    <3> HIDE DEF p, e
    <3> QED BY <1>2, <1>6, <2>1, <3>1, <3>2, QueueAppends
  <2> QED BY <2>2, <2>3
<1>8. load' \in [Loads -> LoadRecords] /\ Referred' /\ AgeOfLoads'
  <2>1. x.pc = "done" /\ x.key = load[l].key /\ x.expires = load[l].expires /\ x.at = t
    OBVIOUS
  <2>2. load[l].pc \in Pending /\ mem' \in [Keys -> Loads \cup {Missing}]
    BY <1>2 DEF Pending, VizInv, VizType
  <2> HIDE DEF x
  <2> QED BY <1>2, <1>3, <1>4, <1>5, <2>1, <2>2, LoadChanges DEF Pending
<1>9. AgeOfEntries'
  BY <1>2, <1>7, DiskMoves
<1>10. VizType'
  BY <1>2, <1>7, <1>8 DEF VizInv, VizType
<1> QED BY <1>7, <1>8, <1>9, <1>10 DEF VizInv

LEMMA RequestFailsInv ==
  ASSUME VizInv, NEW l \in Loads, RequestFails(l)
  PROVE  VizInv'
<1>1. load[l].pc = "sent" /\ Fail(l) /\ UNCHANGED <<now, started, disk, queue, reader>>
  BY DEF RequestFails
<1>2. /\ load' = [load EXCEPT ![l] = [pc |-> "failed", key |-> load[l].key]]
      /\ mem' \in [Keys -> Loads \cup {Missing}]
      /\ load' \in [Loads -> LoadRecords] /\ Referred' /\ AgeOfLoads'
  BY <1>1, FailFacts DEF Pending
<1>3. /\ queue' \in Seq(Transactions) /\ Awaited'
      /\ \A i \in DOMAIN queue' : queue'[i].op = "put" => Fresh(queue[i].entry)'
  BY <1>1, <1>2, SentFacts, AwaitedLoads, QueueStays DEF VizInv, VizType
<1>4. AgeOfEntries'
  BY <1>1, <1>3, DiskMoves
<1>5. VizType'
  BY <1>1, <1>2, <1>3 DEF VizInv, VizType
<1> QED BY <1>2, <1>3, <1>4, <1>5 DEF VizInv

-----------------------------------------------------------------------------
(* IndexedDB. *)

(* What EXCEPT makes of the fields of a pending load. *)
LEMMA PcChanges ==
  ASSUME NEW S, NEW K, NEW E, NEW N, NEW v \in [pc : S, key : K, expires : E, sent : N], NEW p
  PROVE  [v EXCEPT !.pc = p] = [pc |-> p, key |-> v.key, expires |-> v.expires, sent |-> v.sent]
OBVIOUS

LEMMA SentChanges ==
  ASSUME NEW S, NEW K, NEW E, NEW N, NEW v \in [pc : S, key : K, expires : E, sent : N], NEW t
  PROVE  [v EXCEPT !.sent = t] = [pc |-> v.pc, key |-> v.key, expires |-> v.expires, sent |-> t]
OBVIOUS

(* The load that awaits the first transaction becomes x; the map keeps     *)
(* what it has.                                                            *)
LEMMA HeadChanges ==
  ASSUME VizInv, queue # <<>>, NEW l \in Loads, l = Head(queue).load, l # Missing,
         NEW x \in LoadRecords, x.pc \in Pending \cup {"done"}, x.key = load[l].key,
         x.expires = load[l].expires,
         x.pc \in Pending => x.sent <= now /\ x.expires <= x.sent + Ttl[x.key],
         x.pc = "sent" => now <= x.sent + Timeout,
         x.pc = "done" => x.at <= now /\ x.expires <= x.at + Promised(x.key),
         load' = [load EXCEPT ![l] = x], UNCHANGED <<now, mem, started, reader>>
  PROVE  /\ load' \in [Loads -> LoadRecords] /\ load'[l] = x
         /\ Referred' /\ AgeOfLoads'
         /\ \A i \in DOMAIN queue : i # 1 /\ queue[i].load # Missing => load'[queue[i].load] = load[queue[i].load]
<1>1. load[l].pc \in Pending /\ \A i \in DOMAIN queue : i # 1 => queue[i].load # l
  BY HeadFacts
<1>2. mem' \in [Keys -> Loads \cup {Missing}] /\ x.pc # "free" /\ x.pc # "failed"
  BY DEF VizInv, VizType, Pending
<1>3. /\ load' \in [Loads -> LoadRecords]
      /\ Referred' /\ AgeOfLoads'
  BY <1>1, <1>2, LoadChanges
<1>4. load'[l] = x /\ \A m \in Loads \ {l} : load'[m] = load[m]
  BY DEF VizInv, VizType
<1>5. \A i \in DOMAIN queue : queue[i].load # Missing => queue[i].load \in Loads
  BY AwaitedLoads
<1> QED BY <1>1, <1>3, <1>4, <1>5

(* The request of a load is sent.                                          *)
LEMMA SendFacts ==
  ASSUME VizInv, queue # <<>>, NEW l \in Loads, l = Head(queue).load, l # Missing,
         load' = Send(l), UNCHANGED <<now, mem, started, reader>>
  PROVE  /\ load' \in [Loads -> LoadRecords]
         /\ Referred' /\ AgeOfLoads'
         /\ \A i \in DOMAIN queue : i # 1 /\ queue[i].load # Missing => load'[queue[i].load] = load[queue[i].load]
<1> DEFINE x == [pc |-> "sent", key |-> load[l].key, expires |-> load[l].expires, sent |-> now]
<1>1. load[l].pc \in Pending /\ load[l].expires # Missing
  BY HeadFacts
<1>2. load[l] \in [pc : Pending, key : Keys, expires : Times, sent : Nat]
  BY <1>1, LoadFields DEF VizInv
<1>3. load' = [load EXCEPT ![l] = x]
  <2> DEFINE v == load[l]
             s == "sent"
  <2>1. v \in [pc : Pending, key : Keys, expires : Times, sent : Nat] /\ s \in Pending
    BY <1>2 DEF Pending
  <2>2. x = [pc |-> s, key |-> v.key, expires |-> v.expires, sent |-> now]
    OBVIOUS
  <2> DEFINE w == [v EXCEPT !.pc = s]
  <2>3. load' = [load EXCEPT ![l] = [w EXCEPT !.sent = now]]
    BY DEF Send, VizInv, VizType
  <2> HIDE DEF x, v, s
  <2>4. w = [pc |-> s, key |-> v.key, expires |-> v.expires, sent |-> v.sent]
    BY <2>1, PcChanges
  <2>5. w \in [pc : Pending, key : Keys, expires : Times, sent : Nat]
    BY <2>1, <2>4
  <2> HIDE DEF w
  <2>6. [w EXCEPT !.sent = now] = [pc |-> w.pc, key |-> w.key, expires |-> w.expires, sent |-> now]
    BY <2>5, SentChanges
  <2> QED BY <2>2, <2>3, <2>4, <2>6
<1>4. now \in Nat
  BY DEF VizInv, VizType
<1>5. x \in LoadRecords /\ x.pc = "sent" /\ x.key = load[l].key /\ x.expires = load[l].expires /\ x.sent = now
  BY <1>2, <1>4 DEF LoadRecords, Pending
<1>6. load[l].expires <= now + Ttl[load[l].key]
  <2>1. load[l].sent <= now /\ load[l].expires <= load[l].sent + Ttl[load[l].key]
    BY <1>1 DEF VizInv, AgeOfLoads
  <2>2. load[l].expires \in Nat /\ load[l].sent \in Nat /\ Ttl[load[l].key] \in Nat
    BY <1>1, <1>2, ConstantFacts DEF Times
  <2> QED BY <1>4, <2>1, <2>2
<1>7. now <= now + Timeout
  BY <1>4, ConstantFacts
<1> HIDE DEF x
<1> QED BY <1>3, <1>4, <1>5, <1>6, <1>7, HeadChanges DEF Pending

LEMMA GetInv == VizInv /\ Get => VizInv'
<1> SUFFICES ASSUME VizInv, Get PROVE VizInv'
  OBVIOUS
<1> PICK k, l : k = Head(queue).key /\ l = Head(queue).load
  OBVIOUS
<1> DEFINE e == IF db = "open" THEN disk[k] ELSE Missing
<1>1. queue # <<>> /\ Head(queue).op = "get" /\ UNCHANGED <<now, mem, started, disk, reader>>
  BY DEF Get, Ready
<1>2. k \in Cached /\ l \in Loads /\ l # Missing
  <2>1. Head(queue) \in Transactions
    BY <1>1, HeadFacts
  <2> QED BY <1>1, <2>1, ConstantFacts DEF Transactions, Loads
<1>3. /\ load[l].pc \in Pending /\ load[l].key = k /\ load[l].expires # Missing
      /\ \A i \in DOMAIN queue : i # 1 => queue[i].load # l
  BY <1>1, <1>2, HeadFacts
<1>4. load[l] \in [pc : Pending, key : Keys, expires : Times, sent : Nat] /\ now \in Nat
  BY <1>2, <1>3, LoadFields DEF VizInv, VizType
<1>5. /\ load[l].sent <= now /\ load[l].expires <= load[l].sent + Ttl[k] /\ load[l].expires \in Nat
      /\ load[l].sent \in Nat /\ Ttl[k] \in Nat /\ Promised(k) = 2 * Ttl[k] + Timeout /\ Timeout \in Nat
  BY <1>2, <1>3, <1>4, ConstantFacts DEF VizInv, AgeOfLoads, Times
<1>6. e # Missing => e \in Entries /\ Fresh(e)
  BY <1>2 DEF VizInv, VizType, AgeOfEntries
<1>7. CASE e = Missing /\ load' = Send(l) /\ queue' = Tail(queue)
  <2>1. /\ load' \in [Loads -> LoadRecords] /\ Referred' /\ AgeOfLoads'
        /\ \A i \in DOMAIN queue : i # 1 /\ queue[i].load # Missing => load'[queue[i].load] = load[queue[i].load]
    BY <1>1, <1>2, <1>7, SendFacts
  <2>2. /\ queue' \in Seq(Transactions) /\ Awaited'
        /\ \A i \in DOMAIN queue' : queue'[i].op = "put" => Fresh(queue[i].entry)'
    BY <1>1, <1>7, <2>1, QueuePops
  <2>3. AgeOfEntries'
    BY <1>1, <2>2, DiskMoves
  <2>4. VizType'
    BY <1>1, <2>1, <2>2 DEF VizInv, VizType
  <2> QED BY <2>1, <2>2, <2>3, <2>4 DEF VizInv
<1>8. CASE e # Missing /\ ~Expired(e, Ttl[k]) /\ load' = [load EXCEPT ![l] = DoneLoad(l, e.at, e.from)] /\ queue' = Tail(queue)
  <2> DEFINE x == [pc |-> "done", key |-> k, expires |-> load[l].expires, at |-> e.at, from |-> e.from]
  <2>1. e \in Entries /\ e.at <= e.stamp /\ e.stamp <= e.at + Timeout /\ e.stamp <= now /\ ~(now - e.stamp > Ttl[k])
    BY <1>6, <1>8 DEF Fresh, Expired
  <2>2. load' = [load EXCEPT ![l] = x]
    BY <1>3, <1>8 DEF DoneLoad
  <2>3. e.at \in Nat /\ e.stamp \in Nat /\ e.from \in Loads
    BY <2>1 DEF Entries
  <2>4. x \in LoadRecords /\ x.pc = "done" /\ x.key = k /\ x.expires = load[l].expires /\ x.at = e.at
    BY <1>2, <1>4, <2>3, ConstantFacts DEF LoadRecords
  <2>5. load[l].expires <= e.at + Promised(k) /\ e.at <= now
    BY <1>4, <1>5, <2>1, <2>3
  <2> HIDE DEF x, e
  <2>6. /\ load' \in [Loads -> LoadRecords] /\ Referred' /\ AgeOfLoads'
        /\ \A i \in DOMAIN queue : i # 1 /\ queue[i].load # Missing => load'[queue[i].load] = load[queue[i].load]
    BY <1>1, <1>2, <1>3, <2>2, <2>4, <2>5, HeadChanges DEF Pending
  <2>7. /\ queue' \in Seq(Transactions) /\ Awaited'
        /\ \A i \in DOMAIN queue' : queue'[i].op = "put" => Fresh(queue[i].entry)'
    BY <1>1, <1>8, <2>6, QueuePops
  <2>8. AgeOfEntries'
    BY <1>1, <2>7, DiskMoves
  <2>9. VizType'
    BY <1>1, <2>6, <2>7 DEF VizInv, VizType
  <2> QED BY <2>6, <2>7, <2>8, <2>9 DEF VizInv
<1>9. CASE load' = [load EXCEPT ![l].pc = "deleting"] /\ queue' = Append(Tail(queue), Transaction("delete", k, l))
  <2> DEFINE x == [pc |-> "deleting", key |-> k, expires |-> load[l].expires, sent |-> load[l].sent]
             n == Len(queue) - 1
  <2> PICK t : t = [op |-> "delete", key |-> k, load |-> l]
    OBVIOUS
  <2>1. load' = [load EXCEPT ![l] = x]
    <3>1. x = [load[l] EXCEPT !.pc = "deleting"]
      BY <1>3, <1>4, PcChanges
    <3> HIDE DEF x
    <3> QED BY <1>9, <3>1
  <2>2. x \in LoadRecords /\ x.pc = "deleting" /\ x.key = k /\ x.expires = load[l].expires /\ x.sent = load[l].sent
    BY <1>2, <1>4, ConstantFacts DEF LoadRecords, Pending
  <2>3. t \in Transactions /\ t.op = "delete" /\ t.load = l /\ t.key = k /\ queue' = Append(Tail(queue), t)
    BY <1>2, <1>9 DEF Transactions, Transaction
  <2>4. queue \in Seq(Transactions)
    BY DEF VizInv, VizType
  <2>5. n \in Nat /\ n + 1 = Len(queue) /\ Len(queue') = n + 1 /\ queue' \in Seq(Transactions)
    BY <1>1, <2>3, <2>4
  <2>6. \A i \in 1..n : queue'[i] = queue[i + 1] /\ i + 1 \in DOMAIN queue /\ i + 1 # 1
    BY <1>1, <2>3, <2>4
  <2>7. queue'[n + 1] = t
    BY <1>1, <2>3, <2>4
  <2> HIDE DEF x, e, n
  <2>8. /\ load' \in [Loads -> LoadRecords] /\ Referred' /\ AgeOfLoads' /\ load'[l] = x
        /\ \A i \in DOMAIN queue : i # 1 /\ queue[i].load # Missing => load'[queue[i].load] = load[queue[i].load]
    BY <1>1, <1>2, <1>3, <1>5, <2>1, <2>2, HeadChanges DEF Pending
  <2>9. Awaits(t)'
    BY <1>3, <2>2, <2>3, <2>8 DEF Awaits
  <2>10. n <= Len(queue') /\ \A i \in (n + 1)..Len(queue') : i = n + 1
    BY <2>5
  <2>11. \A i \in (n + 1)..Len(queue') :
           /\ queue'[i].op = "put" => Fresh(queue'[i].entry)
           /\ queue'[i].load # Missing =>
                /\ Len(queue') = n + 1 /\ Awaits(queue[i])'
                /\ \A j \in 1..n : queue'[j].load # queue'[i].load
    <3> SUFFICES ASSUME NEW i \in (n + 1)..Len(queue')
                 PROVE  /\ queue'[i].op = "put" => Fresh(queue'[i].entry)
                        /\ queue'[i].load # Missing =>
                             /\ Len(queue') = n + 1 /\ Awaits(queue[i])'
                             /\ \A j \in 1..n : queue'[j].load # queue'[i].load
      OBVIOUS
    <3>1. queue'[i] = t
      BY <2>7, <2>10
    <3>2. Awaits(queue[i])'
      BY <2>9, <3>1 DEF Awaits
    <3> QED BY <1>3, <2>3, <2>5, <2>6, <3>1, <3>2
  <2>12. \A i \in 1..n : queue'[i].load # Missing => load'[queue'[i].load] = load[queue'[i].load]
    BY <2>6, <2>8
  <2>13. /\ Awaited'
         /\ \A i \in DOMAIN queue' : queue'[i].op = "put" => Fresh(queue[i].entry)'
    BY <1>1, <2>5, <2>6, <2>10, <2>11, <2>12, QueueMoves
  <2>14. AgeOfEntries'
    BY <1>1, <2>13, DiskMoves
  <2>15. VizType'
    BY <1>1, <2>5, <2>8 DEF VizInv, VizType
  <2> QED BY <2>8, <2>13, <2>14, <2>15 DEF VizInv
<1>10. \/ e = Missing /\ load' = Send(l) /\ queue' = Tail(queue)
       \/ e # Missing /\ ~Expired(e, Ttl[k]) /\ load' = [load EXCEPT ![l] = DoneLoad(l, e.at, e.from)] /\ queue' = Tail(queue)
       \/ load' = [load EXCEPT ![l].pc = "deleting"] /\ queue' = Append(Tail(queue), Transaction("delete", k, l))
  BY DEF Get
<1> HIDE DEF e
<1> QED BY <1>7, <1>8, <1>9, <1>10

LEMMA PutInv == VizInv /\ Put => VizInv'
<1> SUFFICES ASSUME VizInv, Put PROVE VizInv'
  OBVIOUS
<1>1. /\ queue # <<>> /\ Head(queue).op = "put" /\ queue' = Tail(queue)
      /\ UNCHANGED <<now, mem, load, started, reader>>
  BY DEF Put, Ready
<1>2. Head(queue).key \in Cached /\ Head(queue).entry \in Entries /\ Fresh(Head(queue).entry)
  <2>1. Head(queue) \in Transactions /\ Fresh(Head(queue).entry)
    BY <1>1, HeadFacts
  <2> QED BY <1>1, <2>1 DEF Transactions
<1>3. disk' \in [Cached -> Entries \cup {Missing}] /\ \A k \in Cached : disk'[k] = disk[k] \/ Fresh(disk'[k])
  BY <1>2 DEF Put, VizInv, VizType
<1>4. /\ queue' \in Seq(Transactions) /\ Awaited'
      /\ \A i \in DOMAIN queue' : queue'[i].op = "put" => Fresh(queue[i].entry)'
  BY <1>1, QueuePops
<1>5. AgeOfEntries'
  BY <1>1, <1>3, <1>4, DiskMoves
<1>6. VizType' /\ Referred' /\ AgeOfLoads'
  BY <1>1, <1>3, <1>4 DEF VizInv, VizType, Referred, AgeOfLoads
<1> QED BY <1>4, <1>5, <1>6 DEF VizInv

LEMMA DeleteInv == VizInv /\ Delete => VizInv'
<1> SUFFICES ASSUME VizInv, Delete PROVE VizInv'
  OBVIOUS
<1> PICK l : l = Head(queue).load
  OBVIOUS
<1>1. /\ queue # <<>> /\ queue' = Tail(queue) /\ load' = IF l = Missing THEN load ELSE Send(l)
      /\ UNCHANGED <<now, mem, started, reader>>
  BY DEF Delete, Ready
<1>2. disk' \in [Cached -> Entries \cup {Missing}] /\ \A k \in Cached : disk'[k] \in {disk[k], Missing}
  BY DEF Delete, VizInv, VizType
<1>3. /\ load' \in [Loads -> LoadRecords] /\ Referred' /\ AgeOfLoads'
      /\ \A i \in DOMAIN queue : i # 1 /\ queue[i].load # Missing => load'[queue[i].load] = load[queue[i].load]
  <2>1. CASE l = Missing
    BY <1>1, <2>1 DEF VizInv, VizType, Referred, AgeOfLoads
  <2>2. CASE l # Missing
    <3>1. l \in Loads
      BY <1>1, <2>2, HeadFacts
    <3> QED BY <1>1, <2>2, <3>1, SendFacts
  <2> QED BY <2>1, <2>2
<1>4. /\ queue' \in Seq(Transactions) /\ Awaited'
      /\ \A i \in DOMAIN queue' : queue'[i].op = "put" => Fresh(queue[i].entry)'
  BY <1>1, <1>3, QueuePops
<1>5. AgeOfEntries'
  BY <1>1, <1>2, <1>4, DiskMoves
<1>6. VizType'
  BY <1>1, <1>2, <1>3, <1>4 DEF VizInv, VizType
<1> QED BY <1>3, <1>4, <1>5, <1>6 DEF VizInv

(* A finite set as a sequence. *)
LEMMA SetToSeqType ==
  ASSUME NEW S, IsFiniteSet(S)
  PROVE  SetToSeq(S) \in Seq(S)
<1> DEFINE n == Cardinality(S)
<1>1. n \in Nat /\ ExistsBijection(1..n, S)
  BY FS_CardinalityType
<1> HIDE DEF n
<1>2. \E f \in [1..n -> S] : IsInjective(f)
  BY <1>1 DEF ExistsBijection, Bijection, Injection
<1>3. SetToSeq(S) \in [1..n -> S]
  BY <1>2 DEF SetToSeq, n
<1> QED BY <1>1, <1>3

(* The transactions that delete what is too old. *)
LEMMA SweepDeletes ==
  ASSUME NEW old \in SUBSET Cached
  PROVE  SetToSeq({Transaction("delete", k, Missing) : k \in old})
           \in Seq([op : {"delete"}, key : Cached, load : {Missing}])
<1> DEFINE T == {Transaction("delete", k, Missing) : k \in old}
           f == [k \in old |-> Transaction("delete", k, Missing)]
<1>1. IsFiniteSet(old)
  BY VizDataAssumption, FS_Subset
<1>2. f \in Surjection(old, T)
  BY DEF Surjection
<1> HIDE DEF f
<1>3. IsFiniteSet(T)
  BY <1>1, <1>2, FS_Surjection
<1>4. T \subseteq [op : {"delete"}, key : Cached, load : {Missing}]
  BY DEF Transaction
<1> HIDE DEF T
<1>5. SetToSeq(T) \in Seq(T)
  BY <1>3, SetToSeqType
<1>6. SetToSeq(T) \in Seq([op : {"delete"}, key : Cached, load : {Missing}])
  BY <1>4, <1>5, SeqMonotonic
<1> QED BY <1>6 DEF T

LEMMA SweepQueue ==
  ASSUME VizInv, SweepExpired, queue # <<>>
  PROVE  \E s \in Seq([op : {"delete"}, key : Cached, load : {Missing}]) : queue' = Tail(queue) \o s
<1>1. CASE db # "open"
  <2>1. queue' = Tail(queue) /\ Tail(queue) \in Seq(Transactions)
    BY <1>1 DEF SweepExpired, VizInv, VizType
  <2>2. Tail(queue) \o <<>> = Tail(queue) /\ <<>> \in Seq([op : {"delete"}, key : Cached, load : {Missing}])
    BY <2>1, ConcatEmptySeq
  <2> QED BY <2>1, <2>2
<1>2. CASE db = "open"
  BY <1>2, SweepDeletes DEF SweepExpired
<1> QED BY <1>1, <1>2

LEMMA SweptQueue ==
  ASSUME VizInv, queue # <<>>, NEW s \in Seq([op : {"delete"}, key : Cached, load : {Missing}]),
         queue' = Tail(queue) \o s
  PROVE  LET n == Len(queue) - 1 IN
         /\ n \in Nat /\ n + 1 = Len(queue) /\ queue' \in Seq(Transactions) /\ n <= Len(queue')
         /\ \A i \in 1..n : queue'[i] = queue[i + 1]
         /\ \A i \in (n + 1)..Len(queue') : queue'[i].op = "delete" /\ queue'[i].load = Missing
<1> DEFINE n == Len(queue) - 1
<1>1. queue \in Seq(Transactions) /\ s \in Seq(Transactions)
  <2>1. [op : {"delete"}, key : Cached, load : {Missing}] \subseteq Transactions
    BY DEF Transactions
  <2> QED BY <2>1, SeqMonotonic DEF VizInv, VizType
<1>2. n \in Nat /\ n + 1 = Len(queue) /\ Len(queue') = n + Len(s) /\ queue' \in Seq(Transactions) /\ n <= Len(queue')
  BY <1>1
<1>3. \A i \in 1..n : queue'[i] = queue[i + 1]
  BY <1>1
<1>4. ASSUME NEW i \in (n + 1)..Len(queue')
      PROVE  queue'[i].op = "delete" /\ queue'[i].load = Missing
  <2>1. i - n \in 1..Len(s) /\ queue'[i] = s[i - n]
    BY <1>1
  <2>2. s[i - n] \in [op : {"delete"}, key : Cached, load : {Missing}]
    BY <2>1, ElementOfSeq
  <2> QED BY <2>1, <2>2
<1> QED BY <1>2, <1>3, <1>4

LEMMA SweepInv == VizInv /\ SweepExpired => VizInv'
<1> SUFFICES ASSUME VizInv, SweepExpired PROVE VizInv'
  OBVIOUS
<1>1. queue # <<>> /\ UNCHANGED <<now, mem, load, started, disk, reader>>
  BY DEF SweepExpired, Ready
<1>2. PICK s \in Seq([op : {"delete"}, key : Cached, load : {Missing}]) : queue' = Tail(queue) \o s
  BY <1>1, SweepQueue
<1> DEFINE n == Len(queue) - 1
<1>3. /\ n \in Nat /\ n + 1 = Len(queue) /\ queue' \in Seq(Transactions) /\ n <= Len(queue')
      /\ \A i \in 1..n : queue'[i] = queue[i + 1]
      /\ \A i \in (n + 1)..Len(queue') : queue'[i].op = "delete" /\ queue'[i].load = Missing
  BY <1>1, <1>2, SweptQueue
<1> HIDE DEF n
<1>4. \A i \in 1..n : queue'[i].load # Missing => load'[queue'[i].load] = load[queue'[i].load]
  BY <1>1
<1>5. /\ Awaited'
      /\ \A i \in DOMAIN queue' : queue'[i].op = "put" => Fresh(queue[i].entry)'
  BY <1>1, <1>3, <1>4, QueueMoves
<1>6. AgeOfEntries'
  BY <1>1, <1>5, DiskMoves
<1>7. VizType' /\ Referred' /\ AgeOfLoads'
  BY <1>1, <1>3 DEF VizInv, VizType, Referred, AgeOfLoads
<1> QED BY <1>5, <1>6, <1>7 DEF VizInv

LEMMA ClearDiskInv == VizInv /\ ClearDisk => VizInv'
<1> SUFFICES ASSUME VizInv, ClearDisk PROVE VizInv'
  OBVIOUS
<1>1. queue # <<>> /\ queue' = Tail(queue) /\ UNCHANGED <<now, mem, load, started, reader>>
  BY DEF ClearDisk, Ready
<1>2. disk' \in [Cached -> Entries \cup {Missing}] /\ \A k \in Cached : disk'[k] \in {disk[k], Missing}
  BY DEF ClearDisk, VizInv, VizType
<1>3. /\ queue' \in Seq(Transactions) /\ Awaited'
      /\ \A i \in DOMAIN queue' : queue'[i].op = "put" => Fresh(queue[i].entry)'
  BY <1>1, QueuePops
<1>4. AgeOfEntries'
  BY <1>1, <1>2, <1>3, DiskMoves
<1>5. VizType' /\ Referred' /\ AgeOfLoads'
  BY <1>1, <1>2, <1>3 DEF VizInv, VizType, Referred, AgeOfLoads
<1> QED BY <1>3, <1>4, <1>5 DEF VizInv

LEMMA TransactionFailsInv == VizInv /\ TransactionFails => VizInv'
<1> SUFFICES ASSUME VizInv, TransactionFails PROVE VizInv'
  OBVIOUS
<1> PICK l : l = Head(queue).load
  OBVIOUS
<1>1. queue # <<>> /\ queue' = Tail(queue) /\ UNCHANGED <<now, started, disk, reader>>
  BY DEF TransactionFails
<1>2. IF l = Missing THEN UNCHANGED <<load, mem>> ELSE Fail(l)
  BY DEF TransactionFails
<1>3. /\ load' \in [Loads -> LoadRecords] /\ mem' \in [Keys -> Loads \cup {Missing}] /\ Referred' /\ AgeOfLoads'
      /\ \A i \in DOMAIN queue : i # 1 /\ queue[i].load # Missing => load'[queue[i].load] = load[queue[i].load]
  <2>1. CASE l = Missing
    BY <1>1, <1>2, <2>1 DEF VizInv, VizType, Referred, AgeOfLoads
  <2>2. CASE l # Missing
    <3>1. l \in Loads /\ load[l].pc \in Pending /\ \A i \in DOMAIN queue : i # 1 => queue[i].load # l
      BY <1>1, <2>2, HeadFacts
    <3>2. /\ load' = [load EXCEPT ![l] = [pc |-> "failed", key |-> load[l].key]]
          /\ mem' \in [Keys -> Loads \cup {Missing}]
          /\ load' \in [Loads -> LoadRecords] /\ Referred' /\ AgeOfLoads'
      BY <1>1, <1>2, <2>2, <3>1, FailFacts
    <3> QED BY <3>1, <3>2, AwaitedLoads DEF VizInv, VizType
  <2> QED BY <2>1, <2>2
<1>4. /\ queue' \in Seq(Transactions) /\ Awaited'
      /\ \A i \in DOMAIN queue' : queue'[i].op = "put" => Fresh(queue[i].entry)'
  BY <1>1, <1>3, QueuePops
<1>5. AgeOfEntries'
  BY <1>1, <1>4, DiskMoves
<1>6. VizType'
  BY <1>1, <1>3, <1>4 DEF VizInv, VizType
<1> QED BY <1>3, <1>4, <1>5, <1>6 DEF VizInv

-----------------------------------------------------------------------------
(* The page. *)

(* Steps that leave the loads and what the queue says of them alone. *)
LEMMA IdleInv ==
  ASSUME VizInv, UNCHANGED <<now, mem, load, started, disk, queue, reader>>
  PROVE  VizInv'
BY DEF VizInv, VizType, Referred, AgeOfLoads, AgeOfEntries, Fresh, Awaited, Awaits

LEMMA ClearInv == VizInv /\ Clear => VizInv'
<1> SUFFICES ASSUME VizInv, Clear PROVE VizInv'
  OBVIOUS
<1> PICK t : t = Transaction("clear", Missing, Missing)
  OBVIOUS
<1>1. /\ mem' = [k \in Keys |-> Missing] /\ queue' = Append(queue, t)
      /\ UNCHANGED <<now, load, started, disk, reader>>
  BY DEF Clear
<1>2. t \in Transactions /\ t.op # "put" /\ t.load = Missing
  BY DEF Transaction, Transactions
<1>3. /\ queue' \in Seq(Transactions) /\ Awaited'
      /\ \A i \in DOMAIN queue' : queue'[i].op = "put" => Fresh(queue[i].entry)'
  BY <1>1, <1>2, QueueAppends
<1>4. AgeOfEntries'
  BY <1>1, <1>3, DiskMoves
<1>5. VizType' /\ Referred' /\ AgeOfLoads'
  BY <1>1, <1>3 DEF VizInv, VizType, Referred, AgeOfLoads
<1> QED BY <1>3, <1>4, <1>5 DEF VizInv

LEMMA ReloadInv == VizInv /\ Reload => VizInv'
<1> SUFFICES ASSUME VizInv, Reload PROVE VizInv'
  OBVIOUS
<1>1. /\ mem' = [k \in Keys |-> Missing] /\ load' = [l \in Loads |-> [pc |-> "free"]]
      /\ queue' = <<Sweep>> /\ reader' = [r \in Readers |-> Missing]
      /\ UNCHANGED <<now, started, disk>>
  BY DEF Reload
<1>2. Sweep \in Transactions /\ Sweep.load = Missing /\ Sweep.op = "sweep"
  BY DEF Sweep, Transaction, Transactions
<1>3. VizType'
  BY <1>1, <1>2 DEF VizInv, VizType, LoadRecords
<1>4. Referred' /\ AgeOfLoads'
  BY <1>1 DEF Referred, AgeOfLoads, Pending
<1>5. AgeOfEntries' /\ Awaited'
  BY <1>1, <1>2 DEF VizInv, AgeOfEntries, Awaited, Fresh
<1> QED BY <1>3, <1>4, <1>5 DEF VizInv

LEMMA TickInv == VizInv /\ Tick => VizInv'
<1> SUFFICES ASSUME VizInv, Tick PROVE VizInv'
  OBVIOUS
<1>1. /\ now' = now + 1 /\ now \in Nat
      /\ \A l \in Loads : load[l].pc = "sent" => now < load[l].sent + Timeout
      /\ UNCHANGED <<mem, load, started, disk, queue, reader>>
  BY DEF Tick, VizInv, VizType
<1>2. VizType'
  BY <1>1 DEF VizInv, VizType
<1>3. Referred' /\ Awaited'
  BY <1>1 DEF VizInv, Referred, Awaited, Awaits
<1>4. AgeOfLoads'
  <2> SUFFICES ASSUME NEW l \in Loads
               PROVE  /\ load[l].pc \in Pending =>
                           /\ load[l].sent <= now'
                           /\ load[l].expires # Missing => load[l].expires <= load[l].sent + Ttl[load[l].key]
                      /\ load[l].pc = "sent" => now' <= load[l].sent + Timeout
                      /\ load[l].pc = "done" =>
                           /\ load[l].at <= now'
                           /\ load[l].expires # Missing => load[l].expires <= load[l].at + Promised(load[l].key)
    BY <1>1 DEF AgeOfLoads, Promised
  <2>1. /\ load[l].pc \in Pending => load[l].sent \in Nat
        /\ load[l].pc = "done" => load[l].at \in Nat
    BY LoadFields DEF VizInv
  <2>2. load[l].pc = "sent" => load[l].sent + Timeout \in Nat
    BY <2>1, ConstantFacts DEF Pending
  <2> QED BY <1>1, <2>1, <2>2 DEF VizInv, AgeOfLoads
<1>5. AgeOfEntries'
  <2>1. \A k \in Cached : disk[k] # Missing => disk[k].stamp \in Nat
    BY DEF VizInv, VizType, Entries
  <2>2. \A i \in DOMAIN queue : queue[i].op = "put" => queue[i].entry.stamp \in Nat
    <3> SUFFICES ASSUME NEW i \in DOMAIN queue, queue[i].op = "put" PROVE queue[i].entry.stamp \in Nat
      OBVIOUS
    <3>1. queue[i] \in Transactions
      BY DEF VizInv, VizType
    <3> QED BY <3>1 DEF Transactions, Entries
  <2> QED BY <1>1, <2>1, <2>2 DEF VizInv, AgeOfEntries, Fresh
<1> QED BY <1>2, <1>3, <1>4, <1>5 DEF VizInv

LEMMA StepViz == VizInv /\ [VizNext]_vizVars => VizInv'
<1> SUFFICES ASSUME VizInv, [VizNext]_vizVars PROVE VizInv'
  OBVIOUS
<1>1. CASE UNCHANGED vizVars
  BY <1>1, IdleInv DEF vizVars
<1>2. ASSUME NEW r \in Readers, NEW k \in Keys, Join(r, k) \/ Start(r, k) PROVE VizInv'
  BY <1>2, JoinInv, StartInv
<1>3. ASSUME NEW r \in Readers, NEW k \in Cached, StartDirect(r, k) PROVE VizInv'
  BY <1>3, StartDirectInv
<1>4. ASSUME NEW l \in Loads, Answer(l) \/ RequestFails(l) PROVE VizInv'
  BY <1>4, AnswerInv, RequestFailsInv
<1>5. CASE Open
  BY <1>5, IdleInv DEF Open
<1>6. CASE Storage
  BY <1>6, GetInv, PutInv, DeleteInv, SweepInv, ClearDiskInv, TransactionFailsInv DEF Storage
<1>7. CASE Clear \/ Reload \/ Tick
  BY <1>7, ClearInv, ReloadInv, TickInv
<1>8. CASE Rest
  BY <1>8, IdleInv DEF Rest, vizVars
<1> QED BY <1>1, <1>2, <1>3, <1>4, <1>5, <1>6, <1>7, <1>8 DEF VizNext

(* The page, its caches and its database stay in the invariant. *)
THEOREM VizInvariant == VizSpec => []VizInv
<1> QED BY InitViz, StepViz, PTL DEF VizSpec

-----------------------------------------------------------------------------
(* The refinement: what each step means to the readers. *)

(* The reader r is in a position that BoundedReads lets it come to. *)
Allowed(r) ==
  \/ ReadOf(r)' \in {ReadOf(r), Reads!Idle}
  \/ \E k \in Keys :
       \/ ReadOf(r)' \in {Reads!Waiting(k), Reads!Failed(k)}
       \/ \E t \in Nat : ReadOf(r)' = Reads!Answered(k, t) /\ t <= now /\ now < t + Promised(k)

LEMMA ReadersMoveAllowed ==
  ASSUME now' = now, \A r \in Readers : Allowed(r)
  PROVE  Reads!ReadersMove
<1> SUFFICES ASSUME NEW r \in Readers
             PROVE  \/ ReadOf(r)' = ReadOf(r)
                    \/ ReadOf(r)' = Reads!Idle
                    \/ \E k \in Keys :
                         \/ ReadOf(r)' = Reads!Waiting(k)
                         \/ ReadOf(r)' = Reads!Failed(k)
                         \/ /\ ReadOf(r)'.pc = "answered" /\ ReadOf(r)'.key = k
                            /\ ReadOf(r)'.at \in Int /\ ReadOf(r)'.at <= now
                            /\ now < ReadOf(r)'.at + [j \in Keys |-> Promised(j)][k]
  BY DEF Reads!ReadersMove, Reads!Moves, Reads!Outcome
<1>1. ASSUME NEW k \in Keys, NEW t \in Nat, ReadOf(r)' = Reads!Answered(k, t),
             t <= now, now < t + Promised(k)
      PROVE  /\ ReadOf(r)'.pc = "answered" /\ ReadOf(r)'.key = k
             /\ ReadOf(r)'.at \in Int /\ ReadOf(r)'.at <= now
             /\ now < ReadOf(r)'.at + [j \in Keys |-> Promised(j)][k]
  BY <1>1 DEF Reads!Answered
<1> QED BY <1>1 DEF Allowed

(* A reader whose load stays as it was.                                    *)
LEMMA ReadStays ==
  ASSUME NEW r \in Readers, reader'[r] = reader[r],
         reader[r] # Missing => load'[reader[r]] = load[reader[r]]
  PROVE  Allowed(r)
<1>1. ReadOf(r)' = ReadOf(r)
  BY DEF ReadOf
<1> QED BY <1>1 DEF Allowed

(* A reader whose load is new to it, or new.                               *)
LEMMA ReadGiven ==
  ASSUME VizInv, NEW r \in Readers, NEW l \in Loads, reader'[r] = l,
         load'[l].pc \in Pending \cup {"done", "failed"}, load'[l].key \in Keys,
         load'[l].pc = "done" =>
           /\ load'[l].at \in Nat /\ load'[l].at <= now
           /\ now < load'[l].at + Promised(load'[l].key)
  PROVE  Allowed(r)
<1>1. l # Missing
  BY ConstantFacts DEF Loads
<1>2. CASE load'[l].pc \in Pending
  <2>1. ReadOf(r)' = Reads!Waiting(load'[l].key)
    BY <1>1, <1>2 DEF ReadOf, Reads!Waiting, Pending
  <2> QED BY <2>1 DEF Allowed
<1>3. CASE load'[l].pc = "failed"
  <2>1. ReadOf(r)' = Reads!Failed(load'[l].key)
    BY <1>1, <1>3 DEF ReadOf, Reads!Failed
  <2> QED BY <2>1 DEF Allowed
<1>4. CASE load'[l].pc = "done"
  <2>1. ReadOf(r)' = Reads!Answered(load'[l].key, load'[l].at)
    BY <1>1, <1>4 DEF ReadOf, Reads!Answered
  <2> QED BY <1>4, <2>1 DEF Allowed
<1> QED BY <1>2, <1>3, <1>4

(* One load moves on; those who read it see it.                            *)
LEMMA ReadersOfLoad ==
  ASSUME VizInv, NEW l \in Loads, load[l].pc \in Pending,
         NEW x, x.pc \in Pending \cup {"done", "failed"}, x.key = load[l].key,
         x.pc = "done" => x.at \in Nat /\ x.at <= now /\ now < x.at + Promised(x.key),
         load' = [load EXCEPT ![l] = x], UNCHANGED <<now, reader>>
  PROVE  Reads!ReadersMove
<1>1. load'[l] = x /\ \A m \in Loads \ {l} : load'[m] = load[m]
  BY DEF VizInv, VizType
<1>2. load[l].key \in Keys
  BY LoadFields DEF VizInv, Pending
<1>3. ASSUME NEW r \in Readers PROVE Allowed(r)
  <2>1. CASE reader[r] = l
    BY <1>1, <1>2, <2>1, ReadGiven
  <2>2. CASE reader[r] # l
    <3>1. reader[r] # Missing => load'[reader[r]] = load[reader[r]]
      BY <1>1, <2>2 DEF VizInv, VizType
    <3> QED BY <3>1, ReadStays
  <2> QED BY <2>1, <2>2
<1> QED BY <1>3, ReadersMoveAllowed

(* Nothing the readers see moves.                                          *)
LEMMA ReadersRest ==
  ASSUME UNCHANGED <<now, load, reader>>
  PROVE  UNCHANGED <<now, [r \in Readers |-> ReadOf(r)]>>
BY DEF ReadOf

(* An answer in the map is given as long as its entry is not over.         *)
LEMMA JoinReads ==
  ASSUME VizInv, NEW r \in Readers, NEW k \in Keys, Join(r, k)
  PROVE  Reads!ReadersMove
<1>1. mem[k] \in 1..started /\ now < load[mem[k]].expires
  BY DEF Join, Current
<1>2. PICK l \in Loads : l = mem[k] /\ l # Missing
  BY <1>1, ConstantFacts DEF VizInv, VizType
<1>3. reader' = [reader EXCEPT ![r] = l] /\ UNCHANGED <<now, load>>
  BY <1>2 DEF Join
<1>4. load[l].pc \in Pending \cup {"done"} /\ load[l].key = k /\ load[l].expires \in Nat
  BY <1>2 DEF VizInv, Referred
<1>5. load[l].pc = "done" => load[l].at \in Nat /\ load[l].at <= now /\ now < load[l].at + Promised(k)
  <2> SUFFICES ASSUME load[l].pc = "done"
               PROVE  load[l].at \in Nat /\ load[l].at <= now /\ now < load[l].at + Promised(k)
    OBVIOUS
  <2>1. load[l].at <= now /\ load[l].expires <= load[l].at + Promised(k)
    BY <1>4, ConstantFacts DEF VizInv, AgeOfLoads
  <2>2. load[l].at \in Nat /\ now \in Nat /\ Promised(k) \in Nat
    BY LoadFields, ConstantFacts DEF VizInv, VizType
  <2> QED BY <1>1, <1>2, <1>4, <2>1, <2>2
<1>6. ASSUME NEW q \in Readers PROVE Allowed(q)
  <2>1. CASE q = r
    <3>1. reader'[q] = l
      BY <1>3, <2>1 DEF VizInv, VizType
    <3> QED BY <1>3, <1>4, <1>5, <3>1, ReadGiven
  <2>2. CASE q # r
    BY <1>3, <2>2, ReadStays DEF VizInv, VizType
  <2> QED BY <2>1, <2>2
<1> QED BY <1>3, <1>6, ReadersMoveAllowed

(* A load that starts is nobody else's yet.                                *)
LEMMA BeginReads ==
  ASSUME VizInv, NEW r \in Readers, NEW l \in Loads, Begin(r, l), NEW k \in Keys, NEW x,
         x.pc \in Pending, x.key = k, load' = [load EXCEPT ![l] = x], now' = now
  PROVE  Reads!ReadersMove
<1>1. l = started + 1 /\ reader' = [reader EXCEPT ![r] = l]
  BY DEF Begin
<1>2. load[l].pc = "free"
  <2>1. load[l].pc # "free" => l <= started
    BY DEF VizInv, Referred
  <2> QED BY <1>1, <2>1 DEF VizInv, VizType
<1>3. load'[l] = x /\ \A m \in Loads \ {l} : load'[m] = load[m]
  BY DEF VizInv, VizType
<1>4. ASSUME NEW q \in Readers PROVE Allowed(q)
  <2>1. CASE q = r
    <3>1. reader'[q] = l
      BY <1>1, <2>1 DEF VizInv, VizType
    <3>2. load'[l].pc \in Pending /\ load'[l].pc # "done" /\ load'[l].key \in Keys
      BY <1>3 DEF Pending
    <3> QED BY <3>1, <3>2, ReadGiven
  <2>2. CASE q # r
    <3>1. reader'[q] = reader[q]
      BY <1>1, <2>2 DEF VizInv, VizType
    <3>2. reader[q] # Missing => load'[reader[q]] = load[reader[q]]
      BY <1>2, <1>3 DEF VizInv, VizType, Referred
    <3> QED BY <3>1, <3>2, ReadStays
  <2> QED BY <2>1, <2>2
<1> QED BY <1>4, ReadersMoveAllowed

LEMMA StartReads ==
  ASSUME VizInv, NEW r \in Readers, NEW k \in Keys, Start(r, k)
  PROVE  Reads!ReadersMove
<1>1. PICK l \in Loads :
        /\ Begin(r, l) /\ now' = now
        /\ load' = [load EXCEPT ![l] = Load(IF k \in Cached THEN "reading" ELSE "sent", k, now + Ttl[k])]
  BY DEF Start
<1> PICK x : x = Load(IF k \in Cached THEN "reading" ELSE "sent", k, now + Ttl[k])
  OBVIOUS
<1>2. x.pc \in Pending /\ x.key = k
  BY DEF Load, Pending
<1> QED BY <1>1, <1>2, BeginReads

LEMMA StartDirectReads ==
  ASSUME VizInv, NEW r \in Readers, NEW k \in Cached, StartDirect(r, k)
  PROVE  Reads!ReadersMove
<1>1. PICK l \in Loads :
        Begin(r, l) /\ now' = now /\ load' = [load EXCEPT ![l] = Load("sent", k, Missing)]
  BY DEF StartDirect
<1> PICK x : x = Load("sent", k, Missing)
  OBVIOUS
<1>2. x.pc \in Pending /\ x.key = k /\ k \in Keys
  BY ConstantFacts DEF Load, Pending
<1> QED BY <1>1, <1>2, BeginReads

(* The source read the rows after the request was sent, and the request    *)
(* ended before its timeout.                                               *)
LEMMA AnswerReads ==
  ASSUME VizInv, NEW l \in Loads, Answer(l)
  PROVE  Reads!ReadersMove
<1>1. PICK t \in load[l].sent .. now : load' = [load EXCEPT ![l] = DoneLoad(l, t, l)]
  BY DEF Answer
<1>2. load[l].pc = "sent" /\ UNCHANGED <<now, reader>>
  BY DEF Answer
<1> PICK x : x = DoneLoad(l, t, l)
  OBVIOUS
<1>3. x.pc = "done" /\ x.key = load[l].key /\ x.at = t
  BY DEF DoneLoad
<1>4. t \in Nat /\ t <= now /\ now < t + Promised(load[l].key)
  <2>1. load[l].sent \in Nat /\ load[l].key \in Keys /\ now \in Nat /\ now <= load[l].sent + Timeout
    BY <1>2, SentFacts DEF VizInv, VizType
  <2>2. Promised(load[l].key) \in Nat /\ Promised(load[l].key) > Timeout /\ Timeout \in Nat
    BY <2>1, ConstantFacts
  <2> QED BY <2>1, <2>2
<1>5. load[l].pc \in Pending
  BY <1>2 DEF Pending
<1> QED BY <1>1, <1>2, <1>3, <1>4, <1>5, ReadersOfLoad

LEMMA FailReads ==
  ASSUME VizInv, NEW l \in Loads, load[l].pc \in Pending, Fail(l), UNCHANGED <<now, reader>>
  PROVE  Reads!ReadersMove
<1> PICK x : x = [pc |-> "failed", key |-> load[l].key]
  OBVIOUS
<1>1. load' = [load EXCEPT ![l] = x] /\ x.pc = "failed" /\ x.key = load[l].key
  BY DEF Fail
<1> QED BY <1>1, ReadersOfLoad

LEMMA SendReads ==
  ASSUME VizInv, NEW l \in Loads, load[l].pc \in Pending, load' = Send(l), UNCHANGED <<now, reader>>
  PROVE  Reads!ReadersMove
<1> PICK x : x = load'[l]
  OBVIOUS
<1>1. load[l] \in [pc : Pending, key : Keys, expires : Times, sent : Nat]
  BY LoadFields DEF VizInv
<1>2. load' = [load EXCEPT ![l] = x] /\ x.pc = "sent" /\ x.key = load[l].key
  BY <1>1 DEF Send, VizInv, VizType
<1> QED BY <1>2, ReadersOfLoad DEF Pending

(* An answer found on disk was read a TTL and a timeout ago at most.       *)
LEMMA GetReads == VizInv /\ Get => Reads!ReadersMove
<1> SUFFICES ASSUME VizInv, Get PROVE Reads!ReadersMove
  OBVIOUS
<1> PICK k, l : k = Head(queue).key /\ l = Head(queue).load
  OBVIOUS
<1> DEFINE e == IF db = "open" THEN disk[k] ELSE Missing
<1>1. queue # <<>> /\ Head(queue).op = "get" /\ UNCHANGED <<now, reader>>
  BY DEF Get, Ready
<1>2. k \in Cached /\ l \in Loads /\ l # Missing
  <2>1. Head(queue) \in Transactions
    BY <1>1, HeadFacts
  <2> QED BY <1>1, <2>1, ConstantFacts DEF Transactions, Loads
<1>3. load[l].pc \in Pending /\ load[l].key = k /\ load[l] \in [pc : Pending, key : Keys, expires : Times, sent : Nat]
  BY <1>1, <1>2, HeadFacts, LoadFields DEF VizInv
<1>4. e # Missing => e \in Entries /\ Fresh(e)
  BY <1>2 DEF VizInv, VizType, AgeOfEntries
<1>5. \/ load' = Send(l)
      \/ e # Missing /\ ~Expired(e, Ttl[k]) /\ load' = [load EXCEPT ![l] = DoneLoad(l, e.at, e.from)]
      \/ load' = [load EXCEPT ![l].pc = "deleting"]
  BY DEF Get
<1>6. CASE load' = Send(l)
  BY <1>1, <1>2, <1>3, <1>6, SendReads
<1>7. CASE e # Missing /\ ~Expired(e, Ttl[k]) /\ load' = [load EXCEPT ![l] = DoneLoad(l, e.at, e.from)]
  <2> PICK x : x = DoneLoad(l, e.at, e.from)
    OBVIOUS
  <2>1. x.pc = "done" /\ x.key = k /\ x.at = e.at
    BY <1>3 DEF DoneLoad
  <2>2. /\ e.at \in Nat /\ e.stamp \in Nat /\ now \in Nat
        /\ e.at <= e.stamp /\ e.stamp <= e.at + Timeout /\ e.stamp <= now /\ ~(now - e.stamp > Ttl[k])
    BY <1>4, <1>7 DEF Fresh, Expired, Entries, VizInv, VizType
  <2>3. Ttl[k] \in Nat /\ Ttl[k] > 0 /\ Promised(k) = 2 * Ttl[k] + Timeout /\ Timeout \in Nat
    BY <1>2, ConstantFacts
  <2> HIDE DEF e
  <2>4. e.at <= now /\ now < e.at + Promised(k)
    BY <2>2, <2>3
  <2> QED BY <1>1, <1>2, <1>3, <1>7, <2>1, <2>2, <2>4, ReadersOfLoad
<1>8. CASE load' = [load EXCEPT ![l].pc = "deleting"]
  <2> PICK x : x = [load[l] EXCEPT !.pc = "deleting"]
    OBVIOUS
  <2>1. x.pc = "deleting" /\ x.key = load[l].key /\ load' = [load EXCEPT ![l] = x]
    BY <1>2, <1>3, <1>8 DEF VizInv, VizType
  <2> QED BY <1>1, <1>2, <1>3, <2>1, ReadersOfLoad DEF Pending
<1> HIDE DEF e
<1> QED BY <1>5, <1>6, <1>7, <1>8

(* A deletion and a failure concern the load that awaits them, if any.     *)
LEMMA StorageReads ==
  ASSUME VizInv, Storage
  PROVE  Reads!ReadersMove \/ UNCHANGED <<now, [r \in Readers |-> ReadOf(r)]>>
<1>1. CASE Get
  BY <1>1, GetReads
<1>2. CASE Put \/ SweepExpired \/ ClearDisk
  BY <1>2, ReadersRest DEF Put, SweepExpired, ClearDisk
<1>3. CASE Delete
  <2> PICK l : l = Head(queue).load
    OBVIOUS
  <2>1. queue # <<>> /\ UNCHANGED <<now, reader>> /\ load' = IF l = Missing THEN load ELSE Send(l)
    BY <1>3 DEF Delete, Ready
  <2>2. CASE l = Missing
    BY <2>1, <2>2, ReadersRest
  <2>3. CASE l # Missing
    BY <2>1, <2>3, HeadFacts, SendReads
  <2> QED BY <2>2, <2>3
<1>4. CASE TransactionFails
  <2> PICK l : l = Head(queue).load
    OBVIOUS
  <2>1. queue # <<>> /\ UNCHANGED <<now, reader>> /\ IF l = Missing THEN UNCHANGED load ELSE Fail(l)
    BY <1>4 DEF TransactionFails
  <2>2. CASE l = Missing
    BY <2>1, <2>2, ReadersRest
  <2>3. CASE l # Missing
    BY <2>1, <2>3, HeadFacts, FailReads
  <2> QED BY <2>2, <2>3
<1> QED BY <1>1, <1>2, <1>3, <1>4 DEF Storage

LEMMA ReloadReads == Reload => Reads!ReadersMove
<1> SUFFICES ASSUME Reload, NEW r \in Readers PROVE now' = now /\ Allowed(r)
  BY ReadersMoveAllowed DEF Reload
<1>1. ReadOf(r)' = Reads!Idle /\ now' = now
  BY DEF Reload, ReadOf, Reads!Idle
<1> QED BY <1>1 DEF Allowed

LEMMA StepReads == VizInv /\ [VizNext]_vizVars => [Reads!Next]_<<now, [r \in Readers |-> ReadOf(r)]>>
<1> SUFFICES ASSUME VizInv, [VizNext]_vizVars
             PROVE  Reads!Next \/ UNCHANGED <<now, [r \in Readers |-> ReadOf(r)]>>
  OBVIOUS
<1>1. CASE UNCHANGED vizVars \/ Open \/ Clear \/ Rest
  BY <1>1, ReadersRest DEF vizVars, Open, Clear, Rest
<1>2. ASSUME NEW r \in Readers, NEW k \in Keys, Join(r, k) \/ Start(r, k) PROVE Reads!ReadersMove
  BY <1>2, JoinReads, StartReads
<1>3. ASSUME NEW r \in Readers, NEW k \in Cached, StartDirect(r, k) PROVE Reads!ReadersMove
  BY <1>3, StartDirectReads
<1>4. ASSUME NEW l \in Loads, Answer(l) \/ RequestFails(l) PROVE Reads!ReadersMove
  BY <1>4, AnswerReads, FailReads DEF RequestFails, Pending
<1>5. CASE Storage
  BY <1>5, StorageReads DEF Reads!Next
<1>6. CASE Reload
  BY <1>6, ReloadReads DEF Reads!Next
<1>7. CASE Tick
  BY <1>7 DEF Tick, ReadOf, Reads!Next, Reads!Tick
<1> QED BY <1>1, <1>2, <1>3, <1>4, <1>5, <1>6, <1>7 DEF VizNext, Reads!Next

(* Elements, map and database together keep the promise of BoundedReads:   *)
(* no element is given rows the source read longer ago than twice the TTL  *)
(* of its key and the time a request may take.                             *)
THEOREM VizDataKeepsItsBound == VizSpec => StalenessIsBounded
<1>1. VizInit => Reads!Init
  BY DEF VizInit, ReadOf, Reads!Init, Reads!Idle
<1> QED BY <1>1, StepReads, VizInvariant, PTL DEF VizSpec, StalenessIsBounded, Reads!Spec

-----------------------------------------------------------------------------
(* What a clear forgets.  Persisting is not awaited, so an answer that was *)
(* known when the caches were cleared may still be on its way to the       *)
(* database; but then the clearing of the database is still to come.  A    *)
(* load that asked the database before that is not in the map any more.    *)

(* The database is cleared after the transaction at i. *)
Clearing(i) == \E j \in DOMAIN queue : j > i /\ queue[j].op = "clear"

GoneLoads == gone \subseteq Loads /\ \A l \in gone : l <= started /\ load[l].pc \notin Pending

GoneEntries ==
  /\ \A k \in Cached : disk[k] # Missing /\ disk[k].from \in gone => Clearing(0)
  /\ \A i \in DOMAIN queue : queue[i].op = "put" /\ queue[i].entry.from \in gone => Clearing(i)

GetsAfter ==
  \A i \in DOMAIN queue : queue[i].op = "get" /\ Clearing(i) => mem[queue[i].key] # queue[i].load

GoneInv == GoneLoads /\ GoneEntries /\ GetsAfter /\ ClearForgets

(* The map keeps what it has, loses it, or gets a load that was free. *)
MapMoves ==
  \A k \in Keys : mem'[k] \in {mem[k], Missing} \/ (mem'[k] \in Loads /\ load[mem'[k]].pc = "free")

(* Which clearings are to come, when the queue loses its first d           *)
(* transactions and no clearing is asked for.                              *)
LEMMA ClearingMoves ==
  ASSUME VizInv, NEW d \in {0, 1}, NEW n \in Nat, n + d = Len(queue),
         queue' \in Seq(Transactions), n <= Len(queue'),
         \A j \in 1..n : queue'[j] = queue[j + d],
         \A j \in (n + 1)..Len(queue') : queue'[j].op # "clear",
         NEW i \in Nat
  PROVE  Clearing(i)' <=> Clearing(i + d)
<1>1. DOMAIN queue = 1..(n + d) /\ DOMAIN queue' = 1..Len(queue') /\ d \in Nat
  BY DEF VizInv, VizType
<1>2. ASSUME NEW j \in DOMAIN queue', j > i, queue'[j].op = "clear" PROVE Clearing(i + d)
  <2>1. j \in 1..n
    <3>1. j \in Nat /\ 1 <= j /\ j <= Len(queue') /\ Len(queue') \in Nat
      BY <1>1, <1>2
    <3>2. ~(j \in (n + 1)..Len(queue'))
      BY <1>2
    <3> QED BY <3>1, <3>2
  <2>2. j + d \in 1..(n + d) /\ j + d > i + d
    BY <1>1, <1>2, <2>1
  <2>3. queue[j + d].op = "clear"
    BY <1>2, <2>1
  <2> QED BY <1>1, <2>2, <2>3 DEF Clearing
<1>3. ASSUME NEW j \in DOMAIN queue, j > i + d, queue[j].op = "clear"
      PROVE  \E m \in DOMAIN queue' : m > i /\ queue'[m].op = "clear"
  <2>1. j - d \in 1..n /\ j - d > i /\ (j - d) + d = j
    <3>1. j \in 1..(n + d)
      BY <1>1
    <3> QED BY <1>1, <1>3, <3>1
  <2>2. queue'[j - d] = queue[j]
    BY <2>1
  <2>3. j - d \in 1..Len(queue')
    BY <1>1, <2>1
  <2> QED BY <1>1, <1>3, <2>1, <2>2, <2>3
<1> QED BY <1>2, <1>3 DEF Clearing

(* The first transaction is done, others that clear nothing are asked for. *)
LEMMA GoneMoves ==
  ASSUME VizInv, GoneInv, gone' \in {gone, {}}, NEW d \in {0, 1}, NEW n \in Nat, n + d = Len(queue),
         queue' \in Seq(Transactions), n <= Len(queue'),
         \A i \in 1..n : queue'[i] = queue[i + d],
         \A i \in (n + 1)..Len(queue') :
           queue'[i].op # "clear" /\ (queue'[i].op = "put" => queue'[i].entry.from \notin gone),
         d = 1 /\ queue[1].op = "clear" => gone' = {} \/ \A k \in Cached : disk'[k] = Missing,
         \A k \in Cached : \/ disk'[k] \in {disk[k], Missing}
                           \/ d = 1 /\ queue[1].op = "put" /\ disk'[k] = queue[1].entry,
         MapMoves
  PROVE  GoneEntries' /\ GetsAfter'
<1>1. DOMAIN queue = 1..(n + d) /\ DOMAIN queue' = 1..Len(queue') /\ d \in Nat /\ Len(queue') \in Nat
  BY DEF VizInv, VizType
<1>2. \A i \in Nat : Clearing(i)' <=> Clearing(i + d)
  BY ClearingMoves
<1>3. d = 1 /\ queue[1].op # "clear" => (Clearing(0) <=> Clearing(1))
  <2> SUFFICES ASSUME d = 1, queue[1].op # "clear", NEW j \in DOMAIN queue, j > 0, queue[j].op = "clear" PROVE j > 1
    BY <1>1 DEF Clearing
  <2> QED BY <1>1
<1>4. ASSUME NEW k \in Cached, disk'[k] # Missing, disk'[k].from \in gone' PROVE Clearing(0)'
  <2>1. Clearing(0) \/ (d = 1 /\ Clearing(1))
    <3>1. CASE disk'[k] = disk[k]
      BY <1>4, <3>1 DEF GoneInv, GoneEntries
    <3>2. CASE d = 1 /\ queue[1].op = "put" /\ disk'[k] = queue[1].entry
      <4>1. 1 \in DOMAIN queue
        BY <1>1, <3>2
      <4> QED BY <1>4, <3>2, <4>1 DEF GoneInv, GoneEntries
    <3> QED BY <1>4, <3>1, <3>2
  <2>2. Clearing(0 + d)
    <3>1. CASE d = 0
      BY <2>1, <3>1
    <3>2. CASE d = 1
      <4>1. queue[1].op # "clear"
        BY <1>4, <3>2
      <4> QED BY <1>3, <2>1, <3>2, <4>1
    <3> QED BY <3>1, <3>2
  <2> QED BY <1>2, <2>2
<1>5. \A i \in DOMAIN queue' : i \in 1..n \/ (i \notin 1..n /\ i \in (n + 1)..Len(queue'))
  BY <1>1
<1>6. \A i \in 1..n : i + d \in DOMAIN queue /\ i \in Nat
  <2> SUFFICES ASSUME NEW i \in 1..n PROVE i + d \in 1..(n + d) /\ i \in Nat
    BY <1>1
  <2> QED BY <1>1
<1>7. ASSUME NEW i \in DOMAIN queue', queue'[i].op = "put", queue'[i].entry.from \in gone' PROVE Clearing(i)'
  <2>1. i \in 1..n
    BY <1>5, <1>7
  <2>2. Clearing(i + d)
    BY <1>6, <1>7, <2>1 DEF GoneInv, GoneEntries
  <2> QED BY <1>2, <1>6, <2>1, <2>2
<1>8. ASSUME NEW i \in DOMAIN queue', queue'[i].op = "get", Clearing(i)'
      PROVE  mem'[queue'[i].key] # queue'[i].load
  <2>1. PICK j \in DOMAIN queue' : j > i /\ queue'[j].op = "clear"
    BY <1>8 DEF Clearing
  <2>2. i \in 1..n
    <3>1. j \in 1..n
      BY <1>5, <2>1
    <3> QED BY <1>1, <2>1, <3>1
  <2>3. i + d \in DOMAIN queue /\ Clearing(i + d) /\ queue'[i] = queue[i + d]
    BY <1>2, <1>6, <1>8, <2>2
  <2> DEFINE t == queue[i + d]
  <2>4. t \in Transactions /\ t.op = "get"
    BY <1>8, <2>3 DEF VizInv, VizType
  <2>5. t.key \in Keys /\ t.load \in Loads /\ t.load # Missing
    BY <2>4, ConstantFacts DEF Transactions, Loads
  <2>6. load[t.load].pc # "free"
    BY <2>3, <2>5, AwaitedLoads
  <2>7. mem[t.key] # t.load
    BY <1>8, <2>3 DEF GoneInv, GetsAfter
  <2> HIDE DEF t
  <2>8. mem'[t.key] # t.load
    BY <2>5, <2>6, <2>7 DEF MapMoves
  <2> QED BY <2>3, <2>8 DEF t
<1>9. \A i \in DOMAIN queue' : queue'[i].op = "get" /\ Clearing(i)' => mem'[queue'[i].key] # queue'[i].load
  BY <1>8
<1> QED BY <1>4, <1>7, <1>9 DEF GoneEntries, GetsAfter

(* A load that becomes x: one that is gone does not start again, and what  *)
(* the map holds is not given what is gone.                                *)
LEMMA GoneLoad ==
  ASSUME VizInv, GoneInv, NEW l \in Loads, NEW x, load' = [load EXCEPT ![l] = x],
         gone' = gone, started' \in {started, started + 1}, MapMoves,
         x.pc \in Pending => l \notin gone,
         x.pc = "done" => x.from \notin gone \/ \A k \in Keys : mem'[k] # l
  PROVE  GoneLoads' /\ ClearForgets'
<1>1. load'[l] = x /\ \A m \in Loads \ {l} : load'[m] = load[m]
  BY DEF VizInv, VizType
<1>2. GoneLoads'
  BY <1>1 DEF GoneInv, GoneLoads, VizInv, VizType, Loads
<1>3. ASSUME NEW k \in Keys, mem'[k] # Missing, load'[mem'[k]].pc = "done"
      PROVE  load'[mem'[k]].from \notin gone
  <2>1. CASE mem'[k] = l
    BY <1>1, <1>3, <2>1
  <2>2. CASE mem'[k] # l /\ mem'[k] = mem[k]
    <3>1. load'[mem[k]] = load[mem[k]]
      BY <1>1, <1>3, <2>2 DEF VizInv, VizType
    <3> QED BY <1>3, <2>2, <3>1 DEF GoneInv, ClearForgets
  <2>3. CASE mem'[k] # l /\ mem'[k] \in Loads /\ load[mem'[k]].pc = "free"
    BY <1>1, <1>3, <2>3
  <2> QED BY <1>3, <2>1, <2>2, <2>3 DEF MapMoves
<1> QED BY <1>2, <1>3 DEF ClearForgets

(* The same when no load moves.                                            *)
LEMMA GoneLoadsStay ==
  ASSUME VizInv, GoneInv, UNCHANGED <<load, started>>, gone' \in {gone, {}}, MapMoves
  PROVE  GoneLoads' /\ ClearForgets'
<1>1. GoneLoads'
  BY DEF GoneInv, GoneLoads
<1>2. ClearForgets'
  BY DEF GoneInv, ClearForgets, MapMoves
<1> QED BY <1>1, <1>2

(* The queue as GoneMoves wants it, when it stays, grows or loses its head.*)
LEMMA GoneQueueStays ==
  ASSUME VizInv, GoneInv, UNCHANGED <<gone, disk, queue>>, MapMoves
  PROVE  GoneEntries' /\ GetsAfter'
<1> DEFINE n == Len(queue)
<1>1. queue \in Seq(Transactions) /\ n \in Nat /\ n + 0 = Len(queue) /\ (n + 1)..n = {}
  BY DEF VizInv, VizType
<1>2. \A i \in 1..n : queue'[i] = queue[i + 0]
  OBVIOUS
<1>3. queue' \in Seq(Transactions) /\ n <= Len(queue') /\ (n + 1)..Len(queue') = {}
  BY <1>1
<1> HIDE DEF n
<1> QED BY <1>1, <1>2, <1>3, GoneMoves

LEMMA GoneQueueGrows ==
  ASSUME VizInv, GoneInv, UNCHANGED <<gone, disk>>, MapMoves,
         NEW t \in Transactions, queue' = Append(queue, t), t.op # "clear",
         t.op = "put" => t.entry.from \notin gone
  PROVE  GoneEntries' /\ GetsAfter'
<1> DEFINE n == Len(queue)
<1>1. queue \in Seq(Transactions)
  BY DEF VizInv, VizType
<1>2. n \in Nat /\ n + 0 = Len(queue) /\ Len(queue') = n + 1 /\ queue' \in Seq(Transactions) /\ n <= Len(queue')
  BY <1>1
<1>3. \A i \in 1..n : queue'[i] = queue[i + 0]
  BY <1>1
<1>4. queue'[n + 1] = t
  BY <1>1
<1> HIDE DEF n
<1>5. \A i \in (n + 1)..Len(queue') : queue'[i] = t
  BY <1>2, <1>4
<1> QED BY <1>2, <1>3, <1>5, GoneMoves

LEMMA GoneQueuePops ==
  ASSUME VizInv, GoneInv, gone' \in {gone, {}}, MapMoves, queue # <<>>, queue' = Tail(queue),
         Head(queue).op = "clear" => gone' = {} \/ \A k \in Cached : disk'[k] = Missing,
         \A k \in Cached : \/ disk'[k] \in {disk[k], Missing}
                           \/ Head(queue).op = "put" /\ disk'[k] = Head(queue).entry
  PROVE  GoneEntries' /\ GetsAfter'
<1> DEFINE n == Len(queue) - 1
<1>1. queue \in Seq(Transactions)
  BY DEF VizInv, VizType
<1>2. n \in Nat /\ n + 1 = Len(queue) /\ Len(queue') = n /\ queue' \in Seq(Transactions) /\ n <= Len(queue') /\ (n + 1)..Len(queue') = {}
  BY <1>1
<1>3. \A i \in 1..n : queue'[i] = queue[i + 1]
  BY <1>1
<1>4. Head(queue) = queue[1]
  BY HeadFacts
<1> HIDE DEF n
<1> QED BY <1>2, <1>3, <1>4, GoneMoves

LEMMA SameMap == ASSUME mem' = mem PROVE MapMoves
BY DEF MapMoves

LEMMA JoinGone ==
  ASSUME VizInv, GoneInv, NEW r \in Readers, NEW k \in Keys, Join(r, k)
  PROVE  GoneInv'
<1>1. UNCHANGED <<mem, load, started, disk, queue, gone>>
  BY DEF Join
<1> QED BY <1>1, SameMap, GoneLoadsStay, GoneQueueStays DEF GoneInv

(* A new load asks for nothing that is gone. *)
LEMMA BeginGone ==
  ASSUME VizInv, GoneInv, NEW r \in Readers, NEW l \in Loads, Begin(r, l), NEW x, x.pc \in Pending,
         load' = [load EXCEPT ![l] = x], gone' = gone,
         \A k \in Keys : mem'[k] \in {mem[k], Missing, l}
  PROVE  MapMoves /\ GoneLoads' /\ ClearForgets'
<1>1. l = started + 1 /\ started' = started + 1 /\ load[l].pc = "free"
  <2>1. l = started + 1 /\ started' = started + 1
    BY DEF Begin
  <2>2. load[l].pc # "free" => l <= started
    BY DEF VizInv, Referred
  <2> QED BY <2>1, <2>2 DEF VizInv, VizType
<1>2. l \notin gone
  BY <1>1 DEF GoneInv, GoneLoads, VizInv, VizType
<1>3. MapMoves
  BY <1>1 DEF MapMoves
<1> QED BY <1>1, <1>2, <1>3, GoneLoad DEF Pending

LEMMA StartGone ==
  ASSUME VizInv, GoneInv, NEW r \in Readers, NEW k \in Keys, Start(r, k)
  PROVE  GoneInv'
<1>1. PICK l \in Loads :
        /\ Begin(r, l) /\ UNCHANGED <<disk, gone>>
        /\ mem' = Pruned([mem EXCEPT ![k] = l], l)
        /\ load' = [load EXCEPT ![l] = Load(IF k \in Cached THEN "reading" ELSE "sent", k, now + Ttl[k])]
        /\ queue' = IF k \in Cached THEN Append(queue, Transaction("get", k, l)) ELSE queue
  BY DEF Start
<1>2. \A j \in Keys : mem'[j] \in {mem[j], Missing, l}
  <2>1. [mem EXCEPT ![k] = l] \in [Keys -> Loads \cup {Missing}]
    BY DEF VizInv, VizType
  <2>2. \A j \in Keys : mem'[j] \in {[mem EXCEPT ![k] = l][j], Missing}
    BY <1>1, <2>1, PrunedEntries
  <2> QED BY <2>2 DEF VizInv, VizType
<1> PICK x : x = Load(IF k \in Cached THEN "reading" ELSE "sent", k, now + Ttl[k])
  OBVIOUS
<1>3. x.pc \in Pending
  BY DEF Load, Pending
<1>4. MapMoves /\ GoneLoads' /\ ClearForgets'
  BY <1>1, <1>2, <1>3, BeginGone
<1>5. GoneEntries' /\ GetsAfter'
  <2>1. CASE k \notin Cached
    BY <1>1, <1>4, <2>1, GoneQueueStays
  <2>2. CASE k \in Cached
    <3> PICK t : t = Transaction("get", k, l)
      OBVIOUS
    <3>1. t \in Transactions /\ t.op = "get" /\ queue' = Append(queue, t)
      BY <1>1, <2>2 DEF Transaction, Transactions
    <3> QED BY <1>1, <1>4, <3>1, GoneQueueGrows
  <2> QED BY <2>1, <2>2
<1> QED BY <1>4, <1>5 DEF GoneInv

LEMMA StartDirectGone ==
  ASSUME VizInv, GoneInv, NEW r \in Readers, NEW k \in Cached, StartDirect(r, k)
  PROVE  GoneInv'
<1>1. PICK l \in Loads :
        /\ Begin(r, l) /\ UNCHANGED <<mem, disk, queue, gone>>
        /\ load' = [load EXCEPT ![l] = Load("sent", k, Missing)]
  BY DEF StartDirect
<1> PICK x : x = Load("sent", k, Missing)
  OBVIOUS
<1>2. x.pc \in Pending /\ \A j \in Keys : mem'[j] \in {mem[j], Missing, l}
  BY <1>1 DEF Load, Pending
<1>3. MapMoves /\ GoneLoads' /\ ClearForgets'
  BY <1>1, <1>2, BeginGone
<1> QED BY <1>1, <1>3, GoneQueueStays DEF GoneInv

(* Whoever answers a request after the clear answers with rows of its own. *)
LEMMA AnswerGone ==
  ASSUME VizInv, GoneInv, NEW l \in Loads, Answer(l)
  PROVE  GoneInv'
<1>1. PICK t \in load[l].sent .. now :
        /\ load' = [load EXCEPT ![l] = DoneLoad(l, t, l)]
        /\ queue' = IF load[l].expires # Missing /\ load[l].key \in Cached
                    THEN Append(queue, [op |-> "put", key |-> load[l].key, load |-> Missing,
                                        entry |-> [at |-> t, stamp |-> now, from |-> l]])
                    ELSE queue
  BY DEF Answer
<1>2. load[l].pc = "sent" /\ UNCHANGED <<mem, started, disk, gone>>
  BY DEF Answer
<1>3. l \notin gone
  BY <1>2 DEF GoneInv, GoneLoads, Pending
<1> PICK x : x = DoneLoad(l, t, l)
  OBVIOUS
<1>4. x.pc = "done" /\ x.from = l
  BY DEF DoneLoad
<1>5. GoneLoads' /\ ClearForgets'
  BY <1>1, <1>2, <1>3, <1>4, SameMap, GoneLoad DEF Pending
<1>6. GoneEntries' /\ GetsAfter'
  <2>1. CASE queue' = queue
    BY <1>2, <2>1, SameMap, GoneQueueStays
  <2>2. CASE queue' # queue
    <3> PICK p : p = [op |-> "put", key |-> load[l].key, load |-> Missing,
                      entry |-> [at |-> t, stamp |-> now, from |-> l]]
      OBVIOUS
    <3>1. load[l].key \in Cached /\ queue' = Append(queue, p)
      BY <1>1, <2>2
    <3>2. t \in Nat /\ now \in Nat
      BY <1>2, SentFacts DEF VizInv, VizType
    <3>3. p \in Transactions /\ p.op = "put" /\ p.entry.from = l
      BY <3>1, <3>2 DEF Transactions, Entries
    <3> QED BY <1>2, <1>3, <3>1, <3>3, SameMap, GoneQueueGrows
  <2> QED BY <2>1, <2>2
<1> QED BY <1>5, <1>6 DEF GoneInv

LEMMA FailGone ==
  ASSUME VizInv, GoneInv, NEW l \in Loads, Fail(l), UNCHANGED <<gone, started>>
  PROVE  MapMoves /\ GoneLoads' /\ ClearForgets'
<1> PICK x : x = [pc |-> "failed", key |-> load[l].key]
  OBVIOUS
<1>1. load' = [load EXCEPT ![l] = x] /\ x.pc = "failed"
  BY DEF Fail
<1>2. MapMoves
  BY DEF Fail, MapMoves, VizInv, VizType
<1> QED BY <1>1, <1>2, GoneLoad DEF Pending

LEMMA RequestFailsGone ==
  ASSUME VizInv, GoneInv, NEW l \in Loads, RequestFails(l)
  PROVE  GoneInv'
<1>1. Fail(l) /\ UNCHANGED <<started, disk, queue, gone>>
  BY DEF RequestFails
<1> QED BY <1>1, FailGone, GoneQueueStays DEF GoneInv

LEMMA SendGone ==
  ASSUME VizInv, GoneInv, NEW l \in Loads, load[l].pc \in Pending, load' = Send(l),
         UNCHANGED <<mem, started, gone>>
  PROVE  GoneLoads' /\ ClearForgets'
<1> PICK x : x = load'[l]
  OBVIOUS
<1>1. load[l] \in [pc : Pending, key : Keys, expires : Times, sent : Nat]
  BY LoadFields DEF VizInv
<1>2. load' = [load EXCEPT ![l] = x] /\ x.pc = "sent"
  BY <1>1 DEF Send, VizInv, VizType
<1>3. l \notin gone
  BY DEF GoneInv, GoneLoads
<1> QED BY <1>2, <1>3, SameMap, GoneLoad DEF Pending

(* What is found on disk while no clearing of the database is to come is   *)
(* not gone; and while one is, the load is not in the map.                 *)
LEMMA GetGone == VizInv /\ GoneInv /\ Get => GoneInv'
<1> SUFFICES ASSUME VizInv, GoneInv, Get PROVE GoneInv'
  OBVIOUS
<1> PICK k, l : k = Head(queue).key /\ l = Head(queue).load
  OBVIOUS
<1> DEFINE e == IF db = "open" THEN disk[k] ELSE Missing
<1>1. queue # <<>> /\ Head(queue).op = "get" /\ UNCHANGED <<mem, started, disk, gone>>
  BY DEF Get, Ready
<1>2. k \in Cached /\ k \in Keys /\ l \in Loads /\ l # Missing
  <2>1. Head(queue) \in Transactions
    BY <1>1, HeadFacts
  <2> QED BY <1>1, <2>1, ConstantFacts DEF Transactions, Loads
<1>3. load[l].pc \in Pending /\ load[l].key = k /\ load[l] \in [pc : Pending, key : Keys, expires : Times, sent : Nat]
  BY <1>1, <1>2, HeadFacts, LoadFields DEF VizInv
<1>4. l \notin gone
  BY <1>3 DEF GoneInv, GoneLoads
<1>5. queue' = Tail(queue) => GoneEntries' /\ GetsAfter'
  BY <1>1, SameMap, GoneQueuePops
<1>6. CASE load' = Send(l) /\ queue' = Tail(queue)
  BY <1>1, <1>2, <1>3, <1>5, <1>6, SendGone DEF GoneInv
<1>7. CASE e # Missing /\ load' = [load EXCEPT ![l] = DoneLoad(l, e.at, e.from)] /\ queue' = Tail(queue)
  <2> PICK x : x = DoneLoad(l, e.at, e.from)
    OBVIOUS
  <2>1. x.pc = "done" /\ x.from = e.from
    BY DEF DoneLoad
  <2>2. ASSUME e.from \in gone, NEW j \in Keys, mem[j] = l PROVE FALSE
    <3>1. j = k
      BY <1>2, <1>3, <2>2 DEF VizInv, Referred
    <3>2. 1 \in DOMAIN queue /\ queue[1] = Head(queue) /\ queue \in Seq(Transactions)
      BY <1>1, HeadFacts DEF VizInv, VizType
    <3>3. Clearing(0)
      BY <1>2, <1>7, <2>2 DEF GoneInv, GoneEntries
    <3>4. Clearing(1)
      <4>1. PICK i \in DOMAIN queue : i > 0 /\ queue[i].op = "clear"
        BY <3>3 DEF Clearing
      <4>2. i # 1 /\ i \in Nat
        BY <1>1, <3>2, <4>1
      <4> QED BY <4>1, <4>2 DEF Clearing
    <3> QED BY <1>1, <2>2, <3>1, <3>2, <3>4 DEF GoneInv, GetsAfter
  <2>3. x.from \notin gone \/ \A j \in Keys : mem'[j] # l
    BY <1>1, <2>1, <2>2
  <2>4. GoneLoads' /\ ClearForgets'
    BY <1>1, <1>2, <1>7, <2>1, <2>3, SameMap, GoneLoad DEF Pending
  <2> QED BY <1>5, <1>7, <2>4 DEF GoneInv
<1>8. CASE load' = [load EXCEPT ![l].pc = "deleting"] /\ queue' = Append(Tail(queue), Transaction("delete", k, l))
  <2> PICK x : x = [load[l] EXCEPT !.pc = "deleting"]
    OBVIOUS
  <2>1. x.pc = "deleting" /\ load' = [load EXCEPT ![l] = x]
    BY <1>2, <1>3, <1>8 DEF VizInv, VizType
  <2>2. GoneLoads' /\ ClearForgets'
    BY <1>1, <1>2, <1>4, <2>1, SameMap, GoneLoad DEF Pending
  <2> PICK t : t = Transaction("delete", k, l)
    OBVIOUS
  <2> DEFINE n == Len(queue) - 1
  <2>3. t \in Transactions /\ t.op = "delete" /\ queue' = Append(Tail(queue), t) /\ queue \in Seq(Transactions)
    BY <1>2, <1>8 DEF Transactions, Transaction, VizInv, VizType
  <2>4. n \in Nat /\ n + 1 = Len(queue) /\ Len(queue') = n + 1 /\ queue' \in Seq(Transactions) /\ n <= Len(queue')
    BY <1>1, <2>3
  <2>5. \A i \in 1..n : queue'[i] = queue[i + 1]
    BY <1>1, <2>3
  <2>6. queue'[n + 1] = t /\ queue[1].op = "get"
    BY <1>1, <2>3, HeadFacts
  <2> HIDE DEF n
  <2>7. \A i \in (n + 1)..Len(queue') : queue'[i] = t
    BY <2>4, <2>6
  <2>8. GoneEntries' /\ GetsAfter'
    BY <1>1, <2>3, <2>4, <2>5, <2>6, <2>7, SameMap, GoneMoves
  <2> QED BY <2>2, <2>8 DEF GoneInv
<1>9. \/ load' = Send(l) /\ queue' = Tail(queue)
      \/ e # Missing /\ load' = [load EXCEPT ![l] = DoneLoad(l, e.at, e.from)] /\ queue' = Tail(queue)
      \/ load' = [load EXCEPT ![l].pc = "deleting"] /\ queue' = Append(Tail(queue), Transaction("delete", k, l))
  BY DEF Get
<1> HIDE DEF e
<1> QED BY <1>6, <1>7, <1>8, <1>9

LEMMA PutGone == VizInv /\ GoneInv /\ Put => GoneInv'
<1> SUFFICES ASSUME VizInv, GoneInv, Put PROVE GoneInv'
  OBVIOUS
<1>1. /\ queue # <<>> /\ Head(queue).op = "put" /\ queue' = Tail(queue)
      /\ UNCHANGED <<mem, load, started, gone>>
  BY DEF Put, Ready
<1>2. \A k \in Cached : disk'[k] = disk[k] \/ disk'[k] = Head(queue).entry
  BY DEF Put, VizInv, VizType
<1> QED BY <1>1, <1>2, SameMap, GoneLoadsStay, GoneQueuePops DEF GoneInv

LEMMA DeleteGone == VizInv /\ GoneInv /\ Delete => GoneInv'
<1> SUFFICES ASSUME VizInv, GoneInv, Delete PROVE GoneInv'
  OBVIOUS
<1> PICK l : l = Head(queue).load
  OBVIOUS
<1>1. /\ queue # <<>> /\ Head(queue).op = "delete" /\ queue' = Tail(queue)
      /\ load' = IF l = Missing THEN load ELSE Send(l)
      /\ UNCHANGED <<mem, started, gone>>
  BY DEF Delete, Ready
<1>2. \A k \in Cached : disk'[k] \in {disk[k], Missing}
  BY DEF Delete, VizInv, VizType
<1>3. GoneEntries' /\ GetsAfter'
  BY <1>1, <1>2, SameMap, GoneQueuePops
<1>4. GoneLoads' /\ ClearForgets'
  <2>1. CASE l = Missing
    BY <1>1, <2>1, SameMap, GoneLoadsStay
  <2>2. CASE l # Missing
    BY <1>1, <2>2, HeadFacts, SendGone
  <2> QED BY <2>1, <2>2
<1> QED BY <1>3, <1>4 DEF GoneInv

LEMMA SweepGone == VizInv /\ GoneInv /\ SweepExpired => GoneInv'
<1> SUFFICES ASSUME VizInv, GoneInv, SweepExpired PROVE GoneInv'
  OBVIOUS
<1>1. queue # <<>> /\ Head(queue).op = "sweep" /\ UNCHANGED <<mem, load, started, disk, gone>>
  BY DEF SweepExpired, Ready
<1>2. PICK s \in Seq([op : {"delete"}, key : Cached, load : {Missing}]) : queue' = Tail(queue) \o s
  BY <1>1, SweepQueue
<1> DEFINE n == Len(queue) - 1
<1>3. /\ n \in Nat /\ n + 1 = Len(queue) /\ queue' \in Seq(Transactions) /\ n <= Len(queue')
      /\ \A i \in 1..n : queue'[i] = queue[i + 1]
      /\ \A i \in (n + 1)..Len(queue') : queue'[i].op = "delete" /\ queue'[i].load = Missing
  BY <1>1, <1>2, SweptQueue
<1>4. queue[1].op = "sweep"
  BY <1>1, HeadFacts
<1> HIDE DEF n
<1>5. GoneEntries' /\ GetsAfter'
  BY <1>1, <1>3, <1>4, SameMap, GoneMoves
<1> QED BY <1>1, <1>5, SameMap, GoneLoadsStay DEF GoneInv

LEMMA ClearDiskGone == VizInv /\ GoneInv /\ ClearDisk => GoneInv'
<1> SUFFICES ASSUME VizInv, GoneInv, ClearDisk PROVE GoneInv'
  OBVIOUS
<1>1. queue # <<>> /\ queue' = Tail(queue) /\ UNCHANGED <<mem, load, started>> /\ gone' \in {gone, {}}
  BY DEF ClearDisk, Ready
<1>2. gone' = {} \/ \A k \in Cached : disk'[k] = Missing
  BY DEF ClearDisk
<1>3. \A k \in Cached : disk'[k] \in {disk[k], Missing}
  BY DEF ClearDisk, VizInv, VizType
<1> QED BY <1>1, <1>2, <1>3, SameMap, GoneLoadsStay, GoneQueuePops DEF GoneInv

LEMMA TransactionFailsGone == VizInv /\ GoneInv /\ TransactionFails => GoneInv'
<1> SUFFICES ASSUME VizInv, GoneInv, TransactionFails PROVE GoneInv'
  OBVIOUS
<1> PICK l : l = Head(queue).load
  OBVIOUS
<1>1. queue # <<>> /\ queue' = Tail(queue) /\ UNCHANGED <<started, disk>>
  BY DEF TransactionFails
<1>2. IF l = Missing THEN UNCHANGED <<load, mem>> ELSE Fail(l)
  BY DEF TransactionFails
<1>3. gone' \in {gone, {}} /\ (Head(queue).op = "clear" => gone' = {}) /\ (l # Missing => gone' = gone)
  <2>1. Head(queue) \in Transactions
    BY <1>1, HeadFacts
  <2>2. Head(queue).op = "clear" => l = Missing
    BY <2>1 DEF Transactions
  <2> QED BY <2>2 DEF TransactionFails
<1>4. MapMoves /\ GoneLoads' /\ ClearForgets'
  <2>1. CASE l = Missing
    BY <1>1, <1>2, <1>3, <2>1, SameMap, GoneLoadsStay
  <2>2. CASE l # Missing
    BY <1>1, <1>2, <1>3, <2>2, HeadFacts, FailGone
  <2> QED BY <2>1, <2>2
<1>5. \A k \in Cached : disk'[k] \in {disk[k], Missing}
  BY <1>1
<1> QED BY <1>1, <1>3, <1>4, <1>5, GoneQueuePops DEF GoneInv

(* All that is done is gone, and the database is cleared after all that is *)
(* on its way there.                                                       *)
LEMMA ClearGone == VizInv /\ GoneInv /\ Clear => GoneInv'
<1> SUFFICES ASSUME VizInv, GoneInv, Clear PROVE GoneInv'
  OBVIOUS
<1> PICK t : t = Transaction("clear", Missing, Missing)
  OBVIOUS
<1> DEFINE n == Len(queue)
<1>1. /\ mem' = [k \in Keys |-> Missing] /\ queue' = Append(queue, t) /\ t.op = "clear"
      /\ gone' = Done /\ UNCHANGED <<load, started, disk>>
  BY DEF Clear, Transaction
<1>2. queue \in Seq(Transactions) /\ t \in Transactions
  BY DEF VizInv, VizType, Transaction, Transactions
<1>3. n \in Nat /\ DOMAIN queue' = 1..(n + 1) /\ queue'[n + 1] = t
  BY <1>1, <1>2
<1> HIDE DEF n
<1>4. \A i \in Nat : i <= n => Clearing(i)'
  <2> SUFFICES ASSUME NEW i \in Nat, i <= n PROVE \E j \in DOMAIN queue' : j > i /\ queue'[j].op = "clear"
    BY DEF Clearing
  <2>1. n + 1 \in DOMAIN queue' /\ n + 1 > i
    BY <1>3
  <2> QED BY <1>1, <1>3, <2>1
<1>5. GoneEntries'
  <2>1. ASSUME NEW i \in DOMAIN queue', queue'[i].op = "put" PROVE Clearing(i)'
    <3>1. i \in Nat /\ i <= n
      BY <1>1, <1>3, <2>1
    <3> QED BY <1>4, <3>1
  <2>2. Clearing(0)'
    BY <1>3, <1>4
  <2> QED BY <2>1, <2>2 DEF GoneEntries
<1>6. GetsAfter'
  <2> SUFFICES ASSUME NEW i \in DOMAIN queue', queue'[i].op = "get" PROVE mem'[queue'[i].key] # queue'[i].load
    BY DEF GetsAfter
  <2>1. queue'[i] \in Transactions
    BY <1>1, <1>2, <1>3
  <2>2. queue'[i].key \in Keys /\ queue'[i].load # Missing
    BY <2>1, ConstantFacts DEF Transactions, Loads
  <2> QED BY <1>1, <2>2
<1>7. GoneLoads' /\ ClearForgets'
  BY <1>1 DEF GoneLoads, ClearForgets, Done, VizInv, Referred, Pending
<1> QED BY <1>5, <1>6, <1>7 DEF GoneInv

(* A page that starts finds on disk what no clear is to come for.          *)
LEMMA ReloadGone == VizInv /\ GoneInv /\ Reload => GoneInv'
<1> SUFFICES ASSUME VizInv, GoneInv, Reload PROVE GoneInv'
  OBVIOUS
<1>1. /\ mem' = [k \in Keys |-> Missing] /\ load' = [l \in Loads |-> [pc |-> "free"]]
      /\ queue' = <<Sweep>> /\ UNCHANGED <<started, disk>>
      /\ gone' = IF \E i \in DOMAIN queue : queue[i].op = "clear" THEN {} ELSE gone
  BY DEF Reload
<1>2. gone' # {} => gone' = gone /\ ~Clearing(0)
  BY <1>1 DEF Clearing
<1>3. GoneLoads' /\ ClearForgets'
  BY <1>1 DEF GoneInv, GoneLoads, ClearForgets, Pending
<1>4. GoneEntries' /\ GetsAfter'
  BY <1>1, <1>2 DEF GoneInv, GoneEntries, GetsAfter, Sweep, Transaction
<1> QED BY <1>3, <1>4 DEF GoneInv

LEMMA StepGone == VizInv /\ GoneInv /\ [VizNext]_vizVars => GoneInv'
<1> SUFFICES ASSUME VizInv, GoneInv, [VizNext]_vizVars PROVE GoneInv'
  OBVIOUS
<1>1. CASE UNCHANGED <<mem, load, started, disk, queue, gone>>
  BY <1>1, SameMap, GoneLoadsStay, GoneQueueStays DEF GoneInv
<1>2. ASSUME NEW r \in Readers, NEW k \in Keys, Join(r, k) \/ Start(r, k) PROVE GoneInv'
  BY <1>2, JoinGone, StartGone
<1>3. ASSUME NEW r \in Readers, NEW k \in Cached, StartDirect(r, k) PROVE GoneInv'
  BY <1>3, StartDirectGone
<1>4. ASSUME NEW l \in Loads, Answer(l) \/ RequestFails(l) PROVE GoneInv'
  BY <1>4, AnswerGone, RequestFailsGone
<1>5. CASE Storage
  BY <1>5, GetGone, PutGone, DeleteGone, SweepGone, ClearDiskGone, TransactionFailsGone DEF Storage
<1>6. CASE Clear \/ Reload
  BY <1>6, ClearGone, ReloadGone
<1>7. UNCHANGED vizVars \/ Open \/ Tick \/ Rest => UNCHANGED <<mem, load, started, disk, queue, gone>>
  BY DEF vizVars, Open, Tick, Rest
<1> QED BY <1>1, <1>2, <1>3, <1>4, <1>5, <1>6, <1>7 DEF VizNext

(* Once the caches were cleared, no element that asks is given an answer   *)
(* that was known before, unless the browser refused to clear its database.*)
THEOREM ClearIsFinal == VizSpec => []ClearForgets
<1>1. VizInit => GoneInv
  BY DEF VizInit, GoneInv, GoneLoads, GoneEntries, GetsAfter, ClearForgets, Sweep, Transaction
<1>2. GoneInv => ClearForgets
  BY DEF GoneInv
<1> QED BY <1>1, <1>2, StepGone, VizInvariant, PTL DEF VizSpec

-----------------------------------------------------------------------------
(* Loads are shared: as long as a load is under way, its entry is not over *)
(* and nothing took it from the map, the map holds it; so who asks for its *)
(* key finds it there.                                                     *)
MapHolds ==
  \A l \in Unsettled :
    load[l].expires # Missing /\ l \notin detached /\ now < load[l].expires => mem[load[l].key] = l

SharedInv == MapHolds /\ LoadsAreShared

(* Loads that were under way stay as they are or end; the map only loses   *)
(* what is then called detached; no load starts.                           *)
LEMMA SharedMoves ==
  ASSUME VizInv, SharedInv, now' >= now, now' \in Nat, detached \subseteq detached',
         \A l \in Loads : load'[l].pc \in Pending =>
           /\ load[l].pc \in Pending /\ load'[l].key = load[l].key /\ load'[l].expires = load[l].expires
           /\ mem[load[l].key] = l => mem'[load[l].key] = l \/ l \in detached' \/ ~(now < load[l].expires)
  PROVE  SharedInv'
<1>1. \A l \in Unsettled' : l \in Unsettled /\ load'[l].key = load[l].key /\ load'[l].expires = load[l].expires
  BY DEF Unsettled, Pending
<1>2. ASSUME NEW l \in Unsettled', load'[l].expires # Missing PROVE load[l].expires \in Nat /\ now \in Nat
  BY <1>1, <1>2, LoadFields DEF VizInv, VizType, Times, Unsettled, Pending
<1>3. MapHolds'
  <2> SUFFICES ASSUME NEW l \in Unsettled', load'[l].expires # Missing, l \notin detached', now' < load'[l].expires
               PROVE  mem'[load'[l].key] = l
    BY DEF MapHolds
  <2>1. now < load[l].expires
    BY <1>1, <1>2
  <2>2. mem[load[l].key] = l
    BY <1>1, <2>1 DEF SharedInv, MapHolds
  <2> QED BY <1>1, <2>1, <2>2 DEF Unsettled, Pending
<1>4. LoadsAreShared'
  <2> SUFFICES ASSUME NEW l \in Unsettled', NEW m \in Unsettled', l < m,
                      load'[l].expires # Missing, load'[m].expires # Missing,
                      load'[l].key = load'[m].key, l \notin detached'
               PROVE  load'[l].expires <= now'
    BY DEF LoadsAreShared
  <2>1. load[l].expires <= now
    BY <1>1 DEF SharedInv, LoadsAreShared
  <2> QED BY <1>1, <1>2, <2>1
<1> QED BY <1>3, <1>4 DEF SharedInv

(* The newest entry of a map survives its pruning. *)
LEMMA PrunedKeepsNewest ==
  ASSUME VizInv, NEW k \in Keys, NEW l \in Loads, l = started + 1
  PROVE  Pruned([mem EXCEPT ![k] = l], l)[k] = l
<1> DEFINE m == [mem EXCEPT ![k] = l]
           current == {j \in Keys : m[j] = l} \cup Current(m)
<1>1. m[k] = l /\ k \in current
  BY DEF VizInv, VizType
<1>2. {j \in current : m[j] > m[k]} = {}
  <2> SUFFICES ASSUME NEW j \in current, m[j] > l PROVE FALSE
    BY <1>1
  <2>1. CASE m[j] = l
    BY <2>1 DEF Loads
  <2>2. CASE j \in Current(m)
    BY <2>2 DEF Current, VizInv, VizType
  <2> QED BY <2>1, <2>2
<1>3. Cardinality({j \in current : m[j] > m[k]}) < MaxEntries
  BY <1>2, FS_EmptySet, VizDataAssumption
<1>4. Pruned(m, l)[k] = m[k]
  BY <1>1, <1>3 DEF Pruned
<1> QED BY <1>1, <1>4

(* A load that starts is shared from then on; and it only starts when the  *)
(* map has none for its key.                                               *)
LEMMA StartShared ==
  ASSUME VizInv, SharedInv, NEW r \in Readers, NEW k \in Keys, Start(r, k)
  PROVE  SharedInv'
<1>1. PICK l \in Loads :
        /\ k \notin Current(mem) /\ Begin(r, l) /\ now' = now
        /\ mem' = Pruned([mem EXCEPT ![k] = l], l)
        /\ detached' = detached \cup ({mem[j] : j \in {i \in Current(mem) : mem'[i] = Missing}} \cap Unsettled)
        /\ load' = [load EXCEPT ![l] = Load(IF k \in Cached THEN "reading" ELSE "sent", k, now + Ttl[k])]
  BY DEF Start
<1>2. l = started + 1 /\ load[l].pc = "free"
  <2>1. l = started + 1 /\ (load[l].pc # "free" => l <= started)
    BY <1>1 DEF Begin, VizInv, Referred
  <2> QED BY <2>1 DEF VizInv, VizType
<1>3. load'[l].key = k /\ \A m \in Loads \ {l} : load'[m] = load[m]
  BY <1>1 DEF VizInv, VizType, Load
<1>4. mem'[k] = l /\ \A j \in Keys \ {k} : mem'[j] \in {mem[j], Missing}
  <2>1. [mem EXCEPT ![k] = l] \in [Keys -> Loads \cup {Missing}]
    BY DEF VizInv, VizType
  <2>2. \A j \in Keys : mem'[j] \in {[mem EXCEPT ![k] = l][j], Missing}
    BY <1>1, <2>1, PrunedEntries
  <2>3. \A j \in Keys \ {k} : mem'[j] \in {mem[j], Missing}
    BY <2>2 DEF VizInv, VizType
  <2> QED BY <1>1, <1>2, <2>3, PrunedKeepsNewest
<1>5. ASSUME NEW m \in Unsettled, load[m].expires # Missing, m \notin detached, now < load[m].expires
      PROVE  /\ load[m].key # k /\ load[m].key \in Keys /\ mem[load[m].key] = m
             /\ m \notin detached' => mem'[load[m].key] = m
  <2>1. mem[load[m].key] = m /\ m \in Loads /\ load[m].key \in Keys /\ m <= started
    BY <1>5, LoadFields DEF SharedInv, MapHolds, VizInv, Referred, Unsettled, Pending
  <2>2. load[m].key \in Current(mem)
    BY <1>5, <2>1 DEF Current, Loads, VizInv, VizType
  <2> QED BY <1>1, <1>4, <1>5, <2>1, <2>2
<1>6. \A m \in Unsettled' : m = l \/ (m \in Unsettled /\ m \in Loads \ {l} /\ load'[m] = load[m])
  BY <1>3 DEF Unsettled
<1>7. MapHolds'
  <2> SUFFICES ASSUME NEW m \in Unsettled', load'[m].expires # Missing, m \notin detached', now' < load'[m].expires
               PROVE  mem'[load'[m].key] = m
    BY DEF MapHolds
  <2>1. CASE m = l
    BY <1>3, <1>4, <2>1
  <2>2. CASE m # l
    BY <1>1, <1>5, <1>6, <2>2
  <2> QED BY <2>1, <2>2
<1>8. LoadsAreShared'
  <2> SUFFICES ASSUME NEW i \in Unsettled', NEW m \in Unsettled', i < m,
                      load'[i].expires # Missing, load'[m].expires # Missing,
                      load'[i].key = load'[m].key, i \notin detached'
               PROVE  load'[i].expires <= now
    BY <1>1 DEF LoadsAreShared
  <2>1. i # l
    <3>1. m \in Unsettled => m <= started
      BY DEF Unsettled, VizInv, Referred
    <3>2. i \in Loads /\ m \in Loads
      BY DEF Unsettled
    <3> QED BY <1>2, <1>6, <3>1, <3>2 DEF Loads, VizInv, VizType
  <2>2. i \in Unsettled /\ load'[i] = load[i] /\ i \notin detached
    BY <1>1, <1>6, <2>1
  <2>3. CASE m = l
    <3>1. ~(now < load[i].expires)
      BY <1>3, <1>5, <2>2, <2>3
    <3>2. load[i].expires \in Nat /\ now \in Nat
      BY <2>2, LoadFields DEF Unsettled, VizInv, VizType, Times, Pending
    <3> QED BY <2>2, <3>1, <3>2
  <2>4. CASE m # l
    BY <1>6, <2>2, <2>4 DEF SharedInv, LoadsAreShared
  <2> QED BY <2>3, <2>4
<1> QED BY <1>7, <1>8 DEF SharedInv

(* A load that goes past the caches is in nobody's way. *)
LEMMA StartDirectShared ==
  ASSUME VizInv, SharedInv, NEW r \in Readers, NEW k \in Cached, StartDirect(r, k)
  PROVE  SharedInv'
<1>1. PICK l \in Loads :
        load' = [load EXCEPT ![l] = Load("sent", k, Missing)] /\ UNCHANGED <<now, mem, detached>>
  BY DEF StartDirect
<1>2. load'[l].expires = Missing /\ \A m \in Loads \ {l} : load'[m] = load[m]
  BY <1>1 DEF VizInv, VizType, Load
<1>3. \A m \in Unsettled' : load'[m].expires = Missing \/ (m \in Unsettled /\ load'[m] = load[m])
  BY <1>2 DEF Unsettled
<1> QED BY <1>1, <1>3 DEF SharedInv, MapHolds, LoadsAreShared

(* A failed load takes from the map what its key holds by then.            *)
LEMMA FailShared ==
  ASSUME VizInv, SharedInv, NEW l \in Loads, load[l].pc \in Pending, Fail(l), now' = now
  PROVE  SharedInv'
<1>1. load' = [load EXCEPT ![l] = [pc |-> "failed", key |-> load[l].key]]
  BY DEF Fail
<1>2. load'[l].pc = "failed" /\ \A m \in Loads \ {l} : load'[m] = load[m]
  BY <1>1 DEF VizInv, VizType
<1>3. detached \subseteq detached' /\ \A m \in Unsettled \ {l}, k \in Keys : mem[k] = m => mem'[k] = m \/ m \in detached'
  BY DEF Fail, VizInv, VizType
<1>4. now' >= now /\ now' \in Nat
  BY DEF VizInv, VizType
<1>5. \A m \in Loads : load'[m].pc \in Pending =>
        /\ load[m].pc \in Pending /\ load'[m].key = load[m].key /\ load'[m].expires = load[m].expires
        /\ mem[load[m].key] = m => mem'[load[m].key] = m \/ m \in detached'
  <2> SUFFICES ASSUME NEW m \in Loads, load'[m].pc \in Pending
               PROVE  /\ load[m].pc \in Pending /\ load'[m].key = load[m].key /\ load'[m].expires = load[m].expires
                      /\ mem[load[m].key] = m => mem'[load[m].key] = m \/ m \in detached'
    OBVIOUS
  <2>1. m # l /\ load'[m] = load[m]
    BY <1>2 DEF Pending
  <2>2. load[m].key \in Keys /\ m \in Unsettled \ {l}
    BY <2>1, LoadFields DEF VizInv, Unsettled, Pending
  <2> QED BY <1>3, <2>1, <2>2
<1> QED BY <1>3, <1>4, <1>5, SharedMoves

(* A load that goes on keeps its key and its place in the map. *)
LEMMA LoadShared ==
  ASSUME VizInv, SharedInv, NEW l \in Loads, load[l].pc \in Pending, NEW x,
         x.key = load[l].key, x.expires = load[l].expires,
         load' = [load EXCEPT ![l] = x], UNCHANGED <<now, mem, detached>>
  PROVE  SharedInv'
<1>1. load'[l] = x /\ \A m \in Loads \ {l} : load'[m] = load[m]
  BY DEF VizInv, VizType
<1>2. now' >= now /\ now' \in Nat
  BY DEF VizInv, VizType
<1> QED BY <1>1, <1>2, SharedMoves

LEMMA SendShared ==
  ASSUME VizInv, SharedInv, NEW l \in Loads, load[l].pc \in Pending, load' = Send(l),
         UNCHANGED <<now, mem, detached>>
  PROVE  SharedInv'
<1> PICK x : x = load'[l]
  OBVIOUS
<1>1. load[l] \in [pc : Pending, key : Keys, expires : Times, sent : Nat]
  BY LoadFields DEF VizInv
<1>2. load' = [load EXCEPT ![l] = x] /\ x.key = load[l].key /\ x.expires = load[l].expires
  BY <1>1 DEF Send, VizInv, VizType
<1> QED BY <1>2, LoadShared

LEMMA SharedRest ==
  ASSUME SharedInv, UNCHANGED <<now, mem, load, detached>>
  PROVE  SharedInv'
BY DEF SharedInv, MapHolds, LoadsAreShared, Unsettled

LEMMA StorageShared ==
  ASSUME VizInv, SharedInv, Storage
  PROVE  SharedInv'
<1>1. CASE Get
  <2> PICK l : l = Head(queue).load
    OBVIOUS
  <2>1. /\ queue # <<>> /\ Head(queue).op = "get" /\ UNCHANGED <<now, mem, detached>>
        /\ \/ load' = Send(l)
           \/ \E at, from : load' = [load EXCEPT ![l] = DoneLoad(l, at, from)]
           \/ load' = [load EXCEPT ![l].pc = "deleting"]
    BY <1>1 DEF Get, Ready
  <2>2. l \in Loads /\ l # Missing
    <3>1. Head(queue) \in Transactions
      BY <2>1, HeadFacts
    <3> QED BY <2>1, <3>1, ConstantFacts DEF Transactions, Loads
  <2>3. load[l].pc \in Pending /\ load[l] \in [pc : Pending, key : Keys, expires : Times, sent : Nat]
    BY <2>1, <2>2, HeadFacts, LoadFields DEF VizInv
  <2>4. CASE load' = Send(l)
    BY <2>1, <2>2, <2>3, <2>4, SendShared
  <2>5. ASSUME NEW at, NEW from, load' = [load EXCEPT ![l] = DoneLoad(l, at, from)] PROVE SharedInv'
    <3> PICK x : x = DoneLoad(l, at, from)
      OBVIOUS
    <3>1. x.key = load[l].key /\ x.expires = load[l].expires
      BY DEF DoneLoad
    <3> QED BY <2>1, <2>2, <2>3, <2>5, <3>1, LoadShared
  <2>6. CASE load' = [load EXCEPT ![l].pc = "deleting"]
    <3> PICK x : x = [load[l] EXCEPT !.pc = "deleting"]
      OBVIOUS
    <3>1. x.key = load[l].key /\ x.expires = load[l].expires /\ load' = [load EXCEPT ![l] = x]
      BY <2>2, <2>3, <2>6 DEF VizInv, VizType
    <3> QED BY <2>1, <2>2, <2>3, <3>1, LoadShared
  <2> QED BY <2>1, <2>4, <2>5, <2>6
<1>2. CASE Put \/ SweepExpired \/ ClearDisk
  BY <1>2, SharedRest DEF Put, SweepExpired, ClearDisk
<1>3. CASE Delete
  <2> PICK l : l = Head(queue).load
    OBVIOUS
  <2>1. queue # <<>> /\ UNCHANGED <<now, mem, detached>> /\ load' = IF l = Missing THEN load ELSE Send(l)
    BY <1>3 DEF Delete, Ready
  <2>2. CASE l = Missing
    BY <2>1, <2>2, SharedRest
  <2>3. CASE l # Missing
    BY <2>1, <2>3, HeadFacts, SendShared
  <2> QED BY <2>2, <2>3
<1>4. CASE TransactionFails
  <2> PICK l : l = Head(queue).load
    OBVIOUS
  <2>1. queue # <<>> /\ now' = now /\ IF l = Missing THEN UNCHANGED <<load, mem, detached>> ELSE Fail(l)
    BY <1>4 DEF TransactionFails
  <2>2. CASE l = Missing
    BY <2>1, <2>2, SharedRest
  <2>3. CASE l # Missing
    BY <2>1, <2>3, HeadFacts, FailShared
  <2> QED BY <2>2, <2>3
<1> QED BY <1>1, <1>2, <1>3, <1>4 DEF Storage

(* What a clear takes from the map is detached by it. *)
LEMMA ClearShared == VizInv /\ SharedInv /\ Clear => SharedInv'
<1> SUFFICES ASSUME VizInv, SharedInv, Clear PROVE SharedInv'
  OBVIOUS
<1>1. /\ detached' = detached \cup ({mem[k] : k \in Current(mem)} \cap Unsettled)
      /\ UNCHANGED <<now, load>> /\ now' >= now /\ now' \in Nat
  BY DEF Clear, VizInv, VizType
<1>2. \A l \in Loads : load[l].pc \in Pending /\ mem[load[l].key] = l =>
        l \in detached' \/ ~(now < load[l].expires)
  <2> SUFFICES ASSUME NEW l \in Loads, load[l].pc \in Pending, mem[load[l].key] = l, now < load[l].expires
               PROVE  l \in detached'
    OBVIOUS
  <2>1. l <= started /\ load[l].key \in Keys /\ l \in Unsettled
    BY LoadFields DEF VizInv, Referred, Pending, Unsettled
  <2>2. load[l].key \in Current(mem)
    BY <2>1 DEF Current, Loads, VizInv, VizType
  <2> QED BY <1>1, <2>1, <2>2
<1> QED BY <1>1, <1>2, SharedMoves

LEMMA StepShared == VizInv /\ SharedInv /\ [VizNext]_vizVars => SharedInv'
<1> SUFFICES ASSUME VizInv, SharedInv, [VizNext]_vizVars PROVE SharedInv'
  OBVIOUS
<1>1. CASE UNCHANGED vizVars \/ Open \/ Rest
  BY <1>1, SharedRest DEF vizVars, Open, Rest
<1>2. ASSUME NEW r \in Readers, NEW k \in Keys, Join(r, k) PROVE SharedInv'
  BY <1>2, SharedRest DEF Join
<1>3. ASSUME NEW r \in Readers, NEW k \in Keys, Start(r, k) PROVE SharedInv'
  BY <1>3, StartShared
<1>4. ASSUME NEW r \in Readers, NEW k \in Cached, StartDirect(r, k) PROVE SharedInv'
  BY <1>4, StartDirectShared
<1>5. ASSUME NEW l \in Loads, Answer(l) PROVE SharedInv'
  <2>1. PICK t : load' = [load EXCEPT ![l] = DoneLoad(l, t, l)]
    BY <1>5 DEF Answer
  <2> PICK x : x = DoneLoad(l, t, l)
    OBVIOUS
  <2>2. x.key = load[l].key /\ x.expires = load[l].expires
    BY DEF DoneLoad
  <2>3. load[l].pc \in Pending /\ UNCHANGED <<now, mem, detached>>
    BY <1>5 DEF Answer, Pending
  <2> QED BY <2>1, <2>2, <2>3, LoadShared
<1>6. ASSUME NEW l \in Loads, RequestFails(l) PROVE SharedInv'
  BY <1>6, FailShared DEF RequestFails, Pending
<1>7. CASE Storage
  BY <1>7, StorageShared
<1>8. CASE Clear
  BY <1>8, ClearShared
<1>9. CASE Reload
  BY <1>9 DEF Reload, SharedInv, MapHolds, LoadsAreShared, Unsettled
<1>10. CASE Tick
  <2>1. now' >= now /\ now' \in Nat /\ UNCHANGED <<load, mem, detached>>
    BY <1>10 DEF Tick, VizInv, VizType
  <2> QED BY <2>1, SharedMoves
<1> QED BY <1>1, <1>2, <1>3, <1>4, <1>5, <1>6, <1>7, <1>8, <1>9, <1>10 DEF VizNext

(* Elements that ask for one key share one load: while it is under way, a  *)
(* second starts only when its time is over or the map lost it because it  *)
(* was cleared, was full, or another load failed.                          *)
THEOREM LoadsStayShared == VizSpec => []LoadsAreShared
<1>1. VizInit => SharedInv
  BY DEF VizInit, SharedInv, MapHolds, LoadsAreShared, Unsettled
<1>2. SharedInv => LoadsAreShared
  BY DEF SharedInv
<1> QED BY <1>1, <1>2, StepShared, VizInvariant, PTL DEF VizSpec
=============================================================================
