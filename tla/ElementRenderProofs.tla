------------------------- MODULE ElementRenderProofs -------------------------
(***************************************************************************)
(* The renderers of a dashboard and the load queue they share, for any     *)
(* elements, renderers, orders and number of slots.                        *)
(*                                                                         *)
(* Core: a render is numbered when it begins, and its load is in one place *)
(* at a time: in the queue, running, answered or in a continuation; so no  *)
(* two of them have the same number, and a slot is freed once.             *)
(*                                                                         *)
(* Watch: a load that carries the current number of its renderer was asked *)
(* for with what that renderer is given now and was not stopped, and a      *)
(* mounted renderer that waits has such a load, unless it was cleared with  *)
(* the queue.  Numbers only grow, so an answer with an older one is         *)
(* dropped.                                                                *)
(*                                                                         *)
(* Acts says what every action of the user, the fallback of a dialog's      *)
(* tokens included, does to renderers: some load, some show a static kind,  *)
(* some are stopped and some go.  Both invariants are shown to hold after   *)
(* Acts once, instead of once per action.                                  *)
(***************************************************************************)
EXTENDS ElementRender, FiniteSetTheorems, TLAPS

-----------------------------------------------------------------------------
(* The load queue. *)

Loads == [r : Renderers, seq : Nat, inputs : Nat, retry : BOOLEAN]

Priority(l) == Order[ElementOf[l.r]]

Sorted(q) == \A i, j \in DOMAIN q : i < j => Priority(q[i]) <= Priority(q[j])

Members(q) == {q[i] : i \in DOMAIN q}

(* Two records of one render: a load, or its retry. *)
SameRender(l, m) == l.r = m.r /\ l.seq = m.seq

Once(q) == \A i, j \in DOMAIN q : SameRender(q[i], q[j]) => i = j
OnceEach(S) == \A l, m \in S : SameRender(l, m) => l = m
Apart(S, T) == \A l \in S, m \in T : ~SameRender(l, m)

LEMMA PriorityType == \A l \in Loads : Priority(l) \in Nat
BY ElementRenderAssumption DEF Priority, Loads

(* A set of numbers from 1 on without a gap. *)
LEMMA NoGap ==
  ASSUME NEW n \in Nat, NEW S \in SUBSET (1..n),
         \A i \in S : \A j \in 1..n : j <= i => j \in S
  PROVE  Cardinality(S) \in 0..n /\ S = 1..Cardinality(S)
<1> DEFINE k == Cardinality(S)
<1>1. IsFiniteSet(1..n) /\ Cardinality(1..n) = n
  BY FS_Interval
<1>2. IsFiniteSet(S) /\ k \in Nat /\ k <= n
  BY <1>1, FS_Subset, FS_CardinalityType
<1>3. IsFiniteSet(1..k) /\ Cardinality(1..k) = k
  BY <1>2, FS_Interval
<1>4. ASSUME NEW i \in S PROVE i \in 1..k
  <2>1. 1..i \subseteq S
    BY <1>4
  <2>2. i \in Nat /\ Cardinality(1..i) = i
    BY <1>4, FS_Interval
  <2>3. Cardinality(1..i) <= k
    BY <1>2, <2>1, FS_Subset
  <2> QED BY <1>2, <1>4, <2>2, <2>3
<1>5. S \in SUBSET (1..k)
  BY <1>4
<1>6. S = 1..k
  BY <1>2, <1>3, <1>5, FS_Subset
<1> QED BY <1>2, <1>6

(* Where a load is put: after all that have its order or a lower one. *)
Before(q, l) == Cardinality({i \in DOMAIN q : Order[ElementOf[q[i].r]] <= Order[ElementOf[l.r]]})

LEMMA BeforeSplits ==
  ASSUME NEW q \in Seq(Loads), NEW l \in Loads, Sorted(q)
  PROVE  /\ Before(q, l) \in 0..Len(q)
         /\ \A i \in DOMAIN q : Priority(q[i]) <= Priority(l) <=> i <= Before(q, l)
<1> DEFINE S == {i \in DOMAIN q : Order[ElementOf[q[i].r]] <= Order[ElementOf[l.r]]}
<1>0. Len(q) \in Nat /\ DOMAIN q = 1..Len(q) /\ \A i \in 1..Len(q) : q[i] \in Loads
  OBVIOUS
<1>1. S = {i \in 1..Len(q) : Priority(q[i]) <= Priority(l)}
  BY <1>0 DEF Priority
<1>2. \A i \in S : \A j \in 1..Len(q) : j <= i => j \in S
  <2> SUFFICES ASSUME NEW i \in S, NEW j \in 1..Len(q), j < i PROVE j \in S
    OBVIOUS
  <2>1. Priority(q[j]) <= Priority(q[i])
    BY <1>0 DEF Sorted
  <2>2. Priority(q[j]) \in Nat /\ Priority(q[i]) \in Nat /\ Priority(l) \in Nat
    BY <1>0, PriorityType
  <2> QED BY <1>1, <2>1, <2>2
<1>3. S \in SUBSET (1..Len(q))
  BY <1>0
<1> HIDE DEF S
<1>4. Cardinality(S) \in 0..Len(q) /\ S = 1..Cardinality(S)
  BY <1>0, <1>2, <1>3, NoGap
<1>5. Before(q, l) = Cardinality(S)
  BY DEF Before, S
<1> QED BY <1>0, <1>1, <1>4, <1>5

LEMMA InsertedIs ==
  ASSUME NEW q \in Seq(Loads), NEW l \in Loads, Sorted(q)
  PROVE  /\ Inserted(q, l) \in Seq(Loads)
         /\ Len(Inserted(q, l)) = Len(q) + 1
         /\ Before(q, l) \in 0..Len(q)
         /\ \A i \in 1..Len(q) + 1 :
              Inserted(q, l)[i] = IF i <= Before(q, l) THEN q[i]
                                  ELSE IF i = Before(q, l) + 1 THEN l ELSE q[i - 1]
<1> DEFINE b == Before(q, l)
           s == SubSeq(q, 1, b)
           t == SubSeq(q, b + 1, Len(q))
<1>0. Len(q) \in Nat /\ DOMAIN q = 1..Len(q) /\ b \in 0..Len(q)
  BY BeforeSplits
<1>1. Inserted(q, l) = s \o <<l>> \o t
  BY DEF Inserted, Before
<1> HIDE DEF b
<1>2. s \in Seq(Loads) /\ Len(s) = b /\ \A i \in 1..b : s[i] = q[i]
  BY <1>0
<1>3. t \in Seq(Loads) /\ Len(t) = Len(q) - b /\ \A i \in 1..Len(q) - b : t[i] = q[b + i]
  <2>1. \A i \in b + 1..Len(q) : q[i] \in Loads
    BY <1>0
  <2>2. t = [i \in 1..Len(q) - b |-> q[b + i]]
    BY <1>0
  <2>3. \A i \in 1..Len(q) - b : b + i \in b + 1..Len(q)
    BY <1>0
  <2>4. Len(q) - b \in Nat
    BY <1>0
  <2> HIDE DEF t
  <2> QED BY <2>1, <2>2, <2>3, <2>4
<1> HIDE DEF s, t
<1>4. s \o <<l>> \in Seq(Loads) /\ Len(s \o <<l>>) = b + 1
  BY <1>0, <1>2
<1>5. \A i \in 1..b + 1 : (s \o <<l>>)[i] = IF i <= b THEN q[i] ELSE l
  BY <1>0, <1>2
<1> DEFINE u == s \o <<l>>
<1> HIDE DEF u
<1>6. u \in Seq(Loads) /\ Len(u) = b + 1 /\ \A i \in 1..b + 1 : u[i] = IF i <= b THEN q[i] ELSE l
  BY <1>4, <1>5 DEF u
<1>7. u \o t \in Seq(Loads) /\ Len(u \o t) = Len(q) + 1
  BY <1>0, <1>3, <1>6
<1> DEFINE w == u \o t
<1>8. \A i \in 1..Len(q) + 1 : w[i] = IF i <= b + 1 THEN u[i] ELSE t[i - (b + 1)]
  BY <1>0, <1>3, <1>6, <1>7
<1> HIDE DEF w
<1>9. ASSUME NEW i \in 1..Len(q) + 1
      PROVE  w[i] = IF i <= b THEN q[i] ELSE IF i = b + 1 THEN l ELSE q[i - 1]
  <2>1. CASE i <= b + 1
    BY <1>0, <1>6, <1>8, <2>1
  <2>2. CASE i > b + 1
    <3>1. i - (b + 1) \in 1..Len(q) - b /\ b + (i - (b + 1)) = i - 1
      BY <1>0, <2>2
    <3>2. t[i - (b + 1)] = q[b + (i - (b + 1))]
      BY <1>3, <3>1
    <3> QED BY <1>0, <1>8, <2>2, <3>1, <3>2
  <2> QED BY <1>0, <2>1, <2>2
<1> QED BY <1>0, <1>1, <1>7, <1>9 DEF w, u, b

LEMMA InsertedSorted ==
  ASSUME NEW q \in Seq(Loads), NEW l \in Loads, Sorted(q)
  PROVE  Sorted(Inserted(q, l))
<1> DEFINE b == Before(q, l)
           p == Inserted(q, l)
<1>0. Len(q) \in Nat /\ DOMAIN q = 1..Len(q) /\ b \in 0..Len(q)
      /\ \A i \in 1..Len(q) : Priority(q[i]) <= Priority(l) <=> i <= b
  BY BeforeSplits
<1>a. p \in Seq(Loads) /\ Len(p) = Len(q) + 1
  BY InsertedIs
<1>b. DOMAIN p = 1..Len(q) + 1
  BY <1>a
<1>c. \A i \in 1..Len(q) + 1 : p[i] = IF i <= b THEN q[i] ELSE IF i = b + 1 THEN l ELSE q[i - 1]
  BY InsertedIs
<1>1. /\ DOMAIN p = 1..Len(q) + 1
      /\ \A i \in 1..Len(q) + 1 : p[i] = IF i <= b THEN q[i] ELSE IF i = b + 1 THEN l ELSE q[i - 1]
  BY <1>b, <1>c
<1>2. \A i \in 1..Len(q) : Priority(q[i]) \in Nat
  BY PriorityType
<1>3. Priority(l) \in Nat
  BY PriorityType
<1>4. \A i, j \in 1..Len(q) : i < j => Priority(q[i]) <= Priority(q[j])
  BY <1>0 DEF Sorted
<1> HIDE DEF b, p
<1> DEFINE x(i) == Priority(q[i])
           y == Priority(l)
<1>5. \A i \in 1..Len(q) : x(i) \in Nat /\ (x(i) <= y <=> i <= b)
  BY <1>0, <1>2
<1>6. \A i, j \in 1..Len(q) : i < j => x(i) <= x(j)
  BY <1>4
<1>7. \A i \in 1..Len(q) + 1 : Priority(p[i]) = IF i <= b THEN x(i) ELSE IF i = b + 1 THEN y ELSE x(i - 1)
  BY <1>1
<1>8. y \in Nat
  BY <1>3
<1> HIDE DEF x, y
<1> SUFFICES ASSUME NEW i \in 1..Len(q) + 1, NEW j \in 1..Len(q) + 1, i < j
             PROVE  Priority(p[i]) <= Priority(p[j])
  BY <1>1 DEF Sorted, p
<1>9. CASE i <= b /\ j <= b
  BY <1>0, <1>6, <1>7, <1>9
<1>10. CASE i <= b /\ j = b + 1
  BY <1>0, <1>5, <1>7, <1>10
<1>11. CASE i <= b /\ j > b + 1
  BY <1>0, <1>6, <1>7, <1>11
<1>12. CASE i = b + 1 /\ j > b + 1
  <2>1. j - 1 \in 1..Len(q) /\ ~(j - 1 <= b)
    BY <1>0, <1>12
  <2>2. ~(x(j - 1) <= y) /\ x(j - 1) \in Nat
    BY <2>1, <1>5
  <2> QED BY <1>0, <1>7, <1>8, <1>12, <2>2
<1>13. CASE i > b + 1
  BY <1>0, <1>6, <1>7, <1>13
<1> QED BY <1>0, <1>9, <1>10, <1>11, <1>12, <1>13

LEMMA InsertedMembers ==
  ASSUME NEW q \in Seq(Loads), NEW l \in Loads, Sorted(q)
  PROVE  /\ Members(Inserted(q, l)) = Members(q) \cup {l}
         /\ Once(q) /\ Apart(Members(q), {l}) => Once(Inserted(q, l))
<1> DEFINE b == Before(q, l)
           p == Inserted(q, l)
<1>0. Len(q) \in Nat /\ DOMAIN q = 1..Len(q) /\ b \in 0..Len(q) /\ DOMAIN p = 1..Len(q) + 1
  BY InsertedIs
<1>1. \A i \in 1..Len(q) + 1 : p[i] = IF i <= b THEN q[i] ELSE IF i = b + 1 THEN l ELSE q[i - 1]
  BY InsertedIs
<1> HIDE DEF b, p
<1>2. Members(p) \subseteq Members(q) \cup {l}
  <2> SUFFICES ASSUME NEW i \in 1..Len(q) + 1 PROVE p[i] \in Members(q) \cup {l}
    BY <1>0 DEF Members
  <2>1. p[i] = l \/ (i \in 1..Len(q) /\ p[i] = q[i]) \/ (i - 1 \in 1..Len(q) /\ p[i] = q[i - 1])
    BY <1>0, <1>1
  <2> QED BY <2>1, <1>0 DEF Members
<1>3. l \in Members(p)
  <2>1. b + 1 \in 1..Len(q) + 1 /\ p[b + 1] = l
    BY <1>0, <1>1
  <2> QED BY <2>1, <1>0 DEF Members
<1>4. Members(q) \subseteq Members(p)
  <2> SUFFICES ASSUME NEW i \in 1..Len(q) PROVE q[i] \in Members(p)
    BY <1>0 DEF Members
  <2>1. CASE i <= b
    <3>1. i \in 1..Len(q) + 1 /\ p[i] = q[i]
      BY <2>1, <1>0, <1>1
    <3> QED BY <3>1, <1>0 DEF Members
  <2>2. CASE i > b
    <3>1. i + 1 \in 1..Len(q) + 1 /\ p[i + 1] = q[i]
      BY <2>2, <1>0, <1>1
    <3> QED BY <3>1, <1>0 DEF Members
  <2> QED BY <1>0, <2>1, <2>2
<1>5. ASSUME Once(q), Apart(Members(q), {l}), NEW i \in 1..Len(q) + 1, NEW j \in 1..Len(q) + 1,
             SameRender(p[i], p[j])
      PROVE  i = j
  <2>0. \A k \in 1..Len(q) : ~SameRender(q[k], l) /\ ~SameRender(l, q[k])
    <3> SUFFICES ASSUME NEW k \in 1..Len(q) PROVE ~SameRender(q[k], l) /\ ~SameRender(l, q[k])
      OBVIOUS
    <3>1. q[k] \in Members(q)
      BY <1>0 DEF Members
    <3>2. ~SameRender(q[k], l)
      BY <3>1, <1>5 DEF Apart
    <3> QED BY <3>2 DEF SameRender
  <2>1. \A k, m \in 1..Len(q) : SameRender(q[k], q[m]) => k = m
    BY <1>0, <1>5 DEF Once
  <2>2. \/ i = b + 1 /\ p[i] = l
        \/ i <= b /\ i \in 1..Len(q) /\ p[i] = q[i]
        \/ i > b + 1 /\ i - 1 \in 1..Len(q) /\ p[i] = q[i - 1]
    BY <1>0, <1>1
  <2>3. \/ j = b + 1 /\ p[j] = l
        \/ j <= b /\ j \in 1..Len(q) /\ p[j] = q[j]
        \/ j > b + 1 /\ j - 1 \in 1..Len(q) /\ p[j] = q[j - 1]
    BY <1>0, <1>1
  <2> DEFINE Same(k, m) == SameRender(q[k], q[m])
  <2>4. \/ i = b + 1 /\ j = b + 1
        \/ i <= b /\ j <= b /\ i \in 1..Len(q) /\ j \in 1..Len(q) /\ Same(i, j)
        \/ i <= b /\ j > b + 1 /\ i \in 1..Len(q) /\ j - 1 \in 1..Len(q) /\ Same(i, j - 1)
        \/ i > b + 1 /\ j <= b /\ i - 1 \in 1..Len(q) /\ j \in 1..Len(q) /\ Same(i - 1, j)
        \/ i > b + 1 /\ j > b + 1 /\ i - 1 \in 1..Len(q) /\ j - 1 \in 1..Len(q) /\ Same(i - 1, j - 1)
    BY <1>5, <2>0, <2>2, <2>3
  <2>5. \A k, m \in 1..Len(q) : Same(k, m) => k = m
    BY <2>1
  <2> HIDE DEF Same
  <2> QED BY <1>0, <2>4, <2>5
<1> QED BY <1>0, <1>2, <1>3, <1>4, <1>5 DEF Once, p

(* What the queue of the page is at any time. *)
Queued(q, n, S) ==
  /\ q \in Seq(Loads) /\ Sorted(q) /\ Once(q)
  /\ S \in SUBSET Loads /\ IsFiniteSet(S) /\ OnceEach(S)
  /\ n = Cardinality(S) /\ n <= CONCURRENCY
  /\ Apart(Members(q), S)

Full(q, n) == q # <<>> => n = CONCURRENCY

OnTheirWay(q, S) == Members(q) \cup S

LEMMA ScheduleTakes ==
  ASSUME NEW q \in Seq(Loads), NEW n \in Nat, NEW S, n <= CONCURRENCY, Schedule(q, n, S)
  PROVE  \E k \in 0..Len(q) :
           /\ n + k <= CONCURRENCY /\ (k # Len(q) => n + k = CONCURRENCY)
           /\ queue' \in Seq(Loads) /\ Len(queue') = Len(q) - k
           /\ \A i \in 1..Len(q) - k : queue'[i] = q[i + k]
           /\ active' = n + k
           /\ running' = S \cup {q[i] : i \in 1..k}
<1> DEFINE k == Lowest(CONCURRENCY - n, Len(q))
<1>0. Len(q) \in Nat /\ CONCURRENCY \in Nat
  BY ElementRenderAssumption
<1>1. k \in 0..Len(q) /\ n + k <= CONCURRENCY /\ (k # Len(q) => n + k = CONCURRENCY)
  BY <1>0 DEF Lowest
<1>2. queue' = SubSeq(q, k + 1, Len(q)) /\ active' = n + k /\ running' = S \cup {q[i] : i \in 1..k}
  BY DEF Schedule
<1> HIDE DEF k
<1>3. \A i \in k + 1..Len(q) : q[i] \in Loads
  BY <1>0, <1>1
<1>4. queue' = [i \in 1..Len(q) - k |-> q[k + i]]
  BY <1>0, <1>1, <1>2
<1>5. \A i \in 1..Len(q) - k : k + i \in k + 1..Len(q) /\ k + i = i + k
  BY <1>0, <1>1
<1>6. Len(q) - k \in Nat
  BY <1>0, <1>1
<1>7. queue' \in Seq(Loads) /\ Len(queue') = Len(q) - k
  BY <1>3, <1>4, <1>5, <1>6
<1>8. \A i \in 1..Len(q) - k : queue'[i] = q[i + k]
  BY <1>4, <1>5
<1> QED BY <1>1, <1>2, <1>7, <1>8

LEMMA ScheduleKeeps ==
  ASSUME NEW q, NEW n, NEW S, Queued(q, n, S), Schedule(q, n, S)
  PROVE  /\ Queued(queue', active', running') /\ Full(queue', active')
         /\ OnTheirWay(queue', running') = OnTheirWay(q, S)
<1>0. /\ q \in Seq(Loads) /\ Sorted(q) /\ Once(q)
      /\ S \in SUBSET Loads /\ IsFiniteSet(S) /\ OnceEach(S)
      /\ n = Cardinality(S) /\ n <= CONCURRENCY
      /\ Apart(Members(q), S)
  BY DEF Queued
<1>1. n \in Nat
  BY <1>0, FS_CardinalityType
<1>2. Len(q) \in Nat /\ DOMAIN q = 1..Len(q) /\ (\A i \in 1..Len(q) : q[i] \in Loads) /\ CONCURRENCY \in Nat
  BY <1>0, ElementRenderAssumption
<1>3. PICK k \in 0..Len(q) :
           /\ n + k <= CONCURRENCY /\ (k # Len(q) => n + k = CONCURRENCY)
           /\ queue' \in Seq(Loads) /\ Len(queue') = Len(q) - k
           /\ \A i \in 1..Len(q) - k : queue'[i] = q[i + k]
           /\ active' = n + k
           /\ running' = S \cup {q[i] : i \in 1..k}
  BY <1>0, <1>1, ScheduleTakes
<1> DEFINE p == queue'
           Taken == {q[i] : i \in 1..k}
           T == running'
<1>a. DOMAIN p = 1..Len(q) - k
  BY <1>3
<1>b. \A i \in 1..Len(q) - k : i + k \in 1..Len(q)
  BY <1>2
<1>4. DOMAIN p = 1..Len(q) - k /\ \A i \in 1..Len(q) - k : i + k \in 1..Len(q) /\ p[i] = q[i + k]
  BY <1>3, <1>a, <1>b
<1>5. Taken \in SUBSET Loads /\ \A l \in Taken : l \in Members(q)
  BY <1>2 DEF Members
<1>6. IsFiniteSet(Taken) /\ Cardinality(Taken) = k
  <2> DEFINE f == [i \in 1..k |-> q[i]]
  <2>1. IsFiniteSet(1..k) /\ Cardinality(1..k) = k
    BY FS_Interval
  <2>2. \A i, j \in 1..k : f[i] = f[j] => i = j
    <3> SUFFICES ASSUME NEW i \in 1..k, NEW j \in 1..k, q[i] = q[j] PROVE i = j
      OBVIOUS
    <3>1. i \in DOMAIN q /\ j \in DOMAIN q /\ SameRender(q[i], q[j])
      BY <1>2 DEF SameRender
    <3> QED BY <1>0, <3>1 DEF Once
  <2>3. f \in [1..k -> Taken] /\ \A l \in Taken : \E i \in 1..k : f[i] = l
    OBVIOUS
  <2> HIDE DEF f
  <2>4. f \in Bijection(1..k, Taken)
    BY <2>2, <2>3 DEF Bijection, Injection, IsInjective, Surjection
  <2>5. ExistsBijection(1..k, Taken)
    BY <2>4 DEF ExistsBijection
  <2> QED BY <2>1, <2>5, FS_Bijection
<1>7. \A l \in Taken, m \in S : ~SameRender(l, m) /\ l # m
  BY <1>0, <1>5 DEF Apart, SameRender
<1>8. IsFiniteSet(T) /\ Cardinality(T) = n + k
  <2>1. S \cap Taken = {}
    BY <1>7
  <2>2. Cardinality({}) = 0
    BY FS_EmptySet
  <2>3. Cardinality(S \cup Taken) = Cardinality(S) + Cardinality(Taken) - Cardinality(S \cap Taken)
        /\ IsFiniteSet(S \cup Taken)
    BY <1>0, <1>6, FS_Union
  <2>4. T = S \cup Taken
    BY <1>3
  <2>5. Cardinality(T) = n + k - 0
    BY <1>0, <1>6, <2>1, <2>2, <2>3, <2>4
  <2> QED BY <1>1, <2>3, <2>4, <2>5
<1>9. T \in SUBSET Loads
  BY <1>0, <1>3, <1>5
<1>10. OnceEach(T)
  <2> SUFFICES ASSUME NEW l \in S \cup Taken, NEW m \in S \cup Taken, SameRender(l, m) PROVE l = m
    BY <1>3 DEF OnceEach
  <2>1. CASE l \in S /\ m \in S
    BY <1>0, <2>1 DEF OnceEach
  <2>2. CASE l \in Taken /\ m \in Taken
    <3>1. PICK i \in 1..k : l = q[i]
      BY <2>2
    <3>2. PICK j \in 1..k : m = q[j]
      BY <2>2
    <3>3. i \in DOMAIN q /\ j \in DOMAIN q
      BY <1>2
    <3> QED BY <1>0, <3>1, <3>2, <3>3 DEF Once
  <2>3. SameRender(m, l)
    BY DEF SameRender
  <2> QED BY <1>7, <2>1, <2>2, <2>3
<1>11. Once(p)
  <2> SUFFICES ASSUME NEW i \in 1..Len(q) - k, NEW j \in 1..Len(q) - k, SameRender(p[i], p[j]) PROVE i = j
    BY <1>4 DEF Once
  <2>1. i + k \in DOMAIN q /\ j + k \in DOMAIN q /\ SameRender(q[i + k], q[j + k])
    BY <1>2, <1>4
  <2>2. i + k = j + k
    BY <1>0, <2>1 DEF Once
  <2> QED BY <2>2
<1>12. Sorted(p)
  <2> SUFFICES ASSUME NEW i \in 1..Len(q) - k, NEW j \in 1..Len(q) - k, i < j
               PROVE  Priority(p[i]) <= Priority(p[j])
    BY <1>4 DEF Sorted
  <2>1. i + k \in DOMAIN q /\ j + k \in DOMAIN q /\ i + k < j + k
    BY <1>2, <1>4
  <2>2. Priority(q[i + k]) <= Priority(q[j + k])
    BY <1>0, <2>1 DEF Sorted
  <2> QED BY <1>4, <2>2
<1>13. \A l \in Members(p) : l \in Members(q) /\ \A m \in T : ~SameRender(l, m)
  <2> SUFFICES ASSUME NEW i \in 1..Len(q) - k
               PROVE  p[i] \in Members(q) /\ \A m \in S \cup Taken : ~SameRender(p[i], m)
    BY <1>3, <1>4 DEF Members
  <2>1. p[i] = q[i + k] /\ i + k \in 1..Len(q)
    BY <1>4
  <2>2. p[i] \in Members(q)
    BY <1>2, <2>1 DEF Members
  <2>3. ASSUME NEW m \in Taken PROVE ~SameRender(p[i], m)
    <3>1. PICK j \in 1..k : m = q[j]
      OBVIOUS
    <3>2. j \in DOMAIN q /\ i + k \in DOMAIN q /\ i + k # j
      BY <1>2, <2>1
    <3> QED BY <1>0, <2>1, <3>1, <3>2 DEF Once
  <2> QED BY <1>0, <2>2, <2>3 DEF Apart
<1>14. Members(p) \cup T = Members(q) \cup S
  <2>1. Members(p) \cup T \subseteq Members(q) \cup S
    BY <1>3, <1>5, <1>13
  <2>2. ASSUME NEW i \in 1..Len(q) PROVE q[i] \in Members(p) \cup T
    <3>1. CASE i <= k
      BY <1>3, <3>1
    <3>2. CASE i > k
      <4>1. i - k \in 1..Len(q) - k /\ p[i - k] = q[i]
        BY <1>2, <1>4, <3>2
      <4> QED BY <1>4, <4>1 DEF Members
    <3> QED BY <1>2, <3>1, <3>2
  <2>3. Members(q) \subseteq Members(p) \cup T
    BY <1>2, <2>2 DEF Members
  <2> QED BY <1>3, <2>1, <2>3
<1>15. Full(p, active')
  <2>1. p # <<>> => Len(p) # 0
    BY <1>3
  <2>2. k = Len(q) => Len(p) = 0
    BY <1>2, <1>3
  <2>3. p # <<>> => k # Len(q)
    BY <2>1, <2>2
  <2> QED BY <1>3, <2>3 DEF Full
<1>16. Apart(Members(p), T)
  BY <1>13 DEF Apart
<1>17. p \in Seq(Loads) /\ active' = Cardinality(T) /\ active' <= CONCURRENCY
  BY <1>3, <1>8
<1>18. Queued(queue', active', running')
  BY <1>8, <1>9, <1>10, <1>11, <1>12, <1>16, <1>17 DEF Queued
<1> QED BY <1>14, <1>15, <1>18 DEF OnTheirWay

LEMMA InsertKeeps ==
  ASSUME NEW q, NEW n, NEW S, Queued(q, n, S), NEW l \in Loads, Apart(OnTheirWay(q, S), {l})
  PROVE  /\ Queued(Inserted(q, l), n, S)
         /\ OnTheirWay(Inserted(q, l), S) = OnTheirWay(q, S) \cup {l}
<1>0. q \in Seq(Loads) /\ Sorted(q) /\ Once(q) /\ Apart(Members(q), S)
  BY DEF Queued
<1>1. Apart(Members(q), {l}) /\ Apart(S, {l})
  BY DEF Apart, OnTheirWay
<1>2. Inserted(q, l) \in Seq(Loads) /\ Sorted(Inserted(q, l))
  BY <1>0, InsertedIs, InsertedSorted
<1>3. Members(Inserted(q, l)) = Members(q) \cup {l} /\ Once(Inserted(q, l))
  BY <1>0, <1>1, InsertedMembers
<1>4. Apart(Members(Inserted(q, l)), S)
  BY <1>0, <1>1, <1>3 DEF Apart, SameRender
<1>5. Queued(Inserted(q, l), n, S)
  BY <1>2, <1>3, <1>4 DEF Queued
<1> QED BY <1>3, <1>5 DEF OnTheirWay

-----------------------------------------------------------------------------
(* Types, numbers and places. *)

States == {"loading", "ready", "empty", "error", "stopped"}
Views == [state : States, chart : Nat \cup {None}, refreshing : BOOLEAN, seq : Nat]

Types ==
  /\ inputs \in [Renderers -> Nat] /\ static \in SUBSET Renderers
  /\ mounted \in [Renderers -> {"unborn", "mounted", "unmounted"}]
  /\ view \in [Renderers -> Views]
  /\ spinner \in [Elements -> BOOLEAN]
  /\ token \in [Elements -> {"none", "run", "cancel"}]
  /\ answers \in SUBSET [load : Loads, outcome : Outcomes]
  /\ tails \in SUBSET [r : Renderers, seq : Nat, announces : BOOLEAN]

(* A load is in one place, and every place has loads of different renders. *)
InOnePlace ==
  /\ \A a, b \in answers : SameRender(a.load, b.load) => a = b
  /\ \A a \in answers : Apart(OnTheirWay(queue, running), {a.load})

(* Nothing on its way has a number its renderer has not reached. *)
Numbered ==
  /\ \A l \in OnTheirWay(queue, running) : l.seq <= view[l.r].seq
  /\ \A a \in answers : a.load.seq <= view[a.load.r].seq
  /\ \A t \in tails : t.seq <= view[t.r].seq

(* An element is mounted once as a card and once in the dialog. *)
OneOfAKind ==
  \A q, r \in Renderers :
    /\ mounted[q] = "mounted" /\ mounted[r] = "mounted" /\ ElementOf[q] = ElementOf[r]
    /\ q \in Dialogs <=> r \in Dialogs
    => q = r

Core ==
  /\ Types
  /\ Queued(queue, active, running) /\ Full(queue, active)
  /\ InOnePlace /\ Numbered /\ OneOfAKind

LEMMA InitCore == Init => Core
<1> SUFFICES ASSUME Init PROVE Core
  OBVIOUS
<1>1. Types
  BY DEF Init, Types, FreshView, Views, States
<1>2. DOMAIN queue = {} /\ Members(queue) = {} /\ queue \in Seq(Loads)
  BY DEF Init, Members
<1>3. Queued(queue, active, running) /\ Full(queue, active)
  BY <1>2, FS_EmptySet, ElementRenderAssumption DEF Init, Queued, Full, Sorted, Once, OnceEach, Apart
<1>4. InOnePlace /\ Numbered /\ OneOfAKind
  BY <1>2 DEF Init, InOnePlace, Numbered, OneOfAKind, OnTheirWay
<1> QED BY <1>1, <1>3, <1>4 DEF Core

LEMMA WaysType == Core => OnTheirWay(queue, running) \subseteq Loads /\ \A a \in answers : a.load \in Loads
<1> SUFFICES ASSUME Core PROVE OnTheirWay(queue, running) \subseteq Loads /\ \A a \in answers : a.load \in Loads
  OBVIOUS
<1>1. queue \in Seq(Loads) /\ running \subseteq Loads
  BY DEF Core, Queued
<1>2. Members(queue) \subseteq Loads
  BY <1>1 DEF Members
<1> QED BY <1>1, <1>2 DEF Core, Types, OnTheirWay

(* The loads of new renders of R. *)
New(r) == Load(r, FALSE)

Singular(R) == \A q, r \in R : (q \in Dialogs <=> r \in Dialogs) => q = r

Renumbered(R) ==
  /\ inputs' \in [Renderers -> Nat] /\ view' \in [Renderers -> Views]
  /\ \A r \in R : view'[r].seq = view[r].seq + 1

LEMMA NewLoads ==
  ASSUME Core, NEW R \in SUBSET Renderers, Renumbered(R), NEW r \in R
  PROVE  /\ New(r) \in Loads /\ New(r).r = r /\ New(r).seq = view'[r].seq
         /\ New(r).inputs = inputs'[r] /\ New(r).retry = FALSE
         /\ Apart(OnTheirWay(queue, running), {New(r)})
         /\ \A a \in answers : ~SameRender(New(r), a.load)
<1>1. New(r) = [r |-> r, seq |-> view'[r].seq, inputs |-> inputs'[r], retry |-> FALSE]
  BY DEF New, Load
<1>2. view'[r].seq \in Nat /\ view[r].seq \in Nat /\ view'[r].seq = view[r].seq + 1
  BY DEF Core, Types, Renumbered, Views
<1>3. inputs'[r] \in Nat
  BY DEF Renumbered
<1>4. New(r) \in Loads
  BY <1>1, <1>2, <1>3 DEF Loads
<1>5. ASSUME NEW l \in Loads, l.seq <= view[l.r].seq, l.r = r PROVE l.seq # view'[r].seq
  <2>1. l.seq \in Nat
    BY DEF Loads
  <2> QED BY <1>2, <1>5, <2>1
<1>6. \A l \in OnTheirWay(queue, running) : ~SameRender(l, New(r))
  BY <1>1, <1>5, WaysType DEF Core, Numbered, SameRender
<1>7. \A a \in answers : ~SameRender(New(r), a.load)
  BY <1>1, <1>5, WaysType DEF Core, Numbered, SameRender
<1>8. /\ New(r).r = r /\ New(r).seq = view'[r].seq
      /\ New(r).inputs = inputs'[r] /\ New(r).retry = FALSE
  BY <1>1
<1>9. Apart(OnTheirWay(queue, running), {New(r)})
  BY <1>6 DEF Apart
<1> QED BY <1>4, <1>7, <1>8, <1>9

(* The queue as it is, or cleared. *)
LEMMA BaseQueue ==
  ASSUME Core, NEW b, b = queue \/ b = <<>>
  PROVE  /\ Queued(b, active, running)
         /\ OnTheirWay(b, running) \subseteq OnTheirWay(queue, running)
<1>1. CASE b = queue
  BY <1>1 DEF Core
<1>2. CASE b = <<>>
  <2>1. DOMAIN b = {} /\ Members(b) = {} /\ b \in Seq(Loads)
    BY <1>2 DEF Members
  <2> QED BY <1>2, <2>1 DEF Core, Queued, Sorted, Once, Apart, OnTheirWay
<1> QED BY <1>1, <1>2

LEMMA PushKeeps ==
  ASSUME NEW q, Queued(q, active, running), NEW S, \A r, t \in S : r = t,
         \A r \in S : New(r) \in Loads /\ Apart(OnTheirWay(q, running), {New(r)}),
         NEW p, p = IF S = {} THEN q ELSE Inserted(q, New(CHOOSE r \in S : TRUE))
  PROVE  /\ Queued(p, active, running)
         /\ OnTheirWay(p, running) = OnTheirWay(q, running) \cup {New(r) : r \in S}
<1>1. CASE S = {}
  BY <1>1
<1>2. CASE S # {}
  <2> DEFINE c == CHOOSE r \in S : TRUE
             l == New(c)
  <2>1. c \in S
    BY <1>2
  <2>2. S = {c}
    BY <2>1
  <2>3. l \in Loads /\ Apart(OnTheirWay(q, running), {l}) /\ p = Inserted(q, l)
    BY <1>2, <2>1
  <2>4. {New(r) : r \in S} = {l}
    BY <2>2
  <2> HIDE DEF l
  <2> QED BY <2>3, <2>4, InsertKeeps
<1> QED BY <1>1, <1>2

LEMMA EnqueueKeeps ==
  ASSUME Core, NEW R \in SUBSET Renderers, Renumbered(R), Singular(R),
         NEW b, b = queue \/ b = <<>>, Enqueue(b, R)
  PROVE  /\ Queued(queue', active', running') /\ Full(queue', active')
         /\ OnTheirWay(queue', running') = OnTheirWay(b, running) \cup {New(r) : r \in R}
<1> DEFINE card == {r \in R : r \notin Dialogs}
           dialog == R \cap Dialogs
           Push(q, S) == IF S = {} THEN q ELSE Inserted(q, New(CHOOSE r \in S : TRUE))
           p == Push(b, card)
           u == Push(p, dialog)
<1>0. Schedule(u, active, running)
  BY DEF Enqueue, New
<1>1. Queued(b, active, running) /\ OnTheirWay(b, running) \subseteq OnTheirWay(queue, running)
  BY BaseQueue
<1>2. \A r \in R : New(r) \in Loads /\ New(r).r = r /\ Apart(OnTheirWay(b, running), {New(r)})
  BY <1>1, NewLoads DEF Apart
<1>3. (\A r, t \in card : r = t) /\ (\A r, t \in dialog : r = t)
  BY DEF Singular
<1>4. p = IF card = {} THEN b ELSE Inserted(b, New(CHOOSE r \in card : TRUE))
  OBVIOUS
<1>5. u = IF dialog = {} THEN p ELSE Inserted(p, New(CHOOSE r \in dialog : TRUE))
  OBVIOUS
<1>6. \A r \in card, t \in dialog : r \in R /\ t \in R /\ r # t
  OBVIOUS
<1>7. {New(r) : r \in R} = {New(r) : r \in card} \cup {New(r) : r \in dialog}
  OBVIOUS
<1> HIDE DEF card, dialog, Push, p, u
<1>8. /\ Queued(p, active, running)
      /\ OnTheirWay(p, running) = OnTheirWay(b, running) \cup {New(r) : r \in card}
  <2>1. \A r \in card : New(r) \in Loads /\ Apart(OnTheirWay(b, running), {New(r)})
    BY <1>2 DEF card
  <2> QED BY <1>1, <1>3, <1>4, <2>1, PushKeeps
<1>9. \A r \in dialog : New(r) \in Loads /\ Apart(OnTheirWay(p, running), {New(r)})
  <2> SUFFICES ASSUME NEW r \in dialog
               PROVE  New(r) \in Loads /\ Apart(OnTheirWay(p, running), {New(r)})
    OBVIOUS
  <2>1. r \in R
    BY DEF dialog
  <2>2. \A t \in card : New(t).r # New(r).r
    BY <1>2, <1>6, <2>1
  <2> QED BY <1>2, <1>8, <2>1, <2>2 DEF Apart, SameRender
<1>10. /\ Queued(u, active, running)
       /\ OnTheirWay(u, running) = OnTheirWay(p, running) \cup {New(r) : r \in dialog}
  BY <1>3, <1>5, <1>8, <1>9, PushKeeps
<1>11. /\ Queued(queue', active', running') /\ Full(queue', active')
       /\ OnTheirWay(queue', running') = OnTheirWay(u, running)
  BY <1>0, <1>10, ScheduleKeeps
<1> QED BY <1>7, <1>8, <1>10, <1>11

-----------------------------------------------------------------------------
(* What the actions of the user do: the renderers D start loads, those of S *)
(* show a static kind, those of T are stopped, others may go, and the queue *)
(* may be cleared first.                                                    *)

(* The view of a renderer that starts a load. *)
Relaunched(r) ==
  /\ view'[r].seq = view[r].seq + 1
  /\ \/ view[r].state = "ready" /\ view'[r].state = "ready" /\ view'[r].refreshing = TRUE
     \/ view'[r].state = "loading"

ShownStatic(r) ==
  view'[r].seq = view[r].seq /\ view'[r].refreshing = view[r].refreshing /\ view'[r].state = "ready"

Halted(r) ==
  view'[r].seq = view[r].seq + 1 /\ view'[r].refreshing = FALSE /\ view'[r].state = "stopped"

(* Who is there before and after, R being those whose watcher runs. *)
Around(R) ==
  /\ R \in SUBSET Renderers
  /\ inputs' \in [Renderers -> Nat] /\ static' \in SUBSET Renderers
  /\ mounted' \in [Renderers -> {"unborn", "mounted", "unmounted"}]
  /\ \A r \in R : mounted'[r] = "mounted" /\ mounted[r] # "unmounted"
  /\ \A r \in Renderers \ R :
       /\ mounted'[r] \in {mounted[r], "unmounted"}
       /\ mounted'[r] = "mounted" => inputs'[r] = inputs[r] /\ (r \in static' <=> r \in static)
  /\ OneOfAKind'
  /\ answers' = answers /\ tails' = tails /\ leaving' = leaving

(* A spinner that stays on, of an element whose renderers stay or close.    *)
Spins(d) ==
  /\ spinner[d]
  /\ \A r \in RenderersOf(d) : mounted'[r] = mounted[r] \/ (r \in Dialogs /\ mounted'[r] = "unmounted")

Repaints(D, S, T) ==
  /\ view' \in [Renderers -> Views]
  /\ \A r \in D : r \notin static' /\ Relaunched(r)
  /\ \A r \in S : r \in static' /\ ShownStatic(r)
  /\ \A r \in T : Halted(r)
  /\ \A r \in Renderers \ (D \cup S \cup T) : view'[r] = view[r]

Spinners(D, S, T) ==
  /\ spinner' \in [Elements -> BOOLEAN]
  /\ \A d \in Elements : spinner'[d] =>
       \/ \E r \in D : ElementOf[r] = d
       \/ Spins(d) /\ \A r \in S \cup T : ElementOf[r] # d

Drops(D, T) ==
  \A r \in Renderers \ (D \cup T) : mounted'[r] = "mounted" =>
    /\ r \in dropped => r \in dropped'
    /\ \A l \in Members(queue) : l.r = r => r \in dropped' \/ l \in OnTheirWay(queue', running')

Ways(D) ==
  /\ Queued(queue', active', running') /\ Full(queue', active')
  /\ OnTheirWay(queue', running') \subseteq OnTheirWay(queue, running) \cup {New(r) : r \in D}
  /\ running \cup {New(r) : r \in D} \subseteq OnTheirWay(queue', running')

Acts(D, S, T) ==
  Around(D \cup S \cup T) /\ Repaints(D, S, T) /\ Spinners(D, S, T) /\ Drops(D, T) /\ Ways(D)

(* The queue b and the spinners s that the watchers of R find. *)
Base(R, b, s) ==
  /\ \/ b = queue
     \/ b = <<>> /\ \A r \in Renderers \ R : mounted'[r] # "mounted"
  /\ s \in [Elements -> BOOLEAN]
  /\ \A d \in Elements : s[d] =>
       /\ spinner[d]
       /\ \A r \in RenderersOf(d) \ R :
            mounted'[r] = mounted[r] \/ (r \in Dialogs /\ mounted'[r] = "unmounted")

LEMMA LoadingView ==
  ASSUME NEW v, v \in Views, NEW k, k \in BOOLEAN, NEW w, w = Loading(v, k)
  PROVE  /\ w \in Views /\ w.seq = v.seq + 1
         /\ k => w.state = v.state /\ w.refreshing = TRUE
         /\ ~k => w.state = "loading"
<1>1. w = [state |-> IF k THEN v.state ELSE "loading", chart |-> IF k THEN v.chart ELSE None,
           refreshing |-> v.refreshing \/ k, seq |-> v.seq + 1]
  BY DEF Loading, Views
<1>2. v.state \in States /\ v.chart \in Nat \cup {None} /\ v.refreshing \in BOOLEAN /\ v.seq \in Nat
  BY DEF Views
<1>3. w.seq = v.seq + 1 /\ w.state = IF k THEN v.state ELSE "loading"
  BY <1>1
<1>4. k => w.refreshing = TRUE
  <2>1. w.refreshing = (v.refreshing \/ k)
    BY <1>1
  <2> QED BY <2>1
<1>5. w \in Views
  <2>1. (IF k THEN v.state ELSE "loading") \in States /\ (IF k THEN v.chart ELSE None) \in Nat \cup {None}
    BY <1>2 DEF States
  <2>2. (v.refreshing \/ k) \in BOOLEAN /\ v.seq + 1 \in Nat
    BY <1>2
  <2> QED BY <1>1, <2>1, <2>2 DEF Views
<1> QED BY <1>3, <1>4, <1>5

LEMMA RenderedViews ==
  ASSUME Core, NEW R \in SUBSET Renderers, NEW refresh,
         view' = [r \in Renderers |-> CASE r \in R \ static' -> Loading(view[r], KeepsRender(r, refresh))
                                        [] r \in R \ (R \ static') -> Static(view[r])
                                        [] OTHER -> view[r]]
  PROVE  Repaints(R \ static', R \cap static', {})
<1>1. view \in [Renderers -> Views]
  BY DEF Core, Types
<1>2. ASSUME NEW r \in R \ static'
      PROVE  view'[r] \in Views /\ Relaunched(r)
  <2> DEFINE k == KeepsRender(r, refresh)
             v == view[r]
  <2>1. v \in Views /\ k \in BOOLEAN /\ (k => v.state = "ready")
    BY <1>1 DEF KeepsRender
  <2>2. view'[r] = Loading(v, k)
    BY <1>2
  <2> HIDE DEF k, v
  <2> DEFINE w == view'[r]
  <2> HIDE DEF w
  <2>3. w = Loading(v, k)
    BY <2>2 DEF w
  <2>4. /\ w \in Views /\ w.seq = v.seq + 1
        /\ k => w.state = v.state /\ w.refreshing = TRUE
        /\ ~k => w.state = "loading"
    BY <2>1, <2>3, LoadingView
  <2>5. /\ w \in Views /\ w.seq = v.seq + 1
        /\ \/ v.state = "ready" /\ w.state = "ready" /\ w.refreshing = TRUE
           \/ w.state = "loading"
    BY <2>1, <2>4
  <2> QED BY <2>5 DEF Relaunched, v, w
<1>3. ASSUME NEW r \in R \cap static'
      PROVE  view'[r] \in Views /\ ShownStatic(r)
  <2>1. view[r] \in Views /\ view'[r] = Static(view[r])
    BY <1>1, <1>3
  <2>2. view'[r] = [state |-> "ready", chart |-> None, refreshing |-> view[r].refreshing, seq |-> view[r].seq]
    BY <2>1 DEF Static, Views
  <2>3. view[r].refreshing \in BOOLEAN /\ view[r].seq \in Nat
    BY <2>1 DEF Views
  <2> QED BY <2>2, <2>3 DEF Views, States, ShownStatic
<1>4. \A r \in Renderers \ R : view'[r] = view[r]
  OBVIOUS
<1>5. view' \in [Renderers -> Views]
  <2>1. view' = [r \in Renderers |-> view'[r]]
    OBVIOUS
  <2>2. \A r \in Renderers : view'[r] \in Views
    BY <1>1, <1>2, <1>3, <1>4
  <2> QED BY <2>1, <2>2
<1> QED BY <1>2, <1>3, <1>4, <1>5 DEF Repaints

LEMMA RenderElementActs ==
  ASSUME Core, NEW e \in Elements, NEW R, R \in SUBSET RenderersOf(e), NEW refresh, NEW b, NEW s,
         Around(R), Base(R, b, s), RenderElement(e, R, refresh, b, s)
  PROVE  Acts(R \ static', R \cap static', {})
<1> DEFINE D == R \ static'
           S == R \cap static'
<1>0. R \in SUBSET Renderers /\ D \cup S \cup {} = R /\ D \in SUBSET Renderers /\ \A r \in R : ElementOf[r] = e
  BY DEF Around, RenderersOf
<1>1. /\ view' = [r \in Renderers |-> CASE r \in D -> Loading(view[r], KeepsRender(r, refresh))
                                       [] r \in R \ D -> Static(view[r])
                                       [] OTHER -> view[r]]
      /\ spinner' = [s EXCEPT ![e] = Last(R) \cap D # {}]
      /\ dropped' = (dropped \cup Forgone(R, b)) \ D
      /\ Enqueue(b, D)
  BY DEF RenderElement
<1>2. Repaints(D, S, {})
  BY <1>0, <1>1, RenderedViews
<1>3. Renumbered(D)
  BY <1>2 DEF Renumbered, Repaints, Relaunched, Around
<1>4. Singular(D)
  BY <1>0 DEF Singular, Around, OneOfAKind
<1>5. b = queue \/ b = <<>>
  BY DEF Base
<1>6. /\ Queued(queue', active', running') /\ Full(queue', active')
      /\ OnTheirWay(queue', running') = OnTheirWay(b, running) \cup {New(r) : r \in D}
  BY <1>0, <1>1, <1>3, <1>4, <1>5, EnqueueKeeps
<1>7. OnTheirWay(b, running) \subseteq OnTheirWay(queue, running) /\ running \subseteq OnTheirWay(b, running)
  BY <1>5, BaseQueue DEF OnTheirWay
<1>8. Ways(D)
  BY <1>6, <1>7 DEF Ways
<1>9. Spinners(D, S, {})
  <2>1. s \in [Elements -> BOOLEAN] /\ (Last(R) \cap D # {}) \in BOOLEAN
    BY DEF Base
  <2>2. spinner' \in [Elements -> BOOLEAN]
    BY <1>1, <2>1
  <2>3. ASSUME NEW d \in Elements, spinner'[d], d = e PROVE \E r \in D : ElementOf[r] = d
    BY <1>0, <1>1, <2>1, <2>3
  <2>4. ASSUME NEW d \in Elements, spinner'[d], d # e PROVE Spins(d) /\ \A r \in S : ElementOf[r] # d
    <3>1. s[d]
      BY <1>1, <2>1, <2>4
    <3>2. \A r \in RenderersOf(d) : r \notin R
      BY <1>0, <2>4 DEF RenderersOf
    <3> QED BY <1>0, <2>4, <3>1, <3>2 DEF Base, Spins
  <2> QED BY <2>2, <2>3, <2>4 DEF Spinners
<1>10. Drops(D, {})
  <2> SUFFICES ASSUME NEW r \in Renderers \ D, mounted'[r] = "mounted"
               PROVE  /\ r \in dropped => r \in dropped'
                      /\ \A l \in Members(queue) : l.r = r => r \in dropped' \/ l \in OnTheirWay(queue', running')
    BY DEF Drops
  <2>1. r \in dropped => r \in dropped'
    BY <1>1
  <2>2. ASSUME NEW l \in Members(queue), l.r = r PROVE r \in dropped' \/ l \in OnTheirWay(queue', running')
    <3>1. CASE b = queue
      BY <1>6, <3>1 DEF OnTheirWay
    <3>2. CASE b # queue
      <4>1. b = <<>> /\ r \in R
        BY <3>2 DEF Base
      <4>2. \E i \in DOMAIN queue : queue[i].r = r
        BY <2>2 DEF Members
      <4> QED BY <1>1, <4>1, <4>2 DEF Forgone
    <3> QED BY <3>1, <3>2
  <2> QED BY <2>1, <2>2
<1>11. Around(D \cup S \cup {})
  BY <1>0
<1> HIDE DEF D, S
<1>12. Acts(D, S, {})
  BY <1>2, <1>8, <1>9, <1>10, <1>11 DEF Acts
<1> QED BY <1>12 DEF D, S

LEMMA StopRenderActs ==
  ASSUME Core, NEW e \in Elements, NEW R, R \in SUBSET RenderersOf(e), NEW b, NEW s,
         Around(R), Base(R, b, s), StopRender(e, R, b, s)
  PROVE  Acts({}, {}, R)
<1>0. R \in SUBSET Renderers /\ \A r \in R : ElementOf[r] = e
  BY DEF Around, RenderersOf
<1>1. view \in [Renderers -> Views]
  BY DEF Core, Types
<1>2. /\ view' = [r \in Renderers |-> IF r \in R THEN Stopped(view[r]) ELSE view[r]]
      /\ spinner' = [s EXCEPT ![e] = FALSE] /\ dropped' = dropped \ R
      /\ queue' = b /\ active' = active /\ running' = running
  BY DEF StopRender
<1>3. ASSUME NEW r \in R PROVE view'[r] \in Views /\ Halted(r)
  <2>1. view[r] \in Views /\ view'[r] = Stopped(view[r])
    BY <1>0, <1>1, <1>2
  <2>2. Stopped(view[r]) = [state |-> "stopped", chart |-> view[r].chart, refreshing |-> FALSE,
                            seq |-> view[r].seq + 1]
    BY <2>1 DEF Views, Stopped
  <2>3. view[r].chart \in Nat \cup {None} /\ view[r].seq + 1 \in Nat
    BY <2>1 DEF Views
  <2> QED BY <2>1, <2>2, <2>3 DEF Views, States, Halted
<1>4. \A r \in Renderers \ R : view'[r] = view[r]
  BY <1>2
<1>5. view' \in [Renderers -> Views]
  <2>1. view' = [r \in Renderers |-> view'[r]]
    BY <1>2
  <2>2. \A r \in Renderers : view'[r] \in Views
    BY <1>1, <1>3, <1>4
  <2> QED BY <2>1, <2>2
<1>6. Repaints({}, {}, R)
  BY <1>3, <1>4, <1>5 DEF Repaints
<1>7. Ways({})
  <2>1. Queued(b, active, running) /\ OnTheirWay(b, running) \subseteq OnTheirWay(queue, running)
    BY BaseQueue DEF Base
  <2>2. Full(b, active)
    BY DEF Core, Full, Base
  <2> QED BY <1>2, <2>1, <2>2 DEF Ways, OnTheirWay
<1>8. Spinners({}, {}, R)
  <2>1. s \in [Elements -> BOOLEAN]
    BY DEF Base
  <2>2. spinner' \in [Elements -> BOOLEAN]
    BY <1>2, <2>1
  <2>3. ASSUME NEW d \in Elements, spinner'[d] PROVE Spins(d) /\ \A r \in R : ElementOf[r] # d
    <3>1. s[d] /\ d # e
      BY <1>2, <2>1, <2>3
    <3>2. \A r \in RenderersOf(d) : r \notin R
      BY <1>0, <3>1 DEF RenderersOf
    <3> QED BY <1>0, <3>1, <3>2 DEF Base, Spins
  <2> QED BY <2>2, <2>3 DEF Spinners
<1>9. Drops({}, R)
  <2> SUFFICES ASSUME NEW r \in Renderers \ R, mounted'[r] = "mounted"
               PROVE  /\ r \in dropped => r \in dropped'
                      /\ \A l \in Members(queue) : l.r = r => r \in dropped' \/ l \in OnTheirWay(queue', running')
    BY DEF Drops
  <2>1. b = queue
    BY DEF Base
  <2> QED BY <1>2, <2>1 DEF OnTheirWay
<1> QED BY <1>6, <1>7, <1>8, <1>9 DEF Acts

(* Nothing is rendered or stopped: R is left as it is. *)
LEMMA LeftAlone ==
  ASSUME Core, NEW R \in SUBSET Renderers, NEW b, NEW s, Around({}), Base(R, b, s),
         \A r \in R : mounted'[r] = mounted[r],
         queue' = b, spinner' = s, UNCHANGED <<view, active, running>>,
         \A r \in Renderers : mounted'[r] = "mounted" =>
           /\ r \in dropped => r \in dropped'
           /\ b # queue /\ (\E i \in DOMAIN queue : queue[i].r = r) => r \in dropped'
  PROVE  Acts({}, {}, {})
<1>1. Repaints({}, {}, {})
  BY DEF Repaints, Core, Types
<1>2. Ways({})
  <2>1. Queued(b, active, running) /\ OnTheirWay(b, running) \subseteq OnTheirWay(queue, running)
    BY BaseQueue DEF Base
  <2>2. Full(b, active)
    BY DEF Core, Full, Base
  <2> QED BY <2>1, <2>2 DEF Ways, OnTheirWay
<1>3. Spinners({}, {}, {})
  BY DEF Base, Spinners, Spins
<1>4. Drops({}, {})
  BY DEF Drops, OnTheirWay, Members
<1> QED BY <1>1, <1>2, <1>3, <1>4 DEF Acts

LEMMA FallBackActs ==
  ASSUME Core, NEW e \in Elements, NEW R, R \in SUBSET RenderersOf(e), NEW given \in BOOLEAN, NEW b, NEW s,
         Around(R), Base(R, b, s), given \/ Around({}), \A r \in R : mounted'[r] = mounted[r],
         b = queue \/ \A r \in Renderers : mounted'[r] = "mounted" => r \in R,
         FallBack(e, R, given, b, s)
  PROVE  \E D, S, T \in SUBSET Renderers : Acts(D, S, T)
<1>0. R \in SUBSET Renderers
  BY DEF Around
<1>1. CASE StopRender(e, R, b, s)
  BY <1>0, <1>1, StopRenderActs
<1>2. CASE RenderElement(e, R, TRUE, b, s)
  <2>1. Acts(R \ static', R \cap static', {})
    BY <1>2, RenderElementActs
  <2> QED BY <1>0, <2>1
<1>3. CASE RenderElement(e, R, FALSE, b, s)
  <2>1. Acts(R \ static', R \cap static', {})
    BY <1>3, RenderElementActs
  <2> QED BY <1>0, <2>1
<1>4. CASE /\ ~given /\ queue' = b /\ spinner' = s
           /\ dropped' = dropped \cup Forgone(R, b)
           /\ UNCHANGED <<view, active, running>>
  <2>1. b = queue \/ b = <<>>
    BY DEF Base
  <2>2. Acts({}, {}, {})
    BY <1>0, <1>4, <2>1, LeftAlone DEF Forgone
  <2> QED BY <2>2
<1>5. token[e] \in {"none", "run", "cancel"}
  BY DEF Core, Types
<1> QED BY <1>1, <1>2, <1>3, <1>4, <1>5 DEF FallBack

(* The watchers of all or of the cards of an element run. *)
LEMMA RunsAround ==
  ASSUME Core, NEW R \in SUBSET Renderers, \A r \in R : mounted[r] = "mounted", UNCHANGED mounted,
         inputs' \in [Renderers -> Nat], static' \in SUBSET Renderers,
         \A r \in Renderers \ R : inputs'[r] = inputs[r] /\ (r \in static' <=> r \in static),
         UNCHANGED <<answers, tails, page>>
  PROVE  Around(R) /\ Base(R, queue, spinner)
BY DEF Core, Types, Around, Base, OneOfAKind, page

LEMMA GivenType ==
  ASSUME Core, NEW R \in SUBSET Renderers, Given(R)
  PROVE  inputs' \in [Renderers -> Nat] /\ \A r \in Renderers \ R : inputs'[r] = inputs[r]
BY DEF Core, Types, Given

LEMMA OfKindType ==
  ASSUME Core, NEW R \in SUBSET Renderers, NEW kind, OfKind(kind, R)
  PROVE  static' \in SUBSET Renderers /\ \A r \in Renderers \ R : r \in static' <=> r \in static
BY DEF Core, Types, OfKind

LEMMA MountedOf ==
  \A e : /\ Mounted(e) \in SUBSET Renderers /\ Mounted(e) \in SUBSET RenderersOf(e)
         /\ Cards(e) \in SUBSET Mounted(e) /\ \A r \in Mounted(e) : mounted[r] = "mounted"
BY DEF Mounted, Cards, RenderersOf

LEMMA RunActs ==
  ASSUME Core, NEW e \in Elements,
         \/ ToggleRun(e)
         \/ \E kind \in Kinds : ChangeElement(e, kind)
         \/ ChangeFilters(e)
  PROVE  \E D, S, T \in SUBSET Renderers : Acts(D, S, T)
<1>0. /\ Mounted(e) \in SUBSET Renderers /\ Mounted(e) \in SUBSET RenderersOf(e)
      /\ Cards(e) \in SUBSET Renderers /\ Cards(e) \in SUBSET RenderersOf(e)
      /\ (\A r \in Mounted(e) : mounted[r] = "mounted") /\ (\A r \in Cards(e) : mounted[r] = "mounted")
  BY MountedOf
<1>1. CASE ToggleRun(e)
  <2>1. /\ inputs' = inputs /\ static' = static /\ mounted' = mounted /\ UNCHANGED <<answers, tails, page>>
        /\ \/ StopRender(e, Mounted(e), queue, spinner)
           \/ RenderElement(e, Mounted(e), TRUE, queue, spinner)
    BY <1>1 DEF ToggleRun
  <2>2. Around(Mounted(e)) /\ Base(Mounted(e), queue, spinner)
    <3>1. inputs' \in [Renderers -> Nat] /\ static' \in SUBSET Renderers
      BY <2>1 DEF Core, Types
    <3> QED BY <1>0, <2>1, <3>1, RunsAround
  <2>3. Acts({}, {}, Mounted(e)) \/ Acts(Mounted(e) \ static', Mounted(e) \cap static', {})
    BY <1>0, <2>1, <2>2, StopRenderActs, RenderElementActs
  <2> QED BY <1>0, <2>3
<1>2. ASSUME NEW kind \in Kinds, ChangeElement(e, kind)
      PROVE  \E D, S, T \in SUBSET Renderers : Acts(D, S, T)
  <2>1. /\ Given(Cards(e)) /\ OfKind(kind, Cards(e)) /\ UNCHANGED mounted /\ UNCHANGED <<answers, tails, page>>
        /\ RenderElement(e, Cards(e), FALSE, queue, spinner)
    BY <1>2 DEF ChangeElement
  <2>2. /\ inputs' \in [Renderers -> Nat] /\ static' \in SUBSET Renderers
        /\ \A r \in Renderers \ Cards(e) : inputs'[r] = inputs[r] /\ (r \in static' <=> r \in static)
    BY <1>0, <2>1, GivenType, OfKindType
  <2>3. Around(Cards(e)) /\ Base(Cards(e), queue, spinner)
    BY <1>0, <2>1, <2>2, RunsAround
  <2>4. Acts(Cards(e) \ static', Cards(e) \cap static', {})
    BY <1>0, <2>1, <2>3, RenderElementActs
  <2> QED BY <1>0, <2>4
<1>3. CASE ChangeFilters(e)
  <2>1. /\ Given(Mounted(e)) /\ static' = static /\ UNCHANGED mounted /\ UNCHANGED <<answers, tails, page>>
        /\ RenderElement(e, Mounted(e), FALSE, queue, spinner)
    BY <1>3 DEF ChangeFilters
  <2>2. /\ inputs' \in [Renderers -> Nat] /\ static' \in SUBSET Renderers
        /\ \A r \in Renderers \ Mounted(e) : inputs'[r] = inputs[r] /\ (r \in static' <=> r \in static)
    BY <1>0, <2>1, GivenType DEF Core, Types
  <2>3. Around(Mounted(e)) /\ Base(Mounted(e), queue, spinner)
    BY <1>0, <2>1, <2>2, RunsAround
  <2>4. Acts(Mounted(e) \ static', Mounted(e) \cap static', {})
    BY <1>0, <2>1, <2>3, RenderElementActs
  <2> QED BY <1>0, <2>4
<1> QED BY <1>1, <1>2, <1>3

LEMMA MountActs ==
  ASSUME Core, NEW r \in Renderers, NEW kind \in Kinds, Mount(r, kind)
  PROVE  \E D, S, T \in SUBSET Renderers : Acts(D, S, T)
<1> DEFINE e == ElementOf[r]
<1>1. /\ mounted[r] = "unborn"
      /\ IF r \in Dialogs THEN Present \cap Dialogs = {} ELSE Cards(e) = {}
      /\ mounted' = [mounted EXCEPT ![r] = "mounted"]
      /\ inputs' = inputs /\ OfKind(kind, {r})
      /\ RenderElement(e, {r}, FALSE, queue, spinner)
      /\ answers' = answers /\ tails' = tails /\ leaving' = leaving
  BY DEF Mount, page
<1>2. inputs \in [Renderers -> Nat] /\ spinner \in [Elements -> BOOLEAN]
      /\ mounted \in [Renderers -> {"unborn", "mounted", "unmounted"}] /\ OneOfAKind
  BY DEF Core, Types
<1>3. \A q \in Renderers : mounted[q] = "mounted" /\ ElementOf[q] = e => ~(q \in Dialogs <=> r \in Dialogs)
  BY <1>1 DEF Mounted, Cards, RenderersOf, Present
<1>4. OneOfAKind'
  BY <1>1, <1>2, <1>3 DEF OneOfAKind
<1>5. e \in Elements /\ {r} \in SUBSET RenderersOf(e) /\ {r} \in SUBSET Renderers
  BY ElementRenderAssumption DEF RenderersOf
<1>6. static' \in SUBSET Renderers /\ \A q \in Renderers \ {r} : q \in static' <=> q \in static
  BY <1>1, <1>5, OfKindType
<1>7. Around({r})
  BY <1>1, <1>2, <1>4, <1>5, <1>6 DEF Around
<1>8. Base({r}, queue, spinner)
  BY <1>1, <1>2 DEF Base, RenderersOf
<1>9. Acts({r} \ static', {r} \cap static', {})
  BY <1>1, <1>5, <1>7, <1>8, RenderElementActs
<1> QED BY <1>5, <1>9

(* Renderers are unmounted and nobody changes what the others are given. *)
LEMMA GoAround ==
  ASSUME Core, NEW G \in SUBSET Renderers, Unmount(G), inputs' = inputs, static' = static,
         UNCHANGED <<answers, tails, page>>
  PROVE  /\ Around({})
         /\ \A R \in SUBSET Renderers : (\A r \in R : mounted[r] = "mounted" /\ r \notin G) => Around(R)
<1>1. mounted' = [r \in Renderers |-> IF r \in G THEN "unmounted" ELSE mounted[r]]
  BY DEF Unmount
<1>2. \A r \in Renderers : mounted'[r] = "mounted" => mounted[r] = "mounted"
  BY <1>1
<1>3. OneOfAKind'
  BY <1>2 DEF Core, OneOfAKind
<1> QED BY <1>1, <1>3 DEF Around, Core, Types, page

LEMMA ForgottenType ==
  ASSUME Core, NEW E
  PROVE  Forgotten(E) \in [Elements -> BOOLEAN] /\ \A d \in Elements : Forgotten(E)[d] => d \notin E /\ spinner[d]
<1>1. spinner \in [Elements -> BOOLEAN]
  BY DEF Core, Types
<1> QED BY <1>1 DEF Forgotten

LEMMA RemoveActs ==
  ASSUME Core, NEW e \in Elements, RemoveElement(e)
  PROVE  \E D, S, T \in SUBSET Renderers : Acts(D, S, T)
<1> DEFINE R == Mounted(e) \cap Dialogs
<1>1. PICK others \in SUBSET OffDashboard : FallBack(e, R, FALSE, queue, Forgotten({e} \cup others))
  BY DEF RemoveElement
<1> DEFINE s == Forgotten({e} \cup others)
<1>2. Unmount(Cards(e)) /\ inputs' = inputs /\ static' = static /\ UNCHANGED <<answers, tails, page>>
  BY DEF RemoveElement
<1>3. /\ Cards(e) \in SUBSET Renderers /\ R \in SUBSET Renderers /\ R \in SUBSET RenderersOf(e)
      /\ \A r \in R : mounted[r] = "mounted" /\ r \notin Cards(e)
  BY MountedOf DEF Cards
<1>4. Around({}) /\ Around(R)
  BY <1>2, <1>3, GoAround
<1>5. mounted' = [r \in Renderers |-> IF r \in Cards(e) THEN "unmounted" ELSE mounted[r]]
  BY <1>2 DEF Unmount
<1>6. \A r \in R : mounted'[r] = mounted[r]
  BY <1>3, <1>5
<1>7. s \in [Elements -> BOOLEAN] /\ \A d \in Elements : s[d] => d # e /\ spinner[d]
  BY ForgottenType
<1>8. \A d \in Elements : d # e => \A r \in RenderersOf(d) : r \notin Cards(e) /\ r \in Renderers
  BY DEF RenderersOf, Cards, Mounted
<1> HIDE DEF R, s
<1>9. Base(R, queue, s)
  BY <1>5, <1>7, <1>8 DEF Base
<1> QED BY <1>1, <1>3, <1>4, <1>6, <1>9, FallBackActs DEF s

LEMMA ChangeDashboardActs ==
  ASSUME Core, ChangeDashboard
  PROVE  \E D, S, T \in SUBSET Renderers : Acts(D, S, T)
<1> DEFINE s(others) == Forgotten((Elements \ OffDashboard) \cup others)
           G == Present \ Dialogs
<1>1. PICK others \in SUBSET OffDashboard :
         \/ /\ Present \cap Dialogs = {}
            /\ spinner' = s(others)
            /\ ClearQueue
            /\ UNCHANGED <<inputs, view, dropped>>
         \/ \E r \in Dialogs, given \in BOOLEAN :
              /\ Present \cap Dialogs = {r}
              /\ IF given THEN Given({r}) ELSE UNCHANGED inputs
              /\ FallBack(ElementOf[r], {r}, given, <<>>, s(others))
  BY DEF ChangeDashboard
<1> DEFINE f == s(others)
<1>2. Unmount(G) /\ static' = static /\ UNCHANGED <<answers, tails, page>>
  BY DEF ChangeDashboard
<1>3. mounted' = [r \in Renderers |-> IF r \in G THEN "unmounted" ELSE mounted[r]] /\ G \in SUBSET Renderers
  BY <1>2 DEF Unmount, Present
<1>4. \A r \in Renderers : mounted'[r] = "mounted" => mounted[r] = "mounted" /\ r \in Present \cap Dialogs
  BY <1>3 DEF Present
<1>5. f \in [Elements -> BOOLEAN] /\ \A d \in Elements : f[d] => d \in OffDashboard /\ spinner[d]
  BY ForgottenType
<1>6. \A d \in OffDashboard : \A r \in RenderersOf(d) : r \in Renderers /\ mounted'[r] = mounted[r]
  <2> SUFFICES ASSUME NEW d \in OffDashboard, NEW r \in RenderersOf(d) PROVE r \in Renderers /\ r \notin G
    BY <1>3
  <2> QED BY DEF OffDashboard, RenderersOf, Cards, Mounted, Present
<1>7. OneOfAKind'
  BY <1>4 DEF Core, OneOfAKind
<1>8. \A R : Base(R, <<>>, f) <=> \A r \in Renderers \ R : mounted'[r] # "mounted" \/ queue = <<>>
  BY <1>5, <1>6 DEF Base
<1> HIDE DEF s, f
<1>9. CASE Present \cap Dialogs = {} /\ spinner' = f /\ ClearQueue /\ UNCHANGED <<inputs, view, dropped>>
  <2>1. Around({})
    BY <1>2, <1>3, <1>9, GoAround
  <2>2. \A r \in Renderers : mounted'[r] # "mounted"
    BY <1>4, <1>9
  <2>3. Base({}, <<>>, f)
    BY <1>8, <2>2
  <2>4. Acts({}, {}, {})
    BY <1>9, <2>1, <2>2, <2>3, LeftAlone DEF ClearQueue
  <2> QED BY <2>4
<1>10. ASSUME NEW r \in Dialogs, NEW given \in BOOLEAN, Present \cap Dialogs = {r},
              IF given THEN Given({r}) ELSE UNCHANGED inputs,
              FallBack(ElementOf[r], {r}, given, <<>>, f)
       PROVE  \E D, S, T \in SUBSET Renderers : Acts(D, S, T)
  <2>1. r \in Renderers /\ mounted[r] = "mounted" /\ r \notin G /\ ElementOf[r] \in Elements
        /\ {r} \in SUBSET RenderersOf(ElementOf[r]) /\ {r} \in SUBSET Renderers
    BY <1>10, ElementRenderAssumption DEF Present, RenderersOf
  <2>2. /\ inputs' \in [Renderers -> Nat] /\ \A q \in Renderers \ {r} : inputs'[q] = inputs[q]
    BY <1>10, <2>1, GivenType DEF Core, Types
  <2>3. mounted'[r] = mounted[r]
    BY <1>3, <2>1
  <2>4. Around({r})
    <3>1. static' \in SUBSET Renderers
      BY <1>2 DEF Core, Types
    <3>2. mounted' \in [Renderers -> {"unborn", "mounted", "unmounted"}]
      BY <1>3 DEF Core, Types
    <3>3. answers' = answers /\ tails' = tails /\ leaving' = leaving
      BY <1>2 DEF page
    <3> QED BY <1>2, <1>3, <1>7, <2>1, <2>2, <2>3, <3>1, <3>2, <3>3 DEF Around
  <2>5. given \/ Around({})
    BY <1>2, <1>3, <1>10, GoAround
  <2>6. \A q \in Renderers : mounted'[q] = "mounted" => q \in {r}
    BY <1>4, <1>10
  <2>7. Base({r}, <<>>, f)
    BY <1>8, <2>6
  <2> DEFINE e == ElementOf[r]
             R == {r}
  <2>8. e \in Elements /\ R \in SUBSET RenderersOf(e) /\ Around(R) /\ Base(R, <<>>, f)
        /\ (\A q \in R : mounted'[q] = mounted[q]) /\ (\A q \in Renderers : mounted'[q] = "mounted" => q \in R)
        /\ FallBack(e, R, given, <<>>, f)
    BY <1>10, <2>1, <2>3, <2>4, <2>6, <2>7
  <2> HIDE DEF e, R
  <2> QED BY <2>5, <2>8, FallBackActs
<1> QED BY <1>1, <1>9, <1>10 DEF f

LEMMA LeaveActs ==
  ASSUME Core, LeaveCanvas \/ \E r \in Renderers : CloseDialog(r)
  PROVE  Acts({}, {}, {})
<1>0. spinner \in [Elements -> BOOLEAN]
  BY DEF Core, Types
<1>1. CASE LeaveCanvas
  <2>1. /\ Unmount(Present) /\ Present \in SUBSET Renderers
        /\ inputs' = inputs /\ static' = static /\ UNCHANGED <<answers, tails, page>>
        /\ spinner' = [e \in Elements |-> FALSE] /\ queue' = <<>> /\ UNCHANGED <<view, active, running>>
    BY <1>1 DEF LeaveCanvas, ClearQueue, Present
  <2>2. Around({})
    BY <2>1, GoAround
  <2>3. \A r \in Renderers : mounted'[r] # "mounted"
    BY <2>1 DEF Unmount, Present
  <2>4. Base({}, <<>>, [e \in Elements |-> FALSE])
    BY <2>3 DEF Base
  <2> QED BY <2>1, <2>2, <2>3, <2>4, LeftAlone
<1>2. ASSUME NEW r \in Renderers, CloseDialog(r) PROVE Acts({}, {}, {})
  <2>1. /\ Unmount({r}) /\ {r} \in SUBSET Renderers /\ r \in Dialogs
        /\ inputs' = inputs /\ static' = static /\ UNCHANGED <<answers, tails, page>>
        /\ spinner' = spinner /\ queue' = queue /\ dropped' = dropped /\ UNCHANGED <<view, active, running>>
    BY <1>2 DEF CloseDialog, loads
  <2>2. Around({})
    BY <2>1, GoAround
  <2>3. Base({}, queue, spinner)
    BY <1>0, <2>1 DEF Base, Unmount, RenderersOf
  <2> QED BY <2>1, <2>2, <2>3, LeftAlone
<1> QED BY <1>1, <1>2

LEMMA ActsCore ==
  ASSUME Core, NEW D \in SUBSET Renderers, NEW S \in SUBSET Renderers, NEW T \in SUBSET Renderers, Acts(D, S, T),
         token' \in [Elements -> {"none", "run", "cancel"}]
  PROVE  Core'
<1>0. /\ Around(D \cup S \cup T) /\ Repaints(D, S, T) /\ Spinners(D, S, T) /\ Ways(D)
  BY DEF Acts
<1>1. answers' = answers /\ tails' = tails /\ OneOfAKind'
  BY <1>0 DEF Around
<1>2. Types'
  BY <1>0, <1>1 DEF Core, Types, Around, Repaints, Spinners
<1>3. Renumbered(D)
  BY <1>0 DEF Renumbered, Around, Repaints, Relaunched
<1>4. InOnePlace'
  <2>1. \A r \in D, a \in answers : ~SameRender(New(r), a.load)
    BY <1>3, NewLoads
  <2> QED BY <1>0, <1>1, <2>1 DEF Core, InOnePlace, Apart, SameRender, Ways
<1>5. \A r \in Renderers : view[r].seq <= view'[r].seq /\ view[r].seq \in Nat /\ view'[r].seq \in Nat
  <2> SUFFICES ASSUME NEW r \in Renderers
               PROVE  view[r].seq <= view'[r].seq /\ view[r].seq \in Nat /\ view'[r].seq \in Nat
    OBVIOUS
  <2>1. view[r].seq \in Nat
    BY DEF Core, Types, Views
  <2>2. view'[r].seq = view[r].seq \/ view'[r].seq = view[r].seq + 1
    BY <1>0 DEF Repaints, Relaunched, ShownStatic, Halted
  <2> QED BY <2>1, <2>2
<1>6. Numbered'
  <2>1. \A r \in D : New(r).r = r /\ New(r).seq = view'[r].seq
    BY <1>3, NewLoads
  <2>2. \A l \in Loads : l.seq \in Nat /\ l.r \in Renderers
    BY DEF Loads
  <2>3. \A t \in tails : t.seq \in Nat /\ t.r \in Renderers
    BY DEF Core, Types
  <2>4. \A l \in OnTheirWay(queue, running) : l.seq <= view'[l.r].seq
    BY <1>5, <2>2, WaysType DEF Core, Numbered
  <2>5. \A a \in answers : a.load.seq <= view'[a.load.r].seq
    BY <1>5, <2>2, WaysType DEF Core, Numbered
  <2>6. \A t \in tails : t.seq <= view'[t.r].seq
    BY <1>5, <2>3 DEF Core, Numbered
  <2>7. \A r \in D : New(r).seq <= view'[New(r).r].seq
    BY <1>5, <2>1
  <2> QED BY <1>0, <1>1, <2>4, <2>5, <2>6, <2>7 DEF Numbered, Ways
<1> QED BY <1>0, <1>1, <1>2, <1>4, <1>6 DEF Core, Ways


-----------------------------------------------------------------------------
(* What answers and continuations do. *)

LEMMA AnswerMoves ==
  ASSUME Core, NEW l \in running, NEW outcome \in Outcomes, Answer(l, outcome)
  PROVE  /\ Queued(queue', active', running') /\ Full(queue', active')
         /\ OnTheirWay(queue', running') = OnTheirWay(queue, running) \ {l}
         /\ answers' = answers \cup {[load |-> l, outcome |-> outcome]}
         /\ UNCHANGED <<inputs, static, token, dropped, mounted, view, spinner, tails, page>>
<1>1. Schedule(queue, active - 1, running \ {l})
  BY DEF Answer, Release
<1>2. Queued(queue, active, running)
  BY DEF Core
<1>3. IsFiniteSet(running \ {l}) /\ Cardinality(running \ {l}) = active - 1
  BY <1>2, FS_RemoveElement DEF Queued
<1>4. active \in Nat
  BY <1>2, FS_CardinalityType DEF Queued
<1>5. active - 1 <= CONCURRENCY
  BY <1>2, <1>4, ElementRenderAssumption DEF Queued
<1>6. Queued(queue, active - 1, running \ {l})
  BY <1>2, <1>3, <1>5 DEF Queued, Apart, OnceEach
<1>7. /\ Queued(queue', active', running') /\ Full(queue', active')
      /\ OnTheirWay(queue', running') = OnTheirWay(queue, running \ {l})
  BY <1>1, <1>6, ScheduleKeeps
<1>8. l \notin Members(queue)
  BY <1>2 DEF Queued, Apart, SameRender
<1>9. OnTheirWay(queue, running \ {l}) = OnTheirWay(queue, running) \ {l}
  BY <1>8 DEF OnTheirWay
<1> QED BY <1>7, <1>9 DEF Answer

LEMMA AnswerCore ==
  ASSUME Core, NEW l \in running, NEW outcome \in Outcomes, Answer(l, outcome)
  PROVE  Core'
<1> DEFINE b == [load |-> l, outcome |-> outcome]
<1>1. /\ Queued(queue', active', running') /\ Full(queue', active')
      /\ OnTheirWay(queue', running') = OnTheirWay(queue, running) \ {l}
      /\ answers' = answers \cup {b}
      /\ inputs' = inputs /\ static' = static /\ token' = token /\ mounted' = mounted /\ view' = view
      /\ spinner' = spinner /\ tails' = tails
  BY AnswerMoves
<1>2. l \in OnTheirWay(queue, running) /\ l \in Loads
  BY WaysType DEF OnTheirWay
<1>3. b \in [load : Loads, outcome : Outcomes] /\ b.load = l
  BY <1>2
<1>4. Types' /\ OneOfAKind'
  BY <1>1, <1>3 DEF Core, Types, OneOfAKind
<1> HIDE DEF b
<1>5. Numbered'
  BY <1>1, <1>2, <1>3 DEF Core, Numbered
<1>6. \A m \in OnTheirWay(queue, running) \ {l} : ~SameRender(m, l)
  <2>1. Queued(queue, active, running)
    BY DEF Core
  <2>2. Apart(Members(queue), running) /\ OnceEach(running)
    BY <2>1 DEF Queued
  <2> QED BY <2>2 DEF Apart, OnceEach, OnTheirWay
<1>7. \A a \in answers : ~SameRender(l, a.load) /\ ~SameRender(a.load, l)
  BY <1>2 DEF Core, InOnePlace, Apart, SameRender
<1>8. InOnePlace'
  <2>1. \A a, c \in answers' : SameRender(a.load, c.load) => a = c
    BY <1>1, <1>3, <1>7 DEF Core, InOnePlace
  <2>2. \A a \in answers' : Apart(OnTheirWay(queue', running'), {a.load})
    BY <1>1, <1>3, <1>6 DEF Core, InOnePlace, Apart
  <2> QED BY <2>1, <2>2 DEF InOnePlace
<1> QED BY <1>1, <1>4, <1>5, <1>8 DEF Core

(* A renderer takes the answer a, and paints or not. *)
Takes(a) ==
  /\ Current(a.load)
  /\ answers' = answers \ {a}
  /\ view' \in [Renderers -> Views]
  /\ \A r \in Renderers \ {a.load.r} : view'[r] = view[r]
  /\ view'[a.load.r].seq = view[a.load.r].seq
  /\ view'[a.load.r].refreshing = view[a.load.r].refreshing
  /\ UNCHANGED <<inputs, static, token, dropped, mounted>>

Ends(a, announces) ==
  /\ UNCHANGED loads
  /\ tails' = tails \cup {[r |-> a.load.r, seq |-> a.load.seq, announces |-> announces]}

(* It shows what it was asked for, ... *)
Shows(a) ==
  /\ view'[a.load.r].state \in {"ready", "empty"} /\ view'[a.load.r].chart = a.load.inputs
  /\ leaving' = leaving
  /\ \/ Ends(a, TRUE) /\ spinner' = spinner
     \/ Ends(a, FALSE) /\ Settled(a.load.r)

(* ... a message, ... *)
Fails(a) ==
  /\ view'[a.load.r].state = "error" /\ leaving' = leaving
  /\ Ends(a, FALSE) /\ Settled(a.load.r)

(* ... asks once more, ... *)
Again(a) == [a.load EXCEPT !.retry = TRUE]

Repeats(a) ==
  /\ view'[a.load.r].state = "loading" /\ leaving' = leaving
  /\ spinner' = spinner /\ tails' = tails
  /\ Queued(queue', active', running') /\ Full(queue', active')
  /\ OnTheirWay(queue', running') = OnTheirWay(queue, running) \cup {Again(a)}

(* ... or leaves the page. *)
GivesUp(a) ==
  /\ view' = view /\ a.load.retry /\ leaving' = TRUE
  /\ Ends(a, FALSE) /\ spinner' = spinner

LEMMA AgainIs ==
  ASSUME Core, NEW a \in answers
  PROVE  /\ a.load \in Loads /\ Again(a) \in Loads /\ Again(a).r = a.load.r /\ Again(a).seq = a.load.seq
         /\ Again(a).inputs = a.load.inputs
         /\ Apart(OnTheirWay(queue, running), {Again(a)})
<1>1. a.load \in Loads
  BY WaysType
<1>2. /\ Again(a) \in Loads /\ Again(a).r = a.load.r /\ Again(a).seq = a.load.seq
      /\ Again(a).inputs = a.load.inputs
  BY <1>1 DEF Again, Loads
<1>3. Apart(OnTheirWay(queue, running), {Again(a)})
  BY <1>2 DEF Core, InOnePlace, Apart, SameRender
<1> QED BY <1>1, <1>2, <1>3

LEMMA ViewKept ==
  ASSUME Core, NEW r \in Renderers, NEW chart \in Nat \cup {None}, NEW state \in States,
         \/ view' = [view EXCEPT ![r].chart = chart, ![r].state = state]
         \/ view' = [view EXCEPT ![r].state = state]
  PROVE  /\ view' \in [Renderers -> Views]
         /\ \A q \in Renderers \ {r} : view'[q] = view[q]
         /\ view'[r].seq = view[r].seq /\ view'[r].refreshing = view[r].refreshing
         /\ view'[r].state = state
<1>1. view \in [Renderers -> Views]
  BY DEF Core, Types
<1>2. view[r] \in Views
  BY <1>1
<1>3. \A q \in Renderers \ {r} : view'[q] = view[q]
  BY <1>1
<1>4. view'[r] = [view[r] EXCEPT !.chart = chart, !.state = state] \/ view'[r] = [view[r] EXCEPT !.state = state]
  BY <1>1
<1>5. /\ view'[r] \in Views
      /\ view'[r].seq = view[r].seq /\ view'[r].refreshing = view[r].refreshing
      /\ view'[r].state = state
  BY <1>2, <1>4 DEF Views
<1>6. view' \in [Renderers -> Views]
  BY <1>1, <1>5
<1> QED BY <1>3, <1>5, <1>6

LEMMA ResumeDoes ==
  ASSUME Core, NEW a \in answers, Resume(a)
  PROVE  \/ DropStale(a)
         \/ Takes(a) /\ (Shows(a) \/ Fails(a) \/ Repeats(a) \/ GivesUp(a))
<1> DEFINE l == a.load
           r == a.load.r
<1>0. l \in Loads /\ r \in Renderers /\ l.inputs \in Nat /\ view \in [Renderers -> Views]
  BY WaysType DEF Loads, Core, Types
<1>1. CASE ShowData(a)
  <2>1. view' = [view EXCEPT ![r].chart = l.inputs, ![r].state = "ready"]
    BY <1>1 DEF ShowData
  <2>2. /\ view' \in [Renderers -> Views]
        /\ \A q \in Renderers \ {r} : view'[q] = view[q]
        /\ view'[r].seq = view[r].seq /\ view'[r].refreshing = view[r].refreshing
        /\ view'[r].state = "ready"
    BY <1>0, <2>1, ViewKept DEF States
  <2>3. view'[r].chart = l.inputs
    BY <1>0, <2>1 DEF Views
  <2>4. Takes(a)
    BY <1>1, <2>2 DEF ShowData, Takes
  <2> QED BY <1>1, <2>2, <2>3, <2>4 DEF ShowData, Shows, Ends, Awaits, page
<1>2. CASE ShowEmpty(a)
  <2>1. view' = [view EXCEPT ![r].chart = l.inputs, ![r].state = "empty"]
    BY <1>2 DEF ShowEmpty
  <2>2. /\ view' \in [Renderers -> Views]
        /\ \A q \in Renderers \ {r} : view'[q] = view[q]
        /\ view'[r].seq = view[r].seq /\ view'[r].refreshing = view[r].refreshing
        /\ view'[r].state = "empty"
    BY <1>0, <2>1, ViewKept DEF States
  <2>3. view'[r].chart = l.inputs
    BY <1>0, <2>1 DEF Views
  <2>4. Takes(a)
    BY <1>2, <2>2 DEF ShowEmpty, Takes
  <2> QED BY <1>2, <2>2, <2>3, <2>4 DEF ShowEmpty, Shows, Ends, Awaits
<1>3. CASE ShowError(a)
  <2>1. view' = [view EXCEPT ![r].chart = None, ![r].state = "error"]
    BY <1>3 DEF ShowError
  <2>2. /\ view' \in [Renderers -> Views]
        /\ \A q \in Renderers \ {r} : view'[q] = view[q]
        /\ view'[r].seq = view[r].seq /\ view'[r].refreshing = view[r].refreshing
        /\ view'[r].state = "error"
    BY <1>0, <2>1, ViewKept DEF States
  <2>3. Takes(a)
    BY <1>3, <2>2 DEF ShowError, Takes
  <2> QED BY <1>3, <2>2, <2>3 DEF ShowError, Fails, Ends, Awaits, page
<1>4. CASE Recover(a)
  <2>1. view' = [view EXCEPT ![r].state = "loading"]
    BY <1>4 DEF Recover
  <2>2. /\ view' \in [Renderers -> Views]
        /\ \A q \in Renderers \ {r} : view'[q] = view[q]
        /\ view'[r].seq = view[r].seq /\ view'[r].refreshing = view[r].refreshing
        /\ view'[r].state = "loading"
    BY <1>0, <2>1, ViewKept DEF States
  <2>3. Takes(a)
    BY <1>4, <2>2 DEF Recover, Takes
  <2>4. Schedule(Inserted(queue, Again(a)), active, running)
    BY <1>4 DEF Recover, Again
  <2>5. /\ Queued(Inserted(queue, Again(a)), active, running)
        /\ OnTheirWay(Inserted(queue, Again(a)), running) = OnTheirWay(queue, running) \cup {Again(a)}
    <3> DEFINE m == Again(a)
    <3>1. Queued(queue, active, running) /\ m \in Loads /\ Apart(OnTheirWay(queue, running), {m})
      BY AgainIs DEF Core
    <3> HIDE DEF m
    <3>2. /\ Queued(Inserted(queue, m), active, running)
          /\ OnTheirWay(Inserted(queue, m), running) = OnTheirWay(queue, running) \cup {m}
      BY <3>1, InsertKeeps
    <3> QED BY <3>2 DEF m
  <2>6. /\ Queued(queue', active', running') /\ Full(queue', active')
        /\ OnTheirWay(queue', running') = OnTheirWay(queue, running) \cup {Again(a)}
    BY <2>4, <2>5, ScheduleKeeps
  <2> QED BY <1>4, <2>2, <2>3, <2>6 DEF Recover, Repeats, page
<1>5. CASE LeavePage(a)
  <2>1. Takes(a)
    BY <1>0, <1>5 DEF LeavePage, Takes
  <2> QED BY <1>5, <2>1 DEF LeavePage, GivesUp, Ends, Awaits
<1> QED BY <1>1, <1>2, <1>3, <1>4, <1>5 DEF Resume

LEMMA SettledType ==
  ASSUME Core, NEW r \in Renderers, Settled(r)
  PROVE  /\ spinner' \in [Elements -> BOOLEAN]
         /\ \A e \in Elements : spinner'[e] => spinner[e] /\ (mounted[r] = "mounted" => e # ElementOf[r])
BY ElementRenderAssumption DEF Core, Types, Settled

LEMMA ResumeCore == ASSUME Core, NEW a \in answers, Resume(a) PROVE Core'
<1>0. a.load \in Loads /\ a.load.r \in Renderers /\ a.load.seq \in Nat
  BY WaysType DEF Loads
<1>1. answers' = answers \ {a} /\ inputs' = inputs /\ static' = static /\ token' = token /\ mounted' = mounted
  BY ResumeDoes DEF DropStale, Takes
<1>2. view' \in [Renderers -> Views] /\ \A r \in Renderers : view'[r].seq = view[r].seq
  BY ResumeDoes DEF DropStale, Takes, Core, Types
<1>3. spinner' \in [Elements -> BOOLEAN]
  BY <1>0, ResumeDoes, SettledType DEF DropStale, Shows, Fails, Repeats, GivesUp, Core, Types
<1>4. \/ tails' = tails
      \/ Current(a.load)
         /\ \E b \in BOOLEAN : tails' = tails \cup {[r |-> a.load.r, seq |-> a.load.seq, announces |-> b]}
  BY ResumeDoes DEF DropStale, Takes, Shows, Fails, Repeats, GivesUp, Ends
<1>5. \/ queue' = queue /\ active' = active /\ running' = running
      \/ Repeats(a)
  BY ResumeDoes DEF DropStale, Shows, Fails, GivesUp, Ends, loads
<1>6. /\ Queued(queue', active', running') /\ Full(queue', active')
      /\ \A l \in OnTheirWay(queue', running') : l \in OnTheirWay(queue, running) \/ l = Again(a)
  BY <1>5 DEF Core, Repeats
<1>7. tails' \in SUBSET [r : Renderers, seq : Nat, announces : BOOLEAN]
  <2>1. tails \in SUBSET [r : Renderers, seq : Nat, announces : BOOLEAN]
    BY DEF Core, Types
  <2>2. \A b \in BOOLEAN : [r |-> a.load.r, seq |-> a.load.seq, announces |-> b]
                             \in [r : Renderers, seq : Nat, announces : BOOLEAN]
    BY <1>0
  <2> QED BY <1>4, <2>1, <2>2
<1>8. Types' /\ OneOfAKind'
  BY <1>1, <1>2, <1>3, <1>7 DEF Core, Types, OneOfAKind
<1>9. InOnePlace'
  <2>1. \A b \in answers' : b \in answers /\ b # a
    BY <1>1
  <2>2. \A b \in answers' : ~SameRender(Again(a), b.load)
    BY <2>1, AgainIs DEF Core, InOnePlace, SameRender
  <2> QED BY <1>6, <2>1, <2>2 DEF Core, InOnePlace, Apart
<1>10. Numbered'
  <2>1. \A l \in OnTheirWay(queue, running) : l.seq <= view'[l.r].seq
    <3>1. \A l \in OnTheirWay(queue, running) : l.r \in Renderers
      BY WaysType DEF Loads
    <3> QED BY <1>2, <3>1 DEF Core, Numbered
  <2>2. \A b \in answers : b.load.seq <= view'[b.load.r].seq
    <3>1. \A b \in answers : b.load.r \in Renderers
      BY WaysType DEF Loads
    <3> QED BY <1>2, <3>1 DEF Core, Numbered
  <2>3. Again(a).seq <= view'[Again(a).r].seq
    BY <2>2, AgainIs
  <2>4. \A t \in tails : t.seq <= view'[t.r].seq
    BY <1>2 DEF Core, Numbered, Types
  <2>5. \A t \in tails' : t.seq <= view'[t.r].seq
    <3>1. \A b \in BOOLEAN : /\ [r |-> a.load.r, seq |-> a.load.seq, announces |-> b].r = a.load.r
                             /\ [r |-> a.load.r, seq |-> a.load.seq, announces |-> b].seq = a.load.seq
      OBVIOUS
    <3> QED BY <1>4, <2>2, <2>4, <3>1
  <2> QED BY <1>1, <1>6, <2>1, <2>2, <2>3, <2>5 DEF Numbered
<1> QED BY <1>6, <1>8, <1>9, <1>10 DEF Core

(* A tail ends: it may announce what it showed, and ends the refresh of its *)
(* own render.                                                              *)
Concludes(t) ==
  /\ tails' = tails \ {t}
  /\ view' \in [Renderers -> Views]
  /\ \A r \in Renderers :
       /\ view'[r].state = view[r].state /\ view'[r].chart = view[r].chart /\ view'[r].seq = view[r].seq
       /\ view'[r].refreshing => view[r].refreshing /\ (r = t.r => t.seq # view[r].seq)
       /\ r # t.r => view'[r] = view[r]
       /\ t.seq # view[t.r].seq => view'[r] = view[r]
  /\ \/ t.announces /\ Settled(t.r)
     \/ ~t.announces /\ spinner' = spinner
  /\ UNCHANGED <<inputs, static, token, dropped, mounted, loads, answers, leaving>>

LEMMA FinishDoes == ASSUME Core, NEW t \in tails, Finish(t) PROVE Concludes(t)
<1>0. t.r \in Renderers /\ t.announces \in BOOLEAN /\ view \in [Renderers -> Views]
  BY DEF Core, Types
<1>1. view[t.r] \in Views
  BY <1>0
<1>2. CASE t.seq = view[t.r].seq
  <2>1. view' = [view EXCEPT ![t.r].refreshing = FALSE]
    BY <1>2 DEF Finish
  <2>2. view'[t.r] = [view[t.r] EXCEPT !.refreshing = FALSE] /\ \A r \in Renderers : r # t.r => view'[r] = view[r]
    BY <1>0, <2>1
  <2>3. /\ view'[t.r] \in Views /\ view'[t.r].state = view[t.r].state /\ view'[t.r].chart = view[t.r].chart
        /\ view'[t.r].seq = view[t.r].seq /\ view'[t.r].refreshing = FALSE
    BY <1>1, <2>2 DEF Views
  <2>4. view' \in [Renderers -> Views]
    BY <1>0, <2>1, <2>3
  <2> QED BY <1>0, <1>2, <2>2, <2>3, <2>4 DEF Finish, Concludes
<1>3. CASE t.seq # view[t.r].seq
  BY <1>0, <1>3 DEF Finish, Concludes
<1> QED BY <1>2, <1>3

LEMMA FinishCore == ASSUME Core, NEW t \in tails, Finish(t) PROVE Core'
<1>1. Concludes(t)
  BY FinishDoes
<1>2. /\ tails' \subseteq tails /\ view' \in [Renderers -> Views] /\ \A r \in Renderers : view'[r].seq = view[r].seq
      /\ inputs' = inputs /\ static' = static /\ token' = token /\ mounted' = mounted /\ answers' = answers
      /\ queue' = queue /\ active' = active /\ running' = running
  BY <1>1 DEF Concludes, loads
<1>3. spinner' \in [Elements -> BOOLEAN]
  BY <1>1, SettledType DEF Concludes, Core, Types
<1>4. Types' /\ OneOfAKind' /\ InOnePlace'
  BY <1>2, <1>3 DEF Core, Types, OneOfAKind, InOnePlace
<1>5. Numbered'
  <2>1. \A l \in OnTheirWay(queue, running) : l.r \in Renderers
    BY WaysType DEF Loads
  <2>2. \A b \in answers : b.load.r \in Renderers
    BY WaysType DEF Loads
  <2>3. \A s \in tails : s.r \in Renderers
    BY DEF Core, Types
  <2> QED BY <1>2, <2>1, <2>2, <2>3 DEF Core, Numbered
<1> QED BY <1>2, <1>4, <1>5 DEF Core

(* The new page starts as the first one did. *)
LEMMA ReloadDoes ==
  ASSUME Core, Reload
  PROVE  /\ Core' /\ answers' = {} /\ tails' = {} /\ queue' = <<>> /\ running' = {}
         /\ \A r \in Renderers : mounted'[r] = "unborn" /\ view'[r].state = "loading"
         /\ \A e \in Elements : ~spinner'[e]
<1>1. /\ inputs' = [r \in Renderers |-> 1] /\ static' = {} /\ token' = [e \in Elements |-> "none"]
      /\ mounted' = [r \in Renderers |-> "unborn"] /\ view' = [r \in Renderers |-> FreshView]
      /\ spinner' = [e \in Elements |-> FALSE]
      /\ queue' = <<>> /\ active' = 0 /\ running' = {} /\ answers' = {} /\ tails' = {}
  BY DEF Reload, Idle
<1>2. Types'
  BY <1>1 DEF Types, FreshView, Views, States
<1>3. DOMAIN queue' = {} /\ Members(queue') = {} /\ queue' \in Seq(Loads)
  BY <1>1 DEF Members
<1>4. Queued(queue', active', running') /\ Full(queue', active')
  BY <1>1, <1>3, FS_EmptySet, ElementRenderAssumption DEF Queued, Full, Sorted, Once, OnceEach, Apart
<1>5. InOnePlace' /\ Numbered' /\ OneOfAKind'
  BY <1>1, <1>3 DEF InOnePlace, Numbered, OneOfAKind, OnTheirWay
<1> QED BY <1>1, <1>2, <1>4, <1>5 DEF Core, FreshView

-----------------------------------------------------------------------------

(* The kinds of steps. *)
Tokens == [Elements -> {"none", "run", "cancel"}]

LEMMA UserActs ==
  ASSUME Core,
         \/ \E e \in Elements : User(e)
         \/ \E r \in Renderers : (\E kind \in Kinds : Mount(r, kind)) \/ CloseDialog(r)
         \/ LeaveCanvas \/ ChangeDashboard
  PROVE  token' \in Tokens /\ \E D, S, T \in SUBSET Renderers : Acts(D, S, T)
<1>0. token \in Tokens
  BY DEF Core, Types, Tokens
<1>1. ASSUME NEW e \in Elements, User(e)
      PROVE  token' \in Tokens /\ \E D, S, T \in SUBSET Renderers : Acts(D, S, T)
  <2>1. CASE RemoveElement(e)
    <3>1. token' \in Tokens
      BY <1>0, <2>1 DEF RemoveElement, Tokens
    <3> QED BY <2>1, <3>1, RemoveActs
  <2>2. CASE ToggleRun(e)
    <3>1. token' \in Tokens
      <4>1. \/ token' = [token EXCEPT ![e] = "cancel"]
            \/ token' = [token EXCEPT ![e] = IF @ = "cancel" THEN @ ELSE "run"]
        BY <2>2 DEF ToggleRun
      <4> QED BY <1>0, <4>1 DEF Tokens
    <3> QED BY <2>2, <3>1, RunActs
  <2>3. CASE \E kind \in Kinds : ChangeElement(e, kind)
    <3>1. token' = token
      BY <2>3 DEF ChangeElement
    <3> QED BY <1>0, <2>3, <3>1, RunActs
  <2>4. CASE ChangeFilters(e)
    <3>1. token' = token
      BY <2>4 DEF ChangeFilters
    <3> QED BY <1>0, <2>4, <3>1, RunActs
  <2> QED BY <1>1, <2>1, <2>2, <2>3, <2>4 DEF User
<1>2. ASSUME NEW r \in Renderers, NEW kind \in Kinds, Mount(r, kind)
      PROVE  token' \in Tokens /\ \E D, S, T \in SUBSET Renderers : Acts(D, S, T)
  <2>1. token' = token
    BY <1>2 DEF Mount
  <2> QED BY <1>0, <1>2, <2>1, MountActs
<1>3. CASE LeaveCanvas \/ \E r \in Renderers : CloseDialog(r)
  <2>1. token' \in Tokens
    BY <1>0, <1>3 DEF LeaveCanvas, CloseDialog, Tokens
  <2>2. Acts({}, {}, {})
    BY <1>3, LeaveActs
  <2>3. {} \in SUBSET Renderers
    OBVIOUS
  <2> QED BY <2>1, <2>2, <2>3
<1>4. CASE ChangeDashboard
  <2>1. token' \in Tokens
    BY <1>4 DEF ChangeDashboard, Tokens
  <2> QED BY <1>4, <2>1, ChangeDashboardActs
<1> QED BY <1>1, <1>2, <1>3, <1>4

LEMMA NextDoes ==
  ASSUME Core, [Next]_vars
  PROVE  \/ token' \in Tokens /\ \E D, S, T \in SUBSET Renderers : Acts(D, S, T)
         \/ \E l \in running : \E o \in Outcomes : Answer(l, o)
         \/ \E a \in answers : Resume(a)
         \/ \E t \in tails : Finish(t)
         \/ Reload
         \/ UNCHANGED vars
<1>1. CASE Answers \/ Resumes \/ Finishes \/ Reload
  BY <1>1 DEF Answers, Resumes, Finishes
<1> QED BY <1>1, UserActs DEF Next

LEMMA CoreStep == Core /\ [Next]_vars => Core'
<1> SUFFICES ASSUME Core, [Next]_vars PROVE Core'
  OBVIOUS
<1>1. CASE UNCHANGED vars
  BY <1>1 DEF vars, loads, page, Core, Types, Queued, Full, InOnePlace, Numbered, OneOfAKind
<1>2. ASSUME token' \in Tokens, NEW D \in SUBSET Renderers, NEW S \in SUBSET Renderers,
             NEW T \in SUBSET Renderers, Acts(D, S, T)
      PROVE  Core'
  BY <1>2, ActsCore DEF Tokens
<1> QED BY <1>1, <1>2, NextDoes, AnswerCore, ResumeCore, FinishCore, ReloadDoes

(* The counter of the queue counts, for any elements, orders and slots, and *)
(* no load waits while a slot is free.                                      *)
THEOREM SlotsServedHolds == Spec => []SlotsServed
<1>1. Core => SlotsServed
  <2> SUFFICES ASSUME Core PROVE SlotsServed
    OBVIOUS
  <2>1. Queued(queue, active, running) /\ Full(queue, active)
    BY DEF Core
  <2>2. \A i, j \in DOMAIN queue :
          i < j => Order[ElementOf[queue[i].r]] <= Order[ElementOf[queue[j].r]]
    BY <2>1 DEF Queued, Sorted, Priority
  <2> QED BY <2>1, <2>2 DEF Queued, Full, SlotsServed
<1> QED BY <1>1, InitCore, CoreStep, PTL DEF Spec

-----------------------------------------------------------------------------
(* What renderers wait for, and what they show. *)

Pending == OnTheirWay(queue, running) \cup {a.load : a \in answers}

LEMMA PendingLoads ==
  Core => /\ Pending \subseteq Loads
          /\ \A l \in Pending : l.r \in Renderers /\ l.seq \in Nat /\ l.seq <= view[l.r].seq
          /\ \A l, m \in Pending : SameRender(l, m) => l = m
<1> SUFFICES ASSUME Core
             PROVE  /\ Pending \subseteq Loads
                    /\ \A l \in Pending : l.r \in Renderers /\ l.seq \in Nat /\ l.seq <= view[l.r].seq
                    /\ \A l, m \in Pending : SameRender(l, m) => l = m
  OBVIOUS
<1>1. Pending \subseteq Loads
  BY WaysType DEF Pending
<1>2. \A l \in Pending : l.r \in Renderers /\ l.seq \in Nat /\ l.seq <= view[l.r].seq
  BY <1>1 DEF Core, Numbered, Pending, Loads
<1>3. \A l, m \in OnTheirWay(queue, running) : SameRender(l, m) => l = m
  <2>1. Once(queue) /\ OnceEach(running) /\ Apart(Members(queue), running)
    BY DEF Core, Queued
  <2>2. \A l, m \in Members(queue) : SameRender(l, m) => l = m
    BY <2>1 DEF Once, Members
  <2> QED BY <2>1, <2>2 DEF OnceEach, Apart, OnTheirWay, SameRender
<1>4. \A l \in OnTheirWay(queue, running), a \in answers : ~SameRender(l, a.load) /\ ~SameRender(a.load, l)
  BY DEF Core, InOnePlace, Apart, SameRender
<1>5. \A a, b \in answers : SameRender(a.load, b.load) => a = b
  BY DEF Core, InOnePlace
<1> QED BY <1>1, <1>2, <1>3, <1>4, <1>5 DEF Pending

(* How a step changes what is on its way. *)
LEMMA ActsPending ==
  ASSUME Core, NEW D, NEW S, NEW T, Acts(D, S, T)
  PROVE  /\ Pending' \subseteq Pending \cup {New(r) : r \in D}
         /\ \A r \in D : New(r) \in Pending'
         /\ \A l \in Pending : l \in Pending' \/ (l \in Members(queue) /\ l \notin OnTheirWay(queue', running'))
BY DEF Acts, Ways, Around, Pending, OnTheirWay

LEMMA AnswerPending ==
  ASSUME Core, NEW l \in running, NEW o \in Outcomes, Answer(l, o)
  PROVE  Pending' = Pending
<1>1. OnTheirWay(queue', running') = OnTheirWay(queue, running) \ {l}
      /\ answers' = answers \cup {[load |-> l, outcome |-> o]}
  BY AnswerMoves
<1>2. l \in OnTheirWay(queue, running)
  BY DEF OnTheirWay
<1> DEFINE b == [load |-> l, outcome |-> o]
<1>a. b.load = l
  OBVIOUS
<1>b. answers' = answers \cup {b}
  BY <1>1
<1> HIDE DEF b
<1>3. {a.load : a \in answers'} = {a.load : a \in answers} \cup {l}
  BY <1>a, <1>b
<1> QED BY <1>1, <1>2, <1>3 DEF Pending

LEMMA TakenPending ==
  ASSUME Core, NEW a \in answers, answers' = answers \ {a},
         UNCHANGED loads \/ Repeats(a)
  PROVE  IF UNCHANGED loads THEN Pending' = Pending \ {a.load}
         ELSE Pending' = (Pending \ {a.load}) \cup {Again(a)}
<1>1. \A b \in answers : b.load = a.load => b = a
  BY DEF Core, InOnePlace, SameRender
<1>2. a.load \notin OnTheirWay(queue, running)
  BY DEF Core, InOnePlace, Apart, SameRender
<1>3. {b.load : b \in answers'} = {b.load : b \in answers} \ {a.load}
  BY <1>1
<1>4. UNCHANGED loads => OnTheirWay(queue', running') = OnTheirWay(queue, running)
  BY DEF loads
<1> QED BY <1>2, <1>3, <1>4 DEF Pending, Repeats

Live(r) == mounted[r] = "mounted" /\ r \notin static

(* A load that is current asks for the current inputs, and a retry is only  *)
(* awaited by a renderer that shows that it loads.                          *)
Asked ==
  \A l \in Pending : Live(l.r) /\ Current(l) =>
    /\ l.inputs = inputs[l.r]
    /\ l.retry => view[l.r].state = "loading"

(* A tail that will end the refresh of its renderer finds the latest chart. *)
Painted ==
  \A t \in tails :
    Live(t.r) /\ t.seq = view[t.r].seq /\ view[t.r].state \in {"ready", "empty"}
    => view[t.r].chart = inputs[t.r]

Latest == Asked /\ Painted /\ ShownIsLatest

NothingAfterStop == \A l \in Pending : view[l.r].state = "stopped" => ~Current(l)

HasLoad(r) == \E l \in Pending : l.r = r /\ Current(l)
HasTail(r) == \E t \in tails : t.r = r /\ t.seq = view[r].seq
Announces(r) == \E t \in tails : t.r = r /\ t.announces

(* Why a renderer waits, and what will tell the canvas that it has ended.   *)
Explained ==
  \A r \in Renderers : mounted[r] = "mounted" /\ r \notin dropped /\ ~leaving =>
    /\ view[r].state = "loading" => HasLoad(r)
    /\ view[r].refreshing => HasLoad(r) \/ HasTail(r)

Emits(r) ==
  \/ mounted[r] = "mounted" /\ (HasLoad(r) \/ leaving \/ Announces(r) \/ r \in dropped)
  \/ r \in Dialogs /\ mounted[r] = "unmounted"

SpinnerEnds == \A e \in Elements : spinner[e] => \E r \in RenderersOf(e) : Emits(r)

Fresh == \A r \in Renderers : mounted[r] = "unborn" => ~view[r].refreshing

Watch == Latest /\ NothingAfterStop /\ Explained /\ SpinnerEnds /\ Fresh

LEMMA InitWatch == Init => Watch
<1> SUFFICES ASSUME Init PROVE Watch
  OBVIOUS
<1>1. Members(queue) = {} /\ tails = {} /\ Pending = {}
  BY DEF Init, Members, Pending, OnTheirWay
<1>2. \A r \in Renderers : mounted[r] = "unborn"
  BY DEF Init
<1>3. \A e \in Elements : ~spinner[e]
  BY DEF Init
<1>4. Fresh
  BY DEF Init, Fresh, FreshView
<1> QED BY <1>1, <1>2, <1>3, <1>4 DEF Watch, Latest, Asked, Painted, ShownIsLatest, NothingAfterStop,
           Explained, SpinnerEnds

LEMMA ActsWatch ==
  ASSUME Core, Watch, NEW D \in SUBSET Renderers, NEW S \in SUBSET Renderers, NEW T \in SUBSET Renderers,
         Acts(D, S, T)
  PROVE  Watch'
<1> DEFINE Others == Renderers \ (D \cup S \cup T)
<1>0. /\ \A r \in D \cup S \cup T : mounted'[r] = "mounted" /\ mounted[r] # "unmounted"
      /\ \A r \in Others :
           /\ mounted'[r] \in {mounted[r], "unmounted"}
           /\ mounted'[r] = "mounted" => inputs'[r] = inputs[r] /\ (r \in static' <=> r \in static)
      /\ answers' = answers /\ tails' = tails /\ leaving' = leaving
  BY DEF Acts, Around
<1>1. /\ \A r \in D : r \notin static' /\ view'[r].seq = view[r].seq + 1
                      /\ \/ view'[r].state = "ready" /\ view'[r].refreshing = TRUE
                         \/ view'[r].state = "loading"
      /\ \A r \in S : /\ r \in static' /\ view'[r].state = "ready"
                      /\ view'[r].seq = view[r].seq /\ view'[r].refreshing = view[r].refreshing
      /\ \A r \in T : /\ view'[r].seq = view[r].seq + 1 /\ view'[r].refreshing = FALSE
                      /\ view'[r].state = "stopped"
      /\ \A r \in Others : view'[r] = view[r]
  BY DEF Acts, Repaints, Relaunched, ShownStatic, Halted
<1>2. /\ Pending' \subseteq Pending \cup {New(r) : r \in D}
      /\ \A r \in D : New(r) \in Pending'
      /\ \A l \in Pending : l \in Pending' \/ (l \in Members(queue) /\ l \notin OnTheirWay(queue', running'))
  BY ActsPending
<1>3. Renumbered(D)
  BY <1>1 DEF Renumbered, Acts, Around, Repaints
<1>4. \A r \in D : /\ New(r).r = r /\ New(r).seq = view'[r].seq
                   /\ New(r).inputs = inputs'[r] /\ New(r).retry = FALSE
  BY <1>3, NewLoads
<1>5. \A r \in Renderers : view[r].seq \in Nat
  BY DEF Core, Types, Views
<1>6. \A l \in Pending : l.r \in Renderers /\ (l.r \in D \cup T => ~Current(l)')
  <2> SUFFICES ASSUME NEW l \in Pending, l.r \in D \cup T PROVE l.seq # view'[l.r].seq
    BY PendingLoads DEF Current
  <2>1. l.seq \in Nat /\ l.seq <= view[l.r].seq /\ l.r \in Renderers
    BY PendingLoads
  <2>2. view'[l.r].seq = view[l.r].seq + 1
    BY <1>1
  <2> QED BY <1>5, <2>1, <2>2
<1>7. \A t \in tails : t.r \in Renderers /\ (t.r \in D \cup T => t.seq # view'[t.r].seq)
  <2> SUFFICES ASSUME NEW t \in tails PROVE t.r \in Renderers /\ (t.r \in D \cup T => t.seq # view'[t.r].seq)
    OBVIOUS
  <2>1. t.seq \in Nat /\ t.seq <= view[t.r].seq /\ t.r \in Renderers
    BY DEF Core, Types, Numbered
  <2>2. t.r \in D \cup T => view'[t.r].seq = view[t.r].seq + 1
    BY <1>1
  <2> QED BY <1>5, <2>1, <2>2
<1>8. \A r \in Renderers \ (D \cup T) : view'[r].seq = view[r].seq /\ view'[r].refreshing = view[r].refreshing
  BY <1>1
<1>9. \A r \in Others : mounted'[r] = "mounted" => mounted[r] = "mounted"
  BY <1>0
<1>10. \A r \in Renderers \ (D \cup T) : Live(r)' =>
         r \in Others /\ view'[r] = view[r] /\ Live(r) /\ inputs'[r] = inputs[r]
  BY <1>0, <1>1, <1>9 DEF Live
<1>11. Latest'
  <2>1. Asked'
    <3>1. ASSUME NEW l \in Pending, Live(l.r)', Current(l)'
          PROVE  l.inputs = inputs'[l.r] /\ (l.retry => view'[l.r].state = "loading")
      <4>1. l.r \in Renderers \ (D \cup T)
        BY <1>6, <3>1
      <4>2. view'[l.r] = view[l.r] /\ Live(l.r) /\ inputs'[l.r] = inputs[l.r]
        BY <1>10, <3>1, <4>1
      <4>3. Current(l)
        BY <3>1, <4>2 DEF Current
      <4> QED BY <4>2, <4>3 DEF Watch, Latest, Asked
    <3>2. ASSUME NEW r \in D PROVE New(r).inputs = inputs'[New(r).r] /\ ~New(r).retry
      BY <1>4
    <3> QED BY <1>2, <3>1, <3>2 DEF Asked
  <2>2. Painted'
    <3> SUFFICES ASSUME NEW t \in tails, Live(t.r)', t.seq = view'[t.r].seq, view'[t.r].state \in {"ready", "empty"}
                 PROVE  view'[t.r].chart = inputs'[t.r]
      BY <1>0 DEF Painted
    <3>1. t.r \in Renderers \ (D \cup T)
      BY <1>7
    <3>2. view'[t.r] = view[t.r] /\ Live(t.r) /\ inputs'[t.r] = inputs[t.r]
      BY <1>10, <3>1
    <3> QED BY <3>2 DEF Watch, Latest, Painted
  <2>3. ShownIsLatest'
    <3> SUFFICES ASSUME NEW r \in Renderers, Live(r)', view'[r].state \in {"ready", "empty"}, ~view'[r].refreshing
                 PROVE  view'[r].chart = inputs'[r]
      BY DEF ShownIsLatest, Live
    <3>1. r \notin D \cup T
      BY <1>1
    <3>2. view'[r] = view[r] /\ Live(r) /\ inputs'[r] = inputs[r]
      BY <1>10, <3>1
    <3> QED BY <3>2 DEF Watch, Latest, ShownIsLatest, Live
  <2> QED BY <2>1, <2>2, <2>3 DEF Latest
<1>12. NothingAfterStop'
  <2>1. ASSUME NEW l \in Pending, view'[l.r].state = "stopped", Current(l)' PROVE FALSE
    <3>1. l.r \in Renderers \ (D \cup T)
      BY <1>6, <2>1
    <3>2. l.r \in Others
      BY <1>1, <2>1, <3>1
    <3>3. view'[l.r] = view[l.r]
      BY <1>1, <3>2
    <3>4. Current(l)
      BY <2>1, <3>3 DEF Current
    <3> QED BY <2>1, <3>3, <3>4 DEF Watch, NothingAfterStop
  <2>2. ASSUME NEW r \in D PROVE view'[New(r).r].state # "stopped"
    BY <1>1, <1>4
  <2> QED BY <1>2, <2>1, <2>2 DEF NothingAfterStop
<1>13. \A r \in D : HasLoad(r)'
  BY <1>2, <1>4 DEF HasLoad, Current
<1>14. ASSUME NEW r \in Renderers \ (D \cup T), mounted'[r] = "mounted"
       PROVE  /\ r \in dropped => r \in dropped'
              /\ HasLoad(r) => HasLoad(r)' \/ r \in dropped'
              /\ HasTail(r) => HasTail(r)'
  <2>1. (r \in dropped => r \in dropped')
        /\ \A l \in Members(queue) : l.r = r => r \in dropped' \/ l \in OnTheirWay(queue', running')
    BY <1>14 DEF Acts, Drops
  <2>2. ASSUME NEW l \in Pending, l.r = r, Current(l) PROVE HasLoad(r)' \/ r \in dropped'
    <3>1. l \in Pending' \/ r \in dropped'
      BY <1>2, <2>1, <2>2
    <3>2. Current(l)'
      BY <1>8, <2>2 DEF Current
    <3> QED BY <2>2, <3>1, <3>2 DEF HasLoad
  <2>3. HasTail(r) => HasTail(r)'
    BY <1>0, <1>8 DEF HasTail
  <2> QED BY <2>1, <2>2, <2>3 DEF HasLoad
<1>15. Explained'
  <2> SUFFICES ASSUME NEW r \in Renderers, mounted'[r] = "mounted", r \notin dropped', ~leaving'
               PROVE  /\ view'[r].state = "loading" => HasLoad(r)'
                      /\ view'[r].refreshing => HasLoad(r)' \/ HasTail(r)'
    BY DEF Explained
  <2>1. CASE r \in D
    BY <1>13, <2>1
  <2>2. CASE r \in T
    BY <1>1, <2>2
  <2>3. CASE r \in Renderers \ (D \cup T) /\ mounted[r] = "mounted"
    <3>1. r \notin dropped /\ ~leaving
      BY <1>0, <1>14, <2>3
    <3>2. (view[r].state = "loading" => HasLoad(r)) /\ (view[r].refreshing => HasLoad(r) \/ HasTail(r))
      BY <2>3, <3>1 DEF Watch, Explained
    <3>3. view'[r].state = "loading" => view[r].state = "loading"
      BY <1>1, <2>3
    <3> QED BY <1>8, <1>14, <2>3, <3>2, <3>3
  <2>4. CASE r \in Renderers \ (D \cup T) /\ mounted[r] # "mounted"
    <3>1. r \in S /\ mounted[r] = "unborn"
      BY <1>0, <1>9, <2>4 DEF Core, Types
    <3>2. ~view[r].refreshing
      BY <3>1 DEF Watch, Fresh
    <3> QED BY <1>1, <3>1, <3>2
  <2> QED BY <2>1, <2>2, <2>3, <2>4
<1>16. SpinnerEnds'
  <2> SUFFICES ASSUME NEW d \in Elements, spinner'[d] PROVE \E r \in RenderersOf(d) : Emits(r)'
    BY DEF SpinnerEnds, RenderersOf
  <2>1. \A r \in D : Emits(r)'
    BY <1>0, <1>13 DEF Emits
  <2>2. \/ \E r \in D : ElementOf[r] = d
        \/ Spins(d) /\ \A r \in S \cup T : ElementOf[r] # d
    BY DEF Acts, Spinners
  <2>3. ASSUME NEW r \in D, ElementOf[r] = d PROVE \E q \in RenderersOf(d) : Emits(q)'
    BY <2>1, <2>3 DEF RenderersOf
  <2>4. CASE Spins(d) /\ \A r \in S \cup T : ElementOf[r] # d
    <3>1. PICK r \in RenderersOf(d) : Emits(r)
      BY <2>4 DEF Watch, SpinnerEnds, Spins
    <3>2. r \in Renderers /\ r \notin S \cup T
      BY <2>4 DEF RenderersOf
    <3>3. mounted'[r] = mounted[r] \/ (r \in Dialogs /\ mounted'[r] = "unmounted")
      BY <2>4 DEF Spins
    <3>4. Announces(r)' <=> Announces(r)
      BY <1>0 DEF Announces
    <3>5. CASE r \in D
      BY <2>1, <3>5
    <3>6. CASE r \notin D /\ mounted'[r] = "mounted" /\ mounted[r] = "mounted"
      <4>1. HasLoad(r) \/ leaving \/ Announces(r) \/ r \in dropped
        BY <3>1, <3>6 DEF Emits
      <4>2. HasLoad(r)' \/ leaving' \/ Announces(r)' \/ r \in dropped'
        BY <1>0, <1>14, <3>2, <3>4, <3>6, <4>1
      <4>3. Emits(r)'
        BY <3>6, <4>2 DEF Emits
      <4> QED BY <4>3 DEF RenderersOf
    <3>7. CASE mounted'[r] # "mounted"
      <4>1. Emits(r)'
        BY <3>1, <3>3, <3>7 DEF Emits
      <4> QED BY <4>1 DEF RenderersOf
    <3>8. mounted'[r] = "mounted" => mounted[r] = "mounted"
      BY <3>3
    <3> QED BY <3>5, <3>6, <3>7, <3>8 DEF RenderersOf
  <2> QED BY <2>2, <2>3, <2>4
<1>17. Fresh'
  <2> SUFFICES ASSUME NEW r \in Renderers, mounted'[r] = "unborn" PROVE ~view'[r].refreshing
    BY DEF Fresh
  <2>1. r \in Others /\ mounted[r] = "unborn"
    BY <1>0
  <2> QED BY <1>1, <2>1 DEF Watch, Fresh
<1> QED BY <1>11, <1>12, <1>15, <1>16, <1>17 DEF Watch

LEMMA AnswerWatch == ASSUME Core, Watch, NEW l \in running, NEW o \in Outcomes, Answer(l, o) PROVE Watch'
<1>1. /\ inputs' = inputs /\ static' = static /\ dropped' = dropped /\ mounted' = mounted /\ view' = view
      /\ spinner' = spinner /\ tails' = tails /\ leaving' = leaving
  BY AnswerMoves DEF page
<1>2. Pending' = Pending
  BY AnswerPending
<1>3. Latest'
  BY <1>1, <1>2 DEF Watch, Latest, Asked, Painted, ShownIsLatest, Live, Current
<1>4. NothingAfterStop' /\ Fresh'
  BY <1>1, <1>2 DEF Watch, NothingAfterStop, Fresh, Current
<1>5. Explained'
  BY <1>1, <1>2 DEF Watch, Explained, HasLoad, HasTail, Current
<1>6. SpinnerEnds'
  BY <1>1, <1>2 DEF Watch, SpinnerEnds, Emits, HasLoad, Announces, Current, RenderersOf
<1> QED BY <1>3, <1>4, <1>5, <1>6 DEF Watch

(* A current load that is taken was the only one of its renderer. *)
LEMMA TakenAlone ==
  ASSUME Core, NEW a \in answers, Takes(a)
  PROVE  /\ a.load \in Pending /\ a.load.r \in Renderers /\ a.load.seq = view[a.load.r].seq
         /\ \A l \in Pending : l.r = a.load.r /\ Current(l) => l = a.load
<1>1. a.load \in Pending
  BY DEF Pending
<1>2. a.load.seq = view[a.load.r].seq
  BY DEF Takes, Current
<1> QED BY <1>1, <1>2, PendingLoads DEF Current, SameRender

LEMMA DropStaleWatch == ASSUME Core, Watch, NEW a \in answers, DropStale(a) PROVE Watch'
<1>1. /\ inputs' = inputs /\ static' = static /\ dropped' = dropped /\ mounted' = mounted /\ view' = view
      /\ spinner' = spinner /\ tails' = tails /\ leaving' = leaving
      /\ answers' = answers \ {a} /\ UNCHANGED loads /\ ~Current(a.load)
  BY DEF DropStale, page
<1>2. Pending' = Pending \ {a.load}
  BY <1>1, TakenPending
<1>3. Latest'
  BY <1>1, <1>2 DEF Watch, Latest, Asked, Painted, ShownIsLatest, Live, Current
<1>4. NothingAfterStop' /\ Fresh'
  BY <1>1, <1>2 DEF Watch, NothingAfterStop, Fresh, Current
<1>5. \A r \in Renderers : HasLoad(r)' <=> HasLoad(r)
  BY <1>1, <1>2 DEF HasLoad, Current
<1>6. Explained'
  BY <1>1, <1>5 DEF Watch, Explained, HasTail
<1>7. SpinnerEnds'
  BY <1>1, <1>5 DEF Watch, SpinnerEnds, Emits, Announces, RenderersOf
<1> QED BY <1>3, <1>4, <1>6, <1>7 DEF Watch

(* The renderer that takes an answer, and the others. *)
LEMMA TakesWatch ==
  ASSUME Core, Watch, NEW a \in answers, Takes(a), Shows(a) \/ Fails(a) \/ Repeats(a) \/ GivesUp(a)
  PROVE  Watch'
<1> DEFINE l == a.load
           r == a.load.r
           n == IF Repeats(a) THEN {Again(a)} ELSE {}
<1>0. l \in Pending /\ r \in Renderers /\ l.seq = view[r].seq /\ Current(l)
      /\ \A m \in Pending : m.r = r /\ Current(m) => m = l
  BY TakenAlone DEF Takes
<1>1. /\ answers' = answers \ {a}
      /\ \A q \in Renderers \ {r} : view'[q] = view[q]
      /\ view'[r].seq = view[r].seq /\ view'[r].refreshing = view[r].refreshing
      /\ inputs' = inputs /\ static' = static /\ dropped' = dropped /\ mounted' = mounted
  BY DEF Takes
<1>2. /\ Again(a).r = r /\ Again(a).seq = view[r].seq /\ Again(a).inputs = l.inputs
  BY <1>0, AgainIs
<1>3. Repeats(a) => view'[r].state = "loading" /\ leaving' = leaving /\ spinner' = spinner /\ tails' = tails
  BY DEF Repeats
<1>4. Shows(a) \/ Fails(a) \/ GivesUp(a) => UNCHANGED loads
  BY DEF Shows, Fails, GivesUp, Ends
<1>5. Pending' \subseteq (Pending \ {l}) \cup n
      /\ (Pending \ {l}) \subseteq Pending' /\ (Repeats(a) /\ ~UNCHANGED loads => Again(a) \in Pending')
  BY <1>1, <1>4, TakenPending
<1>6. Repeats(a) => Again(a) \in Pending'
  BY DEF Repeats, Pending
<1>7. \/ tails' = tails /\ Repeats(a)
      \/ \E b \in BOOLEAN : tails' = tails \cup {[r |-> r, seq |-> view[r].seq, announces |-> b]}
  BY <1>0 DEF Shows, Fails, Repeats, GivesUp, Ends
<1>8. \A m \in Pending' : \/ m \in Pending /\ m # l /\ m.r \in Renderers
                          \/ Repeats(a) /\ m = Again(a)
  BY <1>5, PendingLoads
<1>9. \A q \in Renderers : view'[q].seq = view[q].seq /\ view'[q].refreshing = view[q].refreshing
  BY <1>1
<1>10. \A t \in tails' : t \in tails \/ (t.r = r /\ t.seq = view[r].seq /\ ~Repeats(a))
  <2>1. \A b \in BOOLEAN : LET t == [r |-> r, seq |-> view[r].seq, announces |-> b]
                           IN  t.r = r /\ t.seq = view[r].seq
    OBVIOUS
  <2>2. CASE Repeats(a)
    BY <1>3, <2>2
  <2>3. CASE ~Repeats(a)
    BY <1>7, <2>1, <2>3
  <2> QED BY <2>2, <2>3
<1>11. tails \subseteq tails'
  BY <1>7
<1> HIDE DEF n
<1>12. Shows(a) => view'[r].state \in {"ready", "empty"} /\ view'[r].chart = l.inputs
  BY DEF Shows
<1>13. Fails(a) => view'[r].state = "error"
  BY DEF Fails
<1>14. GivesUp(a) => view' = view /\ l.retry /\ leaving' = TRUE
  BY DEF GivesUp
<1>15. Live(r) => l.inputs = inputs[r] /\ (l.retry => view[r].state = "loading")
  BY <1>0 DEF Watch, Latest, Asked
<1>16. \A q \in Renderers : Live(q)' <=> Live(q)
  BY <1>1 DEF Live
<1>17. Live(r) /\ view'[r].state \in {"ready", "empty"} => view'[r].chart = inputs[r]
  BY <1>3, <1>12, <1>13, <1>14, <1>15
<1>18. Latest'
  <2>1. Asked'
    <3> SUFFICES ASSUME NEW m \in Pending', Live(m.r)', Current(m)'
                 PROVE  m.inputs = inputs'[m.r] /\ (m.retry => view'[m.r].state = "loading")
      BY DEF Asked
    <3>1. CASE m \in Pending /\ m # l /\ m.r \in Renderers
      <4>1. Current(m)
        BY <1>9, <3>1 DEF Current
      <4>2. m.r # r
        BY <1>0, <3>1, <4>1
      <4> QED BY <1>1, <1>16, <3>1, <4>1, <4>2 DEF Watch, Latest, Asked
    <3>2. CASE Repeats(a) /\ m = Again(a)
      BY <1>0, <1>1, <1>2, <1>3, <1>15, <1>16, <3>2
    <3> QED BY <1>8, <3>1, <3>2
  <2>2. Painted'
    <3> SUFFICES ASSUME NEW t \in tails', Live(t.r)', t.seq = view'[t.r].seq, view'[t.r].state \in {"ready", "empty"}
                 PROVE  view'[t.r].chart = inputs'[t.r]
      BY DEF Painted
    <3>1. t.r \in Renderers
      BY <1>0, <1>10 DEF Core, Types
    <3>2. CASE t.r = r
      BY <1>0, <1>1, <1>16, <1>17, <3>2
    <3>3. CASE t.r # r
      <4>1. t \in tails /\ view'[t.r] = view[t.r] /\ Live(t.r)
        BY <1>1, <1>10, <1>16, <3>1, <3>3
      <4> QED BY <1>1, <4>1 DEF Watch, Latest, Painted
    <3> QED BY <3>2, <3>3
  <2>3. ShownIsLatest'
    <3> SUFFICES ASSUME NEW q \in Renderers, Live(q)', view'[q].state \in {"ready", "empty"}, ~view'[q].refreshing
                 PROVE  view'[q].chart = inputs'[q]
      BY DEF ShownIsLatest, Live
    <3>1. CASE q = r
      BY <1>1, <1>16, <1>17, <3>1
    <3>2. CASE q # r
      BY <1>1, <1>16, <3>2 DEF Watch, Latest, ShownIsLatest, Live
    <3> QED BY <3>1, <3>2
  <2> QED BY <2>1, <2>2, <2>3 DEF Latest
<1>19. NothingAfterStop'
  <2> SUFFICES ASSUME NEW m \in Pending', view'[m.r].state = "stopped", Current(m)' PROVE FALSE
    BY DEF NothingAfterStop
  <2>1. CASE m \in Pending /\ m # l /\ m.r \in Renderers
    <3>1. Current(m)
      BY <1>9, <2>1 DEF Current
    <3>2. m.r # r
      BY <1>0, <2>1, <3>1
    <3> QED BY <1>1, <2>1, <3>1, <3>2 DEF Watch, NothingAfterStop
  <2>2. CASE Repeats(a) /\ m = Again(a)
    BY <1>2, <1>3, <2>2
  <2> QED BY <1>8, <2>1, <2>2
<1>20. ASSUME NEW q \in Renderers, q # r
       PROVE  (HasLoad(q) => HasLoad(q)') /\ (HasTail(q) => HasTail(q)') /\ (Announces(q) => Announces(q)')
  <2>1. HasLoad(q) => HasLoad(q)'
    BY <1>5, <1>9, <1>20 DEF HasLoad, Current
  <2>2. HasTail(q) => HasTail(q)'
    BY <1>9, <1>11 DEF HasTail
  <2>3. Announces(q) => Announces(q)'
    BY <1>11 DEF Announces
  <2> QED BY <2>1, <2>2, <2>3
<1>21. ~Repeats(a) => HasTail(r)'
  <2>1. \A b \in BOOLEAN : LET t == [r |-> r, seq |-> view[r].seq, announces |-> b]
                           IN  t.r = r /\ t.seq = view[r].seq
    OBVIOUS
  <2> QED BY <1>7, <1>9, <1>0, <2>1 DEF HasTail
<1>22. Repeats(a) => HasLoad(r)'
  BY <1>0, <1>2, <1>6, <1>9 DEF HasLoad, Current
<1>23. Explained'
  <2> SUFFICES ASSUME NEW q \in Renderers, mounted'[q] = "mounted", q \notin dropped', ~leaving'
               PROVE  /\ view'[q].state = "loading" => HasLoad(q)'
                      /\ view'[q].refreshing => HasLoad(q)' \/ HasTail(q)'
    BY DEF Explained
  <2>a. ~GivesUp(a)
    BY <1>14
  <2>b. Shows(a) \/ Fails(a) => leaving' = leaving
    BY DEF Shows, Fails
  <2>1. ~GivesUp(a) /\ ~leaving
    BY <1>3, <2>a, <2>b
  <2>2. CASE q = r
    BY <1>3, <1>12, <1>13, <1>21, <1>22, <2>1, <2>2
  <2>3. CASE q # r
    <3>1. (view[q].state = "loading" => HasLoad(q)) /\ (view[q].refreshing => HasLoad(q) \/ HasTail(q))
      BY <1>1, <2>1 DEF Watch, Explained
    <3> QED BY <1>1, <1>20, <2>3, <3>1
  <2> QED BY <2>2, <2>3
<1>24. SpinnerEnds'
  <2> SUFFICES ASSUME NEW d \in Elements, spinner'[d] PROVE \E q \in RenderersOf(d) : Emits(q)'
    BY DEF SpinnerEnds, RenderersOf
  <2>1. /\ spinner[d]
        /\ \/ Repeats(a) \/ GivesUp(a) \/ (Ends(a, TRUE) /\ spinner' = spinner)
           \/ mounted[r] = "mounted" => d # ElementOf[r]
    BY <1>0, SettledType DEF Shows, Fails, Repeats, GivesUp
  <2>2. PICK q \in RenderersOf(d) : Emits(q)
    BY <2>1 DEF Watch, SpinnerEnds
  <2>3. q \in Renderers /\ ElementOf[q] = d
    BY DEF RenderersOf
  <2>4. leaving => leaving'
    BY <1>3, <1>14 DEF Shows, Fails
  <2>5. CASE q # r
    BY <1>1, <1>20, <2>2, <2>3, <2>4, <2>5 DEF Emits, RenderersOf
  <2>6. CASE q = r /\ mounted[r] = "mounted"
    <3>1. ASSUME Ends(a, TRUE) PROVE Announces(r)'
      <4> DEFINE t == [r |-> r, seq |-> l.seq, announces |-> TRUE]
      <4>1. t \in tails' /\ t.r = r /\ t.announces
        BY <3>1 DEF Ends
      <4> HIDE DEF t
      <4> QED BY <4>1 DEF Announces
    <3>2. HasLoad(r)' \/ leaving' \/ Announces(r)'
      BY <1>14, <1>22, <2>1, <2>3, <2>6, <3>1
    <3> QED BY <1>1, <2>2, <2>6, <3>2 DEF Emits, RenderersOf
  <2>7. CASE q = r /\ mounted[r] # "mounted"
    BY <1>1, <2>2, <2>7 DEF Emits, RenderersOf
  <2> QED BY <2>5, <2>6, <2>7
<1>25. Fresh'
  BY <1>1, <1>9 DEF Watch, Fresh
<1> QED BY <1>18, <1>19, <1>23, <1>24, <1>25 DEF Watch

LEMMA ResumeWatch == ASSUME Core, Watch, NEW a \in answers, Resume(a) PROVE Watch'
BY ResumeDoes, DropStaleWatch, TakesWatch

LEMMA FinishWatch == ASSUME Core, Watch, NEW t \in tails, Finish(t) PROVE Watch'
<1>0. t.r \in Renderers
  BY DEF Core, Types
<1>1. /\ tails' = tails \ {t}
      /\ \A r \in Renderers :
           /\ view'[r].state = view[r].state /\ view'[r].chart = view[r].chart /\ view'[r].seq = view[r].seq
           /\ view'[r].refreshing => view[r].refreshing /\ (r = t.r => t.seq # view[r].seq)
           /\ r # t.r => view'[r] = view[r]
           /\ t.seq # view[t.r].seq => view'[r] = view[r]
      /\ \/ t.announces /\ Settled(t.r)
         \/ ~t.announces /\ spinner' = spinner
      /\ inputs' = inputs /\ static' = static /\ dropped' = dropped /\ mounted' = mounted
      /\ leaving' = leaving
  BY FinishDoes DEF Concludes
<1>2. Pending' = Pending
  BY FinishDoes DEF Concludes, Pending, loads
<1>3. \A l \in Pending : l.r \in Renderers /\ (Current(l)' <=> Current(l))
  BY <1>1, PendingLoads DEF Current
<1>4. \A s \in tails : s.r \in Renderers
  BY DEF Core, Types
<1>5. Latest'
  <2>1. Asked'
    BY <1>1, <1>2, <1>3 DEF Watch, Latest, Asked, Live
  <2>2. Painted'
    BY <1>1, <1>4 DEF Watch, Latest, Painted, Live
  <2>3. ShownIsLatest'
    <3> SUFFICES ASSUME NEW r \in Renderers, Live(r), view[r].state \in {"ready", "empty"}, ~view'[r].refreshing
                 PROVE  view[r].chart = inputs[r]
      BY <1>1 DEF ShownIsLatest, Live
    <3>1. CASE r = t.r /\ t.seq = view[r].seq
      BY <3>1 DEF Watch, Latest, Painted
    <3>2. CASE ~(r = t.r /\ t.seq = view[r].seq)
      <4>1. view'[r] = view[r]
        BY <1>1, <3>2
      <4> QED BY <4>1 DEF Watch, Latest, ShownIsLatest, Live
    <3> QED BY <3>1, <3>2
  <2> QED BY <2>1, <2>2, <2>3 DEF Latest
<1>6. NothingAfterStop' /\ Fresh'
  BY <1>1, <1>2, <1>3 DEF Watch, NothingAfterStop, Fresh
<1>7. \A r \in Renderers : HasLoad(r)' <=> HasLoad(r)
  BY <1>2, <1>3 DEF HasLoad
<1>8. Explained'
  <2> SUFFICES ASSUME NEW r \in Renderers, mounted'[r] = "mounted", r \notin dropped', ~leaving'
               PROVE  /\ view'[r].state = "loading" => HasLoad(r)'
                      /\ view'[r].refreshing => HasLoad(r)' \/ HasTail(r)'
    BY DEF Explained
  <2>1. (view[r].state = "loading" => HasLoad(r)) /\ (view[r].refreshing => HasLoad(r) \/ HasTail(r))
    BY <1>1 DEF Watch, Explained
  <2>2. view'[r].refreshing /\ HasTail(r) => HasTail(r)'
    BY <1>1 DEF HasTail
  <2> QED BY <1>1, <1>7, <2>1, <2>2
<1>9. SpinnerEnds'
  <2> SUFFICES ASSUME NEW d \in Elements, spinner'[d] PROVE \E r \in RenderersOf(d) : Emits(r)'
    BY DEF SpinnerEnds, RenderersOf
  <2>1. spinner[d] /\ (t.announces /\ mounted[t.r] = "mounted" => d # ElementOf[t.r])
    BY <1>0, <1>1, SettledType
  <2>2. PICK r \in RenderersOf(d) : Emits(r)
    BY <2>1 DEF Watch, SpinnerEnds
  <2>3. r \in Renderers /\ ElementOf[r] = d
    BY DEF RenderersOf
  <2>4. mounted[r] = "mounted" /\ Announces(r) => Announces(r)'
    BY <1>1, <2>1, <2>3 DEF Announces
  <2>5. Emits(r)'
    BY <1>1, <1>7, <2>2, <2>3, <2>4 DEF Emits
  <2> QED BY <2>5 DEF RenderersOf
<1> QED BY <1>5, <1>6, <1>8, <1>9 DEF Watch

LEMMA ReloadWatch == ASSUME Core, Reload PROVE Watch'
<1>1. /\ answers' = {} /\ tails' = {} /\ queue' = <<>> /\ running' = {}
      /\ \A r \in Renderers : mounted'[r] = "unborn"
      /\ \A e \in Elements : ~spinner'[e]
  BY ReloadDoes
<1>2. Pending' = {}
  BY <1>1 DEF Pending, OnTheirWay, Members
<1>3. Fresh'
  BY DEF Reload, Fresh, FreshView
<1> QED BY <1>1, <1>2, <1>3 DEF Watch, Latest, Asked, Painted, ShownIsLatest, NothingAfterStop, Explained,
           SpinnerEnds

LEMMA WatchStep == Core /\ Watch /\ [Next]_vars => Watch'
<1> SUFFICES ASSUME Core, Watch, [Next]_vars PROVE Watch'
  OBVIOUS
<1>1. CASE UNCHANGED vars
  <2>1. UNCHANGED <<inputs, static, mounted, view, spinner, queue, active, running, answers, tails, dropped,
                    leaving>>
    BY <1>1 DEF vars, loads, page
  <2>2. Pending' = Pending
    BY <2>1 DEF Pending
  <2> QED BY <2>1, <2>2 DEF Watch, Latest, Asked, Painted, ShownIsLatest, NothingAfterStop, Explained,
             SpinnerEnds, Fresh, Live, HasLoad, HasTail, Announces, Emits, Current, RenderersOf
<1> QED BY <1>1, NextDoes, ActsWatch, AnswerWatch, ResumeWatch, FinishWatch, ReloadWatch

RenderInv == Core /\ Watch

LEMMA RenderInvHolds == Spec => []RenderInv
<1>1. Init => RenderInv
  BY InitCore, InitWatch DEF RenderInv
<1>2. RenderInv /\ [Next]_vars => RenderInv'
  BY CoreStep, WatchStep DEF RenderInv
<1> QED BY <1>1, <1>2, PTL DEF Spec

(* Whatever overlaps, is retried, overtaken or stopped: what a renderer     *)
(* shows as final belongs to what it is given by now: a card to its         *)
(* element, a dialog to the snapshot it was opened with, both to the        *)
(* current filters.                                                         *)
THEOREM ShownIsLatestHolds == Spec => []ShownIsLatest
<1>1. RenderInv => ShownIsLatest
  BY DEF RenderInv, Watch, Latest
<1> QED BY <1>1, RenderInvHolds, PTL

LEMMA LoadsAreOutstanding ==
  \A r \in Renderers : HasLoad(r) => Outstanding(r)
<1> SUFFICES ASSUME NEW r \in Renderers, NEW l \in Pending, l.r = r, Current(l) PROVE Outstanding(r)
  BY DEF HasLoad
<1>1. CurrentLoad(l)
  BY DEF Current, CurrentLoad
<1>2. (\E i \in DOMAIN queue : queue[i] = l) \/ l \in running \/ \E a \in answers : a.load = l
  BY DEF Pending, OnTheirWay, Members
<1> QED BY <1>1, <1>2 DEF Outstanding

(* A renderer that says that it loads waits for a load, a continuation or   *)
(* the new page.                                                            *)
THEOREM NoOrphanWaitHolds == Spec => []NoOrphanWait
<1>1. RenderInv => NoOrphanWait
  <2> SUFFICES ASSUME RenderInv, NEW r \in Renderers, mounted[r] = "mounted",
                      view[r].state = "loading" \/ view[r].refreshing, r \notin dropped
               PROVE  Outstanding(r)
    BY DEF NoOrphanWait
  <2>1. CASE leaving
    BY <2>1 DEF Outstanding
  <2>2. CASE ~leaving
    <3>1. HasLoad(r) \/ HasTail(r)
      BY <2>2 DEF RenderInv, Watch, Explained
    <3> QED BY <3>1, LoadsAreOutstanding DEF HasTail, Outstanding
  <2> QED BY <2>1, <2>2
<1> QED BY <1>1, RenderInvHolds, PTL

(* A spinner that is on will be turned off by a mounted renderer that still *)
(* waits, belongs to an element whose dialog was closed, or to a dialog     *)
(* whose load was cleared with the queue.                                   *)
THEOREM SpinnerExplainedHolds == Spec => []SpinnerExplained
<1>1. RenderInv => SpinnerExplained
  <2> SUFFICES ASSUME RenderInv, NEW e \in Elements, spinner[e]
               PROVE  \E r \in RenderersOf(e) :
                        \/ mounted[r] = "mounted" /\ (Outstanding(r) \/ r \in dropped)
                        \/ r \in Dialogs /\ mounted[r] = "unmounted"
    BY DEF SpinnerExplained
  <2>1. PICK r \in RenderersOf(e) : Emits(r)
    BY DEF RenderInv, Watch, SpinnerEnds
  <2>2. r \in Renderers
    BY DEF RenderersOf
  <2>3. leaving \/ Announces(r) => Outstanding(r)
    BY DEF Outstanding, Announces
  <2> QED BY <2>1, <2>2, <2>3, LoadsAreOutstanding DEF Emits
<1> QED BY <1>1, RenderInvHolds, PTL

(* The step that shows data takes the answer to a load that is pending and  *)
(* current, and a stopped renderer has none.                                *)
LEMMA StopIsFinal ==
  RenderInv /\ [Next]_vars =>
    [\A r \in Renderers :
       (/\ mounted[r] = "mounted" /\ view[r].state = "stopped"
        /\ view'[r].state \in {"ready", "empty", "error"})
       => r \in static']_vars
<1> SUFFICES ASSUME Core, Watch, [Next]_vars, NEW r \in Renderers,
                    mounted[r] = "mounted", view[r].state = "stopped",
                    view'[r].state \in {"ready", "empty", "error"}
             PROVE  r \in static'
  BY DEF RenderInv
<1>1. ASSUME NEW D \in SUBSET Renderers, NEW S \in SUBSET Renderers, NEW T \in SUBSET Renderers, Acts(D, S, T)
      PROVE  r \in static'
  <2>1. Repaints(D, S, T)
    BY <1>1 DEF Acts
  <2>2. r \notin D /\ r \notin T
    BY <2>1 DEF Repaints, Relaunched, Halted
  <2>3. r \in S
    BY <2>1, <2>2 DEF Repaints
  <2> QED BY <2>1, <2>3 DEF Repaints
<1>2. ASSUME NEW a \in answers, Resume(a) PROVE FALSE
  <2>1. Takes(a) /\ a.load.r = r
    BY <1>2, ResumeDoes DEF DropStale, Takes
  <2>2. a.load \in Pending /\ Current(a.load)
    BY <2>1 DEF Pending, Takes
  <2> QED BY <2>1, <2>2 DEF Watch, NothingAfterStop
<1>3. ASSUME NEW t \in tails, Finish(t) PROVE FALSE
  BY <1>3, FinishDoes DEF Concludes
<1>4. ASSUME NEW l \in running, NEW o \in Outcomes, Answer(l, o) PROVE FALSE
  BY <1>4, AnswerMoves
<1>5. CASE Reload
  BY <1>5, ReloadDoes
<1>6. CASE UNCHANGED vars
  BY <1>6 DEF vars
<1> QED BY <1>1, <1>2, <1>3, <1>4, <1>5, <1>6, NextDoes

(* No answer to a load from before the stop paints a renderer the user has  *)
(* stopped (stopRender of useDashboardElementDataRenderer).                 *)
THEOREM StoppedStaysHolds == Spec => StoppedStays
BY RenderInvHolds, StopIsFinal, PTL DEF Spec, StoppedStays

=============================================================================
