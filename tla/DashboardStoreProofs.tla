------------------------ MODULE DashboardStoreProofs ------------------------
(***************************************************************************)
(* The store of a dashboard, for any elements, filters and transactions.   *)
(*                                                                         *)
(* What a transaction has still to do is a suffix of its operation's       *)
(* program.  Ordered says what the proofs need to know of the order of the *)
(* statements; it holds of every program and of every suffix of one that   *)
(* has it.                                                                 *)
(***************************************************************************)
EXTENDS DashboardStore, TLAPS

-----------------------------------------------------------------------------
(* The order of statements. *)

Has(s, st) == \E i \in DOMAIN s : s[i].st = st
Ahead(s, st, c) == \E i \in DOMAIN s : s[i].st = st /\ c \in s[i].on

(* A read of c is ahead, and the insertion of a version after it. *)
ReadsFirst(s, c) ==
  \E i, j \in DOMAIN s : i < j /\ s[i].st = "read" /\ c \in s[i].on /\ s[j].st = "number"

Replacing == {"updateDashboard", "restore", "restoreUnpublished"}
Making == {"publish", "createVersion"}
Changing == {"write", "clear", "fill"}

Ends(s) == \A i \in DOMAIN s : s[i].st = "commit" <=> i = Len(s)
Drops(s) == \A i, j \in DOMAIN s : s[i].st = "drop" /\ j = i + 1 => s[j].st = "unpoint"
Counts(s, op) ==
  /\ \A i \in DOMAIN s : s[i].st = "number" => op \in Making
  /\ \A i, j \in DOMAIN s : i < j /\ s[j].st = "last" => s[i].st = "read"
  /\ \A i, j \in DOMAIN s : i < j /\ s[j].st = "number" => s[i].st \in {"read", "last"}
Copies(s, op) ==
  \A i \in DOMAIN s : s[i].st \in Changing =>
    /\ op \notin Making
    /\ \E j \in DOMAIN s : i < j /\ s[j].st = "mirror"
    /\ \A c \in Children : \E j \in DOMAIN s : i < j /\ s[j].st = "read" /\ c \in s[j].on
Locks(s, on) ==
  /\ \A i, j \in DOMAIN s : i < j => s[j].st # "row"
  /\ \A i \in DOMAIN s : s[i].st = "row" =>
       \A c \in on : \E j \in DOMAIN s : i < j /\ s[j].st = "clear" /\ c \in s[j].on
Clears(s, on) ==
  /\ \A i, j \in DOMAIN s : j = i + 1 /\ s[j].st = "clear" => s[i].st = "see" /\ s[i].on = s[j].on
  /\ \A i \in DOMAIN s : s[i].st = "clear" =>
       s[i].on \subseteq on /\ \A c \in s[i].on : \E j \in DOMAIN s : i < j /\ s[j].st = "fill" /\ c \in s[j].on
Fills(s, on) ==
  /\ \A i \in DOMAIN s : s[i].st \notin {"write", "destroy"} /\ (s[i].st = "fill" => s[i].on \subseteq on)
  /\ \A i, j \in DOMAIN s : i < j /\ s[i].st = "fill" /\ s[j].st \in {"clear", "fill"} => s[i].on \cap s[j].on = {}

Ordered(s, op, on) ==
  /\ Ends(s) /\ Drops(s) /\ Counts(s, op) /\ Copies(s, op)
  /\ op \in Replacing => Locks(s, on) /\ Clears(s, on) /\ Fills(s, on)

(* The first statements of an operation, and what its program contains.    *)
Starts(s, op, on) ==
  /\ s # <<>>
  /\ op = "deleteVersion" => Head(s).st = "drop"
  /\ op = "publish" => Has(s, "number")
  /\ op \in Making => Has(s, "last") /\ \A c \in Children : ReadsFirst(s, c)
  /\ op \in Replacing => Head(s).st = "row"
  /\ Has(s, "mirror") => \A c \in Children : Ahead(s, "read", c)

LEMMA Tails ==
  ASSUME NEW s \in Seq(Statements), s # <<>>
  PROVE  /\ Tail(s) \in Seq(Statements) /\ Len(s) \in Nat \ {0} /\ Len(Tail(s)) = Len(s) - 1
         /\ DOMAIN s = 1..Len(s) /\ DOMAIN Tail(s) = 1..(Len(s) - 1)
         /\ \A i \in 1..(Len(s) - 1) : Tail(s)[i] = s[i + 1]
         /\ Head(s) = s[1] /\ s[1] \in Statements
OBVIOUS

LEMMA HasTail ==
  ASSUME NEW s \in Seq(Statements), s # <<>>, NEW st
  PROVE  Has(s, st) <=> Head(s).st = st \/ Has(Tail(s), st)
<1>0. Tail(s) \in Seq(Statements) /\ Len(s) \in Nat \ {0} /\ Head(s) = s[1] /\ 1 \in DOMAIN s
      /\ \A i \in DOMAIN Tail(s) : i \in Nat /\ i + 1 \in DOMAIN s /\ Tail(s)[i] = s[i + 1]
  BY Tails
<1>1. \A j \in DOMAIN s : j \in Nat /\ (j = 1 \/ (1 < j /\ j - 1 \in DOMAIN Tail(s) /\ s[j] = Tail(s)[j - 1]))
  BY Tails
<1>2. Has(s, st) => Head(s).st = st \/ Has(Tail(s), st)
  BY <1>0, <1>1 DEF Has
<1>3. Head(s).st = st => Has(s, st)
  BY <1>0 DEF Has
<1>4. Has(Tail(s), st) => Has(s, st)
  BY <1>0 DEF Has
<1> QED BY <1>2, <1>3, <1>4

LEMMA AheadTail ==
  ASSUME NEW s \in Seq(Statements), s # <<>>, NEW st, NEW c
  PROVE  Ahead(s, st, c) <=> (Head(s).st = st /\ c \in Head(s).on) \/ Ahead(Tail(s), st, c)
<1>0. Tail(s) \in Seq(Statements) /\ Len(s) \in Nat \ {0} /\ Head(s) = s[1] /\ 1 \in DOMAIN s
      /\ \A i \in DOMAIN Tail(s) : i \in Nat /\ i + 1 \in DOMAIN s /\ Tail(s)[i] = s[i + 1]
  BY Tails
<1>1. \A j \in DOMAIN s : j \in Nat /\ (j = 1 \/ (1 < j /\ j - 1 \in DOMAIN Tail(s) /\ s[j] = Tail(s)[j - 1]))
  BY Tails
<1>2. Ahead(s, st, c) => (Head(s).st = st /\ c \in Head(s).on) \/ Ahead(Tail(s), st, c)
  BY <1>0, <1>1 DEF Ahead
<1>3. Head(s).st = st /\ c \in Head(s).on => Ahead(s, st, c)
  BY <1>0 DEF Ahead
<1>4. Ahead(Tail(s), st, c) => Ahead(s, st, c)
  BY <1>0 DEF Ahead
<1> QED BY <1>2, <1>3, <1>4

LEMMA ReadsFirstTail ==
  ASSUME NEW s \in Seq(Statements), s # <<>>, NEW c
  PROVE  ReadsFirst(s, c) <=> \/ Head(s).st = "read" /\ c \in Head(s).on /\ Has(Tail(s), "number")
                              \/ ReadsFirst(Tail(s), c)
<1>0. Tail(s) \in Seq(Statements) /\ Len(s) \in Nat \ {0} /\ Head(s) = s[1] /\ 1 \in DOMAIN s
      /\ \A i \in DOMAIN Tail(s) : i \in Nat /\ i + 1 \in DOMAIN s /\ Tail(s)[i] = s[i + 1]
  BY Tails
<1>1. \A j \in DOMAIN s : j \in Nat /\ (j = 1 \/ (1 < j /\ j - 1 \in DOMAIN Tail(s) /\ s[j] = Tail(s)[j - 1]))
  BY Tails
<1>2. ASSUME ReadsFirst(s, c)
      PROVE  \/ Head(s).st = "read" /\ c \in Head(s).on /\ Has(Tail(s), "number")
             \/ ReadsFirst(Tail(s), c)
  <2>1. PICK i, j \in DOMAIN s : i < j /\ s[i].st = "read" /\ c \in s[i].on /\ s[j].st = "number"
    BY <1>2 DEF ReadsFirst
  <2>2. j - 1 \in DOMAIN Tail(s) /\ s[j] = Tail(s)[j - 1]
    BY <1>1, <2>1
  <2>3. CASE i = 1
    BY <1>0, <2>1, <2>2, <2>3 DEF Has
  <2>4. CASE i # 1
    <3>1. i - 1 \in DOMAIN Tail(s) /\ s[i] = Tail(s)[i - 1] /\ i - 1 < j - 1
      BY <1>1, <2>1, <2>4
    <3> QED BY <2>1, <2>2, <3>1 DEF ReadsFirst
  <2> QED BY <2>3, <2>4
<1>3. ASSUME Head(s).st = "read", c \in Head(s).on, Has(Tail(s), "number")
      PROVE  ReadsFirst(s, c)
  <2>1. PICK j \in DOMAIN Tail(s) : Tail(s)[j].st = "number"
    BY <1>3 DEF Has
  <2>2. j + 1 \in DOMAIN s /\ s[j + 1].st = "number" /\ 1 < j + 1
    BY <1>0, <2>1
  <2> QED BY <1>0, <1>3, <2>2 DEF ReadsFirst
<1>4. ASSUME ReadsFirst(Tail(s), c)
      PROVE  ReadsFirst(s, c)
  <2>1. PICK i, j \in DOMAIN Tail(s) : i < j /\ Tail(s)[i].st = "read" /\ c \in Tail(s)[i].on /\ Tail(s)[j].st = "number"
    BY <1>4 DEF ReadsFirst
  <2>2. /\ i + 1 \in DOMAIN s /\ s[i + 1] = Tail(s)[i]
        /\ j + 1 \in DOMAIN s /\ s[j + 1] = Tail(s)[j] /\ i + 1 < j + 1
    BY <1>0, <2>1
  <2> QED BY <2>1, <2>2 DEF ReadsFirst
<1> QED BY <1>2, <1>3, <1>4

LEMMA OrderedTail ==
  ASSUME NEW s \in Seq(Statements), s # <<>>, NEW op, NEW on, Ordered(s, op, on)
  PROVE  Ordered(Tail(s), op, on)
<1> DEFINE r == Tail(s)
<1>0. r \in Seq(Statements) /\ DOMAIN r = 1..(Len(s) - 1) /\ DOMAIN s = 1..Len(s) /\ Len(s) \in Nat \ {0}
      /\ Len(r) = Len(s) - 1 /\ \A i \in DOMAIN r : i + 1 \in DOMAIN s /\ r[i] = s[i + 1] /\ i \in Nat
  BY Tails
<1>00. \A j \in DOMAIN s : j > 1 => j - 1 \in DOMAIN r /\ s[j] = r[j - 1] /\ j \in Nat
  BY Tails
<1>1. Ends(r)
  BY <1>0 DEF Ordered, Ends
<1>2. Drops(r)
  BY <1>0 DEF Ordered, Drops
<1>3. Counts(r, op)
  BY <1>0 DEF Ordered, Counts
<1>4. Copies(r, op)
  <2>1. SUFFICES ASSUME NEW i \in DOMAIN r, r[i].st \in Changing
                 PROVE  /\ op \notin Making
                        /\ \E j \in DOMAIN r : i < j /\ r[j].st = "mirror"
                        /\ \A c \in Children : \E j \in DOMAIN r : i < j /\ r[j].st = "read" /\ c \in r[j].on
    BY DEF Copies
  <2>2. /\ i + 1 \in DOMAIN s /\ i \in Nat /\ op \notin Making
        /\ \E j \in DOMAIN s : i + 1 < j /\ s[j].st = "mirror"
        /\ \A c \in Children : \E j \in DOMAIN s : i + 1 < j /\ s[j].st = "read" /\ c \in s[j].on
    BY <1>0, <2>1 DEF Ordered, Copies
  <2>3. \A j \in DOMAIN s : i + 1 < j => j - 1 \in DOMAIN r /\ r[j - 1] = s[j] /\ i < j - 1
    BY <1>0, <1>00, <2>2
  <2> HIDE DEF r
  <2> QED BY <2>2, <2>3
<1>5. op \in Replacing => Locks(r, on)
  BY <1>0, <1>00 DEF Ordered, Locks
<1>6. op \in Replacing => Clears(r, on)
  <2>1. SUFFICES ASSUME op \in Replacing PROVE Clears(r, on)
    OBVIOUS
  <2>2. Clears(s, on)
    BY <2>1 DEF Ordered
  <2>3. \A i, j \in DOMAIN r : j = i + 1 /\ r[j].st = "clear" => r[i].st = "see" /\ r[i].on = r[j].on
    BY <1>0, <2>2 DEF Clears
  <2>4. ASSUME NEW i \in DOMAIN r, r[i].st = "clear"
        PROVE  r[i].on \subseteq on /\ \A c \in r[i].on : \E j \in DOMAIN r : i < j /\ r[j].st = "fill" /\ c \in r[j].on
    <3>1. /\ i + 1 \in DOMAIN s /\ i \in Nat /\ r[i] = s[i + 1] /\ s[i + 1].on \subseteq on
          /\ \A c \in s[i + 1].on : \E j \in DOMAIN s : i + 1 < j /\ s[j].st = "fill" /\ c \in s[j].on
      BY <1>0, <2>2, <2>4 DEF Clears
    <3>2. \A j \in DOMAIN s : i + 1 < j => j - 1 \in DOMAIN r /\ r[j - 1] = s[j] /\ i < j - 1
      BY <1>0, <1>00, <3>1
    <3> HIDE DEF r
    <3> QED BY <3>1, <3>2
  <2> QED BY <2>3, <2>4 DEF Clears
<1>7. op \in Replacing => Fills(r, on)
  BY <1>0 DEF Ordered, Fills
<1> QED BY <1>1, <1>2, <1>3, <1>4, <1>5, <1>6, <1>7 DEF Ordered

(* What the order of the statements says of the one that is next. *)
LEMMA OrderedHead ==
  ASSUME NEW s \in Seq(Statements), s # <<>>, NEW op, NEW on, Ordered(s, op, on)
  PROVE  /\ Head(s) \in Statements
         /\ Head(s).st = "commit" <=> Tail(s) = <<>>
         /\ Head(s).st = "drop" => Head(Tail(s)).st = "unpoint"
         /\ Head(s).st = "number" =>
              op \in Making /\ ~Has(s, "last") /\ ~Has(Tail(s), "number") /\ \A c : ~ReadsFirst(s, c)
         /\ Head(s).st = "last" => ~Has(Tail(s), "last")
         /\ Head(s).st = "point" => ~Has(s, "number")
         /\ Head(s).st \in Changing =>
              op \notin Making /\ Has(Tail(s), "mirror") /\ \A c \in Children : Ahead(Tail(s), "read", c)
<1>0. Len(s) \in Nat \ {0} /\ DOMAIN s = 1..Len(s) /\ Head(s) = s[1] /\ s[1] \in Statements /\ 1 \in DOMAIN s
      /\ \A i \in DOMAIN s : i \in Nat /\ 1 <= i
  BY Tails
<1>1. Tail(s) \in Seq(Statements) /\ Len(Tail(s)) = Len(s) - 1 /\ DOMAIN Tail(s) = 1..(Len(s) - 1)
      /\ \A i \in DOMAIN Tail(s) : i + 1 \in DOMAIN s /\ Tail(s)[i] = s[i + 1]
  BY Tails
<1>2. \A j \in DOMAIN s : 1 < j => j - 1 \in DOMAIN Tail(s) /\ s[j] = Tail(s)[j - 1]
  BY Tails
<1>3. Head(s).st = "commit" <=> Tail(s) = <<>>
  BY <1>0, <1>1 DEF Ordered, Ends
<1>4. Head(s).st = "drop" => Head(Tail(s)).st = "unpoint"
  <2>1. SUFFICES ASSUME Head(s).st = "drop" PROVE Head(Tail(s)).st = "unpoint"
    OBVIOUS
  <2>2. Head(s).st # "commit"
    BY <1>0, <2>1
  <2>3. 2 \in DOMAIN s /\ Head(Tail(s)) = s[2]
    BY <1>0, <1>1, <1>3, <2>2
  <2> QED BY <1>0, <2>1, <2>3 DEF Ordered, Drops
<1>5. Head(s).st = "number" => op \in Making /\ ~Has(s, "last") /\ ~Has(Tail(s), "number") /\ \A c : ~ReadsFirst(s, c)
  BY <1>0, <1>1 DEF Ordered, Counts, Has, ReadsFirst
<1>6. Head(s).st = "last" => ~Has(Tail(s), "last")
  BY <1>0, <1>1 DEF Ordered, Counts, Has
<1>7. Head(s).st = "point" => ~Has(s, "number")
  BY <1>0, <1>1 DEF Ordered, Counts, Has
<1>8. Head(s).st \in Changing =>
        op \notin Making /\ Has(Tail(s), "mirror") /\ \A c \in Children : Ahead(Tail(s), "read", c)
  BY <1>0, <1>2 DEF Ordered, Copies, Has, Ahead
<1> QED BY <1>0, <1>3, <1>4, <1>5, <1>6, <1>7, <1>8

(* The same of the operations that replace tables. *)
LEMMA ReplacingHead ==
  ASSUME NEW s \in Seq(Statements), s # <<>>, NEW op \in Replacing, NEW on, Ordered(s, op, on)
  PROVE  /\ ~Has(Tail(s), "row")
         /\ Head(s).st = "row" => \A c \in on : Ahead(Tail(s), "clear", c)
         /\ Tail(s) # <<>> /\ Head(Tail(s)).st = "clear" => Head(s).st = "see" /\ Head(s).on = Head(Tail(s)).on
         /\ Head(s).st = "clear" => Head(s).on \subseteq on /\ \A c \in Head(s).on : Ahead(Tail(s), "fill", c)
         /\ Head(s).st = "fill" =>
              /\ Head(s).on \subseteq on
              /\ \A c \in Head(s).on : ~Ahead(Tail(s), "fill", c) /\ ~Ahead(Tail(s), "clear", c)
         /\ Head(s).st \notin {"write", "destroy"}
<1>0. Len(s) \in Nat \ {0} /\ DOMAIN s = 1..Len(s) /\ Head(s) = s[1] /\ s[1] \in Statements /\ 1 \in DOMAIN s
      /\ \A i \in DOMAIN s : i \in Nat /\ 1 <= i
  BY Tails
<1>1. Tail(s) \in Seq(Statements) /\ Len(Tail(s)) = Len(s) - 1 /\ DOMAIN Tail(s) = 1..(Len(s) - 1)
      /\ \A i \in DOMAIN Tail(s) : i + 1 \in DOMAIN s /\ 1 < i + 1 /\ Tail(s)[i] = s[i + 1]
  BY Tails
<1>2. \A j \in DOMAIN s : 1 < j => j - 1 \in DOMAIN Tail(s) /\ s[j] = Tail(s)[j - 1]
  BY Tails
<1>3. ~Has(Tail(s), "row")
  BY <1>0, <1>1 DEF Ordered, Locks, Has
<1>4. Head(s).st = "row" => \A c \in on : Ahead(Tail(s), "clear", c)
  BY <1>0, <1>2 DEF Ordered, Locks, Ahead
<1>5. Tail(s) # <<>> /\ Head(Tail(s)).st = "clear" => Head(s).st = "see" /\ Head(s).on = Head(Tail(s)).on
  <2>1. Tail(s) # <<>> => 2 \in DOMAIN s /\ Head(Tail(s)) = s[2]
    BY <1>0, <1>1
  <2>2. Clears(s, on)
    BY DEF Ordered
  <2>3. \A j \in DOMAIN s : j = 1 + 1 /\ s[j].st = "clear" => s[1].st = "see" /\ s[1].on = s[j].on
    BY <1>0, <2>2 DEF Clears
  <2> QED BY <1>0, <2>1, <2>3
<1>6. Head(s).st = "clear" => Head(s).on \subseteq on /\ \A c \in Head(s).on : Ahead(Tail(s), "fill", c)
  BY <1>0, <1>2 DEF Ordered, Clears, Ahead
<1>7. Head(s).st = "fill" => Head(s).on \subseteq on /\ \A c \in Head(s).on : ~Ahead(Tail(s), "fill", c) /\ ~Ahead(Tail(s), "clear", c)
  BY <1>0, <1>1 DEF Ordered, Fills, Ahead
<1>8. Head(s).st \notin {"write", "destroy"}
  BY <1>0 DEF Ordered, Fills
<1> QED BY <1>3, <1>4, <1>5, <1>6, <1>7, <1>8

-----------------------------------------------------------------------------
(* The programs, statement by statement. *)

Programmed(s, op, on) == s \in Seq(Statements) /\ Ordered(s, op, on) /\ Starts(s, op, on)

LEMMA NotEmpty ==
  ASSUME NEW s \in Seq(Statements), Len(s) # 0
  PROVE  s # <<>> /\ Head(s) = s[1] /\ DOMAIN s = 1..Len(s)
OBVIOUS

LEMMA LayoutEdit ==
  ASSUME NEW S, NEW a1 \in S, NEW a2 \in S, NEW a3 \in S, NEW a4 \in S, NEW a5 \in S,
         NEW P, P = Append((<<a1>> \o <<a2, a3, a4>>), a5)
  PROVE  /\ P \in Seq(S) /\ Len(P) = 5
         /\ P[1] = a1 /\ P[2] = a2 /\ P[3] = a3 /\ P[4] = a4 /\ P[5] = a5
OBVIOUS

LEMMA EditProgram ==
  ASSUME NEW C, NEW op, C \in SUBSET Children, op \in {"create", "update", "delete"}
  PROVE  Programmed(Program(op, C), op, C)
<1> DEFINE P == Program(op, C)
<1>1. P = Append((<<Statement("write", C)>> \o <<Statement("read", Elements), Statement("read", Filters), Statement("mirror", Children)>>),
           Statement("commit", {}))
  BY DEF Program, SyncDraftState
<1>2. /\ Statement("write", C) \in Statements
      /\ Statement("read", Elements) \in Statements
      /\ Statement("read", Filters) \in Statements
      /\ Statement("mirror", Children) \in Statements
      /\ Statement("commit", {}) \in Statements
  BY DashboardStoreAssumption DEF Statement, Statements, Children
<1> HIDE DEF P
<1>3. /\ P \in Seq(Statements) /\ Len(P) = 5
      /\ P[1] = Statement("write", C) /\ P[2] = Statement("read", Elements)
      /\ P[3] = Statement("read", Filters) /\ P[4] = Statement("mirror", Children)
      /\ P[5] = Statement("commit", {})
  BY <1>1, <1>2, LayoutEdit
<1>4. /\ P[1].st = "write" /\ P[1].on = C /\ P[2].st = "read" /\ P[2].on = Elements
      /\ P[3].st = "read" /\ P[3].on = Filters /\ P[4].st = "mirror" /\ P[4].on = Children
      /\ P[5].st = "commit" /\ P[5].on = {}
  BY <1>3 DEF Statement
<1>5. DOMAIN P = 1..5 /\ Head(P) = P[1] /\ P # <<>>
  <2>1. P \in Seq(Statements) /\ Len(P) = 5
    BY <1>3
  <2>2. Len(P) # 0
    BY <2>1
  <2> QED BY <2>1, <2>2, NotEmpty
<1>6. \A i \in DOMAIN P : i = 1 \/ i = 2 \/ i = 3 \/ i = 4 \/ i = 5
  BY <1>5
<1>7. Ends(P)
  BY <1>3, <1>4, <1>5, <1>6, DashboardStoreAssumption DEF Ends
<1>8. Drops(P)
  BY <1>3, <1>4, <1>5, <1>6, DashboardStoreAssumption DEF Drops
<1>9. Counts(P, op)
  BY <1>3, <1>4, <1>5, <1>6, DashboardStoreAssumption DEF Counts, Making
<1>10. Copies(P, op)
  BY <1>3, <1>4, <1>5, <1>6, DashboardStoreAssumption DEF Copies, Changing, Making, Children
<1>11. Has(P, "mirror") => \A c \in Children : Ahead(P, "read", c)
  BY <1>4, <1>5, <1>6 DEF Has, Ahead, Children
<1>12. Starts(P, op, C)
  BY <1>4, <1>5, <1>11 DEF Starts, Making, Replacing
<1> QED BY <1>3, <1>7, <1>8, <1>9, <1>10, <1>12 DEF Programmed, Ordered, P, Replacing

LEMMA LayoutReplaceFilters ==
  ASSUME NEW S, NEW a1 \in S, NEW a2 \in S, NEW a3 \in S, NEW a4 \in S, NEW a5 \in S, NEW a6 \in S,
         NEW a7 \in S,
         NEW P, P = Append((<<a1, a2, a3>> \o <<a4, a5, a6>>), a7)
  PROVE  /\ P \in Seq(S) /\ Len(P) = 7
         /\ P[1] = a1 /\ P[2] = a2 /\ P[3] = a3 /\ P[4] = a4 /\ P[5] = a5 /\ P[6] = a6
         /\ P[7] = a7
OBVIOUS

LEMMA ReplaceFiltersProgram ==
  ASSUME NEW C, NEW op, op = "replaceFilters", C = Filters, C # {}
  PROVE  Programmed(Program(op, C), op, C)
<1> DEFINE P == Program(op, C)
<1>1. P = Append((<<Statement("see", C), Statement("clear", C), Statement("fill", C)>> \o <<Statement("read", Elements), Statement("read", Filters), Statement("mirror", Children)>>),
           Statement("commit", {}))
  BY DEF Program, Replace, SyncDraftState
<1>2. /\ Statement("see", C) \in Statements
      /\ Statement("clear", C) \in Statements
      /\ Statement("fill", C) \in Statements
      /\ Statement("read", Elements) \in Statements
      /\ Statement("read", Filters) \in Statements
      /\ Statement("mirror", Children) \in Statements
      /\ Statement("commit", {}) \in Statements
  BY DashboardStoreAssumption DEF Statement, Statements, Children
<1> HIDE DEF P
<1>3. /\ P \in Seq(Statements) /\ Len(P) = 7
      /\ P[1] = Statement("see", C) /\ P[2] = Statement("clear", C)
      /\ P[3] = Statement("fill", C) /\ P[4] = Statement("read", Elements)
      /\ P[5] = Statement("read", Filters) /\ P[6] = Statement("mirror", Children)
      /\ P[7] = Statement("commit", {})
  BY <1>1, <1>2, LayoutReplaceFilters
<1>4. /\ P[1].st = "see" /\ P[1].on = C /\ P[2].st = "clear" /\ P[2].on = C
      /\ P[3].st = "fill" /\ P[3].on = C /\ P[4].st = "read" /\ P[4].on = Elements
      /\ P[5].st = "read" /\ P[5].on = Filters /\ P[6].st = "mirror" /\ P[6].on = Children
      /\ P[7].st = "commit" /\ P[7].on = {}
  BY <1>3 DEF Statement
<1>5. DOMAIN P = 1..7 /\ Head(P) = P[1] /\ P # <<>>
  <2>1. P \in Seq(Statements) /\ Len(P) = 7
    BY <1>3
  <2>2. Len(P) # 0
    BY <2>1
  <2> QED BY <2>1, <2>2, NotEmpty
<1>6. \A i \in DOMAIN P : i = 1 \/ i = 2 \/ i = 3 \/ i = 4 \/ i = 5 \/ i = 6 \/ i = 7
  BY <1>5
<1>7. Ends(P)
  BY <1>3, <1>4, <1>5, <1>6, DashboardStoreAssumption DEF Ends
<1>8. Drops(P)
  BY <1>3, <1>4, <1>5, <1>6, DashboardStoreAssumption DEF Drops
<1>9. Counts(P, op)
  BY <1>3, <1>4, <1>5, <1>6, DashboardStoreAssumption DEF Counts, Making
<1>10. Copies(P, op)
  BY <1>3, <1>4, <1>5, <1>6, DashboardStoreAssumption DEF Copies, Changing, Making, Children
<1>11. Has(P, "mirror") => \A c \in Children : Ahead(P, "read", c)
  BY <1>4, <1>5, <1>6 DEF Has, Ahead, Children
<1>12. Starts(P, op, C)
  BY <1>4, <1>5, <1>11 DEF Starts, Making, Replacing
<1> QED BY <1>3, <1>7, <1>8, <1>9, <1>10, <1>12 DEF Programmed, Ordered, P, Replacing

LEMMA LayoutReplaceNoFilters ==
  ASSUME NEW S, NEW a1 \in S, NEW a2 \in S, NEW a3 \in S, NEW a4 \in S,
         NEW P, P = Append((<<>> \o <<a1, a2, a3>>), a4)
  PROVE  /\ P \in Seq(S) /\ Len(P) = 4
         /\ P[1] = a1 /\ P[2] = a2 /\ P[3] = a3 /\ P[4] = a4
OBVIOUS

LEMMA ReplaceNoFiltersProgram ==
  ASSUME NEW C, NEW op, op = "replaceFilters", C = {}
  PROVE  Programmed(Program(op, C), op, C)
<1> DEFINE P == Program(op, C)
<1>1. P = Append((<<>> \o <<Statement("read", Elements), Statement("read", Filters), Statement("mirror", Children)>>),
           Statement("commit", {}))
  BY DEF Program, Replace, SyncDraftState
<1>2. /\ Statement("read", Elements) \in Statements
      /\ Statement("read", Filters) \in Statements
      /\ Statement("mirror", Children) \in Statements
      /\ Statement("commit", {}) \in Statements
  BY DashboardStoreAssumption DEF Statement, Statements, Children
<1> HIDE DEF P
<1>3. /\ P \in Seq(Statements) /\ Len(P) = 4
      /\ P[1] = Statement("read", Elements) /\ P[2] = Statement("read", Filters)
      /\ P[3] = Statement("mirror", Children) /\ P[4] = Statement("commit", {})
  BY <1>1, <1>2, LayoutReplaceNoFilters
<1>4. /\ P[1].st = "read" /\ P[1].on = Elements /\ P[2].st = "read" /\ P[2].on = Filters
      /\ P[3].st = "mirror" /\ P[3].on = Children /\ P[4].st = "commit" /\ P[4].on = {}
  BY <1>3 DEF Statement
<1>5. DOMAIN P = 1..4 /\ Head(P) = P[1] /\ P # <<>>
  <2>1. P \in Seq(Statements) /\ Len(P) = 4
    BY <1>3
  <2>2. Len(P) # 0
    BY <2>1
  <2> QED BY <2>1, <2>2, NotEmpty
<1>6. \A i \in DOMAIN P : i = 1 \/ i = 2 \/ i = 3 \/ i = 4
  BY <1>5
<1>7. Ends(P)
  BY <1>3, <1>4, <1>5, <1>6, DashboardStoreAssumption DEF Ends
<1>8. Drops(P)
  BY <1>3, <1>4, <1>5, <1>6, DashboardStoreAssumption DEF Drops
<1>9. Counts(P, op)
  BY <1>3, <1>4, <1>5, <1>6, DashboardStoreAssumption DEF Counts, Making
<1>10. Copies(P, op)
  BY <1>3, <1>4, <1>5, <1>6, DashboardStoreAssumption DEF Copies, Changing, Making, Children
<1>11. Has(P, "mirror") => \A c \in Children : Ahead(P, "read", c)
  BY <1>4, <1>5, <1>6 DEF Has, Ahead, Children
<1>12. Starts(P, op, C)
  BY <1>4, <1>5, <1>11 DEF Starts, Making, Replacing
<1> QED BY <1>3, <1>7, <1>8, <1>9, <1>10, <1>12 DEF Programmed, Ordered, P, Replacing

LEMMA LayoutUpdateBoth ==
  ASSUME NEW S, NEW a1 \in S, NEW a2 \in S, NEW a3 \in S, NEW a4 \in S, NEW a5 \in S, NEW a6 \in S,
         NEW a7 \in S, NEW a8 \in S, NEW a9 \in S, NEW a10 \in S, NEW a11 \in S,
         NEW P, P = Append((((<<a1>> \o <<a2, a3, a4>>) \o <<a5, a6, a7>>) \o <<a8, a9, a10>>), a11)
  PROVE  /\ P \in Seq(S) /\ Len(P) = 11
         /\ P[1] = a1 /\ P[2] = a2 /\ P[3] = a3 /\ P[4] = a4 /\ P[5] = a5 /\ P[6] = a6
         /\ P[7] = a7 /\ P[8] = a8 /\ P[9] = a9 /\ P[10] = a10 /\ P[11] = a11
OBVIOUS

LEMMA UpdateBothProgram ==
  ASSUME NEW C, NEW op, op = "updateDashboard", C = Children, Elements # {}, Filters # {}, C \cap Elements = Elements, C \cap Filters = Filters
  PROVE  Programmed(Program(op, C), op, C)
<1> DEFINE P == Program(op, C)
<1>1. P = Append((((<<Statement("row", {})>> \o <<Statement("see", Elements), Statement("clear", Elements), Statement("fill", Elements)>>) \o <<Statement("see", Filters), Statement("clear", Filters), Statement("fill", Filters)>>) \o <<Statement("read", Elements), Statement("read", Filters), Statement("mirror", Children)>>),
           Statement("commit", {}))
  BY DEF Program, Replace, SyncDraftState, Children
<1>2. /\ Statement("row", {}) \in Statements
      /\ Statement("see", Elements) \in Statements
      /\ Statement("clear", Elements) \in Statements
      /\ Statement("fill", Elements) \in Statements
      /\ Statement("see", Filters) \in Statements
      /\ Statement("clear", Filters) \in Statements
      /\ Statement("fill", Filters) \in Statements
      /\ Statement("read", Elements) \in Statements
      /\ Statement("read", Filters) \in Statements
      /\ Statement("mirror", Children) \in Statements
      /\ Statement("commit", {}) \in Statements
  BY DashboardStoreAssumption DEF Statement, Statements, Children
<1> HIDE DEF P
<1>3. /\ P \in Seq(Statements) /\ Len(P) = 11
      /\ P[1] = Statement("row", {}) /\ P[2] = Statement("see", Elements)
      /\ P[3] = Statement("clear", Elements) /\ P[4] = Statement("fill", Elements)
      /\ P[5] = Statement("see", Filters) /\ P[6] = Statement("clear", Filters)
      /\ P[7] = Statement("fill", Filters) /\ P[8] = Statement("read", Elements)
      /\ P[9] = Statement("read", Filters) /\ P[10] = Statement("mirror", Children)
      /\ P[11] = Statement("commit", {})
  BY <1>1, <1>2, LayoutUpdateBoth
<1>4. /\ P[1].st = "row" /\ P[1].on = {} /\ P[2].st = "see" /\ P[2].on = Elements
      /\ P[3].st = "clear" /\ P[3].on = Elements /\ P[4].st = "fill" /\ P[4].on = Elements
      /\ P[5].st = "see" /\ P[5].on = Filters /\ P[6].st = "clear" /\ P[6].on = Filters
      /\ P[7].st = "fill" /\ P[7].on = Filters /\ P[8].st = "read" /\ P[8].on = Elements
      /\ P[9].st = "read" /\ P[9].on = Filters /\ P[10].st = "mirror" /\ P[10].on = Children
      /\ P[11].st = "commit" /\ P[11].on = {}
  BY <1>3 DEF Statement
<1>5. DOMAIN P = 1..11 /\ Head(P) = P[1] /\ P # <<>>
  <2>1. P \in Seq(Statements) /\ Len(P) = 11
    BY <1>3
  <2>2. Len(P) # 0
    BY <2>1
  <2> QED BY <2>1, <2>2, NotEmpty
<1>6. \A i \in DOMAIN P : i = 1 \/ i = 2 \/ i = 3 \/ i = 4 \/ i = 5 \/ i = 6 \/ i = 7 \/ i = 8 \/ i = 9 \/ i = 10 \/ i = 11
  BY <1>5
<1>7. Ends(P)
  BY <1>3, <1>4, <1>5, <1>6, DashboardStoreAssumption DEF Ends
<1>8. Drops(P)
  BY <1>3, <1>4, <1>5, <1>6, DashboardStoreAssumption DEF Drops
<1>9. Counts(P, op)
  BY <1>3, <1>4, <1>5, <1>6, DashboardStoreAssumption DEF Counts, Making
<1>10. Copies(P, op)
  BY <1>3, <1>4, <1>5, <1>6, DashboardStoreAssumption DEF Copies, Changing, Making, Children
<1>11. Locks(P, C)
  BY <1>3, <1>4, <1>5, <1>6, DashboardStoreAssumption DEF Locks, Replacing, Children
<1>12. Clears(P, C)
  BY <1>3, <1>4, <1>5, <1>6, DashboardStoreAssumption DEF Clears, Replacing, Children
<1>13. Fills(P, C)
  BY <1>3, <1>4, <1>5, <1>6, DashboardStoreAssumption DEF Fills, Replacing, Children
<1>14. Has(P, "mirror") => \A c \in Children : Ahead(P, "read", c)
  BY <1>4, <1>5, <1>6 DEF Has, Ahead, Children
<1>15. Starts(P, op, C)
  BY <1>4, <1>5, <1>14 DEF Starts, Making, Replacing
<1> QED BY <1>3, <1>7, <1>8, <1>9, <1>10, <1>11, <1>12, <1>13, <1>15 DEF Programmed, Ordered, P

LEMMA LayoutUpdateElements ==
  ASSUME NEW S, NEW a1 \in S, NEW a2 \in S, NEW a3 \in S, NEW a4 \in S, NEW a5 \in S, NEW a6 \in S,
         NEW a7 \in S, NEW a8 \in S,
         NEW P, P = Append((((<<a1>> \o <<a2, a3, a4>>) \o <<>>) \o <<a5, a6, a7>>), a8)
  PROVE  /\ P \in Seq(S) /\ Len(P) = 8
         /\ P[1] = a1 /\ P[2] = a2 /\ P[3] = a3 /\ P[4] = a4 /\ P[5] = a5 /\ P[6] = a6
         /\ P[7] = a7 /\ P[8] = a8
OBVIOUS

LEMMA UpdateElementsProgram ==
  ASSUME NEW C, NEW op, op = "updateDashboard", C = Elements, Elements # {}, C \cap Elements = Elements, C \cap Filters = {}
  PROVE  Programmed(Program(op, C), op, C)
<1> DEFINE P == Program(op, C)
<1>1. P = Append((((<<Statement("row", {})>> \o <<Statement("see", Elements), Statement("clear", Elements), Statement("fill", Elements)>>) \o <<>>) \o <<Statement("read", Elements), Statement("read", Filters), Statement("mirror", Children)>>),
           Statement("commit", {}))
  BY DEF Program, Replace, SyncDraftState
<1>2. /\ Statement("row", {}) \in Statements
      /\ Statement("see", Elements) \in Statements
      /\ Statement("clear", Elements) \in Statements
      /\ Statement("fill", Elements) \in Statements
      /\ Statement("read", Elements) \in Statements
      /\ Statement("read", Filters) \in Statements
      /\ Statement("mirror", Children) \in Statements
      /\ Statement("commit", {}) \in Statements
  BY DashboardStoreAssumption DEF Statement, Statements, Children
<1> HIDE DEF P
<1>3. /\ P \in Seq(Statements) /\ Len(P) = 8
      /\ P[1] = Statement("row", {}) /\ P[2] = Statement("see", Elements)
      /\ P[3] = Statement("clear", Elements) /\ P[4] = Statement("fill", Elements)
      /\ P[5] = Statement("read", Elements) /\ P[6] = Statement("read", Filters)
      /\ P[7] = Statement("mirror", Children) /\ P[8] = Statement("commit", {})
  BY <1>1, <1>2, LayoutUpdateElements
<1>4. /\ P[1].st = "row" /\ P[1].on = {} /\ P[2].st = "see" /\ P[2].on = Elements
      /\ P[3].st = "clear" /\ P[3].on = Elements /\ P[4].st = "fill" /\ P[4].on = Elements
      /\ P[5].st = "read" /\ P[5].on = Elements /\ P[6].st = "read" /\ P[6].on = Filters
      /\ P[7].st = "mirror" /\ P[7].on = Children /\ P[8].st = "commit" /\ P[8].on = {}
  BY <1>3 DEF Statement
<1>5. DOMAIN P = 1..8 /\ Head(P) = P[1] /\ P # <<>>
  <2>1. P \in Seq(Statements) /\ Len(P) = 8
    BY <1>3
  <2>2. Len(P) # 0
    BY <2>1
  <2> QED BY <2>1, <2>2, NotEmpty
<1>6. \A i \in DOMAIN P : i = 1 \/ i = 2 \/ i = 3 \/ i = 4 \/ i = 5 \/ i = 6 \/ i = 7 \/ i = 8
  BY <1>5
<1>7. Ends(P)
  BY <1>3, <1>4, <1>5, <1>6, DashboardStoreAssumption DEF Ends
<1>8. Drops(P)
  BY <1>3, <1>4, <1>5, <1>6, DashboardStoreAssumption DEF Drops
<1>9. Counts(P, op)
  BY <1>3, <1>4, <1>5, <1>6, DashboardStoreAssumption DEF Counts, Making
<1>10. Copies(P, op)
  BY <1>3, <1>4, <1>5, <1>6, DashboardStoreAssumption DEF Copies, Changing, Making, Children
<1>11. Locks(P, C)
  BY <1>3, <1>4, <1>5, <1>6, DashboardStoreAssumption DEF Locks, Replacing, Children
<1>12. Clears(P, C)
  BY <1>3, <1>4, <1>5, <1>6, DashboardStoreAssumption DEF Clears, Replacing, Children
<1>13. Fills(P, C)
  BY <1>3, <1>4, <1>5, <1>6, DashboardStoreAssumption DEF Fills, Replacing, Children
<1>14. Has(P, "mirror") => \A c \in Children : Ahead(P, "read", c)
  BY <1>4, <1>5, <1>6 DEF Has, Ahead, Children
<1>15. Starts(P, op, C)
  BY <1>4, <1>5, <1>14 DEF Starts, Making, Replacing
<1> QED BY <1>3, <1>7, <1>8, <1>9, <1>10, <1>11, <1>12, <1>13, <1>15 DEF Programmed, Ordered, P

LEMMA LayoutUpdateFilters ==
  ASSUME NEW S, NEW a1 \in S, NEW a2 \in S, NEW a3 \in S, NEW a4 \in S, NEW a5 \in S, NEW a6 \in S,
         NEW a7 \in S, NEW a8 \in S,
         NEW P, P = Append((((<<a1>> \o <<>>) \o <<a2, a3, a4>>) \o <<a5, a6, a7>>), a8)
  PROVE  /\ P \in Seq(S) /\ Len(P) = 8
         /\ P[1] = a1 /\ P[2] = a2 /\ P[3] = a3 /\ P[4] = a4 /\ P[5] = a5 /\ P[6] = a6
         /\ P[7] = a7 /\ P[8] = a8
OBVIOUS

LEMMA UpdateFiltersProgram ==
  ASSUME NEW C, NEW op, op = "updateDashboard", C = Filters, Filters # {}, C \cap Elements = {}, C \cap Filters = Filters
  PROVE  Programmed(Program(op, C), op, C)
<1> DEFINE P == Program(op, C)
<1>1. P = Append((((<<Statement("row", {})>> \o <<>>) \o <<Statement("see", Filters), Statement("clear", Filters), Statement("fill", Filters)>>) \o <<Statement("read", Elements), Statement("read", Filters), Statement("mirror", Children)>>),
           Statement("commit", {}))
  BY DEF Program, Replace, SyncDraftState
<1>2. /\ Statement("row", {}) \in Statements
      /\ Statement("see", Filters) \in Statements
      /\ Statement("clear", Filters) \in Statements
      /\ Statement("fill", Filters) \in Statements
      /\ Statement("read", Elements) \in Statements
      /\ Statement("read", Filters) \in Statements
      /\ Statement("mirror", Children) \in Statements
      /\ Statement("commit", {}) \in Statements
  BY DashboardStoreAssumption DEF Statement, Statements, Children
<1> HIDE DEF P
<1>3. /\ P \in Seq(Statements) /\ Len(P) = 8
      /\ P[1] = Statement("row", {}) /\ P[2] = Statement("see", Filters)
      /\ P[3] = Statement("clear", Filters) /\ P[4] = Statement("fill", Filters)
      /\ P[5] = Statement("read", Elements) /\ P[6] = Statement("read", Filters)
      /\ P[7] = Statement("mirror", Children) /\ P[8] = Statement("commit", {})
  BY <1>1, <1>2, LayoutUpdateFilters
<1>4. /\ P[1].st = "row" /\ P[1].on = {} /\ P[2].st = "see" /\ P[2].on = Filters
      /\ P[3].st = "clear" /\ P[3].on = Filters /\ P[4].st = "fill" /\ P[4].on = Filters
      /\ P[5].st = "read" /\ P[5].on = Elements /\ P[6].st = "read" /\ P[6].on = Filters
      /\ P[7].st = "mirror" /\ P[7].on = Children /\ P[8].st = "commit" /\ P[8].on = {}
  BY <1>3 DEF Statement
<1>5. DOMAIN P = 1..8 /\ Head(P) = P[1] /\ P # <<>>
  <2>1. P \in Seq(Statements) /\ Len(P) = 8
    BY <1>3
  <2>2. Len(P) # 0
    BY <2>1
  <2> QED BY <2>1, <2>2, NotEmpty
<1>6. \A i \in DOMAIN P : i = 1 \/ i = 2 \/ i = 3 \/ i = 4 \/ i = 5 \/ i = 6 \/ i = 7 \/ i = 8
  BY <1>5
<1>7. Ends(P)
  BY <1>3, <1>4, <1>5, <1>6, DashboardStoreAssumption DEF Ends
<1>8. Drops(P)
  BY <1>3, <1>4, <1>5, <1>6, DashboardStoreAssumption DEF Drops
<1>9. Counts(P, op)
  BY <1>3, <1>4, <1>5, <1>6, DashboardStoreAssumption DEF Counts, Making
<1>10. Copies(P, op)
  BY <1>3, <1>4, <1>5, <1>6, DashboardStoreAssumption DEF Copies, Changing, Making, Children
<1>11. Locks(P, C)
  BY <1>3, <1>4, <1>5, <1>6, DashboardStoreAssumption DEF Locks, Replacing, Children
<1>12. Clears(P, C)
  BY <1>3, <1>4, <1>5, <1>6, DashboardStoreAssumption DEF Clears, Replacing, Children
<1>13. Fills(P, C)
  BY <1>3, <1>4, <1>5, <1>6, DashboardStoreAssumption DEF Fills, Replacing, Children
<1>14. Has(P, "mirror") => \A c \in Children : Ahead(P, "read", c)
  BY <1>4, <1>5, <1>6 DEF Has, Ahead, Children
<1>15. Starts(P, op, C)
  BY <1>4, <1>5, <1>14 DEF Starts, Making, Replacing
<1> QED BY <1>3, <1>7, <1>8, <1>9, <1>10, <1>11, <1>12, <1>13, <1>15 DEF Programmed, Ordered, P

LEMMA LayoutUpdateRowOnly ==
  ASSUME NEW S, NEW a1 \in S, NEW a2 \in S, NEW a3 \in S, NEW a4 \in S, NEW a5 \in S,
         NEW P, P = Append((((<<a1>> \o <<>>) \o <<>>) \o <<a2, a3, a4>>), a5)
  PROVE  /\ P \in Seq(S) /\ Len(P) = 5
         /\ P[1] = a1 /\ P[2] = a2 /\ P[3] = a3 /\ P[4] = a4 /\ P[5] = a5
OBVIOUS

LEMMA UpdateRowOnlyProgram ==
  ASSUME NEW C, NEW op, op = "updateDashboard", C = {}
  PROVE  Programmed(Program(op, C), op, C)
<1> DEFINE P == Program(op, C)
<1>1. P = Append((((<<Statement("row", {})>> \o <<>>) \o <<>>) \o <<Statement("read", Elements), Statement("read", Filters), Statement("mirror", Children)>>),
           Statement("commit", {}))
  BY DEF Program, Replace, SyncDraftState
<1>2. /\ Statement("row", {}) \in Statements
      /\ Statement("read", Elements) \in Statements
      /\ Statement("read", Filters) \in Statements
      /\ Statement("mirror", Children) \in Statements
      /\ Statement("commit", {}) \in Statements
  BY DashboardStoreAssumption DEF Statement, Statements, Children
<1> HIDE DEF P
<1>3. /\ P \in Seq(Statements) /\ Len(P) = 5
      /\ P[1] = Statement("row", {}) /\ P[2] = Statement("read", Elements)
      /\ P[3] = Statement("read", Filters) /\ P[4] = Statement("mirror", Children)
      /\ P[5] = Statement("commit", {})
  BY <1>1, <1>2, LayoutUpdateRowOnly
<1>4. /\ P[1].st = "row" /\ P[1].on = {} /\ P[2].st = "read" /\ P[2].on = Elements
      /\ P[3].st = "read" /\ P[3].on = Filters /\ P[4].st = "mirror" /\ P[4].on = Children
      /\ P[5].st = "commit" /\ P[5].on = {}
  BY <1>3 DEF Statement
<1>5. DOMAIN P = 1..5 /\ Head(P) = P[1] /\ P # <<>>
  <2>1. P \in Seq(Statements) /\ Len(P) = 5
    BY <1>3
  <2>2. Len(P) # 0
    BY <2>1
  <2> QED BY <2>1, <2>2, NotEmpty
<1>6. \A i \in DOMAIN P : i = 1 \/ i = 2 \/ i = 3 \/ i = 4 \/ i = 5
  BY <1>5
<1>7. Ends(P)
  BY <1>3, <1>4, <1>5, <1>6, DashboardStoreAssumption DEF Ends
<1>8. Drops(P)
  BY <1>3, <1>4, <1>5, <1>6, DashboardStoreAssumption DEF Drops
<1>9. Counts(P, op)
  BY <1>3, <1>4, <1>5, <1>6, DashboardStoreAssumption DEF Counts, Making
<1>10. Copies(P, op)
  BY <1>3, <1>4, <1>5, <1>6, DashboardStoreAssumption DEF Copies, Changing, Making, Children
<1>11. Locks(P, C)
  BY <1>3, <1>4, <1>5, <1>6, DashboardStoreAssumption DEF Locks, Replacing, Children
<1>12. Clears(P, C)
  BY <1>3, <1>4, <1>5, <1>6, DashboardStoreAssumption DEF Clears, Replacing, Children
<1>13. Fills(P, C)
  BY <1>3, <1>4, <1>5, <1>6, DashboardStoreAssumption DEF Fills, Replacing, Children
<1>14. Has(P, "mirror") => \A c \in Children : Ahead(P, "read", c)
  BY <1>4, <1>5, <1>6 DEF Has, Ahead, Children
<1>15. Starts(P, op, C)
  BY <1>4, <1>5, <1>14 DEF Starts, Making, Replacing
<1> QED BY <1>3, <1>7, <1>8, <1>9, <1>10, <1>11, <1>12, <1>13, <1>15 DEF Programmed, Ordered, P

LEMMA LayoutRestore ==
  ASSUME NEW S, NEW a1 \in S, NEW a2 \in S, NEW a3 \in S, NEW a4 \in S, NEW a5 \in S, NEW a6 \in S,
         NEW a7 \in S, NEW a8 \in S, NEW a9 \in S, NEW a10 \in S, NEW a11 \in S, NEW a12 \in S,
         NEW P, P = Append(((<<a1, a2, a3, a4, a5, a6, a7>> \o <<a8, a9, a10>>) \o <<a11>>), a12)
  PROVE  /\ P \in Seq(S) /\ Len(P) = 12
         /\ P[1] = a1 /\ P[2] = a2 /\ P[3] = a3 /\ P[4] = a4 /\ P[5] = a5 /\ P[6] = a6
         /\ P[7] = a7 /\ P[8] = a8 /\ P[9] = a9 /\ P[10] = a10 /\ P[11] = a11 /\ P[12] = a12
OBVIOUS

LEMMA RestoreProgram ==
  ASSUME NEW C, NEW op, op = "restore", C = Children
  PROVE  Programmed(Program(op, C), op, C)
<1> DEFINE P == Program(op, C)
<1>1. P = Append(((<<Statement("row", {}), Statement("see", Elements), Statement("clear", Elements), Statement("see", Filters), Statement("clear", Filters), Statement("fill", Elements), Statement("fill", Filters)>> \o <<Statement("read", Elements), Statement("read", Filters), Statement("mirror", Children)>>) \o <<Statement("point", {})>>),
           Statement("commit", {}))
  BY DEF Program, ReplaceFromSnapshot, SyncDraftState
<1>2. /\ Statement("row", {}) \in Statements
      /\ Statement("see", Elements) \in Statements
      /\ Statement("clear", Elements) \in Statements
      /\ Statement("see", Filters) \in Statements
      /\ Statement("clear", Filters) \in Statements
      /\ Statement("fill", Elements) \in Statements
      /\ Statement("fill", Filters) \in Statements
      /\ Statement("read", Elements) \in Statements
      /\ Statement("read", Filters) \in Statements
      /\ Statement("mirror", Children) \in Statements
      /\ Statement("point", {}) \in Statements
      /\ Statement("commit", {}) \in Statements
  BY DashboardStoreAssumption DEF Statement, Statements, Children
<1> HIDE DEF P
<1>3. /\ P \in Seq(Statements) /\ Len(P) = 12
      /\ P[1] = Statement("row", {}) /\ P[2] = Statement("see", Elements)
      /\ P[3] = Statement("clear", Elements) /\ P[4] = Statement("see", Filters)
      /\ P[5] = Statement("clear", Filters) /\ P[6] = Statement("fill", Elements)
      /\ P[7] = Statement("fill", Filters) /\ P[8] = Statement("read", Elements)
      /\ P[9] = Statement("read", Filters) /\ P[10] = Statement("mirror", Children)
      /\ P[11] = Statement("point", {}) /\ P[12] = Statement("commit", {})
  BY <1>1, <1>2, LayoutRestore
<1>4. /\ P[1].st = "row" /\ P[1].on = {} /\ P[2].st = "see" /\ P[2].on = Elements
      /\ P[3].st = "clear" /\ P[3].on = Elements /\ P[4].st = "see" /\ P[4].on = Filters
      /\ P[5].st = "clear" /\ P[5].on = Filters /\ P[6].st = "fill" /\ P[6].on = Elements
      /\ P[7].st = "fill" /\ P[7].on = Filters /\ P[8].st = "read" /\ P[8].on = Elements
      /\ P[9].st = "read" /\ P[9].on = Filters /\ P[10].st = "mirror" /\ P[10].on = Children
      /\ P[11].st = "point" /\ P[11].on = {} /\ P[12].st = "commit" /\ P[12].on = {}
  BY <1>3 DEF Statement
<1>5. DOMAIN P = 1..12 /\ Head(P) = P[1] /\ P # <<>>
  <2>1. P \in Seq(Statements) /\ Len(P) = 12
    BY <1>3
  <2>2. Len(P) # 0
    BY <2>1
  <2> QED BY <2>1, <2>2, NotEmpty
<1>6. \A i \in DOMAIN P : i = 1 \/ i = 2 \/ i = 3 \/ i = 4 \/ i = 5 \/ i = 6 \/ i = 7 \/ i = 8 \/ i = 9 \/ i = 10 \/ i = 11 \/ i = 12
  BY <1>5
<1>7. Ends(P)
  BY <1>3, <1>4, <1>5, <1>6, DashboardStoreAssumption DEF Ends
<1>8. Drops(P)
  BY <1>3, <1>4, <1>5, <1>6, DashboardStoreAssumption DEF Drops
<1>9. Counts(P, op)
  BY <1>3, <1>4, <1>5, <1>6, DashboardStoreAssumption DEF Counts, Making
<1>10. Copies(P, op)
  BY <1>3, <1>4, <1>5, <1>6, DashboardStoreAssumption DEF Copies, Changing, Making, Children
<1>11. Locks(P, C)
  BY <1>3, <1>4, <1>5, <1>6, DashboardStoreAssumption DEF Locks, Replacing, Children
<1>12. Clears(P, C)
  BY <1>3, <1>4, <1>5, <1>6, DashboardStoreAssumption DEF Clears, Replacing, Children
<1>13. Fills(P, C)
  BY <1>3, <1>4, <1>5, <1>6, DashboardStoreAssumption DEF Fills, Replacing, Children
<1>14. Has(P, "mirror") => \A c \in Children : Ahead(P, "read", c)
  BY <1>4, <1>5, <1>6 DEF Has, Ahead, Children
<1>15. Starts(P, op, C)
  BY <1>4, <1>5, <1>14 DEF Starts, Making, Replacing
<1> QED BY <1>3, <1>7, <1>8, <1>9, <1>10, <1>11, <1>12, <1>13, <1>15 DEF Programmed, Ordered, P

LEMMA LayoutRestoreUnpublished ==
  ASSUME NEW S, NEW a1 \in S, NEW a2 \in S, NEW a3 \in S, NEW a4 \in S, NEW a5 \in S, NEW a6 \in S,
         NEW a7 \in S, NEW a8 \in S, NEW a9 \in S, NEW a10 \in S, NEW a11 \in S,
         NEW P, P = Append((<<a1, a2, a3, a4, a5, a6, a7>> \o <<a8, a9, a10>>), a11)
  PROVE  /\ P \in Seq(S) /\ Len(P) = 11
         /\ P[1] = a1 /\ P[2] = a2 /\ P[3] = a3 /\ P[4] = a4 /\ P[5] = a5 /\ P[6] = a6
         /\ P[7] = a7 /\ P[8] = a8 /\ P[9] = a9 /\ P[10] = a10 /\ P[11] = a11
OBVIOUS

LEMMA RestoreUnpublishedProgram ==
  ASSUME NEW C, NEW op, op = "restoreUnpublished", C = Children
  PROVE  Programmed(Program(op, C), op, C)
<1> DEFINE P == Program(op, C)
<1>1. P = Append((<<Statement("row", {}), Statement("see", Elements), Statement("clear", Elements), Statement("see", Filters), Statement("clear", Filters), Statement("fill", Elements), Statement("fill", Filters)>> \o <<Statement("read", Elements), Statement("read", Filters), Statement("mirror", Children)>>),
           Statement("commit", {}))
  BY DEF Program, ReplaceFromSnapshot, SyncDraftState
<1>2. /\ Statement("row", {}) \in Statements
      /\ Statement("see", Elements) \in Statements
      /\ Statement("clear", Elements) \in Statements
      /\ Statement("see", Filters) \in Statements
      /\ Statement("clear", Filters) \in Statements
      /\ Statement("fill", Elements) \in Statements
      /\ Statement("fill", Filters) \in Statements
      /\ Statement("read", Elements) \in Statements
      /\ Statement("read", Filters) \in Statements
      /\ Statement("mirror", Children) \in Statements
      /\ Statement("commit", {}) \in Statements
  BY DashboardStoreAssumption DEF Statement, Statements, Children
<1> HIDE DEF P
<1>3. /\ P \in Seq(Statements) /\ Len(P) = 11
      /\ P[1] = Statement("row", {}) /\ P[2] = Statement("see", Elements)
      /\ P[3] = Statement("clear", Elements) /\ P[4] = Statement("see", Filters)
      /\ P[5] = Statement("clear", Filters) /\ P[6] = Statement("fill", Elements)
      /\ P[7] = Statement("fill", Filters) /\ P[8] = Statement("read", Elements)
      /\ P[9] = Statement("read", Filters) /\ P[10] = Statement("mirror", Children)
      /\ P[11] = Statement("commit", {})
  BY <1>1, <1>2, LayoutRestoreUnpublished
<1>4. /\ P[1].st = "row" /\ P[1].on = {} /\ P[2].st = "see" /\ P[2].on = Elements
      /\ P[3].st = "clear" /\ P[3].on = Elements /\ P[4].st = "see" /\ P[4].on = Filters
      /\ P[5].st = "clear" /\ P[5].on = Filters /\ P[6].st = "fill" /\ P[6].on = Elements
      /\ P[7].st = "fill" /\ P[7].on = Filters /\ P[8].st = "read" /\ P[8].on = Elements
      /\ P[9].st = "read" /\ P[9].on = Filters /\ P[10].st = "mirror" /\ P[10].on = Children
      /\ P[11].st = "commit" /\ P[11].on = {}
  BY <1>3 DEF Statement
<1>5. DOMAIN P = 1..11 /\ Head(P) = P[1] /\ P # <<>>
  <2>1. P \in Seq(Statements) /\ Len(P) = 11
    BY <1>3
  <2>2. Len(P) # 0
    BY <2>1
  <2> QED BY <2>1, <2>2, NotEmpty
<1>6. \A i \in DOMAIN P : i = 1 \/ i = 2 \/ i = 3 \/ i = 4 \/ i = 5 \/ i = 6 \/ i = 7 \/ i = 8 \/ i = 9 \/ i = 10 \/ i = 11
  BY <1>5
<1>7. Ends(P)
  BY <1>3, <1>4, <1>5, <1>6, DashboardStoreAssumption DEF Ends
<1>8. Drops(P)
  BY <1>3, <1>4, <1>5, <1>6, DashboardStoreAssumption DEF Drops
<1>9. Counts(P, op)
  BY <1>3, <1>4, <1>5, <1>6, DashboardStoreAssumption DEF Counts, Making
<1>10. Copies(P, op)
  BY <1>3, <1>4, <1>5, <1>6, DashboardStoreAssumption DEF Copies, Changing, Making, Children
<1>11. Locks(P, C)
  BY <1>3, <1>4, <1>5, <1>6, DashboardStoreAssumption DEF Locks, Replacing, Children
<1>12. Clears(P, C)
  BY <1>3, <1>4, <1>5, <1>6, DashboardStoreAssumption DEF Clears, Replacing, Children
<1>13. Fills(P, C)
  BY <1>3, <1>4, <1>5, <1>6, DashboardStoreAssumption DEF Fills, Replacing, Children
<1>14. Has(P, "mirror") => \A c \in Children : Ahead(P, "read", c)
  BY <1>4, <1>5, <1>6 DEF Has, Ahead, Children
<1>15. Starts(P, op, C)
  BY <1>4, <1>5, <1>14 DEF Starts, Making, Replacing
<1> QED BY <1>3, <1>7, <1>8, <1>9, <1>10, <1>11, <1>12, <1>13, <1>15 DEF Programmed, Ordered, P

LEMMA LayoutPublish ==
  ASSUME NEW S, NEW a1 \in S, NEW a2 \in S, NEW a3 \in S, NEW a4 \in S, NEW a5 \in S, NEW a6 \in S,
         NEW a7 \in S, NEW a8 \in S, NEW a9 \in S,
         NEW P, P = Append(((<<a1, a2, a3, a4>> \o <<a5>>) \o <<a6, a7, a8>>), a9)
  PROVE  /\ P \in Seq(S) /\ Len(P) = 9
         /\ P[1] = a1 /\ P[2] = a2 /\ P[3] = a3 /\ P[4] = a4 /\ P[5] = a5 /\ P[6] = a6
         /\ P[7] = a7 /\ P[8] = a8 /\ P[9] = a9
OBVIOUS

LEMMA PublishProgram ==
  ASSUME NEW C, NEW op, op = "publish"
  PROVE  Programmed(Program(op, C), op, C)
<1> DEFINE P == Program(op, C)
<1>1. P = Append(((<<Statement("read", Elements), Statement("read", Filters), Statement("last", {}), Statement("number", {})>> \o <<Statement("point", {})>>) \o <<Statement("read", Elements), Statement("read", Filters), Statement("mirror", Children)>>),
           Statement("commit", {}))
  BY DEF Program, CreateVersion, SyncDraftState
<1>2. /\ Statement("read", Elements) \in Statements
      /\ Statement("read", Filters) \in Statements
      /\ Statement("last", {}) \in Statements
      /\ Statement("number", {}) \in Statements
      /\ Statement("point", {}) \in Statements
      /\ Statement("mirror", Children) \in Statements
      /\ Statement("commit", {}) \in Statements
  BY DashboardStoreAssumption DEF Statement, Statements, Children
<1> HIDE DEF P
<1>3. /\ P \in Seq(Statements) /\ Len(P) = 9
      /\ P[1] = Statement("read", Elements) /\ P[2] = Statement("read", Filters)
      /\ P[3] = Statement("last", {}) /\ P[4] = Statement("number", {})
      /\ P[5] = Statement("point", {}) /\ P[6] = Statement("read", Elements)
      /\ P[7] = Statement("read", Filters) /\ P[8] = Statement("mirror", Children)
      /\ P[9] = Statement("commit", {})
  BY <1>1, <1>2, LayoutPublish
<1>4. /\ P[1].st = "read" /\ P[1].on = Elements /\ P[2].st = "read" /\ P[2].on = Filters
      /\ P[3].st = "last" /\ P[3].on = {} /\ P[4].st = "number" /\ P[4].on = {}
      /\ P[5].st = "point" /\ P[5].on = {} /\ P[6].st = "read" /\ P[6].on = Elements
      /\ P[7].st = "read" /\ P[7].on = Filters /\ P[8].st = "mirror" /\ P[8].on = Children
      /\ P[9].st = "commit" /\ P[9].on = {}
  BY <1>3 DEF Statement
<1>5. DOMAIN P = 1..9 /\ Head(P) = P[1] /\ P # <<>>
  <2>1. P \in Seq(Statements) /\ Len(P) = 9
    BY <1>3
  <2>2. Len(P) # 0
    BY <2>1
  <2> QED BY <2>1, <2>2, NotEmpty
<1>6. \A i \in DOMAIN P : i = 1 \/ i = 2 \/ i = 3 \/ i = 4 \/ i = 5 \/ i = 6 \/ i = 7 \/ i = 8 \/ i = 9
  BY <1>5
<1>7. Ends(P)
  BY <1>3, <1>4, <1>5, <1>6, DashboardStoreAssumption DEF Ends
<1>8. Drops(P)
  BY <1>3, <1>4, <1>5, <1>6, DashboardStoreAssumption DEF Drops
<1>9. Counts(P, op)
  BY <1>3, <1>4, <1>5, <1>6, DashboardStoreAssumption DEF Counts, Making
<1>10. Copies(P, op)
  BY <1>3, <1>4, <1>5, <1>6, DashboardStoreAssumption DEF Copies, Changing, Making, Children
<1>11. op = "publish" => Has(P, "number")
  BY <1>4, <1>5, <1>6 DEF Has
<1>12. op \in Making => Has(P, "last") /\ \A c \in Children : ReadsFirst(P, c)
  BY <1>4, <1>5, <1>6 DEF Has, ReadsFirst, Making, Children
<1>13. Has(P, "mirror") => \A c \in Children : Ahead(P, "read", c)
  BY <1>4, <1>5, <1>6 DEF Has, Ahead, Children
<1>14. Starts(P, op, C)
  BY <1>4, <1>5, <1>11, <1>12, <1>13 DEF Starts, Making, Replacing
<1> QED BY <1>3, <1>7, <1>8, <1>9, <1>10, <1>14 DEF Programmed, Ordered, P, Replacing

LEMMA LayoutCreateVersion ==
  ASSUME NEW S, NEW a1 \in S, NEW a2 \in S, NEW a3 \in S, NEW a4 \in S, NEW a5 \in S,
         NEW P, P = Append(<<a1, a2, a3, a4>>, a5)
  PROVE  /\ P \in Seq(S) /\ Len(P) = 5
         /\ P[1] = a1 /\ P[2] = a2 /\ P[3] = a3 /\ P[4] = a4 /\ P[5] = a5
OBVIOUS

LEMMA CreateVersionProgram ==
  ASSUME NEW C, NEW op, op = "createVersion"
  PROVE  Programmed(Program(op, C), op, C)
<1> DEFINE P == Program(op, C)
<1>1. P = Append(<<Statement("read", Elements), Statement("read", Filters), Statement("last", {}), Statement("number", {})>>,
           Statement("commit", {}))
  BY DEF Program, CreateVersion
<1>2. /\ Statement("read", Elements) \in Statements
      /\ Statement("read", Filters) \in Statements
      /\ Statement("last", {}) \in Statements
      /\ Statement("number", {}) \in Statements
      /\ Statement("commit", {}) \in Statements
  BY DashboardStoreAssumption DEF Statement, Statements, Children
<1> HIDE DEF P
<1>3. /\ P \in Seq(Statements) /\ Len(P) = 5
      /\ P[1] = Statement("read", Elements) /\ P[2] = Statement("read", Filters)
      /\ P[3] = Statement("last", {}) /\ P[4] = Statement("number", {})
      /\ P[5] = Statement("commit", {})
  BY <1>1, <1>2, LayoutCreateVersion
<1>4. /\ P[1].st = "read" /\ P[1].on = Elements /\ P[2].st = "read" /\ P[2].on = Filters
      /\ P[3].st = "last" /\ P[3].on = {} /\ P[4].st = "number" /\ P[4].on = {}
      /\ P[5].st = "commit" /\ P[5].on = {}
  BY <1>3 DEF Statement
<1>5. DOMAIN P = 1..5 /\ Head(P) = P[1] /\ P # <<>>
  <2>1. P \in Seq(Statements) /\ Len(P) = 5
    BY <1>3
  <2>2. Len(P) # 0
    BY <2>1
  <2> QED BY <2>1, <2>2, NotEmpty
<1>6. \A i \in DOMAIN P : i = 1 \/ i = 2 \/ i = 3 \/ i = 4 \/ i = 5
  BY <1>5
<1>7. Ends(P)
  BY <1>3, <1>4, <1>5, <1>6, DashboardStoreAssumption DEF Ends
<1>8. Drops(P)
  BY <1>3, <1>4, <1>5, <1>6, DashboardStoreAssumption DEF Drops
<1>9. Counts(P, op)
  BY <1>3, <1>4, <1>5, <1>6, DashboardStoreAssumption DEF Counts, Making
<1>10. Copies(P, op)
  BY <1>3, <1>4, <1>5, <1>6, DashboardStoreAssumption DEF Copies, Changing, Making, Children
<1>11. op \in Making => Has(P, "last") /\ \A c \in Children : ReadsFirst(P, c)
  BY <1>4, <1>5, <1>6 DEF Has, ReadsFirst, Making, Children
<1>12. Has(P, "mirror") => \A c \in Children : Ahead(P, "read", c)
  BY <1>4, <1>5, <1>6 DEF Has, Ahead, Children
<1>13. Starts(P, op, C)
  BY <1>4, <1>5, <1>11, <1>12 DEF Starts, Making, Replacing
<1> QED BY <1>3, <1>7, <1>8, <1>9, <1>10, <1>13 DEF Programmed, Ordered, P, Replacing

LEMMA LayoutDeleteVersion ==
  ASSUME NEW S, NEW a1 \in S, NEW a2 \in S, NEW a3 \in S,
         NEW P, P = Append(<<a1, a2>>, a3)
  PROVE  /\ P \in Seq(S) /\ Len(P) = 3
         /\ P[1] = a1 /\ P[2] = a2 /\ P[3] = a3
OBVIOUS

LEMMA DeleteVersionProgram ==
  ASSUME NEW C, NEW op, op = "deleteVersion"
  PROVE  Programmed(Program(op, C), op, C)
<1> DEFINE P == Program(op, C)
<1>1. P = Append(<<Statement("drop", {}), Statement("unpoint", {})>>,
           Statement("commit", {}))
  BY DEF Program
<1>2. /\ Statement("drop", {}) \in Statements
      /\ Statement("unpoint", {}) \in Statements
      /\ Statement("commit", {}) \in Statements
  BY DashboardStoreAssumption DEF Statement, Statements, Children
<1> HIDE DEF P
<1>3. /\ P \in Seq(Statements) /\ Len(P) = 3
      /\ P[1] = Statement("drop", {}) /\ P[2] = Statement("unpoint", {})
      /\ P[3] = Statement("commit", {})
  BY <1>1, <1>2, LayoutDeleteVersion
<1>4. /\ P[1].st = "drop" /\ P[1].on = {} /\ P[2].st = "unpoint" /\ P[2].on = {}
      /\ P[3].st = "commit" /\ P[3].on = {}
  BY <1>3 DEF Statement
<1>5. DOMAIN P = 1..3 /\ Head(P) = P[1] /\ P # <<>>
  <2>1. P \in Seq(Statements) /\ Len(P) = 3
    BY <1>3
  <2>2. Len(P) # 0
    BY <2>1
  <2> QED BY <2>1, <2>2, NotEmpty
<1>6. \A i \in DOMAIN P : i = 1 \/ i = 2 \/ i = 3
  BY <1>5
<1>7. Ends(P)
  BY <1>3, <1>4, <1>5, <1>6, DashboardStoreAssumption DEF Ends
<1>8. Drops(P)
  BY <1>3, <1>4, <1>5, <1>6, DashboardStoreAssumption DEF Drops
<1>9. Counts(P, op)
  BY <1>3, <1>4, <1>5, <1>6, DashboardStoreAssumption DEF Counts, Making
<1>10. Copies(P, op)
  BY <1>3, <1>4, <1>5, <1>6, DashboardStoreAssumption DEF Copies, Changing, Making, Children
<1>11. Has(P, "mirror") => \A c \in Children : Ahead(P, "read", c)
  BY <1>4, <1>5, <1>6 DEF Has, Ahead, Children
<1>12. Starts(P, op, C)
  BY <1>4, <1>5, <1>11 DEF Starts, Making, Replacing
<1> QED BY <1>3, <1>7, <1>8, <1>9, <1>10, <1>12 DEF Programmed, Ordered, P, Replacing

LEMMA LayoutDeleteDashboard ==
  ASSUME NEW S, NEW a1 \in S, NEW a2 \in S, NEW a3 \in S,
         NEW P, P = Append(<<a1, a2>>, a3)
  PROVE  /\ P \in Seq(S) /\ Len(P) = 3
         /\ P[1] = a1 /\ P[2] = a2 /\ P[3] = a3
OBVIOUS

LEMMA DeleteDashboardProgram ==
  ASSUME NEW C, NEW op, op = "deleteDashboard"
  PROVE  Programmed(Program(op, C), op, C)
<1> DEFINE P == Program(op, C)
<1>1. P = Append(<<Statement("row", {}), Statement("destroy", {})>>,
           Statement("commit", {}))
  BY DEF Program
<1>2. /\ Statement("row", {}) \in Statements
      /\ Statement("destroy", {}) \in Statements
      /\ Statement("commit", {}) \in Statements
  BY DashboardStoreAssumption DEF Statement, Statements, Children
<1> HIDE DEF P
<1>3. /\ P \in Seq(Statements) /\ Len(P) = 3
      /\ P[1] = Statement("row", {}) /\ P[2] = Statement("destroy", {})
      /\ P[3] = Statement("commit", {})
  BY <1>1, <1>2, LayoutDeleteDashboard
<1>4. /\ P[1].st = "row" /\ P[1].on = {} /\ P[2].st = "destroy" /\ P[2].on = {}
      /\ P[3].st = "commit" /\ P[3].on = {}
  BY <1>3 DEF Statement
<1>5. DOMAIN P = 1..3 /\ Head(P) = P[1] /\ P # <<>>
  <2>1. P \in Seq(Statements) /\ Len(P) = 3
    BY <1>3
  <2>2. Len(P) # 0
    BY <2>1
  <2> QED BY <2>1, <2>2, NotEmpty
<1>6. \A i \in DOMAIN P : i = 1 \/ i = 2 \/ i = 3
  BY <1>5
<1>7. Ends(P)
  BY <1>3, <1>4, <1>5, <1>6, DashboardStoreAssumption DEF Ends
<1>8. Drops(P)
  BY <1>3, <1>4, <1>5, <1>6, DashboardStoreAssumption DEF Drops
<1>9. Counts(P, op)
  BY <1>3, <1>4, <1>5, <1>6, DashboardStoreAssumption DEF Counts, Making
<1>10. Copies(P, op)
  BY <1>3, <1>4, <1>5, <1>6, DashboardStoreAssumption DEF Copies, Changing, Making, Children
<1>11. Has(P, "mirror") => \A c \in Children : Ahead(P, "read", c)
  BY <1>4, <1>5, <1>6 DEF Has, Ahead, Children
<1>12. Starts(P, op, C)
  BY <1>4, <1>5, <1>11 DEF Starts, Making, Replacing
<1> QED BY <1>3, <1>7, <1>8, <1>9, <1>10, <1>12 DEF Programmed, Ordered, P, Replacing

(* The operations as they begin: on a table, on one child, on the tables   *)
(* to replace, or on no child.                                             *)
Operation(op, on) ==
  /\ op \in Ops /\ on \in SUBSET Children
  /\ op = "replaceFilters" => on = Filters
  /\ op = "updateDashboard" => on \in {{}, Elements, Filters, Children}
  /\ op \in {"restore", "restoreUnpublished"} => on = Children

LEMMA Programs ==
  ASSUME NEW op, NEW on, Operation(op, on)
  PROVE  Programmed(Program(op, on), op, on)
<1>1. op \in Ops /\ on \in SUBSET Children
  BY DEF Operation
<1>2. CASE op \in {"create", "update", "delete"}
  BY <1>1, <1>2, EditProgram
<1>3. CASE op = "replaceFilters"
  <2>1. on = Filters
    BY <1>3 DEF Operation
  <2> QED BY <1>3, <2>1, ReplaceFiltersProgram, ReplaceNoFiltersProgram
<1>4. CASE op = "updateDashboard"
  <2>1. on \in {{}, Elements, Filters, Children}
    BY <1>4 DEF Operation
  <2>2. CASE on = {}
    BY <1>4, <2>2, UpdateRowOnlyProgram
  <2>3. CASE on = Elements /\ Elements # {}
    <3>1. on \cap Elements = Elements /\ on \cap Filters = {}
      BY <2>3, DashboardStoreAssumption
    <3> QED BY <1>4, <2>3, <3>1, UpdateElementsProgram
  <2>4. CASE on = Filters /\ Filters # {}
    <3>1. on \cap Elements = {} /\ on \cap Filters = Filters
      BY <2>4, DashboardStoreAssumption
    <3> QED BY <1>4, <2>4, <3>1, UpdateFiltersProgram
  <2>5. CASE on = Children /\ Elements # {} /\ Filters # {}
    <3>1. on \cap Elements = Elements /\ on \cap Filters = Filters
      BY <2>5 DEF Children
    <3> QED BY <1>4, <2>5, <3>1, UpdateBothProgram
  <2> QED BY <2>1, <2>2, <2>3, <2>4, <2>5 DEF Children
<1>5. CASE op = "restore"
  <2>1. on = Children
    BY <1>5 DEF Operation
  <2> QED BY <1>5, <2>1, RestoreProgram
<1>6. CASE op = "restoreUnpublished"
  <2>1. on = Children
    BY <1>6 DEF Operation
  <2> QED BY <1>6, <2>1, RestoreUnpublishedProgram
<1>7. CASE op \in {"publish", "createVersion"}
  BY <1>7, PublishProgram, CreateVersionProgram
<1>8. CASE op \in {"deleteVersion", "deleteDashboard"}
  BY <1>8, DeleteVersionProgram, DeleteDashboardProgram
<1> QED BY <1>1, <1>2, <1>3, <1>4, <1>5, <1>6, <1>7, <1>8 DEF Ops

-----------------------------------------------------------------------------
(* What is always true of the store and its transactions. *)

TypeOK ==
  /\ exists \in BOOLEAN /\ children \in Images /\ mirror \in Images
  /\ published \in Authors \cup {None}
  /\ versions \in [Authors -> VersionRecords \cup {None}]
  /\ rowLock \in Tx \cup {None}
  /\ tx \in [Tx -> TxRecords]
  /\ lag \in SUBSET Children /\ clock \in Nat

(* A transaction that has not begun, or has ended, keeps nothing. *)
Idle == \A t \in Tx : Active(t) \/ tx[t] = Ended(tx[t].phase)

UnderWay == \A t \in Tx : Active(t) =>
  /\ tx[t].todo # <<>> /\ Ordered(tx[t].todo, tx[t].op, tx[t].on)
  /\ Operation(tx[t].op, tx[t].on)

(* Who has written the row has it locked. *)
RowWriter == \A t \in Tx : Active(t) /\ (tx[t].pub # Same \/ tx[t].synced) => rowLock = t

(* Who has written children has written their copy, or has still to do so. *)
Copied == \A t \in Tx : Active(t) =>
  Has(tx[t].todo, "mirror") \/ tx[t].synced \/ \A c \in Children : tx[t].own[c] = Same

(* Any of the numbers of the versions have a greatest one. *)
Greatest == \A N \in SUBSET Numbers : N # {} => \E n \in N : \A m \in N : m <= n

Base == TypeOK /\ Idle /\ UnderWay /\ RowWriter /\ Copied /\ Greatest

(* Versions are published when they have been committed, and deleted by a  *)
(* transaction that names them; who will publish one keeps others from     *)
(* deleting it, and who has deleted one has cleared the column, or need    *)
(* not.                                                                    *)
Committed(v) == v \in Tx => tx[v].phase = "committed"
VersionsCommitted == \A v \in Authors : versions[v] # None => Committed(v)
AboutCommitted == \A t \in Tx : Active(t) =>
  /\ tx[t].about # None => Committed(tx[t].about)
  /\ tx[t].op \in {"restore", "deleteVersion"} => tx[t].about # None
  /\ tx[t].op = "restore" /\ versions[tx[t].about] # None => versions[tx[t].about].isPublished
PublishesOwn == \A t \in Tx : Active(t) /\ tx[t].op = "publish" =>
  \/ tx[t].version = None /\ Has(tx[t].todo, "number")
  \/ tx[t].version # None /\ tx[t].version.isPublished
PubIsThere == \A t \in Tx : Active(t) /\ tx[t].pub \in Authors =>
  /\ \/ tx[t].op = "publish" /\ tx[t].pub = t /\ ~Has(tx[t].todo, "number")
     \/ tx[t].op = "restore" /\ tx[t].pub = tx[t].about /\ versions[tx[t].pub] # None
  /\ \A u \in Tx \ {t} : ~Dropped(u, tx[t].pub)
DroppedIsUnnamed == \A t \in Tx :
  Active(t) /\ tx[t].op = "deleteVersion" /\ Head(tx[t].todo).st \notin {"drop", "unpoint"} =>
    tx[t].pub = None \/ published # tx[t].about
PublicationInv ==
  /\ PublishedVersionExists
  /\ VersionsCommitted /\ AboutCommitted /\ PublishesOwn /\ PubIsThere /\ DroppedIsUnnamed

(* What a transaction that will write, or has written, the copy has read   *)
(* is what it sees, but for what others changed since.                     *)
ImageIsView == \A t \in Tx : Active(t) /\ (tx[t].synced \/ Has(tx[t].todo, "mirror")) =>
  \A c \in Children : ~Ahead(tx[t].todo, "read", c) /\ c \notin tx[t].missed => tx[t].image[c] = View(t)[c]
MirrorInv == MirrorLagsOnlyByRace /\ ImageIsView

(* Who makes a version writes no child; the children it has read are as    *)
(* they were, but for those that others changed.                           *)
MakesNoChange == \A t \in Tx : Active(t) =>
  /\ tx[t].op \in Making => \A c \in Children : tx[t].own[c] = Same
  /\ tx[t].version # None => tx[t].op \in Making /\ ~Has(tx[t].todo, "number")
ReadIsCurrent == \A t \in Tx : Active(t) /\ tx[t].op \in Making /\ tx[t].version = None =>
  \A c \in Children \ tx[t].touched : ~ReadsFirst(tx[t].todo, c) => tx[t].image[c] = children[c]
SnapshotInv == PublishIsCurrent /\ MakesNoChange /\ ReadIsCurrent

(* What has read the last number, and nothing was deleted since. *)
Counting(t) == Active(t) /\ tx[t].op \in Making /\ ~tx[t].deletion /\ ~Has(tx[t].todo, "last")
PastCommits == \A v \in Authors : versions[v] # None => versions[v].at <= clock
LastIsTaken == \A t \in Tx : Counting(t) => tx[t].last = 0 \/ tx[t].last \in Numbers
NextIsFree == \A t \in Tx : Counting(t) =>
  \/ \A n \in Numbers : n <= tx[t].last
  \/ tx[t].last + 1 \in Numbers
PendingIsGreatest == \A t \in Tx : Counting(t) /\ tx[t].version # None =>
  tx[t].version.number = tx[t].last + 1 /\ \A n \in Numbers : n < tx[t].version.number
PendingDiffer == \A t, u \in Tx :
  t # u /\ Active(t) /\ Active(u) /\ tx[t].version # None /\ tx[u].version # None =>
    tx[t].version.number # tx[u].version.number
VersionCounted == \A t \in Tx : Active(t) /\ tx[t].version # None => tx[t].op \in Making /\ ~Has(tx[t].todo, "last")
NumberInv ==
  /\ NumbersFollowCommits
  /\ PastCommits /\ LastIsTaken /\ NextIsFree /\ PendingIsGreatest /\ PendingDiffer /\ VersionCounted

(* A table is replaced under the lock of the row: what was there is found, *)
(* deleted, and made anew.                                                 *)
RowFirst == \A t \in Tx : Active(t) /\ tx[t].op \in Replacing /\ rowLock # t => Head(tx[t].todo).st = "row"
SeenToClear == \A t \in Tx : Active(t) /\ tx[t].op \in Replacing /\ Head(tx[t].todo).st = "clear" =>
  /\ tx[t].seen \subseteq On(t)
  /\ \A c \in On(t) : View(t)[c] # None => c \in tx[t].seen
ClearedToFill == \A t \in Tx : Active(t) /\ tx[t].op \in Replacing =>
  \A c \in tx[t].on : ~Ahead(tx[t].todo, "clear", c) =>
    View(t)[c] = IF Ahead(tx[t].todo, "fill", c) THEN None ELSE tx[t].target[c]
ReplaceInv == RowFirst /\ SeenToClear /\ ClearedToFill

-----------------------------------------------------------------------------
(* What each kind of step does: a transaction begins, executes a statement *)
(* of its program, commits, deletes the dashboard, or fails.               *)

Begun(op, C, about, target) ==
  [NewTx EXCEPT !.phase = "active", !.op = op, !.todo = Program(op, C), !.on = C, !.about = about, !.target = target]

Begin(t) == \E op, C, about, target :
  /\ tx[t].phase = "new"
  /\ Operation(op, C) /\ about \in Authors \cup {None} /\ target \in Images
  /\ IF op \in {"restore", "restoreUnpublished", "deleteVersion"} THEN about # None /\ versions[about] # None ELSE about = None
  /\ op = "restore" => versions[about].isPublished
  /\ tx'[t] = Begun(op, C, about, target)
  /\ \A u \in Tx \ {t} : tx'[u] = tx[u]
  /\ UNCHANGED <<Database, rowLock>>

(* Of a statement, what the transaction keeps. *)
Kept(t) ==
  LET r == tx[t]
      q == tx'[t]
      st == Head(tx[t].todo).st
  IN
  /\ q.phase = "active" /\ q.op = r.op /\ q.todo = Tail(r.todo) /\ q.on = r.on
  /\ q.about = r.about /\ q.target = r.target /\ q.touched = r.touched /\ q.deletion = r.deletion
  /\ st \notin Changing => q.own = r.own
  /\ st # "see" => q.seen = r.seen
  /\ st # "read" => q.image = r.image /\ q.missed = r.missed
  /\ st # "mirror" => q.synced = r.synced
  /\ st \notin {"row", "point", "unpoint"} => q.pub = r.pub
  /\ st # "number" => q.version = r.version
  /\ st # "last" => q.last = r.last

(* Of a statement, what the transaction sets, and what for. *)
Filled(t, f) ==
  LET C == {c \in On(t) : tx[t].target[c] # None} IN
  /\ f \in [C -> On(t)]
  /\ \A c, d \in C : f[c] = f[d] => c = d
  /\ \A c \in C : View(t)[c] = None => f[c] = c
  /\ \A c \in Children :
       tx'[t].own[c] = IF c \in {f[d] : d \in C} THEN tx[t].target[CHOOSE d \in C : f[d] = c] ELSE tx[t].own[c]

Done(t) ==
  LET r == tx[t]
      q == tx'[t]
      st == Head(tx[t].todo).st
  IN
  /\ st = "row" => q.pub \in {r.pub, None}
  /\ st = "see" => q.seen = {c \in On(t) : View(t)[c] # None}
  /\ st = "clear" => \A c \in Children :
       q.own[c] = IF c \in r.seen /\ View(t)[c] # None THEN None ELSE r.own[c]
  /\ st = "fill" => \E f : Filled(t, f)
  /\ st = "read" =>
       /\ \A c \in Children : q.image[c] = IF c \in On(t) THEN View(t)[c] ELSE r.image[c]
       /\ q.missed = r.missed \ On(t)
  /\ st = "mirror" => q.synced
  /\ st = "last" => q.last = LastNumber
  /\ st = "number" =>
       /\ q.version = NewVersion(t) /\ r.last + 1 \notin Numbers
       /\ \A u \in Others(t) : tx[u].version # None => tx[u].version.number # r.last + 1
  /\ st = "point" =>
       /\ \/ r.op = "publish" /\ q.pub = t
          \/ r.op = "restore" /\ q.pub = r.about /\ (r.about = t \/ versions[r.about] # None)
       /\ \A u \in Others(t) : ~Dropped(u, q.pub)
  /\ st = "drop" => \A u \in Others(t) : tx[u].pub # r.about
  /\ st = "unpoint" => q.pub = None \/ (q.pub = r.pub /\ published # r.about)

Proceeds(t) ==
  /\ Active(t) /\ tx[t].todo # <<>> /\ Head(tx[t].todo).st # "commit"
  /\ UNCHANGED Database
  /\ \A u \in Tx \ {t} : tx'[u] = tx[u]
  /\ rowLock' = rowLock \/ (rowLock = None /\ rowLock' = t)
  /\ tx'[t].pub # tx[t].pub \/ Head(tx[t].todo).st \in {"row", "mirror"} => rowLock' = t
  /\ Kept(t) /\ Done(t)

Tells(t, C, deleted) == \A u \in Tx \ {t} :
  IF Active(u) THEN tx'[u] = [tx[u] EXCEPT !.missed = @ \cup (C \ Unread(u)),
                                           !.touched = IF tx[u].op \in Making THEN @ \cup C ELSE @,
                                           !.deletion = tx[u].op \in Making /\ (@ \/ deleted)]
  ELSE tx'[u] = tx[u]

Changed(t) == {c \in Children : View(t)[c] # children[c]}

Commits(t) ==
  /\ Active(t) /\ tx[t].todo # <<>> /\ Head(tx[t].todo).st = "commit"
  /\ children' = View(t)
  /\ mirror' = IF tx[t].synced THEN tx[t].image ELSE mirror
  /\ published' = IF tx[t].pub = Same THEN published ELSE tx[t].pub
  /\ \A v \in Authors : versions'[v] =
       IF tx[t].op = "deleteVersion" /\ v = tx[t].about THEN None
       ELSE IF v = t /\ tx[t].version # None
       THEN [tx[t].version EXCEPT !.at = clock + 1, !.late = tx[t].deletion] ELSE versions[v]
  /\ rowLock' = IF rowLock = t THEN None ELSE rowLock
  /\ clock' = clock + 1 /\ exists' = exists
  /\ lag' = IF tx[t].synced THEN tx[t].missed ELSE lag
  /\ tx'[t] = Ended("committed")
  /\ Tells(t, Changed(t), tx[t].op = "deleteVersion" \/ tx[t].deletion)

Destroys(t) ==
  /\ Active(t) /\ tx[t].todo # <<>> /\ Head(tx[t].todo).st = "destroy"
  /\ rowLock = t /\ rowLock' = None
  /\ \A u \in Others(t) : tx[u].version = None /\ \A c \in Children : tx[u].own[c] = Same
  /\ exists' = FALSE /\ children' = Empty /\ mirror' = Empty /\ published' = None
  /\ versions' = [v \in Authors |-> None] /\ clock' = clock + 1 /\ lag' = {}
  /\ tx'[t] = Ended("committed")
  /\ Tells(t, Children, TRUE)

Fails(t) ==
  /\ Active(t)
  /\ tx'[t] = Ended("aborted")
  /\ \A u \in Tx \ {t} : tx'[u] = tx[u]
  /\ rowLock' = IF rowLock = t THEN None ELSE rowLock
  /\ UNCHANGED Database

LEMMA TxTyped ==
  ASSUME TypeOK, NEW t \in Tx, Active(t), tx[t].todo # <<>>
  PROVE  /\ tx[t] \in TxRecords /\ Head(tx[t].todo) \in Statements /\ After(t) \in Seq(Statements)
         /\ On(t) \in SUBSET Children /\ View(t) \in Images
<1>1. tx[t] \in TxRecords
  BY DEF TypeOK
<1>2. tx[t].todo \in Seq(Statements) /\ tx[t].own \in [Children -> Authors \cup {None, Same}]
  BY <1>1 DEF TxRecords
<1>3. Head(tx[t].todo) \in Statements /\ After(t) \in Seq(Statements)
  BY <1>2 DEF After
<1>4. On(t) \in SUBSET Children
  BY <1>3 DEF On, Statements
<1>5. View(t) \in Images
  BY <1>2 DEF View, TypeOK, Images
<1> QED BY <1>1, <1>3, <1>4, <1>5

LEMMA UpdateRowStep ==
  ASSUME TypeOK, NEW t \in Tx, UpdateRow(t)
  PROVE  Proceeds(t) /\ tx' \in [Tx -> TxRecords]
<1> DEFINE q == [tx[t] EXCEPT !.todo = After(t), !.pub = IF tx[t].op = "deleteDashboard" THEN None ELSE tx[t].pub]
<1>1. Active(t) /\ tx[t].todo # <<>> /\ Head(tx[t].todo).st = "row" /\ UNCHANGED Database
  BY DEF UpdateRow, Step, Does
<1>2. /\ tx[t] \in TxRecords /\ tx \in [Tx -> TxRecords] /\ After(t) \in Seq(Statements)
      /\ On(t) \in SUBSET Children /\ View(t) \in Images
  BY <1>1, TxTyped DEF TypeOK
<1>3. tx' = [tx EXCEPT ![t] = q]
  BY <1>2 DEF UpdateRow
<1>4. q \in TxRecords
  BY <1>1, <1>2 DEF TxRecords, Images
<1>5. tx' \in [Tx -> TxRecords] /\ tx'[t] = q /\ \A u \in Tx \ {t} : tx'[u] = tx[u]
  BY <1>2, <1>3, <1>4
<1>6. Kept(t)
  BY <1>1, <1>2, <1>5 DEF Kept, After, Active, TxRecords, Changing
<1>7. Done(t)
  BY <1>1, <1>2, <1>5 DEF Done, TxRecords, UpdateRow
<1>8. /\ rowLock' = rowLock \/ (rowLock = None /\ rowLock' = t)
      /\ tx'[t].pub # tx[t].pub \/ "row" \in {"row", "mirror"} => rowLock' = t
  BY <1>1, <1>2, <1>5 DEF UpdateRow, TxRecords, RowFree
<1> QED BY <1>1, <1>5, <1>6, <1>7, <1>8 DEF Proceeds

LEMMA SeeChildrenStep ==
  ASSUME TypeOK, NEW t \in Tx, SeeChildren(t)
  PROVE  Proceeds(t) /\ tx' \in [Tx -> TxRecords]
<1> DEFINE q == [tx[t] EXCEPT !.todo = After(t), !.seen = {c \in On(t) : View(t)[c] # None}]
<1>1. Active(t) /\ tx[t].todo # <<>> /\ Head(tx[t].todo).st = "see" /\ UNCHANGED Database
  BY DEF SeeChildren, Step, Does
<1>2. /\ tx[t] \in TxRecords /\ tx \in [Tx -> TxRecords] /\ After(t) \in Seq(Statements)
      /\ On(t) \in SUBSET Children /\ View(t) \in Images
  BY <1>1, TxTyped DEF TypeOK
<1>3. tx' = [tx EXCEPT ![t] = q]
  BY <1>2 DEF SeeChildren
<1>4. q \in TxRecords
  BY <1>1, <1>2 DEF TxRecords, Images
<1>5. tx' \in [Tx -> TxRecords] /\ tx'[t] = q /\ \A u \in Tx \ {t} : tx'[u] = tx[u]
  BY <1>2, <1>3, <1>4
<1>6. Kept(t)
  BY <1>1, <1>2, <1>5 DEF Kept, After, Active, TxRecords, Changing
<1>7. Done(t)
  BY <1>1, <1>2, <1>5 DEF Done, TxRecords, SeeChildren
<1>8. /\ rowLock' = rowLock \/ (rowLock = None /\ rowLock' = t)
      /\ tx'[t].pub # tx[t].pub \/ "see" \in {"row", "mirror"} => rowLock' = t
  BY <1>1, <1>2, <1>5 DEF SeeChildren, TxRecords
<1> QED BY <1>1, <1>5, <1>6, <1>7, <1>8 DEF Proceeds

LEMMA ReadChildrenStep ==
  ASSUME TypeOK, NEW t \in Tx, ReadChildren(t)
  PROVE  Proceeds(t) /\ tx' \in [Tx -> TxRecords]
<1> DEFINE q == [tx[t] EXCEPT !.todo = After(t), !.image = [c \in Children |-> IF c \in On(t) THEN View(t)[c] ELSE tx[t].image[c]], !.missed = tx[t].missed \ On(t)]
<1>1. Active(t) /\ tx[t].todo # <<>> /\ Head(tx[t].todo).st = "read" /\ UNCHANGED Database
  BY DEF ReadChildren, Step, Does
<1>2. /\ tx[t] \in TxRecords /\ tx \in [Tx -> TxRecords] /\ After(t) \in Seq(Statements)
      /\ On(t) \in SUBSET Children /\ View(t) \in Images
  BY <1>1, TxTyped DEF TypeOK
<1>3. tx' = [tx EXCEPT ![t] = q]
  BY <1>2 DEF ReadChildren
<1>4. q \in TxRecords
  BY <1>1, <1>2 DEF TxRecords, Images
<1>5. tx' \in [Tx -> TxRecords] /\ tx'[t] = q /\ \A u \in Tx \ {t} : tx'[u] = tx[u]
  BY <1>2, <1>3, <1>4
<1>6. Kept(t)
  BY <1>1, <1>2, <1>5 DEF Kept, After, Active, TxRecords, Changing
<1>7. Done(t)
  BY <1>1, <1>2, <1>5 DEF Done, TxRecords, ReadChildren
<1>8. /\ rowLock' = rowLock \/ (rowLock = None /\ rowLock' = t)
      /\ tx'[t].pub # tx[t].pub \/ "read" \in {"row", "mirror"} => rowLock' = t
  BY <1>1, <1>2, <1>5 DEF ReadChildren, TxRecords
<1> QED BY <1>1, <1>5, <1>6, <1>7, <1>8 DEF Proceeds

LEMMA WriteMirrorStep ==
  ASSUME TypeOK, NEW t \in Tx, WriteMirror(t)
  PROVE  Proceeds(t) /\ tx' \in [Tx -> TxRecords]
<1> DEFINE q == [tx[t] EXCEPT !.todo = After(t), !.synced = TRUE]
<1>1. Active(t) /\ tx[t].todo # <<>> /\ Head(tx[t].todo).st = "mirror" /\ UNCHANGED Database
  BY DEF WriteMirror, Step, Does
<1>2. /\ tx[t] \in TxRecords /\ tx \in [Tx -> TxRecords] /\ After(t) \in Seq(Statements)
      /\ On(t) \in SUBSET Children /\ View(t) \in Images
  BY <1>1, TxTyped DEF TypeOK
<1>3. tx' = [tx EXCEPT ![t] = q]
  BY <1>2 DEF WriteMirror
<1>4. q \in TxRecords
  BY <1>1, <1>2 DEF TxRecords, Images
<1>5. tx' \in [Tx -> TxRecords] /\ tx'[t] = q /\ \A u \in Tx \ {t} : tx'[u] = tx[u]
  BY <1>2, <1>3, <1>4
<1>6. Kept(t)
  BY <1>1, <1>2, <1>5 DEF Kept, After, Active, TxRecords, Changing
<1>7. Done(t)
  BY <1>1, <1>2, <1>5 DEF Done, TxRecords, WriteMirror
<1>8. /\ rowLock' = rowLock \/ (rowLock = None /\ rowLock' = t)
      /\ tx'[t].pub # tx[t].pub \/ "mirror" \in {"row", "mirror"} => rowLock' = t
  BY <1>1, <1>2, <1>5 DEF WriteMirror, TxRecords, RowFree
<1> QED BY <1>1, <1>5, <1>6, <1>7, <1>8 DEF Proceeds

LEMMA InsertVersionStep ==
  ASSUME TypeOK, NEW t \in Tx, InsertVersion(t)
  PROVE  Proceeds(t) /\ tx' \in [Tx -> TxRecords]
<1> DEFINE q == [tx[t] EXCEPT !.todo = After(t), !.version = NewVersion(t)]
<1>1. Active(t) /\ tx[t].todo # <<>> /\ Head(tx[t].todo).st = "number" /\ UNCHANGED Database
  BY DEF InsertVersion, Step, Does
<1>2. /\ tx[t] \in TxRecords /\ tx \in [Tx -> TxRecords] /\ After(t) \in Seq(Statements)
      /\ On(t) \in SUBSET Children /\ View(t) \in Images
  BY <1>1, TxTyped DEF TypeOK
<1>3. tx' = [tx EXCEPT ![t] = q]
  BY <1>2 DEF InsertVersion
<1>4. q \in TxRecords
  <2>1. tx[t].last + 1 \in Nat \ {0} /\ tx[t].image \in Images
    BY <1>2 DEF TxRecords
  <2>2. NewVersion(t) \in VersionRecords
    BY <2>1 DEF NewVersion, VersionRecords
  <2> HIDE DEF NewVersion
  <2> QED BY <1>1, <1>2, <2>2 DEF TxRecords
<1>5. tx' \in [Tx -> TxRecords] /\ tx'[t] = q /\ \A u \in Tx \ {t} : tx'[u] = tx[u]
  BY <1>2, <1>3, <1>4
<1>6. Kept(t)
  BY <1>1, <1>2, <1>5 DEF Kept, After, Active, TxRecords, Changing
<1>7. Done(t)
  BY <1>1, <1>2, <1>5 DEF Done, TxRecords, InsertVersion
<1>8. /\ rowLock' = rowLock \/ (rowLock = None /\ rowLock' = t)
      /\ tx'[t].pub # tx[t].pub \/ "number" \in {"row", "mirror"} => rowLock' = t
  BY <1>1, <1>2, <1>5 DEF InsertVersion, TxRecords
<1> QED BY <1>1, <1>5, <1>6, <1>7, <1>8 DEF Proceeds

LEMMA DropVersionStep ==
  ASSUME TypeOK, NEW t \in Tx, DropVersion(t)
  PROVE  Proceeds(t) /\ tx' \in [Tx -> TxRecords]
<1> DEFINE q == [tx[t] EXCEPT !.todo = After(t)]
<1>1. Active(t) /\ tx[t].todo # <<>> /\ Head(tx[t].todo).st = "drop" /\ UNCHANGED Database
  BY DEF DropVersion, Step, Does
<1>2. /\ tx[t] \in TxRecords /\ tx \in [Tx -> TxRecords] /\ After(t) \in Seq(Statements)
      /\ On(t) \in SUBSET Children /\ View(t) \in Images
  BY <1>1, TxTyped DEF TypeOK
<1>3. tx' = [tx EXCEPT ![t] = q]
  BY <1>2 DEF DropVersion
<1>4. q \in TxRecords
  BY <1>1, <1>2 DEF TxRecords, Images
<1>5. tx' \in [Tx -> TxRecords] /\ tx'[t] = q /\ \A u \in Tx \ {t} : tx'[u] = tx[u]
  BY <1>2, <1>3, <1>4
<1>6. Kept(t)
  BY <1>1, <1>2, <1>5 DEF Kept, After, Active, TxRecords, Changing
<1>7. Done(t)
  BY <1>1, <1>2, <1>5 DEF Done, TxRecords, DropVersion
<1>8. /\ rowLock' = rowLock \/ (rowLock = None /\ rowLock' = t)
      /\ tx'[t].pub # tx[t].pub \/ "drop" \in {"row", "mirror"} => rowLock' = t
  BY <1>1, <1>2, <1>5 DEF DropVersion, TxRecords
<1> QED BY <1>1, <1>5, <1>6, <1>7, <1>8 DEF Proceeds

LEMMA WriteChildStep ==
  ASSUME TypeOK, NEW t \in Tx, WriteChild(t)
  PROVE  Proceeds(t) /\ tx' \in [Tx -> TxRecords]
<1>1. Active(t) /\ tx[t].todo # <<>> /\ Head(tx[t].todo).st = "write" /\ UNCHANGED Database
  BY DEF WriteChild, Step, Does
<1>2. /\ tx[t] \in TxRecords /\ tx \in [Tx -> TxRecords] /\ After(t) \in Seq(Statements)
      /\ On(t) \in SUBSET Children /\ View(t) \in Images
  BY <1>1, TxTyped DEF TypeOK
<1>21. PICK c \in On(t) : Writes(t, {c}, [d \in {c} |-> IF tx[t].op = "delete" THEN None ELSE t])
  BY DEF WriteChild
<1>22. PICK x \in Authors \cup {None} : x = IF tx[t].op = "delete" THEN None ELSE t
  BY DEF Authors
<1> DEFINE q == [tx[t] EXCEPT !.todo = After(t), !.own = [d \in Children |-> IF d = c THEN x ELSE tx[t].own[d]]]
<1>3. tx' = [tx EXCEPT ![t] = q]
  BY <1>2, <1>21, <1>22 DEF WriteChild, Writes
<1>4. q \in TxRecords
  BY <1>1, <1>2, <1>21, <1>22 DEF TxRecords, Images
<1>5. tx' \in [Tx -> TxRecords] /\ tx'[t] = q /\ \A u \in Tx \ {t} : tx'[u] = tx[u]
  BY <1>2, <1>3, <1>4
<1>6. Kept(t)
  BY <1>1, <1>2, <1>5 DEF Kept, After, Active, TxRecords, Changing
<1>7. Done(t)
  BY <1>1, <1>2, <1>5, <1>21, <1>22 DEF Done, TxRecords, WriteChild
<1>8. /\ rowLock' = rowLock \/ (rowLock = None /\ rowLock' = t)
      /\ tx'[t].pub # tx[t].pub \/ "write" \in {"row", "mirror"} => rowLock' = t
  BY <1>1, <1>2, <1>5, <1>21, <1>22 DEF WriteChild, TxRecords
<1> QED BY <1>1, <1>5, <1>6, <1>7, <1>8 DEF Proceeds

LEMMA ClearChildrenStep ==
  ASSUME TypeOK, NEW t \in Tx, ClearChildren(t)
  PROVE  Proceeds(t) /\ tx' \in [Tx -> TxRecords]
<1>1. Active(t) /\ tx[t].todo # <<>> /\ Head(tx[t].todo).st = "clear" /\ UNCHANGED Database
  BY DEF ClearChildren, Step, Does
<1>2. /\ tx[t] \in TxRecords /\ tx \in [Tx -> TxRecords] /\ After(t) \in Seq(Statements)
      /\ On(t) \in SUBSET Children /\ View(t) \in Images
  BY <1>1, TxTyped DEF TypeOK
<1> DEFINE q == [tx[t] EXCEPT !.todo = After(t), !.own = [c \in Children |-> IF c \in tx[t].seen /\ View(t)[c] # None THEN None ELSE tx[t].own[c]]]
<1>3. tx' = [tx EXCEPT ![t] = q]
  BY <1>2 DEF ClearChildren, Writes, Empty
<1>4. q \in TxRecords
  BY <1>1, <1>2 DEF TxRecords, Images
<1>5. tx' \in [Tx -> TxRecords] /\ tx'[t] = q /\ \A u \in Tx \ {t} : tx'[u] = tx[u]
  BY <1>2, <1>3, <1>4
<1>6. Kept(t)
  BY <1>1, <1>2, <1>5 DEF Kept, After, Active, TxRecords, Changing
<1>7. Done(t)
  BY <1>1, <1>2, <1>5 DEF Done, TxRecords, ClearChildren, Empty
<1>8. /\ rowLock' = rowLock \/ (rowLock = None /\ rowLock' = t)
      /\ tx'[t].pub # tx[t].pub \/ "clear" \in {"row", "mirror"} => rowLock' = t
  BY <1>1, <1>2, <1>5 DEF ClearChildren, TxRecords, Empty
<1> QED BY <1>1, <1>5, <1>6, <1>7, <1>8 DEF Proceeds

LEMMA FillChildrenStep ==
  ASSUME TypeOK, NEW t \in Tx, FillChildren(t)
  PROVE  Proceeds(t) /\ tx' \in [Tx -> TxRecords]
<1>1. Active(t) /\ tx[t].todo # <<>> /\ Head(tx[t].todo).st = "fill" /\ UNCHANGED Database
  BY DEF FillChildren, Step, Does
<1>2. /\ tx[t] \in TxRecords /\ tx \in [Tx -> TxRecords] /\ After(t) \in Seq(Statements)
      /\ On(t) \in SUBSET Children /\ View(t) \in Images
  BY <1>1, TxTyped DEF TypeOK
<1> DEFINE C == {c \in On(t) : tx[t].target[c] # None}
           value(f) == [d \in {f[c] : c \in C} |-> tx[t].target[CHOOSE c \in C : f[c] = d]]
<1>21. PICK f \in [C -> On(t)] :
        /\ \A c, d \in C : f[c] = f[d] => c = d
        /\ \A c \in C : View(t)[f[c]] = None /\ (c \in {d \in C : View(t)[d] = None} => f[c] = c)
        /\ Writes(t, {f[c] : c \in C}, value(f))
  BY DEF FillChildren
<1>22. PICK own : own = [c \in Children |-> IF c \in {f[d] : d \in C} THEN value(f)[c] ELSE tx[t].own[c]]
  OBVIOUS
<1>23. \A c \in {f[d] : d \in C} : value(f)[c] \in Authors \cup {None}
  <2>1. SUFFICES ASSUME NEW c \in {f[d] : d \in C} PROVE tx[t].target[CHOOSE d \in C : f[d] = c] \in Authors \cup {None}
    OBVIOUS
  <2>2. (CHOOSE d \in C : f[d] = c) \in C
    BY <2>1
  <2>3. tx[t].target \in Images /\ C \subseteq Children
    BY <1>2 DEF TxRecords
  <2> QED BY <2>2, <2>3 DEF Images
<1>24. own \in [Children -> Authors \cup {None, Same}]
  BY <1>2, <1>22, <1>23 DEF TxRecords
<1> DEFINE q == [tx[t] EXCEPT !.todo = After(t), !.own = own]
<1>3. tx' = [tx EXCEPT ![t] = q]
  BY <1>2, <1>21, <1>22 DEF FillChildren, Writes
<1>4. q \in TxRecords
  BY <1>1, <1>2, <1>24 DEF TxRecords
<1>5. tx' \in [Tx -> TxRecords] /\ tx'[t] = q /\ \A u \in Tx \ {t} : tx'[u] = tx[u]
  BY <1>2, <1>3, <1>4
<1>6. Kept(t)
  BY <1>1, <1>2, <1>5 DEF Kept, After, Active, TxRecords, Changing
<1>7. Done(t)
  <2>1. Filled(t, f)
    BY <1>2, <1>5, <1>21, <1>22 DEF Filled
  <2> QED BY <1>1, <2>1 DEF Done
<1>8. /\ rowLock' = rowLock \/ (rowLock = None /\ rowLock' = t)
      /\ tx'[t].pub # tx[t].pub \/ "fill" \in {"row", "mirror"} => rowLock' = t
  BY <1>1, <1>2, <1>5, <1>21, <1>22 DEF FillChildren, TxRecords
<1> QED BY <1>1, <1>5, <1>6, <1>7, <1>8 DEF Proceeds

LEMMA ReadLastNumberStep ==
  ASSUME TypeOK, Greatest, NEW t \in Tx, ReadLastNumber(t)
  PROVE  Proceeds(t) /\ tx' \in [Tx -> TxRecords]
<1>1. Active(t) /\ tx[t].todo # <<>> /\ Head(tx[t].todo).st = "last" /\ UNCHANGED Database
  BY DEF ReadLastNumber, Step, Does
<1>2. /\ tx[t] \in TxRecords /\ tx \in [Tx -> TxRecords] /\ After(t) \in Seq(Statements)
      /\ On(t) \in SUBSET Children /\ View(t) \in Images
  BY <1>1, TxTyped DEF TypeOK
<1>21. Numbers \subseteq Nat
  BY DEF Numbers, TypeOK, VersionRecords
<1>22. LastNumber \in Nat
  BY <1>21 DEF LastNumber, Greatest
<1> DEFINE q == [tx[t] EXCEPT !.todo = After(t), !.last = LastNumber]
<1>3. tx' = [tx EXCEPT ![t] = q]
  BY <1>2 DEF ReadLastNumber, Writes
<1>4. q \in TxRecords
  BY <1>1, <1>2, <1>22 DEF TxRecords
<1>5. tx' \in [Tx -> TxRecords] /\ tx'[t] = q /\ \A u \in Tx \ {t} : tx'[u] = tx[u]
  BY <1>2, <1>3, <1>4
<1>6. Kept(t)
  BY <1>1, <1>2, <1>5 DEF Kept, After, Active, TxRecords, Changing
<1>7. Done(t)
  BY <1>1, <1>2, <1>5 DEF Done, TxRecords, ReadLastNumber
<1>8. /\ rowLock' = rowLock \/ (rowLock = None /\ rowLock' = t)
      /\ tx'[t].pub # tx[t].pub \/ "last" \in {"row", "mirror"} => rowLock' = t
  BY <1>1, <1>2, <1>5 DEF ReadLastNumber, TxRecords
<1> QED BY <1>1, <1>5, <1>6, <1>7, <1>8 DEF Proceeds

LEMMA PublishStep ==
  ASSUME TypeOK, NEW t \in Tx, Publish(t)
  PROVE  Proceeds(t) /\ tx' \in [Tx -> TxRecords]
<1>1. Active(t) /\ tx[t].todo # <<>> /\ Head(tx[t].todo).st = "point" /\ UNCHANGED Database
  BY DEF Publish, Step, Does
<1>2. /\ tx[t] \in TxRecords /\ tx \in [Tx -> TxRecords] /\ After(t) \in Seq(Statements)
      /\ On(t) \in SUBSET Children /\ View(t) \in Images
  BY <1>1, TxTyped DEF TypeOK
<1> DEFINE q == [tx[t] EXCEPT !.todo = After(t), !.pub = t]
<1>3. tx' = [tx EXCEPT ![t] = q]
  BY <1>2 DEF Publish, Writes, PointAt, RowFree, Authors
<1>4. q \in TxRecords
  BY <1>1, <1>2 DEF TxRecords, Authors
<1>5. tx' \in [Tx -> TxRecords] /\ tx'[t] = q /\ \A u \in Tx \ {t} : tx'[u] = tx[u]
  BY <1>2, <1>3, <1>4
<1>6. Kept(t)
  BY <1>1, <1>2, <1>5 DEF Kept, After, Active, TxRecords, Changing
<1>7. Done(t)
  BY <1>1, <1>2, <1>5 DEF Done, TxRecords, Publish, PointAt, RowFree, Authors
<1>8. /\ rowLock' = rowLock \/ (rowLock = None /\ rowLock' = t)
      /\ tx'[t].pub # tx[t].pub \/ "point" \in {"row", "mirror"} => rowLock' = t
  BY <1>1, <1>2, <1>5 DEF Publish, TxRecords, PointAt, RowFree, Authors
<1> QED BY <1>1, <1>5, <1>6, <1>7, <1>8 DEF Proceeds

LEMMA RepublishStep ==
  ASSUME TypeOK, NEW t \in Tx, Republish(t)
  PROVE  Proceeds(t) /\ tx' \in [Tx -> TxRecords]
<1>1. Active(t) /\ tx[t].todo # <<>> /\ Head(tx[t].todo).st = "point" /\ UNCHANGED Database
  BY DEF Republish, Step, Does
<1>2. /\ tx[t] \in TxRecords /\ tx \in [Tx -> TxRecords] /\ After(t) \in Seq(Statements)
      /\ On(t) \in SUBSET Children /\ View(t) \in Images
  BY <1>1, TxTyped DEF TypeOK
<1> DEFINE q == [tx[t] EXCEPT !.todo = After(t), !.pub = tx[t].about]
<1>3. tx' = [tx EXCEPT ![t] = q]
  BY <1>2 DEF Republish, Writes, PointAt, RowFree
<1>4. q \in TxRecords
  BY <1>1, <1>2 DEF TxRecords, Images
<1>5. tx' \in [Tx -> TxRecords] /\ tx'[t] = q /\ \A u \in Tx \ {t} : tx'[u] = tx[u]
  BY <1>2, <1>3, <1>4
<1>6. Kept(t)
  BY <1>1, <1>2, <1>5 DEF Kept, After, Active, TxRecords, Changing
<1>7. Done(t)
  BY <1>1, <1>2, <1>5 DEF Done, TxRecords, Republish, PointAt, RowFree
<1>8. /\ rowLock' = rowLock \/ (rowLock = None /\ rowLock' = t)
      /\ tx'[t].pub # tx[t].pub \/ "point" \in {"row", "mirror"} => rowLock' = t
  BY <1>1, <1>2, <1>5 DEF Republish, TxRecords, PointAt, RowFree
<1> QED BY <1>1, <1>5, <1>6, <1>7, <1>8 DEF Proceeds

LEMMA SetNullStep ==
  ASSUME TypeOK, NEW t \in Tx, SetNull(t)
  PROVE  Proceeds(t) /\ tx' \in [Tx -> TxRecords]
<1>1. Active(t) /\ tx[t].todo # <<>> /\ Head(tx[t].todo).st = "unpoint" /\ UNCHANGED Database
  BY DEF SetNull, Step, Does
<1>2. /\ tx[t] \in TxRecords /\ tx \in [Tx -> TxRecords] /\ After(t) \in Seq(Statements)
      /\ On(t) \in SUBSET Children /\ View(t) \in Images
  BY <1>1, TxTyped DEF TypeOK
<1>21. PICK x : x = IF published = tx[t].about THEN None ELSE tx[t].pub
  OBVIOUS
<1> DEFINE q == [tx[t] EXCEPT !.todo = After(t), !.pub = x]
<1>3. tx' = [tx EXCEPT ![t] = q]
  BY <1>2, <1>21 DEF SetNull, Writes, RowFree
<1>4. q \in TxRecords
  BY <1>1, <1>2, <1>21 DEF TxRecords, Images
<1>5. tx' \in [Tx -> TxRecords] /\ tx'[t] = q /\ \A u \in Tx \ {t} : tx'[u] = tx[u]
  BY <1>2, <1>3, <1>4
<1>6. Kept(t)
  BY <1>1, <1>2, <1>5 DEF Kept, After, Active, TxRecords, Changing
<1>7. Done(t)
  BY <1>1, <1>2, <1>5, <1>21 DEF Done, TxRecords, SetNull, RowFree
<1>8. /\ rowLock' = rowLock \/ (rowLock = None /\ rowLock' = t)
      /\ tx'[t].pub # tx[t].pub \/ "unpoint" \in {"row", "mirror"} => rowLock' = t
  BY <1>1, <1>2, <1>5, <1>21 DEF SetNull, TxRecords, RowFree
<1> QED BY <1>1, <1>5, <1>6, <1>7, <1>8 DEF Proceeds

LEMMA StatementSteps ==
  ASSUME TypeOK, Greatest, NEW t \in Tx, StatementOf(t), ~Destroy(t)
  PROVE  Proceeds(t) /\ tx' \in [Tx -> TxRecords]
BY UpdateRowStep, WriteChildStep, SeeChildrenStep, ClearChildrenStep, FillChildrenStep, ReadChildrenStep,
   WriteMirrorStep, ReadLastNumberStep, InsertVersionStep, PublishStep, RepublishStep, DropVersionStep, SetNullStep
   DEF StatementOf

LEMMA NewTyped == /\ NewTx \in TxRecords /\ Ended("committed") \in TxRecords /\ Ended("aborted") \in TxRecords
                  /\ Ended("new") = NewTx
<1>1. Empty \in Images /\ <<>> \in Seq(Statements) /\ [c \in Children |-> Same] \in [Children -> Authors \cup {None, Same}]
  BY DEF Empty, Images
<1>2. NewTx \in TxRecords
  BY <1>1 DEF NewTx, TxRecords, Ops
<1> QED BY <1>2 DEF Ended, TxRecords, NewTx

LEMMA BeginsStep ==
  ASSUME Base, NEW t \in Tx, NEW op, NEW C, NEW about, NEW target, Operation(op, C), about \in Authors \cup {None},
         target \in Images, Begins(t, op, C, about, target)
  PROVE  /\ tx[t].phase = "new" /\ UNCHANGED <<Database, rowLock>> /\ tx'[t] = Begun(op, C, about, target)
         /\ \A u \in Tx \ {t} : tx'[u] = tx[u]
         /\ tx' \in [Tx -> TxRecords]
<1>1. tx[t] = NewTx /\ tx[t].phase = "new" /\ UNCHANGED <<Database, rowLock>> /\ tx \in [Tx -> TxRecords] /\ NewTx \in TxRecords
  BY NewTyped DEF Begins, Base, Idle, Active, TypeOK
<1>2. tx' = [tx EXCEPT ![t] = Begun(op, C, about, target)]
  BY <1>1 DEF Begins, Begun
<1>3. Program(op, C) \in Seq(Statements) /\ op \in Ops /\ C \in SUBSET Children
  BY Programs DEF Programmed, Operation
<1>4. Begun(op, C, about, target) \in TxRecords
  BY <1>1, <1>3 DEF Begun, TxRecords
<1> QED BY <1>1, <1>2, <1>4

LEMMA BeginSteps ==
  ASSUME Base, NEW t \in Tx, BeginEdit(t) \/ BeginReplace(t) \/ BeginVersion(t)
  PROVE  Begin(t) /\ tx' \in [Tx -> TxRecords]
<1>1. Empty \in Images /\ \A C \in SUBSET Children : [c \in Children |-> IF c \in C THEN t ELSE None] \in Images
  BY DEF Empty, Images, Authors
<1>2. CASE BeginEdit(t)
  <2>1. PICK C \in SUBSET Children, op \in {"create", "update", "delete"} : Begins(t, op, C, None, Empty)
    <3>1. Elements \subseteq Children /\ Filters \subseteq Children /\ \A c \in Children : {c} \subseteq Children
      BY DEF Children
    <3> HIDE DEF Children
    <3>2. CASE \E C \in {Elements, Filters} : Begins(t, "create", C, None, Empty)
      <4>1. PICK C \in {Elements, Filters} : Begins(t, "create", C, None, Empty)
        BY <3>2
      <4>2. C \subseteq Children /\ "create" \in {"create", "update", "delete"}
        BY <3>1, <4>1
      <4> QED BY <4>1, <4>2
    <3>3. CASE \E c \in Children, op \in {"update", "delete"} : Begins(t, op, {c}, None, Empty)
      <4>1. PICK c \in Children, op \in {"update", "delete"} : Begins(t, op, {c}, None, Empty)
        BY <3>3
      <4>2. {c} \subseteq Children /\ op \in {"create", "update", "delete"}
        BY <3>1, <4>1
      <4> QED BY <4>1, <4>2
    <3> QED BY <1>2, <3>2, <3>3 DEF BeginEdit
  <2>2. Operation(op, C)
    BY <2>1 DEF Operation, Ops
  <2> QED BY <1>1, <2>1, <2>2, BeginsStep DEF Begin
<1>3. CASE BeginReplace(t)
  <2>1. PICK C \in SUBSET Children :
          \/ Begins(t, "replaceFilters", Filters, None, [c \in Children |-> IF c \in C THEN t ELSE None])
          \/ \E D \in {{}, Elements, Filters, Children} :
               Begins(t, "updateDashboard", D, None, [c \in Children |-> IF c \in C THEN t ELSE None])
    BY <1>3 DEF BeginReplace
  <2>2. PICK op \in {"replaceFilters", "updateDashboard"}, D \in {{}, Elements, Filters, Children} :
          /\ op = "replaceFilters" => D = Filters
          /\ Begins(t, op, D, None, [c \in Children |-> IF c \in C THEN t ELSE None])
    BY <2>1
  <2>3. Operation(op, D)
    BY <2>2 DEF Operation, Ops, Children
  <2> QED BY <1>1, <2>2, <2>3, BeginsStep DEF Begin
<1>4. CASE BeginVersion(t)
  <2>1. CASE \E op \in {"publish", "createVersion", "deleteDashboard"} : Begins(t, op, {}, None, Empty)
    <3>1. PICK op \in {"publish", "createVersion", "deleteDashboard"} : Begins(t, op, {}, None, Empty)
      BY <2>1
    <3>2. Operation(op, {})
      BY DEF Operation, Ops
    <3> QED BY <1>1, <3>1, <3>2, BeginsStep DEF Begin
  <2>2. ASSUME NEW v \in Authors, versions[v] # None,
               Begins(t, IF versions[v].isPublished THEN "restore" ELSE "restoreUnpublished", Children, v, versions[v].snapshot)
        PROVE  Begin(t) /\ tx' \in [Tx -> TxRecords]
    <3>1. PICK op : op = IF versions[v].isPublished THEN "restore" ELSE "restoreUnpublished"
      OBVIOUS
    <3>2. Operation(op, Children) /\ (op = "restore" => versions[v].isPublished) /\ op \in {"restore", "restoreUnpublished"}
      BY <3>1 DEF Operation, Ops
    <3>3. versions[v].snapshot \in Images /\ v # None
      BY <2>2, DashboardStoreAssumption DEF Base, TypeOK, VersionRecords
    <3>4. Begins(t, op, Children, v, versions[v].snapshot)
      BY <2>2, <3>1
    <3> QED BY <2>2, <3>2, <3>3, <3>4, BeginsStep DEF Begin
  <2>3. ASSUME NEW v \in Authors, versions[v] # None, Begins(t, "deleteVersion", {}, v, Empty)
        PROVE  Begin(t) /\ tx' \in [Tx -> TxRecords]
    <3>1. Operation("deleteVersion", {}) /\ v # None
      BY DashboardStoreAssumption DEF Operation, Ops
    <3> QED BY <1>1, <2>3, <3>1, BeginsStep DEF Begin
  <2> QED BY <1>4, <2>1, <2>2, <2>3 DEF BeginVersion
<1> QED BY <1>2, <1>3, <1>4

LEMMA ToldStep ==
  ASSUME TypeOK, NEW t \in Tx, NEW C \in SUBSET Children, NEW deleted \in BOOLEAN, tx' = Told(t, C, deleted)
  PROVE  tx' \in [Tx -> TxRecords] /\ tx'[t] = Ended("committed") /\ Tells(t, C, deleted)
<1>1. tx \in [Tx -> TxRecords] /\ Ended("committed") \in TxRecords
  BY NewTyped DEF TypeOK
<1>2. \A u \in Tx : MakesVersion(u) <=> tx[u].op \in Making
  BY DEF MakesVersion, Making
<1>3. tx'[t] = Ended("committed") /\ Tells(t, C, deleted)
  BY <1>2 DEF Told, Tells
<1>4. ASSUME NEW u \in Tx \ {t} PROVE tx'[u] \in TxRecords
  <2>1. tx[u] \in TxRecords
    BY <1>1
  <2>2. CASE Active(u)
    <3>1. PICK missed, touched, deletion :
            /\ missed = tx[u].missed \cup (C \ Unread(u))
            /\ touched = IF tx[u].op \in Making THEN tx[u].touched \cup C ELSE tx[u].touched
            /\ deletion = (tx[u].op \in Making /\ (tx[u].deletion \/ deleted))
      OBVIOUS
    <3>2. missed \in SUBSET Children /\ touched \in SUBSET Children /\ deletion \in BOOLEAN
      BY <2>1, <3>1 DEF TxRecords
    <3>3. tx'[u] = [tx[u] EXCEPT !.missed = missed, !.touched = touched, !.deletion = deletion]
      BY <1>3, <2>2, <3>1 DEF Tells
    <3> QED BY <2>1, <3>2, <3>3 DEF TxRecords
  <2>3. CASE ~Active(u)
    BY <1>3, <2>1, <2>3 DEF Tells
  <2> QED BY <2>2, <2>3
<1>5. tx' = [u \in Tx |-> tx'[u]]
  BY DEF Told
<1> QED BY <1>1, <1>3, <1>4, <1>5

LEMMA CommitStep ==
  ASSUME TypeOK, NEW t \in Tx, Commit(t)
  PROVE  Commits(t) /\ tx' \in [Tx -> TxRecords] /\ versions' \in [Authors -> VersionRecords \cup {None}]
<1>1. Active(t) /\ tx[t].todo # <<>> /\ Head(tx[t].todo).st = "commit"
  BY DEF Commit, Does
<1> DEFINE gone == IF tx[t].op = "deleteVersion" THEN {tx[t].about} ELSE {}
<1>2. gone # {} <=> tx[t].op = "deleteVersion"
  OBVIOUS
<1>3. tx[t].deletion \in BOOLEAN
  BY DEF TypeOK, TxRecords
<1>4. tx' = Told(t, Changed(t), tx[t].op = "deleteVersion" \/ tx[t].deletion)
  BY <1>2 DEF Commit, Changed
<1>5. tx' \in [Tx -> TxRecords] /\ tx'[t] = Ended("committed") /\ Tells(t, Changed(t), tx[t].op = "deleteVersion" \/ tx[t].deletion)
  BY <1>3, <1>4, ToldStep DEF Changed
<1>6. versions' \in [Authors -> VersionRecords \cup {None}]
  <2>1. versions \in [Authors -> VersionRecords \cup {None}] /\ tx[t].version \in VersionRecords \cup {None} /\ clock + 1 \in Nat
    BY DEF TypeOK, TxRecords
  <2>2. tx[t].version # None => [tx[t].version EXCEPT !.at = clock + 1, !.late = tx[t].deletion] \in VersionRecords
    BY <1>3, <2>1 DEF VersionRecords
  <2> QED BY <2>1, <2>2 DEF Commit
<1>7. \A v \in Authors : versions'[v] =
       IF tx[t].op = "deleteVersion" /\ v = tx[t].about THEN None
       ELSE IF v = t /\ tx[t].version # None
       THEN [tx[t].version EXCEPT !.at = clock + 1, !.late = tx[t].deletion] ELSE versions[v]
  BY DEF Commit
<1>8. /\ children' = View(t) /\ mirror' = (IF tx[t].synced THEN tx[t].image ELSE mirror)
      /\ published' = (IF tx[t].pub = Same THEN published ELSE tx[t].pub)
      /\ rowLock' = (IF rowLock = t THEN None ELSE rowLock)
      /\ clock' = clock + 1 /\ exists' = exists
      /\ lag' = IF tx[t].synced THEN tx[t].missed ELSE lag
  BY DEF Commit
<1> QED BY <1>1, <1>5, <1>6, <1>7, <1>8 DEF Commits

LEMMA DestroyStep ==
  ASSUME TypeOK, NEW t \in Tx, Destroy(t)
  PROVE  Destroys(t) /\ tx' \in [Tx -> TxRecords]
<1>1. /\ Active(t) /\ tx[t].todo # <<>> /\ Head(tx[t].todo).st = "destroy"
      /\ rowLock = t /\ rowLock' = None
  BY DEF Destroy, Does
<1>2. \A u \in Others(t) : tx[u].version = None /\ \A c \in Children : tx[u].own[c] = Same
  BY DEF Destroy, Unlocked
<1>3. tx' \in [Tx -> TxRecords] /\ tx'[t] = Ended("committed") /\ Tells(t, Children, TRUE)
  BY ToldStep DEF Destroy
<1> QED BY <1>1, <1>2, <1>3 DEF Destroys, Destroy

LEMMA AbortStep ==
  ASSUME TypeOK, NEW t \in Tx, Abort(t)
  PROVE  Fails(t) /\ tx' \in [Tx -> TxRecords]
BY NewTyped DEF Abort, Fails, TypeOK

LEMMA NextSteps ==
  ASSUME Base, [Next]_vars
  PROVE  /\ tx' \in [Tx -> TxRecords] /\ versions' \in [Authors -> VersionRecords \cup {None}]
         /\ \/ \E t \in Tx : Begin(t) \/ Proceeds(t) \/ Commits(t) \/ Destroys(t) \/ Fails(t)
            \/ UNCHANGED vars
<1>1. TypeOK /\ Greatest /\ tx \in [Tx -> TxRecords] /\ versions \in [Authors -> VersionRecords \cup {None}]
  BY DEF Base, TypeOK
<1>2. CASE UNCHANGED vars
  BY <1>1, <1>2 DEF vars
<1>3. ASSUME NEW t \in Tx, BeginEdit(t) \/ BeginReplace(t) \/ BeginVersion(t)
      PROVE  Begin(t) /\ tx' \in [Tx -> TxRecords] /\ versions' = versions
  BY <1>3, BeginSteps DEF Begin, Database
<1>4. ASSUME NEW t \in Tx, StatementOf(t), ~Destroy(t)
      PROVE  Proceeds(t) /\ tx' \in [Tx -> TxRecords] /\ versions' = versions
  BY <1>1, <1>4, StatementSteps DEF Proceeds, Database
<1>5. ASSUME NEW t \in Tx, Destroy(t)
      PROVE  Destroys(t) /\ tx' \in [Tx -> TxRecords] /\ versions' \in [Authors -> VersionRecords \cup {None}]
  BY <1>1, <1>5, DestroyStep DEF Destroys
<1>6. ASSUME NEW t \in Tx, Commit(t)
      PROVE  Commits(t) /\ tx' \in [Tx -> TxRecords] /\ versions' \in [Authors -> VersionRecords \cup {None}]
  BY <1>1, <1>6, CommitStep
<1>7. ASSUME NEW t \in Tx, Abort(t)
      PROVE  Fails(t) /\ tx' \in [Tx -> TxRecords] /\ versions' = versions
  BY <1>1, <1>7, AbortStep DEF Fails, Database
<1>8. ASSUME Finished PROVE UNCHANGED vars
  BY <1>8 DEF Finished
<1> QED BY <1>1, <1>2, <1>3, <1>4, <1>5, <1>6, <1>7, <1>8 DEF Next

(* What one transaction's end tells another. *)
LEMMA TellsKeeps ==
  ASSUME TypeOK, NEW t \in Tx, NEW C, NEW deleted, Tells(t, C, deleted), NEW u \in Tx \ {t}
  PROVE  /\ tx'[u].phase = tx[u].phase /\ tx'[u].op = tx[u].op /\ tx'[u].todo = tx[u].todo /\ tx'[u].on = tx[u].on
         /\ tx'[u].about = tx[u].about /\ tx'[u].target = tx[u].target /\ tx'[u].own = tx[u].own
         /\ tx'[u].seen = tx[u].seen /\ tx'[u].image = tx[u].image /\ tx'[u].synced = tx[u].synced
         /\ tx'[u].pub = tx[u].pub /\ tx'[u].version = tx[u].version /\ tx'[u].last = tx[u].last
         /\ ~Active(u) => tx'[u] = tx[u]
         /\ Active(u) => /\ tx'[u].missed = tx[u].missed \cup (C \ Unread(u))
                         /\ tx[u].op \in Making => /\ tx'[u].touched = tx[u].touched \cup C
                                                   /\ tx'[u].deletion = (tx[u].deletion \/ deleted)
<1>1. tx[u] \in TxRecords
  BY DEF TypeOK
<1>2. CASE ~Active(u)
  BY <1>1, <1>2 DEF Tells
<1>3. CASE Active(u)
  <2>1. tx'[u] = [tx[u] EXCEPT !.missed = @ \cup (C \ Unread(u)),
                               !.touched = IF tx[u].op \in Making THEN @ \cup C ELSE @,
                               !.deletion = tx[u].op \in Making /\ (@ \/ deleted)]
    BY <1>3 DEF Tells
  <2> QED BY <1>1, <1>3, <2>1 DEF TxRecords
<1> QED BY <1>2, <1>3

LEMMA EndedKeepsNothing ==
  \A phase \in {"new", "committed", "aborted"} :
    /\ Ended(phase).phase = phase /\ Ended(phase).pub = Same /\ Ended(phase).version = None
BY DEF Ended, NewTx

(* What a transaction is when it has begun. *)
LEMMA BeginFields ==
  ASSUME NEW t \in Tx, Begin(t)
  PROVE  LET r == tx'[t] IN
         /\ tx[t].phase = "new" /\ \A u \in Tx \ {t} : tx'[u] = tx[u]
         /\ UNCHANGED Database /\ rowLock' = rowLock
         /\ r.phase = "active" /\ Operation(r.op, r.on) /\ Programmed(r.todo, r.op, r.on)
         /\ r.about \in Authors \cup {None} /\ r.target \in Images
         /\ IF r.op \in {"restore", "restoreUnpublished", "deleteVersion"}
            THEN r.about # None /\ versions[r.about] # None ELSE r.about = None
         /\ r.op = "restore" => versions[r.about].isPublished
         /\ r.own = [c \in Children |-> Same] /\ r.seen = {} /\ r.image = Empty
         /\ r.synced = FALSE /\ r.pub = Same /\ r.version = None /\ r.last = 0
         /\ r.missed = {} /\ r.touched = {} /\ r.deletion = FALSE
<1>1. PICK op, C, about, target :
  /\ tx[t].phase = "new"
  /\ Operation(op, C) /\ about \in Authors \cup {None} /\ target \in Images
  /\ IF op \in {"restore", "restoreUnpublished", "deleteVersion"} THEN about # None /\ versions[about] # None ELSE about = None
  /\ op = "restore" => versions[about].isPublished
  /\ tx'[t] = Begun(op, C, about, target)
  /\ \A u \in Tx \ {t} : tx'[u] = tx[u]
  /\ UNCHANGED <<Database, rowLock>>
  BY DEF Begin
<1>2. Programmed(Program(op, C), op, C)
  BY <1>1, Programs
<1> DEFINE b == Begun(op, C, about, target)
<1>3. /\ b.phase = "active" /\ b.op = op /\ b.todo = Program(op, C) /\ b.on = C /\ b.about = about
      /\ b.target = target /\ b.own = [c \in Children |-> Same] /\ b.seen = {} /\ b.image = Empty
      /\ b.synced = FALSE /\ b.pub = Same /\ b.version = None /\ b.last = 0
      /\ b.missed = {} /\ b.touched = {} /\ b.deletion = FALSE
  BY DEF Begun, NewTx
<1>4. tx'[t] = b
  BY <1>1
<1> HIDE DEF b
<1>5. Operation(b.op, b.on) /\ Programmed(b.todo, b.op, b.on)
  BY <1>1, <1>2, <1>3
<1> QED BY <1>1, <1>3, <1>4, <1>5

LEMMA InitBase == Init => Base
<1> SUFFICES ASSUME Init PROVE Base
  OBVIOUS
<1>1. tx \in [Tx -> TxRecords] /\ \A t \in Tx : tx[t] = Ended("new") /\ tx[t].phase = "new" /\ ~Active(t)
  BY NewTyped DEF Init, NewTx, Active
<1>2. children \in Images /\ [number |-> 1, snapshot |-> children, isPublished |-> TRUE, at |-> 0, late |-> FALSE] \in VersionRecords
  BY DEF Init, Images, VersionRecords, Authors
<1>3. TypeOK
  BY <1>1, <1>2 DEF Init, TypeOK, Authors
<1>4. Idle /\ UnderWay /\ RowWriter /\ Copied
  BY <1>1 DEF Idle, UnderWay, RowWriter, Copied
<1>5. Greatest
  <2>1. Numbers \subseteq {1}
    BY DashboardStoreAssumption DEF Numbers, Init
  <2>2. ASSUME NEW N \in SUBSET Numbers, N # {} PROVE \E n \in N : \A m \in N : m <= n
    <3>1. 1 \in N /\ \A m \in N : m = 1
      BY <2>1, <2>2
    <3> QED BY <3>1
  <2> QED BY <2>2 DEF Greatest
<1> QED BY <1>3, <1>4, <1>5 DEF Base

LEMMA TypeStep ==
  ASSUME Base, [Next]_vars
  PROVE  TypeOK'
<1>1. TypeOK /\ tx' \in [Tx -> TxRecords] /\ versions' \in [Authors -> VersionRecords \cup {None}]
  BY NextSteps DEF Base
<1>2. ASSUME NEW t \in Tx, Begin(t) PROVE TypeOK'
  BY <1>1, <1>2 DEF Begin, Database, dashboardRow, TypeOK
<1>3. ASSUME NEW t \in Tx, Proceeds(t) PROVE TypeOK'
  BY <1>1, <1>3 DEF Proceeds, Database, dashboardRow, TypeOK
<1>4. ASSUME NEW t \in Tx, Commits(t) PROVE TypeOK'
  <2>1. View(t) \in Images
    BY <1>1, <1>4, TxTyped DEF Commits
  <2>2. tx[t].image \in Images /\ tx[t].pub \in Authors \cup {None, Same} /\ tx[t].missed \in SUBSET Children
    BY <1>1 DEF TypeOK, TxRecords
  <2> QED BY <1>1, <1>4, <2>1, <2>2 DEF Commits, TypeOK
<1>5. ASSUME NEW t \in Tx, Destroys(t) PROVE TypeOK'
  <2>1. Empty \in Images /\ {} \in SUBSET Children /\ clock + 1 \in Nat
    BY <1>1 DEF Empty, Images, TypeOK
  <2>2. /\ exists' = FALSE /\ children' = Empty /\ mirror' = Empty /\ published' = None
        /\ clock' = clock + 1 /\ lag' = {} /\ rowLock' = None
    BY <1>5 DEF Destroys
  <2> QED BY <1>1, <2>1, <2>2 DEF TypeOK
<1>6. ASSUME NEW t \in Tx, Fails(t) PROVE TypeOK'
  BY <1>1, <1>6 DEF Fails, Database, dashboardRow, TypeOK
<1>7. CASE UNCHANGED vars
  BY <1>1, <1>7 DEF vars, dashboardRow, TypeOK
<1> QED BY <1>2, <1>3, <1>4, <1>5, <1>6, <1>7, NextSteps

LEMMA IdleStep ==
  ASSUME Base, [Next]_vars
  PROVE  Idle'
<1>0. TypeOK /\ Idle
  BY DEF Base
<1>1. SUFFICES ASSUME NEW u \in Tx PROVE tx'[u].phase = "active" \/ tx'[u] = Ended(tx'[u].phase)
  BY DEF Idle, Active
<1>2. tx'[u] = tx[u] => tx'[u].phase = "active" \/ tx'[u] = Ended(tx'[u].phase)
  BY <1>0 DEF Idle, Active
<1>3. ASSUME NEW t \in Tx, Begin(t) PROVE tx'[u] = tx[u] \/ tx'[u].phase = "active"
  BY <1>3, BeginFields
<1>4. ASSUME NEW t \in Tx, Proceeds(t) PROVE tx'[u] = tx[u] \/ tx'[u].phase = "active"
  BY <1>4 DEF Proceeds, Kept
<1>5. ASSUME NEW t \in Tx, NEW C, NEW d, Tells(t, C, d), tx'[t] = Ended("committed")
      PROVE  tx'[u].phase = "active" \/ tx'[u] = Ended(tx'[u].phase)
  BY <1>0, <1>2, <1>5, TellsKeeps, EndedKeepsNothing DEF Active
<1>6. ASSUME NEW t \in Tx, Commits(t) \/ Destroys(t)
      PROVE  tx'[u].phase = "active" \/ tx'[u] = Ended(tx'[u].phase)
  BY <1>5, <1>6 DEF Commits, Destroys
<1>7. ASSUME NEW t \in Tx, Fails(t)
      PROVE  tx'[u].phase = "active" \/ tx'[u] = Ended(tx'[u].phase)
  BY <1>2, <1>7, EndedKeepsNothing DEF Fails
<1>8. CASE UNCHANGED vars
  BY <1>2, <1>8 DEF vars
<1> QED BY <1>2, <1>3, <1>4, <1>6, <1>7, <1>8, NextSteps

Acts(t) == Begin(t) \/ Proceeds(t) \/ Commits(t) \/ Destroys(t) \/ Fails(t)

LEMMA NextActs == ASSUME Base, [Next]_vars PROVE (\E t \in Tx : Acts(t)) \/ UNCHANGED vars
BY NextSteps DEF Acts

(* A transaction's step leaves the others as they were, but for what the   *)
(* histories record.                                                       *)
SameButTold(u) ==
  /\ tx'[u].phase = tx[u].phase /\ tx'[u].op = tx[u].op /\ tx'[u].todo = tx[u].todo /\ tx'[u].on = tx[u].on
  /\ tx'[u].about = tx[u].about /\ tx'[u].target = tx[u].target /\ tx'[u].own = tx[u].own
  /\ tx'[u].seen = tx[u].seen /\ tx'[u].image = tx[u].image /\ tx'[u].synced = tx[u].synced
  /\ tx'[u].pub = tx[u].pub /\ tx'[u].version = tx[u].version /\ tx'[u].last = tx[u].last

LEMMA DestroyTells ==
  ASSUME TypeOK, NEW t \in Tx, Destroys(t), NEW u \in Tx \ {t}
  PROVE  /\ SameButTold(u)
         /\ Active(u) => /\ tx'[u].missed = tx[u].missed \cup (Children \ Unread(u))
                         /\ tx[u].op \in Making => tx'[u].touched = tx[u].touched \cup Children /\ tx'[u].deletion
<1>1. tx[u] \in TxRecords
  BY DEF TypeOK
<1>2. CASE ~Active(u)
  BY <1>2 DEF Destroys, Tells, SameButTold
<1>3. CASE Active(u)
  <2>1. tx'[u] = [tx[u] EXCEPT !.missed = @ \cup (Children \ Unread(u)),
                               !.touched = IF tx[u].op \in Making THEN @ \cup Children ELSE @,
                               !.deletion = tx[u].op \in Making /\ (@ \/ TRUE)]
    BY <1>3 DEF Destroys, Tells
  <2> QED BY <1>1, <1>3, <2>1 DEF TxRecords, SameButTold
<1> QED BY <1>2, <1>3

LEMMA OthersKeep ==
  ASSUME Base, NEW t \in Tx, Acts(t), NEW u \in Tx \ {t}
  PROVE  SameButTold(u)
<1>1. CASE Begin(t)
  BY <1>1, BeginFields DEF SameButTold
<1>2. CASE Proceeds(t) \/ Fails(t)
  BY <1>2 DEF Proceeds, Fails, SameButTold
<1>3. CASE Commits(t)
  BY <1>3, TellsKeeps DEF Commits, SameButTold, Base
<1>4. CASE Destroys(t)
  BY <1>4, DestroyTells DEF Base
<1> QED BY <1>1, <1>2, <1>3, <1>4 DEF Acts

(* Whoever acts is under way afterwards only if it began or went on. *)
LEMMA ActorEnds ==
  ASSUME NEW t \in Tx, Acts(t), tx'[t].phase = "active"
  PROVE  Begin(t) \/ Proceeds(t)
BY EndedKeepsNothing DEF Acts, Commits, Destroys, Fails

LEMMA ActorWas == ASSUME NEW t \in Tx, Acts(t) PROVE Active(t) \/ Begin(t)
BY DEF Acts, Proceeds, Commits, Destroys, Fails

(* What a transaction under way has still to do. *)
LEMMA TodoFacts ==
  ASSUME Base, NEW t \in Tx, Active(t)
  PROVE  /\ tx[t].todo \in Seq(Statements) /\ tx[t].todo # <<>> /\ tx[t] \in TxRecords
         /\ Ordered(tx[t].todo, tx[t].op, tx[t].on) /\ Operation(tx[t].op, tx[t].on)
         /\ View(t) \in Images /\ On(t) = Head(tx[t].todo).on /\ On(t) \in SUBSET Children
BY TxTyped DEF Base, UnderWay, TypeOK, TxRecords, On

LEMMA UnderWayStep ==
  ASSUME Base, [Next]_vars
  PROVE  UnderWay'
<1>1. SUFFICES ASSUME NEW t \in Tx, Acts(t), NEW u \in Tx, tx'[u].phase = "active"
               PROVE  /\ tx'[u].todo # <<>> /\ Ordered(tx'[u].todo, tx'[u].op, tx'[u].on)
                      /\ Operation(tx'[u].op, tx'[u].on)
  BY NextActs DEF Base, UnderWay, vars, Active
<1>2. CASE u # t
  <2>1. SameButTold(u)
    BY <1>1, <1>2, OthersKeep
  <2> QED BY <1>1, <2>1 DEF SameButTold, Base, UnderWay, Active
<1>3. CASE u = t /\ Begin(t)
  BY <1>3, BeginFields DEF Programmed, Starts
<1>4. CASE u = t /\ Proceeds(t)
  <2>1. /\ tx[t].todo \in Seq(Statements) /\ tx[t].todo # <<>>
        /\ Ordered(tx[t].todo, tx[t].op, tx[t].on) /\ Operation(tx[t].op, tx[t].on)
    BY <1>4, TodoFacts DEF Proceeds
  <2>2. Head(tx[t].todo).st # "commit" /\ tx'[t].todo = Tail(tx[t].todo) /\ tx'[t].op = tx[t].op /\ tx'[t].on = tx[t].on
    BY <1>4 DEF Proceeds, Kept
  <2> QED BY <1>4, <2>1, <2>2, OrderedTail, OrderedHead
<1> QED BY <1>1, <1>2, <1>3, <1>4, ActorEnds

(* The row stays with its writer until that one ends. *)
LEMMA RowLockStays ==
  ASSUME Base, NEW t \in Tx, Acts(t), NEW u \in Tx \ {t}, rowLock = u
  PROVE  rowLock' = u
BY BeginFields, DashboardStoreAssumption DEF Acts, Proceeds, Commits, Destroys, Fails, Authors

LEMMA RowWriterStep ==
  ASSUME Base, [Next]_vars
  PROVE  RowWriter'
<1>1. SUFFICES ASSUME NEW t \in Tx, Acts(t), NEW u \in Tx, tx'[u].phase = "active", tx'[u].pub # Same \/ tx'[u].synced
               PROVE  rowLock' = u
  BY NextActs DEF Base, RowWriter, vars, Active
<1>2. CASE u # t
  <2>1. SameButTold(u)
    BY <1>1, <1>2, OthersKeep
  <2> QED BY <1>1, <1>2, <2>1, RowLockStays DEF SameButTold, Base, RowWriter, Active
<1>3. CASE u = t /\ Begin(t)
  BY <1>1, <1>3, BeginFields
<1>4. CASE u = t /\ Proceeds(t)
  <2>1. rowLock = t => rowLock' = t
    BY <1>4, DashboardStoreAssumption DEF Proceeds, Authors
  <2>2. CASE tx'[t].pub # tx[t].pub \/ Head(tx[t].todo).st = "mirror"
    BY <1>4, <2>2 DEF Proceeds
  <2>3. CASE tx'[t].pub = tx[t].pub /\ Head(tx[t].todo).st # "mirror"
    BY <1>1, <1>4, <2>1, <2>3 DEF Proceeds, Kept, Base, RowWriter
  <2> QED BY <1>4, <2>2, <2>3
<1> QED BY <1>1, <1>2, <1>3, <1>4, ActorEnds

LEMMA CopiedStep ==
  ASSUME Base, [Next]_vars
  PROVE  Copied'
<1>1. SUFFICES ASSUME NEW t \in Tx, Acts(t), NEW u \in Tx, tx'[u].phase = "active"
               PROVE  Has(tx'[u].todo, "mirror") \/ tx'[u].synced \/ \A c \in Children : tx'[u].own[c] = Same
  BY NextActs DEF Base, Copied, vars, Active
<1>2. CASE u # t
  <2>1. SameButTold(u)
    BY <1>1, <1>2, OthersKeep
  <2> QED BY <1>1, <2>1 DEF SameButTold, Base, Copied, Active
<1>3. CASE u = t /\ Begin(t)
  BY <1>3, BeginFields
<1>4. CASE u = t /\ Proceeds(t)
  <2>1. /\ tx[t].todo \in Seq(Statements) /\ tx[t].todo # <<>> /\ Active(t)
        /\ Ordered(tx[t].todo, tx[t].op, tx[t].on)
    BY <1>4, TodoFacts DEF Proceeds
  <2>2. tx'[t].todo = Tail(tx[t].todo)
    BY <1>4 DEF Proceeds, Kept
  <2>3. CASE Head(tx[t].todo).st \in Changing
    BY <1>4, <2>1, <2>2, <2>3, OrderedHead
  <2>4. CASE Head(tx[t].todo).st = "mirror"
    BY <1>4, <2>4 DEF Proceeds, Done
  <2>5. CASE Head(tx[t].todo).st \notin Changing \cup {"mirror"}
    <3>1. tx'[t].own = tx[t].own /\ tx'[t].synced = tx[t].synced
      BY <1>4, <2>5 DEF Proceeds, Kept
    <3>2. Has(tx[t].todo, "mirror") => Has(tx'[t].todo, "mirror")
      BY <2>1, <2>2, <2>5, HasTail
    <3> QED BY <1>4, <2>1, <3>1, <3>2 DEF Base, Copied
  <2> QED BY <2>3, <2>4, <2>5
<1> QED BY <1>1, <1>2, <1>3, <1>4, ActorEnds

(* The numbers after a step: those that were there, and the one committed. *)
LEMMA NumbersTyped == TypeOK => Numbers \subseteq Nat
BY DEF Numbers, TypeOK, VersionRecords

LEMMA NumbersAfter ==
  ASSUME Base, NEW t \in Tx, Acts(t)
  PROVE  /\ Commits(t) => \A n \in Numbers' : n \in Numbers \/ (tx[t].version # None /\ n = tx[t].version.number)
         /\ ~Commits(t) => Numbers' = Numbers \/ Numbers' = {}
<1>1. CASE Commits(t)
  <2>1. SUFFICES ASSUME NEW n \in Numbers'
                 PROVE  n \in Numbers \/ (tx[t].version # None /\ n = tx[t].version.number)
    BY <1>1
  <2>2. PICK v \in Authors : versions'[v] # None /\ n = versions'[v].number
    BY <2>1 DEF Numbers
  <2>3. CASE versions'[v] = versions[v]
    BY <2>2, <2>3 DEF Numbers
  <2>4. CASE versions'[v] # versions[v]
    <3>1. tx[t].version # None /\ versions'[v] = [tx[t].version EXCEPT !.at = clock + 1, !.late = tx[t].deletion]
      BY <1>1, <2>2, <2>4 DEF Commits
    <3>2. tx[t].version \in VersionRecords
      BY <3>1 DEF Base, TypeOK, TxRecords
    <3>3. versions'[v].number = tx[t].version.number
      BY <3>1, <3>2 DEF VersionRecords
    <3> QED BY <2>2, <3>1, <3>3
  <2> QED BY <2>3, <2>4
<1>2. CASE Destroys(t)
  <2>1. Numbers' = {}
    BY <1>2 DEF Numbers, Destroys
  <2> QED BY <2>1, <1>1
<1>3. CASE Begin(t) \/ Proceeds(t) \/ Fails(t)
  <2>1. versions' = versions
    BY <1>3, BeginFields DEF Proceeds, Fails, Database
  <2>2. Numbers' = Numbers
    BY <2>1 DEF Numbers
  <2> QED BY <2>2, <1>1
<1> QED BY <1>1, <1>2, <1>3 DEF Acts

LEMMA GreatestStep ==
  ASSUME Base, [Next]_vars
  PROVE  Greatest'
<1>1. CASE UNCHANGED vars
  <2>1. Numbers' = Numbers
    BY <1>1 DEF Numbers, vars
  <2> QED BY <2>1 DEF Base, Greatest
<1>2. ASSUME NEW t \in Tx, Acts(t) PROVE Greatest'
  <2>0. Greatest /\ TypeOK /\ Numbers \subseteq Nat
    BY NumbersTyped DEF Base
  <2>1. CASE Commits(t) /\ tx[t].version # None
    <3>1. PICK new \in Nat : \A n \in Numbers' : n \in Numbers \/ n = new
      <4>1. tx[t].version.number \in Nat
        BY <2>0, <2>1 DEF TypeOK, TxRecords, VersionRecords
      <4> QED BY <1>2, <2>1, <4>1, NumbersAfter
    <3>2. SUFFICES ASSUME NEW N \in SUBSET Numbers', N # {}
                   PROVE  \E n \in N : \A m \in N : m <= n
      BY DEF Greatest
    <3>3. N \ {new} \in SUBSET Numbers
      BY <3>1
    <3>4. CASE N \ {new} = {}
      <4>1. new \in N /\ \A m \in N : m = new
        BY <3>2, <3>4
      <4> QED BY <4>1
    <3>5. CASE N \ {new} # {}
      <4>1. PICK n \in N \ {new} : \A m \in N \ {new} : m <= n
        BY <2>0, <3>3, <3>5 DEF Greatest
      <4>2. n \in Nat /\ new \in Nat /\ \A m \in N : m <= n \/ m = new
        BY <2>0, <3>3, <4>1
      <4>3. CASE new \in N /\ n <= new
        <5>1. \A m \in N : m <= new
          BY <2>0, <3>1, <3>3, <4>1, <4>2, <4>3
        <5> QED BY <4>3, <5>1
      <4>4. CASE ~(new \in N /\ n <= new)
        <5>1. \A m \in N : m <= n
          BY <4>1, <4>2, <4>4
        <5> QED BY <4>1, <5>1
      <4> QED BY <4>3, <4>4
    <3> QED BY <3>4, <3>5
  <2>2. CASE ~(Commits(t) /\ tx[t].version # None)
    <3>1. Numbers' \subseteq Numbers
      BY <1>2, <2>2, NumbersAfter
    <3> QED BY <2>0, <3>1 DEF Greatest
  <2> QED BY <2>1, <2>2
<1> QED BY <1>1, <1>2, NextActs

LEMMA BaseStep == Base /\ [Next]_vars => Base'
BY TypeStep, IdleStep, UnderWayStep, RowWriterStep, CopiedStep, GreatestStep DEF Base

(* Every transaction of the store goes on along the program of its         *)
(* operation, with the locks and the copies its place in it implies; the   *)
(* numbers of versions have a greatest one (the client.query calls of each *)
(* method of PostgresDashboardStore, in their order).                      *)
THEOREM StoreInvariant == Spec => []Base
BY InitBase, BaseStep, PTL DEF Spec

-----------------------------------------------------------------------------
(* The version the row names. *)

LEMMA InitPublication == Init => PublicationInv
<1> SUFFICES ASSUME Init PROVE PublicationInv
  OBVIOUS
<1>1. \A t \in Tx : ~Active(t)
  BY DEF Init, NewTx, Active
<1>2. [number |-> 1, snapshot |-> children, isPublished |-> TRUE, at |-> 0, late |-> FALSE] \in VersionRecords
  BY DEF Init, Images, VersionRecords, Authors
<1>3. PublishedVersionExists
  BY <1>2, DashboardStoreAssumption DEF Init, PublishedVersionExists, Authors
<1>4. VersionsCommitted
  BY DashboardStoreAssumption DEF Init, VersionsCommitted, Committed
<1>5. AboutCommitted /\ PublishesOwn /\ PubIsThere /\ DroppedIsUnnamed
  BY <1>1 DEF AboutCommitted, PublishesOwn, PubIsThere, DroppedIsUnnamed
<1> QED BY <1>3, <1>4, <1>5 DEF PublicationInv

LEMMA CommittedStays ==
  ASSUME Base, NEW t \in Tx, Acts(t), NEW v, Committed(v)
  PROVE  v # t /\ Committed(v)'
<1>1. tx[t].phase # "committed"
  BY ActorWas, BeginFields DEF Active
<1>2. v # t
  BY <1>1 DEF Committed
<1>3. v \in Tx => tx'[v].phase = tx[v].phase
  BY <1>2, OthersKeep DEF SameButTold
<1> QED BY <1>2, <1>3 DEF Committed

(* What becomes of a version: it stays as it is, is committed, or is gone. *)
LEMMA VersionAfter ==
  ASSUME Base, NEW t \in Tx, Acts(t), NEW v \in Authors, versions'[v] # versions[v]
  PROVE  /\ Commits(t) \/ Destroys(t)
         /\ \/ versions'[v] = None
            \/ /\ Commits(t) /\ v = t /\ tx[t].version # None /\ versions'[v] # None
               /\ versions'[v] = [tx[t].version EXCEPT !.at = clock + 1, !.late = tx[t].deletion]
         /\ Commits(t) /\ versions'[v] = None => tx[t].op = "deleteVersion" /\ v = tx[t].about
<1>1. CASE Commits(t)
  <2>1. tx[t].version # None =>
          tx[t].version \in VersionRecords /\ [tx[t].version EXCEPT !.at = clock + 1, !.late = tx[t].deletion] \in VersionRecords
    <3>1. tx[t].version \in VersionRecords \cup {None} /\ clock + 1 \in Nat /\ tx[t].deletion \in BOOLEAN
      BY DEF Base, TypeOK, TxRecords
    <3> QED BY <3>1 DEF VersionRecords
  <2>2. tx[t].version # None => [tx[t].version EXCEPT !.at = clock + 1, !.late = tx[t].deletion] # None
    BY <2>1, DashboardStoreAssumption
  <2> QED BY <1>1, <2>2 DEF Commits
<1>2. CASE Destroys(t)
  <2>1. versions'[v] = None /\ ~Commits(t)
    BY <1>2 DEF Destroys, Commits
  <2> QED BY <1>2, <2>1
<1>3. CASE Begin(t) \/ Proceeds(t) \/ Fails(t)
  <2>1. versions' = versions
    BY <1>3, BeginFields DEF Proceeds, Fails, Database
  <2> QED BY <2>1
<1> QED BY <1>1, <1>2, <1>3 DEF Acts

LEMMA VersionsCommittedStep ==
  ASSUME Base, VersionsCommitted, NEW t \in Tx, Acts(t)
  PROVE  VersionsCommitted'
<1>1. SUFFICES ASSUME NEW v \in Authors, versions'[v] # None PROVE Committed(v)'
  BY DEF VersionsCommitted
<1>2. CASE versions'[v] = versions[v]
  BY <1>1, <1>2, CommittedStays DEF VersionsCommitted
<1>3. CASE versions'[v] # versions[v]
  <2>1. Commits(t) /\ v = t
    BY <1>1, <1>3, VersionAfter
  <2>2. tx'[t].phase = "committed"
    BY <2>1, EndedKeepsNothing DEF Commits
  <2> QED BY <2>1, <2>2 DEF Committed
<1> QED BY <1>2, <1>3

LEMMA AboutCommittedStep ==
  ASSUME Base, VersionsCommitted, AboutCommitted, NEW t \in Tx, Acts(t)
  PROVE  AboutCommitted'
<1>1. SUFFICES ASSUME NEW u \in Tx, tx'[u].phase = "active", NEW v, v = tx'[u].about
               PROVE  /\ v # None => Committed(v)'
                      /\ tx'[u].op \in {"restore", "deleteVersion"} => v # None
                      /\ tx'[u].op = "restore" /\ versions'[v] # None => versions'[v].isPublished
  BY DEF AboutCommitted, Active, Committed
<1>2. CASE u = t /\ Begin(t)
  <2>1. /\ v \in Authors \cup {None} /\ versions' = versions
        /\ v # None => versions[v] # None
        /\ tx'[u].op \in {"restore", "deleteVersion"} => v # None
        /\ tx'[u].op = "restore" => versions[v].isPublished
    BY <1>1, <1>2, BeginFields DEF Database
  <2>2. v # None => Committed(v)
    BY <2>1 DEF VersionsCommitted
  <2> QED BY <2>1, <2>2, CommittedStays
<1>3. CASE u # t \/ Proceeds(t)
  <2>1. Active(u) /\ v = tx[u].about /\ tx'[u].op = tx[u].op /\ v \in Authors \cup {None}
    <3>1. CASE u # t
      BY <1>1, <3>1, OthersKeep DEF SameButTold, Active, Base, TypeOK, TxRecords
    <3>2. CASE u = t /\ Proceeds(t)
      BY <1>1, <3>2 DEF Proceeds, Kept, Base, TypeOK, TxRecords
    <3> QED BY <1>3, <3>1, <3>2
  <2>2. v # None => Committed(v) /\ v # t /\ Committed(v)'
    BY <2>1, CommittedStays DEF AboutCommitted
  <2>3. v # None /\ versions'[v] # None => versions'[v] = versions[v]
    BY <2>1, <2>2, VersionAfter
  <2>4. v # None /\ tx[u].op = "restore" /\ versions[v] # None => versions[v].isPublished
    BY <2>1 DEF AboutCommitted
  <2>5. tx[u].op \in {"restore", "deleteVersion"} => v # None
    BY <2>1 DEF AboutCommitted
  <2> QED BY <2>1, <2>2, <2>3, <2>4, <2>5
<1> QED BY <1>1, <1>2, <1>3, ActorEnds

LEMMA PublishesOwnStep ==
  ASSUME Base, PublishesOwn, NEW t \in Tx, Acts(t)
  PROVE  PublishesOwn'
<1>1. SUFFICES ASSUME NEW u \in Tx, tx'[u].phase = "active", tx'[u].op = "publish"
               PROVE  \/ tx'[u].version = None /\ Has(tx'[u].todo, "number")
                      \/ tx'[u].version # None /\ tx'[u].version.isPublished
  BY DEF PublishesOwn, Active
<1>2. CASE u # t
  BY <1>1, <1>2, OthersKeep DEF SameButTold, Active, PublishesOwn
<1>3. CASE u = t /\ Begin(t)
  BY <1>1, <1>3, BeginFields DEF Programmed, Starts
<1>4. CASE u = t /\ Proceeds(t)
  <2>1. /\ Active(t) /\ tx[t].op = "publish" /\ tx[t].todo \in Seq(Statements) /\ tx[t].todo # <<>>
        /\ tx'[t].todo = Tail(tx[t].todo) /\ tx[t] \in TxRecords
    BY <1>1, <1>4, TodoFacts DEF Proceeds, Kept
  <2>2. CASE Head(tx[t].todo).st = "number"
    <3>1. tx'[t].version = NewVersion(t)
      BY <1>4, <2>2 DEF Proceeds, Done
    <3>2. NewVersion(t) \in VersionRecords /\ NewVersion(t).isPublished
      <4>1. NewVersion(t) = [number |-> tx[t].last + 1, snapshot |-> tx[t].image, isPublished |-> TRUE,
                             at |-> 0, late |-> FALSE]
        BY <2>1 DEF NewVersion
      <4>2. tx[t].last + 1 \in Nat \ {0} /\ tx[t].image \in Images
        BY <2>1 DEF TxRecords
      <4> QED BY <4>1, <4>2 DEF VersionRecords
    <3> QED BY <1>4, <3>1, <3>2, DashboardStoreAssumption
  <2>3. CASE Head(tx[t].todo).st # "number"
    <3>1. tx'[t].version = tx[t].version
      BY <1>4, <2>3 DEF Proceeds, Kept
    <3>2. Has(tx[t].todo, "number") => Has(tx'[t].todo, "number")
      BY <2>1, <2>3, HasTail
    <3> QED BY <1>4, <2>1, <3>1, <3>2 DEF PublishesOwn
  <2> QED BY <2>2, <2>3
<1> QED BY <1>1, <1>2, <1>3, <1>4, ActorEnds

(* Who has deleted a version keeps having done so, and began by deleting it. *)
LEMMA DroppedStays ==
  ASSUME Base, NEW t \in Tx, Acts(t), NEW u \in Tx, NEW v, tx'[u].phase = "active", tx'[u].op = "deleteVersion",
         tx'[u].about = v, Head(tx'[u].todo).st # "drop" \/ tx'[u].todo = <<>>
  PROVE  Dropped(u, v) \/ (u = t /\ Proceeds(t) /\ Head(tx[t].todo).st = "drop" /\ tx[t].about = v)
<1>1. CASE u # t
  BY <1>1, OthersKeep DEF SameButTold, Dropped, Does, Active
<1>2. CASE u = t /\ Begin(t)
  BY <1>2, BeginFields DEF Programmed, Starts
<1>3. CASE u = t /\ Proceeds(t)
  BY <1>3 DEF Proceeds, Kept, Dropped, Does
<1> QED BY <1>1, <1>2, <1>3, ActorEnds

LEMMA PubIsThereStep ==
  ASSUME Base, VersionsCommitted, AboutCommitted, PubIsThere, NEW t \in Tx, Acts(t)
  PROVE  PubIsThere'
<1>1. SUFFICES ASSUME NEW u \in Tx, tx'[u].phase = "active", NEW p \in Authors, p = tx'[u].pub
               PROVE  /\ \/ tx'[u].op = "publish" /\ p = u /\ ~Has(tx'[u].todo, "number")
                         \/ tx'[u].op = "restore" /\ p = tx'[u].about /\ versions'[p] # None
                      /\ \A w \in Tx \ {u} : ~Dropped(w, p)'
  BY DEF PubIsThere, Active, Dropped, Does
<1>2. CASE u # t
  <2>1. /\ Active(u) /\ tx[u].pub = p /\ tx'[u].op = tx[u].op /\ tx'[u].todo = tx[u].todo /\ tx'[u].about = tx[u].about
    BY <1>1, <1>2, OthersKeep DEF SameButTold, Active
  <2>2. /\ \/ tx[u].op = "publish" /\ p = u /\ ~Has(tx[u].todo, "number")
           \/ tx[u].op = "restore" /\ p = tx[u].about /\ versions[p] # None
        /\ \A w \in Tx \ {u} : ~Dropped(w, p)
    BY <2>1 DEF PubIsThere
  <2>3. rowLock = u
    BY <1>1, <2>1, DashboardStoreAssumption DEF Base, RowWriter
  <2>4. versions[p] # None => versions'[p] # None
    <3>1. SUFFICES ASSUME versions[p] # None, versions'[p] = None PROVE FALSE
      OBVIOUS
    <3>2. Commits(t) /\ tx[t].op = "deleteVersion" /\ p = tx[t].about
      BY <1>2, <2>3, <3>1, VersionAfter DEF Destroys
    <3>3. Dropped(t, p)
      BY <3>2 DEF Dropped, Commits, Does
    <3> QED BY <1>2, <2>2, <3>3
  <2>5. ASSUME NEW w \in Tx \ {u}, Dropped(w, p)' PROVE FALSE
    <3>1. w = t /\ Proceeds(t) /\ Head(tx[t].todo).st = "drop" /\ tx[t].about = p
      BY <2>2, <2>5, DroppedStays DEF Dropped, Does, Active
    <3> QED BY <1>2, <2>1, <3>1 DEF Proceeds, Done, Others
  <2> QED BY <2>1, <2>2, <2>4, <2>5
<1>3. CASE u = t /\ Begin(t)
  BY <1>1, <1>3, BeginFields, DashboardStoreAssumption
<1>4. CASE u = t /\ Proceeds(t)
  <2>1. /\ Active(t) /\ tx[t].todo \in Seq(Statements) /\ tx[t].todo # <<>> /\ tx'[t].todo = Tail(tx[t].todo)
        /\ Ordered(tx[t].todo, tx[t].op, tx[t].on)
        /\ tx'[t].op = tx[t].op /\ tx'[t].about = tx[t].about /\ versions' = versions
        /\ \A w \in Tx \ {t} : tx'[w] = tx[w]
    BY <1>4, TodoFacts DEF Proceeds, Kept, Database
  <2>2. \A w \in Tx \ {t} : Dropped(w, p)' => Dropped(w, p)
    BY <2>1 DEF Dropped, Does, Active
  <2>3. CASE Head(tx[t].todo).st = "point"
    <3>1. /\ \/ tx[t].op = "publish" /\ p = t
             \/ tx[t].op = "restore" /\ p = tx[t].about /\ (p = t \/ versions[p] # None)
          /\ \A w \in Others(t) : ~Dropped(w, p)
      BY <1>1, <1>4, <2>3 DEF Proceeds, Done
    <3>2. ~Has(tx'[t].todo, "number")
      BY <2>1, <2>3, OrderedHead, HasTail
    <3>3. p = tx[t].about /\ tx[t].op = "restore" => p # t
      BY <2>1, DashboardStoreAssumption DEF AboutCommitted, Committed, Active
    <3>4. \A w \in Tx \ {t} : ~Dropped(w, p)
      BY <3>1 DEF Others, Dropped
    <3> QED BY <1>4, <2>1, <2>2, <3>1, <3>2, <3>3, <3>4
  <2>4. CASE Head(tx[t].todo).st # "point"
    <3>1. tx[t].pub = p
      BY <1>1, <1>4, <2>4, DashboardStoreAssumption DEF Proceeds, Kept, Done
    <3>2. ~Has(tx[t].todo, "number") => ~Has(tx'[t].todo, "number")
      BY <2>1, HasTail
    <3> QED BY <1>4, <2>1, <2>2, <3>1, <3>2 DEF PubIsThere
  <2> QED BY <2>3, <2>4
<1> QED BY <1>1, <1>2, <1>3, <1>4, ActorEnds

LEMMA DroppedIsUnnamedStep ==
  ASSUME Base, AboutCommitted, PubIsThere, DroppedIsUnnamed, NEW t \in Tx, Acts(t)
  PROVE  DroppedIsUnnamed'
<1>1. SUFFICES ASSUME NEW u \in Tx, tx'[u].phase = "active", tx'[u].op = "deleteVersion",
                      Head(tx'[u].todo).st \notin {"drop", "unpoint"}
               PROVE  tx'[u].pub = None \/ published' # tx'[u].about
  BY DEF DroppedIsUnnamed, Active
<1>2. CASE u # t
  <2>1. /\ Active(u) /\ tx[u].op = "deleteVersion" /\ tx'[u].pub = tx[u].pub /\ tx'[u].about = tx[u].about
        /\ tx'[u].todo = tx[u].todo
    BY <1>1, <1>2, OthersKeep DEF SameButTold, Active
  <2>2. Dropped(u, tx[u].about) /\ tx[u].about # None
    BY <1>1, <2>1 DEF Dropped, Does, AboutCommitted
  <2>3. tx[u].pub = None \/ published # tx[u].about
    BY <1>1, <2>1 DEF DroppedIsUnnamed
  <2>4. published' \in {published, None} \/ (Commits(t) /\ published' = tx[t].pub /\ tx[t].pub \in Authors)
    BY BeginFields DEF Acts, Proceeds, Commits, Destroys, Fails, Database, dashboardRow, Base, TypeOK, TxRecords
  <2>5. Commits(t) /\ tx[t].pub \in Authors => tx[t].pub # tx[u].about
    BY <1>2, <2>2 DEF PubIsThere, Commits
  <2> QED BY <2>1, <2>2, <2>3, <2>4, <2>5
<1>3. CASE u = t /\ Begin(t)
  BY <1>1, <1>3, BeginFields DEF Programmed, Starts
<1>4. CASE u = t /\ Proceeds(t)
  <2>1. /\ Active(t) /\ tx[t].todo \in Seq(Statements) /\ tx[t].todo # <<>> /\ tx'[t].todo = Tail(tx[t].todo)
        /\ Ordered(tx[t].todo, tx[t].op, tx[t].on)
        /\ tx[t].op = "deleteVersion" /\ tx'[t].about = tx[t].about /\ published' = published
    BY <1>1, <1>4, TodoFacts DEF Proceeds, Kept, Database, dashboardRow
  <2>2. Head(tx[t].todo).st # "drop"
    BY <1>1, <1>4, <2>1, OrderedHead
  <2>3. CASE Head(tx[t].todo).st = "unpoint"
    BY <1>4, <2>1, <2>3 DEF Proceeds, Done
  <2>4. CASE Head(tx[t].todo).st \notin {"unpoint", "drop"}
    <3>1. tx[t].pub = None \/ published # tx[t].about
      BY <2>1, <2>4 DEF DroppedIsUnnamed
    <3>2. tx'[t].pub = tx[t].pub \/ tx'[t].pub = None
      BY <1>4, <2>1, <2>4 DEF Proceeds, Kept, Done
    <3> QED BY <1>4, <2>1, <3>1, <3>2
  <2> QED BY <2>2, <2>3, <2>4
<1> QED BY <1>1, <1>2, <1>3, <1>4, ActorEnds

LEMMA PublishedVersionExistsStep ==
  ASSUME Base, PublicationInv, NEW t \in Tx, Acts(t)
  PROVE  PublishedVersionExists'
<1>1. PublishedVersionExists /\ VersionsCommitted /\ AboutCommitted /\ PublishesOwn /\ PubIsThere /\ DroppedIsUnnamed
  BY DEF PublicationInv
<1>2. CASE Begin(t) \/ Proceeds(t) \/ Fails(t)
  <2>1. published' = published /\ versions' = versions
    BY <1>2, BeginFields DEF Proceeds, Fails, Database, dashboardRow
  <2> QED BY <1>1, <2>1 DEF PublishedVersionExists
<1>3. CASE Destroys(t)
  BY <1>3 DEF Destroys, PublishedVersionExists
<1>4. CASE Commits(t)
  <2>0. Active(t) /\ tx[t] \in TxRecords /\ tx[t].pub \in Authors \cup {None, Same} /\ published \in Authors \cup {None}
    BY <1>4 DEF Commits, Base, TypeOK, TxRecords
  <2>1. CASE tx[t].pub = Same
    <3>1. published' = published
      BY <1>4, <2>1 DEF Commits
    <3>2. SUFFICES ASSUME published # None
                   PROVE  versions'[published] = versions[published]
      BY <1>1, <3>1 DEF PublishedVersionExists
    <3>3. tx[t].op = "deleteVersion" => published # tx[t].about
      BY <1>1, <1>4, <2>0, <2>1, DashboardStoreAssumption DEF DroppedIsUnnamed, Commits
    <3>4. published # t
      BY <1>1, <2>0, <3>2 DEF PublishedVersionExists, VersionsCommitted, Committed, Active
    <3> QED BY <1>4, <2>0, <3>2, <3>3, <3>4 DEF Commits
  <2>2. CASE tx[t].pub = None
    BY <1>4, <2>2, DashboardStoreAssumption DEF Commits, PublishedVersionExists
  <2>3. CASE tx[t].pub \in Authors
    <3>0. published' = tx[t].pub
      BY <1>4, <2>3, DashboardStoreAssumption DEF Commits
    <3>1. CASE tx[t].op = "publish" /\ tx[t].pub = t /\ ~Has(tx[t].todo, "number")
      <4>1. tx[t].version # None /\ tx[t].version.isPublished
        BY <1>1, <2>0, <3>1 DEF PublishesOwn
      <4>2. versions'[t] = [tx[t].version EXCEPT !.at = clock + 1, !.late = tx[t].deletion]
        BY <1>4, <2>3, <3>1, <4>1 DEF Commits
      <4>3. tx[t].version \in VersionRecords /\ clock + 1 \in Nat /\ tx[t].deletion \in BOOLEAN
        BY <2>0, <4>1 DEF TxRecords, Base, TypeOK
      <4>4. versions'[t] \in VersionRecords /\ versions'[t].isPublished
        BY <4>1, <4>2, <4>3 DEF VersionRecords
      <4> QED BY <3>0, <3>1, <4>4, DashboardStoreAssumption DEF PublishedVersionExists
    <3>2. CASE tx[t].op = "restore" /\ tx[t].pub = tx[t].about /\ versions[tx[t].pub] # None
      <4>1. versions[tx[t].pub].isPublished /\ tx[t].pub # t
        BY <1>1, <2>0, <2>3, <3>2, DashboardStoreAssumption DEF AboutCommitted, Committed, Active
      <4>2. versions'[tx[t].pub] = versions[tx[t].pub]
        BY <1>4, <2>3, <3>2, <4>1 DEF Commits
      <4> QED BY <3>0, <3>2, <4>1, <4>2 DEF PublishedVersionExists
    <3> QED BY <1>1, <2>0, <2>3, <3>1, <3>2 DEF PubIsThere
  <2> QED BY <2>0, <2>1, <2>2, <2>3
<1> QED BY <1>2, <1>3, <1>4 DEF Acts

LEMMA PublicationStep == Base /\ PublicationInv /\ [Next]_vars => PublicationInv'
<1> SUFFICES ASSUME Base, PublicationInv, [Next]_vars PROVE PublicationInv'
  OBVIOUS
<1>1. CASE UNCHANGED vars
  BY <1>1 DEF vars, dashboardRow, PublicationInv, PublishedVersionExists, VersionsCommitted, AboutCommitted, PublishesOwn,
    PubIsThere, DroppedIsUnnamed, Committed, Dropped, Does, Active
<1>2. ASSUME NEW t \in Tx, Acts(t) PROVE PublicationInv'
  BY <1>2, PublishedVersionExistsStep, VersionsCommittedStep, AboutCommittedStep, PublishesOwnStep, PubIsThereStep,
    DroppedIsUnnamedStep DEF PublicationInv
<1> QED BY <1>1, <1>2, NextActs

(* The row names a version that exists and was published, however          *)
(* publications, restorations and deletions of versions overlap.           *)
THEOREM PublishedVersionExistsHolds == Spec => []PublishedVersionExists
<1>1. PublicationInv => PublishedVersionExists
  BY DEF PublicationInv
<1> QED BY <1>1, InitBase, BaseStep, InitPublication, PublicationStep, PTL DEF Spec

-----------------------------------------------------------------------------
(* The copy of the children in the row. *)

LEMMA InitMirror == Init => MirrorInv
<1> SUFFICES ASSUME Init PROVE MirrorInv
  OBVIOUS
<1>1. \A t \in Tx : ~Active(t)
  BY DEF Init, NewTx, Active
<1> QED BY <1>1 DEF Init, MirrorInv, MirrorLagsOnlyByRace, ImageIsView

LEMMA UnreadIsAhead ==
  ASSUME NEW u, NEW c
  PROVE  c \in Unread(u) <=> Ahead(tx[u].todo, "read", c)
BY DEF Unread, Ahead

(* The children a step changes are told to the others, who do not write    *)
(* them: what another sees changes only where it is told so.               *)
LEMMA ChildrenAfter ==
  ASSUME Base, NEW t \in Tx, Acts(t), NEW c \in Children, children'[c] # children[c]
  PROVE  /\ Commits(t) \/ Destroys(t)
         /\ Commits(t) => c \in Changed(t)
<1>1. CASE Commits(t)
  BY <1>1 DEF Commits, Changed
<1>2. CASE Begin(t) \/ Proceeds(t) \/ Fails(t)
  BY <1>2, BeginFields DEF Proceeds, Fails, Database
<1> QED BY <1>1, <1>2 DEF Acts, Commits, Destroys

LEMMA MissedAfter ==
  ASSUME Base, NEW t \in Tx, Acts(t), NEW u \in Tx \ {t}, Active(u), NEW c \in Children
  PROVE  /\ c \in tx[u].missed => c \in tx'[u].missed
         /\ tx[u].op \in Making /\ c \in tx[u].touched => c \in tx'[u].touched
         /\ children'[c] # children[c] =>
              /\ c \in tx'[u].missed \/ Ahead(tx[u].todo, "read", c)
              /\ tx[u].op \in Making => c \in tx'[u].touched
<1>0. TypeOK /\ (c \in Unread(u) <=> Ahead(tx[u].todo, "read", c))
  BY UnreadIsAhead DEF Base
<1>1. CASE Commits(t)
  <2>1. /\ tx'[u].missed = tx[u].missed \cup (Changed(t) \ Unread(u))
        /\ tx[u].op \in Making => tx'[u].touched = tx[u].touched \cup Changed(t)
    BY <1>0, <1>1, TellsKeeps DEF Commits
  <2> QED BY <1>0, <1>1, <2>1, ChildrenAfter
<1>2. CASE Destroys(t)
  BY <1>0, <1>2, DestroyTells
<1>3. CASE Begin(t) \/ Proceeds(t) \/ Fails(t)
  <2>1. tx'[u] = tx[u] /\ children' = children
    BY <1>3, BeginFields DEF Proceeds, Fails, Database
  <2> QED BY <2>1
<1> QED BY <1>1, <1>2, <1>3 DEF Acts

LEMMA ImageIsViewStep ==
  ASSUME Base, ImageIsView, NEW t \in Tx, Acts(t)
  PROVE  ImageIsView'
<1>1. SUFFICES ASSUME NEW u \in Tx, tx'[u].phase = "active", tx'[u].synced \/ Has(tx'[u].todo, "mirror"),
                      NEW c \in Children, ~Ahead(tx'[u].todo, "read", c), c \notin tx'[u].missed
               PROVE  tx'[u].image[c] = IF tx'[u].own[c] = Same THEN children'[c] ELSE tx'[u].own[c]
  BY DEF ImageIsView, Active, View
<1>2. CASE u # t
  <2>1. /\ Active(u) /\ tx'[u].todo = tx[u].todo /\ tx'[u].synced = tx[u].synced
        /\ tx'[u].image = tx[u].image /\ tx'[u].own = tx[u].own
    BY <1>1, <1>2, OthersKeep DEF SameButTold, Active
  <2>2. c \notin tx[u].missed /\ children'[c] = children[c]
    BY <1>1, <1>2, <2>1, MissedAfter
  <2>3. tx[u].image[c] = View(u)[c]
    BY <1>1, <2>1, <2>2 DEF ImageIsView
  <2> QED BY <2>1, <2>2, <2>3 DEF View
<1>3. CASE u = t /\ Begin(t)
  BY <1>1, <1>3, BeginFields DEF Programmed, Starts
<1>4. CASE u = t /\ Proceeds(t)
  <2>1. /\ Active(t) /\ tx[t].todo \in Seq(Statements) /\ tx[t].todo # <<>> /\ tx'[t].todo = Tail(tx[t].todo)
        /\ Ordered(tx[t].todo, tx[t].op, tx[t].on) /\ On(t) = Head(tx[t].todo).on /\ children' = children
    BY <1>4, TodoFacts DEF Proceeds, Kept, Database
  <2>2. CASE Head(tx[t].todo).st \in Changing
    BY <1>1, <1>4, <2>1, <2>2, OrderedHead
  <2>3. CASE Head(tx[t].todo).st \notin Changing
    <3>1. tx'[t].own = tx[t].own /\ View(t)[c] = IF tx'[t].own[c] = Same THEN children'[c] ELSE tx'[t].own[c]
      BY <1>4, <2>1, <2>3 DEF Proceeds, Kept, View
    <3>2. tx[t].synced \/ Has(tx[t].todo, "mirror")
      <4>1. Has(tx'[t].todo, "mirror") => Has(tx[t].todo, "mirror")
        BY <2>1, HasTail
      <4>2. Head(tx[t].todo).st = "mirror" => Has(tx[t].todo, "mirror")
        BY <2>1, HasTail
      <4>3. Head(tx[t].todo).st # "mirror" => tx'[t].synced = tx[t].synced
        BY <1>4 DEF Proceeds, Kept
      <4> QED BY <1>1, <1>4, <4>1, <4>2, <4>3
    <3>3. CASE Head(tx[t].todo).st = "read" /\ c \in On(t)
      BY <1>4, <3>1, <3>3 DEF Proceeds, Done
    <3>4. CASE ~(Head(tx[t].todo).st = "read" /\ c \in On(t))
      <4>1. ~Ahead(tx[t].todo, "read", c)
        BY <1>1, <1>4, <2>1, <3>4, AheadTail
      <4>2. c \notin tx[t].missed /\ tx'[t].image[c] = tx[t].image[c]
        BY <1>1, <1>4, <3>4 DEF Proceeds, Kept, Done
      <4> QED BY <1>4, <2>1, <3>1, <3>2, <4>1, <4>2 DEF ImageIsView
    <3> QED BY <3>3, <3>4
  <2> QED BY <2>2, <2>3
<1> QED BY <1>1, <1>2, <1>3, <1>4, ActorEnds

LEMMA MirrorLagsStep ==
  ASSUME Base, MirrorInv, NEW t \in Tx, Acts(t)
  PROVE  MirrorLagsOnlyByRace'
<1>1. CASE Begin(t) \/ Proceeds(t) \/ Fails(t)
  <2>1. mirror' = mirror /\ children' = children /\ lag' = lag
    BY <1>1, BeginFields DEF Proceeds, Fails, Database, dashboardRow
  <2> QED BY <2>1 DEF MirrorInv, MirrorLagsOnlyByRace
<1>2. CASE Destroys(t)
  BY <1>2 DEF Destroys, MirrorLagsOnlyByRace
<1>3. CASE Commits(t)
  <2>1. /\ Active(t) /\ tx[t].todo \in Seq(Statements) /\ tx[t].todo # <<>> /\ Head(tx[t].todo).st = "commit"
        /\ Ordered(tx[t].todo, tx[t].op, tx[t].on)
    BY <1>3, TodoFacts DEF Commits
  <2>2. Tail(tx[t].todo) = <<>>
    BY <2>1, OrderedHead
  <2>3. ~Has(<<>>, "mirror") /\ \A c \in Children : ~Ahead(<<>>, "read", c)
    BY DEF Has, Ahead
  <2>4. ~Has(tx[t].todo, "mirror") /\ \A c \in Children : ~Ahead(tx[t].todo, "read", c)
    BY <2>1, <2>2, <2>3, HasTail, AheadTail
  <2>5. SUFFICES ASSUME NEW c \in Children, mirror'[c] # children'[c] PROVE c \in lag'
    BY DEF MirrorLagsOnlyByRace
  <2>6. CASE tx[t].synced
    <3>1. mirror' = tx[t].image /\ children' = View(t) /\ lag' = tx[t].missed
      BY <1>3, <2>6 DEF Commits
    <3> QED BY <2>1, <2>4, <2>5, <2>6, <3>1 DEF MirrorInv, ImageIsView
  <2>7. CASE ~tx[t].synced
    <3>1. mirror' = mirror /\ children' = View(t) /\ lag' = lag
      BY <1>3, <2>7 DEF Commits
    <3>2. tx[t].own[c] = Same
      BY <2>1, <2>4, <2>7 DEF Base, Copied
    <3> QED BY <2>5, <3>1, <3>2 DEF MirrorInv, MirrorLagsOnlyByRace, View
  <2> QED BY <2>6, <2>7
<1> QED BY <1>1, <1>2, <1>3 DEF Acts

LEMMA MirrorStep == Base /\ MirrorInv /\ [Next]_vars => MirrorInv'
<1> SUFFICES ASSUME Base, MirrorInv, [Next]_vars PROVE MirrorInv'
  OBVIOUS
<1>1. CASE UNCHANGED vars
  BY <1>1 DEF vars, dashboardRow, MirrorInv, MirrorLagsOnlyByRace, ImageIsView, Active, View
<1>2. ASSUME NEW t \in Tx, Acts(t) PROVE MirrorInv'
  BY <1>2, MirrorLagsStep, ImageIsViewStep DEF MirrorInv
<1> QED BY <1>1, <1>2, NextActs

(* The copy is out of date only for children that others changed between   *)
(* the read and the end of the transaction that wrote it.                  *)
THEOREM MirrorLagsOnlyByRaceHolds == Spec => []MirrorLagsOnlyByRace
<1>1. MirrorInv => MirrorLagsOnlyByRace
  BY DEF MirrorInv
<1> QED BY <1>1, InitBase, BaseStep, InitMirror, MirrorStep, PTL DEF Spec

-----------------------------------------------------------------------------
(* What a version holds. *)

LEMMA InitSnapshot == Init => SnapshotInv
<1> SUFFICES ASSUME Init PROVE SnapshotInv
  OBVIOUS
<1>1. \A t \in Tx : ~Active(t)
  BY DEF Init, NewTx, Active
<1> QED BY <1>1 DEF SnapshotInv, PublishIsCurrent, MakesNoChange, ReadIsCurrent

LEMMA MakesNoChangeStep ==
  ASSUME Base, MakesNoChange, NEW t \in Tx, Acts(t)
  PROVE  MakesNoChange'
<1>1. SUFFICES ASSUME NEW u \in Tx, tx'[u].phase = "active"
               PROVE  /\ tx'[u].op \in Making => \A c \in Children : tx'[u].own[c] = Same
                      /\ tx'[u].version # None => tx'[u].op \in Making /\ ~Has(tx'[u].todo, "number")
  BY DEF MakesNoChange, Active
<1>2. CASE u # t
  BY <1>1, <1>2, OthersKeep DEF SameButTold, Active, MakesNoChange
<1>3. CASE u = t /\ Begin(t)
  BY <1>3, BeginFields
<1>4. CASE u = t /\ Proceeds(t)
  <2>1. /\ Active(t) /\ tx[t].todo \in Seq(Statements) /\ tx[t].todo # <<>>
        /\ Ordered(tx[t].todo, tx[t].op, tx[t].on) /\ tx'[t].op = tx[t].op
        /\ Head(tx[t].todo).st \notin Changing => tx'[t].own = tx[t].own
        /\ Head(tx[t].todo).st # "number" => tx'[t].version = tx[t].version
        /\ tx'[t].todo = Tail(tx[t].todo)
    BY <1>4, TodoFacts DEF Proceeds, Kept
  <2>2. Head(tx[t].todo).st \in Changing => tx[t].op \notin Making
    BY <2>1, OrderedHead
  <2>3. Head(tx[t].todo).st = "number" => tx[t].op \in Making /\ ~Has(tx'[t].todo, "number")
    BY <2>1, OrderedHead
  <2>4. ~Has(tx[t].todo, "number") => ~Has(tx'[t].todo, "number")
    BY <2>1, HasTail
  <2> QED BY <1>4, <2>1, <2>2, <2>3, <2>4 DEF MakesNoChange
<1> QED BY <1>1, <1>2, <1>3, <1>4, ActorEnds

(* Where nobody else changed a child, it is as it was. *)
LEMMA UntouchedStays ==
  ASSUME Base, NEW t \in Tx, Acts(t), NEW u \in Tx \ {t}, Active(u), tx[u].op \in Making, NEW c \in Children,
         c \notin tx'[u].touched
  PROVE  c \notin tx[u].touched /\ children'[c] = children[c]
BY MissedAfter

LEMMA ReadIsCurrentStep ==
  ASSUME Base, MakesNoChange, ReadIsCurrent, NEW t \in Tx, Acts(t)
  PROVE  ReadIsCurrent'
<1>1. SUFFICES ASSUME NEW u \in Tx, tx'[u].phase = "active", tx'[u].op \in Making, tx'[u].version = None,
                      NEW c \in Children \ tx'[u].touched, ~ReadsFirst(tx'[u].todo, c)
               PROVE  tx'[u].image[c] = children'[c]
  BY DEF ReadIsCurrent, Active
<1>2. CASE u # t
  <2>1. /\ Active(u) /\ tx'[u].todo = tx[u].todo /\ tx'[u].op = tx[u].op /\ tx'[u].version = tx[u].version
        /\ tx'[u].image = tx[u].image
    BY <1>1, <1>2, OthersKeep DEF SameButTold, Active
  <2>2. c \notin tx[u].touched /\ children'[c] = children[c]
    BY <1>1, <1>2, <2>1, UntouchedStays
  <2> QED BY <1>1, <2>1, <2>2 DEF ReadIsCurrent
<1>3. CASE u = t /\ Begin(t)
  BY <1>1, <1>3, BeginFields DEF Programmed, Starts
<1>4. CASE u = t /\ Proceeds(t)
  <2>1. /\ Active(t) /\ tx[t].todo \in Seq(Statements) /\ tx[t].todo # <<>> /\ tx'[t].todo = Tail(tx[t].todo)
        /\ tx'[t].op = tx[t].op /\ tx'[t].touched = tx[t].touched /\ tx[t] \in TxRecords
        /\ On(t) = Head(tx[t].todo).on /\ children' = children
    BY <1>4, TodoFacts DEF Proceeds, Kept, Database
  <2>2. tx[t].version = None
    <3>1. Head(tx[t].todo).st # "number" => tx'[t].version = tx[t].version
      BY <1>4 DEF Proceeds, Kept
    <3>2. Head(tx[t].todo).st = "number" => tx'[t].version = NewVersion(t) /\ NewVersion(t) \in VersionRecords
      <4>1. tx[t].last + 1 \in Nat \ {0} /\ tx[t].image \in Images
        BY <2>1 DEF TxRecords
      <4> QED BY <1>4, <4>1 DEF Proceeds, Done, NewVersion, VersionRecords
    <3> QED BY <1>1, <1>4, <3>1, <3>2, DashboardStoreAssumption
  <2>3. View(t)[c] = children[c]
    BY <1>1, <1>4, <2>1 DEF MakesNoChange, View
  <2>4. CASE Head(tx[t].todo).st = "read" /\ c \in On(t)
    BY <1>4, <2>1, <2>3, <2>4 DEF Proceeds, Done
  <2>5. CASE ~(Head(tx[t].todo).st = "read" /\ c \in On(t))
    <3>1. tx'[t].image[c] = tx[t].image[c]
      BY <1>4, <2>5 DEF Proceeds, Kept, Done
    <3>2. ~ReadsFirst(tx[t].todo, c)
      BY <1>1, <1>4, <2>1, <2>5, ReadsFirstTail
    <3> QED BY <1>1, <1>4, <2>1, <2>2, <3>1, <3>2 DEF ReadIsCurrent
  <2> QED BY <2>4, <2>5
<1> QED BY <1>1, <1>2, <1>3, <1>4, ActorEnds

LEMMA PublishIsCurrentStep ==
  ASSUME Base, SnapshotInv, NEW t \in Tx, Acts(t)
  PROVE  PublishIsCurrent'
<1>1. SUFFICES ASSUME NEW u \in Tx, tx'[u].phase = "active", tx'[u].version # None,
                      NEW c \in Children \ tx'[u].touched
               PROVE  tx'[u].version.snapshot[c] = children'[c]
  BY DEF PublishIsCurrent, Active
<1>2. CASE u # t
  <2>1. Active(u) /\ tx'[u].op = tx[u].op /\ tx'[u].version = tx[u].version
    BY <1>1, <1>2, OthersKeep DEF SameButTold, Active
  <2>2. tx[u].op \in Making
    BY <1>1, <2>1 DEF SnapshotInv, MakesNoChange
  <2>3. c \notin tx[u].touched /\ children'[c] = children[c]
    BY <1>1, <1>2, <2>1, <2>2, UntouchedStays
  <2> QED BY <1>1, <2>1, <2>3 DEF SnapshotInv, PublishIsCurrent
<1>3. CASE u = t /\ Begin(t)
  BY <1>1, <1>3, BeginFields
<1>4. CASE u = t /\ Proceeds(t)
  <2>1. /\ Active(t) /\ tx[t].todo \in Seq(Statements) /\ tx[t].todo # <<>>
        /\ Ordered(tx[t].todo, tx[t].op, tx[t].on)
        /\ tx'[t].touched = tx[t].touched /\ children' = children
    BY <1>4, TodoFacts DEF Proceeds, Kept, Database
  <2>2. CASE Head(tx[t].todo).st = "number"
    <3>1. tx'[t].version.snapshot = tx[t].image
      BY <1>4, <2>2 DEF Proceeds, Done, NewVersion
    <3>2. tx[t].op \in Making /\ ~ReadsFirst(tx[t].todo, c)
      BY <2>1, <2>2, OrderedHead
    <3>3. tx[t].version = None
      <4>1. Has(tx[t].todo, "number")
        BY <2>1, <2>2, HasTail
      <4> QED BY <2>1, <4>1 DEF SnapshotInv, MakesNoChange
    <3> QED BY <1>1, <1>4, <2>1, <3>1, <3>2, <3>3 DEF SnapshotInv, ReadIsCurrent
  <2>3. CASE Head(tx[t].todo).st # "number"
    <3>1. tx'[t].version = tx[t].version
      BY <1>4, <2>3 DEF Proceeds, Kept
    <3> QED BY <1>1, <1>4, <2>1, <3>1 DEF SnapshotInv, PublishIsCurrent
  <2> QED BY <2>2, <2>3
<1> QED BY <1>1, <1>2, <1>3, <1>4, ActorEnds

LEMMA SnapshotStep == Base /\ SnapshotInv /\ [Next]_vars => SnapshotInv'
<1> SUFFICES ASSUME Base, SnapshotInv, [Next]_vars PROVE SnapshotInv'
  OBVIOUS
<1>1. CASE UNCHANGED vars
  BY <1>1 DEF vars, dashboardRow, SnapshotInv, PublishIsCurrent, MakesNoChange, ReadIsCurrent, Active
<1>2. ASSUME NEW t \in Tx, Acts(t) PROVE SnapshotInv'
  BY <1>2, PublishIsCurrentStep, MakesNoChangeStep, ReadIsCurrentStep DEF SnapshotInv
<1> QED BY <1>1, <1>2, NextActs

(* A version holds every child as it is, but for those that others changed *)
(* since its transaction began.                                            *)
THEOREM PublishIsCurrentHolds == Spec => []PublishIsCurrent
<1>1. SnapshotInv => PublishIsCurrent
  BY DEF SnapshotInv
<1> QED BY <1>1, InitBase, BaseStep, InitSnapshot, SnapshotStep, PTL DEF Spec

-----------------------------------------------------------------------------
(* The numbers of the versions. *)

LEMMA InitNumber == Init => NumberInv
<1> SUFFICES ASSUME Init PROVE NumberInv
  OBVIOUS
<1>1. \A t \in Tx : ~Active(t)
  BY DEF Init, NewTx, Active
<1>2. \A v \in Authors : versions[v] # None => v = Seed /\ versions[v].at = 0
  BY DEF Init
<1>3. NumbersFollowCommits /\ PastCommits
  BY <1>2 DEF NumbersFollowCommits, PastCommits, Init
<1>4. LastIsTaken /\ NextIsFree /\ PendingIsGreatest /\ PendingDiffer /\ VersionCounted
  BY <1>1 DEF LastIsTaken, NextIsFree, PendingIsGreatest, PendingDiffer, VersionCounted, Counting
<1> QED BY <1>3, <1>4 DEF NumberInv

(* Only deletions take numbers away. *)
LEMMA NumbersStay ==
  ASSUME Base, VersionsCommitted, NEW t \in Tx, Acts(t), ~Destroys(t), Commits(t) => tx[t].op # "deleteVersion"
  PROVE  Numbers \subseteq Numbers'
<1>1. SUFFICES ASSUME NEW v \in Authors, versions[v] # None PROVE versions'[v] = versions[v]
  BY DEF Numbers
<1>2. SUFFICES ASSUME versions'[v] # versions[v] PROVE FALSE
  OBVIOUS
<1>3. v = t /\ Commits(t)
  BY <1>2, VersionAfter
<1>4. Committed(v) /\ Active(t)
  BY <1>1, <1>3 DEF VersionsCommitted, Commits
<1> QED BY <1>3, <1>4 DEF Committed, Active

(* While a version's number can be relied on, nothing was deleted, and all *)
(* that is committed could be relied on as well.                           *)
LEMMA CountingKeeps ==
  ASSUME Base, VersionsCommitted, NEW t \in Tx, Acts(t), NEW u \in Tx \ {t},
         tx'[u].phase = "active", tx'[u].op \in Making, ~tx'[u].deletion, ~Has(tx'[u].todo, "last")
  PROVE  /\ Counting(u) /\ Numbers \subseteq Numbers' /\ tx'[u].last = tx[u].last /\ tx'[u].version = tx[u].version
         /\ Commits(t) => ~tx[t].deletion /\ tx[t].op # "deleteVersion"
<1>0. TypeOK
  BY DEF Base
<1>1. /\ Active(u) /\ tx[u].op \in Making /\ ~Has(tx[u].todo, "last")
      /\ tx'[u].last = tx[u].last /\ tx'[u].version = tx[u].version
  BY OthersKeep DEF SameButTold, Active
<1>2. ~Destroys(t)
  BY <1>0, <1>1, DestroyTells
<1>3. CASE Commits(t)
  <2>1. tx'[u].deletion = (tx[u].deletion \/ (tx[t].op = "deleteVersion" \/ tx[t].deletion))
    BY <1>0, <1>1, <1>3, TellsKeeps DEF Commits
  <2>2. ~tx[u].deletion /\ ~tx[t].deletion /\ tx[t].op # "deleteVersion"
    BY <2>1
  <2> QED BY <1>1, <1>2, <2>2, NumbersStay DEF Counting
<1>4. CASE ~Commits(t)
  <2>1. tx'[u] = tx[u]
    BY <1>2, <1>4, BeginFields DEF Acts, Proceeds, Fails
  <2> QED BY <1>1, <1>2, <1>4, <2>1, NumbersStay DEF Counting
<1> QED BY <1>3, <1>4

(* The number that a step of another adds, when numbers can be relied on.  *)
LEMMA NumberAdded ==
  ASSUME Base, NumberInv, NEW t \in Tx, Acts(t), Commits(t) => ~tx[t].deletion, NEW n \in Numbers', n \notin Numbers
  PROVE  /\ Commits(t) /\ tx[t].version # None /\ n = tx[t].version.number
         /\ n = tx[t].last + 1 /\ tx[t].last \in Nat /\ (tx[t].last = 0 \/ tx[t].last \in Numbers)
<1>1. Commits(t) /\ tx[t].version # None /\ n = tx[t].version.number
  BY NumbersAfter
<1>2. Counting(t)
  BY <1>1 DEF Counting, NumberInv, VersionCounted, Commits
<1>3. tx[t].last \in Nat
  BY DEF Base, TypeOK, TxRecords
<1> QED BY <1>1, <1>2, <1>3 DEF NumberInv, PendingIsGreatest, LastIsTaken

LEMMA LastNumberFacts ==
  ASSUME Base
  PROVE  /\ LastNumber = 0 \/ LastNumber \in Numbers
         /\ \A n \in Numbers : n <= LastNumber
<1>1. CASE Numbers = {}
  BY <1>1 DEF LastNumber
<1>2. CASE Numbers # {}
  <2>1. \E n \in Numbers : \A m \in Numbers : m <= n
    BY <1>2 DEF Base, Greatest
  <2>2. LastNumber = CHOOSE n \in Numbers : \A m \in Numbers : m <= n
    BY <1>2 DEF LastNumber
  <2> QED BY <2>1, <2>2
<1> QED BY <1>1, <1>2

(* What a statement leaves of counting. *)
LEMMA CountingProceeds ==
  ASSUME Base, NumberInv, NEW t \in Tx, Proceeds(t), tx'[t].op \in Making, ~tx'[t].deletion, ~Has(tx'[t].todo, "last")
  PROVE  /\ Active(t) /\ Numbers' = Numbers
         /\ \/ Head(tx[t].todo).st = "last" /\ tx'[t].last = LastNumber /\ tx'[t].version = None
            \/ Counting(t) /\ tx'[t].last = tx[t].last
<1>1. /\ Active(t) /\ tx[t].todo \in Seq(Statements) /\ tx[t].todo # <<>> /\ tx'[t].todo = Tail(tx[t].todo)
      /\ tx'[t].op = tx[t].op /\ tx'[t].deletion = tx[t].deletion /\ versions' = versions
  BY TodoFacts DEF Proceeds, Kept, Database
<1>2. Numbers' = Numbers
  BY <1>1 DEF Numbers
<1>3. CASE Head(tx[t].todo).st = "last"
  <2>1. Has(tx[t].todo, "last")
    BY <1>1, <1>3, HasTail
  <2>2. tx[t].version = None
    BY <1>1, <2>1 DEF NumberInv, VersionCounted
  <2> QED BY <1>1, <1>2, <1>3, <2>2 DEF Proceeds, Kept, Done
<1>4. CASE Head(tx[t].todo).st # "last"
  <2>1. ~Has(tx[t].todo, "last")
    BY <1>1, <1>4, HasTail
  <2> QED BY <1>1, <1>2, <1>4, <2>1 DEF Proceeds, Kept, Counting
<1> QED BY <1>3, <1>4

LEMMA LastIsTakenStep ==
  ASSUME Base, VersionsCommitted, NumberInv, NEW t \in Tx, Acts(t)
  PROVE  LastIsTaken'
<1>1. SUFFICES ASSUME NEW u \in Tx, tx'[u].phase = "active", tx'[u].op \in Making, ~tx'[u].deletion,
                      ~Has(tx'[u].todo, "last")
               PROVE  tx'[u].last = 0 \/ tx'[u].last \in Numbers'
  BY DEF LastIsTaken, Counting, Active
<1>2. CASE u # t
  BY <1>1, <1>2, CountingKeeps DEF NumberInv, LastIsTaken
<1>3. CASE u = t /\ Begin(t)
  BY <1>3, BeginFields
<1>4. CASE u = t /\ Proceeds(t)
  BY <1>1, <1>4, CountingProceeds, LastNumberFacts DEF NumberInv, LastIsTaken
<1> QED BY <1>1, <1>2, <1>3, <1>4, ActorEnds

LEMMA NextIsFreeStep ==
  ASSUME Base, VersionsCommitted, NumberInv, NEW t \in Tx, Acts(t)
  PROVE  NextIsFree'
<1>1. SUFFICES ASSUME NEW u \in Tx, tx'[u].phase = "active", tx'[u].op \in Making, ~tx'[u].deletion,
                      ~Has(tx'[u].todo, "last")
               PROVE  (\A n \in Numbers' : n <= tx'[u].last) \/ tx'[u].last + 1 \in Numbers'
  BY DEF NextIsFree, Counting, Active
<1>2. CASE u # t
  <2>1. /\ Counting(u) /\ Numbers \subseteq Numbers' /\ tx'[u].last = tx[u].last
        /\ Commits(t) => ~tx[t].deletion
    BY <1>1, <1>2, CountingKeeps
  <2>2. CASE tx[u].last + 1 \in Numbers
    BY <2>1, <2>2
  <2>3. CASE \A n \in Numbers : n <= tx[u].last
    <3>1. SUFFICES ASSUME NEW n \in Numbers', ~(n <= tx[u].last) PROVE n = tx[u].last + 1
      BY <2>1
    <3>2. n \notin Numbers
      BY <2>3, <3>1
    <3>3. n = tx[t].last + 1 /\ tx[t].last \in Nat /\ (tx[t].last = 0 \/ tx[t].last \in Numbers)
      BY <2>1, <3>2, NumberAdded
    <3>4. tx[u].last \in Nat
      BY DEF Base, TypeOK, TxRecords
    <3>5. tx[t].last <= tx[u].last
      BY <2>3, <3>3, <3>4
    <3> QED BY <3>1, <3>3, <3>4, <3>5
  <2> QED BY <2>1, <2>2, <2>3 DEF NumberInv, NextIsFree
<1>3. CASE u = t /\ Begin(t)
  BY <1>1, <1>3, BeginFields DEF Programmed, Starts
<1>4. CASE u = t /\ Proceeds(t)
  BY <1>1, <1>4, CountingProceeds, LastNumberFacts DEF NumberInv, NextIsFree
<1> QED BY <1>1, <1>2, <1>3, <1>4, ActorEnds

(* A new version, and its number. *)
LEMMA NewVersionFacts ==
  ASSUME Base, NEW t \in Tx, Proceeds(t), tx'[t].version # tx[t].version
  PROVE  /\ Head(tx[t].todo).st = "number" /\ tx'[t].version # None /\ tx'[t].version.number = tx[t].last + 1
         /\ tx[t].last + 1 \notin Numbers /\ tx'[t].last = tx[t].last
         /\ \A u \in Tx \ {t} : Active(u) /\ tx[u].version # None => tx[u].version.number # tx[t].last + 1
<1>1. Head(tx[t].todo).st = "number"
  BY DEF Proceeds, Kept
<1>2. tx'[t].version = NewVersion(t) /\ tx'[t].last = tx[t].last
  BY <1>1 DEF Proceeds, Done, Kept
<1>3. tx[t].last + 1 \in Nat \ {0} /\ tx[t].image \in Images
  BY DEF Base, TypeOK, TxRecords
<1>4. NewVersion(t) \in VersionRecords /\ NewVersion(t).number = tx[t].last + 1
  BY <1>3 DEF NewVersion, VersionRecords
<1> QED BY <1>1, <1>2, <1>4, DashboardStoreAssumption DEF Proceeds, Done, Others

LEMMA PendingIsGreatestStep ==
  ASSUME Base, VersionsCommitted, NumberInv, NEW t \in Tx, Acts(t)
  PROVE  PendingIsGreatest'
<1>1. SUFFICES ASSUME NEW u \in Tx, tx'[u].phase = "active", tx'[u].op \in Making, ~tx'[u].deletion,
                      ~Has(tx'[u].todo, "last"), tx'[u].version # None
               PROVE  /\ tx'[u].version.number = tx'[u].last + 1
                      /\ \A n \in Numbers' : n < tx'[u].version.number
  BY DEF PendingIsGreatest, Counting, Active
<1>2. CASE u # t
  <2>1. /\ Counting(u) /\ Active(u) /\ Numbers \subseteq Numbers' /\ tx'[u].last = tx[u].last /\ tx'[u].version = tx[u].version
        /\ Commits(t) => ~tx[t].deletion
    BY <1>1, <1>2, CountingKeeps DEF Counting
  <2>2. /\ tx[u].version.number = tx[u].last + 1 /\ tx[u].last \in Nat
        /\ \A n \in Numbers : n < tx[u].version.number
    BY <1>1, <2>1 DEF NumberInv, PendingIsGreatest, Base, TypeOK, TxRecords
  <2>3. ASSUME NEW n \in Numbers', n \notin Numbers PROVE n < tx[u].version.number
    <3>1. /\ Commits(t) /\ tx[t].version # None /\ n = tx[t].version.number
          /\ n = tx[t].last + 1 /\ tx[t].last \in Nat /\ (tx[t].last = 0 \/ tx[t].last \in Numbers)
      BY <2>1, <2>3, NumberAdded
    <3>2. n # tx[u].version.number
      BY <1>1, <1>2, <2>1, <3>1 DEF NumberInv, PendingDiffer, Commits
    <3>3. tx[t].last < tx[u].version.number
      BY <2>2, <3>1
    <3> QED BY <2>2, <3>1, <3>2, <3>3
  <2> QED BY <2>1, <2>2, <2>3
<1>3. CASE u = t /\ Begin(t)
  BY <1>1, <1>3, BeginFields
<1>4. CASE u = t /\ Proceeds(t)
  <2>1. Numbers' = Numbers /\ Counting(t) /\ tx'[t].last = tx[t].last
    BY <1>1, <1>4, CountingProceeds
  <2>2. Numbers \subseteq Nat /\ tx[t].last \in Nat
    BY NumbersTyped DEF Base, TypeOK, TxRecords
  <2>3. CASE tx'[t].version = tx[t].version
    BY <1>1, <1>4, <2>1, <2>3 DEF NumberInv, PendingIsGreatest
  <2>4. CASE tx'[t].version # tx[t].version
    <3>1. tx'[t].version.number = tx[t].last + 1 /\ tx[t].last + 1 \notin Numbers
      BY <1>4, <2>4, NewVersionFacts
    <3>2. \A n \in Numbers : n <= tx[t].last
      BY <2>1, <3>1 DEF NumberInv, NextIsFree
    <3> QED BY <1>4, <2>1, <2>2, <3>1, <3>2
  <2> QED BY <2>3, <2>4
<1> QED BY <1>1, <1>2, <1>3, <1>4, ActorEnds

LEMMA PendingDifferStep ==
  ASSUME Base, NumberInv, NEW t \in Tx, Acts(t)
  PROVE  PendingDiffer'
<1>1. SUFFICES ASSUME NEW u \in Tx \ {t}, NEW w \in Tx, u # w, tx'[u].phase = "active", tx'[w].phase = "active",
                      tx'[u].version # None, tx'[w].version # None
               PROVE  tx'[u].version.number # tx'[w].version.number
  BY DEF PendingDiffer, Active
<1>2. Active(u) /\ tx'[u].version = tx[u].version
  BY <1>1, OthersKeep DEF SameButTold, Active
<1>3. CASE w # t
  <2>1. Active(w) /\ tx'[w].version = tx[w].version
    BY <1>1, <1>3, OthersKeep DEF SameButTold, Active
  <2> QED BY <1>1, <1>2, <2>1 DEF NumberInv, PendingDiffer
<1>4. CASE w = t /\ Begin(t)
  BY <1>1, <1>4, BeginFields
<1>5. CASE w = t /\ Proceeds(t)
  <2>1. CASE tx'[t].version = tx[t].version
    BY <1>1, <1>2, <1>5, <2>1 DEF NumberInv, PendingDiffer, Proceeds
  <2>2. CASE tx'[t].version # tx[t].version
    BY <1>1, <1>2, <1>5, <2>2, NewVersionFacts
  <2> QED BY <2>1, <2>2
<1> QED BY <1>1, <1>3, <1>4, <1>5, ActorEnds

LEMMA VersionCountedStep ==
  ASSUME Base, NumberInv, NEW t \in Tx, Acts(t)
  PROVE  VersionCounted'
<1>1. SUFFICES ASSUME NEW u \in Tx, tx'[u].phase = "active", tx'[u].version # None
               PROVE  tx'[u].op \in Making /\ ~Has(tx'[u].todo, "last")
  BY DEF VersionCounted, Active
<1>2. CASE u # t
  BY <1>1, <1>2, OthersKeep DEF SameButTold, Active, NumberInv, VersionCounted
<1>3. CASE u = t /\ Begin(t)
  BY <1>1, <1>3, BeginFields
<1>4. CASE u = t /\ Proceeds(t)
  <2>1. /\ Active(t) /\ tx[t].todo \in Seq(Statements) /\ tx[t].todo # <<>> /\ tx'[t].todo = Tail(tx[t].todo)
        /\ Ordered(tx[t].todo, tx[t].op, tx[t].on) /\ tx'[t].op = tx[t].op
    BY <1>4, TodoFacts DEF Proceeds, Kept
  <2>2. ~Has(tx[t].todo, "last") => ~Has(tx'[t].todo, "last")
    BY <2>1, HasTail
  <2>3. CASE tx'[t].version = tx[t].version
    BY <1>1, <1>4, <2>1, <2>2, <2>3 DEF NumberInv, VersionCounted
  <2>4. CASE tx'[t].version # tx[t].version
    <3>1. Head(tx[t].todo).st = "number"
      BY <1>4, <2>4, NewVersionFacts
    <3> QED BY <1>4, <2>1, <2>2, <3>1, OrderedHead
  <2> QED BY <2>3, <2>4
<1> QED BY <1>1, <1>2, <1>3, <1>4, ActorEnds

LEMMA NumbersFollowCommitsStep ==
  ASSUME Base, NumberInv, NEW t \in Tx, Acts(t)
  PROVE  NumbersFollowCommits' /\ PastCommits'
<1>0. clock \in Nat /\ \A v \in Authors : versions[v] # None => versions[v] \in VersionRecords /\ versions[v].at <= clock
  BY DEF Base, TypeOK, NumberInv, PastCommits
<1>1. clock' \in {clock, clock + 1}
  BY BeginFields DEF Acts, Proceeds, Commits, Destroys, Fails, Database
<1>2. \A v \in Authors : versions'[v] # None =>
        \/ versions[v] = versions'[v]
        \/ /\ Commits(t) /\ v = t /\ clock' = clock + 1 /\ tx[t].version # None
           /\ versions'[v].at = clock + 1 /\ versions'[v].late = tx[t].deletion
           /\ versions'[v].number = tx[t].version.number
  <2>1. SUFFICES ASSUME NEW v \in Authors, versions'[v] # None, versions[v] # versions'[v]
                 PROVE  /\ Commits(t) /\ v = t /\ clock' = clock + 1 /\ tx[t].version # None
                        /\ versions'[v].at = clock + 1 /\ versions'[v].late = tx[t].deletion
                        /\ versions'[v].number = tx[t].version.number
    OBVIOUS
  <2>2. /\ Commits(t) /\ v = t /\ tx[t].version # None
        /\ versions'[v] = [tx[t].version EXCEPT !.at = clock + 1, !.late = tx[t].deletion]
    BY <2>1, VersionAfter
  <2>3. tx[t].version \in VersionRecords
    BY <2>2 DEF Base, TypeOK, TxRecords
  <2> QED BY <2>2, <2>3 DEF Commits, VersionRecords
<1>3. PastCommits'
  <2>1. SUFFICES ASSUME NEW v \in Authors, versions'[v] # None PROVE versions'[v].at <= clock'
    BY DEF PastCommits
  <2>2. CASE versions'[v] = versions[v]
    <3>1. versions[v].at \in Nat /\ versions[v].at <= clock
      BY <1>0, <2>1, <2>2 DEF VersionRecords
    <3> QED BY <1>0, <1>1, <2>2, <3>1
  <2>3. CASE versions'[v] # versions[v]
    BY <1>0, <1>2, <2>1, <2>3
  <2> QED BY <2>2, <2>3
<1>4. NumbersFollowCommits'
  <2>1. SUFFICES ASSUME NEW u \in Authors, NEW v \in Authors, versions'[u] # None, versions'[v] # None,
                        versions'[u].at < versions'[v].at
                 PROVE  versions'[u].number < versions'[v].number \/ versions'[v].late
    BY DEF NumbersFollowCommits
  <2>2. CASE versions'[u] = versions[u] /\ versions'[v] = versions[v]
    BY <2>1, <2>2 DEF NumberInv, NumbersFollowCommits
  <2>3. CASE versions'[u] # versions[u] /\ versions'[v] = versions[v]
    <3>1. versions[v].at \in Nat /\ versions[v].at <= clock /\ versions'[u].at = clock + 1
      BY <1>0, <1>2, <2>1, <2>3 DEF VersionRecords
    <3> QED BY <1>0, <2>1, <2>3, <3>1
  <2>4. CASE versions'[u] = versions[u] /\ versions'[v] # versions[v]
    <3>1. Commits(t) /\ v = t /\ tx[t].version # None /\ versions'[v].late = tx[t].deletion
          /\ versions'[v].number = tx[t].version.number
      BY <1>2, <2>1, <2>4
    <3>2. versions[u].number \in Numbers
      BY <2>1, <2>4 DEF Numbers
    <3>3. ~tx[t].deletion => Counting(t)
      BY <3>1 DEF Counting, NumberInv, VersionCounted, Commits
    <3> QED BY <2>4, <3>1, <3>2, <3>3 DEF NumberInv, PendingIsGreatest
  <2>5. CASE versions'[u] # versions[u] /\ versions'[v] # versions[v]
    <3>1. u = v
      BY <1>2, <2>1, <2>5
    <3>2. versions'[u].at = clock + 1
      BY <1>2, <2>1, <2>5
    <3> QED BY <1>0, <2>1, <3>1, <3>2
  <2> QED BY <2>2, <2>3, <2>4, <2>5
<1> QED BY <1>3, <1>4

LEMMA NumberStep == Base /\ PublicationInv /\ NumberInv /\ [Next]_vars => NumberInv'
<1> SUFFICES ASSUME Base, PublicationInv, NumberInv, [Next]_vars PROVE NumberInv'
  OBVIOUS
<1>1. CASE UNCHANGED vars
  BY <1>1 DEF vars, dashboardRow, NumberInv, NumbersFollowCommits, PastCommits, LastIsTaken, NextIsFree,
    PendingIsGreatest, PendingDiffer, VersionCounted, Counting, Numbers, Active
<1>2. ASSUME NEW t \in Tx, Acts(t) PROVE NumberInv'
  <2>1. VersionsCommitted
    BY DEF PublicationInv
  <2> QED BY <1>2, <2>1, NumbersFollowCommitsStep, LastIsTakenStep, NextIsFreeStep, PendingIsGreatestStep,
         PendingDifferStep, VersionCountedStep DEF NumberInv
<1> QED BY <1>1, <1>2, NextActs

(* Of two versions the later has the greater number, but for those that    *)
(* were made while a version was deleted.                                  *)
THEOREM NumbersFollowCommitsHolds == Spec => []NumbersFollowCommits
<1>1. NumberInv => NumbersFollowCommits
  BY DEF NumberInv
<1> QED BY <1>1, InitBase, BaseStep, InitPublication, PublicationStep, InitNumber, NumberStep, PTL DEF Spec

-----------------------------------------------------------------------------
(* What a replacement leaves. *)

LEMMA InitReplace == Init => ReplaceInv
BY DEF Init, NewTx, Active, ReplaceInv, RowFirst, SeenToClear, ClearedToFill

(* Only who has the row changes children.                                  *)
LEMMA ChangesUnderLock ==
  ASSUME Base, NEW t \in Tx, Acts(t), NEW c \in Children, children'[c] # children[c]
  PROVE  rowLock = t
<1>1. CASE Commits(t)
  <2>1. /\ Active(t) /\ tx[t].todo \in Seq(Statements) /\ tx[t].todo # <<>> /\ Head(tx[t].todo).st = "commit"
        /\ Ordered(tx[t].todo, tx[t].op, tx[t].on)
    BY <1>1, TodoFacts DEF Commits
  <2>2. Tail(tx[t].todo) = <<>> /\ ~Has(<<>>, "mirror")
    BY <2>1, OrderedHead DEF Has
  <2>3. ~Has(tx[t].todo, "mirror")
    BY <2>1, <2>2, HasTail
  <2>4. tx[t].own[c] # Same
    BY <1>1 DEF Commits, View
  <2> QED BY <2>1, <2>3, <2>4 DEF Base, Copied, RowWriter
<1>2. CASE Destroys(t)
  BY <1>2 DEF Destroys
<1> QED BY <1>1, <1>2, ChildrenAfter

(* So what the one that has it sees stays.                                 *)
LEMMA OwnViewStays ==
  ASSUME Base, NEW t \in Tx, Acts(t), NEW u \in Tx \ {t}, rowLock = u, NEW c \in Children
  PROVE  View(u)'[c] = View(u)[c]
<1>1. children'[c] = children[c]
  BY ChangesUnderLock
<1>2. tx'[u].own = tx[u].own
  BY OthersKeep DEF SameButTold
<1> QED BY <1>1, <1>2 DEF View

LEMMA RowFirstStep ==
  ASSUME Base, RowFirst, NEW t \in Tx, Acts(t)
  PROVE  RowFirst'
<1>1. SUFFICES ASSUME NEW u \in Tx, tx'[u].phase = "active", tx'[u].op \in Replacing, rowLock' # u
               PROVE  Head(tx'[u].todo).st = "row"
  BY DEF RowFirst, Active
<1>2. CASE u # t
  BY <1>1, <1>2, OthersKeep, RowLockStays DEF SameButTold, RowFirst, Active
<1>3. CASE u = t /\ Begin(t)
  BY <1>1, <1>3, BeginFields DEF Programmed, Starts
<1>4. CASE u = t /\ Proceeds(t)
  <2>1. rowLock # t
    BY <1>1, <1>4, DashboardStoreAssumption DEF Proceeds, Authors
  <2>2. Head(tx[t].todo).st = "row"
    BY <1>1, <1>4, <2>1 DEF Proceeds, Kept, RowFirst
  <2> QED BY <1>1, <1>4, <2>2 DEF Proceeds
<1> QED BY <1>1, <1>2, <1>3, <1>4, ActorEnds

LEMMA SeenToClearStep ==
  ASSUME Base, RowFirst, SeenToClear, NEW t \in Tx, Acts(t)
  PROVE  SeenToClear'
<1>1. SUFFICES ASSUME NEW u \in Tx, tx'[u].phase = "active", tx'[u].op \in Replacing, Head(tx'[u].todo).st = "clear"
               PROVE  /\ tx'[u].seen \subseteq Head(tx'[u].todo).on
                      /\ \A c \in Head(tx'[u].todo).on : View(u)'[c] # None => c \in tx'[u].seen
  BY DEF SeenToClear, Active, On
<1>2. CASE u # t
  <2>1. /\ Active(u) /\ tx'[u].todo = tx[u].todo /\ tx'[u].op = tx[u].op /\ tx'[u].seen = tx[u].seen
    BY <1>1, <1>2, OthersKeep DEF SameButTold, Active
  <2>2. rowLock = u
    BY <1>1, <2>1 DEF RowFirst
  <2>3. \A c \in On(u) : View(u)'[c] = View(u)[c]
    BY <1>2, <2>1, <2>2, OwnViewStays, TodoFacts
  <2> QED BY <1>1, <2>1, <2>3 DEF SeenToClear, On
<1>3. CASE u = t /\ Begin(t)
  BY <1>1, <1>3, BeginFields DEF Programmed, Starts
<1>4. CASE u = t /\ Proceeds(t)
  <2>1. /\ Active(t) /\ tx[t].todo \in Seq(Statements) /\ tx[t].todo # <<>>
        /\ Ordered(tx[t].todo, tx[t].op, tx[t].on) /\ On(t) = Head(tx[t].todo).on /\ On(t) \in SUBSET Children
    BY <1>4, TodoFacts DEF Proceeds
  <2>2. tx'[t].todo = Tail(tx[t].todo) /\ tx[t].op \in Replacing /\ children' = children
    BY <1>1, <1>4 DEF Proceeds, Kept, Database
  <2>3. Tail(tx[t].todo) # <<>>
    BY <1>4, <2>1, OrderedHead DEF Proceeds
  <2>4. Head(tx[t].todo).st = "see" /\ Head(tx'[t].todo).on = On(t)
    BY <1>1, <1>4, <2>1, <2>2, <2>3, ReplacingHead
  <2>5. tx'[t].own = tx[t].own /\ tx'[t].seen = {c \in On(t) : View(t)[c] # None}
    BY <1>4, <2>4 DEF Proceeds, Kept, Done, Changing
  <2>6. View(t)' = View(t)
    BY <2>2, <2>5 DEF View
  <2> QED BY <1>4, <2>4, <2>5, <2>6
<1> QED BY <1>1, <1>2, <1>3, <1>4, ActorEnds

(* Where the tables are empty, a transaction that fills them keeps the ids *)
(* it was asked for.                                                       *)
LEMMA FillsExactly ==
  ASSUME TypeOK, NEW t \in Tx, On(t) \in SUBSET Children, NEW f, Filled(t, f),
         \A c \in On(t) : View(t)[c] = None, NEW c \in Children
  PROVE  /\ c \in On(t) => tx'[t].own[c] = IF tx[t].target[c] # None THEN tx[t].target[c] ELSE tx[t].own[c]
         /\ c \notin On(t) => tx'[t].own[c] = tx[t].own[c]
<1> DEFINE C == {d \in On(t) : tx[t].target[d] # None}
<1>1. /\ f \in [C -> On(t)] /\ \A d \in C : f[d] = d
      /\ tx'[t].own[c] = IF c \in {f[d] : d \in C} THEN tx[t].target[CHOOSE d \in C : f[d] = c] ELSE tx[t].own[c]
  BY DEF Filled
<1>2. c \in {f[d] : d \in C} <=> c \in C
  BY <1>1
<1>3. c \in C => (CHOOSE d \in C : f[d] = c) = c
  BY <1>1
<1> HIDE DEF C
<1>4. tx'[t].own[c] = IF c \in C THEN tx[t].target[c] ELSE tx[t].own[c]
  BY <1>1, <1>2, <1>3
<1> QED BY <1>4 DEF C

LEMMA ClearedToFillStep ==
  ASSUME Base, RowFirst, SeenToClear, ClearedToFill, NEW t \in Tx, Acts(t)
  PROVE  ClearedToFill'
<1>1. SUFFICES ASSUME NEW u \in Tx, tx'[u].phase = "active", tx'[u].op \in Replacing,
                      NEW c \in tx'[u].on, ~Ahead(tx'[u].todo, "clear", c)
               PROVE  View(u)'[c] = IF Ahead(tx'[u].todo, "fill", c) THEN None ELSE tx'[u].target[c]
  BY DEF ClearedToFill, Active
<1>2. CASE u # t
  <2>1. /\ Active(u) /\ tx'[u].todo = tx[u].todo /\ tx'[u].op = tx[u].op
        /\ tx'[u].on = tx[u].on /\ tx'[u].target = tx[u].target
    BY <1>1, <1>2, OthersKeep DEF SameButTold, Active
  <2>2. /\ tx[u].todo \in Seq(Statements) /\ tx[u].todo # <<>> /\ Ordered(tx[u].todo, tx[u].op, tx[u].on)
        /\ c \in Children
    BY <1>1, <2>1, TodoFacts DEF Operation
  <2>3. Head(tx[u].todo).st # "row"
    BY <1>1, <2>1, <2>2, ReplacingHead, AheadTail
  <2>4. rowLock = u
    BY <1>1, <2>1, <2>3 DEF RowFirst
  <2>5. View(u)'[c] = View(u)[c]
    BY <1>2, <2>2, <2>4, OwnViewStays
  <2> QED BY <1>1, <2>1, <2>5 DEF ClearedToFill
<1>3. CASE u = t /\ Begin(t)
  <2>1. /\ tx'[t].todo \in Seq(Statements) /\ tx'[t].todo # <<>> /\ Head(tx'[t].todo).st = "row"
        /\ Ordered(tx'[t].todo, tx'[t].op, tx'[t].on)
    BY <1>1, <1>3, BeginFields DEF Programmed, Starts
  <2> QED BY <1>1, <1>3, <2>1, ReplacingHead, AheadTail
<1>4. CASE u = t /\ Proceeds(t)
  <2> DEFINE s == tx[t].todo
  <2>1. /\ Active(t) /\ s \in Seq(Statements) /\ s # <<>> /\ Ordered(s, tx[t].op, tx[t].on)
        /\ On(t) = Head(s).on /\ On(t) \in SUBSET Children /\ tx[t] \in TxRecords /\ tx[t].on \in SUBSET Children
    BY <1>4, TodoFacts DEF Proceeds, Operation
  <2>2. /\ tx'[t].todo = Tail(s) /\ tx[t].op \in Replacing /\ children' = children
        /\ tx'[t].on = tx[t].on /\ tx'[t].target = tx[t].target
    BY <1>1, <1>4 DEF Proceeds, Kept, Database
  <2>3. c \in Children /\ c \in tx[t].on
    BY <1>1, <1>4, <2>1, <2>2
  <2>4. tx'[t].own[c] = tx[t].own[c] => View(t)'[c] = View(t)[c]
    BY <2>2, <2>3 DEF View
  <2>5. /\ Head(s).st # "write" /\ \A st : Ahead(s, st, c) <=> (Head(s).st = st /\ c \in On(t)) \/ Ahead(Tail(s), st, c)
    BY <2>1, <2>2, ReplacingHead, AheadTail
  <2>6. ~Ahead(s, "clear", c) => View(t)[c] = IF Ahead(s, "fill", c) THEN None ELSE tx[t].target[c]
    BY <2>1, <2>2, <2>3 DEF ClearedToFill
  <2>7. CASE Head(s).st = "clear"
    <3>1. tx[t].seen \subseteq On(t) /\ (c \in On(t) /\ View(t)[c] # None => c \in tx[t].seen)
      BY <2>1, <2>2, <2>7 DEF SeenToClear
    <3>2. tx'[t].own[c] = IF c \in tx[t].seen /\ View(t)[c] # None THEN None ELSE tx[t].own[c]
      BY <1>4, <2>3, <2>7 DEF Proceeds, Done
    <3>3. CASE c \in On(t)
      <4>1. Ahead(Tail(s), "fill", c)
        BY <2>1, <2>2, <2>7, <3>3, ReplacingHead
      <4>2. View(t)'[c] = None
        BY <2>3, <2>4, <3>1, <3>2, <3>3, DashboardStoreAssumption DEF View
      <4> QED BY <1>4, <2>2, <4>1, <4>2
    <3>4. CASE c \notin On(t)
      BY <1>1, <1>4, <2>2, <2>4, <2>5, <2>6, <2>7, <3>1, <3>2, <3>4
    <3> QED BY <3>3, <3>4
  <2>8. CASE Head(s).st = "fill"
    <3>1. PICK f : Filled(t, f)
      BY <1>4, <2>8 DEF Proceeds, Done
    <3>2. ASSUME NEW d \in On(t) PROVE View(t)[d] = None /\ ~Ahead(Tail(s), "fill", d)
      <4>1. d \in tx[t].on /\ ~Ahead(Tail(s), "clear", d) /\ ~Ahead(Tail(s), "fill", d)
        BY <2>1, <2>2, <2>8, <3>2, ReplacingHead
      <4>2. ~Ahead(s, "clear", d) /\ Ahead(s, "fill", d)
        BY <2>1, <2>8, <3>2, <4>1, AheadTail
      <4> QED BY <2>1, <2>2, <4>1, <4>2 DEF ClearedToFill
    <3>3. /\ c \in On(t) => tx'[t].own[c] = IF tx[t].target[c] # None THEN tx[t].target[c] ELSE tx[t].own[c]
          /\ c \notin On(t) => tx'[t].own[c] = tx[t].own[c]
      BY <2>1, <2>3, <3>1, <3>2, FillsExactly DEF Base
    <3>4. CASE c \in On(t)
      <4>1. tx[t].target[c] # Same
        BY <2>1, <2>3, DashboardStoreAssumption DEF TxRecords, Images
      <4>2. View(t)'[c] = tx[t].target[c]
        BY <2>3, <2>4, <3>2, <3>3, <3>4, <4>1 DEF View
      <4> QED BY <1>4, <2>2, <3>2, <3>4, <4>2
    <3>5. CASE c \notin On(t)
      BY <1>1, <1>4, <2>2, <2>4, <2>5, <2>6, <2>8, <3>3, <3>5
    <3> QED BY <3>4, <3>5
  <2>9. CASE Head(s).st \notin {"clear", "fill"}
    <3>1. tx'[t].own = tx[t].own
      BY <1>4, <2>5, <2>9 DEF Proceeds, Kept, Changing
    <3> QED BY <1>1, <1>4, <2>2, <2>4, <2>5, <2>6, <2>9, <3>1
  <2> QED BY <2>7, <2>8, <2>9
<1> QED BY <1>1, <1>2, <1>3, <1>4, ActorEnds

LEMMA ReplaceStep == Base /\ ReplaceInv /\ [Next]_vars => ReplaceInv'
<1> SUFFICES ASSUME Base, ReplaceInv, [Next]_vars PROVE ReplaceInv'
  OBVIOUS
<1>1. CASE UNCHANGED vars
  BY <1>1 DEF vars, ReplaceInv, RowFirst, SeenToClear, ClearedToFill, Active, View, On
<1>2. ASSUME NEW t \in Tx, Acts(t) PROVE ReplaceInv'
  BY <1>2, RowFirstStep, SeenToClearStep, ClearedToFillStep DEF ReplaceInv
<1> QED BY <1>1, <1>2, NextActs

(* At its end nothing is left to delete or to make.                        *)
LEMMA ReplacedAtCommit ==
  Base /\ ReplaceInv /\ [Next]_vars =>
    [\A t \in Tx :
       /\ tx[t].op \in {"updateDashboard", "restore", "restoreUnpublished"}
       /\ tx[t].phase = "active" /\ tx'[t].phase = "committed"
       => \A c \in tx[t].on : children'[c] = tx[t].target[c]]_vars
<1> SUFFICES ASSUME Base, ReplaceInv, [Next]_vars, NEW u \in Tx, tx[u].op \in Replacing,
                    Active(u), tx'[u].phase = "committed", NEW c \in tx[u].on
             PROVE  children'[c] = tx[u].target[c]
  BY DEF Active, Replacing
<1>1. PICK t \in Tx : Acts(t)
  BY NextActs DEF vars, Active
<1>2. t = u
  BY <1>1, OthersKeep DEF SameButTold, Active
<1>3. Commits(u) \/ Destroys(u)
  BY <1>1, <1>2, BeginFields, EndedKeepsNothing DEF Acts, Proceeds, Kept, Fails
<1>4. /\ tx[u].todo \in Seq(Statements) /\ tx[u].todo # <<>> /\ Ordered(tx[u].todo, tx[u].op, tx[u].on)
  BY TodoFacts
<1>5. Head(tx[u].todo).st = "commit" /\ children' = View(u)
  <2>1. Head(tx[u].todo).st # "destroy"
    BY <1>4, ReplacingHead
  <2>2. Commits(u)
    BY <1>3, <2>1 DEF Destroys
  <2> QED BY <2>2 DEF Commits
<1>6. Tail(tx[u].todo) = <<>> /\ \A st : ~Ahead(<<>>, st, c)
  BY <1>4, <1>5, OrderedHead DEF Ahead
<1>7. ~Ahead(tx[u].todo, "clear", c) /\ ~Ahead(tx[u].todo, "fill", c)
  <2>1. \A st : Ahead(tx[u].todo, st, c) => Head(tx[u].todo).st = st \/ Ahead(<<>>, st, c)
    BY <1>4, <1>6, AheadTail
  <2> QED BY <1>5, <1>6, <2>1
<1> QED BY <1>5, <1>7 DEF ReplaceInv, ClearedToFill

(* Saving all elements or filters, and restoring a version, leave exactly  *)
(* the rows that were asked for, whoever edits meanwhile.                  *)
THEOREM ReplacesExactlyHolds == Spec => ReplacesExactly
<1> QED BY InitBase, BaseStep, InitReplace, ReplaceStep, ReplacedAtCommit, PTL DEF Spec, ReplacesExactly

=============================================================================
