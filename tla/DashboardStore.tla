--------------------------- MODULE DashboardStore ---------------------------
(***************************************************************************)
(* The database store of one dashboard (prisma-store.ts): a row of the     *)
(* dashboards table, its elements and filters, and its versions.  Every    *)
(* operation is an interactive transaction at PostgreSQL's default level,  *)
(* READ COMMITTED: each statement sees what was committed when it ran and   *)
(* the transaction's own writes; a row that was written stays locked until  *)
(* the transaction ends; no read takes a lock.                              *)
(*                                                                         *)
(* An element or a filter is abstracted to the transaction that last wrote *)
(* it.  Names, settings, categories and access scopes are left out.        *)
(***************************************************************************)
EXTENDS Integers, Sequences

CONSTANTS
  Elements, Filters, \* ids of child rows
  Tx,                \* transactions, each run once
  Kinds,             \* bound: the operations the transactions of an instance run
  Seed,              \* who wrote what is there at the start
  None,
  Same               \* a column a transaction has not written

Children == Elements \cup Filters
Authors == Tx \cup {Seed}

Images == [Children -> Authors \cup {None}]
VersionRecords == [number : Nat \ {0}, snapshot : Images, isPublished : BOOLEAN,
                   at : Nat, late : BOOLEAN]

ASSUME DashboardStoreAssumption ==
  /\ Elements \cap Filters = {}
  /\ Seed \notin Tx /\ None \notin Authors \cup VersionRecords /\ Same \notin Authors \cup {None}

VARIABLES
  exists,    \* the row of the dashboard is there
  children,  \* the child rows
  mirror,    \* draftLayout and draftFilters, the copy of the children in the row
  published, \* publishedVersionId; a version is named by its transaction
  versions,  \* the versions
  rowLock,   \* the transaction that wrote the dashboard's row
  tx,        \* the transactions
  lag,       \* history: children whose copy in the row may be out of date
  clock      \* history: how many transactions have committed

dashboardRow == <<exists, mirror, published>>
vars == <<dashboardRow, children, versions, rowLock, tx, lag, clock>>

(* A statement and the child rows it is about. *)
Statement(st, on) == [st |-> st, on |-> on]
Statements ==
  [st : {"row", "write", "see", "clear", "fill", "read", "mirror", "last", "number", "point", "drop",
         "unpoint", "destroy", "commit"},
   on : SUBSET Children]

Ops == {"create", "update", "delete", "replaceFilters", "updateDashboard", "publish", "createVersion",
        "restore", "restoreUnpublished", "deleteVersion", "deleteDashboard"}

TxRecords ==
  [phase : {"new", "active", "committed", "aborted"}, op : Ops,
   todo : Seq(Statements),
   on : SUBSET Children,                \* the rows or the tables the operation is about
   about : Authors \cup {None},         \* the version it is about
   target : Images,                     \* what the tables it replaces shall hold
   own : [Children -> Authors \cup {None, Same}],
   seen : SUBSET Children,
   image : Images,                      \* the children as it last read them
   synced : BOOLEAN,                    \* it has written the mirror
   pub : Authors \cup {None, Same},
   version : VersionRecords \cup {None},
   last : Nat,
   missed : SUBSET Children,  \* history: changed by others since it read them
   touched : SUBSET Children, \* history: changed by others since it began to make a version
   deletion : BOOLEAN]        \* history: a version was deleted since it began to make one, or one
                              \* was committed of which that holds

Empty == [c \in Children |-> None]
NewTx ==
  [phase |-> "new", op |-> "create", todo |-> <<>>, on |-> {}, about |-> None, target |-> Empty,
   own |-> [c \in Children |-> Same], seen |-> {}, image |-> Empty, synced |-> FALSE, pub |-> Same,
   version |-> None, last |-> 0, missed |-> {}, touched |-> {}, deletion |-> FALSE]

Init ==
  /\ exists = TRUE
  /\ children \in [Children -> {Seed, None}]
  /\ mirror = children
  /\ versions = [v \in Authors |->
       IF v = Seed THEN [number |-> 1, snapshot |-> children, isPublished |-> TRUE, at |-> 0, late |-> FALSE] ELSE None]
  /\ published = Seed
  /\ rowLock = None
  /\ tx = [t \in Tx |-> NewTx]
  /\ lag = {}
  /\ clock = 0

-----------------------------------------------------------------------------
(* What a statement of t sees and whom it waits for. *)

Active(t) == tx[t].phase = "active"
Others(t) == {u \in Tx \ {t} : Active(u)}
View(t) == [c \in Children |-> IF tx[t].own[c] = Same THEN children[c] ELSE tx[t].own[c]]
Unlocked(t, C) == \A u \in Others(t) : \A c \in C : tx[u].own[c] = Same
RowFree(t) == exists /\ rowLock \in {None, t}

Does(t, st) == Active(t) /\ tx[t].todo # <<>> /\ Head(tx[t].todo).st = st
On(t) == Head(tx[t].todo).on
After(t) == Tail(tx[t].todo)
Database == <<dashboardRow, children, versions, lag, clock>>

-----------------------------------------------------------------------------
(* The operations, as sequences of statements. *)

(* Mutant: only the elements are read. *)
SyncDraftState_Mutant == <<Statement("read", Elements), Statement("mirror", Children)>>

(* syncDraftState *)
SyncDraftState ==
  <<Statement("read", Elements), Statement("read", Filters), Statement("mirror", Children)>>

(* deleteMany and the creations that follow. *)
Replace(C) ==
  IF C = {} THEN <<>> ELSE <<Statement("see", C), Statement("clear", C), Statement("fill", C)>>

(* replaceDashboardFromSnapshot *)
ReplaceFromSnapshot ==
  <<Statement("row", {}), Statement("see", Elements), Statement("clear", Elements), Statement("see", Filters),
    Statement("clear", Filters), Statement("fill", Elements), Statement("fill", Filters)>> \o SyncDraftState

CreateVersion ==
  <<Statement("read", Elements), Statement("read", Filters), Statement("last", {}), Statement("number", {})>>

(* Mutant: the row is written, and so locked, after the children. *)
Program_Mutant(op, C) ==
  Append(CASE op \in {"create", "update", "delete"} -> <<Statement("write", C)>> \o SyncDraftState
           [] op = "replaceFilters" -> Replace(C) \o SyncDraftState
           [] op = "updateDashboard" ->
                Replace(C \cap Elements) \o Replace(C \cap Filters) \o <<Statement("row", {})>> \o SyncDraftState
           [] op = "restore" -> Replace(Children) \o <<Statement("row", {})>> \o SyncDraftState \o <<Statement("point", {})>>
           [] op = "restoreUnpublished" -> Replace(Children) \o <<Statement("row", {})>> \o SyncDraftState
           [] op = "publish" -> CreateVersion \o <<Statement("point", {})>> \o SyncDraftState
           [] op = "createVersion" -> CreateVersion
           [] op = "deleteVersion" -> <<Statement("drop", {}), Statement("unpoint", {})>>
           [] op = "deleteDashboard" -> <<Statement("row", {}), Statement("destroy", {})>>,
         Statement("commit", {}))

Program(op, C) ==
  Append(CASE op \in {"create", "update", "delete"} -> <<Statement("write", C)>> \o SyncDraftState
           [] op = "replaceFilters" -> Replace(C) \o SyncDraftState
           [] op = "updateDashboard" ->
                <<Statement("row", {})>> \o Replace(C \cap Elements) \o Replace(C \cap Filters) \o SyncDraftState
           [] op = "restore" -> ReplaceFromSnapshot \o <<Statement("point", {})>>
           [] op = "restoreUnpublished" -> ReplaceFromSnapshot
           [] op = "publish" -> CreateVersion \o <<Statement("point", {})>> \o SyncDraftState
           [] op = "createVersion" -> CreateVersion
           [] op = "deleteVersion" -> <<Statement("drop", {}), Statement("unpoint", {})>>
           [] op = "deleteDashboard" -> <<Statement("row", {}), Statement("destroy", {})>>,
         Statement("commit", {}))

Begins(t, op, C, about, target) ==
  /\ tx[t].phase = "new" /\ exists
  /\ op \in Kinds
  /\ tx' = [tx EXCEPT ![t].phase = "active", ![t].op = op, ![t].todo = Program(op, C),
                      ![t].on = C, ![t].about = about, ![t].target = target]
  /\ UNCHANGED <<Database, rowLock>>

(* The checks an operation starts with have passed. *)
BeginEdit(t) ==
  \/ \E C \in {Elements, Filters} : Begins(t, "create", C, None, Empty)
  \/ \E c \in Children, op \in {"update", "delete"} :
       children[c] # None /\ Begins(t, op, {c}, None, Empty)
BeginReplace(t) ==
  \E C \in SUBSET Children :
    LET target == [c \in Children |-> IF c \in C THEN t ELSE None] IN
    \/ C \subseteq Filters /\ Begins(t, "replaceFilters", Filters, None, target)
    \/ \E D \in {{}, Elements, Filters, Children} :
         C \subseteq D /\ Begins(t, "updateDashboard", D, None, target)
BeginVersion(t) ==
  \/ \E op \in {"publish", "createVersion", "deleteDashboard"} : Begins(t, op, {}, None, Empty)
  \/ \E v \in Authors :
       /\ versions[v] # None
       /\ \/ Begins(t, IF versions[v].isPublished THEN "restore" ELSE "restoreUnpublished",
                    Children, v, versions[v].snapshot)
          \/ Begins(t, "deleteVersion", {}, v, Empty)

-----------------------------------------------------------------------------
(* The statements. *)

Step(t, st) == Does(t, st) /\ UNCHANGED Database

Writes(t, C, value) ==
  tx' = [tx EXCEPT ![t].todo = After(t), ![t].own = [c \in Children |-> IF c \in C THEN value[c] ELSE @[c]]]

(* The row is updated, and locked until the transaction ends. *)
UpdateRow(t) ==
  /\ Step(t, "row") /\ RowFree(t)
  /\ rowLock' = t
  /\ tx' = [tx EXCEPT ![t].todo = After(t), ![t].pub = IF tx[t].op = "deleteDashboard" THEN None ELSE @]

(* A child is created, updated or deleted by its id. *)
WriteChild(t) ==
  /\ Step(t, "write") /\ exists
  /\ \E c \in On(t) :
       /\ Unlocked(t, {c})
       /\ (tx[t].op = "create") <=> (children[c] = None)
       /\ Writes(t, {c}, [d \in {c} |-> IF tx[t].op = "delete" THEN None ELSE t])
  /\ UNCHANGED rowLock

(* deleteMany finds the rows, and deletes those that are still there when  *)
(* nobody else holds them.                                                 *)
SeeChildren(t) ==
  /\ Step(t, "see")
  /\ tx' = [tx EXCEPT ![t].todo = After(t), ![t].seen = {c \in On(t) : View(t)[c] # None}]
  /\ UNCHANGED rowLock

ClearChildren(t) ==
  /\ Step(t, "clear") /\ Unlocked(t, tx[t].seen)
  /\ Writes(t, {c \in tx[t].seen : View(t)[c] # None}, Empty)
  /\ UNCHANGED rowLock

(* createElementWithTx or createFilterWithTx for each new row.  uniqueId   *)
(* keeps the id that was asked for, or takes one nobody uses.              *)
FillChildren(t) ==
  LET C == {c \in On(t) : tx[t].target[c] # None}
      kept == {c \in C : View(t)[c] = None}
  IN
  /\ Step(t, "fill") /\ exists
  /\ \E f \in [C -> On(t)] :
       /\ \A c, d \in C : f[c] = f[d] => c = d
       /\ \A c \in C : View(t)[f[c]] = None /\ (c \in kept => f[c] = c)
       /\ Unlocked(t, {f[c] : c \in C})
       /\ Writes(t, {f[c] : c \in C}, [d \in {f[c] : c \in C} |-> tx[t].target[CHOOSE c \in C : f[c] = d]])
  /\ UNCHANGED rowLock

(* findMany *)
ReadChildren(t) ==
  /\ Step(t, "read")
  /\ tx' = [tx EXCEPT ![t].todo = After(t),
                      ![t].image = [c \in Children |-> IF c \in On(t) THEN View(t)[c] ELSE @[c]],
                      ![t].missed = @ \ On(t)]
  /\ UNCHANGED rowLock

WriteMirror(t) ==
  /\ Step(t, "mirror") /\ RowFree(t)
  /\ rowLock' = t
  /\ tx' = [tx EXCEPT ![t].todo = After(t), ![t].synced = TRUE]

Numbers == {versions[v].number : v \in {w \in Authors : versions[w] # None}}

LastNumber == IF Numbers = {} THEN 0 ELSE CHOOSE n \in Numbers : \A m \in Numbers : m <= n

ReadLastNumber(t) ==
  /\ Step(t, "last")
  /\ tx' = [tx EXCEPT ![t].todo = After(t), ![t].last = LastNumber]
  /\ UNCHANGED rowLock

(* Mutant: the snapshot is taken from the copy of the children in the row. *)
NewVersion_Mutant(t) ==
  [number |-> tx[t].last + 1, snapshot |-> mirror, isPublished |-> tx[t].op = "publish",
   at |-> 0, late |-> FALSE]

NewVersion(t) ==
  [number |-> tx[t].last + 1, snapshot |-> tx[t].image, isPublished |-> tx[t].op = "publish",
   at |-> 0, late |-> FALSE]

(* Mutant: the numbers of the versions of a dashboard have no unique index. *)
InsertVersion_Mutant(t) ==
  /\ Step(t, "number") /\ exists
  /\ tx' = [tx EXCEPT ![t].todo = After(t), ![t].version = NewVersion(t)]
  /\ UNCHANGED rowLock

(* @@unique([dashboardId, versionNumber]): the insertion waits for another  *)
(* that took the number and fails if that one commits.                     *)
InsertVersion(t) ==
  LET n == tx[t].last + 1 IN
  /\ Step(t, "number") /\ exists
  /\ n \notin Numbers
  /\ \A u \in Others(t) : tx[u].version # None => tx[u].version.number # n
  /\ tx' = [tx EXCEPT ![t].todo = After(t), ![t].version = NewVersion(t)]
  /\ UNCHANGED rowLock

Dropped(u, v) == Active(u) /\ tx[u].op = "deleteVersion" /\ tx[u].about = v /\ ~Does(u, "drop")

(* publishedVersionId = v: the foreign key needs v, and keeps it. *)
PointAt(t, v) ==
  /\ RowFree(t)
  /\ v = t \/ versions[v] # None
  /\ \A u \in Others(t) : ~Dropped(u, v)
  /\ rowLock' = t
  /\ tx' = [tx EXCEPT ![t].todo = After(t), ![t].pub = v]

Publish(t) == Step(t, "point") /\ tx[t].op = "publish" /\ PointAt(t, t)
Republish(t) == Step(t, "point") /\ tx[t].op = "restore" /\ PointAt(t, tx[t].about)

(* A version is deleted unless a transaction is about to publish it; the   *)
(* foreign key then clears the column that names it.                       *)
DropVersion(t) ==
  LET v == tx[t].about IN
  /\ Step(t, "drop")
  /\ versions[v] # None
  /\ \A u \in Others(t) : tx[u].pub # v /\ ~Dropped(u, v)
  /\ tx' = [tx EXCEPT ![t].todo = After(t)]
  /\ UNCHANGED rowLock

(* Mutant: the foreign key does nothing when its version is deleted. *)
SetNull_Mutant(t) ==
  /\ Step(t, "unpoint")
  /\ tx' = [tx EXCEPT ![t].todo = After(t)]
  /\ UNCHANGED rowLock

SetNull(t) ==
  /\ Step(t, "unpoint")
  /\ \/ /\ published = tx[t].about /\ RowFree(t)
        /\ rowLock' = t
        /\ tx' = [tx EXCEPT ![t].todo = After(t), ![t].pub = None]
     \/ /\ published # tx[t].about
        /\ tx' = [tx EXCEPT ![t].todo = After(t)]
        /\ UNCHANGED rowLock

-----------------------------------------------------------------------------
(* The end of a transaction. *)

Ended(phase) == [NewTx EXCEPT !.phase = phase]

Unread(u) ==
  UNION {tx[u].todo[i].on : i \in {j \in DOMAIN tx[u].todo : tx[u].todo[j].st = "read"}}
MakesVersion(u) == tx[u].op \in {"publish", "createVersion"}

Told(t, C, deleted) ==
  [u \in Tx |->
     IF u = t THEN Ended("committed")
     ELSE IF Active(u) THEN
       [tx[u] EXCEPT !.missed = @ \cup (C \ Unread(u)),
                     !.touched = IF MakesVersion(u) THEN @ \cup C ELSE @,
                     !.deletion = MakesVersion(u) /\ (@ \/ deleted)]
     ELSE tx[u]]

Commit(t) ==
  LET now == View(t)
      changed == {c \in Children : now[c] # children[c]}
      gone == IF tx[t].op = "deleteVersion" THEN {tx[t].about} ELSE {}
  IN
  /\ Does(t, "commit")
  /\ children' = now
  /\ mirror' = IF tx[t].synced THEN tx[t].image ELSE mirror
  /\ published' = IF tx[t].pub = Same THEN published ELSE tx[t].pub
  /\ versions' = [v \in Authors |->
       IF v \in gone THEN None
       ELSE IF v = t /\ tx[t].version # None THEN [tx[t].version EXCEPT !.at = clock + 1, !.late = tx[t].deletion] ELSE versions[v]]
  /\ rowLock' = IF rowLock = t THEN None ELSE rowLock
  /\ clock' = clock + 1
  /\ lag' = IF tx[t].synced THEN tx[t].missed ELSE lag
  /\ tx' = Told(t, changed, gone # {} \/ tx[t].deletion)
  /\ UNCHANGED exists

(* The row and, by cascade, all that belongs to it are deleted once nobody *)
(* else holds any of it.                                                   *)
Destroy(t) ==
  /\ Does(t, "destroy") /\ rowLock = t
  /\ Unlocked(t, Children)
  /\ \A u \in Others(t) : tx[u].version = None /\ \A v \in Authors : ~Dropped(u, v)
  /\ exists' = FALSE
  /\ children' = Empty /\ mirror' = Empty /\ published' = None
  /\ versions' = [v \in Authors |-> None]
  /\ rowLock' = None
  /\ clock' = clock + 1
  /\ lag' = {}
  /\ tx' = Told(t, Children, TRUE)

(* A transaction fails when it finds a row gone or a number taken, when it *)
(* is the victim of a deadlock, and after five seconds.                    *)
Abort(t) ==
  /\ Active(t)
  /\ tx' = [tx EXCEPT ![t] = Ended("aborted")]
  /\ rowLock' = IF rowLock = t THEN None ELSE rowLock
  /\ UNCHANGED Database

Finished == (\A t \in Tx : tx[t].phase \in {"committed", "aborted"} \/ (~exists /\ tx[t].phase = "new")) /\ UNCHANGED vars

StatementOf(t) ==
  \/ UpdateRow(t) \/ WriteChild(t) \/ SeeChildren(t) \/ ClearChildren(t) \/ FillChildren(t)
  \/ ReadChildren(t) \/ WriteMirror(t) \/ ReadLastNumber(t) \/ InsertVersion(t)
  \/ Publish(t) \/ Republish(t) \/ DropVersion(t) \/ SetNull(t) \/ Destroy(t)

Next ==
  \/ \E t \in Tx : BeginEdit(t) \/ BeginReplace(t) \/ BeginVersion(t) \/ StatementOf(t) \/ Commit(t) \/ Abort(t)
  \/ Finished

Spec == Init /\ [][Next]_vars

-----------------------------------------------------------------------------
(* Properties. *)

(* The row names a version that exists and that was published, however     *)
(* publications, restorations and deletions of versions overlap.           *)
PublishedVersionExists ==
  published # None => versions[published] # None /\ versions[published].isPublished

(* Of two versions the one that was committed later has the greater        *)
(* number, unless a third was deleted while that one was being made: then  *)
(* its number may be taken again, and versions made meanwhile are as late. *)
NumbersFollowCommits ==
  \A u, v \in Authors :
    /\ versions[u] # None /\ versions[v] # None
    /\ versions[u].at < versions[v].at
    => versions[u].number < versions[v].number \/ versions[v].late

(* The copy of the children in the row, which is what a dashboard's layout *)
(* is read from, is out of date only for children that were changed by a   *)
(* transaction that committed between the read and the write of the last   *)
(* one that wrote the copy: an edit that overlaps no other repairs it all. *)
MirrorLagsOnlyByRace == \A c \in Children : mirror[c] # children[c] => c \in lag

(* A version holds every child as it was when its transaction began, but   *)
(* for those that others changed since: no committed edit is left out of   *)
(* what is published.  Children only: the layout in a snapshot is taken    *)
(* from the draft in the row and may be older.                             *)
PublishIsCurrent ==
  \A t \in Tx : Active(t) /\ tx[t].version # None =>
    \A c \in Children \ tx[t].touched : tx[t].version.snapshot[c] = children[c]

(* Saving all elements or filters of a dashboard, and restoring a version, *)
(* leave exactly the rows that were asked for, whoever edits meanwhile.    *)
ReplacesExactly ==
  [][\A t \in Tx :
       /\ tx[t].op \in {"updateDashboard", "restore", "restoreUnpublished"}
       /\ tx[t].phase = "active" /\ tx'[t].phase = "committed"
       => \A c \in tx[t].on : children'[c] = tx[t].target[c]]_vars
=============================================================================
