---------------------------- MODULE RuntimeSync ----------------------------
(***************************************************************************)
(* The API keeps every data source in a process-wide array, dataSources,   *)
(* which PrismaDataSourceRuntimeSync fills from the database on demand.     *)
(* This module models the sync object, the array, and the route handlers   *)
(* that create and delete sources while loads are in flight.               *)
(*                                                                         *)
(* Node runs one callback at a time.  A step that continues a settled      *)
(* promise is a microtask: it runs before the next request, timer or       *)
(* database reply is looked at, which the guard NoMicrotask expresses.     *)
(* What the database does (taking a snapshot, committing) is another        *)
(* process and happens at any time.                                        *)
(***************************************************************************)
EXTENDS Integers, FiniteSets

CONSTANTS
  Sources,    \* ids of data sources
  Permanent,  \* the sources no request ever deletes
  Deps,       \* Deps[s]: ids the configuration of s refers to
  Callers,    \* HTTP requests, each handled once
  LoadIds,    \* identities for running loads (bounds the loads in flight)
  All,        \* the scope of a load of every source
  None        \* no load

ASSUME ConstantsAssumption ==
  /\ IsFiniteSet(Sources)
  /\ Permanent \subseteq Sources
  /\ Deps \in [Sources -> SUBSET Sources]
  /\ Callers \cap LoadIds = {}
  /\ All \notin Sources
  /\ None \notin LoadIds

VARIABLES
  db,             \* the active rows of the DataSource table
  copies,         \* copies[s]: entries of the dataSources array with id s
  synced,         \* syncedDataSourceIds
  fullyLoaded,
  loading,        \* the load of all sources in flight, or None
  loadingSources, \* the scoped load in flight of each source, or None
  load,           \* the invocations of loadDataSources
  frame,          \* the ensureLoaded call each request, and each load, awaits
  call,           \* the route handlers
  removed         \* history: sources taken out of the array during a load of them

syncVars == <<copies, synced, fullyLoaded, loading, loadingSources, load, frame>>
vars == <<db, syncVars, call, removed>>

Scopes == Sources \cup {All}
Frames == Callers \cup LoadIds
CallKinds == {"read", "create", "delete"}
LoadRecords ==
  [pc : {"free", "reading", "read", "deps"}, scope : Scopes, rows : SUBSET Sources, todo : SUBSET Sources]
FrameRecords ==
  [pc : {"idle", "awaitFull", "recheck", "awaitLoad", "returned", "threw"}, scope : Scopes,
   on : LoadIds \cup {None}]
CallRecords ==
  [pc : {"new", "ensuring", "authorizing", "creating", "created", "deleting", "deleted", "done", "failed"},
   kind : CallKinds, scope : Scopes]

Idle == [pc |-> "idle", scope |-> All, on |-> None]
Load(pc, scope, rows, todo) == [pc |-> pc, scope |-> scope, rows |-> rows, todo |-> todo]
Free == Load("free", All, {}, {})

RuntimeSourceLoaded(s) == copies[s] > 0
FreeIds == {l \in LoadIds : load[l].pc = "free"}
Pending(l) == load[l].pc # "free"

Init ==
  /\ db \in {d \in SUBSET Sources : Permanent \subseteq d}
  /\ copies = [s \in Sources |-> 0]
  /\ synced = {}
  /\ fullyLoaded = FALSE
  /\ loading = None
  /\ loadingSources = [s \in Sources |-> None]
  /\ load = [l \in LoadIds |-> Free]
  /\ frame = [f \in Frames |-> Idle]
  /\ call = [c \in Callers |-> [pc |-> "new", kind |-> "read", scope |-> All]]
  /\ removed = {}

-----------------------------------------------------------------------------
(* Continuations that are ready to run. *)

LoadReady(l) ==
  /\ load[l].pc = "deps"
  /\ frame[l].pc \in {"idle", "recheck", "returned", "threw"}
CallReady(c) ==
  /\ call[c].pc = "ensuring"
  /\ frame[c].pc \in {"recheck", "returned", "threw"}
NoMicrotask ==
  /\ \A l \in LoadIds : ~LoadReady(l)
  /\ \A c \in Callers : ~CallReady(c)

(* A frame leaves its call normally, or waits for load l. *)
Returned(s) == [pc |-> "returned", scope |-> s, on |-> None]
Await(pc, s, l) == [pc |-> pc, scope |-> s, on |-> l]

-----------------------------------------------------------------------------
(* ensureSourceLoaded and ensureLoaded, called by frame f. *)

(* loadDataSources up to its first await: the query is sent. *)
StartLoad(f, s) ==
  /\ FreeIds # {}
  /\ LET l == CHOOSE x \in FreeIds : TRUE IN
       /\ load' = [load EXCEPT ![l] = Load("reading", s, {}, {})]
       /\ frame' = [frame EXCEPT ![f] = Await(IF s = All THEN "awaitFull" ELSE "awaitLoad", s, l)]
       /\ IF s = All
            THEN /\ loading' = l
                 /\ UNCHANGED loadingSources
            ELSE /\ loadingSources' = [loadingSources EXCEPT ![s] = l]
                 /\ UNCHANGED loading

(* Mutant: a second caller does not look for the load in flight. *)
JoinOrStart_Mutant(f, s) == StartLoad(f, s)

JoinOrStart(f, s) ==
  \/ /\ loadingSources[s] # None
     /\ frame' = [frame EXCEPT ![f] = Await("awaitLoad", s, loadingSources[s])]
     /\ UNCHANGED <<loading, loadingSources, load>>
  \/ /\ loadingSources[s] = None
     /\ StartLoad(f, s)

(* Mutant: a source counts as ready only once its own load is over. *)
Ready_Mutant(s) == RuntimeSourceLoaded(s) /\ s \in synced /\ loadingSources[s] = None

Ready(s) == RuntimeSourceLoaded(s) /\ (fullyLoaded \/ s \in synced)

EnsureSourceLoaded(f, s) ==
  \/ /\ Ready(s)
     /\ frame' = [frame EXCEPT ![f] = Returned(s)]
     /\ UNCHANGED <<loading, loadingSources, load>>
  \/ /\ ~Ready(s)
     /\ loading # None
     /\ frame' = [frame EXCEPT ![f] = Await("awaitFull", s, loading)]
     /\ UNCHANGED <<loading, loadingSources, load>>
  \/ /\ ~Ready(s)
     /\ loading = None
     /\ JoinOrStart(f, s)

EnsureLoaded(f) ==
  \/ /\ fullyLoaded
     /\ frame' = [frame EXCEPT ![f] = Returned(All)]
     /\ UNCHANGED <<loading, loadingSources, load>>
  \/ /\ ~fullyLoaded
     /\ loading # None
     /\ frame' = [frame EXCEPT ![f] = Await("awaitFull", All, loading)]
     /\ UNCHANGED <<loading, loadingSources, load>>
  \/ /\ ~fullyLoaded
     /\ loading = None
     /\ StartLoad(f, All)

(* Microtask: a scoped call resumes after the full load it waited for. *)
ResumeAfterFull(f) ==
  /\ frame[f].pc = "recheck"
  /\ LET s == frame[f].scope IN
       \/ /\ RuntimeSourceLoaded(s) /\ s \in synced
          /\ frame' = [frame EXCEPT ![f] = Returned(s)]
          /\ UNCHANGED <<loading, loadingSources, load>>
       \/ /\ ~(RuntimeSourceLoaded(s) /\ s \in synced)
          /\ JoinOrStart(f, s)
  /\ UNCHANGED <<db, copies, synced, fullyLoaded, call, removed>>

-----------------------------------------------------------------------------
(* Mutant: a failed load looks like a successful one to those who await it. *)
Wake_Mutant(l, ok) ==
  [f \in Frames |-> IF f = l THEN Idle
                   ELSE IF frame[f].on # l THEN frame[f] ELSE Returned(frame[f].scope)]

(* What a frame does when the promise it awaits settles. *)
Resumed(r, ok) ==
  [pc |-> IF ~ok THEN "threw" ELSE IF r.pc = "awaitFull" /\ r.scope # All THEN "recheck" ELSE "returned",
   scope |-> r.scope, on |-> None]

(* The end of loadDataSources: finally clears the registry and whoever     *)
(* awaits the promise resumes.                                             *)
Wake(l, ok) ==
  [f \in Frames |->
     IF f = l THEN Idle ELSE IF frame[f].on = l THEN Resumed(frame[f], ok) ELSE frame[f]]

Settle(l, ok) ==
  /\ frame' = Wake(l, ok)
  /\ load' = [load EXCEPT ![l] = Free]
  /\ IF load[l].scope = All
       THEN /\ loading' = None
            /\ UNCHANGED loadingSources
       ELSE /\ loadingSources' = [loadingSources EXCEPT ![load[l].scope] = None]
            /\ UNCHANGED loading

InScope(s, scope) == scope = All \/ scope = s

(* The database evaluates the query of load l. *)
DbSnapshot(l) ==
  /\ load[l].pc = "reading"
  /\ load' = [load EXCEPT ![l] = Load("read", @.scope, {s \in db : InScope(s, @.scope)}, {})]
  /\ UNCHANGED <<db, copies, synced, fullyLoaded, loading, loadingSources, frame, call, removed>>

(* Mutants: a failed read is sent again for ever; a failed read of the     *)
(* whole table sets fullyLoaded.                                           *)
DbReadFails_Retry(l) ==
  /\ NoMicrotask
  /\ load[l].pc \in {"reading", "read"}
  /\ load' = [load EXCEPT ![l] = Load("reading", @.scope, {}, {})]
  /\ UNCHANGED <<db, copies, synced, fullyLoaded, loading, loadingSources, frame, call, removed>>
DbReadFails_Mutant(l) ==
  /\ NoMicrotask
  /\ load[l].pc \in {"reading", "read"}
  /\ Settle(l, FALSE)
  /\ fullyLoaded' = (fullyLoaded \/ load[l].scope = All)
  /\ UNCHANGED <<db, copies, synced, call, removed>>

DbReadFails(l) ==
  /\ NoMicrotask
  /\ load[l].pc \in {"reading", "read"}
  /\ Settle(l, FALSE)
  /\ UNCHANGED <<db, copies, synced, fullyLoaded, call, removed>>

(* replaceSyncedRuntimeSources: previously synced ids in scope that the    *)
(* query did not return lose one entry, the returned ones are put in place *)
(* of the first entry with their id or appended.                           *)
Dropped(l) == {s \in synced : RuntimeSourceLoaded(s) /\ InScope(s, load[l].scope) /\ s \notin load[l].rows}

(* Mutant: rows are appended without looking for an entry with their id. *)
ReplaceSyncedRuntimeSources_Mutant(l) ==
  /\ copies' = [s \in Sources |-> IF s \in load[l].rows THEN copies[s] + 1 ELSE copies[s]]
  /\ synced' = synced \cup load[l].rows
  /\ UNCHANGED removed

ReplaceSyncedRuntimeSources(l) ==
  /\ copies' = [s \in Sources |->
                  IF s \in Dropped(l) THEN copies[s] - 1
                  ELSE IF s \in load[l].rows /\ copies[s] = 0 THEN 1
                  ELSE copies[s]]
  /\ synced' = (synced \ Dropped(l)) \cup load[l].rows
  /\ removed' = removed \cup {s \in Dropped(l) : copies[s] = 1 /\ loadingSources[s] # None}

(* The ids that the configurations of rows refer to, each without its own. *)
RuntimeDependencySourceIds(rows) == UNION {Deps[s] \ {s} : s \in rows}

(* The rows arrive.  A full load is over; a scoped load goes on to the     *)
(* sources its rows depend on.                                             *)
DbReadReply(l) ==
  /\ NoMicrotask
  /\ load[l].pc = "read"
  /\ ReplaceSyncedRuntimeSources(l)
  /\ IF load[l].scope = All
       THEN /\ fullyLoaded' = TRUE
            /\ Settle(l, TRUE)
       ELSE /\ load' = [load EXCEPT ![l] = Load("deps", @.scope, @.rows, RuntimeDependencySourceIds(@.rows))]
            /\ UNCHANGED <<fullyLoaded, loading, loadingSources, frame>>
  /\ UNCHANGED <<db, call>>

(* Microtasks of the dependency loop. *)
NextDependency(l) ==
  /\ load[l].pc = "deps"
  /\ frame[l].pc = "idle"
  /\ \E d \in load[l].todo : EnsureSourceLoaded(l, d)
  /\ UNCHANGED <<db, copies, synced, fullyLoaded, call, removed>>

DependencyLoaded(l) ==
  /\ load[l].pc = "deps"
  /\ frame[l].pc = "returned"
  /\ load' = [load EXCEPT ![l] = Load("deps", @.scope, @.rows, @.todo \ {frame[l].scope})]
  /\ frame' = [frame EXCEPT ![l] = Idle]
  /\ UNCHANGED <<db, copies, synced, fullyLoaded, loading, loadingSources, call, removed>>

(* Mutant: the load is over after its first dependency. *)
LoadSettles_Mutant(l) ==
  /\ load[l].pc = "deps"
  /\ Settle(l, frame[l].pc = "idle")
  /\ frame[l].pc \in {"idle", "threw"}
  /\ UNCHANGED <<db, copies, synced, fullyLoaded, call, removed>>

LoadSettles(l) ==
  /\ load[l].pc = "deps"
  /\ \/ frame[l].pc = "idle" /\ load[l].todo = {} /\ Settle(l, TRUE)
     \/ frame[l].pc = "threw" /\ Settle(l, FALSE)
  /\ UNCHANGED <<db, copies, synced, fullyLoaded, call, removed>>

-----------------------------------------------------------------------------
(* The route handlers. *)

(* A request arrives and preloadRuntimeForRequest runs.  The source list   *)
(* and POST load everything, the routes of one source load that source.    *)
Request(c) ==
  /\ NoMicrotask
  /\ call[c].pc = "new"
  /\ \E kind \in CallKinds, s \in Scopes :
       /\ kind = "delete" => s \in Sources \ Permanent
       /\ kind = "create" => s \in Sources \ Permanent
       /\ call' = [call EXCEPT ![c] = [pc |-> "ensuring", kind |-> kind, scope |-> s]]
       /\ IF kind = "create" \/ s = All
            THEN EnsureLoaded(c)
            ELSE EnsureSourceLoaded(c, s)
  /\ UNCHANGED <<db, copies, synced, fullyLoaded, removed>>

(* Microtask: the preload is over. *)
PreloadEnds(c) ==
  /\ call[c].pc = "ensuring"
  /\ frame[c].pc \in {"returned", "threw"}
  /\ frame' = [frame EXCEPT ![c] = Idle]
  /\ call' = [call EXCEPT ![c].pc = IF frame[c].pc = "threw" THEN "failed" ELSE "authorizing"]
  /\ UNCHANGED <<db, copies, synced, fullyLoaded, loading, loadingSources, load, removed>>

(* The access policy (and, for POST, the body) is read, then the handler   *)
(* looks the source up and sends its statement to the database.            *)
Authorized(c) ==
  /\ NoMicrotask
  /\ call[c].pc = "authorizing"
  /\ \E pc \in {"creating", "deleting", "done", "failed"} :
       /\ pc = "creating" => call[c].kind = "create"
       /\ pc = "done" => call[c].kind # "create"
       /\ pc = "deleting" => call[c].kind = "delete" /\ RuntimeSourceLoaded(call[c].scope)
       /\ call' = [call EXCEPT ![c].pc = pc]
  /\ UNCHANGED <<db, syncVars, removed>>

CreateCommits(c) ==
  /\ call[c].pc = "creating"
  /\ \/ /\ call[c].scope \notin db
        /\ db' = db \cup {call[c].scope}
        /\ call' = [call EXCEPT ![c].pc = "created"]
     \/ /\ call' = [call EXCEPT ![c].pc = "failed"]
        /\ UNCHANGED db
  /\ UNCHANGED <<syncVars, removed>>

CreateReply(c) ==
  /\ NoMicrotask
  /\ call[c].pc = "created"
  /\ copies' = [copies EXCEPT ![call[c].scope] = @ + 1]
  /\ call' = [call EXCEPT ![c].pc = "done"]
  /\ UNCHANGED <<db, synced, fullyLoaded, loading, loadingSources, load, frame, removed>>

DeleteCommits(c) ==
  /\ call[c].pc = "deleting"
  /\ \/ /\ db' = db \ {call[c].scope}
        /\ call' = [call EXCEPT ![c].pc = "deleted"]
     \/ /\ call' = [call EXCEPT ![c].pc = "failed"]
        /\ UNCHANGED db
  /\ UNCHANGED <<syncVars, removed>>

(* removeDataSource splices the first entry and leaves                     *)
(* syncedDataSourceIds alone.                                              *)
DeleteReply(c) ==
  LET s == call[c].scope IN
  /\ NoMicrotask
  /\ call[c].pc = "deleted"
  /\ copies' = [copies EXCEPT ![s] = IF @ > 0 THEN @ - 1 ELSE 0]
  /\ removed' = IF copies[s] = 1 /\ loadingSources[s] # None THEN removed \cup {s} ELSE removed
  /\ call' = [call EXCEPT ![c].pc = "done"]
  /\ UNCHANGED <<db, synced, fullyLoaded, loading, loadingSources, load, frame>>

-----------------------------------------------------------------------------
LoadStep(l) ==
  \/ DbSnapshot(l) \/ DbReadReply(l) \/ DbReadFails(l)
  \/ NextDependency(l) \/ DependencyLoaded(l) \/ LoadSettles(l)

HandlerStep(c) ==
  \/ PreloadEnds(c) \/ Authorized(c)
  \/ CreateCommits(c) \/ CreateReply(c) \/ DeleteCommits(c) \/ DeleteReply(c)

(* Every request has been answered. *)
Finished ==
  /\ \A c \in Callers : call[c].pc \in {"done", "failed"}
  /\ UNCHANGED vars

Next ==
  \/ \E c \in Callers : Request(c) \/ HandlerStep(c)
  \/ \E l \in LoadIds : LoadStep(l)
  \/ \E f \in Frames : ResumeAfterFull(f)
  \/ Finished

(* Promise continuations always run; the database answers every statement, *)
(* if only with an error.  Nobody has to send a request.                   *)
Fairness ==
  /\ \A c \in Callers : WF_vars(HandlerStep(c))
  /\ \A l \in LoadIds : WF_vars(LoadStep(l))
  /\ \A f \in Frames : WF_vars(ResumeAfterFull(f))

Spec == Init /\ [][Next]_vars
FairSpec == Spec /\ Fairness

-----------------------------------------------------------------------------
(* Properties. *)

TypeOK ==
  /\ db \subseteq Sources
  /\ copies \in [Sources -> Nat]
  /\ synced \subseteq Sources
  /\ fullyLoaded \in BOOLEAN
  /\ loading \in LoadIds \cup {None}
  /\ loadingSources \in [Sources -> LoadIds \cup {None}]
  /\ load \in [LoadIds -> LoadRecords]
  /\ frame \in [Frames -> FrameRecords]
  /\ call \in [Callers -> CallRecords]
  /\ removed \subseteq Sources

(* However many requests ask for a source at once, whichever of them first *)
(* waited for a full load or comes out of a dependency loop, at most one   *)
(* load of each scope is in flight, and loading and loadingSources name    *)
(* exactly the loads in flight.                                            *)
SingleFlight ==
  /\ \A l \in LoadIds : Pending(l) =>
       IF load[l].scope = All THEN loading = l ELSE loadingSources[load[l].scope] = l
  /\ loading # None => Pending(loading) /\ load[loading].scope = All
  /\ \A s \in Sources : loadingSources[s] # None =>
       Pending(loadingSources[s]) /\ load[loadingSources[s]].scope = s

(* A request whose preload succeeded finds the source it named, for as     *)
(* long as it runs, if the source was in the database all along: joining   *)
(* another request's load and loads that replace the array never hide it.  *)
PreloadDelivers ==
  \A c \in Callers :
    /\ call[c].pc \in {"authorizing", "creating", "created", "deleting", "deleted", "done"}
    /\ call[c].scope \in Permanent
    => RuntimeSourceLoaded(call[c].scope)

(* Once fullyLoaded is set no request reads the whole table again, so from *)
(* then on no permanent source may be missing from the array.              *)
FullyLoadedIsComplete ==
  fullyLoaded => \A s \in Permanent : RuntimeSourceLoaded(s)

(* Loads put a source in place of its entry: an id is only duplicated by   *)
(* the POST that created it.                                               *)
LoadsNeverDuplicate ==
  \A s \in Sources :
    copies[s] <= 1 + Cardinality({c \in Callers : call[c].kind = "create" /\ call[c].pc = "done"
                                                    /\ call[c].scope = s})

(* Loads of sources that refer to each other wait for each other, yet they *)
(* close a cycle of promises that never settles only if a source of the    *)
(* cycle was taken out of the array while its load was in flight.          *)
Waiting(l) == load[l].pc = "deps" /\ frame[l].pc = "awaitLoad"
WaitCycle(S) == S # {} /\ \A l \in S : Waiting(l) /\ frame[l].on \in S
OnlyRemovalDeadlocks ==
  \A S \in SUBSET LoadIds : WaitCycle(S) => \E l \in S : load[l].scope \in removed

(* A request that waited for a load of a source, its own or another        *)
(* request's, comes back with every source that the rows the load read     *)
(* refer to, down a ring of references too.                                *)
LoadDeliversDependencies ==
  [][\A c \in Callers :
       /\ frame[c].pc = "awaitLoad" /\ frame'[c].pc = "returned"
       => \A d \in RuntimeDependencySourceIds(load[frame[c].on].rows) \cap Permanent : copies'[d] > 0]_vars

(* Every request is answered, unless a source was removed during its load. *)
EveryRequestAnswered ==
  \A c \in Callers :
    call[c].pc # "new" ~> (call[c].pc \in {"done", "failed"} \/ removed # {})
=============================================================================
