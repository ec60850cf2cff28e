------------------------- MODULE RuntimeSyncProofs -------------------------
(***************************************************************************)
(* The runtime sync of data sources, for every finite set of sources,      *)
(* every dependency relation and any number of requests.                   *)
(*                                                                         *)
(* The registry: a scope has at most one pending load, because a frame     *)
(* that starts one has found none at that very step (SyncInv).             *)
(*                                                                         *)
(* Presence: a source that is never removed is in the rows a load has      *)
(* read, then in the store, and so are the sources of every load a frame   *)
(* or a request has waited for (PresenceInv).                              *)
(*                                                                         *)
(* Rings: the source of a load that has dependencies left is ready, and so *)
(* found by whoever asks for it, unless it was taken out; so the load that *)
(* would close a ring finds its source, or one was taken out (RingInv).    *)
(*                                                                         *)
(* Counts: a source has at most one copy more than requests have created   *)
(* it, and every creation is by a request of its own (CountInv).           *)
(***************************************************************************)
EXTENDS RuntimeSync, FiniteSetTheorems, TLAPS

(* A frame that is about to look for a scoped load names a source. *)
FramesScoped ==
  \A f \in Frames : frame[f].pc \in {"recheck", "awaitLoad"} => frame[f].scope \in Sources

Registry == SingleFlight /\ FramesScoped

(* The part of the state that the sync object keeps about loads. *)
RegistryType ==
  /\ load \in [LoadIds -> LoadRecords]
  /\ frame \in [Frames -> FrameRecords]
  /\ loading \in LoadIds \cup {None}
  /\ loadingSources \in [Sources -> LoadIds \cup {None}]

LEMMA InitRegistry == Init => TypeOK /\ Registry
<1> SUFFICES ASSUME Init PROVE TypeOK /\ Registry
  OBVIOUS
<1>1. load \in [LoadIds -> LoadRecords]
  BY DEF Init, Load, Free, Scopes, LoadRecords
<1>2. frame \in [Frames -> FrameRecords]
  BY DEF Init, Idle, Scopes, FrameRecords
<1>3. call \in [Callers -> CallRecords]
  BY DEF Init, CallRecords, CallKinds, Scopes
<1>4. TypeOK
  BY <1>1, <1>2, <1>3 DEF Init, TypeOK
<1>5. SingleFlight
  BY DEF Init, SingleFlight, Pending, Load, Free
<1>6. FramesScoped
  BY DEF Init, FramesScoped, Idle
<1> QED BY <1>4, <1>5, <1>6 DEF Registry

(* loadDataSources is started only when the registry has no load of the    *)
(* scope, and then registers the load it starts.                           *)
LEMMA StartLoadRegistry ==
  ASSUME RegistryType, Registry, NEW f \in Frames, NEW s \in Scopes, StartLoad(f, s),
         IF s = All THEN loading = None ELSE loadingSources[s] = None
  PROVE  RegistryType' /\ Registry'
<1> DEFINE l == CHOOSE x \in FreeIds : TRUE
<1>1. l \in FreeIds
  BY DEF StartLoad
<1>2. l \in LoadIds /\ load[l].pc = "free"
  BY <1>1 DEF FreeIds
<1>3. /\ load' = [load EXCEPT ![l] = Load("reading", s, {}, {})]
      /\ frame' = [frame EXCEPT ![f] = Await(IF s = All THEN "awaitFull" ELSE "awaitLoad", s, l)]
      /\ IF s = All THEN loading' = l /\ UNCHANGED loadingSources
                    ELSE loadingSources' = [loadingSources EXCEPT ![s] = l] /\ UNCHANGED loading
  BY DEF StartLoad
<1> HIDE DEF l
<1>4. load'[l] = [pc |-> "reading", scope |-> s, rows |-> {}, todo |-> {}]
  BY <1>2, <1>3 DEF Load, Free, RegistryType
<1>5. RegistryType'
  <2>1. Await(IF s = All THEN "awaitFull" ELSE "awaitLoad", s, l) \in FrameRecords
    BY <1>2 DEF Await, FrameRecords
  <2>2. Load("reading", s, {}, {}) \in LoadRecords
    BY DEF Load, LoadRecords
  <2>3. load' \in [LoadIds -> LoadRecords] /\ frame' \in [Frames -> FrameRecords]
    BY <1>2, <1>3, <2>1, <2>2 DEF RegistryType
  <2>4. loading' \in LoadIds \cup {None} /\ loadingSources' \in [Sources -> LoadIds \cup {None}]
    <3>1. CASE s = All
      BY <3>1, <1>2, <1>3 DEF RegistryType
    <3>2. CASE s # All
      BY <3>2, <1>2, <1>3 DEF RegistryType
    <3> QED BY <3>1, <3>2
  <2> QED BY <2>3, <2>4 DEF RegistryType
<1>6. FramesScoped'
  BY <1>3 DEF Registry, FramesScoped, Await, Scopes, RegistryType
<1>7. SingleFlight'
  <2>1. \A k \in LoadIds : k # l => load'[k] = load[k]
    BY <1>3 DEF RegistryType
  <2>2. CASE s = All
    BY <2>1, <2>2, <1>2, <1>3, <1>4, ConstantsAssumption
    DEF RegistryType, Registry, SingleFlight, Pending, Scopes
  <2>3. CASE s # All
    <3>1. /\ s \in Sources /\ loadingSources[s] = None /\ loading' = loading
          /\ loadingSources' = [loadingSources EXCEPT ![s] = l]
      BY <2>3, <1>3 DEF Scopes
    <3>2. /\ loadingSources'[s] = l
          /\ \A r \in Sources : r # s => loadingSources'[r] = loadingSources[r]
      BY <3>1 DEF RegistryType
    <3>3. \A k \in LoadIds : load[k].scope \in Scopes
      BY DEF RegistryType, LoadRecords
    <3>4. \A k \in LoadIds : load'[k].pc # "free" =>
            IF load'[k].scope = All THEN loading' = k ELSE loadingSources'[load'[k].scope] = k
      BY <2>1, <2>3, <3>1, <3>2, <3>3, <1>2, <1>4, ConstantsAssumption
      DEF Registry, SingleFlight, Pending, Scopes
    <3>5. loading' # None => load'[loading'].pc # "free" /\ load'[loading'].scope = All
      BY <2>1, <3>1, <1>2 DEF Registry, SingleFlight, Pending, RegistryType
    <3>6. \A r \in Sources : loadingSources'[r] # None =>
            load'[loadingSources'[r]].pc # "free" /\ load'[loadingSources'[r]].scope = r
      BY <2>1, <3>1, <3>2, <1>2, <1>4 DEF Registry, SingleFlight, Pending, RegistryType
    <3> QED BY <3>4, <3>5, <3>6 DEF SingleFlight, Pending
  <2> QED BY <2>2, <2>3
<1> QED BY <1>5, <1>6, <1>7 DEF Registry

LEMMA JoinOrStartRegistry ==
  ASSUME RegistryType, Registry, NEW f \in Frames, NEW s \in Sources, JoinOrStart(f, s)
  PROVE  RegistryType' /\ Registry'
<1>1. CASE loadingSources[s] = None
  <2>1. StartLoad(f, s)
    BY <1>1 DEF JoinOrStart
  <2> QED BY <2>1, <1>1, StartLoadRegistry, ConstantsAssumption DEF Scopes
<1>2. CASE loadingSources[s] # None
  <2>1. /\ frame' = [frame EXCEPT ![f] = Await("awaitLoad", s, loadingSources[s])]
        /\ UNCHANGED <<loading, loadingSources, load>>
    BY <1>2 DEF JoinOrStart
  <2>2. RegistryType'
    BY <2>1 DEF RegistryType, Await, FrameRecords, Scopes
  <2>3. FramesScoped'
    BY <2>1 DEF Registry, FramesScoped, Await, RegistryType
  <2>4. SingleFlight'
    BY <2>1 DEF Registry, SingleFlight, Pending
  <2> QED BY <2>2, <2>3, <2>4 DEF Registry
<1> QED BY <1>1, <1>2

(* A frame that only changes its own state leaves the registry alone. *)
LEMMA FrameRegistry ==
  ASSUME RegistryType, Registry, NEW f \in Frames, NEW r \in FrameRecords,
         r.pc \in {"recheck", "awaitLoad"} => r.scope \in Sources,
         frame' = [frame EXCEPT ![f] = r],
         UNCHANGED <<loading, loadingSources, load>>
  PROVE  RegistryType' /\ Registry'
<1>1. RegistryType'
  BY DEF RegistryType
<1>2. FramesScoped'
  BY DEF Registry, FramesScoped, RegistryType
<1>3. SingleFlight'
  BY DEF Registry, SingleFlight, Pending
<1> QED BY <1>1, <1>2, <1>3 DEF Registry

LEMMA EnsureSourceLoadedRegistry ==
  ASSUME RegistryType, Registry, NEW f \in Frames, NEW s \in Sources, EnsureSourceLoaded(f, s)
  PROVE  RegistryType' /\ Registry'
<1>1. CASE Ready(s)
  <2>1. frame' = [frame EXCEPT ![f] = Returned(s)] /\ UNCHANGED <<loading, loadingSources, load>>
    BY <1>1 DEF EnsureSourceLoaded
  <2>2. Returned(s) \in FrameRecords /\ Returned(s).pc = "returned"
    BY DEF Returned, FrameRecords, Scopes
  <2> QED BY <2>1, <2>2, FrameRegistry
<1>2. CASE ~Ready(s) /\ loading # None
  <2>1. frame' = [frame EXCEPT ![f] = Await("awaitFull", s, loading)] /\ UNCHANGED <<loading, loadingSources, load>>
    BY <1>2 DEF EnsureSourceLoaded
  <2>2. Await("awaitFull", s, loading) \in FrameRecords /\ Await("awaitFull", s, loading).pc = "awaitFull"
    BY DEF Await, FrameRecords, Scopes, RegistryType
  <2> QED BY <2>1, <2>2, FrameRegistry
<1>3. CASE ~Ready(s) /\ loading = None
  <2>1. JoinOrStart(f, s)
    BY <1>3 DEF EnsureSourceLoaded
  <2> QED BY <2>1, JoinOrStartRegistry
<1> QED BY <1>1, <1>2, <1>3

LEMMA EnsureLoadedRegistry ==
  ASSUME RegistryType, Registry, NEW f \in Frames, EnsureLoaded(f)
  PROVE  RegistryType' /\ Registry'
<1>1. CASE fullyLoaded
  <2>1. frame' = [frame EXCEPT ![f] = Returned(All)] /\ UNCHANGED <<loading, loadingSources, load>>
    BY <1>1 DEF EnsureLoaded
  <2>2. Returned(All) \in FrameRecords /\ Returned(All).pc = "returned"
    BY DEF Returned, FrameRecords, Scopes
  <2> QED BY <2>1, <2>2, FrameRegistry
<1>2. CASE ~fullyLoaded /\ loading # None
  <2>1. frame' = [frame EXCEPT ![f] = Await("awaitFull", All, loading)] /\ UNCHANGED <<loading, loadingSources, load>>
    BY <1>2 DEF EnsureLoaded
  <2>2. Await("awaitFull", All, loading) \in FrameRecords /\ Await("awaitFull", All, loading).pc = "awaitFull"
    BY DEF Await, FrameRecords, Scopes, RegistryType
  <2> QED BY <2>1, <2>2, FrameRegistry
<1>3. CASE ~fullyLoaded /\ loading = None
  <2>1. StartLoad(f, All)
    BY <1>3 DEF EnsureLoaded
  <2> QED BY <2>1, <1>3, StartLoadRegistry DEF Scopes
<1> QED BY <1>1, <1>2, <1>3

(* The finally callbacks remove exactly the load that is over. *)
LEMMA SettleRegistry ==
  ASSUME RegistryType, Registry, NEW l \in LoadIds, NEW ok \in BOOLEAN, Pending(l), Settle(l, ok)
  PROVE  RegistryType' /\ Registry'
<1>1. frame' = Wake(l, ok)
  BY DEF Settle
<1>2. load' = [load EXCEPT ![l] = Free]
  BY DEF Settle
<1>3. \A f \in Frames : frame'[f] \in {Idle, frame[f], Resumed(frame[f], ok)}
  BY <1>1 DEF Wake
<1>4. \A f \in Frames : /\ frame'[f] \in FrameRecords
                        /\ frame'[f].pc \in {"recheck", "awaitLoad"} => frame'[f].scope \in Sources
  <2> TAKE f \in Frames
  <2>1. frame[f] \in FrameRecords /\ frame[f].scope \in Scopes
    BY DEF RegistryType, FrameRecords
  <2>2. CASE frame'[f] = Idle
    BY <2>2 DEF Idle, FrameRecords, Scopes
  <2>3. CASE frame'[f] = frame[f]
    BY <2>1, <2>3 DEF Registry, FramesScoped
  <2>4. CASE frame'[f] = Resumed(frame[f], ok)
    BY <2>1, <2>4 DEF Resumed, FrameRecords, Scopes
  <2> QED BY <1>3, <2>2, <2>3, <2>4
<1>5. frame' \in [Frames -> FrameRecords] /\ FramesScoped'
  BY <1>1, <1>4 DEF Wake, FramesScoped
<1>6. load' \in [LoadIds -> LoadRecords]
  BY <1>2 DEF RegistryType, LoadRecords, Load, Free, Scopes
<1>7. load'[l].pc = "free" /\ \A k \in LoadIds : k # l => load'[k] = load[k]
  BY <1>2 DEF RegistryType, Load, Free
<1>8. CASE load[l].scope = All
  <2>1. loading' = None /\ UNCHANGED loadingSources
    BY <1>8 DEF Settle
  <2>2. RegistryType'
    BY <2>1, <1>5, <1>6 DEF RegistryType
  <2>3. SingleFlight'
    BY <2>1, <1>7, <1>8, ConstantsAssumption DEF Registry, RegistryType, LoadRecords, Scopes, SingleFlight, Pending
  <2> QED BY <2>2, <2>3, <1>5 DEF Registry
<1>9. CASE load[l].scope # All
  <2>1. loadingSources' = [loadingSources EXCEPT ![load[l].scope] = None] /\ UNCHANGED loading
    BY <1>9 DEF Settle
  <2>2. RegistryType'
    BY <2>1, <1>5, <1>6 DEF RegistryType
  <2>3. SingleFlight'
    BY <2>1, <1>7, <1>9, ConstantsAssumption DEF Registry, RegistryType, LoadRecords, Scopes, SingleFlight, Pending
  <2> QED BY <2>2, <2>3, <1>5 DEF Registry
<1> QED BY <1>8, <1>9

(* A snapshot and a reply change the load they belong to in place. *)
LEMMA LoadRegistry ==
  ASSUME RegistryType, Registry, NEW l \in LoadIds, Pending(l), NEW r \in LoadRecords,
         r.pc # "free", r.scope = load[l].scope, load' = [load EXCEPT ![l] = r],
         UNCHANGED <<loading, loadingSources, frame>>
  PROVE  RegistryType' /\ Registry'
<1>1. RegistryType'
  BY DEF RegistryType
<1>2. FramesScoped'
  BY DEF Registry, FramesScoped
<1>3. \A k \in LoadIds : load'[k].scope = load[k].scope /\ (load'[k].pc = "free" <=> load[k].pc = "free")
  BY DEF RegistryType, Pending
<1>4. SingleFlight'
  BY <1>3 DEF RegistryType, Registry, SingleFlight, Pending
<1> QED BY <1>1, <1>2, <1>4 DEF Registry

LEMMA DbSnapshotRegistry ==
  ASSUME TypeOK, Registry, NEW l \in LoadIds, DbSnapshot(l)
  PROVE  RegistryType' /\ Registry'
<1> DEFINE r == Load("read", load[l].scope, {s \in db : InScope(s, load[l].scope)}, {})
<1>1. load[l] \in LoadRecords
  BY DEF TypeOK
<1>2. r \in LoadRecords /\ r.pc # "free" /\ r.scope = load[l].scope
  BY <1>1 DEF TypeOK, Load, LoadRecords
<1>3. load' = [load EXCEPT ![l] = r] /\ UNCHANGED <<loading, loadingSources, frame>>
  BY DEF DbSnapshot
<1>4. Pending(l) /\ RegistryType
  BY DEF DbSnapshot, Pending, TypeOK, RegistryType
<1> HIDE DEF r
<1> QED BY <1>2, <1>3, <1>4, LoadRegistry

LEMMA DbReadReplyRegistry ==
  ASSUME TypeOK, Registry, NEW l \in LoadIds, DbReadReply(l)
  PROVE  RegistryType' /\ Registry'
<1>1. RegistryType /\ Pending(l) /\ load[l] \in LoadRecords
  BY DEF DbReadReply, Pending, TypeOK, RegistryType
<1>2. CASE load[l].scope = All
  <2>1. Settle(l, TRUE)
    BY <1>2 DEF DbReadReply
  <2> QED BY <1>1, <2>1, SettleRegistry
<1>3. CASE load[l].scope # All
  <2> DEFINE r == Load("deps", load[l].scope, load[l].rows, RuntimeDependencySourceIds(load[l].rows))
  <2>1. load' = [load EXCEPT ![l] = r] /\ UNCHANGED <<loading, loadingSources, frame>>
    BY <1>3 DEF DbReadReply
  <2>2. load[l].rows \subseteq Sources /\ load[l].scope \in Scopes
    BY <1>1 DEF LoadRecords
  <2>3. RuntimeDependencySourceIds(load[l].rows) \subseteq Sources
    BY <2>2, ConstantsAssumption DEF RuntimeDependencySourceIds
  <2>4. r \in LoadRecords /\ r.pc # "free" /\ r.scope = load[l].scope
    BY <2>2, <2>3 DEF Load, LoadRecords
  <2> HIDE DEF r
  <2> QED BY <1>1, <2>1, <2>4, LoadRegistry
<1> QED BY <1>2, <1>3

LEMMA DependencyLoadedRegistry ==
  ASSUME TypeOK, Registry, NEW l \in LoadIds, DependencyLoaded(l)
  PROVE  RegistryType' /\ Registry'
<1> DEFINE r == Load("deps", load[l].scope, load[l].rows, load[l].todo \ {frame[l].scope})
<1>1. load[l] \in LoadRecords /\ load[l].pc = "deps" /\ l \in Frames
  BY DEF TypeOK, DependencyLoaded, Frames
<1>2. r \in LoadRecords /\ r.pc # "free" /\ r.scope = load[l].scope
  BY <1>1 DEF Load, LoadRecords
<1>3. load' = [load EXCEPT ![l] = r] /\ frame' = [frame EXCEPT ![l] = Idle] /\ UNCHANGED <<loading, loadingSources>>
  BY DEF DependencyLoaded
<1> HIDE DEF r
<1>4. RegistryType'
  <2>1. Idle \in FrameRecords
    BY DEF Idle, FrameRecords, Scopes
  <2> QED BY <1>1, <1>2, <1>3, <2>1 DEF TypeOK, RegistryType
<1>5. FramesScoped'
  BY <1>1, <1>3 DEF Registry, FramesScoped, TypeOK, Idle
<1>6. \A k \in LoadIds : load'[k].scope = load[k].scope /\ (load'[k].pc = "free" <=> load[k].pc = "free")
  BY <1>1, <1>2, <1>3 DEF TypeOK
<1>7. SingleFlight'
  BY <1>3, <1>6 DEF TypeOK, Registry, SingleFlight, Pending
<1> QED BY <1>4, <1>5, <1>7 DEF Registry

(* The variables that loads and handlers share with the rest of the API. *)
StoreType ==
  /\ db \subseteq Sources
  /\ copies \in [Sources -> Nat]
  /\ synced \subseteq Sources
  /\ fullyLoaded \in BOOLEAN
  /\ call \in [Callers -> CallRecords]
  /\ removed \subseteq Sources

LEMMA TypeSplit == TypeOK <=> StoreType /\ RegistryType
BY DEF TypeOK, StoreType, RegistryType

(* Putting a query's rows into the array keeps every count a number. *)
LEMMA ReplaceType ==
  ASSUME TypeOK, NEW l \in LoadIds, ReplaceSyncedRuntimeSources(l)
  PROVE  copies' \in [Sources -> Nat] /\ synced' \subseteq Sources /\ removed' \subseteq Sources
<1>1. load[l] \in LoadRecords /\ load[l].rows \subseteq Sources
  BY DEF TypeOK, LoadRecords
<1>2. Dropped(l) \subseteq Sources /\ \A s \in Dropped(l) : copies[s] > 0
  BY DEF Dropped, TypeOK, RuntimeSourceLoaded
<1>3. copies' \in [Sources -> Nat]
  BY <1>2 DEF ReplaceSyncedRuntimeSources, TypeOK
<1>4. synced' \subseteq Sources /\ removed' \subseteq Sources
  BY <1>1, <1>2 DEF ReplaceSyncedRuntimeSources, TypeOK
<1> QED BY <1>3, <1>4

LEMMA CallType ==
  ASSUME TypeOK, NEW c \in Callers,
         NEW pc \in {"new", "ensuring", "authorizing", "creating", "created", "deleting", "deleted", "done", "failed"},
         call' = [call EXCEPT ![c].pc = pc]
  PROVE  call' \in [Callers -> CallRecords]
BY DEF TypeOK, CallRecords

(* POST and DELETE name a source, and only ones that are not permanent. *)
CallsScoped ==
  \A c \in Callers :
    /\ call[c].pc # "new" /\ call[c].kind # "read" => call[c].scope \in Sources \ Permanent
    /\ call[c].pc \in {"creating", "created", "deleting", "deleted"} => call[c].kind # "read"

LEMMA StepCalls == TypeOK /\ CallsScoped /\ [Next]_vars => CallsScoped'
<1> SUFFICES ASSUME TypeOK, CallsScoped, [Next]_vars PROVE CallsScoped'
  OBVIOUS
<1>1. ASSUME NEW c \in Callers, Request(c) PROVE CallsScoped'
  <2>1. PICK kind \in CallKinds, s \in Scopes :
          /\ kind # "read" => s \in Sources \ Permanent
          /\ call' = [call EXCEPT ![c] = [pc |-> "ensuring", kind |-> kind, scope |-> s]]
    BY <1>1 DEF Request, CallKinds
  <2> QED BY <2>1 DEF CallsScoped, TypeOK
<1>2. ASSUME NEW c \in Callers, HandlerStep(c) PROVE CallsScoped'
  <2>1. \/ \E pc \in {"failed", "authorizing", "done"} : call' = [call EXCEPT ![c].pc = pc] /\ call[c].pc # "new"
        \/ \E pc \in {"creating", "deleting", "created", "deleted"} :
              call' = [call EXCEPT ![c].pc = pc] /\ call[c].pc # "new" /\ call[c].kind # "read"
    <3>1. CASE PreloadEnds(c)
      BY <3>1 DEF PreloadEnds
    <3>2. CASE Authorized(c)
      BY <3>2 DEF Authorized
    <3>3. CASE CreateCommits(c) \/ DeleteCommits(c)
      BY <3>3 DEF CreateCommits, DeleteCommits, CallsScoped
    <3>4. CASE CreateReply(c) \/ DeleteReply(c)
      BY <3>4 DEF CreateReply, DeleteReply
    <3> QED BY <1>2, <3>1, <3>2, <3>3, <3>4 DEF HandlerStep
  <2> QED BY <2>1 DEF CallsScoped, TypeOK, CallRecords
<1>3. ASSUME UNCHANGED call PROVE CallsScoped'
  BY <1>3 DEF CallsScoped
<1>4. ASSUME NEW l \in LoadIds, LoadStep(l) PROVE UNCHANGED call
  BY <1>4 DEF LoadStep, DbSnapshot, DbReadReply, DbReadFails, NextDependency, DependencyLoaded, LoadSettles
<1>5. ASSUME NEW f \in Frames, ResumeAfterFull(f) PROVE UNCHANGED call
  BY <1>5 DEF ResumeAfterFull
<1>6. CASE UNCHANGED vars
  BY <1>6, <1>3 DEF vars
<1> QED BY <1>1, <1>2, <1>3, <1>4, <1>5, <1>6 DEF Next, Finished

(* One step of any actor keeps the types and the registry of loads. *)
LEMMA StepRegistry == TypeOK /\ Registry /\ CallsScoped /\ [Next]_vars => TypeOK' /\ Registry'
<1> SUFFICES ASSUME TypeOK, Registry, CallsScoped, [Next]_vars PROVE StoreType' /\ RegistryType' /\ Registry'
  BY TypeSplit DEF TypeOK, StoreType, RegistryType
<1>a. StoreType /\ RegistryType
  BY TypeSplit
<1>b. ASSUME UNCHANGED <<loading, loadingSources, load, frame>> PROVE RegistryType' /\ Registry'
  BY <1>a, <1>b DEF RegistryType, Registry, SingleFlight, Pending, FramesScoped
<1>1. ASSUME NEW c \in Callers, Request(c) PROVE StoreType' /\ RegistryType' /\ Registry'
  <2>1. PICK kind \in CallKinds, s \in Scopes :
          /\ call' = [call EXCEPT ![c] = [pc |-> "ensuring", kind |-> kind, scope |-> s]]
          /\ IF kind = "create" \/ s = All THEN EnsureLoaded(c) ELSE EnsureSourceLoaded(c, s)
    BY <1>1 DEF Request
  <2>2. UNCHANGED <<db, copies, synced, fullyLoaded, removed>>
    BY <1>1 DEF Request
  <2>3. [pc |-> "ensuring", kind |-> kind, scope |-> s] \in CallRecords
    BY DEF CallRecords
  <2>4. StoreType'
    BY <1>a, <2>1, <2>2, <2>3 DEF StoreType
  <2>5. RegistryType' /\ Registry'
    <3>1. c \in Frames
      BY DEF Frames
    <3>2. CASE kind = "create" \/ s = All
      BY <1>a, <2>1, <3>1, <3>2, EnsureLoadedRegistry
    <3>3. CASE ~(kind = "create" \/ s = All)
      <4>1. s \in Sources
        BY <3>3 DEF Scopes
      <4> QED BY <1>a, <2>1, <3>1, <3>3, <4>1, EnsureSourceLoadedRegistry
    <3> QED BY <3>2, <3>3
  <2> QED BY <2>4, <2>5
<1>2. ASSUME NEW c \in Callers, PreloadEnds(c) PROVE StoreType' /\ RegistryType' /\ Registry'
  <2>1. StoreType'
    BY <1>2, <1>a, CallType DEF PreloadEnds, StoreType
  <2>2. Idle \in FrameRecords /\ Idle.pc = "idle" /\ c \in Frames
    BY DEF Idle, FrameRecords, Scopes, Frames
  <2>3. frame' = [frame EXCEPT ![c] = Idle] /\ UNCHANGED <<loading, loadingSources, load>>
    BY <1>2 DEF PreloadEnds
  <2> QED BY <1>a, <2>1, <2>2, <2>3, FrameRegistry
<1>3. ASSUME NEW c \in Callers, Authorized(c) PROVE StoreType' /\ RegistryType' /\ Registry'
  <2>1. PICK pc \in {"creating", "deleting", "done", "failed"} : call' = [call EXCEPT ![c].pc = pc]
    BY <1>3 DEF Authorized
  <2>2. call' \in [Callers -> CallRecords]
    BY <2>1, CallType
  <2>3. UNCHANGED <<db, syncVars, removed>>
    BY <1>3 DEF Authorized
  <2> QED BY <1>a, <1>b, <2>2, <2>3 DEF StoreType, syncVars
<1>4. ASSUME NEW c \in Callers, CreateCommits(c) \/ DeleteCommits(c)
      PROVE StoreType' /\ RegistryType' /\ Registry'
  <2>1. call[c].scope \in Sources
    BY <1>4 DEF CreateCommits, DeleteCommits, CallsScoped
  <2>2. \E pc \in {"created", "deleted", "failed"} : call' = [call EXCEPT ![c].pc = pc]
    BY <1>4 DEF CreateCommits, DeleteCommits
  <2>3. call' \in [Callers -> CallRecords]
    BY <2>2, CallType
  <2>4. UNCHANGED <<syncVars, removed>>
    BY <1>4 DEF CreateCommits, DeleteCommits
  <2>5. db' \subseteq Sources
    BY <1>a, <1>4, <2>1 DEF CreateCommits, DeleteCommits, StoreType
  <2> QED BY <1>a, <1>b, <2>3, <2>4, <2>5 DEF StoreType, syncVars
<1>5. ASSUME NEW c \in Callers, CreateReply(c) \/ DeleteReply(c)
      PROVE StoreType' /\ RegistryType' /\ Registry'
  <2>1. call' \in [Callers -> CallRecords]
    BY <1>5, CallType DEF CreateReply, DeleteReply
  <2>2. copies' \in [Sources -> Nat] /\ removed' \subseteq Sources
    <3>1. call[c].scope \in Sources
      BY <1>5 DEF CreateReply, DeleteReply, CallsScoped
    <3> QED BY <1>a, <1>5, <3>1 DEF CreateReply, DeleteReply, StoreType
  <2>3. UNCHANGED <<db, synced, fullyLoaded, loading, loadingSources, load, frame>>
    BY <1>5 DEF CreateReply, DeleteReply
  <2> QED BY <1>a, <1>b, <2>1, <2>2, <2>3 DEF StoreType
<1>6. ASSUME NEW l \in LoadIds, DbSnapshot(l) PROVE StoreType' /\ RegistryType' /\ Registry'
  BY <1>6, <1>a, DbSnapshotRegistry DEF DbSnapshot, StoreType
<1>7. ASSUME NEW l \in LoadIds, DbReadReply(l) PROVE StoreType' /\ RegistryType' /\ Registry'
  <2>1. copies' \in [Sources -> Nat] /\ synced' \subseteq Sources /\ removed' \subseteq Sources
    BY <1>7, ReplaceType DEF DbReadReply
  <2>2. fullyLoaded' \in BOOLEAN /\ UNCHANGED <<db, call>>
    BY <1>7, <1>a DEF DbReadReply, StoreType
  <2> QED BY <1>7, <1>a, <2>1, <2>2, DbReadReplyRegistry DEF StoreType
<1>8. ASSUME NEW l \in LoadIds, DbReadFails(l) \/ LoadSettles(l)
      PROVE StoreType' /\ RegistryType' /\ Registry'
  <2>1. Pending(l)
    BY <1>8 DEF DbReadFails, LoadSettles, Pending
  <2>2. \E ok \in BOOLEAN : Settle(l, ok)
    BY <1>8 DEF DbReadFails, LoadSettles
  <2>3. RegistryType' /\ Registry'
    BY <1>a, <2>1, <2>2, SettleRegistry
  <2> QED BY <1>8, <1>a, <2>3 DEF DbReadFails, LoadSettles, StoreType
<1>9. ASSUME NEW l \in LoadIds, NextDependency(l) PROVE StoreType' /\ RegistryType' /\ Registry'
  <2>1. PICK d \in load[l].todo : EnsureSourceLoaded(l, d)
    BY <1>9 DEF NextDependency
  <2>2. load[l] \in LoadRecords
    BY DEF TypeOK
  <2>3. d \in Sources /\ l \in Frames
    BY <2>1, <2>2 DEF LoadRecords, Frames
  <2> QED BY <1>9, <1>a, <2>1, <2>3, EnsureSourceLoadedRegistry DEF NextDependency, StoreType
<1>10. ASSUME NEW l \in LoadIds, DependencyLoaded(l) PROVE StoreType' /\ RegistryType' /\ Registry'
  BY <1>10, <1>a, DependencyLoadedRegistry DEF DependencyLoaded, StoreType
<1>11. ASSUME NEW f \in Frames, ResumeAfterFull(f) PROVE StoreType' /\ RegistryType' /\ Registry'
  <2>1. frame[f].scope \in Sources
    BY <1>11 DEF ResumeAfterFull, Registry, FramesScoped
  <2>2. StoreType'
    BY <1>11, <1>a DEF ResumeAfterFull, StoreType
  <2>3. CASE JoinOrStart(f, frame[f].scope)
    BY <1>a, <2>1, <2>2, <2>3, JoinOrStartRegistry
  <2>4. CASE frame' = [frame EXCEPT ![f] = Returned(frame[f].scope)] /\ UNCHANGED <<loading, loadingSources, load>>
    <3>1. Returned(frame[f].scope) \in FrameRecords /\ Returned(frame[f].scope).pc = "returned"
      BY <2>1 DEF Returned, FrameRecords, Scopes
    <3> QED BY <1>a, <2>2, <2>4, <3>1, FrameRegistry
  <2> QED BY <1>11, <2>3, <2>4 DEF ResumeAfterFull
<1>12. ASSUME UNCHANGED vars PROVE StoreType' /\ RegistryType' /\ Registry'
  BY <1>12, <1>a, <1>b DEF vars, syncVars, StoreType
<1>13. Next => \/ \E c \in Callers : Request(c) \/ HandlerStep(c)
               \/ \E l \in LoadIds : LoadStep(l)
               \/ \E f \in Frames : ResumeAfterFull(f)
               \/ UNCHANGED vars
  BY DEF Next, Finished
<1> QED BY <1>1, <1>2, <1>3, <1>4, <1>5, <1>6, <1>7, <1>8, <1>9, <1>10, <1>11, <1>12, <1>13
        DEF HandlerStep, LoadStep

SyncInv == TypeOK /\ Registry /\ CallsScoped

LEMMA SyncInvInductive == Spec => []SyncInv
<1>1. Init => SyncInv
  <2>1. Init => CallsScoped
    BY DEF Init, CallsScoped
  <2> QED BY <2>1, InitRegistry DEF SyncInv
<1>2. SyncInv /\ [Next]_vars => SyncInv'
  BY StepRegistry, StepCalls DEF SyncInv
<1> QED BY <1>1, <1>2, PTL DEF Spec

(* Every variable keeps its type. *)
THEOREM TypeCorrect == Spec => []TypeOK
<1>1. SyncInv => TypeOK
  BY DEF SyncInv
<1> QED BY <1>1, SyncInvInductive, PTL

(* However many requests and however sources refer to each other, there is *)
(* never more than one load of a scope, and the registry is exact.         *)
THEOREM SingleFlightHolds == Spec => []SingleFlight
<1>1. SyncInv => SingleFlight
  BY DEF SyncInv, Registry
<1> QED BY <1>1, SyncInvInductive, PTL

-----------------------------------------------------------------------------
(* A source that stays in the database is never missing from the array     *)
(* when a request has loaded it.                                           *)

Delivered(s) == s \in Permanent => copies[s] > 0

(* What a load has read contains every permanent source it asked for, and  *)
(* has been put into the array before its dependencies are looked at.      *)
LoadsDeliver ==
  \A l \in LoadIds :
    /\ load[l].pc = "read" => \A s \in Permanent : InScope(s, load[l].scope) => s \in load[l].rows
    /\ load[l].pc = "deps" => Delivered(load[l].scope)

(* A frame waits for the load of its own scope, and only returns when that *)
(* has delivered.                                                          *)
FramesDeliver ==
  \A f \in Frames :
    /\ frame[f].pc = "returned" => Delivered(frame[f].scope)
    /\ frame[f].on # None => frame[f].pc \in {"awaitFull", "awaitLoad"}
    /\ frame[f].pc = "awaitLoad" =>
         frame[f].on \in LoadIds /\ Pending(frame[f].on) /\ load[frame[f].on].scope = frame[f].scope

(* A preload is about the source the request names. *)
CallsDeliver ==
  \A c \in Callers :
    call[c].pc = "ensuring" /\ call[c].scope \in Permanent => frame[c].scope = call[c].scope

PresenceInv ==
  /\ Permanent \subseteq db
  /\ LoadsDeliver
  /\ FramesDeliver
  /\ CallsDeliver
  /\ FullyLoadedIsComplete
  /\ PreloadDelivers

LEMMA InitPresence == Init => PresenceInv
<1> SUFFICES ASSUME Init PROVE PresenceInv
  OBVIOUS
<1>1. LoadsDeliver
  BY DEF Init, LoadsDeliver, Load, Free
<1>2. FramesDeliver
  BY DEF Init, FramesDeliver, Idle
<1>3. CallsDeliver /\ PreloadDelivers /\ FullyLoadedIsComplete /\ Permanent \subseteq db
  BY DEF Init, CallsDeliver, PreloadDelivers, FullyLoadedIsComplete
<1> QED BY <1>1, <1>2, <1>3 DEF PresenceInv

(* Only DELETE commits take rows out of the database, and none is of a     *)
(* permanent source.                                                       *)
LEMMA RowsStay ==
  ASSUME SyncInv, PresenceInv, [Next]_vars
  PROVE  Permanent \subseteq db'
<1>1. ASSUME NEW c \in Callers, DeleteCommits(c) PROVE Permanent \subseteq db'
  BY <1>1 DEF DeleteCommits, SyncInv, CallsScoped, PresenceInv
<1>2. ASSUME NEW c \in Callers, CreateCommits(c) PROVE Permanent \subseteq db'
  BY <1>2 DEF CreateCommits, PresenceInv
<1>3. ASSUME NEW c \in Callers,
             Request(c) \/ PreloadEnds(c) \/ Authorized(c) \/ CreateReply(c) \/ DeleteReply(c)
      PROVE UNCHANGED db
  BY <1>3 DEF Request, PreloadEnds, Authorized, CreateReply, DeleteReply
<1>4. ASSUME NEW l \in LoadIds, LoadStep(l) PROVE UNCHANGED db
  BY <1>4 DEF LoadStep, DbSnapshot, DbReadReply, DbReadFails, NextDependency, DependencyLoaded, LoadSettles
<1>5. ASSUME NEW f \in Frames, ResumeAfterFull(f) PROVE UNCHANGED db
  BY <1>5 DEF ResumeAfterFull
<1>6. CASE UNCHANGED vars
  BY <1>6 DEF vars, PresenceInv
<1> QED BY <1>1, <1>2, <1>3, <1>4, <1>5, <1>6 DEF Next, Finished, HandlerStep, PresenceInv

(* What is put in place of the array keeps every permanent source that is  *)
(* in it and adds those the load asked for.                                *)
LEMMA ReplaceDelivers ==
  ASSUME SyncInv, PresenceInv, NEW l \in LoadIds, load[l].pc = "read", ReplaceSyncedRuntimeSources(l),
         NEW s \in Permanent, copies[s] > 0 \/ InScope(s, load[l].scope)
  PROVE  copies'[s] > 0
<1>1. s \in Sources /\ copies[s] \in Nat
  BY ConstantsAssumption DEF SyncInv, TypeOK
<1>2. InScope(s, load[l].scope) => s \in load[l].rows
  BY DEF PresenceInv, LoadsDeliver
<1>3. s \notin Dropped(l)
  BY <1>2 DEF Dropped
<1> QED BY <1>1, <1>2, <1>3 DEF ReplaceSyncedRuntimeSources

LEMMA CopiesStay ==
  ASSUME SyncInv, PresenceInv, [Next]_vars, NEW s \in Permanent, copies[s] > 0
  PROVE  copies'[s] > 0
<1>0. s \in Sources /\ copies[s] \in Nat /\ copies \in [Sources -> Nat]
  BY ConstantsAssumption DEF SyncInv, TypeOK
<1>1. ASSUME NEW l \in LoadIds, DbReadReply(l) PROVE copies'[s] > 0
  <2>1. load[l].pc = "read" /\ ReplaceSyncedRuntimeSources(l)
    BY <1>1 DEF DbReadReply
  <2> QED BY <2>1, ReplaceDelivers
<1>2. ASSUME NEW c \in Callers, DeleteReply(c) PROVE copies'[s] > 0
  <2>1. call[c].scope # s
    BY <1>2 DEF DeleteReply, SyncInv, CallsScoped
  <2> QED BY <1>0, <1>2, <2>1 DEF DeleteReply
<1>3. ASSUME NEW c \in Callers, CreateReply(c) PROVE copies'[s] > 0
  BY <1>0, <1>3 DEF CreateReply
<1>4. ASSUME NEW c \in Callers,
             Request(c) \/ PreloadEnds(c) \/ Authorized(c) \/ CreateCommits(c) \/ DeleteCommits(c)
      PROVE UNCHANGED copies
  BY <1>4 DEF Request, PreloadEnds, Authorized, CreateCommits, DeleteCommits, syncVars
<1>5. ASSUME NEW l \in LoadIds,
             DbSnapshot(l) \/ DbReadFails(l) \/ NextDependency(l) \/ DependencyLoaded(l) \/ LoadSettles(l)
      PROVE UNCHANGED copies
  BY <1>5 DEF DbSnapshot, DbReadFails, NextDependency, DependencyLoaded, LoadSettles
<1>6. ASSUME NEW f \in Frames, ResumeAfterFull(f) PROVE UNCHANGED copies
  BY <1>6 DEF ResumeAfterFull
<1>7. CASE UNCHANGED vars
  BY <1>7 DEF vars, syncVars
<1> QED BY <1>1, <1>2, <1>3, <1>4, <1>5, <1>6, <1>7 DEF Next, Finished, HandlerStep, LoadStep

(* What a step of ensureLoaded or ensureSourceLoaded for scope s keeps. *)
Keeps(f, s) ==
  /\ LoadsDeliver'
  /\ FramesDeliver'
  /\ frame'[f].scope = s
  /\ \A g \in Frames \ {f} : frame'[g] = frame[g]

LEMMA StartLoadDelivers ==
  ASSUME SyncInv, PresenceInv, UNCHANGED copies, NEW f \in Frames, NEW s \in Scopes, StartLoad(f, s)
  PROVE  Keeps(f, s)
<1> DEFINE l == CHOOSE x \in FreeIds : TRUE
           r == Await(IF s = All THEN "awaitFull" ELSE "awaitLoad", s, l)
<1>1. l \in LoadIds /\ load[l].pc = "free"
  BY DEF StartLoad, FreeIds
<1>2. load' = [load EXCEPT ![l] = Load("reading", s, {}, {})] /\ frame' = [frame EXCEPT ![f] = r]
  BY DEF StartLoad
<1>3. r.pc \in {"awaitFull", "awaitLoad"} /\ r.scope = s /\ r.on = l
  BY DEF Await
<1> HIDE DEF l, r
<1>4. load'[l].pc = "reading" /\ load'[l].scope = s /\ \A k \in LoadIds : k # l => load'[k] = load[k]
  BY <1>1, <1>2 DEF SyncInv, TypeOK, Load
<1>5. frame'[f] = r /\ \A g \in Frames \ {f} : frame'[g] = frame[g]
  BY <1>2 DEF SyncInv, TypeOK
<1>6. LoadsDeliver'
  BY <1>4 DEF PresenceInv, LoadsDeliver, Delivered
<1>7. FramesDeliver'
  BY <1>1, <1>3, <1>4, <1>5 DEF PresenceInv, FramesDeliver, Delivered, Pending
<1> QED BY <1>3, <1>5, <1>6, <1>7 DEF Keeps

(* A frame that returns, or joins a load in flight. *)
LEMMA FrameDelivers ==
  ASSUME SyncInv, PresenceInv, UNCHANGED <<copies, load>>, NEW f \in Frames, NEW r,
         frame' = [frame EXCEPT ![f] = r],
         r.pc = "returned" => Delivered(r.scope),
         r.on # None => r.pc \in {"awaitFull", "awaitLoad"},
         r.pc = "awaitLoad" => r.on \in LoadIds /\ Pending(r.on) /\ load[r.on].scope = r.scope
  PROVE  Keeps(f, r.scope)
<1>1. frame'[f] = r /\ \A g \in Frames \ {f} : frame'[g] = frame[g]
  BY DEF SyncInv, TypeOK
<1>2. LoadsDeliver'
  BY DEF PresenceInv, LoadsDeliver, Delivered
<1>3. FramesDeliver'
  BY <1>1 DEF PresenceInv, FramesDeliver, Delivered, Pending
<1> QED BY <1>1, <1>2, <1>3 DEF Keeps

LEMMA JoinOrStartDelivers ==
  ASSUME SyncInv, PresenceInv, UNCHANGED copies, NEW f \in Frames, NEW s \in Sources, JoinOrStart(f, s)
  PROVE  Keeps(f, s)
<1>1. CASE StartLoad(f, s)
  BY <1>1, StartLoadDelivers DEF Scopes
<1>2. CASE /\ loadingSources[s] # None
           /\ frame' = [frame EXCEPT ![f] = Await("awaitLoad", s, loadingSources[s])]
           /\ UNCHANGED load
  <2> DEFINE r == Await("awaitLoad", s, loadingSources[s])
  <2>1. r.pc = "awaitLoad" /\ r.scope = s /\ r.on = loadingSources[s]
    BY DEF Await
  <2>2. loadingSources[s] \in LoadIds /\ Pending(loadingSources[s]) /\ load[loadingSources[s]].scope = s
    BY <1>2 DEF SyncInv, TypeOK, Registry, SingleFlight
  <2> HIDE DEF r
  <2>3. frame' = [frame EXCEPT ![f] = r]
    BY <1>2 DEF r
  <2> QED BY <1>2, <2>1, <2>2, <2>3, FrameDelivers
<1> QED BY <1>1, <1>2 DEF JoinOrStart

LEMMA ReturnDelivers ==
  ASSUME SyncInv, PresenceInv, UNCHANGED <<copies, load>>, NEW f \in Frames, NEW s, Delivered(s),
         frame' = [frame EXCEPT ![f] = Returned(s)]
  PROVE  Keeps(f, s)
<1> DEFINE r == Returned(s)
<1>1. r.pc = "returned" /\ r.scope = s /\ r.on = None
  BY DEF Returned
<1> HIDE DEF r
<1>2. frame' = [frame EXCEPT ![f] = r]
  BY DEF r
<1> QED BY <1>1, <1>2, FrameDelivers

LEMMA AwaitFullDelivers ==
  ASSUME SyncInv, PresenceInv, UNCHANGED <<copies, load>>, NEW f \in Frames, NEW s,
         frame' = [frame EXCEPT ![f] = Await("awaitFull", s, loading)]
  PROVE  Keeps(f, s)
<1> DEFINE r == Await("awaitFull", s, loading)
<1>1. r.pc = "awaitFull" /\ r.scope = s
  BY DEF Await
<1> HIDE DEF r
<1>2. frame' = [frame EXCEPT ![f] = r]
  BY DEF r
<1> QED BY <1>1, <1>2, FrameDelivers

LEMMA EnsureSourceLoadedDelivers ==
  ASSUME SyncInv, PresenceInv, UNCHANGED copies, NEW f \in Frames, NEW s \in Sources, EnsureSourceLoaded(f, s)
  PROVE  Keeps(f, s)
<1>1. CASE Ready(s)
  <2>1. Delivered(s)
    BY <1>1 DEF Ready, RuntimeSourceLoaded, Delivered
  <2> QED BY <1>1, <2>1, ReturnDelivers DEF EnsureSourceLoaded
<1>2. CASE ~Ready(s) /\ loading # None
  BY <1>2, AwaitFullDelivers DEF EnsureSourceLoaded
<1>3. CASE ~Ready(s) /\ loading = None
  BY <1>3, JoinOrStartDelivers DEF EnsureSourceLoaded
<1> QED BY <1>1, <1>2, <1>3

LEMMA EnsureLoadedDelivers ==
  ASSUME SyncInv, PresenceInv, UNCHANGED copies, NEW f \in Frames, EnsureLoaded(f)
  PROVE  Keeps(f, All)
<1>1. CASE fullyLoaded
  <2>1. Delivered(All)
    BY ConstantsAssumption DEF Delivered
  <2> QED BY <1>1, <2>1, ReturnDelivers DEF EnsureLoaded
<1>2. CASE ~fullyLoaded /\ loading # None
  BY <1>2, AwaitFullDelivers DEF EnsureLoaded
<1>3. CASE ~fullyLoaded /\ loading = None
  BY <1>3, StartLoadDelivers DEF EnsureLoaded, Scopes
<1> QED BY <1>1, <1>2, <1>3

(* Whoever wakes when a load ends well has what it waited for. *)
LEMMA SettleDelivers ==
  ASSUME SyncInv, PresenceInv, NEW l \in LoadIds, Pending(l), NEW ok \in BOOLEAN, Settle(l, ok),
         ok => (load[l].scope \in Permanent => copies'[load[l].scope] > 0),
         \A s \in Permanent : copies[s] > 0 => copies'[s] > 0
  PROVE  LoadsDeliver' /\ FramesDeliver' /\ \A c \in Callers : frame'[c].scope = frame[c].scope
<1>1. frame' = Wake(l, ok)
  BY DEF Settle
<1>2. load'[l].pc = "free" /\ \A k \in LoadIds : k # l => load'[k] = load[k]
  BY DEF Settle, SyncInv, TypeOK, Load, Free
<1>3. LoadsDeliver'
  BY <1>2 DEF PresenceInv, LoadsDeliver, Delivered
<1>4. \A f \in Frames :
        /\ frame'[f].pc = "returned" => (frame'[f].scope \in Permanent => copies'[frame'[f].scope] > 0)
        /\ frame'[f].on # None => frame'[f].pc \in {"awaitFull", "awaitLoad"}
        /\ frame'[f].pc = "awaitLoad" =>
             /\ frame'[f].on \in LoadIds /\ load'[frame'[f].on].pc # "free"
             /\ load'[frame'[f].on].scope = frame'[f].scope
        /\ f \in Callers => frame'[f].scope = frame[f].scope
  <2> TAKE f \in Frames
  <2>1. CASE f = l
    <3>1. frame'[f] = Idle
      BY <1>1, <2>1 DEF Wake
    <3>2. f \notin Callers
      BY <2>1, ConstantsAssumption
    <3> QED BY <3>1, <3>2 DEF Idle
  <2>2. CASE f # l /\ frame[f].on # l
    <3>1. frame'[f] = frame[f]
      BY <1>1, <2>2 DEF Wake
    <3> QED BY <3>1, <2>2, <1>2 DEF PresenceInv, FramesDeliver, Delivered, Pending
  <2>3. CASE f # l /\ frame[f].on = l
    <3>1. frame'[f] = Resumed(frame[f], ok)
      BY <1>1, <2>3 DEF Wake
    <3>2. frame'[f].scope = frame[f].scope /\ frame'[f].on = None /\ frame'[f].pc # "awaitLoad"
      BY <3>1 DEF Resumed
    <3>3. CASE frame'[f].pc = "returned" /\ frame[f].scope \in Permanent
      <4>1. ok /\ frame[f].pc # "awaitFull"
        BY <3>1, <3>3, ConstantsAssumption DEF Resumed
      <4>2. load[l].scope = frame[f].scope
        BY <2>3, <4>1, ConstantsAssumption DEF PresenceInv, FramesDeliver
      <4> QED BY <3>2, <4>1, <4>2
    <3> QED BY <3>2, <3>3
  <2> QED BY <2>1, <2>2, <2>3
<1>5. FramesDeliver'
  BY <1>4 DEF FramesDeliver, Delivered, Pending
<1>6. \A c \in Callers : frame'[c].scope = frame[c].scope
  BY <1>4 DEF Frames
<1> QED BY <1>3, <1>5, <1>6

-----------------------------------------------------------------------------
(* The parts of PresenceInv that a step must establish anew: the array and *)
(* the database are taken care of by RowsStay and CopiesStay.              *)
PartsDeliver == LoadsDeliver /\ FramesDeliver /\ CallsDeliver /\ FullyLoadedIsComplete /\ PreloadDelivers

CopiesGrow == \A s \in Permanent : copies[s] > 0 => copies'[s] > 0

LEMMA UntouchedLoads ==
  ASSUME PresenceInv, CopiesGrow, UNCHANGED load
  PROVE  LoadsDeliver'
BY DEF PresenceInv, CopiesGrow, LoadsDeliver, Delivered

LEMMA UntouchedFrames ==
  ASSUME PresenceInv, CopiesGrow, UNCHANGED <<load, frame>>
  PROVE  FramesDeliver'
BY DEF PresenceInv, CopiesGrow, FramesDeliver, Delivered, Pending

LEMMA UntouchedFull ==
  ASSUME PresenceInv, CopiesGrow, UNCHANGED fullyLoaded
  PROVE  FullyLoadedIsComplete'
BY DEF PresenceInv, CopiesGrow, FullyLoadedIsComplete, RuntimeSourceLoaded

LEMMA UntouchedCalls ==
  ASSUME PresenceInv, CopiesGrow, UNCHANGED call, \A c \in Callers : frame'[c].scope = frame[c].scope
  PROVE  CallsDeliver' /\ PreloadDelivers'
BY DEF PresenceInv, CopiesGrow, CallsDeliver, PreloadDelivers, RuntimeSourceLoaded

LEMMA RequestPresence ==
  ASSUME SyncInv, PresenceInv, CopiesGrow, NEW c \in Callers, Request(c)
  PROVE  PartsDeliver'
<1>1. PICK kind \in CallKinds, s \in Scopes :
        /\ kind = "create" => s \in Sources \ Permanent
        /\ call' = [call EXCEPT ![c] = [pc |-> "ensuring", kind |-> kind, scope |-> s]]
        /\ IF kind = "create" \/ s = All THEN EnsureLoaded(c) ELSE EnsureSourceLoaded(c, s)
  BY DEF Request
<1>2. UNCHANGED copies /\ UNCHANGED fullyLoaded
  BY DEF Request
<1>3. c \in Frames /\ Callers \subseteq Frames
  BY DEF Frames
<1>4. Keeps(c, IF kind = "create" \/ s = All THEN All ELSE s)
  <2>1. CASE kind = "create" \/ s = All
    BY <1>1, <1>2, <1>3, <2>1, EnsureLoadedDelivers
  <2>2. CASE ~(kind = "create" \/ s = All)
    <3>1. s \in Sources
      BY <2>2 DEF Scopes
    <3> QED BY <1>1, <1>2, <1>3, <2>2, <3>1, EnsureSourceLoadedDelivers
  <2> QED BY <2>1, <2>2
<1>5. call'[c] = [pc |-> "ensuring", kind |-> kind, scope |-> s] /\ \A d \in Callers \ {c} : call'[d] = call[d]
  BY <1>1 DEF SyncInv, TypeOK
<1>6. CallsDeliver'
  <2>1. s \in Permanent => frame'[c].scope = s
    BY <1>1, <1>4, ConstantsAssumption DEF Keeps
  <2>2. \A d \in Callers \ {c} : frame'[d].scope = frame[d].scope
    BY <1>3, <1>4 DEF Keeps
  <2> QED BY <1>5, <2>1, <2>2 DEF PresenceInv, CallsDeliver
<1>7. PreloadDelivers'
  BY <1>5 DEF PresenceInv, PreloadDelivers, CopiesGrow, RuntimeSourceLoaded
<1> QED BY <1>2, <1>4, <1>6, <1>7, UntouchedFull DEF Keeps, PartsDeliver

LEMMA PreloadEndsPresence ==
  ASSUME SyncInv, PresenceInv, CopiesGrow, NEW c \in Callers, PreloadEnds(c)
  PROVE  PartsDeliver'
<1>1. /\ call[c].pc = "ensuring" /\ frame[c].pc \in {"returned", "threw"}
      /\ frame' = [frame EXCEPT ![c] = Idle]
      /\ call' = [call EXCEPT ![c].pc = IF frame[c].pc = "threw" THEN "failed" ELSE "authorizing"]
      /\ UNCHANGED <<load, copies, fullyLoaded>>
  BY DEF PreloadEnds
<1>2. c \in Frames /\ Callers \subseteq Frames
  BY DEF Frames
<1>3. frame'[c] = Idle /\ \A g \in Frames \ {c} : frame'[g] = frame[g]
  BY <1>1, <1>2 DEF SyncInv, TypeOK
<1>4. FramesDeliver'
  BY <1>1, <1>3 DEF PresenceInv, FramesDeliver, Delivered, Pending, Idle
<1>5. /\ call'[c].pc \in {"failed", "authorizing"} /\ call'[c].scope = call[c].scope
      /\ call'[c].pc = "authorizing" => frame[c].pc = "returned"
      /\ \A d \in Callers \ {c} : call'[d] = call[d]
  BY <1>1 DEF SyncInv, TypeOK, CallRecords
<1>6. CallsDeliver'
  BY <1>2, <1>3, <1>5 DEF PresenceInv, CallsDeliver
<1>7. PreloadDelivers'
  <2>1. call'[c].pc = "authorizing" /\ call[c].scope \in Permanent => copies[call[c].scope] > 0
    BY <1>1, <1>2, <1>5 DEF PresenceInv, CallsDeliver, FramesDeliver, Delivered
  <2> QED BY <1>1, <1>5, <2>1 DEF PresenceInv, PreloadDelivers, RuntimeSourceLoaded
<1> QED BY <1>1, <1>4, <1>6, <1>7, UntouchedLoads, UntouchedFull DEF PartsDeliver

LEMMA HandlerPresence ==
  ASSUME SyncInv, PresenceInv, CopiesGrow, NEW c \in Callers,
         Authorized(c) \/ CreateCommits(c) \/ CreateReply(c) \/ DeleteCommits(c) \/ DeleteReply(c)
  PROVE  PartsDeliver'
<1>1. UNCHANGED <<load, frame, fullyLoaded>>
  BY DEF Authorized, CreateCommits, CreateReply, DeleteCommits, DeleteReply, syncVars
<1>2. /\ \E pc \in {"creating", "created", "deleting", "deleted", "done", "failed"} : call' = [call EXCEPT ![c].pc = pc]
      /\ call[c].pc \in {"authorizing", "creating", "created", "deleting", "deleted"}
  BY DEF Authorized, CreateCommits, CreateReply, DeleteCommits, DeleteReply
<1>3. /\ call'[c].scope = call[c].scope /\ call'[c].pc # "ensuring"
      /\ \A d \in Callers \ {c} : call'[d] = call[d]
  BY <1>2 DEF SyncInv, TypeOK, CallRecords
<1>4. CallsDeliver'
  BY <1>1, <1>3 DEF PresenceInv, CallsDeliver
<1>5. PreloadDelivers'
  BY <1>2, <1>3 DEF PresenceInv, PreloadDelivers, CopiesGrow, RuntimeSourceLoaded
<1> QED BY <1>1, <1>4, <1>5, UntouchedLoads, UntouchedFrames, UntouchedFull DEF PartsDeliver

LEMMA DbSnapshotPresence ==
  ASSUME SyncInv, PresenceInv, CopiesGrow, NEW l \in LoadIds, DbSnapshot(l)
  PROVE  PartsDeliver'
<1> DEFINE r == Load("read", load[l].scope, {s \in db : InScope(s, load[l].scope)}, {})
<1>1. load[l].pc = "reading" /\ load' = [load EXCEPT ![l] = r]
      /\ UNCHANGED <<copies, fullyLoaded, frame, call>>
  BY DEF DbSnapshot
<1>2. r.pc = "read" /\ r.scope = load[l].scope /\ r.rows = {s \in db : InScope(s, load[l].scope)}
  BY DEF Load
<1> HIDE DEF r
<1>3. load'[l] = r /\ \A k \in LoadIds \ {l} : load'[k] = load[k]
  BY <1>1 DEF SyncInv, TypeOK
<1>4. \A s \in Permanent : InScope(s, r.scope) => s \in r.rows
  BY <1>2 DEF PresenceInv
<1>5. LoadsDeliver'
  BY <1>1, <1>2, <1>3, <1>4 DEF PresenceInv, LoadsDeliver, Delivered, InScope
<1>6. FramesDeliver'
  BY <1>1, <1>2, <1>3 DEF PresenceInv, FramesDeliver, Delivered, Pending
<1> QED BY <1>1, <1>5, <1>6, UntouchedFull, UntouchedCalls DEF PartsDeliver

LEMMA DbReadReplyPresence ==
  ASSUME SyncInv, PresenceInv, CopiesGrow, NEW l \in LoadIds, DbReadReply(l)
  PROVE  PartsDeliver'
<1>1. load[l].pc = "read" /\ ReplaceSyncedRuntimeSources(l) /\ UNCHANGED call
  BY DEF DbReadReply
<1>2. \A s \in Permanent : InScope(s, load[l].scope) => copies'[s] > 0
  BY <1>1, ReplaceDelivers
<1>3. CASE load[l].scope = All
  <2>1. fullyLoaded' = TRUE /\ Settle(l, TRUE) /\ Pending(l)
    BY <1>3 DEF DbReadReply, Pending
  <2>2. LoadsDeliver' /\ FramesDeliver' /\ \A c \in Callers : frame'[c].scope = frame[c].scope
    BY <1>3, <2>1, SettleDelivers, ConstantsAssumption DEF CopiesGrow
  <2>3. FullyLoadedIsComplete'
    BY <1>2, <1>3 DEF FullyLoadedIsComplete, InScope, RuntimeSourceLoaded
  <2> QED BY <1>1, <2>2, <2>3, UntouchedCalls DEF PartsDeliver
<1>4. CASE load[l].scope # All
  <2> DEFINE r == Load("deps", load[l].scope, load[l].rows, RuntimeDependencySourceIds(load[l].rows))
  <2>1. load' = [load EXCEPT ![l] = r] /\ UNCHANGED <<fullyLoaded, frame>>
    BY <1>4 DEF DbReadReply
  <2>2. r.pc = "deps" /\ r.scope = load[l].scope
    BY DEF Load
  <2> HIDE DEF r
  <2>3. load'[l] = r /\ \A k \in LoadIds \ {l} : load'[k] = load[k]
    BY <2>1 DEF SyncInv, TypeOK
  <2>4. r.scope \in Permanent => copies'[r.scope] > 0
    BY <1>2, <2>2 DEF InScope
  <2>5. LoadsDeliver'
    BY <2>2, <2>3, <2>4 DEF PresenceInv, LoadsDeliver, Delivered, CopiesGrow
  <2>6. FramesDeliver'
    BY <1>1, <2>1, <2>2, <2>3 DEF PresenceInv, FramesDeliver, Delivered, Pending, CopiesGrow
  <2> QED BY <1>1, <2>1, <2>5, <2>6, UntouchedFull, UntouchedCalls DEF PartsDeliver
<1> QED BY <1>3, <1>4

LEMMA LoadEndsPresence ==
  ASSUME SyncInv, PresenceInv, CopiesGrow, NEW l \in LoadIds, DbReadFails(l) \/ LoadSettles(l)
  PROVE  PartsDeliver'
<1>1. Pending(l) /\ UNCHANGED <<fullyLoaded, copies, call>>
  BY DEF DbReadFails, LoadSettles, Pending
<1>2. PICK ok \in BOOLEAN : Settle(l, ok) /\ (ok => load[l].pc = "deps")
  BY DEF DbReadFails, LoadSettles
<1>3. ok => (load[l].scope \in Permanent => copies'[load[l].scope] > 0)
  BY <1>1, <1>2 DEF PresenceInv, LoadsDeliver, Delivered
<1>4. LoadsDeliver' /\ FramesDeliver' /\ \A c \in Callers : frame'[c].scope = frame[c].scope
  BY <1>1, <1>2, <1>3, SettleDelivers DEF CopiesGrow
<1> QED BY <1>1, <1>4, UntouchedFull, UntouchedCalls DEF PartsDeliver

LEMMA NextDependencyPresence ==
  ASSUME SyncInv, PresenceInv, CopiesGrow, NEW l \in LoadIds, NextDependency(l)
  PROVE  PartsDeliver'
<1>1. PICK d \in load[l].todo : EnsureSourceLoaded(l, d)
  BY DEF NextDependency
<1>2. load[l] \in LoadRecords
  BY DEF SyncInv, TypeOK
<1>3. d \in Sources /\ l \in Frames /\ UNCHANGED <<copies, fullyLoaded, call>>
  BY <1>1, <1>2 DEF LoadRecords, Frames, NextDependency
<1>4. Keeps(l, d)
  BY <1>1, <1>3, EnsureSourceLoadedDelivers
<1>5. \A c \in Callers : frame'[c].scope = frame[c].scope
  BY <1>4, ConstantsAssumption DEF Keeps, Frames
<1> QED BY <1>3, <1>4, <1>5, UntouchedFull, UntouchedCalls DEF Keeps, PartsDeliver

LEMMA DependencyLoadedPresence ==
  ASSUME SyncInv, PresenceInv, CopiesGrow, NEW l \in LoadIds, DependencyLoaded(l)
  PROVE  PartsDeliver'
<1> DEFINE r == Load("deps", load[l].scope, load[l].rows, load[l].todo \ {frame[l].scope})
<1>1. /\ load' = [load EXCEPT ![l] = r] /\ frame' = [frame EXCEPT ![l] = Idle]
      /\ load[l].pc = "deps" /\ UNCHANGED <<copies, fullyLoaded, call>>
  BY DEF DependencyLoaded
<1>2. r.pc = "deps" /\ r.scope = load[l].scope
  BY DEF Load
<1> HIDE DEF r
<1>3. l \in Frames /\ Callers \subseteq Frames /\ l \notin Callers
  BY ConstantsAssumption DEF Frames
<1>4. load'[l] = r /\ \A k \in LoadIds \ {l} : load'[k] = load[k]
  BY <1>1 DEF SyncInv, TypeOK
<1>5. frame'[l] = Idle /\ \A g \in Frames \ {l} : frame'[g] = frame[g]
  BY <1>1, <1>3 DEF SyncInv, TypeOK
<1>6. LoadsDeliver'
  BY <1>1, <1>2, <1>4 DEF PresenceInv, LoadsDeliver, Delivered
<1>7. FramesDeliver'
  BY <1>1, <1>2, <1>4, <1>5 DEF PresenceInv, FramesDeliver, Delivered, Pending, Idle
<1>8. \A c \in Callers : frame'[c].scope = frame[c].scope
  BY <1>3, <1>5
<1> QED BY <1>1, <1>6, <1>7, <1>8, UntouchedFull, UntouchedCalls DEF PartsDeliver

LEMMA ResumePresence ==
  ASSUME SyncInv, PresenceInv, CopiesGrow, NEW f \in Frames, ResumeAfterFull(f)
  PROVE  PartsDeliver'
<1> DEFINE s == frame[f].scope
<1>1. s \in Sources /\ UNCHANGED <<copies, fullyLoaded, call>>
  BY DEF ResumeAfterFull, SyncInv, Registry, FramesScoped
<1>2. Keeps(f, s)
  <2>1. CASE JoinOrStart(f, s)
    BY <1>1, <2>1, JoinOrStartDelivers
  <2>2. CASE /\ RuntimeSourceLoaded(s) /\ frame' = [frame EXCEPT ![f] = Returned(s)]
             /\ UNCHANGED <<loading, loadingSources, load>>
    BY <1>1, <2>2, ReturnDelivers DEF Delivered, RuntimeSourceLoaded
  <2> QED BY <2>1, <2>2 DEF ResumeAfterFull
<1>3. \A c \in Callers : frame'[c].scope = frame[c].scope
  BY <1>2 DEF Keeps, Frames
<1> QED BY <1>1, <1>2, <1>3, UntouchedFull, UntouchedCalls DEF Keeps, PartsDeliver

LEMMA StepPresence == SyncInv /\ PresenceInv /\ [Next]_vars => PresenceInv'
<1> SUFFICES ASSUME SyncInv, PresenceInv, [Next]_vars PROVE PresenceInv'
  OBVIOUS
<1>1. CopiesGrow
  BY CopiesStay DEF CopiesGrow
<1>2. ASSUME NEW c \in Callers, Request(c) \/ HandlerStep(c) PROVE PartsDeliver'
  BY <1>1, <1>2, RequestPresence, PreloadEndsPresence, HandlerPresence DEF HandlerStep
<1>3. ASSUME NEW l \in LoadIds, LoadStep(l) PROVE PartsDeliver'
  BY <1>1, <1>3, DbSnapshotPresence, DbReadReplyPresence, LoadEndsPresence,
     NextDependencyPresence, DependencyLoadedPresence DEF LoadStep
<1>4. ASSUME NEW f \in Frames, ResumeAfterFull(f) PROVE PartsDeliver'
  BY <1>1, <1>4, ResumePresence
<1>5. ASSUME UNCHANGED vars PROVE PartsDeliver'
  <2>1. UNCHANGED <<load, frame, fullyLoaded, call>>
    BY <1>5 DEF vars, syncVars
  <2> QED BY <1>1, <2>1, UntouchedLoads, UntouchedFrames, UntouchedFull, UntouchedCalls DEF PartsDeliver
<1>6. PartsDeliver'
  BY <1>2, <1>3, <1>4, <1>5 DEF Next, Finished
<1> QED BY <1>6, RowsStay DEF PartsDeliver, PresenceInv

LEMMA PresenceInvInductive == Spec => []PresenceInv
<1> QED BY InitPresence, StepPresence, SyncInvInductive, PTL DEF Spec

(* A request whose preload succeeded finds a source that stayed in the     *)
(* database, whatever other loads, creations and deletions run beside it.  *)
THEOREM PreloadDeliversHolds == Spec => []PreloadDelivers
<1>1. PresenceInv => PreloadDelivers
  BY DEF PresenceInv
<1> QED BY <1>1, PresenceInvInductive, PTL

(* fullyLoaded, which stops every later load of the whole table, is never  *)
(* set while a source that stayed in the database is missing.              *)
THEOREM FullyLoadedIsCompleteHolds == Spec => []FullyLoadedIsComplete
<1>1. PresenceInv => FullyLoadedIsComplete
  BY DEF PresenceInv
<1> QED BY <1>1, PresenceInvInductive, PTL

-----------------------------------------------------------------------------
(* Loads that wait for each other. *)

(* Load l waits for, or is about to look for, the load of a source it      *)
(* depends on.                                                             *)
Blocked(l) == load[l].pc = "deps" /\ frame[l].pc \in {"awaitFull", "recheck", "awaitLoad"}
Ring(S) == S # {} /\ \A l \in S : Blocked(l) /\ loadingSources[frame[l].scope] \in S
RingsRemoved == \A S \in SUBSET LoadIds : Ring(S) => \E l \in S : load[l].scope \in removed

ReadInScope == \A l \in LoadIds :
  /\ load[l].pc = "read" => \A s \in load[l].rows : InScope(s, load[l].scope)
  /\ load[l].pc = "deps" => load[l].scope # All
FramesOfLoads == \A l \in LoadIds :
  /\ load[l].pc # "deps" => frame[l].pc = "idle"
  /\ frame[l].pc # "idle" => frame[l].scope \in load[l].todo

(* The source of a load that has dependencies left is ready, and so found  *)
(* by whoever asks for it, unless it was taken out.                        *)
InPlace == \A l \in LoadIds :
  load[l].pc = "deps" /\ load[l].todo # {} => load[l].scope \in removed \/ Ready(load[l].scope)

RingInv == ReadInScope /\ FramesOfLoads /\ InPlace /\ RingsRemoved

LEMMA InitRing == Init => RingInv
<1> SUFFICES ASSUME Init PROVE RingInv
  OBVIOUS
<1>1. \A l \in LoadIds : load[l].pc = "free" /\ frame[l].pc = "idle"
  BY DEF Init, Load, Free, Idle, Frames
<1>2. ReadInScope /\ FramesOfLoads /\ InPlace
  BY <1>1 DEF ReadInScope, FramesOfLoads, InPlace
<1>3. RingsRemoved
  BY <1>1 DEF RingsRemoved, Ring, Blocked
<1> QED BY <1>2, <1>3 DEF RingInv

(* What a call of ensureLoaded or ensureSourceLoaded by frame f leaves as  *)
(* it was: it may start one load.                                          *)
Quiet(f) ==
  /\ \A g \in Frames \ {f} : frame'[g] = frame[g]
  /\ \A l \in LoadIds : load'[l] = load[l] \/ (load[l].pc = "free" /\ load'[l].pc = "reading")
  /\ \A s \in Sources : \/ loadingSources'[s] = loadingSources[s]
                        \/ loadingSources'[s] \in LoadIds /\ load'[loadingSources'[s]].pc = "reading"

LEMMA StartLoadQuiet ==
  ASSUME TypeOK, NEW f \in Frames, NEW s \in Scopes, StartLoad(f, s)
  PROVE  Quiet(f)
<1> DEFINE l == CHOOSE x \in FreeIds : TRUE
           r == Await(IF s = All THEN "awaitFull" ELSE "awaitLoad", s, l)
<1>1. l \in LoadIds /\ load[l].pc = "free"
  BY DEF StartLoad, FreeIds
<1>2. /\ load' = [load EXCEPT ![l] = Load("reading", s, {}, {})] /\ frame' = [frame EXCEPT ![f] = r]
      /\ loadingSources' = loadingSources \/ loadingSources' = [loadingSources EXCEPT ![s] = l]
  BY DEF StartLoad
<1> HIDE DEF l, r
<1>3. load'[l].pc = "reading" /\ \A k \in LoadIds : k # l => load'[k] = load[k]
  BY <1>1, <1>2 DEF TypeOK, Load
<1>4. \A g \in Frames \ {f} : frame'[g] = frame[g]
  BY <1>2 DEF TypeOK
<1>5. \A d \in Sources : loadingSources'[d] = loadingSources[d] \/ loadingSources'[d] = l
  BY <1>2 DEF TypeOK
<1> QED BY <1>1, <1>3, <1>4, <1>5 DEF Quiet

LEMMA EnsureQuiet ==
  ASSUME TypeOK, NEW f \in Frames,
         \/ EnsureLoaded(f)
         \/ \E s \in Sources : EnsureSourceLoaded(f, s) \/ JoinOrStart(f, s)
  PROVE  Quiet(f)
<1>1. CASE \E s \in Scopes : StartLoad(f, s)
  BY <1>1, StartLoadQuiet
<1>2. CASE ~\E s \in Scopes : StartLoad(f, s)
  <2>1. /\ UNCHANGED <<load, loadingSources>>
        /\ \E r : frame' = [frame EXCEPT ![f] = r]
    BY <1>2 DEF EnsureLoaded, EnsureSourceLoaded, JoinOrStart, Scopes
  <2> QED BY <2>1 DEF Quiet, TypeOK
<1> QED BY <1>1, <1>2

LEMMA RequestQuiet ==
  ASSUME SyncInv, NEW c \in Callers, Request(c)
  PROVE  Quiet(c)
<1>1. PICK kind \in CallKinds, s \in Scopes :
        IF kind = "create" \/ s = All THEN EnsureLoaded(c) ELSE EnsureSourceLoaded(c, s)
  BY DEF Request
<1>2. EnsureLoaded(c) \/ \E d \in Sources : EnsureSourceLoaded(c, d)
  BY <1>1 DEF Scopes
<1>3. c \in Frames
  BY DEF Frames
<1> QED BY <1>2, <1>3, EnsureQuiet DEF SyncInv

LEMMA NextDependencyQuiet ==
  ASSUME SyncInv, NEW k \in LoadIds, NextDependency(k)
  PROVE  Quiet(k)
<1>1. PICK d \in load[k].todo : EnsureSourceLoaded(k, d)
  BY DEF NextDependency
<1>2. load[k] \in LoadRecords /\ k \in Frames
  BY DEF SyncInv, TypeOK, Frames
<1>3. d \in Sources
  BY <1>1, <1>2 DEF LoadRecords
<1> QED BY <1>1, <1>2, <1>3, EnsureQuiet DEF SyncInv

LEMMA ResumeQuiet ==
  ASSUME SyncInv, NEW f \in Frames, ResumeAfterFull(f)
  PROVE  Quiet(f)
<1>1. frame[f].scope \in Sources
  BY DEF ResumeAfterFull, SyncInv, Registry, FramesScoped
<1>2. CASE JoinOrStart(f, frame[f].scope)
  BY <1>1, <1>2, EnsureQuiet DEF SyncInv
<1>3. CASE /\ frame' = [frame EXCEPT ![f] = Returned(frame[f].scope)]
           /\ UNCHANGED <<loading, loadingSources, load>>
  BY <1>3 DEF Quiet, SyncInv, TypeOK
<1> QED BY <1>2, <1>3 DEF ResumeAfterFull

(* A source in place stays while its load is in flight.                    *)
LEMMA RemovedGrows == ASSUME [Next]_vars PROVE removed \subseteq removed'
<1>1. ASSUME NEW l \in LoadIds, LoadStep(l) PROVE removed \subseteq removed'
  BY <1>1 DEF LoadStep, DbSnapshot, DbReadReply, DbReadFails, NextDependency, DependencyLoaded, LoadSettles,
     ReplaceSyncedRuntimeSources
<1>2. ASSUME NEW c \in Callers, Request(c) \/ HandlerStep(c) PROVE removed \subseteq removed'
  BY <1>2 DEF HandlerStep, Request, PreloadEnds, Authorized, CreateCommits, CreateReply, DeleteCommits, DeleteReply
<1>3. ASSUME NEW f \in Frames, ResumeAfterFull(f) PROVE removed \subseteq removed'
  BY <1>3 DEF ResumeAfterFull
<1> QED BY <1>1, <1>2, <1>3 DEF Next, Finished, vars

InPlaceAt(s) == s \in removed \/ Ready(s)
InPlaceNext(s) == s \in removed' \/ (copies'[s] > 0 /\ (fullyLoaded' \/ s \in synced'))

LEMMA InPlaceStays ==
  ASSUME SyncInv, ReadInScope, [Next]_vars, NEW l \in LoadIds, load[l].pc = "deps", InPlaceAt(load[l].scope)
  PROVE  InPlaceNext(load[l].scope)
<1> DEFINE s == load[l].scope
<1>0. /\ s \in Sources /\ loadingSources[s] = l /\ l # None /\ copies[s] \in Nat /\ copies \in [Sources -> Nat]
      /\ fullyLoaded \in BOOLEAN
  <2>1. load[l] \in LoadRecords /\ s # All
    BY DEF SyncInv, TypeOK, ReadInScope
  <2>2. s \in Sources
    BY <2>1 DEF LoadRecords, Scopes
  <2> QED BY <2>1, <2>2, ConstantsAssumption DEF SyncInv, TypeOK, Registry, SingleFlight, Pending
<1> HIDE DEF s
<1>1. CASE s \in removed
  BY <1>1, RemovedGrows DEF InPlaceNext, s
<1>2. CASE Ready(s)
  <2>0. copies[s] > 0 /\ (fullyLoaded \/ s \in synced)
    BY <1>2 DEF Ready, RuntimeSourceLoaded
  <2>1. ASSUME NEW k \in LoadIds, DbReadReply(k) PROVE InPlaceNext(s)
    <3>1. load[k].pc = "read" /\ ReplaceSyncedRuntimeSources(k)
          /\ (load[k].scope = All => fullyLoaded') /\ (load[k].scope # All => fullyLoaded' = fullyLoaded)
      BY <2>1 DEF DbReadReply
    <3>2. CASE s \in Dropped(k)
      <4>1. load[k].scope # s
        BY <1>0, <3>1 DEF SyncInv, Registry, SingleFlight, Pending, s
      <4>2. fullyLoaded'
        BY <3>1, <3>2, <4>1 DEF Dropped, InScope
      <4>3. copies'[s] = copies[s] - 1 /\ (copies[s] = 1 => s \in removed')
        BY <1>0, <3>1, <3>2 DEF ReplaceSyncedRuntimeSources
      <4> QED BY <1>0, <2>0, <4>2, <4>3 DEF InPlaceNext
    <3>3. CASE s \notin Dropped(k)
      <4>1. copies'[s] > 0 /\ (s \in synced => s \in synced')
        BY <1>0, <2>0, <3>1, <3>3 DEF ReplaceSyncedRuntimeSources
      <4>2. fullyLoaded => fullyLoaded'
        BY <3>1
      <4> QED BY <2>0, <4>1, <4>2 DEF InPlaceNext
    <3> QED BY <3>2, <3>3
  <2>2. ASSUME NEW c \in Callers, DeleteReply(c) PROVE InPlaceNext(s)
    <3>1. UNCHANGED <<synced, fullyLoaded>>
      BY <2>2 DEF DeleteReply
    <3>2. copies'[s] > 0 \/ s \in removed'
      BY <1>0, <2>0, <2>2 DEF DeleteReply
    <3> QED BY <2>0, <3>1, <3>2 DEF InPlaceNext
  <2>3. ASSUME NEW c \in Callers, CreateReply(c) PROVE InPlaceNext(s)
    <3>1. UNCHANGED <<synced, fullyLoaded>>
      BY <2>3 DEF CreateReply
    <3>2. copies'[s] > 0
      BY <1>0, <2>0, <2>3 DEF CreateReply
    <3> QED BY <2>0, <3>1, <3>2 DEF InPlaceNext
  <2>4. ASSUME UNCHANGED <<copies, synced, fullyLoaded>> PROVE InPlaceNext(s)
    BY <2>0, <2>4 DEF InPlaceNext
  <2>5. ASSUME NEW k \in LoadIds, LoadStep(k), ~DbReadReply(k) PROVE UNCHANGED <<copies, synced, fullyLoaded>>
    BY <2>5 DEF LoadStep, DbSnapshot, DbReadFails, NextDependency, DependencyLoaded, LoadSettles
  <2>6. ASSUME NEW c \in Callers, Request(c) \/ HandlerStep(c), ~DeleteReply(c), ~CreateReply(c)
        PROVE  UNCHANGED <<copies, synced, fullyLoaded>>
    BY <2>6 DEF HandlerStep, Request, PreloadEnds, Authorized, CreateCommits, DeleteCommits, syncVars
  <2>7. ASSUME NEW f \in Frames, ResumeAfterFull(f) PROVE UNCHANGED <<copies, synced, fullyLoaded>>
    BY <2>7 DEF ResumeAfterFull
  <2>8. ASSUME UNCHANGED vars PROVE UNCHANGED <<copies, synced, fullyLoaded>>
    BY <2>8 DEF vars, syncVars
  <2>9. ASSUME NEW k \in LoadIds, LoadStep(k) PROVE InPlaceNext(s)
    BY <2>1, <2>4, <2>5, <2>9
  <2>10. ASSUME NEW c \in Callers, Request(c) \/ HandlerStep(c) PROVE InPlaceNext(s)
    BY <2>2, <2>3, <2>4, <2>6, <2>10
  <2>11. ASSUME NEW f \in Frames, ResumeAfterFull(f) PROVE InPlaceNext(s)
    BY <2>4, <2>7, <2>11
  <2>12. ASSUME UNCHANGED vars PROVE InPlaceNext(s)
    BY <2>4, <2>8, <2>12
  <2>13. \/ \E c \in Callers : Request(c) \/ HandlerStep(c)
         \/ \E k \in LoadIds : LoadStep(k)
         \/ \E f \in Frames : ResumeAfterFull(f)
         \/ UNCHANGED vars
    BY DEF Next, Finished
  <2> QED BY <2>9, <2>10, <2>11, <2>12, <2>13 DEF s
<1> QED BY <1>1, <1>2 DEF InPlaceAt, s

(* A blocked load keeps what it waits for, except when it begins to wait   *)
(* for a load whose source was taken out.                                  *)
Linked(l) ==
  \A k \in LoadIds :
    Blocked(l)' /\ loadingSources'[frame'[l].scope] = k /\ Blocked(k)'
      => \/ Blocked(l) /\ loadingSources[frame[l].scope] = k /\ load'[l].scope = load[l].scope
         \/ load'[k].scope \in removed'

LEMMA RingStep ==
  ASSUME RingsRemoved, removed \subseteq removed', \A l \in LoadIds : Linked(l)
  PROVE  RingsRemoved'
<1> SUFFICES ASSUME NEW S \in SUBSET LoadIds, Ring(S)' PROVE \E l \in S : load'[l].scope \in removed'
  BY DEF RingsRemoved
<1>1. S # {} /\ \A l \in S : Blocked(l)' /\ loadingSources'[frame'[l].scope] \in S
  BY DEF Ring
<1>2. CASE \A l \in S : Blocked(l) /\ loadingSources[frame[l].scope] \in S /\ load'[l].scope = load[l].scope
  <2>1. Ring(S)
    BY <1>1, <1>2 DEF Ring
  <2> QED BY <1>2, <2>1 DEF RingsRemoved
<1>3. CASE \E l \in S : ~(Blocked(l) /\ loadingSources[frame[l].scope] \in S /\ load'[l].scope = load[l].scope)
  <2>1. PICK l \in S : ~(Blocked(l) /\ loadingSources[frame[l].scope] \in S /\ load'[l].scope = load[l].scope)
    BY <1>3
  <2>2. PICK k \in S : k = loadingSources'[frame'[l].scope]
    BY <1>1
  <2>3. load'[k].scope \in removed'
    BY <1>1, <2>1, <2>2 DEF Linked
  <2> QED BY <2>3
<1> QED BY <1>2, <1>3

(* What a step establishes of the loads, apart from InPlace. *)
LoadsLinked == ReadInScope' /\ FramesOfLoads' /\ \A l \in LoadIds : Linked(l)

(* The load, if any, of a source that a load depends on and that is not    *)
(* found in the array.                                                     *)
LEMMA NotFoundRemoved ==
  ASSUME SyncInv, FramesOfLoads, InPlace, NEW l \in LoadIds, NEW d \in load[l].todo, load[l].pc = "deps",
         ~Ready(d), NEW k \in LoadIds, loadingSources[d] = k, load[k].pc = "deps", k = l \/ frame[k].pc # "idle"
  PROVE  load[k].scope \in removed
<1>1. load[l] \in LoadRecords /\ k # None
  BY ConstantsAssumption DEF SyncInv, TypeOK
<1>2. d \in Sources /\ load[k].scope = d
  BY <1>1 DEF LoadRecords, SyncInv, Registry, SingleFlight
<1>3. load[k].todo # {}
  BY DEF FramesOfLoads
<1> QED BY <1>2, <1>3 DEF InPlace

(* Frame f, of a request or of a load, runs ensureLoaded or                *)
(* ensureSourceLoaded.                                                     *)
LEMMA QuietLinked ==
  ASSUME SyncInv, RingInv, NEW f \in Frames, Quiet(f),
         f \in LoadIds => /\ load[f].pc = "deps" /\ frame'[f].scope \in load[f].todo
                          /\ Linked(f)
  PROVE  LoadsLinked
<1>1. \A l \in LoadIds : load'[l] = load[l] \/ (load[l].pc = "free" /\ load'[l].pc = "reading")
  BY DEF Quiet
<1>2. ReadInScope'
  BY <1>1 DEF RingInv, ReadInScope
<1>3. FramesOfLoads'
  <2> SUFFICES ASSUME NEW l \in LoadIds
               PROVE  /\ load'[l].pc # "deps" => frame'[l].pc = "idle"
                      /\ frame'[l].pc # "idle" => frame'[l].scope \in load'[l].todo
    BY DEF FramesOfLoads
  <2>1. CASE l = f
    BY <1>1, <2>1
  <2>2. CASE l # f
    <3>1. frame'[l] = frame[l]
      BY <2>2 DEF Quiet, Frames
    <3> QED BY <1>1, <3>1 DEF RingInv, FramesOfLoads
  <2> QED BY <2>1, <2>2
<1>4. ASSUME NEW l \in LoadIds, l # f PROVE Linked(l)
  <2> SUFFICES ASSUME NEW k \in LoadIds, Blocked(l)', loadingSources'[frame'[l].scope] = k, Blocked(k)'
               PROVE  Blocked(l) /\ loadingSources[frame[l].scope] = k /\ load'[l].scope = load[l].scope
    BY DEF Linked
  <2>1. frame'[l] = frame[l] /\ load'[l] = load[l] /\ load[l].pc = "deps" /\ frame[l].pc # "idle"
    BY <1>1, <1>4 DEF Quiet, Frames, Blocked
  <2>2. load[l] \in LoadRecords /\ frame[l].scope \in load[l].todo
    BY <2>1 DEF SyncInv, TypeOK, RingInv, FramesOfLoads
  <2>3. frame[l].scope \in Sources
    BY <2>2 DEF LoadRecords
  <2>4. load'[k].pc = "deps"
    BY DEF Blocked
  <2>5. loadingSources'[frame[l].scope] = loadingSources[frame[l].scope]
    BY <2>1, <2>3, <2>4 DEF Quiet
  <2> QED BY <2>1, <2>5 DEF Blocked
<1> QED BY <1>2, <1>3, <1>4 DEF LoadsLinked

LEMMA NextDependencyLinked ==
  ASSUME SyncInv, PresenceInv, RingInv, NEW l \in LoadIds, NextDependency(l)
  PROVE  LoadsLinked
<1>1. PICK d \in load[l].todo : EnsureSourceLoaded(l, d)
  BY DEF NextDependency
<1>2. load[l] \in LoadRecords /\ load[l].pc = "deps" /\ l \in Frames /\ UNCHANGED <<copies, removed, synced, fullyLoaded>>
  BY DEF SyncInv, TypeOK, NextDependency, Frames
<1>3. d \in Sources
  BY <1>1, <1>2 DEF LoadRecords
<1>4. Keeps(l, d) /\ Quiet(l)
  BY <1>1, <1>2, <1>3, EnsureSourceLoadedDelivers, EnsureQuiet DEF SyncInv
<1>5. Linked(l)
  <2> SUFFICES ASSUME NEW k \in LoadIds, Blocked(l)', loadingSources'[frame'[l].scope] = k, Blocked(k)'
               PROVE  load'[k].scope \in removed'
    BY DEF Linked
  <2>1. ~Ready(d)
    <3>1. SUFFICES ASSUME Ready(d) PROVE FALSE
      OBVIOUS
    <3>2. frame' = [frame EXCEPT ![l] = Returned(d)]
      BY <1>1, <3>1 DEF EnsureSourceLoaded
    <3>3. frame'[l].pc = "returned"
      BY <1>2, <3>2 DEF SyncInv, TypeOK, Returned
    <3> QED BY <3>3 DEF Blocked
  <2>2. frame'[l].scope = d /\ load'[k].pc = "deps" /\ frame'[k].pc # "idle"
    BY <1>4 DEF Keeps, Blocked
  <2>3. load'[k] = load[k] /\ loadingSources[d] = k
    BY <1>3, <1>4, <2>2 DEF Quiet
  <2>4. k = l \/ frame[k].pc # "idle"
    BY <1>4, <2>2 DEF Quiet, Frames
  <2> QED BY <1>2, <2>1, <2>2, <2>3, <2>4, NotFoundRemoved DEF RingInv
<1>6. frame'[l].scope \in load[l].todo
  BY <1>4 DEF Keeps
<1> QED BY <1>2, <1>4, <1>5, <1>6, QuietLinked

LEMMA ResumeLinked ==
  ASSUME SyncInv, PresenceInv, RingInv, NEW f \in Frames, ResumeAfterFull(f)
  PROVE  LoadsLinked
<1> DEFINE s == frame[f].scope
<1>1. s \in Sources /\ UNCHANGED copies /\ frame[f].pc = "recheck"
  BY DEF ResumeAfterFull, SyncInv, Registry, FramesScoped
<1>2. CASE JoinOrStart(f, s)
  <2>1. Quiet(f) /\ Keeps(f, s)
    BY <1>1, <1>2, EnsureQuiet, JoinOrStartDelivers DEF SyncInv
  <2>2. ASSUME f \in LoadIds PROVE load[f].pc = "deps" /\ s \in load[f].todo
    BY <1>1, <2>2 DEF RingInv, FramesOfLoads
  <2>3. ASSUME f \in LoadIds PROVE Linked(f)
    <3> SUFFICES ASSUME NEW k \in LoadIds, loadingSources'[frame'[f].scope] = k, Blocked(k)', Blocked(f)'
                 PROVE  Blocked(f) /\ loadingSources[frame[f].scope] = k /\ load'[f].scope = load[f].scope
      BY DEF Linked
    <3>1. frame'[f].scope = s /\ load'[k].pc = "deps" /\ load'[f].pc = "deps"
      BY <2>1 DEF Keeps, Blocked
    <3>2. load'[f] = load[f] /\ loadingSources'[s] = loadingSources[s]
      BY <1>1, <2>1, <2>3, <3>1 DEF Quiet
    <3> QED BY <1>1, <2>2, <2>3, <3>1, <3>2 DEF Blocked
  <2>4. frame'[f].scope = s
    BY <2>1 DEF Keeps
  <2> QED BY <2>1, <2>2, <2>3, <2>4, QuietLinked
<1>3. CASE frame' = [frame EXCEPT ![f] = Returned(s)] /\ UNCHANGED <<loading, loadingSources, load>>
  <2>1. frame'[f].pc = "returned" /\ frame'[f].scope = s /\ \A g \in Frames \ {f} : frame'[g] = frame[g]
    BY <1>3 DEF SyncInv, TypeOK, Returned
  <2>2. Quiet(f)
    BY <1>3, <2>1 DEF Quiet
  <2>3. f \in LoadIds => load[f].pc = "deps" /\ s \in load[f].todo
    BY <1>1 DEF RingInv, FramesOfLoads
  <2>4. f \in LoadIds => Linked(f)
    BY <2>1 DEF Linked, Blocked
  <2> QED BY <2>1, <2>2, <2>3, <2>4, QuietLinked
<1> QED BY <1>2, <1>3 DEF ResumeAfterFull

(* A step of a request. *)
LEMMA CallerLinked ==
  ASSUME SyncInv, RingInv, NEW c \in Callers, Request(c) \/ HandlerStep(c)
  PROVE  LoadsLinked
<1>1. c \in Frames /\ c \notin LoadIds
  BY ConstantsAssumption DEF Frames
<1>2. Quiet(c)
  <2>1. CASE Request(c)
    BY <2>1, RequestQuiet
  <2>2. CASE PreloadEnds(c)
    <3>1. frame' = [frame EXCEPT ![c] = Idle] /\ UNCHANGED <<load, loadingSources>>
      BY <2>2 DEF PreloadEnds
    <3> QED BY <1>1, <3>1 DEF Quiet, SyncInv, TypeOK
  <2>3. CASE Authorized(c) \/ CreateCommits(c) \/ CreateReply(c) \/ DeleteCommits(c) \/ DeleteReply(c)
    <3>1. UNCHANGED <<load, frame, loadingSources>>
      BY <2>3 DEF Authorized, CreateCommits, CreateReply, DeleteCommits, DeleteReply, syncVars
    <3> QED BY <3>1 DEF Quiet
  <2> QED BY <2>1, <2>2, <2>3 DEF HandlerStep
<1> QED BY <1>1, <1>2, QuietLinked

(* The load l is over. *)
LEMMA SettleLinked ==
  ASSUME SyncInv, PresenceInv, RingInv, NEW l \in LoadIds, NEW ok \in BOOLEAN, Settle(l, ok)
  PROVE  LoadsLinked
<1>0. l \in Frames /\ LoadIds \subseteq Frames
  BY DEF Frames
<1>1. load'[l].pc = "free" /\ \A k \in LoadIds : k # l => load'[k] = load[k]
  BY DEF Settle, SyncInv, TypeOK, Load, Free
<1>2. /\ frame'[l].pc = "idle"
      /\ \A g \in LoadIds \ {l} : frame[g].on # l => frame'[g] = frame[g]
      /\ \A g \in LoadIds \ {l} : frame[g].on = l => /\ frame'[g].scope = frame[g].scope
                                                     /\ frame'[g].pc \in {"recheck", "returned", "threw"}
                                                     /\ frame[g].pc \in {"awaitFull", "awaitLoad"}
  <2>1. frame' = Wake(l, ok)
    BY DEF Settle
  <2>2. frame'[l].pc = "idle"
    BY <1>0, <2>1 DEF Wake, Idle
  <2>3. ASSUME NEW g \in LoadIds \ {l}, frame[g].on # l PROVE frame'[g] = frame[g]
    BY <1>0, <2>1, <2>3 DEF Wake
  <2>4. ASSUME NEW g \in LoadIds \ {l}, frame[g].on = l
        PROVE  /\ frame'[g].scope = frame[g].scope
               /\ frame'[g].pc \in {"recheck", "returned", "threw"}
               /\ frame[g].pc \in {"awaitFull", "awaitLoad"}
    <3>1. frame'[g] = Resumed(frame[g], ok)
      BY <1>0, <2>1, <2>4 DEF Wake
    <3>2. frame[g].on # None
      BY <2>4, ConstantsAssumption
    <3> QED BY <1>0, <3>1, <3>2 DEF Resumed, PresenceInv, FramesDeliver
  <2> QED BY <2>2, <2>3, <2>4
<1>3. ReadInScope'
  BY <1>1 DEF RingInv, ReadInScope
<1>4. FramesOfLoads'
  <2> SUFFICES ASSUME NEW g \in LoadIds
               PROVE  /\ load'[g].pc # "deps" => frame'[g].pc = "idle"
                      /\ frame'[g].pc # "idle" => frame'[g].scope \in load'[g].todo
    BY DEF FramesOfLoads
  <2>1. CASE g = l
    BY <1>2, <2>1
  <2>2. CASE g # l
    BY <1>1, <1>2, <2>2 DEF RingInv, FramesOfLoads
  <2> QED BY <2>1, <2>2
<1>5. ASSUME NEW g \in LoadIds PROVE Linked(g)
  <2> SUFFICES ASSUME NEW k \in LoadIds, Blocked(g)', loadingSources'[frame'[g].scope] = k, Blocked(k)'
               PROVE  Blocked(g) /\ loadingSources[frame[g].scope] = k /\ load'[g].scope = load[g].scope
    BY DEF Linked
  <2>1. g # l /\ load'[g].pc = "deps" /\ frame'[g].pc # "idle"
    BY <1>2 DEF Blocked
  <2>2. load'[g] = load[g] /\ frame'[g].scope = frame[g].scope /\ Blocked(g)
    BY <1>1, <1>2, <2>1 DEF Blocked
  <2>3. load[g] \in LoadRecords /\ frame[g].scope \in load[g].todo
    BY <1>4, <2>1, <2>2 DEF FramesOfLoads, SyncInv, TypeOK
  <2>4. frame[g].scope \in Sources /\ k # None
    BY <2>3, ConstantsAssumption DEF LoadRecords
  <2>5. loadingSources'[frame[g].scope] = None \/ loadingSources'[frame[g].scope] = loadingSources[frame[g].scope]
    BY <2>4 DEF Settle, SyncInv, TypeOK
  <2> QED BY <2>2, <2>4, <2>5
<1> QED BY <1>3, <1>4, <1>5 DEF LoadsLinked

(* A load goes on: its own record changes, and no frame begins to wait. *)
LEMMA OwnLoadLinked ==
  ASSUME SyncInv, RingInv, NEW l \in LoadIds, NEW r \in LoadRecords, load' = [load EXCEPT ![l] = r],
         UNCHANGED loadingSources, frame'[l].pc = "idle", \A g \in LoadIds \ {l} : frame'[g] = frame[g],
         r.pc = "read" => \A s \in r.rows : InScope(s, r.scope),
         r.pc = "deps" => r.scope # All
  PROVE  LoadsLinked
<1>1. load'[l] = r /\ \A k \in LoadIds \ {l} : load'[k] = load[k]
  BY DEF SyncInv, TypeOK
<1>2. ReadInScope'
  BY <1>1 DEF RingInv, ReadInScope
<1>3. FramesOfLoads'
  BY <1>1 DEF RingInv, FramesOfLoads
<1>4. \A g \in LoadIds : Linked(g)
  BY <1>1 DEF Linked, Blocked
<1> QED BY <1>2, <1>3, <1>4 DEF LoadsLinked

LEMMA LoadStepLinked ==
  ASSUME SyncInv, PresenceInv, RingInv, NEW l \in LoadIds, LoadStep(l)
  PROVE  LoadsLinked
<1>0. load[l] \in LoadRecords /\ l \in Frames /\ LoadIds \subseteq Frames
  BY DEF SyncInv, TypeOK, Frames
<1>1. CASE DbSnapshot(l)
  <2> DEFINE r == Load("read", load[l].scope, {s \in db : InScope(s, load[l].scope)}, {})
  <2>1. load[l].pc = "reading" /\ load' = [load EXCEPT ![l] = r] /\ UNCHANGED <<loadingSources, frame>>
    BY <1>1 DEF DbSnapshot
  <2>2. r \in LoadRecords /\ r.pc = "read" /\ \A s \in r.rows : InScope(s, r.scope)
    BY <1>0 DEF Load, LoadRecords, SyncInv, TypeOK
  <2> HIDE DEF r
  <2>3. frame[l].pc = "idle"
    BY <2>1 DEF RingInv, FramesOfLoads
  <2> QED BY <2>1, <2>2, <2>3, OwnLoadLinked
<1>2. CASE DbReadReply(l) /\ load[l].scope # All
  <2> DEFINE r == Load("deps", load[l].scope, load[l].rows, RuntimeDependencySourceIds(load[l].rows))
  <2>1. load[l].pc = "read" /\ load' = [load EXCEPT ![l] = r] /\ UNCHANGED <<loadingSources, frame>>
    BY <1>2 DEF DbReadReply
  <2>2. RuntimeDependencySourceIds(load[l].rows) \subseteq Sources
    BY <1>0, ConstantsAssumption DEF RuntimeDependencySourceIds, LoadRecords
  <2>3. r \in LoadRecords /\ r.pc = "deps" /\ r.scope # All
    BY <1>0, <1>2, <2>2 DEF Load, LoadRecords
  <2> HIDE DEF r
  <2>4. frame[l].pc = "idle"
    BY <2>1 DEF RingInv, FramesOfLoads
  <2> QED BY <2>1, <2>3, <2>4, OwnLoadLinked
<1>3. CASE DependencyLoaded(l)
  <2> DEFINE r == Load("deps", load[l].scope, load[l].rows, load[l].todo \ {frame[l].scope})
  <2>1. load[l].pc = "deps" /\ load' = [load EXCEPT ![l] = r] /\ frame' = [frame EXCEPT ![l] = Idle]
        /\ UNCHANGED loadingSources
    BY <1>3 DEF DependencyLoaded
  <2>2. r \in LoadRecords /\ r.pc = "deps" /\ r.scope # All
    BY <1>0, <2>1 DEF Load, LoadRecords, RingInv, ReadInScope
  <2> HIDE DEF r
  <2>3. frame'[l].pc = "idle" /\ \A g \in LoadIds \ {l} : frame'[g] = frame[g]
    BY <1>0, <2>1 DEF SyncInv, TypeOK, Idle
  <2> QED BY <2>1, <2>2, <2>3, OwnLoadLinked
<1>4. CASE NextDependency(l)
  BY <1>4, NextDependencyLinked
<1>5. CASE \E ok \in BOOLEAN : Settle(l, ok)
  BY <1>5, SettleLinked
<1>6. \/ DbSnapshot(l) \/ NextDependency(l) \/ DependencyLoaded(l)
      \/ DbReadReply(l) /\ load[l].scope # All
      \/ \E ok \in BOOLEAN : Settle(l, ok)
  BY DEF LoadStep, DbReadReply, DbReadFails, LoadSettles
<1> QED BY <1>1, <1>2, <1>3, <1>4, <1>5, <1>6

LEMMA StepLinked ==
  ASSUME SyncInv, PresenceInv, RingInv, [Next]_vars
  PROVE  LoadsLinked
<1>1. CASE UNCHANGED vars
  <2>1. UNCHANGED <<load, frame, loadingSources>>
    BY <1>1 DEF vars, syncVars
  <2>2. ReadInScope' /\ FramesOfLoads'
    BY <2>1 DEF RingInv, ReadInScope, FramesOfLoads
  <2>3. \A l \in LoadIds : Linked(l)
    BY <2>1 DEF Linked, Blocked
  <2> QED BY <2>2, <2>3 DEF LoadsLinked
<1>2. CASE \E c \in Callers : Request(c) \/ HandlerStep(c)
  BY <1>2, CallerLinked
<1>3. CASE \E l \in LoadIds : LoadStep(l)
  BY <1>3, LoadStepLinked
<1>4. CASE \E f \in Frames : ResumeAfterFull(f)
  BY <1>4, ResumeLinked
<1> QED BY <1>1, <1>2, <1>3, <1>4 DEF Next, Finished

(* Every step, by what it does to the loads. *)
LEMMA StepKinds ==
  ASSUME SyncInv, [Next]_vars
  PROVE  \/ \E f \in Frames : Quiet(f)
         \/ \E k \in LoadIds : DbSnapshot(k)
         \/ \E k \in LoadIds, ok \in BOOLEAN : Settle(k, ok)
         \/ \E k \in LoadIds : DependencyLoaded(k)
         \/ \E k \in LoadIds : DbReadReply(k) /\ load[k].scope # All
         \/ UNCHANGED load
<1>1. ASSUME NEW c \in Callers, HandlerStep(c) PROVE UNCHANGED load
  BY <1>1 DEF HandlerStep, PreloadEnds, Authorized, CreateCommits, CreateReply, DeleteCommits, DeleteReply, syncVars
<1>2. ASSUME NEW k \in LoadIds, DbReadReply(k) \/ DbReadFails(k) \/ LoadSettles(k)
      PROVE  (DbReadReply(k) /\ load[k].scope # All) \/ \E ok \in BOOLEAN : Settle(k, ok)
  BY <1>2 DEF DbReadReply, DbReadFails, LoadSettles
<1>3. UNCHANGED vars => UNCHANGED load
  BY DEF vars, syncVars
<1>4. LoadIds \subseteq Frames /\ Callers \subseteq Frames
  BY DEF Frames
<1>5. \/ \E c \in Callers : Request(c) \/ HandlerStep(c)
      \/ \E l \in LoadIds : LoadStep(l)
      \/ \E f \in Frames : ResumeAfterFull(f)
      \/ UNCHANGED vars
  BY DEF Next, Finished
<1> QED BY <1>1, <1>2, <1>3, <1>4, <1>5, RequestQuiet, NextDependencyQuiet, ResumeQuiet DEF LoadStep

(* A load gets to its dependencies with its rows in the array. *)
LEMMA StepInPlace ==
  ASSUME SyncInv, PresenceInv, RingInv, [Next]_vars
  PROVE  InPlace'
<1> SUFFICES ASSUME NEW l \in LoadIds, load'[l].pc = "deps", load'[l].todo # {}
             PROVE  InPlaceNext(load'[l].scope)
  BY DEF InPlace, InPlaceNext, Ready, RuntimeSourceLoaded
<1>1. CASE load[l].pc = "deps" /\ load[l].todo # {} /\ load'[l].scope = load[l].scope
  BY <1>1, InPlaceStays DEF RingInv, InPlace, InPlaceAt
<1>2. CASE DbReadReply(l) /\ load[l].scope # All
  <2>1. /\ load[l].pc = "read" /\ ReplaceSyncedRuntimeSources(l) /\ load[l] \in LoadRecords
        /\ load' = [load EXCEPT ![l] = Load("deps", @.scope, @.rows, RuntimeDependencySourceIds(@.rows))]
    BY <1>2 DEF DbReadReply, SyncInv, TypeOK
  <2>2. load'[l].scope = load[l].scope /\ load'[l].todo = RuntimeDependencySourceIds(load[l].rows)
    BY <2>1 DEF Load, SyncInv, TypeOK
  <2>3. load[l].scope \in load[l].rows
    <3>1. load[l].rows # {}
      BY <2>2 DEF RuntimeDependencySourceIds
    <3> QED BY <1>2, <2>1, <3>1 DEF RingInv, ReadInScope, InScope
  <2>4. load[l].scope \in Sources /\ load[l].scope \notin Dropped(l)
    BY <1>2, <2>1, <2>3 DEF LoadRecords, Scopes, Dropped
  <2>5. copies'[load[l].scope] > 0 /\ load[l].scope \in synced'
    BY <2>1, <2>3, <2>4 DEF ReplaceSyncedRuntimeSources, SyncInv, TypeOK
  <2> QED BY <2>2, <2>5 DEF InPlaceNext
<1>3. \/ load[l].pc = "deps" /\ load'[l].scope = load[l].scope /\ load'[l].todo \subseteq load[l].todo
      \/ DbReadReply(l) /\ load[l].scope # All
  <2>1. CASE \E f \in Frames : Quiet(f)
    BY <2>1 DEF Quiet
  <2>2. CASE \E k \in LoadIds : DbSnapshot(k)
    BY <2>2 DEF DbSnapshot, Load, SyncInv, TypeOK
  <2>3. CASE \E k \in LoadIds, ok \in BOOLEAN : Settle(k, ok)
    BY <2>3 DEF Settle, Load, Free, SyncInv, TypeOK
  <2>4. CASE \E k \in LoadIds : DependencyLoaded(k)
    BY <2>4 DEF DependencyLoaded, Load, SyncInv, TypeOK
  <2>5. CASE \E k \in LoadIds : DbReadReply(k) /\ load[k].scope # All
    <3>1. PICK k \in LoadIds : DbReadReply(k) /\ load[k].scope # All
      BY <2>5
    <3>2. k # l => load'[l] = load[l]
      BY <3>1 DEF DbReadReply, SyncInv, TypeOK
    <3> QED BY <3>1, <3>2
  <2>6. CASE UNCHANGED load
    BY <2>6
  <2> QED BY <2>1, <2>2, <2>3, <2>4, <2>5, <2>6, StepKinds
<1> QED BY <1>1, <1>2, <1>3

LEMMA RingInvInductive == Spec => []RingInv
<1>1. SyncInv /\ PresenceInv /\ RingInv /\ [Next]_vars => RingInv'
  <2> SUFFICES ASSUME SyncInv, PresenceInv, RingInv, [Next]_vars PROVE RingInv'
    OBVIOUS
  <2>1. LoadsLinked /\ InPlace'
    BY StepLinked, StepInPlace
  <2>2. RingsRemoved'
    BY <2>1, RemovedGrows, RingStep DEF LoadsLinked, RingInv
  <2> QED BY <2>1, <2>2 DEF LoadsLinked, RingInv
<1> QED BY <1>1, InitRing, SyncInvInductive, PresenceInvInductive, PTL DEF Spec

(* Loads of sources that refer to each other, however long the ring and    *)
(* however many rings there are, wait for each other for ever only if a    *)
(* source of the ring was taken out of the array while it was loading.     *)
THEOREM OnlyRemovalDeadlocksHolds == Spec => []OnlyRemovalDeadlocks
<1>1. SyncInv /\ PresenceInv /\ RingInv => OnlyRemovalDeadlocks
  <2> SUFFICES ASSUME SyncInv, PresenceInv, RingInv, NEW S \in SUBSET LoadIds, WaitCycle(S)
               PROVE  \E l \in S : load[l].scope \in removed
    BY DEF OnlyRemovalDeadlocks
  <2>1. ASSUME NEW l \in S PROVE Blocked(l) /\ loadingSources[frame[l].scope] \in S
    <3>1. load[l].pc = "deps" /\ frame[l].pc = "awaitLoad" /\ frame[l].on \in S /\ l \in Frames
      BY DEF WaitCycle, Waiting, Frames
    <3>2. frame[l].scope \in Sources /\ Pending(frame[l].on) /\ load[frame[l].on].scope = frame[l].scope
      BY <3>1 DEF SyncInv, Registry, FramesScoped, PresenceInv, FramesDeliver
    <3>3. loadingSources[frame[l].scope] = frame[l].on
      BY <3>1, <3>2, ConstantsAssumption DEF SyncInv, Registry, SingleFlight
    <3> QED BY <3>1, <3>3 DEF Blocked
  <2>2. Ring(S)
    BY <2>1 DEF Ring, WaitCycle
  <2> QED BY <2>2 DEF RingInv, RingsRemoved
<1> QED BY <1>1, SyncInvInductive, PresenceInvInductive, RingInvInductive, PTL
-----------------------------------------------------------------------------
(* A load comes back with the sources its rows refer to. *)

(* What the dependency loop has struck off its list has been loaded, and a *)
(* request awaits a preload only while it is in it.                        *)
Fetched ==
  \A l \in LoadIds :
    load[l].pc = "deps" => \A d \in RuntimeDependencySourceIds(load[l].rows) \ load[l].todo : Delivered(d)
CallersIdle ==
  \A c \in Callers : call[c].pc # "ensuring" => frame[c].pc = "idle"

LEMMA StepFetched ==
  ASSUME SyncInv, PresenceInv, Fetched, [Next]_vars
  PROVE  Fetched'
<1> SUFFICES ASSUME NEW l \in LoadIds, load'[l].pc = "deps",
                    NEW d \in RuntimeDependencySourceIds(load'[l].rows) \ load'[l].todo, d \in Permanent
             PROVE  copies'[d] > 0
  BY DEF Fetched, Delivered
<1>1. CASE load'[l] = load[l]
  BY <1>1, CopiesStay DEF Fetched, Delivered
<1>2. CASE DependencyLoaded(l)
  <2>1. /\ load[l].pc = "deps" /\ frame[l].pc = "returned" /\ l \in Frames
        /\ load' = [load EXCEPT ![l] = Load("deps", @.scope, @.rows, @.todo \ {frame[l].scope})]
    BY <1>2 DEF DependencyLoaded, Frames
  <2>2. load'[l].rows = load[l].rows /\ load'[l].todo = load[l].todo \ {frame[l].scope}
    BY <2>1 DEF Load, SyncInv, TypeOK
  <2>3. Delivered(d)
    BY <2>1, <2>2 DEF Fetched, PresenceInv, FramesDeliver
  <2> QED BY <2>3, CopiesStay DEF Delivered
<1>3. CASE \E k \in LoadIds : DbReadReply(k) /\ load[k].scope # All
  <2>1. PICK k \in LoadIds : DbReadReply(k) /\ load[k].scope # All
    BY <1>3
  <2>2. load' = [load EXCEPT ![k] = Load("deps", @.scope, @.rows, RuntimeDependencySourceIds(@.rows))]
    BY <2>1 DEF DbReadReply
  <2>3. k # l
    <3>1. SUFFICES ASSUME k = l PROVE FALSE
      OBVIOUS
    <3>2. load'[l].todo = RuntimeDependencySourceIds(load'[l].rows)
      BY <2>2, <3>1 DEF Load, SyncInv, TypeOK
    <3> QED BY <3>2
  <2>4. load'[l] = load[l]
    BY <2>2, <2>3 DEF SyncInv, TypeOK
  <2> QED BY <1>1, <2>4
<1>4. load'[l] = load[l] \/ DependencyLoaded(l) \/ \E k \in LoadIds : DbReadReply(k) /\ load[k].scope # All
  <2>1. CASE \E f \in Frames : Quiet(f)
    BY <2>1 DEF Quiet
  <2>2. CASE \E k \in LoadIds : DbSnapshot(k)
    BY <2>2 DEF DbSnapshot, Load, SyncInv, TypeOK
  <2>3. CASE \E k \in LoadIds, ok \in BOOLEAN : Settle(k, ok)
    BY <2>3 DEF Settle, Load, Free, SyncInv, TypeOK
  <2>4. CASE \E k \in LoadIds : DependencyLoaded(k)
    BY <2>4 DEF DependencyLoaded, SyncInv, TypeOK
  <2>5. CASE UNCHANGED load
    BY <2>5
  <2> QED BY <2>1, <2>2, <2>3, <2>4, <2>5, StepKinds
<1> QED BY <1>1, <1>2, <1>3, <1>4

LEMMA StepCallersIdle ==
  ASSUME SyncInv, PresenceInv, CallersIdle, [Next]_vars
  PROVE  CallersIdle'
<1>0. Callers \subseteq Frames /\ Callers \cap LoadIds = {}
  BY ConstantsAssumption DEF Frames
<1>1. ASSUME NEW c \in Callers, Request(c) \/ PreloadEnds(c) PROVE CallersIdle'
  <2>1. /\ call'[c].pc = "ensuring" \/ frame'[c].pc = "idle"
        /\ \A d \in Callers \ {c} : call'[d] = call[d] /\ frame'[d] = frame[d]
    <3>1. CASE PreloadEnds(c)
      BY <1>0, <3>1 DEF PreloadEnds, SyncInv, TypeOK, Idle
    <3>2. CASE Request(c)
      <4>1. call'[c].pc = "ensuring" /\ \A d \in Callers \ {c} : call'[d] = call[d]
        BY <3>2 DEF Request, SyncInv, TypeOK
      <4> QED BY <1>0, <3>2, <4>1, RequestQuiet DEF Quiet
    <3> QED BY <1>1, <3>1, <3>2
  <2> QED BY <2>1 DEF CallersIdle
<1>2. ASSUME NEW c \in Callers,
             Authorized(c) \/ CreateCommits(c) \/ CreateReply(c) \/ DeleteCommits(c) \/ DeleteReply(c)
      PROVE  CallersIdle'
  <2>1. UNCHANGED frame
    BY <1>2 DEF Authorized, CreateCommits, CreateReply, DeleteCommits, DeleteReply, syncVars
  <2>2. call[c].pc # "ensuring" /\ \A d \in Callers \ {c} : call'[d] = call[d]
    BY <1>2 DEF Authorized, CreateCommits, CreateReply, DeleteCommits, DeleteReply, SyncInv, TypeOK
  <2> QED BY <2>1, <2>2 DEF CallersIdle
<1>3. ASSUME UNCHANGED call, \A c \in Callers : frame[c].pc = "idle" => frame'[c].pc = "idle" PROVE CallersIdle'
  BY <1>3 DEF CallersIdle
<1>4. ASSUME NEW l \in LoadIds, LoadStep(l) PROVE CallersIdle'
  <2>1. UNCHANGED call
    BY <1>4 DEF LoadStep, DbSnapshot, DbReadReply, DbReadFails, NextDependency, DependencyLoaded, LoadSettles
  <2>2. ASSUME NEW c \in Callers, frame[c].pc = "idle" PROVE frame'[c].pc = "idle"
    <3>1. CASE DbSnapshot(l) \/ (DbReadReply(l) /\ load[l].scope # All) \/ DependencyLoaded(l)
      BY <1>0, <2>2, <3>1 DEF DbSnapshot, DbReadReply, DependencyLoaded, SyncInv, TypeOK
    <3>2. CASE NextDependency(l)
      BY <1>0, <2>2, <3>2, NextDependencyQuiet DEF Quiet
    <3>3. CASE \E ok \in BOOLEAN : Settle(l, ok)
      <4>1. frame[c].on = None
        BY <1>0, <2>2 DEF PresenceInv, FramesDeliver
      <4>2. frame'[c] = frame[c]
        BY <1>0, <3>3, <4>1, ConstantsAssumption DEF Settle, Wake
      <4> QED BY <2>2, <4>2
    <3> QED BY <1>4, <3>1, <3>2, <3>3 DEF LoadStep, DbReadReply, DbReadFails, LoadSettles
  <2> QED BY <1>3, <2>1, <2>2
<1>5. ASSUME NEW f \in Frames, ResumeAfterFull(f) PROVE CallersIdle'
  <2>1. UNCHANGED call /\ frame[f].pc = "recheck"
    BY <1>5 DEF ResumeAfterFull
  <2> QED BY <1>0, <1>3, <1>5, <2>1, ResumeQuiet DEF Quiet
<1>6. ASSUME UNCHANGED vars PROVE CallersIdle'
  BY <1>6 DEF vars, syncVars, CallersIdle
<1> QED BY <1>1, <1>2, <1>4, <1>5, <1>6 DEF Next, Finished, HandlerStep

(* Only the end of the load a request awaits makes its preload return. *)
LEMMA WhoReturns ==
  ASSUME SyncInv, PresenceInv, CallersIdle, Fetched, [Next]_vars, NEW c \in Callers,
         frame[c].pc = "awaitLoad", frame'[c].pc = "returned"
  PROVE  LoadSettles(frame[c].on) /\ load[frame[c].on].todo = {} /\ frame[c].on \in LoadIds
<1> DEFINE l == frame[c].on
<1>0. c \in Frames /\ c \notin LoadIds /\ l \in LoadIds /\ load[l].scope # All /\ call[c].pc = "ensuring"
  BY ConstantsAssumption DEF Frames, SyncInv, Registry, FramesScoped, PresenceInv, FramesDeliver, CallersIdle
<1>1. ASSUME NEW f \in Frames, \A g \in Frames \ {f} : frame'[g] = frame[g], f # c PROVE FALSE
  BY <1>0, <1>1
<1>2. ASSUME NEW d \in Callers, Request(d) \/ HandlerStep(d) PROVE FALSE
  <2>1. CASE Request(d)
    <3>1. d # c /\ d \in Frames
      BY <1>0, <2>1 DEF Request, Frames
    <3> QED BY <1>1, <2>1, <3>1, RequestQuiet DEF Quiet
  <2>2. CASE PreloadEnds(d)
    <3>1. d # c /\ d \in Frames /\ frame' = [frame EXCEPT ![d] = Idle]
      BY <2>2 DEF PreloadEnds, Frames
    <3> QED BY <1>1, <3>1 DEF SyncInv, TypeOK
  <2>3. CASE ~Request(d) /\ ~PreloadEnds(d)
    BY <1>2, <2>3 DEF HandlerStep, Authorized, CreateCommits, CreateReply, DeleteCommits, DeleteReply, syncVars
  <2> QED BY <2>1, <2>2, <2>3
<1>3. ASSUME NEW f \in Frames, ResumeAfterFull(f) PROVE FALSE
  <2>1. f # c
    BY <1>3 DEF ResumeAfterFull
  <2> QED BY <1>1, <1>3, <2>1, ResumeQuiet DEF Quiet
<1>4. ASSUME NEW k \in LoadIds, LoadStep(k) PROVE k = l /\ LoadSettles(k) /\ load[k].todo = {}
  <2>0. k \in Frames /\ k # c
    BY <1>0 DEF Frames
  <2>1. CASE DbSnapshot(k) \/ (DbReadReply(k) /\ load[k].scope # All)
    BY <2>1 DEF DbSnapshot, DbReadReply
  <2>2. CASE DependencyLoaded(k)
    <3>1. \A g \in Frames \ {k} : frame'[g] = frame[g]
      BY <2>0, <2>2 DEF DependencyLoaded, SyncInv, TypeOK
    <3> QED BY <1>1, <2>0, <3>1
  <2>3. CASE NextDependency(k)
    BY <1>1, <2>0, <2>3, NextDependencyQuiet DEF Quiet
  <2>4. ASSUME NEW ok \in BOOLEAN, Settle(k, ok) PROVE ok /\ k = l
    <3>1. frame'[c] = IF frame[c].on = k THEN Resumed(frame[c], ok) ELSE frame[c]
      BY <1>0, <2>0, <2>4 DEF Settle, Wake
    <3>2. frame[c].on = k
      BY <3>1
    <3> QED BY <3>1, <3>2 DEF Resumed
  <2>5. CASE DbReadReply(k) /\ load[k].scope = All
    BY <1>0, <2>4, <2>5 DEF DbReadReply
  <2>6. CASE DbReadFails(k)
    BY <2>4, <2>6 DEF DbReadFails
  <2>7. CASE LoadSettles(k)
    <3>1. \/ load[k].todo = {} /\ Settle(k, TRUE)
          \/ Settle(k, FALSE)
      BY <2>7 DEF LoadSettles
    <3> QED BY <2>4, <2>7, <3>1
  <2> QED BY <1>4, <2>1, <2>2, <2>3, <2>5, <2>6, <2>7 DEF LoadStep
<1>5. ASSUME UNCHANGED vars PROVE FALSE
  BY <1>5 DEF vars, syncVars
<1>6. \E k \in LoadIds : LoadStep(k)
  BY <1>2, <1>3, <1>5 DEF Next, Finished
<1> QED BY <1>4, <1>6

LEMMA WaitedForIsDelivered ==
  SyncInv /\ PresenceInv /\ Fetched /\ CallersIdle /\ [Next]_vars =>
    \A c \in Callers :
       /\ frame[c].pc = "awaitLoad" /\ frame'[c].pc = "returned"
       => \A d \in RuntimeDependencySourceIds(load[frame[c].on].rows) \cap Permanent : copies'[d] > 0
<1> SUFFICES ASSUME SyncInv, PresenceInv, Fetched, CallersIdle, [Next]_vars, NEW c \in Callers,
                    frame[c].pc = "awaitLoad", frame'[c].pc = "returned",
                    NEW d \in RuntimeDependencySourceIds(load[frame[c].on].rows) \cap Permanent
             PROVE  copies'[d] > 0
  OBVIOUS
<1>1. LoadSettles(frame[c].on) /\ load[frame[c].on].todo = {} /\ frame[c].on \in LoadIds
  BY WhoReturns
<1>2. Delivered(d)
  BY <1>1 DEF LoadSettles, Fetched
<1> QED BY <1>2, CopiesStay DEF Delivered

(* A request that waited for a load comes back with every source that the  *)
(* rows of the load refer to and that stayed in the database, down a ring  *)
(* of references too.                                                      *)
THEOREM LoadDeliversDependenciesHolds == Spec => LoadDeliversDependencies
<1>1. Init => Fetched /\ CallersIdle
  BY DEF Init, Fetched, CallersIdle, Load, Free, Idle, Frames
<1>2. SyncInv /\ PresenceInv /\ Fetched /\ CallersIdle /\ [Next]_vars => (Fetched /\ CallersIdle)'
  BY StepFetched, StepCallersIdle
<1> QED BY <1>1, <1>2, WaitedForIsDelivered, SyncInvInductive, PresenceInvInductive, PTL
        DEF Spec, LoadDeliversDependencies
-----------------------------------------------------------------------------
(* Loads put a source in place of its entry. *)

(* Only finitely many requests have arrived, and what is being created was *)
(* asked for by a POST.                                                    *)
Arrived == {c \in Callers : call[c].pc # "new"}
Creators(s) == {c \in Callers : call[c].kind = "create" /\ call[c].pc = "done" /\ call[c].scope = s}
CountInv ==
  /\ IsFiniteSet(Arrived)
  /\ \A c \in Callers : call[c].pc \in {"creating", "created"} => call[c].kind = "create"
  /\ \A s \in Sources : copies[s] <= 1 + Cardinality(Creators(s))

LEMMA FiniteCreators ==
  ASSUME IsFiniteSet(Arrived), NEW s
  PROVE  IsFiniteSet(Creators(s)) /\ Cardinality(Creators(s)) \in Nat
<1>1. Creators(s) \subseteq Arrived
  BY DEF Creators, Arrived
<1> QED BY <1>1, FS_Subset, FS_CardinalityType

(* No request that created a source is forgotten. *)
LEMMA CreatorsGrow ==
  ASSUME SyncInv, [Next]_vars, NEW s \in Sources
  PROVE  Creators(s) \subseteq Creators(s)'
<1>1. ASSUME NEW c \in Callers, Request(c) \/ HandlerStep(c)
      PROVE  call[c].pc # "done" /\ \A d \in Callers \ {c} : call'[d] = call[d]
  <2>1. CASE Request(c)
    BY <2>1 DEF Request, SyncInv, TypeOK
  <2>2. CASE HandlerStep(c)
    BY <2>2 DEF HandlerStep, PreloadEnds, Authorized, CreateCommits, CreateReply, DeleteCommits, DeleteReply,
                SyncInv, TypeOK
  <2> QED BY <1>1, <2>1, <2>2
<1>2. ASSUME NEW l \in LoadIds, LoadStep(l) PROVE UNCHANGED call
  BY <1>2 DEF LoadStep, DbSnapshot, DbReadReply, DbReadFails, NextDependency, DependencyLoaded, LoadSettles
<1>3. ASSUME NEW f \in Frames, ResumeAfterFull(f) PROVE UNCHANGED call
  BY <1>3 DEF ResumeAfterFull
<1>4. ASSUME NEW c \in Callers, Request(c) \/ HandlerStep(c) PROVE Creators(s) \subseteq Creators(s)'
  BY <1>1, <1>4 DEF Creators
<1>5. UNCHANGED call => Creators(s) \subseteq Creators(s)'
  BY DEF Creators
<1>6. UNCHANGED vars => UNCHANGED call
  BY DEF vars
<1> QED BY <1>2, <1>3, <1>4, <1>5, <1>6 DEF Next, Finished

LEMMA StepArrived ==
  ASSUME SyncInv, CountInv, [Next]_vars
  PROVE  /\ IsFiniteSet(Arrived')
         /\ \A c \in Callers : call'[c].pc \in {"creating", "created"} => call'[c].kind = "create"
<1> DEFINE Kinds == \A c \in Callers : call'[c].pc \in {"creating", "created"} => call'[c].kind = "create"
<1>1. ASSUME NEW c \in Callers, Request(c) \/ HandlerStep(c) PROVE IsFiniteSet(Arrived') /\ Kinds
  <2>1. /\ \A d \in Callers \ {c} : call'[d] = call[d]
        /\ call'[c].pc \in {"creating", "created"} => call'[c].kind = "create"
    <3>1. CASE Request(c)
      BY <3>1 DEF Request, SyncInv, TypeOK
    <3>2. CASE PreloadEnds(c)
      BY <3>2 DEF PreloadEnds, SyncInv, TypeOK, CallRecords
    <3>3. CASE Authorized(c)
      BY <3>3 DEF Authorized, SyncInv, TypeOK, CallRecords
    <3>4. CASE CreateCommits(c)
      BY <3>4 DEF CreateCommits, SyncInv, TypeOK, CallRecords, CountInv
    <3>5. CASE CreateReply(c) \/ DeleteCommits(c) \/ DeleteReply(c)
      BY <3>5 DEF CreateReply, DeleteCommits, DeleteReply, SyncInv, TypeOK, CallRecords
    <3> QED BY <1>1, <3>1, <3>2, <3>3, <3>4, <3>5 DEF HandlerStep
  <2>2. Arrived' \subseteq Arrived \cup {c}
    BY <2>1 DEF Arrived
  <2>3. IsFiniteSet(Arrived \cup {c})
    BY FS_AddElement DEF CountInv
  <2>4. IsFiniteSet(Arrived')
    BY <2>2, <2>3, FS_Subset
  <2> QED BY <2>1, <2>4 DEF CountInv
<1>2. ASSUME UNCHANGED call PROVE IsFiniteSet(Arrived') /\ Kinds
  <2>1. Arrived' = Arrived
    BY <1>2 DEF Arrived
  <2> QED BY <1>2, <2>1 DEF CountInv
<1>3. ASSUME NEW l \in LoadIds, LoadStep(l) PROVE UNCHANGED call
  BY <1>3 DEF LoadStep, DbSnapshot, DbReadReply, DbReadFails, NextDependency, DependencyLoaded, LoadSettles
<1>4. ASSUME NEW f \in Frames, ResumeAfterFull(f) PROVE UNCHANGED call
  BY <1>4 DEF ResumeAfterFull
<1>5. UNCHANGED vars => UNCHANGED call
  BY DEF vars
<1> HIDE DEF Kinds
<1>6. IsFiniteSet(Arrived') /\ Kinds
  BY <1>1, <1>2, <1>3, <1>4, <1>5 DEF Next, Finished
<1> QED BY <1>6 DEF Kinds

(* Only the reply to a POST adds an entry to those a source has. *)
LEMMA WhoAdds ==
  ASSUME SyncInv, [Next]_vars, NEW s \in Sources
  PROVE  copies'[s] <= copies[s] \/ copies'[s] = 1 \/ \E c \in Callers : CreateReply(c) /\ call[c].scope = s
<1>0. copies \in [Sources -> Nat] /\ copies[s] \in Nat
  BY DEF SyncInv, TypeOK
<1>1. ASSUME NEW l \in LoadIds, DbReadReply(l) PROVE copies'[s] <= copies[s] \/ copies'[s] = 1
  BY <1>0, <1>1 DEF DbReadReply, ReplaceSyncedRuntimeSources
<1>2. ASSUME NEW c \in Callers, DeleteReply(c) PROVE copies'[s] <= copies[s]
  BY <1>0, <1>2 DEF DeleteReply
<1>3. ASSUME NEW c \in Callers, CreateReply(c), call[c].scope # s PROVE copies'[s] <= copies[s]
  BY <1>0, <1>3 DEF CreateReply
<1>4. UNCHANGED copies => copies'[s] <= copies[s]
  BY <1>0
<1>5. ASSUME NEW k \in LoadIds, LoadStep(k), ~DbReadReply(k) PROVE UNCHANGED copies
  BY <1>5 DEF LoadStep, DbSnapshot, DbReadFails, NextDependency, DependencyLoaded, LoadSettles
<1>6. ASSUME NEW c \in Callers, Request(c) \/ HandlerStep(c), ~DeleteReply(c), ~CreateReply(c)
      PROVE  UNCHANGED copies
  BY <1>6 DEF HandlerStep, Request, PreloadEnds, Authorized, CreateCommits, DeleteCommits, syncVars
<1>7. ASSUME NEW f \in Frames, ResumeAfterFull(f) PROVE UNCHANGED copies
  BY <1>7 DEF ResumeAfterFull
<1>8. UNCHANGED vars => UNCHANGED copies
  BY DEF vars, syncVars
<1>9. CASE \E l \in LoadIds : LoadStep(l)
  BY <1>1, <1>4, <1>5, <1>9
<1>10. CASE \E c \in Callers : Request(c) \/ HandlerStep(c)
  BY <1>2, <1>3, <1>4, <1>6, <1>10
<1>11. CASE \E f \in Frames : ResumeAfterFull(f)
  BY <1>4, <1>7, <1>11
<1>12. CASE UNCHANGED vars
  BY <1>4, <1>8, <1>12
<1> QED BY <1>9, <1>10, <1>11, <1>12 DEF Next, Finished

LEMMA StepCount ==
  ASSUME SyncInv, CountInv, [Next]_vars
  PROVE  CountInv'
<1>1. /\ IsFiniteSet(Arrived')
      /\ \A c \in Callers : call'[c].pc \in {"creating", "created"} => call'[c].kind = "create"
  BY StepArrived
<1>2. ASSUME NEW s \in Sources PROVE copies'[s] <= 1 + Cardinality(Creators(s)')
  <2>1. IsFiniteSet(Creators(s)) /\ Cardinality(Creators(s)) \in Nat
    BY FiniteCreators DEF CountInv
  <2>2. IsFiniteSet(Creators(s)') /\ Cardinality(Creators(s)') \in Nat
    <3>1. Creators(s)' \subseteq Arrived'
      BY DEF Creators, Arrived
    <3> QED BY <1>1, <3>1, FS_Subset, FS_CardinalityType
  <2>3. Creators(s) \subseteq Creators(s)'
    BY CreatorsGrow
  <2>4. Cardinality(Creators(s)) <= Cardinality(Creators(s)')
    BY <2>2, <2>3, FS_Subset
  <2>5. copies[s] \in Nat /\ copies[s] <= 1 + Cardinality(Creators(s)) /\ copies'[s] \in Nat
    BY StepRegistry DEF SyncInv, TypeOK, CountInv
  <2>6. CASE copies'[s] <= copies[s] \/ copies'[s] = 1
    BY <2>1, <2>2, <2>4, <2>5, <2>6
  <2>7. CASE \E c \in Callers : CreateReply(c) /\ call[c].scope = s
    <3>1. PICK c \in Callers : CreateReply(c) /\ call[c].scope = s
      BY <2>7
    <3>2. call[c].pc = "created" /\ call[c].kind = "create" /\ copies'[s] = copies[s] + 1
      BY <3>1 DEF CreateReply, CountInv, SyncInv, TypeOK
    <3>3. call'[c].pc = "done" /\ call'[c].kind = "create" /\ call'[c].scope = s
      BY <3>1, <3>2 DEF CreateReply, SyncInv, TypeOK, CallRecords
    <3>4. c \notin Creators(s) /\ Creators(s) \cup {c} \subseteq Creators(s)'
      BY <2>3, <3>2, <3>3 DEF Creators
    <3>5. Cardinality(Creators(s) \cup {c}) = Cardinality(Creators(s)) + 1
      BY <2>1, <3>4, FS_AddElement
    <3>6. Cardinality(Creators(s) \cup {c}) <= Cardinality(Creators(s)')
      BY <2>2, <3>4, FS_Subset
    <3> QED BY <2>1, <2>2, <2>5, <3>2, <3>5, <3>6
  <2> QED BY <2>6, <2>7, WhoAdds
<1> QED BY <1>1, <1>2 DEF CountInv

(* An id is in the array twice only because of the POSTs that created it:  *)
(* a load puts the row it read in place of the entry the source has.       *)
THEOREM LoadsNeverDuplicateHolds == Spec => []LoadsNeverDuplicate
<1>1. Init => CountInv
  <2> SUFFICES ASSUME Init PROVE CountInv
    OBVIOUS
  <2>1. Arrived = {} /\ \A s \in Sources : Creators(s) = {} /\ copies[s] = 0
    BY DEF Init, Arrived, Creators
  <2>2. \A c \in Callers : call[c].pc = "new"
    BY DEF Init
  <2> QED BY <2>1, <2>2, FS_EmptySet DEF CountInv
<1>2. SyncInv /\ CountInv /\ [Next]_vars => CountInv'
  BY StepCount
<1>3. CountInv => LoadsNeverDuplicate
  BY DEF CountInv, LoadsNeverDuplicate, Creators
<1> QED BY <1>1, <1>2, <1>3, SyncInvInductive, PTL DEF Spec

=============================================================================
