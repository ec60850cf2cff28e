# intraQ in TLA+

Specifications of the parts of intraQ whose correctness depends on the order in
which things happen: requests that share loads and caches in the API process,
transactions that meet on one dashboard, logins and edits that are written to a
file or a row behind what memory already says, a planner that lets a language model
call tools in any order, and the components of the web
client that load, edit, save, drop, retry and repaint.  Each module is translated
from the source and checked by TLC on small instances, and every safety property
of the passing runs is proved with TLAPS for every value of the constants.

`PROJECT.json` lists the components, the runs, the lines of the source each
definition models, the hazards and the theorems.

    tlc -workers 2 -config MCRuntimeSync.cfg MCRuntimeSync     # check one run
    tlapm RuntimeSyncProofs.tla                                # check the proofs

`A` below stands for `apps/api/src/modules`, `W` for
`apps/web/src/modules/dashboard-builder`.

## 1. The system

intraQ is a self-hosted BI product with an AI layer.  One Node process serves
the HTTP API (`apps/api`), a Vue client runs in the browser (`apps/web`), and
PostgreSQL, behind Prisma (`packages/db`), keeps what must survive a restart.
The API keeps much of its working state in arrays and maps of the process.

How things run decides what can go wrong:

- **One event loop on each side.**  Code between two `await`s is atomic.
  Concurrency is many requests, or many components of a page, interleaving at
  their awaits.  Promise continuations are microtasks: they run before the next
  request, timer or reply.
- **The database is another process.**  A statement takes effect some time
  between the moment it is sent and the moment its reply is handled.
  Transactions run under READ COMMITTED; few reads take locks.
- **Customers' databases and APIs, and the model provider, are remote**: they
  answer late, with an error, or not before a timeout.

### Inventory

| Component | State | Operations | Interacts with | Hard part | What makes it correct |
|---|---|---|---|---|---|
| Data-source runtime sync, `A/data-source/prisma-runtime-sync.ts` | the `dataSources` array of the process, `syncedDataSourceIds`, `fullyLoaded`, the promises `loading` and `loadingSources` | `ensureLoaded`, `ensureSourceLoaded` (recursive over references between sources), `replaceSyncedRuntimeSources` | every data-source route awaits it; POST and DELETE change the same array | loads that wait for each other; loads that replace rows while routes add and remove them | one load per scope; a preloaded source is there; no request waits for ever |
| Live SQL engine, `A/data-source/live-sql-*.ts` | result cache (TTL, LRU), executions in flight by key | `executeLiveDataSourceSqlQuery` | charts, filters, agents; customers' databases | joining, bypassing and expiring interleave | one execution per key; bounded staleness |
| Dashboard store, `A/dashboard/prisma-store*.ts` | rows of dashboards, elements, filters, versions; a copy of elements and filters in the dashboard's row | edits, replacements, publish, version, restore, delete: one transaction each | the web client, the builder agent, several users at once | READ COMMITTED: reads before locks | the copy follows the rows; versions are numbered in order; a published version exists; replacing replaces |
| Agent threads, `A/agent-thread` | status, messages, summary of a thread | run, compact | model provider | handlers overlap while the model answers | one run at a time; a compaction forgets nothing |
| Element renderer and load queue, `W/components/useDashboardElementDataRenderer.ts`, `W/visualization/load-queue.ts` | state, chart and request number of each renderer; one queue of loads; a spinner per element | render, stop, rerun, retry, clear, reload the page | visualization data cache, canvas, expand dialog | overtaken answers, shared queue, a second mount of one element | what is shown belongs to current inputs; no slot leaks; nothing waits for nothing |
| Filter option lists, `W/components/filter-options-api.ts`, `useDashboardFilterOptionItems.ts` | session cache of promises; options and loading flag of each control | fetch a dynamic list; the three-step field chain | dashboard preview API | answers that arrive after the source changed | each list fetched once; a control shows its own options; loading ends |
| Data-source edits and API tokens, `A/data-source/foundation-data-source-handlers.ts`, `api-runtime-token.ts` | the record of a source in the array, its row, the token in the cache of the process and in the record | PUT; read, refresh and forced refresh of a token; the full load that replaces the record | runtime sync, customers' APIs | whole records are written behind memory, in any order; a load replaces the object a handler holds | an answered edit stays; a refused token is not used again |
| Codex OAuth, `A/oauth-codex` | states of logins, the chosen model, an auth file, two rows | login, import, status, PATCH of the model, restore at start | model provider, file system | a crash, a failure or another writer between file and rows | what a login that was answered brought survives; the chosen model stays |
| Visualization data cache, `W/visualization/data.ts`, `indexeddb-cache.ts` | promises in memory over answers in IndexedDB | load, refresh, clear, page reload | element renderer, chart-data endpoint | a failed, cleared or expired load and the entry of a newer one | loads are shared; answers are no older than promised; a clear forgets |
| Workspace, `W/workspace` | dashboards of the page, selection, "Unsaved", undo, flags; drafts and versions of the server | navigate, load, edit, save, publish, restore, ask the AI, star, undo, discard | dashboard API | the answer of one action over what happened since it was asked for | no edit is lost silently; no chip means saved; the page comes back |
| Access-policy cache, `A/data-source/source-access.ts` | policy with a TTL of 30 s | read | every data-source route | none: nothing calls its clear | not modelled |
| Analyzer planner and agent tool loop, `A/analyzer/analyzer-plan-agent-loop*.ts`, `A/codex-agent/codex-agent-tool-loop.ts` | stage, turn and attempt of a question; what the tools know: breakdown, eligible models, the model loaded last | route, break down, list, inspect, build, ask back; retry a request, a turn, the whole attempt | model provider, data-source array, value lookups | the model calls any tools with any arguments; a stage fails after a tool has changed the state | a plan rests on the preflight of its attempt; a result is for the model it names; requests are bounded |
| Pipelines, `A/pipeline` | graph of nodes and connections | replace the graph row by row | jobs | no transaction | not modelled (section 7) |

The remaining components (routing and security headers, authentication,
embedding, MCP, administration, jobs, the in-memory dashboard store, chart
translation, the SQL parser, the heuristics of the analyzer and the builder, user
interface, shared packages) each change one record in one synchronous step or
are pure functions over text; they are listed in `PROJECT.json` with the reason
they are left out.

## 2. Modules

| Module | Models | Extended by |
|---|---|---|
| `RuntimeSync` | the sync object, the array, the routes that create and delete sources | `MCRuntimeSync`; `RuntimeSyncProofs` |
| `LiveSqlQuery` | `executeLiveDataSourceSqlQuery`, its executions in flight and its result cache | `MCLiveSqlQuery`; `LiveSqlQueryProofs` |
| `DashboardStore` | the transactions on one dashboard, statement by statement | `MCDashboardData`; `DashboardStoreProofs` |
| `VizData` | promises in memory, IndexedDB and its transactions, requests, clear and reload | `MCVizData`, which `MCDashboardData` extends; one cfg checks it alone; `VizDataProofs` |
| `BoundedReads` | abstract: a reader is given rows no older than the bound of their key | instantiated by `VizData`; the refinement is proved in `VizDataProofs` |
| `Workspace` | routes, loads, edits and actions of the builder page | `MCWorkspace`; `WorkspaceProofs` |
| `ElementRender` | renderers, load queue, spinners, expand dialog, page reload | `MCElementRender`; `ElementRenderProofs` |
| `FilterOptions` | option cache, field chain, controls | `MCFilterOptions`; `FilterOptionsProofs` |
| `AgentThread` | runs and compactions of one thread | `MCApiProcess`; one cfg checks it alone; `ApiProcessProofs` |
| `CodexOAuth` | logins, the auth file, its row, the chosen model, restarts | `MCApiProcess`; `ApiProcessProofs` |
| `SourceRecord` | the record of one API source: edits, tokens, the full load | `MCApiProcess`; `ApiProcessProofs` |
| `AnalyzerPlan` | the two stages of the analyzer's planner, its tools, the agent tool loop, retries | `MCApiProcess`; one cfg checks it alone; `ApiProcessProofs` |

Operators whose name ends in `_Mutant` (or `DbReadFails_Retry`,
`Settle_Deaf`) are not part of the system: each is a plausible bug, used to see
that a property notices it.

### RuntimeSync

`load[l]` is one invocation of `loadDataSources`: it waits for its query
(`reading`), for the reply (`read`), and then, if its scope is one source, loops
over the sources its rows refer to (`deps`).  `frame[f]` is the `ensureLoaded` or
`ensureSourceLoaded` call a request, or a load in its dependency loop, is in;
`on` is the load whose promise it awaits.  `copies[s]` counts the entries of the
array with id `s`: the code can produce two (POST appends after a load has
already added the row), and `removeDataSource` takes out the first.  Contents of
records are left out; a PUT would change contents only.

The guard `NoMicrotask` puts continuations before events.  `DbSnapshot`, the
commit of an INSERT and the commit of a DELETE are steps of the database and
have no such guard: a row may be deleted between the snapshot of a load and its
reply.  Every read and every write may fail.  `Authorized` stands for what the
handlers await between preload and statement; its outcome (refused, found, not
found) is a choice restricted by the array.  A creation that was authorized goes on
to its statement; it cannot be answered without one.

### LiveSqlQuery

The rows of a result are abstracted to the time at which the database read
them, so that properties can speak of age.  `cache` is a function
from keys to entries, and `order` the sequence of keys in which the JavaScript
`Map` holds them, because its eviction order is its insertion order.  The end of an
execution is one step with the `finally` of its owner and the continuations of
those who joined, which no other request can get between.  Validation of the
statement, limits and the drivers are outside.

### DashboardStore

`Program(op, C)` is the sequence of statements of an operation, in the order of
`prisma-store.ts` and its helpers; `todo` is what is left of it.  A transaction
sees committed children overlaid by its own writes (`View`), waits for rows that
others wrote (`Unlocked`, `RowFree`) and makes its writes visible at `Commit`.
A child row is abstracted to the transaction that last wrote it.  `late` of a version
is history: while it was being made a version was deleted, whose number it may have
taken, or another late one was committed (`Told`).  `Abort` covers
a violated unique key or foreign key, a row that is gone, the victim of a
deadlock and Prisma's transaction timeout.  `updateDashboard` against
`updateElement` can deadlock in the model as it can in PostgreSQL (row, then
element; element, then row): `Abort` is what gets it going again.

### ElementRender

One renderer per mount; the expand dialog mounts a second one for an element
whose card is there.  `seq` is `requestSequence`; `queue`, `active` and
`running` are the module-level variables of `load-queue.ts`; `tails` are renders
that wait in `nextTick` and for their `finally`.  Clicks and the reload timer
wait for the page to have no continuation left (`Idle`); watcher flushes, being
microtasks, interleave with the others.  What a load returns is rows, nothing,
an expired token or another failure.

`inputs[r]` and `static` belong to a renderer, not to an element, because the dialog
is given a snapshot of the element (`useDashboardCanvasDialogs.ts:96-99`):
`ChangeElement` gives a new version to the card alone, `ChangeFilters`, which stands
for filters, settings and row limit, to both.  `token[e]` says whether the run and
cancel tokens of an element are 0.  When its run state is forgotten, because the
element is removed or the canvas changes, the tokens a dialog is given fall back to
0, which its watcher takes for a stop or a run (`FallBack`).

### VizData and BoundedReads

A load is a record whose `pc` is where its promise is: reading IndexedDB,
deleting an expired entry, waiting for the request, or settled.  `mem` maps a key
to the load whose promise `visualizationDataCache` holds; `queue` holds the
transactions of IndexedDB, which take effect in the order they were asked for,
and which `TransactionFails` may reject.  Keys under the policy "live" are shared
for a moment and never persisted.  The rows of an answer are abstracted to the
time at which the source read them (`at`) and the load that asked for them
(`from`).

`BoundedReads` says what a cache promises without saying how it keeps anything.
`VizData` implements it under the mapping `ReadOf` (a reader is idle, waits, was
answered or was refused according to the `pc` of its load) with the bound
`Promised(k)`, twice the TTL of the policy and the time a request may take.

### Workspace

`load` and `job` are the requests under way: loads of the workspace, and actions
(`runAction` of saving, publishing, restoring and the AI; and the favourites,
which take a revision without being an action).  A dashboard is the set of its
elements; adding or taking one away stands for every edit.  A load also adds the
elements of canvas filters that have none (`MissingElements`, from the constant
`FilterElements`), without the chip; `filled` remembers them until the page takes
the server's answer.  The values chosen in filters are left out: changing one never
raises the chip.  `rev` is
`actionRevision`, by which a load or a favourite finds out that it has been
overtaken.  `ServerSaves`, `ServerPublishes` and `ServerRestores` are the steps of
the server; a request may fail before or after them.  `safe` and `excused` are
history: the edits made while nothing under way could write over them, and
whether something happened after which the chip may be wrong.  So is `alone` of an
action: no other was under way when it was asked for.

### FilterOptions

`cache` maps the key of a dynamic source to the request whose promise it holds,
settled or not.  The field chain tries table values, then the target field or
concept lists, each a request.  `Deliver` writes what a request brought into the
control *without* comparing it with the source the control has by then, as
`fetchFieldOptions` does.

### AgentThread

`handleRunThread` up to the model call, the answer (`runThread`), its failure,
and compaction.  Messages are reduced to role and the runs whose question their
text repeats, which is what `summarizeMessages` keeps.

### CodexOAuth

One tenant; an import of `auth.json` may name none, as those of the web client do
(`anonymous`): it saves the default model and makes no connection.  A login brings a
payload of its own and writes it in four steps that
others and a crash come between: the auth file is opened, which empties it; the
text is written from its start, over what another writer may have written
meanwhile (`garbled`: the tail of a longer text stays); the row of the payload;
the row of the model.  A restore, by a status request or at the start (`Boot`),
finds the file unusable, reads the row and writes the file.  `Restart` loses
memory and requests and, as a new container does, perhaps the file.

### SourceRecord

`records` are the objects the array has held: the one of the first load and the
one the full load puts in its place.  `holds[r]` is the object a handler looked
up before it awaited something, `sent[r]` the snapshot of the whole record it
writes; snapshots under way commit in any order.  Tokens are numbers in the order
they are issued; expiry and revocation happen to any of them at any time.  A read
looks up its record and takes its first token in one step.

### AnalyzerPlan

One question.  The language model is the environment: in every turn it may answer
with text, or call any tools of the stage with any arguments, a name the source
does not have among them.  `turn`, `tries` and `retried` are the three counters of
the code: turns of `runCodexAgentToolLoop`, requests of `createResponseWithRetry`,
and the second attempt of `runAnalyzerPlanAgentLoop`.  `known` is the state of the
tools (`createAnalyzerPlanToolState`); calls that a tool refuses change nothing and
are no action.  A table stands for its id and for its name, and a call gives each
of the two or leaves it out.  A plan is the table it queries
(`resolveTableFromBuildComponent`: the first that exists of id, name and what the
actions name) and the model whose verified capability it carries
(`preflightModelKeyForBuildArgs`).  Which models are eligible, whether a request
needs the preflight, and whether a contract refuses a plan are choices.

### MCApiProcess and MCDashboardData

Components that share no variable in one run: `AgentThread`, `CodexOAuth`,
`SourceRecord` and `AnalyzerPlan` in the first, `DashboardStore` and `VizData` in
the second.  A behaviour follows one of them and the others stay as they started:
an interleaving of two could violate nothing that the steps of one do not.

## 3. What the runs show

Every passing run explores its whole state space.  A cfg says `CHECK_DEADLOCK FALSE`
only where the system may stop (users need do nothing, the requests of the instance
are finitely many, or a wait cycle the code allows).

| Run | Instance | Properties and what they say |
|---|---|---|
| `runtime_sync` | 2 sources that refer to each other, one of them created and deleted; 3 requests; at most 3 loads (one per scope; more cannot exist, which `SingleFlight` confirms) | `SingleFlight`: one load per scope, registries exact. `PreloadDelivers`: a request past its preload finds a source that was in the database all along. `FullyLoadedIsComplete`. `LoadsNeverDuplicate`. `LoadDeliversDependencies`: whoever waited for a load gets what its rows refer to. `OnlyRemovalDeadlocks`: a cycle of loads that wait for each other needs a removal during a load. `EveryRequestAnswered`, under fairness, otherwise |
| `live_sql` | 3 keys, 3 calls with or without `bypassCache`, a cache of 2, clock 0..2, TTL 1 | `SingleExecution`, `PendingRuns`, `ReadsNeverGoBack`, `StalenessBound`; `EveryCallAnswered` under fairness |
| `element_render` | an editable card and its dialog, 2 versions of inputs for each, 2 loads or stops of the card and 3 of the dialog, 1 slot | `ShownIsLatest`, `StoppedStays`, `NoOrphanWait`, `SpinnerExplained` |
| `load_queue` | 2 cards, 1 slot, 3 loads or stops each | `SlotsServed`: no slot is lost or idle and the queue is in order; `EveryRenderEnds` under fairness |
| `filter_options` | 2 controls, 2 dynamic sources, 1 field, 3 requests | `FetchedOnce`, `OwnOptions`; `LoadingEnds` under fairness |
| `dashboard_data` | store: 3 transactions of any kind, 1 element, 1 filter; cache: 1 reader, a cached and a live key, 3 loads, clock 0..3, TTL 1, one clear or reload, a map of 1 | `PublishedVersionExists`, `NumbersFollowCommits`, `PublishIsCurrent`, `MirrorLagsOnlyByRace`, `ReplacesExactly`; `LoadsAreShared`, `ClearForgets`, `StalenessIsBounded`: `VizData` implements `BoundedReads` |
| `viz_data_optional` | the cache alone, with 2 loads | `StorageIsOptional` is **violated** (section 6) |
| `workspace` | 2 dashboards, 2 elements, one of which loads add to one dashboard for a filter, 3 actions (2 at once), 2 loads, 2 edits | `CleanMeansSaved`, `EditsKept`, `AddsWhereAsked`; `WorkspaceUsable` under fairness |
| `workspace_ai_update` | 2 actions, 3 loads | `AiEditsKeepElements` is **violated** (section 6) |
| `api_process` | a thread with 3 runs and 3 compactions; 2 logins or imports, with a tenant or without, a status request, a chosen model, 2 restarts; 2 edits, 2 reads, 2 tokens and a full load; a question about 2 data models in stages of 2 turns, each request tried twice | `OneCompactionForgetsNothing`; `LoginSurvives`, `ChosenModelStays`; `EditsStay`, `RefusedStaysOut`; `GroundedPlan`, `AskedAtMost` |
| `agent_thread_overlap` | 2 runs, 1 compaction | `RunsExclusively` is **violated** (section 6) |
| `planner_named` | 2 data models, stages of 2 and 3 turns | `BuildsWhatWasNamed` is **violated** (section 6) |

`TypeOK` of `RuntimeSync` is no property of a run: it is proved (section 4).

### Bounds

- *Requests* (`Callers`, `Requests`, `Tx`, `Runs`).  The properties relate at
  most two requests of a kind; a third is there to interfere between the two.
  Each request runs once, and a repetition is another request.
- *Sources*.  Two that refer to each other are the smallest cycle, and the
  dependency relation is a constant: the proved properties hold for any.
- *`MaxTime`, `TTL`*.  The clock must pass one TTL from the end of an execution
  that itself lasts a tick: 2 with a TTL of 1 for live SQL.  In `VizData` an answer
  lives one TTL on disk and another in memory, after a request of a tick: 3.
- *`MaxLoads` of `VizData`*.  A load that is lost from the map, the one that takes
  its place, and a third beside it; one reader suffices, because a reader starts
  over without waiting for what it asked before.
- *`MaxActions`, `Loads`, `MaxLoads` of `Workspace`*.  Two actions under way at once,
  and a third that is asked for after one of them has been answered; a load that an
  action overtakes and one that overtakes the action.  With two actions the
  properties would have held without two of the exceptions they name (section 5).
  The safety properties were checked with three loads, too, a run too long to
  repeat, and are proved for any number.
- *`api_process`*.  Two writers of a file or of a row are enough to overlap, a
  status request restores beside them, two restarts lie before and after a login;
  two tokens are one that is refused and its successor.
- *`RouteTurns`, `BuildTurns`, `Attempts`, `Tables`*.  The code has 4, 12 and 3 (or
  what the environment says).  One response may call any number of tools, so that
  turns bound the number of requests but not what the tools come to know: two are
  a turn and a last one.  Two models are the eligible one and the other.
- *Children*.  One element and one filter: they are two tables read by two
  statements, and rows of one table are treated alike.
- *`MaxSeq`, `MaxInputs`*.  A load, one that overtakes it, and a stop, for the
  renderers of `load_queue` and the dialog of `element_render`; two for the card
  beside it.  Two versions of inputs are what "old" and "new" need.  `CONCURRENCY` is 1 so that
  a load waits with only two renderers.  `Reload` starts the inputs from 1 again,
  so that the page can be reloaded any number of times.
- *`Fetches`, `LoadIds`*.  Identities; when they are used up no request is sent.

### Fairness

Only what the platform or the code makes happen is fair; nobody has to send a
request, click, or change a filter.

- `RuntimeSync`: weak fairness of the steps of each load, each handler and each
  resumption: continuations run, and the database answers a statement if only
  with an error.  The snapshot of a load may be deferred, not for ever.
- `LiveSqlQuery`: weak fairness of each execution: every driver call is bounded
  by a timeout.
- `ElementRender`: weak fairness of answers (requests of the client have a
  timeout), continuations and the reload timer.
- `FilterOptions`: *strong* fairness of each request's replies, because the
  continuations of other replies, which run first, disable it again and again
  without the event loop ever forgetting it; weak fairness of continuations.
- `Workspace`: weak fairness of each load and each action: a request of a browser
  is answered or fails.  What the user does is not fair.
- `DashboardStore`, `VizData`, `AgentThread`, `CodexOAuth`, `SourceRecord` and
  `AnalyzerPlan` check safety only.

## 4. What is proved

TLAPS proves every invariant and every action property of the passing runs, and the
refinement of `BoundedReads`, for any number of sources, requests, loads, keys,
controls, renderers, elements, dashboards, transactions, actions, edits, tokens,
logins, data models, turns and retries, and for every dependency relation.

| Theorem | Module | States |
|---|---|---|
| `TypeCorrect` | `RuntimeSyncProofs` | `Spec => []TypeOK` |
| `SingleFlightHolds` | | `Spec => []SingleFlight` |
| `PreloadDeliversHolds` | | `Spec => []PreloadDelivers` |
| `FullyLoadedIsCompleteHolds` | | `Spec => []FullyLoadedIsComplete` |
| `OnlyRemovalDeadlocksHolds` | | `Spec => []OnlyRemovalDeadlocks` |
| `LoadDeliversDependenciesHolds` | | `Spec => LoadDeliversDependencies` |
| `LoadsNeverDuplicateHolds` | | `Spec => []LoadsNeverDuplicate` |
| `PendingRunsHolds` | `LiveSqlQueryProofs` | `Spec => []PendingRuns` |
| `SingleExecutionHolds` | | `Spec => []SingleExecution` |
| `StalenessBoundHolds` | | `Spec => []StalenessBound` |
| `ReadsNeverGoBackHolds` | | `Spec => []ReadsNeverGoBack` |
| `FetchedOnceHolds` | `FilterOptionsProofs` | `Spec => []FetchedOnce` |
| `OwnOptionsHolds` | | `Spec => []OwnOptions` |
| `VizInvariant` | `VizDataProofs` | `VizSpec => []VizInv` |
| `VizDataKeepsItsBound` | | `VizSpec => StalenessIsBounded`, which is `Reads!Spec` of `BoundedReads` |
| `ClearIsFinal` | | `VizSpec => []ClearForgets` |
| `LoadsStayShared` | | `VizSpec => []LoadsAreShared` |
| `SlotsServedHolds` | `ElementRenderProofs` | `Spec => []SlotsServed` |
| `ShownIsLatestHolds` | | `Spec => []ShownIsLatest` |
| `NoOrphanWaitHolds` | | `Spec => []NoOrphanWait` |
| `SpinnerExplainedHolds` | | `Spec => []SpinnerExplained` |
| `StoppedStaysHolds` | | `Spec => StoppedStays` |
| `StoreInvariant` | `DashboardStoreProofs` | `Spec => []Base` |
| `PublishedVersionExistsHolds` | | `Spec => []PublishedVersionExists` |
| `NumbersFollowCommitsHolds` | | `Spec => []NumbersFollowCommits` |
| `PublishIsCurrentHolds` | | `Spec => []PublishIsCurrent` |
| `MirrorLagsOnlyByRaceHolds` | | `Spec => []MirrorLagsOnlyByRace` |
| `ReplacesExactlyHolds` | | `Spec => ReplacesExactly` |
| `EditsKeptHolds` | `WorkspaceProofs` | `Spec => EditsKept` |
| `AddsWhereAskedHolds` | | `Spec => AddsWhereAsked` |
| `CleanMeansSavedHolds` | | `Spec => []CleanMeansSaved` |
| `OneCompactionForgetsNothingHolds` | `ApiProcessProofs` | `ThreadSpec => []OneCompactionForgetsNothing` |
| `LoginSurvivesHolds` | | `OAuthSpec => []LoginSurvives` |
| `ChosenModelStaysHolds` | | `OAuthSpec => []ChosenModelStays` |
| `RefusedStaysOutHolds` | | `RecordSpec => []RefusedStaysOut` |
| `EditsStayHolds` | | `RecordSpec => []EditsStay` |
| `GroundedPlanHolds` | | `PlanSpec => []GroundedPlan` |
| `AskedAtMostHolds` | | `PlanSpec => []AskedAtMost` |

The assumptions are those of the modules (`ConstantsAssumption`,
`LiveSqlAssumption`, `FilterOptionsAssumption`, `VizDataAssumption`,
`ElementRenderAssumption`, `DashboardStoreAssumption`, `WorkspaceAssumption`,
`AgentThreadAssumption`, `CodexOAuthAssumption`, `SourceRecordAssumption`,
`AnalyzerPlanAssumption`).  They say that bounds are numbers, that identities of
different kinds and the marks for "nothing" differ, that the constants which
are functions (dependencies, the element of a renderer, the TTL of a policy) name
what they should, that the sources and the keys persisted on disk are finitely many,
and that no TTL of a policy exceeds the age IndexedDB keeps.  TLC evaluates them in the
runs of modules that extend theirs.

**Runtime sync, registry.**  `SingleFlight` is not inductive by itself: a frame
that resumes may start a scoped load, and a state in which that frame has no
source as its scope breaks the registry.  `SyncInv == TypeOK /\ Registry /\
CallsScoped` adds that a frame which is about to look for a scoped load names a
source (`FramesScoped`), and that POST and DELETE name a source that requests may
delete (`CallsScoped`).  The lemmas follow the code: one for `StartLoad`,
`JoinOrStart`, each of the two `ensure` functions and `Settle`, from which one
step per action of `Next` follows.

**Runtime sync, presence.**  `PreloadDelivers` needs to know *why* a frame may
return.  `PresenceInv` says: permanent rows stay in the database; a load that has
its snapshot holds every permanent source in its scope, and one in its dependency
loop has put its source into the array (`LoadsDeliver`); a frame waits for a load
in flight of its own scope and has its source in the array when it returns
(`FramesDeliver`); the frame of a request is about the source the request names
(`CallsDeliver`).  The argument rests on two lemmas: a permanent row is in every
snapshot (`RowsStay`), and no step takes the last entry of a permanent source out
of the array (`CopiesStay`), because `replaceSyncedRuntimeSources` removes only
ids its query did not return and `removeDataSource` only what a request may
delete.

**Runtime sync, rings.**  Loads that wait for each other are a set of loads of any
size, each of which waits for one in the set.  `RingInv` says that the source of a
load which has dependencies left is in the array and found ready by whoever asks
for it, unless it was taken out (`InPlace`).  So a load that looks for a source of
the set, which is how the ring would be closed, finds it ready and does not wait;
or the source was removed, which is what `OnlyRemovalDeadlocks` says.  It needs the
dependency loop of a load to be of a scoped one and to ask for what is left of its
list (`ReadInScope`, `FramesOfLoads`).

**Runtime sync, counts.**  `LoadsNeverDuplicate` counts entries.  `CountInv` bounds
them by one more than the requests that have created the source; a load replaces all
entries of an id with one, and every creation is of a request of its own.  That the
creators can be counted at all is a conjunct: at any time only finitely many requests
have arrived.  For `LoadDeliversDependencies`, `Fetched` says that what the
dependency loop has struck off its list was delivered.

**Live SQL.**  `ExecInv` adds to `PendingRuns` that, as long as no request of a
key has bypassed the cache, a running execution is the one `pending` holds
(`RegisteredExecution`).  Without it the invariant is lost at `Settle`, which
removes whatever its key holds.  For the bounds on age, `RowInv` says where rows come
from: an entry from an execution that read them after it was called and ended a TTL
before the entry expires (`EntriesHaveSource`), a joined answer from an execution
that runs (`JoinedRuns`).  `OrderInv` says why answers of a key do not go back
without a bypassing request: an execution runs only while the key has no entry, was
called after all rows answered so far were read, and an entry is the youngest answer
(`RunsWithoutEntry`, `RunsAfterAnswers`, `EntryIsYoungest`).

**Filter options.**  `FilterInv`: the key of a request that is under way, or has
brought options, holds it, and what a key holds is a request for it (`CacheHolds`);
what a control waits for is about the source it has, unless that was changed while it
waited (`AwaitsOwn`).

**Visualization cache.**  `VizInv` bounds the age of an answer in each of three
places: between the source's read and the moment it is persisted, on disk, and in
memory (`AgeOfLoads`, `AgeOfEntries`); and it says that no two transactions in the
queue of IndexedDB are for the same load, so that each finds the load still waiting
(`Awaited`).  The proof of the refinement has one step per action of `VizData`, which
is a step of `BoundedReads` under the mapping `ReadOf` or changes nothing in it.
`GoneInv` follows the answers that were known when the caches were cleared: while
one of them is on disk a clearing is still in the queue, and a write of one is
followed by one, because IndexedDB takes transactions in the order they were asked
for.

**Renderers and queue.**  `Core`: a render is numbered when it begins, and its load
is in one place at a time (queue, running, answered), so that no two loads have the
same number and a slot is freed once; the queue is sorted, the running loads are as
many as the counter says, and none waits while a slot is free.  `Watch` is what the
properties need of the renderers: a load with the current number asks for what
its renderer is given now (`Asked`); none follows a stop (`NothingAfterStop`); a renderer that waits has
a load or a continuation to come, or lost its waiting load with the queue
(`Explained`); and a spinner has a renderer that will announce its end, or a dialog
that was closed or lost its load (`SpinnerEnds`).

**Dashboard store.**  What a transaction has still to do is a suffix of the program
of its operation.  `Ordered` lists what the proofs need of the order of statements;
it is shown of every program and of every suffix of a list that has it, and `Base`
carries it (`UnderWay`) with the locks: who has written the row has it locked
(`RowWriter`).  On it rest four invariants.  `PublicationInv`: who is about to publish
a version keeps others from deleting it, and who has deleted one has cleared the
column or found another in it.  `NumberInv`: the number a transaction will take is
free, or will be refused by the unique key, which is what orders the numbers.
`MirrorInv` and `SnapshotInv`: what was read is what is there, but for what others
changed since.  `ReplaceInv`: a table is replaced under the lock of the row, and what
was there is found, deleted and made anew.

**Workspace.**  `SafeInv`: copies under way, in a save, an action of the AI or a
favourite, agree with the page on the edits that are safe, and no load that is still
current is in flight while there are any.  `AloneInv`: the latest action, if it began
alone, is the only one, keeps `isSaving` and with it the selected dashboard.
`ChipInv`: unless excused, at most one action is under way, on the dashboard that is
selected, and the page without the chip, the clean undo and what an action was
answered are `Kept`: they hold all that the server keeps, and nothing else but what
loads have added (`filled`).  An undo brings back a page from before a load, so what
was added before is remembered as long as there is one to bring back.

**Agent threads.**  An answered question is a message of the user until the first
compaction after it, which puts it into the summary (`AnsweredStay`).

**Codex OAuth.**  `LoginSurvives` speaks of the last login that was answered and of
those that have written the file since (`Survivors`).  `FileInv` says why nothing else
gets into the file or the row: logins that are in the file at the same time have
overlapped (`LoginsApart`), and one that has not is alone with the file from when it
opens it (`LoginsAlone`); whoever persists has written the file (`WrittenTried`); and,
where none of them overlapped (`Calm`), what a restore carries is the payload of one of
them, because it comes from the row (`PayloadSurvives`).  A later login that fails or
crashes is covered: before it writes it takes nothing away but the file's text, which
the restore puts back, and afterwards it is one of the survivors.  `ChoiceInv`: until
the process ends, the connection has the model that was chosen and every login of the
tenant carries it; an anonymous import carries the default.

**Source record.**  `EditInv` says where an edit is that did not race the full load:
in the one record there is before it, in what the load has read, in the record after
it; and, once writes have settled, that the row has the record or that the one write
under way brings it there (`Committed`).  `RefusedStaysOut` speaks of the cache,
which is refilled from the record.  `RefusedInv` says that, until the full load
replaces the record, there is one record and every handler holds it (`OneRecord`);
that no token is anywhere which the API has not issued (`OnlyIssued`), so that a
fresh one cannot have been replaced before; and that a token which was replaced is
in neither of the two places (`NoneLeft`).  The step that replaces a token puts the
fresh one into both at once; the step that fills the cache takes what `NoneLeft`
says of the record.

**Analyzer planner.**  No single tool checks that a plan is grounded:
`build_component` only asks whether some model was loaded, `get_schema` whether the
preflight is missing, and the planner starts to build as soon as there is a
breakdown, even one whose preflight threw.  `GroundedInv` adds to the property that
nothing is loaded while routing (`Staged`), so that whatever is loaded was loaded
under the breakdown the attempt ended up with, and that a loaded model of a request
that needs the preflight has one behind it (`LoadedAfterPreflight`).  What a plan
queries then follows from the order in which id and name are looked up
(`PlanVerified`): both lookups take the first of the two that is eligible.

`AskedAtMost` counts requests.  `BudgetInv` gives each of them a place of its own by
attempt, stage, turn and try: what was asked is at most what the places before the
present one allow.

Only model-checked: `EveryRequestAnswered`, `EveryCallAnswered`, `LoadingEnds`,
`EveryRenderEnds` and `WorkspaceUsable`, because liveness under fairness, and the
`ENABLED` in it, are out of reach of the prover; and the four properties that are
violated.

## 5. What the models taught

Behaviour that a reader of the code may not expect, found while stating the
properties.  The properties are stated so as to hold, with the exception named in
them; what contradicts the repository's own words is in section 6.

- *Runtime sync.*  If a source is deleted while a load of it waits for another
  load that refers back to it, the two loads wait for each other and every later
  request for either source hangs until a restart (`OnlyRemovalDeadlocks` says
  that nothing else does this).  A source is ready as soon as it is in the array,
  before what it refers to is.  A load writes rows it read before a deletion back
  into the array.
- *Live SQL.*  After one bypassing request several executions of one statement
  may run at once and older rows may replace newer ones in the cache.
- *Dashboard store.*  Of two `replaceFilters` that overlap the second does not
  delete what the first inserted: both sets stay.  The `layout` that
  `updateDashboard` writes is overwritten by `syncDraftState` of the same
  transaction.  The copy in the row misses an element whose creation commits
  between the read and the write of another transaction's copy, until the next
  edit.  A version number is given again after its version was deleted.
- *Renderer.*  Closing the expand dialog while it loads leaves the spinner of the
  element on; the next click stops what is not running.  A dialog that is open
  when the canvas shows another dashboard says "Loading..." for ever if its load
  was waiting in the queue.  An open dialog does not follow its element: it goes on
  showing the configuration it was opened with, and stays when the element is
  removed; a run token that then falls back to 0 makes it load once more, a cancel
  token stops it.  After a change to a static kind the answer to the load before still
  paints.  The marker that limits reloads to one is removed by any
  element that renders, so that an element whose token stays expired next to one
  that renders reloads the page without end.
- *Filter options.*  A control whose source changed while it waited may end up
  with the options of the former source.  A list whose body cannot be read stays
  rejected for the session, and its control stays loading.

- *Visualization cache.*  Rows found on disk just before they expire get a whole
  new TTL in memory: under "Cache for 15 minutes" a chart may show rows half an
  hour old.  A load that fails, or that is pushed out of the map, takes the entry
  of a newer load of its key along; the next element then starts another.
- *Workspace.*  A star that cannot be saved puts back the whole list, edits made
  meanwhile included.  The answer of a save switches "Unsaved" off for whatever
  dashboard is selected by then, and undo restores the chip of the dashboard it
  was recorded for.  A load adds an element for every canvas filter that has none:
  the page then differs from the server without "Unsaved".  So does a page on which
  the value of a filter was changed.  A load that answers while an action is under way is dropped
  and never repeated: the address shows one dashboard, the page another.
- *Edits of a source.*  A PUT that looked its record up before a full load
  replaced it changes an object nobody reads any more: the row has the edit, the
  process does not, and the next write of the record takes it out of the row, too.
  Two writes that overlap may leave the older snapshot in the row.  An edit whose
  write failed stays in memory and goes out with the next one.
- *API tokens.*  A full load may bring back a token that was refused and
  replaced; the next read is refused once more and replaces it again.
- *Codex OAuth.*  A login after a restart saves the default model over the one that
  was chosen; so does, in the same process, every import of `auth.json` from the web
  client, which names no tenant (`routes.ts:171`, `:254`).  A login that is lost
  between the file and the row leaves the newer payload in the file and the older in
  the row until the next login: a usable file is not compared with the row
  (`codex-oauth-persistence.ts:45-47`).  A status request that finds the file emptied by a login restores the
  older payload, perhaps after the login wrote the newer one.  Two logins at once
  may leave one payload in the file and the other in the row.  `disconnect` sets a
  flag in memory that nothing reads.  The model in `codex.oauth.model` is shown by
  the status and used by nothing: the server starts the agent without a
  `codexModelResolver` (`apps/api/src/server.ts:75-79`).
- *Analyzer planner.*  When the lookup behind `break_down_analyzer_request` throws,
  routing has failed, but the breakdown is there and the planner goes on to build;
  only the check in `get_schema` makes up for the missing preflight.  A call of
  `build_component` that names an eligible model by id and another one by name is
  accepted (one eligible of the two is enough), where `build_multi_component` asks
  for both; and results under `components` instead of `results` are built without
  being filled in or verified (`A/analyzer/analyzer-plan-agent-loop-multi-build.ts:14`),
  although `readMultiComponentResultArgs` takes either.  `GroundedPlan` names these
  exceptions.  When the trusted retrieval candidate is not among the eligible
  models, whose number the limit of the breakdown cuts off, no call of `get_schema`
  is accepted any more and the question ends in a fallback.

Seen while reading and left out of the models: `executeSqlModelTableQuery` does not
pass `bypassCache` on; the pipeline store replaces a graph without a transaction,
and its copies share the identifiers of nodes; the agent's fallback after a failed
turn may redo what a tool of that turn has done.

Some exceptions came to light only when the properties were to be proved, because
the instances were too small to reach them or an invariant would not hold; the
properties and the instances have been corrected.

- *Live SQL.*  Rows may be as old as the TTL and one execution, not younger: with
  a TTL of 0 an execution that ends in the tick in which a request joined it still
  answers that request.
- *Version numbers.*  With four transactions, the number of a deleted version is taken
  by one that was being made, and a third, also under way, commits between them: not
  only the first is out of order.  Lateness is passed on.
- *Renderers.*  A dialog whose waiting refresh was cleared with the queue keeps its
  mark even when its inputs change again, to a static kind.
- *Workspace, three actions.*  The answer of a save for one dashboard switches the
  chip off over edits of another; publishing that one without the chip saves nothing
  and puts the server's draft in the place of the edits.  And when two actions overlap,
  the end of the first frees `isSaving` under the second; a load is then accepted, and
  the AI's new element goes to whatever dashboard is selected.

## 6. Findings

`agent_thread_overlap`: the routes refuse a run with "Thread is already running"
(`A/agent-thread/routes.ts:109-110`) and a compaction with "Cannot compact a
running thread" (`A/agent-thread/store.ts:107-108`), but the status is set to
running only after the model has answered, and back to idle in the same
synchronous step (`store.ts:90-95`).  TLC shows two runs of one thread in flight.

`viz_data_optional`: "IndexedDB is an optional acceleration layer.  Rendering should
continue if browser storage rejects a value." (`W/visualization/data.ts:70`, `:136`)
is true of the writes.  The read (`data.ts:80`) is awaited without a handler: when
its transaction fails, the load fails with it and no request is sent.

`workspace_ai_update`: "Selected component AI edits must not create, remove, or
reorder dashboard elements." (`W/workspace/dashboard-element-selection.ts:16`).  The
assertion compares the dashboard the AI was asked about with the plan's version of
it, and the page then takes that version
(`W/workspace/use-dashboard-element-actions.ts:80`, `:94`): an element the user
removed while the AI was planning comes back, and one the user added goes.  The
other AI action takes the dashboard as it is by then (`:56`).

`planner_named`: "Each result must target one exact model id or name already
inspected with get_schema." (`A/analyzer/analyzer-plan-agent-loop-build-tools.ts:285`).
What a result leaves out is filled in from the last `get_schema`
(`analyzer-plan-agent-loop-recovery.ts:212`), and the id is looked up before the name
(`analyzer-plan-build-component-actions.ts:1103`).  TLC shows a result that names one
model by its name, after another was loaded last, and is planned for the other; if
both have the fields of the plan, nothing refuses it.

## 7. Not modelled, and why

Text, layout, SQL generation and chart shaping are pure and large; their
instances have no small interesting set.  Password hashing, session cookies and
token signatures are cryptography.  Stores that change one record in one
synchronous step have no interleaving.  What the analyzer and the builder, the
largest part of the API, put into the protocol of `AnalyzerPlan` are heuristics over
natural language and column names: which models match, which fields and filters a
plan has, how results are told.  The tools of the builder, which write dashboards
from within the tool loop, are left out with it.  The pipeline store
writes a graph row by row and promises nothing about two writers.  The policy cache
is a value with a TTL that nothing clears.

In the modelled components: the routes of single source tables, paging and
templates of API sources; the creation, duplication, import and deletion of
dashboards (in the store, transactions on rows nobody sees yet; in the page, a
changed list and a `Navigate`), the prompt that is submitted after a creation;
categories, settings and access scopes; the values chosen in filters; the `layout` of a published
snapshot, which is taken from the row's draft; the drivers behind live SQL; messages to an
embedding page; `disconnect` and the API-key route of the provider login.

## 8. Plan

Done: the modules above.  One run per question; a component that shares no state
with others and has a small state space goes into `api_process`.

Of the properties of the passing runs, safety is proved; liveness stays with TLC.
What is left to prove is what no run states yet: abstract specifications, such as
that of `BoundedReads`, of what the other components promise (a store whose
publications are atomic, a queue that serves by priority), and their refinement.

What is left to model: the routes of single source tables beside PUT, the
creation and deletion of dashboards in store and page, and the builder's tools, which
write from within the tool loop.
