------------------------------ MODULE Workspace ------------------------------
(* The dashboard workspace of the web application                          *)
(* (use-dashboard-builder-workspace.ts and the composables it joins): the  *)
(* dashboards the page holds, the user's edits, and what is under way at   *)
(* the same time: loads of the workspace, started by a change of route,    *)
(* and actions: saving, publishing, restoring, the AI and the favourites.  *)
EXTENDS Naturals, FiniteSets

CONSTANTS Dashboards, Elements,
          FilterElements,   \* of each, the elements that show its filters of the canvas
          Routes,      \* [dash : Dashboards or None, edit : BOOLEAN]
          FirstRoute,  \* the one the page is opened at
          Jobs,        \* at most so many actions are under way at once
          Loads,       \* and so many loads
          MaxActions, MaxEdits, MaxLoads,   \* bounds on what the user does
          None

ASSUME WorkspaceAssumption ==
  /\ FirstRoute \in Routes
  /\ Routes \subseteq [dash : Dashboards \cup {None}, edit : BOOLEAN]
  /\ None \notin Dashboards
  /\ FilterElements \in [Dashboards -> SUBSET Elements]
  /\ {MaxActions, MaxEdits, MaxLoads} \subseteq Nat

VARIABLES
  route,
  selected,    \* selectedDashboardId
  page,        \* dashboards: the elements of each; an entry of the menu has none
  dirty,       \* hasUnsavedChanges, the chip "Unsaved"
  undo,        \* lastAiUndo
  saving,      \* isSaving
  loading,     \* isWorkspaceLoading, which covers the page
  rev,         \* actionRevision
  job,         \* the actions under way
  load,        \* the loads under way
  server,      \* the drafts the server keeps
  published,   \* and its latest published version of each
  safe,        \* history: the edits made while nothing under way could write over them
  edits, opened,   \* edits made and loads started so far
  excused,     \* history: something happened after which the chip may be wrong
  filled       \* history: the elements that loads have added to a dashboard since the
               \* page last took the server's answer for it

state == <<route, selected, page, dirty, undo, saving, loading, rev>>
counts == <<edits, opened>>
history == <<safe, excused, filled>>
outside == <<server, published, counts>>
rest == <<outside, history>>
vars == <<state, job, load, rest>>

Free == [pc |-> "free"]

Waiting(j) == job[j].pc # "free"
Acting == {j \in Jobs : Waiting(j) /\ job[j].kind # "favourite"}
FirstFree(f) == CHOOSE i \in DOMAIN f : f[i].pc = "free"
HasFree(f) == \E i \in DOMAIN f : f[i].pc = "free"

Request(r, n) == [pc |-> "sent", route |-> r, rev |-> n, got |-> None]

Init ==
  /\ route = FirstRoute
  /\ selected = None
  /\ page = [d \in Dashboards |-> {}]
  /\ dirty = FALSE
  /\ undo = None
  /\ saving = FALSE
  /\ loading = TRUE
  /\ rev = 0
  /\ job = [j \in Jobs |-> Free]
  /\ load = LET l == CHOOSE m \in Loads : TRUE
            IN  [m \in Loads |-> IF m = l THEN Request(FirstRoute, 0) ELSE Free]
  /\ server = [d \in Dashboards |-> {}]
  /\ published = [d \in Dashboards |-> None]
  /\ edits = 0 /\ opened = 1
  /\ safe = {}
  /\ excused = FALSE
  /\ filled = [d \in Dashboards |-> {}]

-----------------------------------------------------------------------------
(* The route and the loads it starts. *)

(* watch(route.fullPath): the user leaves the edits of the page behind.    *)
GoTo(r) ==
  /\ r # route /\ HasFree(load) /\ opened < MaxLoads
  /\ opened' = opened + 1
  /\ route' = r
  /\ loading' = TRUE
  /\ undo' = None
  /\ load' = [load EXCEPT ![FirstFree(load)] = Request(r, rev)]
  /\ safe' = {}
  /\ UNCHANGED <<selected, page, saving, rev, job, server, published, edits, filled>>

Navigate(r) == GoTo(r) /\ UNCHANGED <<dirty, excused>>

(* "Cancel": the edits stay on the page until the load it starts answers.  *)
DiscardDraft ==
  /\ route.edit /\ selected # None /\ ~saving /\ ~loading
  /\ GoTo([dash |-> selected, edit |-> FALSE])
  /\ dirty' = FALSE
  /\ excused' = TRUE

ReadServer(l) ==
  /\ load[l].pc = "sent"
  /\ load' = [load EXCEPT ![l].pc = "read", ![l].got = server]
  /\ UNCHANGED <<state, job, rest>>

(* Mutant: a load is current although an action is under way. *)
IsCurrentWorkspaceLoad_Mutant(l) == load[l].rev = rev

IsCurrentWorkspaceLoad(l) == load[l].rev = rev /\ ~saving

StopsLoading(l) == IF load[l].rev = rev THEN FALSE ELSE loading

(* ensureDashboardFilterElements: the elements of the canvas filters that  *)
(* have none.  A user who took one away and left its filter has saved it   *)
(* so; which filters those are is left open.                               *)
MissingElements(d) == IF d = None THEN {{}} ELSE SUBSET FilterElements[d]

(* Only the routes of the builder load whole dashboards; elsewhere the     *)
(* list is the menu, with the dashboard of the route put in its place, and *)
(* that one is given the elements it misses.                               *)
AcceptLoad(l) ==
  LET r == load[l].route  got == load[l].got IN
  /\ load[l].pc = "read" /\ IsCurrentWorkspaceLoad(l)
  /\ \E missing \in MissingElements(r.dash) :
       /\ page' = [d \in Dashboards |-> IF d = r.dash THEN got[d] \cup missing
                                       ELSE IF r.edit THEN got[d] ELSE {}]
       /\ filled' = [d \in Dashboards |-> (IF undo = None THEN {} ELSE filled[d])
                                         \cup (IF d = r.dash THEN missing \ got[d] ELSE {})]
  /\ selected' = r.dash
  /\ dirty' = FALSE
  /\ loading' = FALSE
  /\ load' = [load EXCEPT ![l] = IF r.edit THEN [@ EXCEPT !.pc = "secondary", !.got = None]
                                 ELSE Free]
  /\ excused' = (got # server \/ Acting # {} \/ (excused /\ undo # None))
  /\ UNCHANGED <<route, undo, saving, rev, job, outside, safe>>

DropLoad(l) ==
  /\ load[l].pc = "read" /\ ~IsCurrentWorkspaceLoad(l)
  /\ loading' = StopsLoading(l)
  /\ load' = [load EXCEPT ![l] = Free]
  /\ UNCHANGED <<route, selected, page, dirty, undo, saving, rev, job, rest>>

(* Mutant: a failure leaves the page covered. *)
FailLoad_Mutant(l) ==
  /\ load[l].pc \in {"sent", "read"}
  /\ load' = [load EXCEPT ![l] = Free]
  /\ UNCHANGED <<state, job, rest>>

FailLoad(l) ==
  /\ load[l].pc \in {"sent", "read"}
  /\ loading' = StopsLoading(l)
  /\ load' = [load EXCEPT ![l] = Free]
  /\ UNCHANGED <<route, selected, page, dirty, undo, saving, rev, job, rest>>

(* refreshBuilderConversation, answered or not. *)
RefreshConversation(l) ==
  /\ load[l].pc = "secondary"
  /\ undo' = IF IsCurrentWorkspaceLoad(l) THEN None ELSE undo
  /\ load' = [load EXCEPT ![l] = Free]
  /\ UNCHANGED <<route, selected, page, dirty, saving, loading, rev, job, rest>>

LoadStep(l) ==
  \/ ReadServer(l) \/ AcceptLoad(l) \/ DropLoad(l) \/ FailLoad(l) \/ RefreshConversation(l)

-----------------------------------------------------------------------------
(* The user's edits. *)

CanEditDashboard == route.edit /\ selected # None /\ ~loading
CanUseDashboard == CanEditDashboard /\ ~saving

(* What is under way and may write over an edit of d: a load or a          *)
(* favourite that is still current, and every action that works on a copy. *)
MayOverwrite(d) ==
  \/ \E l \in Loads : load[l].pc \in {"sent", "read"} /\ load[l].rev = rev
  \/ \E j \in Jobs : Waiting(j) /\ IF job[j].kind = "favourite"
                                   THEN job[j].rev = rev
                                   ELSE /\ job[j].dash = d /\ job[j].kind # "create"
                                        /\ job[j].pc # "refreshing"

Edited(d, e) == safe' = IF MayOverwrite(d) THEN safe \ {<<d, e>>} ELSE safe \cup {<<d, e>>}

(* saveElement, removeElement, updateElementLayout, updateElementConfig,   *)
(* cloneElement, createFilter, changeFilter and removeFilter: an element   *)
(* is added or taken away.  A filter's value alone is no part of what is   *)
(* edited here: the browser keeps it for itself and shows it over whatever *)
(* the server answers.                                                     *)
EditElement(e) ==
  /\ CanEditDashboard /\ edits < MaxEdits
  /\ edits' = edits + 1
  /\ page' = [page EXCEPT ![selected] = (@ \ {e}) \cup ({e} \ @)]
  /\ dirty' = TRUE
  /\ Edited(selected, e)
  /\ UNCHANGED <<route, selected, undo, saving, loading, rev, job, load, server, published, opened, excused, filled>>

(* createManualElement runs as an action: when it ends, at once, isSaving  *)
(* is false, whatever else is under way.                                   *)
CreateManualElement(e) ==
  /\ CanEditDashboard /\ e \notin page[selected] /\ rev < MaxActions /\ edits < MaxEdits
  /\ edits' = edits + 1
  /\ rev' = rev + 1
  /\ saving' = FALSE
  /\ page' = [page EXCEPT ![selected] = @ \cup {e}]
  /\ dirty' = TRUE
  /\ Edited(selected, e)
  /\ excused' = (excused \/ Acting # {})
  /\ UNCHANGED <<route, selected, undo, loading, job, load, server, published, opened, filled>>

UndoLastAiChange ==
  /\ CanEditDashboard /\ undo # None
  /\ page' = [page EXCEPT ![undo.dash] = undo.content]
  /\ dirty' = undo.dirty
  /\ undo' = None
  /\ safe' = {}
  /\ excused' = (excused \/ undo.dash # selected)
  /\ UNCHANGED <<route, selected, saving, loading, rev, job, load, outside, filled>>

-----------------------------------------------------------------------------
(* Actions (runAction), and what the server answers.                       *)

RunAction(kind, pc, snap) ==
  /\ HasFree(job) /\ rev < MaxActions
  /\ rev' = rev + 1
  /\ job' = [job EXCEPT ![FirstFree(job)] =
               [pc |-> pc, kind |-> kind, dash |-> selected, rev |-> rev + 1, snap |-> snap,
                alone |-> Acting = {}]]    \* history
  /\ UNCHANGED <<route, selected, page, undo, loading, load, outside, filled>>

Begin(kind, pc, snap) ==
  /\ CanUseDashboard
  /\ RunAction(kind, pc, snap)
  /\ saving' = TRUE
  /\ excused' = (excused \/ Acting # {})
  /\ UNCHANGED dirty

SaveDraft == Begin("save", "sent", page[selected]) /\ UNCHANGED safe

(* Without the chip the draft is not saved first: the user asks for what   *)
(* the server keeps.                                                       *)
PublishSelectedDashboard ==
  /\ Begin("publish", IF dirty THEN "sent" ELSE "publishing", page[selected])
  /\ safe' = IF dirty THEN safe
             ELSE {m \in safe : m[1] = selected => (m[2] \in page[selected] <=> m[2] \in server[selected])}

(* What the user asks for takes the place of the edits. *)
RestoreVersion ==
  /\ CanUseDashboard /\ published[selected] # None
  /\ Begin("restore", "restoring", page[selected])
  /\ safe' = {}

AskForElement == Begin("create", "planning", page[selected]) /\ UNCHANGED safe

(* One element is selected, and the answer changes its settings.           *)
AskForUpdate ==
  /\ CanUseDashboard /\ page[selected] # {}
  /\ Begin("update", "planning", page[selected])
  /\ UNCHANGED safe

(* Not an action of the page: it takes a revision and leaves isSaving.     *)
SetDashboardFavorite ==
  /\ ~saving /\ ~loading /\ page # [d \in Dashboards |-> {}]
  /\ \A j \in Jobs : Waiting(j) => job[j].kind # "favourite"
  /\ RunAction("favourite", "starring", page)
  /\ UNCHANGED <<dirty, saving, safe, excused>>

Moves(j, pc, snap) == job' = [job EXCEPT ![j].pc = pc, ![j].snap = snap]

ServerSaves(j) ==
  /\ job[j].pc = "sent"
  /\ server' = [server EXCEPT ![job[j].dash] = job[j].snap]
  /\ Moves(j, "saved", job[j].snap)
  /\ UNCHANGED <<state, load, published, counts, history>>

ServerPublishes(j) ==
  /\ job[j].pc = "publishing"
  /\ published' = [published EXCEPT ![job[j].dash] = server[job[j].dash]]
  /\ Moves(j, "answered", server[job[j].dash])
  /\ UNCHANGED <<state, load, server, counts, history>>

ServerRestores(j) ==
  LET version == published[job[j].dash] IN
  /\ job[j].pc = "restoring"
  /\ server' = [server EXCEPT ![job[j].dash] = version]
  /\ Moves(j, "answered", version)
  /\ UNCHANGED <<state, load, published, counts, history>>

(* Mutant: the chip goes off, the page keeps what it shows. *)
AnswerDraft_Mutant(j) ==
  /\ job[j].pc \in {"saved", "answered"}
  /\ undo' = None
  /\ dirty' = FALSE
  /\ Moves(j, IF job[j].kind = "publish" /\ job[j].pc = "saved" THEN "publishing" ELSE "refreshing",
           {})
  /\ filled' = [filled EXCEPT ![job[j].dash] = {}]
  /\ UNCHANGED <<route, selected, page, saving, loading, rev, load, outside, safe, excused>>

(* The answer takes the place of the page's copy, and the chip goes off:   *)
(* for whatever dashboard is selected by then.                             *)
AnswerDraft(j) ==
  /\ job[j].pc \in {"saved", "answered"}
  /\ page' = [page EXCEPT ![job[j].dash] = job[j].snap]
  /\ undo' = None
  /\ dirty' = FALSE
  /\ Moves(j, IF job[j].kind = "publish" /\ job[j].pc = "saved" THEN "publishing" ELSE "refreshing",
           {})
  /\ filled' = [filled EXCEPT ![job[j].dash] = {}]
  /\ UNCHANGED <<route, selected, saving, loading, rev, load, outside, safe, excused>>

CaptureAiUndoState ==
  undo' = IF selected = None THEN None
          ELSE [dash |-> selected, content |-> page[selected], dirty |-> dirty]

EndAction(j) == saving' = FALSE /\ job' = [job EXCEPT ![j] = Free]

(* Mutant: the element is added to the dashboard as it was asked for. *)
ApplyCreate_Mutant(j, e) ==
  /\ job[j].pc = "planning" /\ job[j].kind = "create" /\ e \notin job[j].snap
  /\ <<job[j].dash, e>> \notin safe
  /\ CaptureAiUndoState
  /\ page' = [page EXCEPT ![job[j].dash] = job[j].snap \cup {e}]
  /\ dirty' = TRUE
  /\ EndAction(j)
  /\ UNCHANGED <<route, selected, loading, rev, load, rest>>

(* createElement: into the dashboard that is selected by then. *)
ApplyCreate(j, e) ==
  LET d == IF selected = None THEN job[j].dash ELSE selected
      current == IF selected = None THEN job[j].snap ELSE page[selected]
  IN  /\ job[j].pc = "planning" /\ job[j].kind = "create" /\ e \notin current
      /\ <<d, e>> \notin safe    \* a new one, none that the user took away
      /\ CaptureAiUndoState
      /\ page' = [page EXCEPT ![d] = current \cup {e}]
      /\ dirty' = TRUE
      /\ EndAction(j)
      /\ UNCHANGED <<route, selected, loading, rev, load, rest>>

(* applyAgentToSelectedElement: assertSelectedElementOnlyUpdate compares   *)
(* the copy the plan was asked for with itself, the page is not looked at. *)
ApplyUpdate(j) ==
  /\ job[j].pc = "planning" /\ job[j].kind = "update"
  /\ CaptureAiUndoState
  /\ page' = [page EXCEPT ![job[j].dash] = job[j].snap]
  /\ dirty' = TRUE
  /\ EndAction(j)
  /\ UNCHANGED <<route, selected, loading, rev, load, rest>>

(* refreshVersions has been answered, or the action has nothing to do.     *)
Refreshed(j) ==
  /\ job[j].pc = "refreshing"
  /\ EndAction(j)
  /\ UNCHANGED <<route, selected, page, dirty, undo, loading, rev, load, rest>>

(* A request fails, before the server has acted or after. *)
FailAction(j) ==
  /\ j \in Acting /\ job[j].pc # "refreshing"
  /\ EndAction(j)
  /\ excused' = (excused \/ job[j].pc \in {"saved", "answered"})
  /\ UNCHANGED <<route, selected, page, dirty, undo, loading, rev, load, outside, safe, filled>>

AnswerFavorite(j) ==
  /\ job[j].pc = "starring"
  /\ job' = [job EXCEPT ![j] = Free]
  /\ UNCHANGED <<state, load, rest>>

(* The whole list is put back as it was when the star was clicked.         *)
FailFavorite(j) ==
  /\ job[j].pc = "starring"
  /\ job' = [job EXCEPT ![j] = Free]
  /\ IF job[j].rev = rev
     THEN page' = job[j].snap /\ excused' = (excused \/ page # job[j].snap)
     ELSE UNCHANGED <<page, excused>>
  /\ UNCHANGED <<route, selected, dirty, undo, saving, loading, rev, load, outside, safe, filled>>

JobStep(j) ==
  \/ ServerSaves(j) \/ ServerPublishes(j) \/ ServerRestores(j)
  \/ AnswerDraft(j) \/ Refreshed(j)
  \/ \E e \in Elements : ApplyCreate(j, e)
  \/ ApplyUpdate(j)
  \/ FailAction(j)
  \/ AnswerFavorite(j) \/ FailFavorite(j)

-----------------------------------------------------------------------------
Next ==
  \/ \E r \in Routes : Navigate(r)
  \/ DiscardDraft
  \/ \E l \in Loads : LoadStep(l)
  \/ \E e \in Elements : EditElement(e) \/ CreateManualElement(e)
  \/ UndoLastAiChange
  \/ SaveDraft \/ PublishSelectedDashboard \/ RestoreVersion
  \/ AskForElement \/ AskForUpdate
  \/ SetDashboardFavorite
  \/ \E j \in Jobs : JobStep(j)

Spec == Init /\ [][Next]_vars

(* A request of a browser is answered or fails in the end, and the         *)
(* continuation that awaits it runs.                                       *)
FairSpec ==
  /\ Spec
  /\ \A l \in Loads : WF_vars(LoadStep(l))
  /\ \A j \in Jobs : WF_vars(JobStep(j))

-----------------------------------------------------------------------------
(* Properties. *)

Answers == (\E l \in Loads : LoadStep(l)) \/ (\E j \in Jobs : JobStep(j))

(* Edits are lost to an answer only if they were made while what is        *)
(* answered was under way: a save or another action on a copy of the       *)
(* dashboard, a favourite, or a load that is still current.  Until the     *)
(* user leaves, undoes, discards or restores, or publishes after the       *)
(* answer for another dashboard has switched the chip off over edits that  *)
(* the server does not have, no answer takes any other edit away, the      *)
(* answer of the AI that adds an element included.                         *)
EditsKept ==
  [][Answers => \A m \in safe : m[2] \in page[m[1]] <=> m[2] \in page'[m[1]]]_vars

ActedUnanswered(d) == \E j \in Jobs : job[j].pc \in {"saved", "answered"} /\ job[j].dash = d

(* Without the chip "Unsaved" the page shows all the server keeps of the   *)
(* selected dashboard, and nothing else but the elements a load has added  *)
(* for filters of the canvas without one, unless the load that brought it  *)
(* was overtaken by a save, two actions were under way at once, an answer  *)
(* was lost after the server had acted, the list was put back for a        *)
(* favourite, another dashboard's AI change was undone, or the draft was   *)
(* discarded and no load has succeeded since.  The values chosen in the    *)
(* filters are none of what is compared: they never raise the chip.        *)
CleanMeansSaved ==
  selected # None /\ ~dirty /\ ~excused /\ ~ActedUnanswered(selected)
    => /\ server[selected] \subseteq page[selected]
       /\ page[selected] \subseteq server[selected] \cup filled[selected]

(* The AI adds its element to the dashboard it was asked about, whatever   *)
(* route the user goes to meanwhile, unless another action was under way   *)
(* when it was asked or has been begun since.                              *)
AddsWhereAsked ==
  [][\A j \in Jobs, e \in Elements :
       ApplyCreate(j, e) /\ job[j].alone /\ job[j].rev = rev => selected = job[j].dash]_vars

(* The page is not covered for ever and the buttons come back once the     *)
(* user pauses, whatever loads and actions have overlapped and failed.     *)
WorkspaceUsable == []<>(~loading /\ ~saving)

(* "Selected component AI edits must not create, remove, or reorder        *)
(* dashboard elements."                                                    *)
AiEditsKeepElements ==
  [][\A j \in Jobs : ApplyUpdate(j) => page' = page]_vars
=============================================================================
