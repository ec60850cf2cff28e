---------------------------- MODULE ElementRender ----------------------------
(***************************************************************************)
(* How the web client paints the elements of a dashboard.  Each mounted    *)
(* renderer (useDashboardElementDataRenderer) starts a load whenever what  *)
(* it renders or its run token changes, and numbers its loads so that an   *)
(* answer to an older one is dropped.  All renderers share one queue of    *)
(* loads (load-queue.ts) that runs a few at a time, lowest element order   *)
(* first; the canvas keeps one spinner per element (runStates), which      *)
(* decides whether the next click runs the element or stops it.            *)
(*                                                                         *)
(* An element can be mounted twice, as a card and in the expand dialog.    *)
(* The dialog is given the element as it was when it was opened: changes   *)
(* of its configuration reach the card alone.  Filters, settings and run   *)
(* tokens reach both.                                                      *)
(*                                                                         *)
(* Continuations of promises and the flush that runs the watchers are      *)
(* microtasks of one page and interleave; a click or the reload timer      *)
(* waits until no continuation is left (Idle).                             *)
(***************************************************************************)
EXTENDS Integers, Sequences, FiniteSets

CONSTANTS
  Elements,    \* elements of the dashboards that are opened
  Renderers,   \* component instances: a new one for every mount
  ElementOf,   \* the element a renderer paints
  Dialogs,     \* the renderers that belong to the expand dialog
  Editable,    \* the renderers whose prop canEditDashboard is true
  Order,       \* element.order, the priority of the element's loads
  CONCURRENCY, \* loads that run at a time
  MaxInputs,   \* bound: changes of what a renderer is given
  MaxSeq,      \* bound: loads and stops of a renderer
  None

ASSUME ElementRenderAssumption ==
  /\ ElementOf \in [Renderers -> Elements]
  /\ Dialogs \subseteq Renderers /\ Editable \subseteq Renderers \ Dialogs
  /\ Order \in [Elements -> Nat]
  /\ CONCURRENCY \in Nat \ {0}
  /\ None \notin Nat

VARIABLES
  inputs,   \* what a renderer is given: a version of its configuration and filters
  static,   \* renderers of a kind that needs no data (text, filter, ...)
  mounted,  \* "unborn", "mounted" or "unmounted"
  view,     \* state, chart, isRefreshing and requestSequence of a renderer
  spinner,  \* runStates: isLoading of an element
  token,    \* runStates: the token of an element that is not 0, cancelToken before runToken
  queue,    \* loads that wait
  active,   \* the counter of loads that run
  running,  \* the loads that run
  answers,  \* loads whose promise is settled and whose awaiter has not resumed
  tails,    \* renders that wait in nextTick or for their finally
  dropped,  \* history: mounted renderers whose waiting load was cleared
  marker,   \* session storage: the page was reloaded for an expired token
  leaving   \* the reload of the page is scheduled

loads == <<queue, active, running>>
page == <<marker, leaving>>
vars == <<inputs, static, mounted, view, spinner, token, loads, answers, tails, dropped, page>>

RenderersOf(e) == {r \in Renderers : ElementOf[r] = e}
Mounted(e) == {r \in RenderersOf(e) : mounted[r] = "mounted"}
Cards(e) == Mounted(e) \ Dialogs
Present == {r \in Renderers : mounted[r] = "mounted"}
Idle == answers = {} /\ tails = {}

FreshView == [state |-> "loading", chart |-> None, refreshing |-> FALSE, seq |-> 0]

Init ==
  /\ inputs = [r \in Renderers |-> 1]
  /\ static = {}
  /\ mounted = [r \in Renderers |-> "unborn"]
  /\ view = [r \in Renderers |-> FreshView]
  /\ spinner = [e \in Elements |-> FALSE]
  /\ token = [e \in Elements |-> "none"]
  /\ queue = <<>> /\ active = 0 /\ running = {}
  /\ answers = {} /\ tails = {} /\ dropped = {}
  /\ marker = FALSE /\ leaving = FALSE

-----------------------------------------------------------------------------
(* load-queue.ts *)

(* Mutant: the queue is not sorted. *)
Inserted_Mutant(q, l) == Append(q, l)

(* push and the stable sort by order. *)
Inserted(q, l) ==
  LET before == Cardinality({i \in DOMAIN q : Order[ElementOf[q[i].r]] <= Order[ElementOf[l.r]]})
  IN  SubSeq(q, 1, before) \o <<l>> \o SubSeq(q, before + 1, Len(q))

Lowest(a, b) == IF a <= b THEN a ELSE b

(* scheduleNext: as many loads start from the queue q as n running leave room for. *)
Schedule(q, n, rest) ==
  LET k == Lowest(CONCURRENCY - n, Len(q)) IN
    /\ queue' = SubSeq(q, k + 1, Len(q))
    /\ active' = n + k
    /\ running' = rest \cup {q[i] : i \in 1..k}

(* Mutant: the load that ends does not start the next one. *)
Release_Mutant(l) ==
  /\ queue' = queue
  /\ active' = active - 1
  /\ running' = running \ {l}

Release(l) == Schedule(queue, active - 1, running \ {l})

Load(r, retry) == [r |-> r, seq |-> view'[r].seq, inputs |-> inputs'[r], retry |-> retry]

(* enqueueVisualizationLoad for renderers of one element: the card first.  *)
Enqueue(q, R) ==
  LET card == {r \in R : r \notin Dialogs}
      dialog == R \cap Dialogs
      Push(p, S) == IF S = {} THEN p ELSE Inserted(p, Load(CHOOSE r \in S : TRUE, FALSE))
  IN  Schedule(Push(Push(q, card), dialog), active, running)

-----------------------------------------------------------------------------
(* The watcher of the renderers R of element e, where the queue holds q and *)
(* the spinners are s by now.                                              *)

KeepsRender(r, refresh) == ~refresh /\ view[r].state = "ready" /\ view[r].chart # None

Loading(v, keep) ==
  [v EXCEPT !.seq = @ + 1,
            !.state = IF keep THEN @ ELSE "loading",
            !.chart = IF keep THEN @ ELSE None,
            !.refreshing = @ \/ keep]

(* A static kind needs no load; the number of the last one stays current,  *)
(* and so does the mark of its refresh.                                    *)
Static(v) == [v EXCEPT !.chart = None, !.state = "ready"]

(* Renderers of R whose waiting load is not in q any more. *)
Forgone(R, q) == {r \in R : q = <<>> /\ \E i \in DOMAIN queue : queue[i].r = r}

(* The dialog, which comes after the card in the canvas, has the last word *)
(* about the spinner.                                                      *)
Last(R) == IF R \cap Dialogs = {} THEN R ELSE R \cap Dialogs

(* renderElement *)
RenderElement(e, R, refresh, q, s) ==
  LET data == R \ static' IN
    /\ \A r \in data : view[r].seq < MaxSeq[r]
    /\ view' = [r \in Renderers |-> CASE r \in data -> Loading(view[r], KeepsRender(r, refresh))
                                      [] r \in R \ data -> Static(view[r])
                                      [] OTHER -> view[r]]
    /\ spinner' = [s EXCEPT ![e] = Last(R) \cap data # {}]
    /\ dropped' = (dropped \cup Forgone(R, q)) \ data
    /\ Enqueue(q, data)

(* Mutant: the number of the stopped load stays current. *)
Stopped_Mutant(v) == [v EXCEPT !.refreshing = FALSE, !.state = "stopped"]

Stopped(v) == [v EXCEPT !.seq = @ + 1, !.refreshing = FALSE, !.state = "stopped"]

(* stopRender *)
StopRender(e, R, q, s) ==
  /\ \A r \in R : view[r].seq < MaxSeq[r]
  /\ view' = [r \in Renderers |-> IF r \in R THEN Stopped(view[r]) ELSE view[r]]
  /\ spinner' = [s EXCEPT ![e] = FALSE]
  /\ dropped' = dropped \ R
  /\ queue' = q
  /\ UNCHANGED <<active, running>>

(* A click on the run button: the token it raises fires the watchers. *)
ToggleRun(e) ==
  /\ Idle /\ Cards(e) # {}
  /\ UNCHANGED <<inputs, static>>
  /\ IF spinner[e]
     THEN /\ token' = [token EXCEPT ![e] = "cancel"]
          /\ StopRender(e, Mounted(e), queue, spinner)
     ELSE /\ token' = [token EXCEPT ![e] = IF @ = "cancel" THEN @ ELSE "run"]
          /\ RenderElement(e, Mounted(e), TRUE, queue, spinner)
  /\ UNCHANGED <<mounted, answers, tails, page>>

Given(R) ==
  /\ \A r \in R : inputs[r] < MaxInputs
  /\ inputs' = [r \in Renderers |-> IF r \in R THEN inputs[r] + 1 ELSE inputs[r]]

OfKind(kind, R) == static' = IF kind = "static" THEN static \cup R ELSE static \ R

(* The configuration or the kind of an element changes; an open dialog has *)
(* the element of before.                                                  *)
ChangeElement(e, kind) ==
  /\ Cards(e) # {}
  /\ Given(Cards(e)) /\ OfKind(kind, Cards(e))
  /\ RenderElement(e, Cards(e), FALSE, queue, spinner)
  /\ UNCHANGED <<mounted, token, answers, tails, page>>

(* The filters of an element, the settings of the dashboard or its row      *)
(* limit change.                                                           *)
ChangeFilters(e) ==
  /\ Mounted(e) # {}
  /\ Given(Mounted(e))
  /\ UNCHANGED static
  /\ RenderElement(e, Mounted(e), FALSE, queue, spinner)
  /\ UNCHANGED <<mounted, token, answers, tails, page>>

(* The watch of a new renderer runs at once.  A dialog takes the element    *)
(* that its card shows.                                                    *)
Mount(r, kind) ==
  LET e == ElementOf[r] IN
      /\ mounted[r] = "unborn"
      /\ IF r \in Dialogs THEN /\ Present \cap Dialogs = {} /\ Cards(e) # {}
                               /\ kind = "static" <=> Cards(e) \subseteq static
         ELSE Cards(e) = {}
      /\ mounted' = [mounted EXCEPT ![r] = "mounted"]
      /\ OfKind(kind, {r})
      /\ UNCHANGED inputs
      /\ RenderElement(e, {r}, FALSE, queue, spinner)
      /\ UNCHANGED <<token, answers, tails, page>>

Unmount(R) == mounted' = [r \in Renderers |-> IF r \in R THEN "unmounted" ELSE mounted[r]]

CloseDialog(r) ==
  /\ Idle
  /\ r \in Dialogs /\ mounted[r] = "mounted"
  /\ Unmount({r})
  /\ UNCHANGED <<inputs, static, view, spinner, token, loads, answers, tails, dropped, page>>

(* syncRunStates forgets the run states of the elements E. *)
Forgotten(E) == [e \in Elements |-> e \notin E /\ spinner[e]]

(* A dialog R of an element whose run state is forgotten is given the        *)
(* tokens of the default state: one that was not 0 has changed, which looks *)
(* like a stop or a run.                                                    *)
FallBack(e, R, given, q, s) ==
  CASE token[e] = "cancel" -> StopRender(e, R, q, s)
    [] token[e] = "run" -> RenderElement(e, R, TRUE, q, s)
    [] token[e] = "none" /\ given -> RenderElement(e, R, FALSE, q, s)
    [] OTHER -> /\ queue' = q /\ spinner' = s
                /\ dropped' = dropped \cup Forgone(R, q)
                /\ UNCHANGED <<view, active, running>>

OffDashboard == {e \in Elements : Cards(e) = {}}

(* An element is removed; the dialog that shows it stays open.  An element   *)
(* that has no card is on the dashboard or not.                             *)
RemoveElement(e) ==
  /\ Cards(e) # {}
  /\ Unmount(Cards(e))
  /\ token' = [token EXCEPT ![e] = "none"]
  /\ UNCHANGED <<inputs, static>>
  /\ \E others \in SUBSET OffDashboard :
       FallBack(e, Mounted(e) \cap Dialogs, FALSE, queue, Forgotten({e} \cup others))
  /\ UNCHANGED <<answers, tails, page>>

(* clearVisualizationQueue *)
ClearQueue == queue' = <<>> /\ UNCHANGED <<active, running>>

(* The canvas goes, and all it shows. *)
LeaveCanvas ==
  /\ Idle
  /\ Unmount(Present)
  /\ spinner' = [e \in Elements |-> FALSE]
  /\ token' = [e \in Elements |-> "none"]
  /\ ClearQueue
  /\ dropped' = {}
  /\ UNCHANGED <<inputs, static, view, answers, tails, page>>

(* The canvas shows another dashboard.  An open dialog stays and is given    *)
(* the filters and settings of that one, which may differ.                  *)
ChangeDashboard ==
  /\ Unmount(Present \ Dialogs)
  /\ token' = [e \in Elements |-> "none"]
  /\ UNCHANGED static
  /\ \E others \in SUBSET OffDashboard :
       LET s == Forgotten((Elements \ OffDashboard) \cup others) IN
         \/ /\ Present \cap Dialogs = {}
            /\ spinner' = s
            /\ ClearQueue
            /\ UNCHANGED <<inputs, view, dropped>>
         \/ \E r \in Dialogs, given \in BOOLEAN :
              /\ Present \cap Dialogs = {r}
              /\ IF given THEN Given({r}) ELSE UNCHANGED inputs
              /\ FallBack(ElementOf[r], {r}, given, <<>>, s)
  /\ UNCHANGED <<answers, tails, page>>

-----------------------------------------------------------------------------
(* A load answers: its slot is free before its awaiter resumes. *)
Outcomes == {"rows", "empty", "expired", "failed"}

Answer(l, outcome) ==
  /\ Release(l)
  /\ answers' = answers \cup {[load |-> l, outcome |-> outcome]}
  /\ UNCHANGED <<inputs, static, token, dropped, mounted, view, spinner, tails, page>>

(* Mutant: an answer is shown whatever was asked since. *)
Current_Mutant(l) == TRUE

(* sequence === requestSequence *)
Current(l) == l.seq = view[l.r].seq

DropStale(a) ==
  /\ ~Current(a.load)
  /\ answers' = answers \ {a}
  /\ UNCHANGED <<inputs, static, token, dropped, mounted, view, spinner, loads, tails, page>>

(* What a renderer emits when it settles; an unmounted one emits nothing. *)
Settled(r) ==
  spinner' = IF mounted[r] = "mounted" THEN [spinner EXCEPT ![ElementOf[r]] = FALSE] ELSE spinner

Awaits(l, announces) == tails' = tails \cup {[r |-> l.r, seq |-> l.seq, announces |-> announces]}

(* A viewer sees placeholder data where there are no rows and, if the error *)
(* is one to hide, where the load failed.                                   *)
ShowData(a) ==
  LET l == a.load IN
    /\ Current(l)
    /\ a.outcome = "rows" \/ (l.r \notin Editable /\ a.outcome \in {"empty", "failed"})
    /\ answers' = answers \ {a}
    /\ view' = [view EXCEPT ![l.r].chart = l.inputs, ![l.r].state = "ready"]
    /\ Awaits(l, TRUE)
    /\ UNCHANGED <<inputs, static, token, dropped, mounted, spinner, loads, page>>

ShowEmpty(a) ==
  LET l == a.load IN
    /\ Current(l)
    /\ a.outcome = "empty" /\ l.r \in Editable
    /\ answers' = answers \ {a}
    /\ view' = [view EXCEPT ![l.r].chart = l.inputs, ![l.r].state = "empty"]
    /\ Settled(l.r)
    /\ Awaits(l, FALSE)
    /\ marker' = FALSE
    /\ UNCHANGED <<inputs, static, token, dropped, mounted, loads, leaving>>

MayReload(r) == r \notin Editable /\ ~marker

(* Mutant: the canvas does not listen to the error event. *)
ShowError_Mutant(a) ==
  LET l == a.load IN
    /\ Current(l)
    /\ \/ a.outcome = "failed"
       \/ a.outcome = "expired" /\ l.retry /\ ~MayReload(l.r)
    /\ answers' = answers \ {a}
    /\ view' = [view EXCEPT ![l.r].chart = None, ![l.r].state = "error"]
    /\ Awaits(l, FALSE)
    /\ UNCHANGED <<inputs, static, token, dropped, mounted, spinner, loads, page>>

(* setRenderError *)
ShowError(a) ==
  LET l == a.load IN
    /\ Current(l)
    /\ \/ a.outcome = "failed"
       \/ a.outcome = "expired" /\ l.retry /\ ~MayReload(l.r)
    /\ answers' = answers \ {a}
    /\ view' = [view EXCEPT ![l.r].chart = None, ![l.r].state = "error"]
    /\ Settled(l.r)
    /\ Awaits(l, FALSE)
    /\ UNCHANGED <<inputs, static, token, dropped, mounted, loads, page>>

(* recoverTokenExpiredComponentRender: once more, past the caches. *)
Recover(a) ==
  LET l == a.load IN
    /\ Current(l)
    /\ a.outcome = "expired" /\ ~l.retry
    /\ answers' = answers \ {a}
    /\ view' = [view EXCEPT ![l.r].state = "loading"]
    /\ Schedule(Inserted(queue, [l EXCEPT !.retry = TRUE]), active, running)
    /\ UNCHANGED <<inputs, static, token, dropped, mounted, spinner, tails, page>>

(* reloadPageOnceForTokenExpiry *)
LeavePage(a) ==
  LET l == a.load IN
    /\ Current(l)
    /\ a.outcome = "expired" /\ l.retry /\ MayReload(l.r)
    /\ answers' = answers \ {a}
    /\ marker' = TRUE /\ leaving' = TRUE
    /\ Awaits(l, FALSE)
    /\ UNCHANGED <<inputs, static, token, dropped, mounted, view, spinner, loads>>

Resume(a) ==
  DropStale(a) \/ ShowData(a) \/ ShowEmpty(a) \/ ShowError(a) \/ Recover(a) \/ LeavePage(a)

(* Mutant: only a render that shows data ends the refresh. *)
Finish_Mutant(t) ==
  /\ tails' = tails \ {t}
  /\ IF t.announces THEN Settled(t.r) /\ marker' = FALSE ELSE UNCHANGED <<spinner, marker>>
  /\ view' = IF t.announces /\ t.seq = view[t.r].seq THEN [view EXCEPT ![t.r].refreshing = FALSE] ELSE view
  /\ UNCHANGED <<inputs, static, token, dropped, mounted, loads, answers, leaving>>

(* After nextTick the renderer reports what it showed, whatever started     *)
(* since; then the finally of renderElement runs.                           *)
Finish(t) ==
  /\ tails' = tails \ {t}
  /\ IF t.announces THEN Settled(t.r) /\ marker' = FALSE ELSE UNCHANGED <<spinner, marker>>
  /\ view' = IF t.seq = view[t.r].seq THEN [view EXCEPT ![t.r].refreshing = FALSE] ELSE view
  /\ UNCHANGED <<inputs, static, token, dropped, mounted, loads, answers, leaving>>

(* The timer of the reload: a new page, with the session storage of the old. *)
Reload ==
  /\ leaving /\ Idle
  /\ inputs' = [r \in Renderers |-> 1]
  /\ static' = {}
  /\ mounted' = [r \in Renderers |-> "unborn"]
  /\ view' = [r \in Renderers |-> FreshView]
  /\ spinner' = [e \in Elements |-> FALSE]
  /\ token' = [e \in Elements |-> "none"]
  /\ queue' = <<>> /\ active' = 0 /\ running' = {}
  /\ dropped' = {} /\ leaving' = FALSE
  /\ UNCHANGED <<answers, tails, marker>>

-----------------------------------------------------------------------------
Kinds == {"data", "static"}

User(e) ==
  \/ ToggleRun(e)
  \/ \E kind \in Kinds : ChangeElement(e, kind)
  \/ ChangeFilters(e)
  \/ RemoveElement(e)

Answers == \E l \in running, o \in Outcomes : Answer(l, o)
Resumes == \E a \in answers : Resume(a)
Finishes == \E t \in tails : Finish(t)

Next ==
  \/ \E e \in Elements : User(e)
  \/ \E r \in Renderers : (\E kind \in Kinds : Mount(r, kind)) \/ CloseDialog(r)
  \/ LeaveCanvas \/ ChangeDashboard
  \/ Answers \/ Resumes \/ Finishes \/ Reload

Spec == Init /\ [][Next]_vars

(* Every request has a timeout, so every load answers; continuations and    *)
(* the timer of the reload run.  Users need do nothing.                     *)
FairSpec ==
  /\ Spec
  /\ WF_vars(Answers) /\ WF_vars(Resumes) /\ WF_vars(Finishes) /\ WF_vars(Reload)

-----------------------------------------------------------------------------

(* The counter of the load queue is the number of loads that run, never    *)
(* more than CONCURRENCY, and a load waits only while all slots are taken: *)
(* no slot leaks when a load fails, is dropped or its renderer goes.  The   *)
(* loads that wait do so in the order of their elements, retries and       *)
(* refreshes that joined later included.                                   *)
SlotsServed ==
  /\ active = Cardinality(running)
  /\ active <= CONCURRENCY
  /\ queue # <<>> => active = CONCURRENCY
  /\ \A i, j \in DOMAIN queue :
       i < j => Order[ElementOf[queue[i].r]] <= Order[ElementOf[queue[j].r]]

(* What a mounted renderer shows as final belongs to what it is given by    *)
(* now, however its loads overlapped, were retried or cancelled: a card to   *)
(* the current configuration and filters of its element, the expand dialog  *)
(* to the current filters and the configuration it was opened with.         *)
ShownIsLatest ==
  \A r \in Renderers :
    (/\ mounted[r] = "mounted" /\ r \notin static
     /\ view[r].state \in {"ready", "empty"} /\ ~view[r].refreshing)
    => view[r].chart = inputs[r]

(* A renderer the user stopped is not repainted by an answer to a load     *)
(* from before the stop; only a new run or new inputs paint it again.      *)
StoppedStays ==
  [][\A r \in Renderers :
       (/\ mounted[r] = "mounted" /\ view[r].state = "stopped"
        /\ view'[r].state \in {"ready", "empty", "error"})
       => r \in static']_vars

CurrentLoad(l) == l.seq = view[l.r].seq

(* Something of renderer r is still on its way. *)
Outstanding(r) ==
  \/ \E i \in DOMAIN queue : queue[i].r = r /\ CurrentLoad(queue[i])
  \/ \E l \in running : l.r = r /\ CurrentLoad(l)
  \/ \E a \in answers : a.load.r = r /\ CurrentLoad(a.load)
  \/ \E t \in tails : t.r = r
  \/ leaving

(* A mounted renderer that shows "Loading..." or the mark of a background  *)
(* refresh waits for a load that exists: stopping, overtaking, failing and *)
(* closing leave no renderer waiting for nothing.  Only a dialog that was  *)
(* open while the canvas changed to another dashboard may.                 *)
NoOrphanWait ==
  \A r \in Renderers :
    mounted[r] = "mounted" /\ (view[r].state = "loading" \/ view[r].refreshing)
    => Outstanding(r) \/ r \in dropped

(* The spinner of an element is on only while one of its renderers waits,  *)
(* unless an expand dialog of the element was closed: its renderer no      *)
(* longer emits, and a load it had announced turns the spinner off no more.*)
(* So does a dialog whose waiting load was cleared with the queue.         *)
SpinnerExplained ==
  \A e \in Elements :
    spinner[e] => \E r \in RenderersOf(e) :
      \/ mounted[r] = "mounted" /\ (Outstanding(r) \/ r \in dropped)
      \/ r \in Dialogs /\ mounted[r] = "unmounted"

Waiting(r) == mounted[r] = "mounted" /\ view[r].state = "loading" /\ r \notin dropped

(* Every render ends: with data, a message, a stop, or with the page. *)
EveryRenderEnds == \A r \in Renderers : Waiting(r) ~> ~Waiting(r)
=============================================================================
