--------------------------- MODULE WorkspaceProofs ---------------------------
(***************************************************************************)
(* The dashboard workspace, for any dashboards, elements, routes and any   *)
(* number of actions and loads under way.                                  *)
(*                                                                         *)
(* What an answer will put in the place of a dashboard was copied from the *)
(* page when its action began, and edits made since are not safe: SafeInv  *)
(* says that the copies under way agree with the page on the safe ones,    *)
(* and that there are none while a load is current.  AloneInv says that an *)
(* action without another beside it keeps isSaving, and with it the        *)
(* dashboard that is selected.  ChipInv relates the page, the undo of the  *)
(* last AI change and the answers to come with the server's drafts while   *)
(* no excuse applies.                                                      *)
(***************************************************************************)
EXTENDS Workspace, TLAPS

-----------------------------------------------------------------------------
(* What the variables hold. *)

Pages == [Dashboards -> SUBSET Elements]

Places == [dash : Dashboards \cup {None}, edit : BOOLEAN]

BusyJobs ==
  [pc : {"sent", "saved", "publishing", "restoring", "answered", "refreshing", "planning", "starring"},
   kind : {"save", "publish", "restore", "create", "update", "favourite"},
   dash : Dashboards \cup {None}, rev : Nat, snap : Pages \cup (SUBSET Elements), alone : BOOLEAN]

BusyLoads ==
  [pc : {"sent", "read", "secondary"}, route : Places, rev : Nat, got : Pages \cup {None}]

(* Where an action of each kind can be. *)
InProgram(r) ==
  \/ r.pc \in {"sent", "saved"} /\ r.kind \in {"save", "publish"}
  \/ r.pc = "publishing" /\ r.kind = "publish"
  \/ r.pc = "restoring" /\ r.kind = "restore"
  \/ r.pc = "answered" /\ r.kind \in {"publish", "restore"}
  \/ r.pc = "refreshing" /\ r.kind \in {"save", "publish", "restore"}
  \/ r.pc = "planning" /\ r.kind \in {"create", "update"}
  \/ r.pc = "starring" /\ r.kind = "favourite"

JobType(j) ==
  Waiting(j) =>
    /\ job[j] \in BusyJobs /\ InProgram(job[j]) /\ job[j].rev <= rev
    /\ IF job[j].kind = "favourite" THEN job[j].snap \in Pages
       ELSE job[j].dash \in Dashboards /\ job[j].snap \in SUBSET Elements
    /\ job[j].pc = "restoring" => published[job[j].dash] \in SUBSET Elements

LoadType(l) ==
  load[l].pc # "free" =>
    /\ load[l] \in BusyLoads /\ load[l].rev <= rev
    /\ load[l].pc = "read" => load[l].got \in Pages

PageTypes ==
  /\ route \in Places
  /\ selected \in Dashboards \cup {None}
  /\ page \in Pages /\ server \in Pages
  /\ published \in [Dashboards -> (SUBSET Elements) \cup {None}]
  /\ rev \in Nat
  /\ undo = None \/ undo \in [dash : Dashboards, content : SUBSET Elements, dirty : BOOLEAN]

FlagTypes == dirty \in BOOLEAN /\ saving \in BOOLEAN /\ loading \in BOOLEAN /\ excused \in BOOLEAN

JobTypes == job \in [Jobs -> {Free} \cup BusyJobs] /\ \A j \in Jobs : JobType(j)
LoadTypes == load \in [Loads -> {Free} \cup BusyLoads] /\ \A l \in Loads : LoadType(l)

Types == PageTypes /\ FlagTypes /\ JobTypes /\ LoadTypes /\ safe \subseteq Dashboards \X Elements

-----------------------------------------------------------------------------
(* What the pieces of the actions do to the jobs. *)

OthersStay(j) == \A k \in Jobs : k # j => job'[k] = job[k]

LEMMA FreeIsFree == Free.pc = "free" /\ Free \notin BusyJobs /\ Free \notin BusyLoads
BY DEF Free, BusyJobs, BusyLoads

(* Where a new action goes. *)
Started(j, k, p, s) ==
  /\ job[j].pc = "free"
  /\ job'[j].pc = p /\ job'[j].kind = k /\ job'[j].dash = selected
  /\ job'[j].rev = rev + 1 /\ job'[j].snap = s
  /\ job'[j].alone <=> Acting = {}
  /\ OthersStay(j)

LEMMA RunActionStarts ==
  ASSUME Types, NEW k \in {"save", "publish", "restore", "create", "update", "favourite"},
         NEW p \in {"sent", "publishing", "restoring", "planning", "starring"},
         NEW s \in Pages \cup (SUBSET Elements), RunAction(k, p, s)
  PROVE  /\ job' \in [Jobs -> {Free} \cup BusyJobs] /\ rev' = rev + 1
         /\ UNCHANGED <<route, selected, page, undo, loading, load, outside, filled>>
         /\ \E j \in Jobs : Started(j, k, p, s)
<1> DEFINE j == FirstFree(job)
           alone == Acting = {}
           r == [pc |-> p, kind |-> k, dash |-> selected, rev |-> rev + 1, snap |-> s, alone |-> alone]
<1>1. job \in [Jobs -> {Free} \cup BusyJobs] /\ rev \in Nat /\ selected \in Dashboards \cup {None}
  BY DEF Types, JobTypes, PageTypes
<1>2. j \in Jobs /\ job[j].pc = "free"
  BY <1>1 DEF RunAction, HasFree, FirstFree
<1>3. job' = [job EXCEPT ![j] = r] /\ rev' = rev + 1
  BY DEF RunAction
<1>4. alone \in BOOLEAN
  OBVIOUS
<1> HIDE DEF alone, j
<1>5. r \in BusyJobs
  BY <1>1, <1>4 DEF BusyJobs
<1>6. job' \in [Jobs -> {Free} \cup BusyJobs] /\ job'[j] = r /\ OthersStay(j)
  BY <1>1, <1>2, <1>3, <1>5 DEF OthersStay
<1>7. r.alone = alone /\ r.pc = p /\ r.kind = k /\ r.dash = selected /\ r.rev = rev + 1 /\ r.snap = s
  OBVIOUS
<1> HIDE DEF r
<1>8. job'[j].alone <=> Acting = {}
  BY <1>6, <1>7 DEF alone
<1>9. Started(j, k, p, s)
  BY <1>2, <1>6, <1>7, <1>8 DEF Started
<1> QED BY <1>2, <1>3, <1>6, <1>9 DEF RunAction

(* An action goes on. *)
Moved(j, p, s) ==
  /\ job'[j].pc = p /\ job'[j].snap = s
  /\ job'[j].kind = job[j].kind /\ job'[j].dash = job[j].dash /\ job'[j].rev = job[j].rev
  /\ job'[j].alone = job[j].alone
  /\ OthersStay(j)

LEMMA MovesMoves ==
  ASSUME Types, NEW j \in Jobs, Waiting(j),
         NEW p \in {"sent", "saved", "publishing", "answered", "refreshing"},
         NEW s \in SUBSET Elements, Moves(j, p, s)
  PROVE  job' \in [Jobs -> {Free} \cup BusyJobs] /\ Moved(j, p, s)
<1> DEFINE r == job[j]
           q == [r EXCEPT !.pc = p, !.snap = s]
<1>1. job \in [Jobs -> {Free} \cup BusyJobs] /\ r \in BusyJobs
  BY DEF Types, JobTypes, JobType
<1>2. job' = [job EXCEPT ![j] = q]
  BY <1>1 DEF Moves
<1> HIDE DEF r
<1>3. /\ q \in BusyJobs /\ q.pc = p /\ q.snap = s
      /\ q.kind = r.kind /\ q.dash = r.dash /\ q.rev = r.rev /\ q.alone = r.alone
  BY <1>1 DEF BusyJobs
<1> HIDE DEF q
<1>4. job' \in [Jobs -> {Free} \cup BusyJobs] /\ job'[j] = q /\ OthersStay(j)
  BY <1>1, <1>2, <1>3 DEF OthersStay
<1> QED BY <1>3, <1>4 DEF Moved, r

(* An action ends. *)
Ended(j) == job'[j] = Free /\ OthersStay(j)

LEMMA Frees ==
  ASSUME Types, NEW j \in Jobs, job' = [job EXCEPT ![j] = Free]
  PROVE  job' \in [Jobs -> {Free} \cup BusyJobs] /\ Ended(j)
BY DEF Types, JobTypes, Ended, OthersStay

-----------------------------------------------------------------------------
(* Every step keeps the types. *)

RevisionGrows == rev' \in {rev, rev + 1}
VersionsStay == \A d \in Dashboards : published[d] \in SUBSET Elements => published'[d] \in SUBSET Elements

LEMMA JobStaysTyped ==
  ASSUME Types, NEW k \in Jobs, job'[k] = job[k], RevisionGrows, VersionsStay
  PROVE  JobType(k)'
<1>1. CASE job[k].pc = "free"
  BY <1>1 DEF JobType, Waiting
<1>2. CASE job[k].pc # "free"
  <2>1. job[k] \in BusyJobs /\ JobType(k) /\ rev \in Nat
    BY <1>2 DEF Types, JobTypes, PageTypes, JobType, Waiting
  <2>2. job[k].rev \in Nat
    BY <2>1 DEF BusyJobs
  <2>3. job[k].rev <= rev'
    BY <1>2, <2>1, <2>2 DEF JobType, Waiting, RevisionGrows
  <2>4. job[k].kind = "favourite" => job[k].pc # "restoring"
    BY <1>2, <2>1 DEF JobType, Waiting, InProgram
  <2> QED BY <1>2, <2>1, <2>3, <2>4 DEF JobType, Waiting, VersionsStay, InProgram
<1> QED BY <1>1, <1>2

LEMMA JobsStayTyped ==
  ASSUME Types, job' = job, RevisionGrows, VersionsStay
  PROVE  JobTypes'
BY JobStaysTyped DEF JobTypes, Types

LEMMA OneJobTyped ==
  ASSUME Types, NEW j \in Jobs, OthersStay(j), RevisionGrows, VersionsStay,
         job' \in [Jobs -> {Free} \cup BusyJobs], JobType(j)'
  PROVE  JobTypes'
BY JobStaysTyped DEF JobTypes, OthersStay

LEMMA LoadStaysTyped ==
  ASSUME Types, NEW l \in Loads, load'[l] = load[l], RevisionGrows
  PROVE  LoadType(l)'
<1>1. CASE load[l].pc = "free"
  BY <1>1 DEF LoadType
<1>2. CASE load[l].pc # "free"
  <2>1. load[l] \in BusyLoads /\ LoadType(l) /\ rev \in Nat
    BY <1>2 DEF Types, LoadTypes, PageTypes, LoadType
  <2>2. load[l].rev \in Nat
    BY <2>1 DEF BusyLoads
  <2> QED BY <1>2, <2>1, <2>2 DEF LoadType, RevisionGrows
<1> QED BY <1>1, <1>2

LEMMA LoadsStayTyped ==
  ASSUME Types, load' = load, RevisionGrows
  PROVE  LoadTypes'
BY LoadStaysTyped DEF LoadTypes, Types

OtherLoadsStay(l) == \A m \in Loads : m # l => load'[m] = load[m]

LEMMA OneLoadTyped ==
  ASSUME Types, NEW l \in Loads, OtherLoadsStay(l), RevisionGrows,
         load' \in [Loads -> {Free} \cup BusyLoads], LoadType(l)'
  PROVE  LoadTypes'
BY LoadStaysTyped DEF LoadTypes, OtherLoadsStay

LEMMA Unmoved ==
  ASSUME Types
  PROVE  /\ rev' = rev => RevisionGrows
         /\ rev' = rev + 1 => RevisionGrows
         /\ published' = published => VersionsStay
BY DEF RevisionGrows, VersionsStay

(* A load that ends. *)
LEMMA LoadFrees ==
  ASSUME Types, NEW l \in Loads, load' = [load EXCEPT ![l] = Free], rev' = rev
  PROVE  LoadTypes' /\ OtherLoadsStay(l) /\ load'[l] = Free
<1>1. load' \in [Loads -> {Free} \cup BusyLoads] /\ load'[l] = Free /\ OtherLoadsStay(l)
  BY DEF Types, LoadTypes, OtherLoadsStay
<1>2. LoadType(l)'
  BY <1>1, FreeIsFree DEF LoadType
<1> QED BY <1>1, <1>2, OneLoadTyped, Unmoved

(* One that is begun. *)
LEMMA GoToSends ==
  ASSUME Types, NEW r \in Places, GoTo(r)
  PROVE  /\ LoadTypes'
         /\ \E l \in Loads : load[l].pc = "free" /\ OtherLoadsStay(l) /\ load'[l] = Request(r, rev)
<1> DEFINE q == Request(r, rev)
<1>1. load \in [Loads -> {Free} \cup BusyLoads] /\ rev \in Nat
  BY DEF Types, LoadTypes, PageTypes
<1>2. PICK l \in Loads : load[l].pc = "free" /\ l = FirstFree(load)
  BY <1>1 DEF GoTo, HasFree, FirstFree
<1>3. load' = [load EXCEPT ![l] = q] /\ rev' = rev
  BY <1>2 DEF GoTo
<1>4. q \in BusyLoads /\ q.pc = "sent" /\ q.rev = rev
  BY <1>1 DEF Request, BusyLoads
<1> HIDE DEF q
<1>5. load' \in [Loads -> {Free} \cup BusyLoads] /\ load'[l] = q /\ OtherLoadsStay(l)
  BY <1>1, <1>3, <1>4 DEF OtherLoadsStay
<1>6. LoadType(l)'
  BY <1>1, <1>3, <1>4, <1>5 DEF LoadType
<1>7. LoadTypes'
  BY <1>3, <1>5, <1>6, OneLoadTyped, Unmoved
<1> QED BY <1>2, <1>5, <1>7 DEF q

(* What an action can be begun with. *)
Fits(k, p, s) ==
  /\ k \in {"save", "publish", "restore", "create", "update", "favourite"}
  /\ p \in {"sent", "publishing", "restoring", "planning", "starring"}
  /\ InProgram([pc |-> p, kind |-> k])
  /\ IF k = "favourite" THEN s \in Pages ELSE selected \in Dashboards /\ s \in SUBSET Elements
  /\ k = "restore" => published[selected] \in SUBSET Elements

LEMMA NewJobTyped ==
  ASSUME Types, NEW j \in Jobs, rev' = rev + 1, published' = published, NEW k, NEW p, NEW s,
         Started(j, k, p, s), job' \in [Jobs -> {Free} \cup BusyJobs], Fits(k, p, s)
  PROVE  JobTypes'
<1>1. RevisionGrows /\ VersionsStay /\ rev \in Nat
  BY Unmoved DEF Types, PageTypes
<1>2. job'[j].pc = p /\ job'[j].kind = k /\ job'[j].dash = selected /\ job'[j].rev = rev + 1 /\ job'[j].snap = s
  BY DEF Started
<1>3. OthersStay(j)
  BY DEF Started
<1>4. job'[j] \in BusyJobs
  BY <1>2, FreeIsFree DEF Fits
<1>5. p = "restoring" => k = "restore"
  BY DEF InProgram, Fits
<1>6. InProgram(job'[j])
  BY <1>2 DEF InProgram, Fits
<1>7. job'[j].rev <= rev'
  BY <1>1, <1>2
<1>8. JobType(j)'
  BY <1>1, <1>2, <1>4, <1>5, <1>6, <1>7 DEF JobType, Waiting, Fits
<1> QED BY <1>1, <1>3, <1>8, OneJobTyped

LEMMA CanEditSelects ==
  ASSUME Types, CanEditDashboard
  PROVE  selected \in Dashboards /\ page[selected] \in SUBSET Elements /\ server[selected] \in SUBSET Elements
BY DEF Types, PageTypes, Pages, CanEditDashboard

(* What a new action of the page is. *)
Begins(k, p) ==
  /\ CanUseDashboard /\ rev' = rev + 1 /\ saving' = TRUE
  /\ UNCHANGED <<route, selected, page, undo, loading, load, outside, filled, dirty>>
  /\ excused' = (excused \/ Acting # {})
  /\ \E j \in Jobs : Started(j, k, p, page[selected])

LEMMA BeginBegins ==
  ASSUME Types, NEW k \in {"save", "publish", "restore", "create", "update"},
         NEW p \in {"sent", "publishing", "restoring", "planning"},
         InProgram([pc |-> p, kind |-> k]), Begin(k, p, page[selected]),
         k = "restore" => published[selected] \in SUBSET Elements
  PROVE  Begins(k, p) /\ JobTypes'
<1>1. CanUseDashboard /\ CanEditDashboard /\ RunAction(k, p, page[selected])
  BY DEF Begin, CanUseDashboard
<1>2. selected \in Dashboards /\ page[selected] \in SUBSET Elements
  BY <1>1, CanEditSelects
<1>3. /\ job' \in [Jobs -> {Free} \cup BusyJobs] /\ rev' = rev + 1
      /\ UNCHANGED <<route, selected, page, undo, loading, load, outside, filled>>
      /\ \E j \in Jobs : Started(j, k, p, page[selected])
  BY <1>1, <1>2, RunActionStarts
<1>4. PICK j \in Jobs : Started(j, k, p, page[selected])
  BY <1>3
<1>5. published' = published
  BY <1>3 DEF outside
<1>6. JobTypes'
  <2>1. Fits(k, p, page[selected])
    BY <1>2 DEF Fits
  <2> QED BY <1>3, <1>4, <1>5, <2>1, NewJobTyped
<1>7. saving' = TRUE /\ dirty' = dirty /\ excused' = (excused \/ Acting # {})
  BY DEF Begin
<1> QED BY <1>1, <1>3, <1>6, <1>7 DEF Begins

LEMMA ActionsBegin ==
  ASSUME Types
  PROVE  /\ SaveDraft => Begins("save", "sent") /\ JobTypes'
         /\ PublishSelectedDashboard =>
              Begins("publish", IF dirty THEN "sent" ELSE "publishing") /\ JobTypes'
         /\ RestoreVersion => Begins("restore", "restoring") /\ JobTypes'
         /\ AskForElement => Begins("create", "planning") /\ JobTypes'
         /\ AskForUpdate => Begins("update", "planning") /\ JobTypes'
<1>1. SaveDraft => Begins("save", "sent") /\ JobTypes'
  BY BeginBegins DEF SaveDraft, InProgram
<1>2. ASSUME PublishSelectedDashboard
      PROVE  Begins("publish", IF dirty THEN "sent" ELSE "publishing") /\ JobTypes'
  <2>1. CASE dirty
    BY <1>2, <2>1, BeginBegins DEF PublishSelectedDashboard, InProgram
  <2>2. CASE ~dirty
    BY <1>2, <2>2, BeginBegins DEF PublishSelectedDashboard, InProgram
  <2> QED BY <2>1, <2>2
<1>3. ASSUME RestoreVersion PROVE Begins("restore", "restoring") /\ JobTypes'
  <2>1. selected \in Dashboards /\ published[selected] \in SUBSET Elements
    <3>1. CanEditDashboard /\ published[selected] # None
      BY <1>3 DEF RestoreVersion, CanUseDashboard
    <3>2. selected \in Dashboards
      BY <3>1, CanEditSelects
    <3> QED BY <3>1, <3>2 DEF Types, PageTypes
  <2> QED BY <1>3, <2>1, BeginBegins DEF RestoreVersion, InProgram
<1>4. AskForElement => Begins("create", "planning") /\ JobTypes'
  BY BeginBegins DEF AskForElement, InProgram
<1>5. AskForUpdate => Begins("update", "planning") /\ JobTypes'
  BY BeginBegins DEF AskForUpdate, InProgram
<1> QED BY <1>1, <1>2, <1>3, <1>4, <1>5

(* A star is clicked. *)
Stars ==
  /\ rev' = rev + 1
  /\ UNCHANGED <<route, selected, page, undo, loading, load, outside, filled, dirty, saving, safe, excused>>
  /\ \E j \in Jobs : Started(j, "favourite", "starring", page)

LEMMA FavoriteStars ==
  ASSUME Types, SetDashboardFavorite
  PROVE  Stars /\ JobTypes'
<1>1. RunAction("favourite", "starring", page) /\ page \in Pages
  BY DEF SetDashboardFavorite, Types, PageTypes
<1>2. /\ job' \in [Jobs -> {Free} \cup BusyJobs] /\ rev' = rev + 1
      /\ UNCHANGED <<route, selected, page, undo, loading, load, outside, filled>>
      /\ \E j \in Jobs : Started(j, "favourite", "starring", page)
  BY <1>1, RunActionStarts
<1>3. PICK j \in Jobs : Started(j, "favourite", "starring", page)
  BY <1>2
<1>4. published' = published
  BY <1>2 DEF outside
<1>5. Fits("favourite", "starring", page)
  BY <1>1 DEF Fits, InProgram
<1>6. JobTypes'
  BY <1>2, <1>3, <1>4, <1>5, NewJobTyped
<1> QED BY <1>2, <1>6 DEF Stars, SetDashboardFavorite

-----------------------------------------------------------------------------
(* The steps of the actions under way. *)

LEMMA JobFacts ==
  ASSUME Types, NEW j \in Jobs, Waiting(j)
  PROVE  /\ job[j] \in BusyJobs /\ InProgram(job[j])
         /\ job[j].rev \in Nat /\ rev \in Nat /\ job[j].rev <= rev
         /\ job[j].kind = "favourite" => job[j].snap \in Pages
         /\ job[j].kind # "favourite" => job[j].dash \in Dashboards /\ job[j].snap \in SUBSET Elements
         /\ job[j].pc = "restoring" => published[job[j].dash] \in SUBSET Elements
BY DEF Types, JobTypes, JobType, PageTypes, BusyJobs

LEMMA MovedTyped ==
  ASSUME Types, NEW j \in Jobs, Waiting(j), NEW p, NEW s, Moved(j, p, s), s \in SUBSET Elements,
         p \in {"saved", "publishing", "answered", "refreshing"},
         job' \in [Jobs -> {Free} \cup BusyJobs], RevisionGrows, VersionsStay, InProgram(job'[j])
  PROVE  JobTypes'
<1>1. job'[j].pc = p /\ job'[j].snap = s /\ job'[j].kind = job[j].kind /\ job'[j].dash = job[j].dash
      /\ job'[j].rev = job[j].rev /\ OthersStay(j)
  BY DEF Moved
<1>2. job'[j] \in BusyJobs
  BY <1>1, FreeIsFree
<1>3. job[j].rev <= rev'
  BY JobFacts DEF RevisionGrows
<1>4. job[j].kind # "favourite" /\ job'[j].kind # "favourite"
  BY <1>1 DEF InProgram
<1>5. JobType(j)'
  BY <1>1, <1>2, <1>3, <1>4, JobFacts DEF JobType, Waiting
<1> QED BY <1>1, <1>5, OneJobTyped

LEMMA EndedTyped ==
  ASSUME Types, NEW j \in Jobs, job' = [job EXCEPT ![j] = Free], RevisionGrows, VersionsStay
  PROVE  JobTypes' /\ Ended(j)
<1>1. job' \in [Jobs -> {Free} \cup BusyJobs] /\ Ended(j)
  BY Frees
<1>2. JobType(j)'
  BY <1>1, FreeIsFree DEF Ended, JobType, Waiting
<1> QED BY <1>1, <1>2, OneJobTyped DEF Ended

(* What the server does. *)
LEMMA ServerMoves ==
  ASSUME Types, NEW j \in Jobs
  PROVE  /\ ServerSaves(j) => Moved(j, "saved", job[j].snap) /\ JobTypes'
         /\ ServerPublishes(j) => Moved(j, "answered", server[job[j].dash]) /\ JobTypes'
         /\ ServerRestores(j) => Moved(j, "answered", published[job[j].dash]) /\ JobTypes'
<1>1. ASSUME ServerSaves(j) PROVE Moved(j, "saved", job[j].snap) /\ JobTypes'
  <2>1. Waiting(j) /\ job[j].pc = "sent" /\ Moves(j, "saved", job[j].snap) /\ rev' = rev /\ published' = published
    BY <1>1 DEF ServerSaves, Waiting, state
  <2>2. job[j].kind \in {"save", "publish"} /\ job[j].snap \in SUBSET Elements
    BY <2>1, JobFacts DEF InProgram
  <2>3. Moved(j, "saved", job[j].snap) /\ job' \in [Jobs -> {Free} \cup BusyJobs]
    BY <2>1, <2>2, MovesMoves
  <2>4. InProgram(job'[j])
    BY <2>2, <2>3 DEF Moved, InProgram
  <2> QED BY <2>1, <2>2, <2>3, <2>4, MovedTyped, Unmoved
<1>2. ASSUME ServerPublishes(j) PROVE Moved(j, "answered", server[job[j].dash]) /\ JobTypes'
  <2>1. Waiting(j) /\ job[j].pc = "publishing" /\ Moves(j, "answered", server[job[j].dash]) /\ rev' = rev
        /\ published' = [published EXCEPT ![job[j].dash] = server[job[j].dash]]
    BY <1>2 DEF ServerPublishes, Waiting, state
  <2>2. job[j].kind = "publish" /\ server[job[j].dash] \in SUBSET Elements
    BY <2>1, JobFacts DEF InProgram, Types, PageTypes, Pages
  <2>3. Moved(j, "answered", server[job[j].dash]) /\ job' \in [Jobs -> {Free} \cup BusyJobs]
    BY <2>1, <2>2, MovesMoves
  <2>4. InProgram(job'[j])
    BY <2>2, <2>3 DEF Moved, InProgram
  <2>5. VersionsStay
    BY <2>1, <2>2 DEF VersionsStay, Types, PageTypes
  <2> QED BY <2>1, <2>2, <2>3, <2>4, <2>5, MovedTyped, Unmoved
<1>3. ASSUME ServerRestores(j) PROVE Moved(j, "answered", published[job[j].dash]) /\ JobTypes'
  <2>1. Waiting(j) /\ job[j].pc = "restoring" /\ Moves(j, "answered", published[job[j].dash]) /\ rev' = rev
        /\ published' = published
    BY <1>3 DEF ServerRestores, Waiting, state
  <2>2. job[j].kind = "restore" /\ published[job[j].dash] \in SUBSET Elements
    BY <2>1, JobFacts DEF InProgram
  <2>3. Moved(j, "answered", published[job[j].dash]) /\ job' \in [Jobs -> {Free} \cup BusyJobs]
    BY <2>1, <2>2, MovesMoves
  <2>4. InProgram(job'[j])
    BY <2>2, <2>3 DEF Moved, InProgram
  <2> QED BY <2>1, <2>2, <2>3, <2>4, MovedTyped, Unmoved
<1> QED BY <1>1, <1>2, <1>3

After(j) == IF job[j].kind = "publish" /\ job[j].pc = "saved" THEN "publishing" ELSE "refreshing"

LEMMA AnswerMovesOn ==
  ASSUME Types, NEW j \in Jobs, AnswerDraft(j)
  PROVE  Moved(j, After(j), {}) /\ JobTypes'
<1>1. Waiting(j) /\ job[j].pc \in {"saved", "answered"} /\ Moves(j, After(j), {}) /\ rev' = rev
      /\ published' = published
  BY DEF AnswerDraft, Waiting, rest, outside, After
<1>2. InProgram(job[j])
  BY <1>1, JobFacts
<1>3. After(j) \in {"publishing", "refreshing"}
  BY DEF After
<1>4. Moved(j, After(j), {}) /\ job' \in [Jobs -> {Free} \cup BusyJobs]
  BY <1>1, <1>3, MovesMoves
<1>5. InProgram(job'[j])
  BY <1>1, <1>2, <1>4 DEF Moved, InProgram, After
<1> QED BY <1>1, <1>3, <1>4, <1>5, MovedTyped, Unmoved

(* The steps that end an action. *)
Ends(j) ==
  \/ \E e \in Elements : ApplyCreate(j, e)
  \/ ApplyUpdate(j) \/ Refreshed(j) \/ FailAction(j) \/ AnswerFavorite(j) \/ FailFavorite(j)

LEMMA EndsEnd ==
  ASSUME Types, NEW j \in Jobs, Ends(j)
  PROVE  Waiting(j) /\ Ended(j) /\ JobTypes' /\ rev' = rev /\ load' = load /\ published' = published /\ server' = server
<1>1. Waiting(j) /\ job' = [job EXCEPT ![j] = Free] /\ rev' = rev /\ load' = load /\ published' = published /\ server' = server
  BY DEF Ends, ApplyCreate, ApplyUpdate, Refreshed, FailAction, AnswerFavorite, FailFavorite,
         Waiting, EndAction, Acting, rest, outside, state
<1> QED BY <1>1, EndedTyped, Unmoved

-----------------------------------------------------------------------------
LEMMA InitTyped == Init => Types
<1> SUFFICES ASSUME Init PROVE Types
  OBVIOUS
<1>1. PageTypes /\ FlagTypes
  BY WorkspaceAssumption DEF Init, PageTypes, FlagTypes, Pages, Places
<1>2. JobTypes
  BY FreeIsFree DEF Init, JobTypes, JobType, Waiting
<1>3. LoadTypes
  <2> DEFINE first == CHOOSE m \in Loads : TRUE
             q == Request(FirstRoute, 0)
  <2>1. FirstRoute \in Places
    BY WorkspaceAssumption DEF Places
  <2>2. q \in BusyLoads /\ q.pc = "sent" /\ q.rev = 0 /\ rev = 0
    BY <2>1 DEF Init, Request, BusyLoads
  <2>3. load = [m \in Loads |-> IF m = first THEN q ELSE Free]
    BY DEF Init
  <2> HIDE DEF q, first
  <2> QED BY <2>2, <2>3, FreeIsFree DEF LoadTypes, LoadType
<1>4. safe \subseteq Dashboards \X Elements
  BY DEF Init
<1> QED BY <1>1, <1>2, <1>3, <1>4 DEF Types

LEMMA GoToTyped ==
  ASSUME Types, NEW r \in Places, GoTo(r), dirty' \in BOOLEAN, excused' \in BOOLEAN
  PROVE  Types'
<1>1. LoadTypes'
  BY GoToSends
<1>2. JobTypes'
  BY JobsStayTyped, Unmoved DEF GoTo
<1>3. PageTypes' /\ FlagTypes' /\ safe' \subseteq Dashboards \X Elements
  BY DEF GoTo, Types, PageTypes, FlagTypes
<1> QED BY <1>1, <1>2, <1>3 DEF Types

LEMMA RoutesTyped ==
  ASSUME Types
  PROVE  /\ \A r \in Routes : Navigate(r) => Types'
         /\ DiscardDraft => Types'
<1>1. ASSUME NEW r \in Routes, Navigate(r) PROVE Types'
  <2>1. r \in Places
    BY WorkspaceAssumption DEF Places
  <2> QED BY <1>1, <2>1, GoToTyped DEF Navigate, Types, FlagTypes
<1>2. ASSUME DiscardDraft PROVE Types'
  <2>1. [dash |-> selected, edit |-> FALSE] \in Places
    BY DEF Types, PageTypes, Places
  <2> QED BY <1>2, <2>1, GoToTyped DEF DiscardDraft
<1> QED BY <1>1, <1>2

LEMMA LoadStepTyped ==
  ASSUME Types, NEW l \in Loads, LoadStep(l)
  PROVE  Types'
<1>0. /\ load \in [Loads -> {Free} \cup BusyLoads] /\ LoadType(l) /\ rev \in Nat /\ server \in Pages
      /\ load[l].pc # "free" => load[l] \in BusyLoads /\ load[l].rev <= rev /\ load[l].route \in Places
  BY DEF Types, LoadTypes, PageTypes, LoadType, BusyLoads
<1>1. CASE ReadServer(l)
  <2> DEFINE q == [load[l] EXCEPT !.pc = "read", !.got = server]
  <2>1. load' = [load EXCEPT ![l] = q] /\ rev' = rev /\ load[l].pc = "sent"
    BY <1>0, <1>1 DEF ReadServer, state
  <2>2. q \in BusyLoads /\ q.rev <= rev /\ q.got \in Pages
    BY <1>0, <2>1 DEF BusyLoads
  <2> HIDE DEF q
  <2>3. load' \in [Loads -> {Free} \cup BusyLoads] /\ load'[l] = q /\ OtherLoadsStay(l)
    BY <1>0, <2>1, <2>2 DEF OtherLoadsStay
  <2>4. LoadTypes'
    BY <2>1, <2>2, <2>3, OneLoadTyped, Unmoved DEF LoadType
  <2>5. JobTypes'
    BY <1>1, JobsStayTyped, Unmoved DEF ReadServer, state, rest, outside
  <2>6. PageTypes' /\ FlagTypes' /\ safe' = safe
    BY <1>1 DEF ReadServer, state, rest, outside, history, Types, PageTypes, FlagTypes
  <2> QED BY <2>4, <2>5, <2>6 DEF Types
<1>2. CASE AcceptLoad(l)
  <2>1. load[l].pc = "read" /\ load[l].got \in Pages /\ load[l].route.dash \in Dashboards \cup {None} /\ rev' = rev
    BY <1>0, <1>2 DEF AcceptLoad, LoadType, Places
  <2>2. LoadTypes'
    <3>1. CASE load[l].route.edit
      <4> DEFINE q == [load[l] EXCEPT !.pc = "secondary", !.got = None]
      <4>1. load' = [load EXCEPT ![l] = q]
        BY <1>0, <1>2, <3>1 DEF AcceptLoad
      <4>2. q \in BusyLoads /\ q.rev <= rev /\ q.pc = "secondary"
        BY <1>0, <2>1 DEF BusyLoads
      <4> HIDE DEF q
      <4>3. load' \in [Loads -> {Free} \cup BusyLoads] /\ load'[l] = q /\ OtherLoadsStay(l)
        BY <1>0, <4>1, <4>2 DEF OtherLoadsStay
      <4> QED BY <2>1, <4>2, <4>3, OneLoadTyped, Unmoved DEF LoadType
    <3>2. CASE ~load[l].route.edit
      BY <1>2, <2>1, <3>2, LoadFrees DEF AcceptLoad
    <3> QED BY <3>1, <3>2
  <2>3. JobTypes'
    BY <1>2, JobsStayTyped, Unmoved DEF AcceptLoad, outside
  <2>4. PageTypes'
    <3>1. page' \in Pages
      <4>1. PICK missing \in SUBSET Elements :
              page' = [d \in Dashboards |-> IF d = load[l].route.dash THEN load[l].got[d] \cup missing
                                           ELSE IF load[l].route.edit THEN load[l].got[d] ELSE {}]
        BY <1>2, <2>1, WorkspaceAssumption DEF AcceptLoad, MissingElements, Places
      <4> QED BY <2>1, <4>1 DEF Pages
    <3> QED BY <1>2, <2>1, <3>1 DEF AcceptLoad, outside, Types, PageTypes
  <2>5. FlagTypes' /\ safe' = safe
    BY <1>2 DEF AcceptLoad, Types, FlagTypes
  <2> QED BY <2>2, <2>3, <2>4, <2>5 DEF Types
<1>3. CASE DropLoad(l) \/ FailLoad(l) \/ RefreshConversation(l)
  <2>1. LoadTypes'
    BY <1>3, LoadFrees DEF DropLoad, FailLoad, RefreshConversation
  <2>2. JobTypes'
    BY <1>3, JobsStayTyped, Unmoved DEF DropLoad, FailLoad, RefreshConversation, rest, outside
  <2>3. PageTypes' /\ FlagTypes' /\ safe' = safe
    BY <1>3 DEF DropLoad, FailLoad, RefreshConversation, StopsLoading, rest, outside, history, Types, PageTypes, FlagTypes
  <2> QED BY <2>1, <2>2, <2>3 DEF Types
<1> QED BY <1>1, <1>2, <1>3 DEF LoadStep

LEMMA SafeStaysTyped ==
  ASSUME Types, NEW e \in Elements, selected \in Dashboards, Edited(selected, e)
  PROVE  safe' \subseteq Dashboards \X Elements
BY DEF Types, Edited

LEMMA EditsTyped ==
  ASSUME Types
  PROVE  /\ \A e \in Elements : EditElement(e) \/ CreateManualElement(e) => Types'
         /\ UndoLastAiChange => Types'
<1>1. ASSUME NEW e \in Elements, EditElement(e) PROVE Types'
  <2>1. selected \in Dashboards
    BY <1>1, CanEditSelects DEF EditElement
  <2>2. LoadTypes' /\ JobTypes'
    BY <1>1, JobsStayTyped, LoadsStayTyped, Unmoved DEF EditElement
  <2>3. PageTypes' /\ FlagTypes'
    BY <1>1, <2>1 DEF EditElement, Types, PageTypes, FlagTypes, Pages
  <2>4. safe' \subseteq Dashboards \X Elements
    BY <1>1, <2>1, SafeStaysTyped DEF EditElement
  <2> QED BY <2>2, <2>3, <2>4 DEF Types
<1>2. ASSUME NEW e \in Elements, CreateManualElement(e) PROVE Types'
  <2>1. selected \in Dashboards
    BY <1>2, CanEditSelects DEF CreateManualElement
  <2>2. LoadTypes' /\ JobTypes'
    BY <1>2, JobsStayTyped, LoadsStayTyped, Unmoved DEF CreateManualElement
  <2>3. PageTypes' /\ FlagTypes'
    <3>1. page' \in Pages
      BY <1>2, <2>1 DEF CreateManualElement, Types, PageTypes, Pages
    <3>2. FlagTypes'
      BY <1>2 DEF CreateManualElement, Types, FlagTypes
    <3> QED BY <1>2, <3>1, <3>2 DEF CreateManualElement, Types, PageTypes
  <2>4. safe' \subseteq Dashboards \X Elements
    BY <1>2, <2>1, SafeStaysTyped DEF CreateManualElement
  <2> QED BY <2>2, <2>3, <2>4 DEF Types
<1>3. ASSUME UndoLastAiChange PROVE Types'
  <2>1. LoadTypes' /\ JobTypes'
    BY <1>3, JobsStayTyped, LoadsStayTyped, Unmoved DEF UndoLastAiChange, outside
  <2>2. PageTypes' /\ FlagTypes' /\ safe' = {}
    BY <1>3 DEF UndoLastAiChange, outside, Types, PageTypes, FlagTypes, Pages
  <2> QED BY <2>1, <2>2 DEF Types
<1> QED BY <1>1, <1>2, <1>3

LEMMA BegunTyped ==
  ASSUME Types, NEW k, NEW p, Begins(k, p), JobTypes', safe' \subseteq safe
  PROVE  Types'
<1>1. LoadTypes'
  BY LoadsStayTyped, Unmoved DEF Begins
<1>2. PageTypes' /\ FlagTypes'
  BY DEF Begins, outside, Types, PageTypes, FlagTypes
<1> QED BY <1>1, <1>2 DEF Types

UserActs ==
  SaveDraft \/ PublishSelectedDashboard \/ RestoreVersion \/ AskForElement \/ AskForUpdate

LEMMA SafeShrinks == UserActs => safe' \subseteq safe
BY DEF UserActs, SaveDraft, PublishSelectedDashboard, RestoreVersion, AskForElement, AskForUpdate

LEMMA ActionsTyped ==
  ASSUME Types, UserActs \/ SetDashboardFavorite
  PROVE  Types'
<1>1. CASE UserActs
  <2>1. PICK k, p : Begins(k, p) /\ JobTypes'
    BY <1>1, ActionsBegin DEF UserActs
  <2> QED BY <1>1, <2>1, SafeShrinks, BegunTyped
<1>2. CASE SetDashboardFavorite
  <2>1. Stars /\ JobTypes'
    BY <1>2, FavoriteStars
  <2>2. LoadTypes'
    BY <2>1, LoadsStayTyped, Unmoved DEF Stars
  <2>3. PageTypes' /\ FlagTypes' /\ safe' = safe
    BY <2>1 DEF Stars, outside, Types, PageTypes, FlagTypes
  <2> QED BY <2>1, <2>2, <2>3 DEF Types
<1> QED BY <1>1, <1>2

LEMMA JobStepIs ==
  ASSUME NEW j \in Jobs, JobStep(j)
  PROVE  ServerSaves(j) \/ ServerPublishes(j) \/ ServerRestores(j) \/ AnswerDraft(j) \/ Ends(j)
BY DEF JobStep, Ends

LEMMA JobStepTyped ==
  ASSUME Types, NEW j \in Jobs, JobStep(j)
  PROVE  Types'
<1>1. CASE ServerSaves(j) \/ ServerPublishes(j) \/ ServerRestores(j)
  <2>1. JobTypes'
    BY <1>1, ServerMoves
  <2>2. LoadTypes'
    BY <1>1, LoadsStayTyped, Unmoved DEF ServerSaves, ServerPublishes, ServerRestores, state
  <2>3. Waiting(j) /\ job[j].kind # "favourite"
    BY <1>1, JobFacts DEF ServerSaves, ServerPublishes, ServerRestores, Waiting, InProgram
  <2>4. job[j].dash \in Dashboards /\ job[j].snap \in SUBSET Elements
    BY <2>3, JobFacts
  <2>5. PageTypes' /\ FlagTypes' /\ safe' = safe
    <3>1. CASE ServerSaves(j)
      BY <2>4, <3>1 DEF ServerSaves, state, history, Types, PageTypes, FlagTypes, Pages
    <3>2. CASE ServerPublishes(j)
      BY <2>4, <3>2 DEF ServerPublishes, state, history, Types, PageTypes, FlagTypes, Pages
    <3>3. CASE ServerRestores(j)
      <4>1. published[job[j].dash] \in SUBSET Elements
        BY <2>3, <3>3, JobFacts DEF ServerRestores
      <4> QED BY <2>4, <3>3, <4>1 DEF ServerRestores, state, history, Types, PageTypes, FlagTypes, Pages
    <3> QED BY <1>1, <3>1, <3>2, <3>3
  <2> QED BY <2>1, <2>2, <2>5 DEF Types
<1>2. CASE AnswerDraft(j)
  <2>1. JobTypes'
    BY <1>2, AnswerMovesOn
  <2>2. LoadTypes'
    BY <1>2, LoadsStayTyped, Unmoved DEF AnswerDraft, rest, outside
  <2>3. job[j].dash \in Dashboards /\ job[j].snap \in SUBSET Elements
    BY <1>2, JobFacts DEF AnswerDraft, Waiting, InProgram
  <2>4. PageTypes' /\ FlagTypes' /\ safe' = safe
    BY <1>2, <2>3 DEF AnswerDraft, rest, outside, history, Types, PageTypes, FlagTypes, Pages
  <2> QED BY <2>1, <2>2, <2>4 DEF Types
<1>3. CASE Ends(j)
  <2>1. Waiting(j) /\ JobTypes' /\ rev' = rev /\ load' = load /\ published' = published /\ server' = server
    BY <1>3, EndsEnd
  <2>2. LoadTypes'
    BY <2>1, LoadsStayTyped, Unmoved
  <2>3. page' \in Pages /\ UNCHANGED <<route, selected>> /\ safe' = safe
        /\ (undo' = None \/ undo' \in [dash : Dashboards, content : SUBSET Elements, dirty : BOOLEAN])
        /\ FlagTypes'
    <3>1. ASSUME NEW e \in Elements, ApplyCreate(j, e)
          PROVE  page' \in Pages /\ UNCHANGED <<route, selected, safe, loading, excused>> /\ CaptureAiUndoState
                 /\ dirty' = TRUE /\ saving' = FALSE
      <4>1. job[j].dash \in Dashboards /\ job[j].snap \in SUBSET Elements
        BY <3>1, JobFacts DEF ApplyCreate, Waiting
      <4>2. CASE selected = None
        BY <3>1, <4>1, <4>2 DEF ApplyCreate, EndAction, rest, outside, history, Types, PageTypes, Pages
      <4>3. CASE selected # None
        BY <3>1, <4>3 DEF ApplyCreate, EndAction, rest, outside, history, Types, PageTypes, Pages
      <4> QED BY <4>2, <4>3
    <3>2. ASSUME ApplyUpdate(j)
          PROVE  page' \in Pages /\ UNCHANGED <<route, selected, safe, loading, excused>> /\ CaptureAiUndoState
                 /\ dirty' = TRUE /\ saving' = FALSE
      <4>1. job[j].dash \in Dashboards /\ job[j].snap \in SUBSET Elements
        BY <3>2, JobFacts DEF ApplyUpdate, Waiting
      <4> QED BY <3>2, <4>1 DEF ApplyUpdate, EndAction, rest, outside, history, Types, PageTypes, Pages
    <3>3. CASE CaptureAiUndoState /\ dirty' = TRUE /\ saving' = FALSE /\ page' \in Pages
               /\ UNCHANGED <<route, selected, safe, loading, excused>>
      BY <3>3 DEF CaptureAiUndoState, Types, PageTypes, FlagTypes, Pages
    <3>4. CASE Refreshed(j) \/ FailAction(j)
      BY <3>4 DEF Refreshed, FailAction, EndAction, rest, outside, history, Types, PageTypes, FlagTypes
    <3>5. CASE AnswerFavorite(j)
      BY <3>5 DEF AnswerFavorite, state, rest, outside, history, Types, PageTypes, FlagTypes
    <3>6. CASE FailFavorite(j)
      <4>1. job[j].snap \in Pages
        BY <2>1, <3>6, JobFacts DEF FailFavorite, InProgram
      <4> QED BY <3>6, <4>1 DEF FailFavorite, outside, Types, PageTypes, FlagTypes
    <3> QED BY <1>3, <3>1, <3>2, <3>3, <3>4, <3>5, <3>6 DEF Ends
  <2>4. PageTypes'
    BY <2>1, <2>3 DEF Types, PageTypes
  <2> QED BY <2>1, <2>2, <2>3, <2>4 DEF Types
<1> QED BY <1>1, <1>2, <1>3, JobStepIs

LEMMA NextDoes ==
  ASSUME [Next]_vars
  PROVE  \/ \E r \in Routes : Navigate(r)
         \/ DiscardDraft
         \/ \E l \in Loads : LoadStep(l)
         \/ \E e \in Elements : EditElement(e) \/ CreateManualElement(e)
         \/ UndoLastAiChange
         \/ UserActs
         \/ SetDashboardFavorite
         \/ \E j \in Jobs : JobStep(j)
         \/ UNCHANGED vars
BY DEF Next, UserActs

LEMMA TypesStep == Types /\ [Next]_vars => Types'
<1> SUFFICES ASSUME Types, [Next]_vars PROVE Types'
  OBVIOUS
<1>1. CASE UNCHANGED vars
  BY <1>1 DEF vars, state, rest, outside, history, Types, PageTypes, FlagTypes, JobTypes, LoadTypes, JobType, LoadType, Waiting
<1> QED BY <1>1, RoutesTyped, LoadStepTyped, EditsTyped, ActionsTyped, JobStepTyped, NextDoes

(* The types of the workspace, for any number of dashboards and actions.   *)
LEMMA TypesHold == Spec => []Types
BY InitTyped, TypesStep, PTL DEF Spec

-----------------------------------------------------------------------------
(* Edits that no answer may take away.  Whatever is under way and will put *)
(* something in the place of a dashboard has these edits in what it will   *)
(* put there: in its copy, in what it has sent, or in the server's draft   *)
(* if it is going to publish that.                                         *)

Agrees(content, m) == m[2] \in content <=> m[2] \in page[m[1]]

Copied(j) == job[j].pc \in {"sent", "saved", "answered"} \/ (job[j].pc = "planning" /\ job[j].kind = "update")
WillPublish(j) == job[j].pc = "publishing" \/ (job[j].pc = "saved" /\ job[j].kind = "publish")
WillRestore(j) == job[j].kind = "restore" /\ job[j].pc \in {"restoring", "answered"}

Sound(j, m) ==
  /\ job[j].pc = "starring" /\ job[j].rev = rev => Agrees(job[j].snap[m[1]], m)
  /\ m[1] = job[j].dash =>
       /\ Copied(j) => Agrees(job[j].snap, m)
       /\ WillPublish(j) => Agrees(server[job[j].dash], m)
       /\ ~WillRestore(j)

InFlight(l) == load[l].pc \in {"sent", "read"}

JobsSound == \A m \in safe, j \in Jobs : Waiting(j) => Sound(j, m)
NoLoadBehind == \A l \in Loads : InFlight(l) /\ load[l].rev = rev => safe = {}
NoneWithout == selected = None => safe = {}

SafeInv == JobsSound /\ NoLoadBehind /\ NoneWithout

(* The page keeps the edit in a step. *)
Stays(m) == m[2] \in page'[m[1]] <=> m[2] \in page[m[1]]

LEMMA IsPair == ASSUME NEW m \in Dashboards \X Elements PROVE m[1] \in Dashboards /\ m[2] \in Elements /\ m = <<m[1], m[2]>>
OBVIOUS

LEMMA StillSound ==
  ASSUME NEW j \in Jobs, NEW m, Sound(j, m), job'[j] = job[j], Stays(m),
         m[1] = job[j].dash /\ WillPublish(j) => (m[2] \in server'[job[j].dash] <=> m[2] \in server[job[j].dash]),
         rev' = rev \/ rev' # job[j].rev
  PROVE  Sound(j, m)'
BY DEF Sound, Stays, Agrees, Copied, WillPublish, WillRestore

LEMMA EmptyIsSafe == safe' = {} => SafeInv'
BY DEF SafeInv, JobsSound, NoLoadBehind, NoneWithout

LEMMA LoadStepSafe ==
  ASSUME Types, SafeInv, NEW l \in Loads, LoadStep(l)
  PROVE  SafeInv'
<1>0. load \in [Loads -> {Free} \cup BusyLoads]
  BY DEF Types, LoadTypes
<1>1. CASE AcceptLoad(l)
  <2>1. safe = {} /\ safe' = safe
    BY <1>1 DEF AcceptLoad, IsCurrentWorkspaceLoad, SafeInv, NoLoadBehind, InFlight
  <2> QED BY <2>1, EmptyIsSafe
<1>2. ASSUME UNCHANGED <<selected, page, job, server, safe, rev>>, OtherLoadsStay(l),
             InFlight(l)' => InFlight(l) /\ load'[l].rev = load[l].rev
      PROVE  SafeInv'
  <2>1. JobsSound'
    BY <1>2, StillSound DEF SafeInv, JobsSound, Stays, Waiting
  <2>2. NoLoadBehind'
    BY <1>2 DEF SafeInv, NoLoadBehind, OtherLoadsStay, InFlight
  <2>3. NoneWithout'
    BY <1>2 DEF SafeInv, NoneWithout
  <2> QED BY <2>1, <2>2, <2>3 DEF SafeInv
<1>3. CASE ReadServer(l)
  <2>1. load[l] \in BusyLoads /\ load[l].pc = "sent"
    BY <1>0, <1>3, FreeIsFree DEF ReadServer, Free
  <2>2. OtherLoadsStay(l) /\ load'[l].rev = load[l].rev
    BY <1>0, <1>3, <2>1 DEF ReadServer, OtherLoadsStay, BusyLoads
  <2> QED BY <1>2, <1>3, <2>1, <2>2 DEF ReadServer, state, rest, outside, history, InFlight
<1>4. CASE DropLoad(l) \/ FailLoad(l) \/ RefreshConversation(l)
  <2>1. load' = [load EXCEPT ![l] = Free] /\ UNCHANGED <<selected, page, job, server, safe, rev>>
    BY <1>4 DEF DropLoad, FailLoad, RefreshConversation, rest, outside, history
  <2>2. OtherLoadsStay(l) /\ load'[l] = Free
    BY <2>1, LoadFrees
  <2> QED BY <1>2, <2>1, <2>2, FreeIsFree DEF InFlight
<1> QED BY <1>1, <1>3, <1>4 DEF LoadStep

(* An edit becomes safe only if nothing can write over it, or stops being. *)
LEMMA EditSafe ==
  ASSUME Types, SafeInv, NEW e \in Elements, selected \in Dashboards, Edited(selected, e),
         UNCHANGED <<job, load, server, selected>>, RevisionGrows,
         \A m \in Dashboards \X Elements : m # <<selected, e>> => Stays(m)
  PROVE  SafeInv'
<1>1. ASSUME NEW m \in safe', NEW j \in Jobs, Waiting(j) PROVE Sound(j, m)'
  <2>1. rev' = rev \/ rev' # job[j].rev
    BY <1>1, JobFacts DEF RevisionGrows
  <2>2. CASE m # <<selected, e>>
    <3>1. m \in safe /\ m \in Dashboards \X Elements
      BY <2>2 DEF Edited, Types
    <3>2. Sound(j, m) /\ Stays(m)
      BY <1>1, <2>2, <3>1 DEF SafeInv, JobsSound
    <3> QED BY <2>1, <3>2, StillSound
  <2>3. CASE m = <<selected, e>>
    <3>1. ~MayOverwrite(selected) /\ m[1] = selected
      BY <2>3 DEF Edited
    <3>2. IF job[j].kind = "favourite" THEN job[j].rev # rev
          ELSE job[j].dash # selected \/ job[j].kind = "create" \/ job[j].pc = "refreshing"
      BY <1>1, <3>1 DEF MayOverwrite
    <3>3. InProgram(job[j]) /\ job[j].rev \in Nat /\ job[j].rev <= rev /\ rev \in Nat
      BY <1>1, JobFacts
    <3>4. CASE job[j].kind = "favourite"
      <4>1. job[j].pc = "starring" /\ job[j].rev # rev'
        BY <3>2, <3>3, <3>4 DEF InProgram, RevisionGrows
      <4> QED BY <3>4, <4>1 DEF Sound, Copied, WillPublish, WillRestore
    <3>5. CASE job[j].kind # "favourite"
      <4>1. job[j].pc # "starring"
        BY <3>3, <3>5 DEF InProgram
      <4> QED BY <3>1, <3>2, <3>3, <3>5, <4>1 DEF Sound, Copied, WillPublish, WillRestore, InProgram
    <3> QED BY <3>4, <3>5
  <2> QED BY <2>2, <2>3
<1>2. JobsSound'
  BY <1>1 DEF JobsSound, Waiting
<1>3. ASSUME NEW l \in Loads, InFlight(l), load[l].rev = rev' PROVE safe' = {}
  <2>1. load[l].rev = rev
    BY <1>3 DEF RevisionGrows, Types, LoadTypes, LoadType, BusyLoads, PageTypes, InFlight
  <2>2. MayOverwrite(selected) /\ safe = {}
    BY <1>3, <2>1 DEF MayOverwrite, InFlight, SafeInv, NoLoadBehind
  <2> QED BY <2>2 DEF Edited
<1>4. NoLoadBehind'
  BY <1>3 DEF NoLoadBehind, InFlight
<1>5. NoneWithout'
  BY WorkspaceAssumption DEF NoneWithout
<1> QED BY <1>2, <1>4, <1>5 DEF SafeInv

LEMMA EditsSafe ==
  ASSUME Types, SafeInv, NEW e \in Elements, EditElement(e) \/ CreateManualElement(e)
  PROVE  SafeInv'
<1>1. selected \in Dashboards
  BY CanEditSelects DEF EditElement, CreateManualElement
<1>2. Edited(selected, e) /\ UNCHANGED <<job, load, server, selected>> /\ RevisionGrows
  BY DEF EditElement, CreateManualElement, RevisionGrows
<1>3. ASSUME NEW m \in Dashboards \X Elements, m # <<selected, e>> PROVE Stays(m)
  <2>1. page \in Pages /\ m[1] \in Dashboards /\ m[2] \in Elements
    BY <1>3, IsPair DEF Types, PageTypes
  <2>2. m[1] = selected => m[2] # e
    BY <1>3, IsPair
  <2>3. page' = [page EXCEPT ![selected] = (@ \ {e}) \cup ({e} \ @)] \/ page' = [page EXCEPT ![selected] = @ \cup {e}]
    BY DEF EditElement, CreateManualElement
  <2>4. CASE m[1] = selected
    BY <1>1, <2>1, <2>2, <2>3, <2>4 DEF Stays, Pages
  <2>5. CASE m[1] # selected
    BY <1>1, <2>1, <2>3, <2>5 DEF Stays, Pages
  <2> QED BY <2>4, <2>5
<1> QED BY <1>1, <1>2, <1>3, EditSafe

(* An action begins: with a copy of the page, or with nothing to protect.  *)
LEMMA StartSafe ==
  ASSUME Types, SafeInv, NEW j \in Jobs, NEW k, NEW p, NEW s, Started(j, k, p, s), rev' = rev + 1,
         UNCHANGED <<load, page, server, selected>>, safe' \subseteq safe,
         \A m \in safe' : Sound(j, m)'
  PROVE  SafeInv'
<1>1. ASSUME NEW m \in safe', NEW i \in Jobs, i # j, Waiting(i) PROVE Sound(i, m)'
  <2>1. job'[i] = job[i] /\ m \in safe /\ Stays(m)
    BY <1>1 DEF Started, OthersStay, Stays
  <2>2. Sound(i, m) /\ rev' # job[i].rev
    BY <1>1, <2>1, JobFacts DEF SafeInv, JobsSound
  <2> QED BY <2>1, <2>2, StillSound
<1>2. JobsSound'
  BY <1>1 DEF JobsSound, Waiting, Started, OthersStay
<1>3. NoLoadBehind'
  <2>1. ASSUME NEW l \in Loads, InFlight(l), load[l].rev = rev + 1 PROVE FALSE
    BY <2>1 DEF Types, LoadTypes, LoadType, BusyLoads, PageTypes, InFlight
  <2> QED BY <2>1 DEF NoLoadBehind, InFlight
<1>4. NoneWithout'
  BY DEF SafeInv, NoneWithout
<1> QED BY <1>2, <1>3, <1>4 DEF SafeInv

LEMMA ActionsSafe ==
  ASSUME Types, SafeInv, UserActs \/ SetDashboardFavorite
  PROVE  SafeInv'
<1>1. ASSUME NEW k \in {"save", "publish", "create", "update"}, NEW p \in {"sent", "publishing", "planning"},
             Begins(k, p), safe' \subseteq safe,
             p = "publishing" => \A m \in safe' : m[1] = selected => Agrees(server[selected], m)
      PROVE  SafeInv'
  <2>1. PICK j \in Jobs : Started(j, k, p, page[selected])
    BY <1>1 DEF Begins
  <2>2. rev' = rev + 1 /\ UNCHANGED <<load, page, server, selected>>
    BY <1>1 DEF Begins, outside
  <2>3. ASSUME NEW m \in safe' PROVE Sound(j, m)'
    BY <1>1, <2>1, <2>2, <2>3 DEF Started, Sound, Agrees, Copied, WillPublish, WillRestore
  <2> QED BY <1>1, <2>1, <2>2, <2>3, StartSafe
<1>2. CASE SaveDraft
  BY <1>1, <1>2, ActionsBegin DEF SaveDraft
<1>3. CASE PublishSelectedDashboard
  <2>1. CASE dirty
    <3>1. Begins("publish", "sent") /\ safe' \subseteq safe
      BY <1>3, <2>1, ActionsBegin DEF PublishSelectedDashboard
    <3> QED BY <1>1, <3>1
  <2>2. CASE ~dirty
    <3>1. Begins("publish", "publishing") /\ safe' \subseteq safe
          /\ \A m \in safe' : m[1] = selected => Agrees(server[selected], m)
      BY <1>3, <2>2, ActionsBegin DEF PublishSelectedDashboard, Agrees
    <3> QED BY <1>1, <3>1
  <2> QED BY <2>1, <2>2
<1>4. CASE RestoreVersion
  BY <1>4, EmptyIsSafe DEF RestoreVersion
<1>5. CASE AskForElement
  BY <1>1, <1>5, ActionsBegin DEF AskForElement
<1>6. CASE AskForUpdate
  BY <1>1, <1>6, ActionsBegin DEF AskForUpdate
<1>7. CASE SetDashboardFavorite
  <2>1. Stars
    BY <1>7, FavoriteStars
  <2>2. PICK j \in Jobs : Started(j, "favourite", "starring", page)
    BY <2>1 DEF Stars
  <2>3. rev' = rev + 1 /\ UNCHANGED <<load, page, server, selected>> /\ safe' = safe
    BY <2>1 DEF Stars, outside
  <2>4. ASSUME NEW m \in safe' PROVE Sound(j, m)'
    BY <2>2, <2>3, <2>4 DEF Started, Sound, Agrees, Copied, WillPublish, WillRestore
  <2> QED BY <2>2, <2>3, <2>4, StartSafe
<1> QED BY <1>2, <1>3, <1>4, <1>5, <1>6, <1>7 DEF UserActs

(* An answer keeps them on the page. *)
LEMMA JobStepKeeps ==
  ASSUME Types, SafeInv, NEW j \in Jobs, JobStep(j), NEW m \in safe
  PROVE  Stays(m)
<1>1. m \in Dashboards \X Elements /\ m[1] \in Dashboards /\ m[2] \in Elements /\ m = <<m[1], m[2]>> /\ page \in Pages
  BY IsPair DEF Types, PageTypes
<1>2. Waiting(j) => Sound(j, m) /\ InProgram(job[j])
  BY JobFacts DEF SafeInv, JobsSound
<1>3. CASE ServerSaves(j) \/ ServerPublishes(j) \/ ServerRestores(j) \/ Refreshed(j) \/ FailAction(j) \/ AnswerFavorite(j)
  BY <1>3 DEF ServerSaves, ServerPublishes, ServerRestores, Refreshed, FailAction, AnswerFavorite, state, Stays
<1>4. CASE AnswerDraft(j)
  <2>1. Waiting(j) /\ Copied(j) /\ page' = [page EXCEPT ![job[j].dash] = job[j].snap]
    BY <1>4 DEF AnswerDraft, Waiting, Copied
  <2>2. CASE m[1] = job[j].dash
    BY <1>1, <1>2, <2>1, <2>2 DEF Sound, Agrees, Stays, Pages
  <2>3. CASE m[1] # job[j].dash
    BY <1>1, <2>1, <2>3 DEF Stays, Pages
  <2> QED BY <2>2, <2>3
<1>5. ASSUME NEW e \in Elements, ApplyCreate(j, e) PROVE Stays(m)
  <2>1. selected # None
    BY DEF SafeInv, NoneWithout
  <2>2. <<selected, e>> \notin safe /\ page' = [page EXCEPT ![selected] = page[selected] \cup {e}]
    BY <1>5, <2>1 DEF ApplyCreate
  <2>3. CASE m[1] = selected
    <3>1. m[2] # e
      BY <1>1, <2>2, <2>3
    <3> QED BY <1>1, <2>2, <2>3, <3>1 DEF Stays, Pages
  <2>4. CASE m[1] # selected
    BY <1>1, <2>2, <2>4 DEF Stays, Pages
  <2> QED BY <2>3, <2>4
<1>6. CASE ApplyUpdate(j)
  <2>1. Waiting(j) /\ Copied(j) /\ page' = [page EXCEPT ![job[j].dash] = job[j].snap]
    BY <1>6 DEF ApplyUpdate, Waiting, Copied
  <2>2. CASE m[1] = job[j].dash
    BY <1>1, <1>2, <2>1, <2>2 DEF Sound, Agrees, Stays, Pages
  <2>3. CASE m[1] # job[j].dash
    BY <1>1, <2>1, <2>3 DEF Stays, Pages
  <2> QED BY <2>2, <2>3
<1>7. CASE FailFavorite(j)
  BY <1>2, <1>7 DEF FailFavorite, Waiting, Sound, Agrees, Stays
<1> QED BY <1>3, <1>4, <1>5, <1>6, <1>7 DEF JobStep

LEMMA JobStepSafe ==
  ASSUME Types, SafeInv, NEW j \in Jobs, JobStep(j)
  PROVE  SafeInv'
<1>1. /\ UNCHANGED <<load, rev, safe, selected>>
  BY DEF JobStep, ServerSaves, ServerPublishes, ServerRestores, AnswerDraft, ApplyCreate, ApplyUpdate, Refreshed,
         FailAction, AnswerFavorite, FailFavorite, EndAction, state, rest, history
<1>2. \A m \in safe : Stays(m)
  BY JobStepKeeps
<1>3. NoLoadBehind' /\ NoneWithout'
  BY <1>1 DEF SafeInv, NoLoadBehind, InFlight, NoneWithout
<1>4. JobsSound'
  <2>1. ASSUME OthersStay(j), Waiting(j),
               \A m \in safe, i \in Jobs : Waiting(i) /\ WillPublish(i) /\ m[1] = job[i].dash =>
                 (m[2] \in server'[job[i].dash] <=> m[2] \in server[job[i].dash]),
               \A m \in safe : Waiting(j)' => Sound(j, m)'
        PROVE  JobsSound'
    <3>1. ASSUME NEW m \in safe, NEW i \in Jobs, i # j, Waiting(i) PROVE Sound(i, m)'
      BY <1>1, <1>2, <2>1, <3>1, StillSound DEF SafeInv, JobsSound, OthersStay
    <3> QED BY <1>1, <2>1, <3>1 DEF JobsSound, Waiting, OthersStay
  <2>2. CASE ServerSaves(j)
    <3>1. Moved(j, "saved", job[j].snap) /\ OthersStay(j)
      BY <2>2, ServerMoves DEF Moved
    <3>2. Waiting(j) /\ job[j].pc = "sent" /\ Copied(j) /\ page' = page
          /\ server' = [server EXCEPT ![job[j].dash] = job[j].snap]
      BY <2>2 DEF ServerSaves, Waiting, Copied, state
    <3>3. server \in Pages /\ job[j].dash \in Dashboards /\ InProgram(job[j])
      BY <3>2, JobFacts DEF InProgram, Types, PageTypes
    <3>4. ASSUME NEW m \in safe, m[1] = job[j].dash PROVE Agrees(job[j].snap, m)
      BY <3>2, <3>4 DEF SafeInv, JobsSound, Sound
    <3>5. ASSUME NEW m \in safe, NEW i \in Jobs, Waiting(i), WillPublish(i), m[1] = job[i].dash
          PROVE  m[2] \in server'[job[i].dash] <=> m[2] \in server[job[i].dash]
      <4>1. Agrees(server[job[i].dash], m) /\ job[i].dash \in Dashboards
        BY <3>5, JobFacts DEF SafeInv, JobsSound, Sound, WillPublish, InProgram
      <4>2. CASE job[i].dash = job[j].dash
        BY <3>2, <3>3, <3>4, <3>5, <4>1, <4>2 DEF Agrees, Pages
      <4>3. CASE job[i].dash # job[j].dash
        BY <3>2, <3>3, <4>1, <4>3 DEF Pages
      <4> QED BY <4>2, <4>3
    <3>6. ASSUME NEW m \in safe PROVE Sound(j, m)'
      BY <3>1, <3>2, <3>3, <3>4 DEF Moved, Sound, Agrees, Copied, WillPublish, WillRestore, InProgram, Pages
    <3> QED BY <2>1, <3>1, <3>2, <3>5, <3>6
  <2>3. CASE ServerPublishes(j)
    <3>1. Moved(j, "answered", server[job[j].dash]) /\ OthersStay(j)
      BY <2>3, ServerMoves DEF Moved
    <3>2. Waiting(j) /\ WillPublish(j) /\ job[j].pc = "publishing" /\ page' = page /\ server' = server
      BY <2>3 DEF ServerPublishes, Waiting, WillPublish, state
    <3>3. InProgram(job[j])
      BY <3>2, JobFacts
    <3>4. ASSUME NEW m \in safe PROVE Sound(j, m)'
      <4>1. m[1] = job[j].dash => Agrees(server[job[j].dash], m)
        BY <3>2 DEF SafeInv, JobsSound, Sound
      <4> QED BY <3>1, <3>2, <3>3, <4>1 DEF Moved, Sound, Agrees, Copied, WillPublish, WillRestore, InProgram
    <3> QED BY <2>1, <3>1, <3>2, <3>4
  <2>4. CASE ServerRestores(j)
    <3>1. Moved(j, "answered", published[job[j].dash]) /\ OthersStay(j)
      BY <2>4, ServerMoves DEF Moved
    <3>2. Waiting(j) /\ job[j].pc = "restoring" /\ page' = page
          /\ server' = [server EXCEPT ![job[j].dash] = published[job[j].dash]]
      BY <2>4 DEF ServerRestores, Waiting, state
    <3>3. WillRestore(j) /\ server \in Pages
      BY <3>2, JobFacts DEF InProgram, WillRestore, Types, PageTypes
    <3>4. ASSUME NEW m \in safe PROVE m[1] # job[j].dash
      BY <3>2, <3>3 DEF SafeInv, JobsSound, Sound
    <3>5. ASSUME NEW m \in safe, NEW i \in Jobs, m[1] = job[i].dash
          PROVE  m[2] \in server'[job[i].dash] <=> m[2] \in server[job[i].dash]
      <4>1. m[1] \in Dashboards
        BY IsPair DEF Types
      <4> QED BY <3>2, <3>3, <3>4, <3>5, <4>1 DEF Pages
    <3>6. ASSUME NEW m \in safe PROVE Sound(j, m)'
      BY <3>1, <3>2, <3>4 DEF Moved, Sound
    <3> QED BY <2>1, <3>1, <3>2, <3>5, <3>6
  <2>5. CASE AnswerDraft(j)
    <3>1. Moved(j, After(j), {}) /\ OthersStay(j)
      BY <2>5, AnswerMovesOn DEF Moved
    <3>2. Waiting(j) /\ server' = server
      BY <2>5 DEF AnswerDraft, Waiting, rest, outside
    <3>3. ASSUME NEW m \in safe PROVE Sound(j, m)'
      <4>1. Sound(j, m) /\ Stays(m)
        BY <1>2, <3>2 DEF SafeInv, JobsSound
      <4> QED BY <3>1, <3>2, <4>1 DEF Moved, After, Sound, Agrees, Stays, Copied, WillPublish, WillRestore
    <3> QED BY <2>1, <3>1, <3>2, <3>3
  <2>6. CASE Ends(j)
    <3>1. Waiting(j) /\ OthersStay(j) /\ server' = server /\ job'[j].pc = "free"
      BY <2>6, EndsEnd, FreeIsFree DEF Ended
    <3> QED BY <2>1, <3>1 DEF Waiting
  <2> QED BY <2>2, <2>3, <2>4, <2>5, <2>6, JobStepIs
<1> QED BY <1>3, <1>4 DEF SafeInv

LEMMA SafeStep == Types /\ SafeInv /\ [Next]_vars => SafeInv'
<1> SUFFICES ASSUME Types, SafeInv, [Next]_vars PROVE SafeInv'
  OBVIOUS
<1>1. ASSUME NEW r \in Routes, Navigate(r) PROVE SafeInv'
  BY <1>1, EmptyIsSafe DEF Navigate, GoTo
<1>2. CASE DiscardDraft
  BY <1>2, EmptyIsSafe DEF DiscardDraft, GoTo
<1>3. CASE UndoLastAiChange
  BY <1>3, EmptyIsSafe DEF UndoLastAiChange
<1>4. CASE UNCHANGED vars
  BY <1>4 DEF vars, state, rest, outside, history, SafeInv, JobsSound, NoLoadBehind, NoneWithout, Sound, Agrees,
             Copied, WillPublish, WillRestore, InFlight, Waiting
<1> QED BY <1>1, <1>2, <1>3, <1>4, LoadStepSafe, EditsSafe, ActionsSafe, JobStepSafe, NextDoes

LEMMA SafeHolds == Spec => [](Types /\ SafeInv)
<1>1. Init => Types /\ SafeInv
  BY InitTyped DEF Init, SafeInv, JobsSound, NoLoadBehind, NoneWithout
<1>2. Types /\ SafeInv /\ [Next]_vars => (Types /\ SafeInv)'
  BY TypesStep, SafeStep
<1> QED BY <1>1, <1>2, PTL DEF Spec

(* No answer takes an edit away that was made while nothing was under way  *)
(* that could write over it (saveDraft, publishSelectedDashboard and the   *)
(* other actions that put an answer in the place of the page's copy).      *)
THEOREM EditsKeptHolds == Spec => EditsKept
<1>1. Types /\ SafeInv /\ [Next]_vars =>
        [Answers => \A m \in safe : m[2] \in page[m[1]] <=> m[2] \in page'[m[1]]]_vars
  <2> SUFFICES ASSUME Types, SafeInv, Answers, NEW m \in safe
               PROVE  m[2] \in page[m[1]] <=> m[2] \in page'[m[1]]
    OBVIOUS
  <2>1. CASE \E j \in Jobs : JobStep(j)
    BY <2>1, JobStepKeeps DEF Stays
  <2>2. ASSUME NEW l \in Loads, LoadStep(l) PROVE page' = page
    <3>1. ~AcceptLoad(l)
      BY DEF AcceptLoad, IsCurrentWorkspaceLoad, SafeInv, NoLoadBehind, InFlight
    <3> QED BY <2>2, <3>1 DEF LoadStep, ReadServer, DropLoad, FailLoad, RefreshConversation, state
  <2> QED BY <2>1, <2>2 DEF Answers
<1> QED BY <1>1, SafeHolds, PTL DEF Spec, EditsKept

-----------------------------------------------------------------------------
(* An action that no other overlaps holds isSaving, so that no load is     *)
(* accepted and the dashboard it was begun on stays selected.              *)

Latest(j) == job[j].alone /\ job[j].rev = rev

AloneInv ==
  \A j \in Acting : Latest(j) => saving /\ selected = job[j].dash /\ \A k \in Acting : k = j

LEMMA ActingAre == \A j \in Jobs : j \in Acting <=> job[j].pc # "free" /\ job[j].kind # "favourite"
BY DEF Acting, Waiting

(* What the steps of an action leave alone. *)
LEMMA JobStepLeaves ==
  ASSUME Types, NEW j \in Jobs, JobStep(j)
  PROVE  /\ UNCHANGED <<rev, selected, load, safe>> /\ OthersStay(j) /\ Waiting(j)
         /\ \/ /\ Ends(j) /\ job'[j].pc = "free"
               /\ job[j].kind = "favourite" => saving' = saving
            \/ /\ ~Ends(j) /\ saving' = saving
               /\ job'[j].kind = job[j].kind /\ job'[j].dash = job[j].dash /\ job'[j].rev = job[j].rev
               /\ job'[j].alone = job[j].alone /\ job'[j].pc # "free" /\ job[j].kind # "favourite"
<1>1. UNCHANGED <<rev, selected, load, safe>>
  BY DEF JobStep, ServerSaves, ServerPublishes, ServerRestores, AnswerDraft, ApplyCreate, ApplyUpdate, Refreshed,
         FailAction, AnswerFavorite, FailFavorite, EndAction, state, rest, history
<1>2. CASE Ends(j)
  <2>1. OthersStay(j) /\ Waiting(j) /\ job'[j].pc = "free"
    BY <1>2, EndsEnd, FreeIsFree DEF Ended
  <2>2. ASSUME job[j].kind = "favourite" PROVE saving' = saving
    <3>1. job[j].pc = "starring"
      BY <2>1, <2>2, JobFacts DEF InProgram
    <3> QED BY <1>2, <3>1, <2>2 DEF Ends, ApplyCreate, ApplyUpdate, Refreshed, FailAction, Acting, AnswerFavorite,
                 FailFavorite, state
  <2> QED BY <1>1, <1>2, <2>1, <2>2
<1>3. CASE ~Ends(j)
  <2>1. ServerSaves(j) \/ ServerPublishes(j) \/ ServerRestores(j) \/ AnswerDraft(j)
    BY <1>3, JobStepIs
  <2>2. Waiting(j) /\ saving' = saving /\ job[j].pc \in {"sent", "publishing", "restoring", "saved", "answered"}
    BY <2>1 DEF ServerSaves, ServerPublishes, ServerRestores, AnswerDraft, Waiting, state
  <2>3. PICK p, s : p \in {"saved", "answered", "publishing", "refreshing"} /\ Moved(j, p, s)
    BY <2>1, ServerMoves, AnswerMovesOn DEF After
  <2>4. job[j].kind # "favourite"
    BY <2>2, JobFacts DEF InProgram
  <2> QED BY <1>1, <1>3, <2>2, <2>3, <2>4 DEF Moved
<1> QED BY <1>2, <1>3

LEMMA AloneStep == Types /\ AloneInv /\ [Next]_vars => AloneInv'
<1> SUFFICES ASSUME Types, AloneInv, [Next]_vars PROVE AloneInv'
  OBVIOUS
<1>1. ASSUME UNCHANGED <<job, rev, selected, saving>> PROVE AloneInv'
  BY <1>1 DEF AloneInv, Acting, Waiting, Latest
<1>2. ASSUME NEW r \in Routes, Navigate(r) PROVE AloneInv'
  BY <1>1, <1>2 DEF Navigate, GoTo
<1>3. CASE DiscardDraft
  BY <1>1, <1>3 DEF DiscardDraft, GoTo
<1>4. ASSUME NEW l \in Loads, LoadStep(l) PROVE AloneInv'
  <2>1. CASE AcceptLoad(l)
    <3>1. ~saving /\ UNCHANGED <<job, rev, saving>>
      BY <2>1 DEF AcceptLoad, IsCurrentWorkspaceLoad
    <3> QED BY <3>1 DEF AloneInv, Acting, Waiting, Latest
  <2>2. CASE ~AcceptLoad(l)
    BY <1>1, <1>4, <2>2 DEF LoadStep, ReadServer, DropLoad, FailLoad, RefreshConversation, state, rest
  <2> QED BY <2>1, <2>2
<1>5. ASSUME NEW e \in Elements, EditElement(e) PROVE AloneInv'
  BY <1>1, <1>5 DEF EditElement
<1>6. ASSUME NEW e \in Elements, CreateManualElement(e) PROVE AloneInv'
  <2>1. UNCHANGED job /\ rev' = rev + 1
    BY <1>6 DEF CreateManualElement
  <2>2. ASSUME NEW j \in Acting PROVE job[j].rev # rev'
    BY <2>1, JobFacts DEF Acting
  <2> QED BY <2>1, <2>2 DEF AloneInv, Acting, Waiting, Latest
<1>7. CASE UndoLastAiChange
  BY <1>1, <1>7 DEF UndoLastAiChange
<1>8. ASSUME NEW j \in Jobs, NEW k, NEW p, NEW s, Started(j, k, p, s), rev' = rev + 1, selected' = selected,
             k # "favourite" => saving' = TRUE
      PROVE  AloneInv'
  <2>1. ASSUME NEW i \in Jobs, i # j, i \in Acting' PROVE i \in Acting /\ job'[i].rev # rev'
    <3>1. i \in Acting /\ job'[i] = job[i]
      BY <1>8, <2>1 DEF Started, OthersStay, Acting, Waiting
    <3> QED BY <1>8, <3>1, JobFacts DEF Acting
  <2>2. ASSUME j \in Acting', Latest(j)' PROVE saving' /\ selected' = job'[j].dash /\ \A i \in Acting' : i = j
    <3>1. Acting = {} /\ k # "favourite" /\ selected' = job'[j].dash
      BY <1>8, <2>2 DEF Started, Latest, Acting
    <3>2. \A i \in Acting' : i = j
      BY <2>1, <3>1 DEF Acting
    <3> QED BY <1>8, <3>1, <3>2
  <2> QED BY <2>1, <2>2 DEF AloneInv, Latest, Acting
<1>9. CASE UserActs
  <2>1. PICK k, p : Begins(k, p) /\ JobTypes'
    BY <1>9, ActionsBegin DEF UserActs
  <2> QED BY <1>8, <2>1 DEF Begins
<1>10. CASE SetDashboardFavorite
  BY <1>8, <1>10, FavoriteStars DEF Stars
<1>11. ASSUME NEW j \in Jobs, JobStep(j) PROVE AloneInv'
  <2>1. UNCHANGED <<rev, selected>> /\ OthersStay(j) /\ Waiting(j)
    BY <1>11, JobStepLeaves
  <2>2. CASE job[j].kind = "favourite"
    <3>1. saving' = saving /\ job'[j].pc = "free"
      BY <1>11, <2>2, JobStepLeaves
    <3>2. Acting' = Acting /\ \A i \in Acting : job'[i] = job[i]
      BY <2>1, <2>2, <3>1 DEF Acting, Waiting, OthersStay
    <3> QED BY <2>1, <3>1, <3>2 DEF AloneInv, Latest
  <2>3. CASE job[j].kind # "favourite" /\ Ends(j)
    <3>1. job'[j].pc = "free" /\ j \in Acting
      BY <1>11, <2>1, <2>3, JobStepLeaves DEF Acting
    <3>2. ASSUME NEW i \in Acting' PROVE i \in Acting /\ i # j /\ job'[i] = job[i]
      BY <2>1, <3>1, <3>2 DEF Acting, Waiting, OthersStay
    <3> QED BY <2>1, <3>1, <3>2 DEF AloneInv, Latest
  <2>4. CASE job[j].kind # "favourite" /\ ~Ends(j)
    <3>1. /\ saving' = saving /\ job'[j].kind = job[j].kind /\ job'[j].dash = job[j].dash /\ job'[j].rev = job[j].rev
          /\ job'[j].alone = job[j].alone /\ job'[j].pc # "free"
      BY <1>11, <2>4, JobStepLeaves
    <3>2. Acting' = Acting
      BY <2>1, <2>4, <3>1 DEF Acting, Waiting, OthersStay
    <3>3. \A i \in Acting : job'[i].dash = job[i].dash /\ (Latest(i)' => Latest(i))
      BY <2>1, <3>1 DEF Acting, Latest, OthersStay
    <3> QED BY <2>1, <3>1, <3>2, <3>3 DEF AloneInv
  <2> QED BY <2>2, <2>3, <2>4
<1>12. CASE UNCHANGED vars
  BY <1>1, <1>12 DEF vars, state
<1> QED BY <1>2, <1>3, <1>4, <1>5, <1>6, <1>7, <1>9, <1>10, <1>11, <1>12, NextDoes

LEMMA AloneHolds == Spec => [](Types /\ AloneInv)
<1>1. Init => Types /\ AloneInv
  BY InitTyped, FreeIsFree DEF Init, AloneInv, Acting, Waiting
<1>2. Types /\ AloneInv /\ [Next]_vars => (Types /\ AloneInv)'
  BY TypesStep, AloneStep
<1> QED BY <1>1, <1>2, PTL DEF Spec

(* createElement adds to the dashboard that is selected by then; it is the *)
(* one the AI was asked about unless another action overlapped.            *)
THEOREM AddsWhereAskedHolds == Spec => AddsWhereAsked
<1>1. Types /\ AloneInv /\ [Next]_vars =>
        [\A j \in Jobs, e \in Elements :
           ApplyCreate(j, e) /\ job[j].alone /\ job[j].rev = rev => selected = job[j].dash]_vars
  <2> SUFFICES ASSUME AloneInv, NEW j \in Jobs, NEW e \in Elements, ApplyCreate(j, e), job[j].alone, job[j].rev = rev
               PROVE  selected = job[j].dash
    OBVIOUS
  <2>1. j \in Acting
    BY DEF ApplyCreate, Acting, Waiting
  <2> QED BY <2>1 DEF AloneInv, Latest
<1> QED BY <1>1, AloneHolds, PTL DEF Spec, AddsWhereAsked

-----------------------------------------------------------------------------
(* The chip.  Unless it is excused, at most one action is under way, on    *)
(* the dashboard that is selected; what it was answered the server keeps,  *)
(* and so does what the last AI change can be undone to, if that was clean. *)

OneAction == \A j \in Acting : saving /\ job[j].dash = selected /\ \A k \in Acting : k = j

AnsweredIsSaved ==
  \A j \in Acting : job[j].pc \in {"saved", "answered"} => job[j].snap = server[job[j].dash]

(* The server has all of x, and x nothing more but what loads have added. *)
Kept(x, d) == server[d] \subseteq x /\ x \subseteq server[d] \cup filled[d]

UndoIsSaved ==
  undo # None /\ ~undo.dirty /\ ~ActedUnanswered(undo.dash) => Kept(undo.content, undo.dash)

PageIsSaved ==
  selected # None /\ ~dirty /\ ~ActedUnanswered(selected) => Kept(page[selected], selected)

ChipInv == ~excused => OneAction /\ AnsweredIsSaved /\ UndoIsSaved /\ PageIsSaved

LEMMA SameJobsSameActed ==
  ASSUME job' = job
  PROVE  Acting' = Acting /\ \A d \in Dashboards : ActedUnanswered(d)' <=> ActedUnanswered(d)
BY DEF Acting, Waiting, ActedUnanswered

(* Steps of none of the actions under way. *)
LEMMA OutsideChip ==
  ASSUME Types, ChipInv, ~excused', UNCHANGED <<job, server>>,
         excused => Acting = {},
         Acting # {} => saving' = saving /\ selected' = selected,
         UndoIsSaved', PageIsSaved'
  PROVE  ChipInv'
BY SameJobsSameActed DEF ChipInv, OneAction, AnsweredIsSaved, Acting

LEMMA AnotherChip ==
  ASSUME ChipInv, UNCHANGED <<job, server, saving, selected, undo, page, dirty, excused, filled>>
  PROVE  ChipInv'
BY DEF Kept, ChipInv, OneAction, AnsweredIsSaved, UndoIsSaved, PageIsSaved, ActedUnanswered, Acting, Waiting

LEMMA RoutesChip ==
  ASSUME Types, ChipInv
  PROVE  /\ \A r \in Routes : Navigate(r) => ChipInv'
         /\ DiscardDraft => ChipInv'
<1>1. ASSUME NEW r \in Routes, Navigate(r), ~excused' PROVE ChipInv'
  <2>1. UNCHANGED <<job, server, saving, selected, page, dirty, excused, filled>> /\ undo' = None
    BY <1>1 DEF Navigate, GoTo
  <2> QED BY <1>1, <2>1 DEF Kept, ChipInv, OneAction, AnsweredIsSaved, UndoIsSaved, PageIsSaved, ActedUnanswered, Acting, Waiting
<1>2. DiscardDraft => excused'
  BY DEF DiscardDraft
<1> QED BY <1>1, <1>2 DEF ChipInv

LEMMA LoadStepChip ==
  ASSUME Types, ChipInv, NEW l \in Loads, LoadStep(l)
  PROVE  ChipInv'
<1>1. CASE AcceptLoad(l)
  <2> SUFFICES ASSUME ~excused' PROVE ChipInv'
    BY DEF ChipInv
  <2>1. /\ UNCHANGED <<job, server, saving, undo>> /\ selected' = load[l].route.dash /\ ~saving
        /\ Acting = {} /\ load[l].got = server /\ (excused => undo = None)
    BY <1>1 DEF AcceptLoad, IsCurrentWorkspaceLoad, outside
  <2>5. PICK missing \in MissingElements(load[l].route.dash) :
          /\ page' = [d \in Dashboards |-> IF d = load[l].route.dash THEN load[l].got[d] \cup missing
                                          ELSE IF load[l].route.edit THEN load[l].got[d] ELSE {}]
          /\ filled' = [d \in Dashboards |-> (IF undo = None THEN {} ELSE filled[d])
                         \cup (IF d = load[l].route.dash THEN missing \ load[l].got[d] ELSE {})]
    BY <1>1 DEF AcceptLoad
  <2>2. selected' \in Dashboards \cup {None}
    BY TypesStep, <1>1 DEF Types, PageTypes, Next, LoadStep
  <2>3. PageIsSaved'
    BY <2>1, <2>2, <2>5 DEF PageIsSaved, Kept
  <2>4. UndoIsSaved'
    <3>1. undo # None => undo.dash \in Dashboards /\ filled[undo.dash] \subseteq filled'[undo.dash]
      BY <2>5 DEF Types, PageTypes
    <3> QED BY <2>1, <3>1 DEF ChipInv, UndoIsSaved, ActedUnanswered, Kept
  <2> QED BY <2>1, <2>3, <2>4, OutsideChip
<1>2. CASE RefreshConversation(l)
  <2>1. UNCHANGED <<job, server, saving, selected, page, dirty, excused, filled>> /\ undo' \in {undo, None}
    BY <1>2 DEF RefreshConversation, rest, outside, history
  <2> QED BY <2>1 DEF Kept, ChipInv, OneAction, AnsweredIsSaved, UndoIsSaved, PageIsSaved, ActedUnanswered, Acting, Waiting
<1>3. CASE ReadServer(l) \/ DropLoad(l) \/ FailLoad(l)
  BY <1>3, AnotherChip DEF ReadServer, DropLoad, FailLoad, state, rest, outside, history
<1> QED BY <1>1, <1>2, <1>3 DEF LoadStep

LEMMA EditsChip ==
  ASSUME Types, ChipInv
  PROVE  /\ \A e \in Elements : EditElement(e) \/ CreateManualElement(e) => ChipInv'
         /\ UndoLastAiChange => ChipInv'
<1>1. ASSUME NEW e \in Elements, EditElement(e) \/ CreateManualElement(e), ~excused' PROVE ChipInv'
  <2>1. UNCHANGED <<job, server, selected, undo, filled>> /\ dirty' = TRUE /\ ~excused /\ (Acting # {} => saving' = saving)
    <3>1. CASE EditElement(e)
      BY <1>1, <3>1 DEF EditElement
    <3>2. CASE CreateManualElement(e)
      <4>1. excused' = (excused \/ Acting # {})
        BY <3>2 DEF CreateManualElement
      <4> QED BY <1>1, <3>2, <4>1 DEF CreateManualElement
    <3> QED BY <1>1, <3>1, <3>2
  <2>2. UndoIsSaved' /\ PageIsSaved'
    BY <2>1 DEF ChipInv, UndoIsSaved, PageIsSaved, ActedUnanswered, Kept
  <2> QED BY <1>1, <2>1, <2>2, OutsideChip
<1>2. ASSUME UndoLastAiChange, ~excused' PROVE ChipInv'
  <2>1. /\ UNCHANGED <<job, server, selected, saving, filled>> /\ undo # None /\ undo' = None /\ dirty' = undo.dirty
        /\ page' = [page EXCEPT ![undo.dash] = undo.content] /\ ~excused /\ undo.dash = selected
    BY <1>2 DEF UndoLastAiChange, outside
  <2>2. page \in Pages /\ undo.dash \in Dashboards
    BY <2>1 DEF Types, PageTypes
  <2>3. PageIsSaved'
    BY <2>1, <2>2 DEF ChipInv, UndoIsSaved, PageIsSaved, ActedUnanswered, Pages, Kept
  <2>4. UndoIsSaved'
    BY <2>1 DEF UndoIsSaved
  <2> QED BY <1>2, <2>1, <2>3, <2>4, OutsideChip
<1> QED BY <1>1, <1>2 DEF ChipInv

LEMMA ActionsChip ==
  ASSUME Types, ChipInv, UserActs \/ SetDashboardFavorite
  PROVE  ChipInv'
<1> SUFFICES ASSUME ~excused' PROVE ChipInv'
  BY DEF ChipInv
<1>1. ASSUME NEW j \in Jobs, NEW k, NEW p, NEW s, Started(j, k, p, s), p \notin {"saved", "answered"},
             UNCHANGED <<server, selected, undo, page, dirty, filled>>, ~excused,
             \/ k = "favourite" /\ saving' = saving
             \/ k # "favourite" /\ Acting = {} /\ saving' = TRUE
      PROVE  ChipInv'
  <2>1. /\ job[j].pc = "free" /\ job'[j].pc = p /\ job'[j].kind = k /\ job'[j].dash = selected
        /\ \A i \in Jobs : i # j => job'[i] = job[i]
    BY <1>1 DEF Started, OthersStay
  <2>2. \A d \in Dashboards : ActedUnanswered(d)' <=> ActedUnanswered(d)
    BY <1>1, <2>1 DEF ActedUnanswered
  <2>3. OneAction'
    <3>1. CASE k = "favourite"
      <4>1. Acting' = Acting /\ \A i \in Acting : job'[i] = job[i]
        BY <2>1, <3>1 DEF Acting, Waiting
      <4> QED BY <1>1, <3>1, <4>1 DEF ChipInv, OneAction
    <3>2. CASE k # "favourite"
      <4>1. \A i \in Acting' : i = j
        BY <1>1, <2>1, <3>2 DEF Acting, Waiting
      <4> QED BY <1>1, <2>1, <3>2, <4>1 DEF OneAction
    <3> QED BY <3>1, <3>2
  <2>4. AnsweredIsSaved'
    BY <1>1, <2>1 DEF ChipInv, AnsweredIsSaved, Acting, Waiting
  <2>5. UndoIsSaved' /\ PageIsSaved'
    BY <1>1, <2>2 DEF ChipInv, UndoIsSaved, PageIsSaved, Types, PageTypes, Kept
  <2> QED BY <2>3, <2>4, <2>5 DEF ChipInv
<1>2. CASE UserActs
  <2>1. PICK k \in {"save", "publish", "restore", "create", "update"},
             p \in {"sent", "publishing", "restoring", "planning"} : Begins(k, p)
    BY <1>2, ActionsBegin DEF UserActs
  <2>2. PICK j \in Jobs : Started(j, k, p, page[selected])
    BY <2>1 DEF Begins
  <2>3. UNCHANGED <<server, selected, undo, page, dirty, filled>> /\ saving' = TRUE /\ excused' = (excused \/ Acting # {})
    BY <2>1 DEF Begins, outside
  <2>4. ~excused /\ Acting = {}
    BY <2>3
  <2>5. k # "favourite" /\ p \notin {"saved", "answered"}
    OBVIOUS
  <2> QED BY <1>1, <2>2, <2>3, <2>4, <2>5
<1>3. CASE SetDashboardFavorite
  <2>1. Stars
    BY <1>3, FavoriteStars
  <2>2. PICK j \in Jobs : Started(j, "favourite", "starring", page)
    BY <2>1 DEF Stars
  <2>3. UNCHANGED <<server, selected, undo, page, dirty, filled, saving, excused>>
    BY <2>1 DEF Stars, outside
  <2>4. ~excused /\ saving' = saving /\ UNCHANGED <<server, selected, undo, page, dirty, filled>>
    BY <2>3
  <2>5. "starring" \notin {"saved", "answered"}
    OBVIOUS
  <2> QED BY <1>1, <2>2, <2>4, <2>5
<1> QED BY <1>2, <1>3

LEMMA JobStepChip ==
  ASSUME Types, ChipInv, NEW j \in Jobs, JobStep(j)
  PROVE  ChipInv'
<1> SUFFICES ASSUME ~excused' PROVE ChipInv'
  BY DEF ChipInv
<1>0. /\ UNCHANGED selected /\ OthersStay(j) /\ Waiting(j) /\ InProgram(job[j])
      /\ page \in Pages /\ server \in Pages /\ selected \in Dashboards \cup {None}
      /\ undo # None => undo.dash \in Dashboards
  BY JobStepLeaves, JobFacts DEF Types, PageTypes
<1>1. ~excused
  BY DEF JobStep, ServerSaves, ServerPublishes, ServerRestores, AnswerDraft, ApplyCreate, ApplyUpdate, Refreshed,
         FailAction, AnswerFavorite, FailFavorite, EndAction, state, rest, history
<1>2. OneAction /\ AnsweredIsSaved /\ UndoIsSaved /\ PageIsSaved
  BY <1>1 DEF ChipInv
<1>3. CASE job[j].kind = "favourite"
  <2>1. job[j].pc = "starring"
    BY <1>0, <1>3 DEF InProgram
  <2>2. Ends(j) /\ job'[j].pc = "free" /\ saving' = saving
    BY <1>3, JobStepLeaves
  <2>3. UNCHANGED <<server, undo, page, dirty, filled>>
    <3>1. AnswerFavorite(j) \/ FailFavorite(j)
      BY <1>3, <2>1, <2>2 DEF Ends, ApplyCreate, ApplyUpdate, Refreshed, FailAction, Acting
    <3>2. CASE AnswerFavorite(j)
      BY <3>2 DEF AnswerFavorite, state, rest, outside, history
    <3>3. CASE FailFavorite(j)
      BY <3>3 DEF FailFavorite, outside
    <3> QED BY <3>1, <3>2, <3>3
  <2>4. Acting' = Acting /\ \A i \in Acting : job'[i] = job[i]
    BY <1>0, <1>3, <2>2 DEF Acting, Waiting, OthersStay
  <2>5. \A d \in Dashboards : ActedUnanswered(d)' <=> ActedUnanswered(d)
    BY <1>0, <2>1, <2>2 DEF ActedUnanswered, OthersStay
  <2> QED BY <1>0, <1>2, <2>2, <2>3, <2>4, <2>5
          DEF ChipInv, OneAction, AnsweredIsSaved, UndoIsSaved, PageIsSaved, Kept
<1>4. CASE job[j].kind # "favourite"
  <2>1. Acting = {j} /\ saving /\ job[j].dash = selected /\ selected \in Dashboards /\ job[j].snap \in SUBSET Elements
    BY <1>0, <1>2, <1>4, JobFacts DEF OneAction, Acting
  <2>2. CASE Ends(j)
    <3>1. job'[j].pc = "free" /\ server' = server
      BY <2>2, EndsEnd, JobStepLeaves
    <3>2. Acting' = {}
      BY <1>0, <2>1, <3>1 DEF Acting, Waiting, OthersStay
    <3>3. UndoIsSaved' /\ PageIsSaved'
      <4>0. job[j].pc = "planning" => ~ActedUnanswered(selected)
        <5>1. ASSUME NEW i \in Jobs, job[i].pc \in {"saved", "answered"} PROVE i = j
          <6>1. Waiting(i) /\ job[i].kind # "favourite"
            BY <5>1, JobFacts DEF Waiting, InProgram
          <6> QED BY <2>1, <6>1 DEF Acting
        <5> QED BY <5>1 DEF ActedUnanswered
      <4>1. ASSUME NEW e \in Elements, ApplyCreate(j, e) PROVE dirty' = TRUE /\ filled' = filled /\ CaptureAiUndoState /\ ~ActedUnanswered(selected)
        BY <4>0, <4>1 DEF ApplyCreate, rest, history
      <4>2. ASSUME ApplyUpdate(j) PROVE dirty' = TRUE /\ filled' = filled /\ CaptureAiUndoState /\ ~ActedUnanswered(selected)
        BY <4>0, <4>2 DEF ApplyUpdate, rest, history
      <4>3. CASE dirty' = TRUE /\ filled' = filled /\ CaptureAiUndoState /\ ~ActedUnanswered(selected)
        <5>1. undo'.dash = selected /\ undo'.content = page[selected] /\ undo'.dirty = dirty
          BY <2>1, <4>3, WorkspaceAssumption DEF CaptureAiUndoState
        <5>2. UndoIsSaved'
          BY <1>2, <2>1, <3>1, <4>3, <5>1, WorkspaceAssumption DEF UndoIsSaved, PageIsSaved, Kept
        <5> QED BY <4>3, <5>2 DEF PageIsSaved
      <4>4. CASE Refreshed(j) \/ FailAction(j)
        <5>1. UNCHANGED <<undo, page, dirty, filled>> /\ job[j].pc \notin {"saved", "answered"}
          BY <1>1, <4>4 DEF Refreshed, FailAction, rest, outside, history
        <5>2. \A d \in Dashboards : ActedUnanswered(d)' <=> ActedUnanswered(d)
          BY <1>0, <3>1, <5>1 DEF ActedUnanswered, OthersStay
        <5> QED BY <1>0, <1>2, <3>1, <5>1, <5>2 DEF UndoIsSaved, PageIsSaved, Kept
      <4>5. ~AnswerFavorite(j) /\ ~FailFavorite(j)
        BY <1>0, <1>4 DEF AnswerFavorite, FailFavorite, InProgram
      <4> QED BY <2>2, <4>1, <4>2, <4>3, <4>4, <4>5 DEF Ends
    <3> QED BY <3>2, <3>3 DEF ChipInv, OneAction, AnsweredIsSaved
  <2>3. CASE ~Ends(j)
    <3>1. saving' = saving /\ job'[j].kind = job[j].kind /\ job'[j].dash = job[j].dash /\ job'[j].pc # "free"
      BY <2>3, JobStepLeaves
    <3>2. Acting' = {j} /\ OneAction'
      BY <1>0, <1>4, <2>1, <3>1 DEF Acting, Waiting, OthersStay, OneAction
    <3>3. \A d \in Dashboards : d # selected => (ActedUnanswered(d)' <=> ActedUnanswered(d))
      BY <1>0, <2>1, <3>1 DEF ActedUnanswered, OthersStay
    <3>4. CASE ServerSaves(j) \/ ServerPublishes(j) \/ ServerRestores(j)
      <4>1. UNCHANGED <<undo, page, dirty, filled>> /\ \A d \in Dashboards : d # selected => server'[d] = server[d]
        BY <1>0, <2>1, <3>4 DEF ServerSaves, ServerPublishes, ServerRestores, state, history, Pages
      <4>2. job'[j].pc \in {"saved", "answered"} /\ job'[j].snap = server'[selected]
        <5>1. CASE ServerSaves(j)
          BY <1>0, <2>1, <5>1, ServerMoves DEF ServerSaves, Moved, Pages
        <5>2. CASE ServerPublishes(j)
          BY <1>0, <2>1, <5>2, ServerMoves DEF ServerPublishes, Moved, Pages
        <5>3. CASE ServerRestores(j)
          BY <1>0, <2>1, <5>3, ServerMoves DEF ServerRestores, Moved, Pages
        <5> QED BY <3>4, <5>1, <5>2, <5>3
      <4>3. ActedUnanswered(selected)'
        BY <1>0, <2>1, <3>1, <4>2 DEF ActedUnanswered
      <4>4. AnsweredIsSaved'
        BY <1>0, <2>1, <3>1, <3>2, <4>2 DEF AnsweredIsSaved
      <4>5. UndoIsSaved' /\ PageIsSaved'
        BY <1>0, <1>2, <2>1, <3>3, <4>1, <4>3 DEF UndoIsSaved, PageIsSaved, Kept
      <4> QED BY <3>2, <4>4, <4>5 DEF ChipInv
    <3>5. CASE AnswerDraft(j)
      <4>1. /\ page' = [page EXCEPT ![selected] = job[j].snap] /\ undo' = None /\ server' = server
            /\ job[j].pc \in {"saved", "answered"}
        BY <2>1, <3>5 DEF AnswerDraft, rest, outside
      <4>2. job[j].snap = server[selected]
        BY <1>2, <2>1, <4>1 DEF AnsweredIsSaved
      <4>3. job'[j].pc \in {"publishing", "refreshing"}
        BY <3>5, AnswerMovesOn DEF Moved, After
      <4>4. AnsweredIsSaved' /\ UndoIsSaved' /\ PageIsSaved'
        BY <1>0, <2>1, <3>2, <4>1, <4>2, <4>3 DEF AnsweredIsSaved, UndoIsSaved, PageIsSaved, Pages, Kept
      <4> QED BY <3>2, <4>4 DEF ChipInv
    <3> QED BY <2>3, <3>4, <3>5, JobStepIs
  <2> QED BY <2>2, <2>3
<1> QED BY <1>3, <1>4

LEMMA ChipStep == Types /\ ChipInv /\ [Next]_vars => ChipInv'
<1> SUFFICES ASSUME Types, ChipInv, [Next]_vars PROVE ChipInv'
  OBVIOUS
<1>1. CASE UNCHANGED vars
  BY <1>1, AnotherChip DEF vars, state, rest, outside, history
<1> QED BY <1>1, RoutesChip, LoadStepChip, EditsChip, ActionsChip, JobStepChip, NextDoes

(* Without the chip "Unsaved" the page is what the server keeps, but for   *)
(* the listed excuses (hasUnsavedChanges, which answers, loads and the     *)
(* undo of an AI change all set).                                          *)
THEOREM CleanMeansSavedHolds == Spec => []CleanMeansSaved
<1>1. Init => Types /\ ChipInv
  <2>1. Init => Acting = {}
    BY FreeIsFree DEF Init, Acting, Waiting
  <2> QED BY <2>1, InitTyped DEF Init, ChipInv, OneAction, AnsweredIsSaved, UndoIsSaved, PageIsSaved
<1>2. Types /\ ChipInv /\ [Next]_vars => (Types /\ ChipInv)'
  BY TypesStep, ChipStep
<1>3. ChipInv => CleanMeansSaved
  BY DEF ChipInv, PageIsSaved, CleanMeansSaved, Kept
<1> QED BY <1>1, <1>2, <1>3, PTL DEF Spec

=============================================================================
