------------------------------ MODULE CodexOAuth ------------------------------
(***************************************************************************)
(* Connecting the model provider (oauth-codex).  A login ends with a       *)
(* payload of tokens that is written to the auth file, from which the      *)
(* agent reads it, and then to a row of the database, from which the file  *)
(* is restored when a status request or the start of the server finds it   *)
(* unusable.  The row beside it keeps the model the administrator chose.   *)
(*                                                                         *)
(* The states of logins and the chosen model (connections) are in memory;  *)
(* a restart loses them, and a redeployment loses the file, too.  A file   *)
(* is opened, which empties it, and then written from its start: two steps *)
(* of the operating system that other requests and a crash come between.   *)
(***************************************************************************)
EXTENDS Integers, FiniteSets

CONSTANTS
  Logins,      \* logins and imports of auth.json; each brings a payload of its own
  Statuses,    \* status requests
  Boot,        \* the restore a server begins when it starts
  Choices,     \* PATCH requests; each chooses a model of its own
  DEFAULT,     \* DEFAULT_MODEL
  MaxRestarts, \* bound
  Nothing      \* no row, no entry

ASSUME CodexOAuthAssumption ==
  /\ Logins \cap Statuses = {} /\ Boot \notin Logins \cup Statuses
  /\ Choices \cap (Logins \cup Statuses \cup {Boot}) = {}
  /\ Logins \cap {"missing", "empty", "garbled"} = {}
  /\ Choices \cap {DEFAULT, Nothing} = {} /\ DEFAULT # Nothing
  /\ Nothing \notin Logins
  /\ MaxRestarts \in Nat

VARIABLES
  authFile,    \* "missing", "empty", "garbled" or the payload it holds
  authRow,     \* the row codex.oauth.payload
  modelRow,    \* the row codex.oauth.model
  chosenModel, \* connections.get(tenantId)?.model
  states,      \* states of logins that may still come back
  anonymous,   \* imports of auth.json under way that name no tenant
  step,        \* where each request is
  carried,     \* the payload a restore writes, the model a login saves
  restarts,
  answered,    \* history: the last login that was answered
  tried,       \* history: those that have written the file since
  overlapped,  \* history: those that overlapped another writer of the file
  looked,      \* history: since the start, or the last write of the file that failed,
               \* it has been written or was found usable
  picked,      \* history: the model of the last PATCH to this process
  unsettled,   \* history: that PATCH overlapped another save, or failed
  defaulted    \* history: the last to save a model since was an anonymous import

storage == <<authFile, authRow, modelRow>>
logins == <<answered, tried, overlapped, looked>>
choices == <<picked, unsettled, defaulted>>
history == <<logins, choices>>
oauthVars == <<storage, chosenModel, states, anonymous, step, carried, restarts, history>>

Restores == Statuses \cup {Boot}
Writers == Logins \cup Restores
OAuthRequests == Writers \cup Choices
Usable == authFile \in Logins  \* isUsableCodexAuthPayload

OAuthInit ==
  /\ authFile = "missing"
  /\ authRow = Nothing /\ modelRow = Nothing /\ chosenModel = Nothing
  /\ states = {} /\ anonymous = {}
  /\ step = [r \in OAuthRequests |-> "new"]
  /\ carried = [w \in Writers |-> Nothing]
  /\ restarts = 0
  /\ answered = Nothing /\ tried = {} /\ overlapped = {} /\ looked = FALSE
  /\ picked = Nothing /\ unsettled = FALSE /\ defaulted = FALSE

GoesTo(r, s) == step' = [step EXCEPT ![r] = s]

-----------------------------------------------------------------------------
(* A login up to its payload: start, callback, token exchange. *)

StartLogin(l) ==
  /\ step[l] = "new"
  /\ states' = states \cup {l}
  /\ GoesTo(l, "redirected")
  /\ UNCHANGED <<storage, chosenModel, anonymous, carried, restarts, history>>

(* STATE_TTL_MS passes; prune removes the state before it is looked for. *)
StateExpires(l) ==
  /\ l \in states
  /\ states' = states \ {l}
  /\ UNCHANGED <<storage, chosenModel, anonymous, step, carried, restarts, history>>

(* consumeCallback, once per state. *)
Callback(l) ==
  /\ step[l] = "redirected"
  /\ GoesTo(l, IF l \in states THEN "exchanging" ELSE "failed")
  /\ states' = states \ {l}
  /\ UNCHANGED <<storage, chosenModel, anonymous, carried, restarts, history>>

TokenExchanged(l) ==
  /\ step[l] = "exchanging"
  /\ GoesTo(l, "opening") \/ GoesTo(l, "failed")
  /\ UNCHANGED <<storage, chosenModel, states, anonymous, carried, restarts, history>>

(* An auth.json is pasted instead, for a tenant or, as the web client      *)
(* does, without naming one.                                               *)
ImportCodexAuthJson(l) ==
  /\ step[l] = "new"
  /\ GoesTo(l, "opening")
  /\ anonymous' \in {anonymous, anonymous \cup {l}}
  /\ UNCHANGED <<storage, chosenModel, states, carried, restarts, history>>

-----------------------------------------------------------------------------
(* writeCodexAuthPayload, by a login or a restore. *)

InFile == {l \in Logins : step[l] \in {"writing", "persisting", "saving", "saved"}}
Restoring == {r \in Restores : step[r] \in {"asking", "opening", "writing"}}

OpenFile(w) ==
  /\ step[w] = "opening"
  /\ authFile' = "empty"
  /\ GoesTo(w, "writing")
  /\ overlapped' = IF w \in Logins /\ InFile \cup Restoring # {}
                     THEN overlapped \cup {w} \cup InFile ELSE overlapped
  /\ UNCHANGED <<authRow, modelRow, chosenModel, states, anonymous, carried, restarts,
                 answered, tried, looked, choices>>

PayloadOf(w) == IF w \in Logins THEN w ELSE carried[w]

(* The text goes over what another writer left: of a longer text the tail  *)
(* stays.  A login then saves with the model of its tenant in this         *)
(* process, or with the default, which is all an anonymous import has.     *)
WriteFile(w) ==
  /\ step[w] = "writing"
  /\ authFile' = PayloadOf(w) \/ (authFile \notin {"empty", PayloadOf(w)} /\ authFile' = "garbled")
  /\ GoesTo(w, IF w \in Logins THEN "persisting" ELSE "done")
  /\ carried' = [carried EXCEPT ![w] =
       IF w \in Restores THEN Nothing
       ELSE IF w \in anonymous \/ chosenModel = Nothing THEN DEFAULT ELSE chosenModel]
  /\ looked' = TRUE
  /\ tried' = IF w \in Logins THEN tried \cup {w} ELSE tried
  /\ UNCHANGED <<authRow, modelRow, chosenModel, states, anonymous, restarts, answered, overlapped, choices>>

(* persistCodexOAuthPayload: the payload, then the model. *)
PersistPayload(l) ==
  /\ step[l] = "persisting"
  /\ authRow' = l
  /\ GoesTo(l, "saving")
  /\ UNCHANGED <<authFile, modelRow, chosenModel, states, anonymous, carried, restarts, history>>

(* Mutant: a login saves the default model. *)
PersistModel_Mutant(l) ==
  /\ step[l] = "saving"
  /\ modelRow' = DEFAULT
  /\ carried' = [carried EXCEPT ![l] = Nothing]
  /\ GoesTo(l, "saved")
  /\ defaulted' = (picked # Nothing /\ l \in anonymous)
  /\ UNCHANGED <<authFile, authRow, chosenModel, states, anonymous, restarts, logins, picked, unsettled>>

PersistModel(l) ==
  /\ step[l] = "saving"
  /\ modelRow' = carried[l]
  /\ carried' = [carried EXCEPT ![l] = Nothing]
  /\ GoesTo(l, "saved")
  /\ defaulted' = (picked # Nothing /\ l \in anonymous)
  /\ UNCHANGED <<authFile, authRow, chosenModel, states, anonymous, restarts, logins, picked, unsettled>>

(* connectTenant, if there is a tenant, and the answer. *)
ConnectTenant(l) ==
  /\ step[l] = "saved"
  /\ chosenModel' = IF l \notin anonymous /\ chosenModel = Nothing THEN DEFAULT ELSE chosenModel
  /\ GoesTo(l, "done")
  /\ anonymous' = anonymous \ {l}
  /\ answered' = l /\ tried' = {}
  /\ UNCHANGED <<storage, states, carried, restarts, overlapped, looked, choices>>

(* The file system or the database refuses. *)
WriteFails(w) ==
  /\ step[w] \in {"asking", "opening", "writing", "persisting", "saving"}
  /\ GoesTo(w, "failed")
  /\ carried' = [carried EXCEPT ![w] = Nothing]
  /\ anonymous' = anonymous \ {w}
  /\ looked' = (looked /\ step[w] # "writing")
  /\ UNCHANGED <<storage, chosenModel, states, restarts, answered, tried, overlapped, choices>>

-----------------------------------------------------------------------------
(* restoreCodexOAuthPayloadFromDb, by a status request or at the start. *)

(* Mutant: a file that exists is not parsed. *)
ReadAuthFile_Mutant(r) ==
  /\ step[r] = "new"
  /\ IF authFile # "missing"
     THEN GoesTo(r, "done") /\ looked' = TRUE /\ UNCHANGED overlapped
     ELSE GoesTo(r, "asking") /\ overlapped' = overlapped \cup InFile /\ UNCHANGED looked
  /\ UNCHANGED <<storage, chosenModel, states, anonymous, carried, restarts, answered, tried, choices>>

(* hasUsableAuthFile *)
ReadAuthFile(r) ==
  /\ step[r] = "new"
  /\ IF Usable
     THEN GoesTo(r, "done") /\ looked' = TRUE /\ UNCHANGED overlapped
     ELSE GoesTo(r, "asking") /\ overlapped' = overlapped \cup InFile /\ UNCHANGED looked
  /\ UNCHANGED <<storage, chosenModel, states, anonymous, carried, restarts, answered, tried, choices>>

ReadAuthRow(r) ==
  /\ r \in Restores /\ step[r] = "asking"
  /\ carried' = [carried EXCEPT ![r] = authRow]
  /\ GoesTo(r, IF authRow = Nothing THEN "done" ELSE "opening")
  /\ UNCHANGED <<storage, chosenModel, states, anonymous, restarts, history>>

-----------------------------------------------------------------------------
(* updateModel: PATCH changes the connection, then the row. *)

SavingModel ==
  {l \in Logins : step[l] \in {"persisting", "saving"}} \cup {c \in Choices : step[c] = "saving"}

ChooseModel(c) ==
  /\ step[c] = "new"
  /\ chosenModel' = c
  /\ picked' = c
  /\ unsettled' = (SavingModel # {}) /\ defaulted' = FALSE
  /\ GoesTo(c, "saving")
  /\ UNCHANGED <<storage, states, anonymous, carried, restarts, logins>>

SaveChoice(c) ==
  /\ c \in Choices /\ step[c] = "saving"
  /\ \/ modelRow' = c /\ defaulted' = FALSE /\ GoesTo(c, "done") /\ UNCHANGED unsettled
     \/ unsettled' = TRUE /\ GoesTo(c, "failed") /\ UNCHANGED <<modelRow, defaulted>>
  /\ UNCHANGED <<authFile, authRow, chosenModel, states, anonymous, carried, restarts, logins, picked>>

-----------------------------------------------------------------------------
(* The server stops and starts again, perhaps as a new container without   *)
(* the file.  Requests under way are lost; a browser on its way to the     *)
(* provider comes back to a server that does not know its state.           *)
Restart ==
  /\ restarts < MaxRestarts
  /\ restarts' = restarts + 1
  /\ states' = {} /\ anonymous' = {} /\ chosenModel' = Nothing
  /\ step' = [r \in OAuthRequests |->
                IF r = Boot THEN "new"
                ELSE IF step[r] \in {"new", "redirected", "done"} THEN step[r] ELSE "gone"]
  /\ authFile' \in {authFile, "missing"}
  /\ carried' = [w \in Writers |-> Nothing]
  /\ picked' = Nothing /\ unsettled' = FALSE /\ defaulted' = FALSE
  /\ looked' = FALSE
  /\ UNCHANGED <<authRow, modelRow, answered, tried, overlapped>>

LoginStep(l) ==
  \/ StartLogin(l) \/ StateExpires(l) \/ Callback(l) \/ TokenExchanged(l) \/ ImportCodexAuthJson(l)
  \/ PersistPayload(l) \/ PersistModel(l) \/ ConnectTenant(l)

OAuthNext ==
  \/ \E l \in Logins : LoginStep(l)
  \/ \E r \in Restores : ReadAuthFile(r) \/ ReadAuthRow(r)
  \/ \E w \in Writers : OpenFile(w) \/ WriteFile(w) \/ WriteFails(w)
  \/ \E c \in Choices : ChooseModel(c) \/ SaveChoice(c)
  \/ Restart

OAuthSpec == OAuthInit /\ [][OAuthNext]_oauthVars

-----------------------------------------------------------------------------
Survivors == {answered} \cup tried

(* The payload of the last login that was answered outlives crashes at any *)
(* step, redeployments, failures and the restores after them: unless a     *)
(* login and another writer of the file overlapped, it stays in the        *)
(* database, and it is what a usable file holds, until a later login has   *)
(* written the file; a later one that fails or is lost before that takes   *)
(* nothing away, and one that is lost after it may leave its own payload   *)
(* in the file and this one in the row.  And the file is usable, but while *)
(* somebody writes it, once the start or a later request has looked at it  *)
(* and no write has failed since.                                          *)
LoginSurvives ==
  answered # Nothing /\ Survivors \cap overlapped = {} =>
    /\ authRow \in Survivors
    /\ Usable => authFile \in Survivors
    /\ looked /\ (\A w \in Writers : step[w] # "writing") => Usable

(* The model an administrator chose stays saved through later logins and   *)
(* failed ones, as long as the process runs that was told of it (a login   *)
(* after a restart saves the default), except that an import of auth.json  *)
(* that names no tenant saves the default in its place, and that stays     *)
(* until the next login or choice of the tenant.                           *)
ChosenModelStays ==
  picked # Nothing /\ ~unsettled /\ SavingModel = {} =>
    modelRow = IF defaulted THEN DEFAULT ELSE picked
=============================================================================
