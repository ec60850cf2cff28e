-------------------------- MODULE ApiProcessProofs --------------------------
(***************************************************************************)
(* The four components of the API process that MCApiProcess runs side by   *)
(* side, each proved on its own, for any values of its constants:          *)
(* conversations with the agent, the login of its model provider, the      *)
(* record of a data source, and the planner.                               *)
(***************************************************************************)
EXTENDS AgentThread, CodexOAuth, SourceRecord, AnalyzerPlan, TLAPS

-----------------------------------------------------------------------------
(***************************************************************************)
(* Conversations with the agent and the login of its model provider, for   *)
(* any number of runs, compactions, logins, status requests, choices of    *)
(* the model and restarts.                                                 *)
(*                                                                         *)
(* A question outlives a compaction because the summary is made of what    *)
(* users said: the invariant is that an answered question is a user's      *)
(* message until the first compaction after it.                            *)
(*                                                                         *)
(* A login that has overlapped no other writer of the file is alone from   *)
(* the moment it opens it, so that its payload is in the file and then in  *)
(* the row; after it only restarts, restores and later logins touch the    *)
(* file, and a restore writes what the row has.  A choice of the model     *)
(* survives because the connection of the process has it and every login   *)
(* saves what the connection has, or, named no tenant, the default.        *)
(***************************************************************************)

(* Conversations. *)

MessageRecords == [role : {"user", "assistant", "system"}, about : SUBSET Runs]

ThreadType ==
  /\ messages \in Seq(MessageRecords)
  /\ run \in [Runs -> {"new", "asking", "answered", "conflict"}]
  /\ compactions \in Nat /\ recorded \in [Runs -> Nat]

(* Where an answered question is.                                          *)
AnsweredStay ==
  \A r \in Runs : run[r] = "answered" =>
    /\ recorded[r] <= compactions
    /\ compactions = recorded[r] => \E i \in DOMAIN messages : messages[i].role = "user" /\ r \in messages[i].about
    /\ compactions = recorded[r] + 1 => r \in Remembered

ThreadInv == ThreadType /\ AnsweredStay

LEMMA InitThread == ThreadInit => ThreadInv
BY DEF ThreadInit, ThreadInv, ThreadType, AnsweredStay

LEMMA RunThreadKeeps ==
  ASSUME ThreadInv, NEW r \in Runs, RunThread(r)
  PROVE  ThreadInv'
<1>0. ThreadType /\ AnsweredStay
  BY DEF ThreadInv
<1>1. CASE status = "running"
  BY <1>0, <1>1 DEF RunThread, ThreadInv, ThreadType, AnsweredStay, Remembered
<1>2. CASE status # "running"
  <2> DEFINE m1 == Message("user", {r})
             m2 == Message("assistant", {r})
  <2>1. /\ run' = [run EXCEPT ![r] = "answered"] /\ messages' = messages \o <<m1, m2>>
        /\ recorded' = [recorded EXCEPT ![r] = compactions] /\ compactions' = compactions
    BY <1>2 DEF RunThread
  <2>2. m1.role = "user" /\ m1.about = {r} /\ m2.about = {r}
        /\ m1 \in MessageRecords
        /\ m2 \in MessageRecords
    BY DEF Message, MessageRecords
  <2> HIDE DEF m1, m2
  <2>3. messages' \in Seq(MessageRecords)
    BY <1>0, <2>1, <2>2 DEF ThreadType
  <2>4. /\ \A i \in DOMAIN messages : i \in DOMAIN messages' /\ messages'[i] = messages[i]
        /\ Len(messages) + 1 \in DOMAIN messages' /\ messages'[Len(messages) + 1] = m1
    BY <1>0, <2>1 DEF ThreadType
  <2>5. ThreadType'
    BY <1>0, <2>1, <2>3 DEF ThreadType
  <2>6. AnsweredStay'
    <3> SUFFICES ASSUME NEW q \in Runs, run'[q] = "answered"
                 PROVE  /\ recorded'[q] <= compactions
                        /\ compactions = recorded'[q] =>
                             \E i \in DOMAIN messages' : messages'[i].role = "user" /\ q \in messages'[i].about
                        /\ compactions = recorded'[q] + 1 => \E i \in DOMAIN messages' : q \in messages'[i].about
      BY <2>1 DEF AnsweredStay, Remembered
    <3>1. CASE q = r
      <4>1. recorded'[q] = compactions
        BY <1>0, <2>1, <3>1 DEF ThreadType
      <4>2. messages'[Len(messages) + 1].role = "user" /\ q \in messages'[Len(messages) + 1].about
        BY <2>2, <2>4, <3>1
      <4> QED BY <1>0, <2>4, <4>1, <4>2 DEF ThreadType
    <3>2. CASE q # r
      <4>1. run[q] = "answered" /\ recorded'[q] = recorded[q]
        BY <1>0, <2>1, <3>2 DEF ThreadType
      <4>2. /\ recorded[q] <= compactions
            /\ compactions = recorded[q] =>
                 \E i \in DOMAIN messages : messages[i].role = "user" /\ q \in messages[i].about
            /\ compactions = recorded[q] + 1 => \E i \in DOMAIN messages : q \in messages[i].about
        BY <1>0, <4>1 DEF AnsweredStay, Remembered
      <4> QED BY <2>4, <4>1, <4>2
    <3> QED BY <3>1, <3>2
  <2> QED BY <2>5, <2>6 DEF ThreadInv
<1> QED BY <1>1, <1>2

(* What the users said is the summary, where there is anything they said.  *)
LEMMA SummaryKeepsUsers ==
  ASSUME ThreadInv, NEW r \in Runs,
         \E i \in DOMAIN messages : messages[i].role = "user" /\ r \in messages[i].about
  PROVE  r \in Summary
BY DEF Summary, About

LEMMA CompactKeeps ==
  ASSUME ThreadInv, CompactThread
  PROVE  ThreadInv'
<1>0. ThreadType /\ AnsweredStay
  BY DEF ThreadInv
<1>1. /\ messages' = <<Message("system", Summary)>> /\ compactions' = compactions + 1
      /\ run' = run /\ recorded' = recorded
  BY DEF CompactThread
<1>2. Summary \subseteq Runs
  <2>1. ASSUME NEW role, NEW q \in About(role) PROVE q \in Runs
    <3>1. PICK i \in DOMAIN messages : q \in messages[i].about
      BY <2>1 DEF About
    <3>2. messages[i] \in MessageRecords
      BY <1>0 DEF ThreadType
    <3> QED BY <3>1, <3>2 DEF MessageRecords
  <2> QED BY <2>1 DEF Summary
<1> DEFINE s == Message("system", Summary)
<1>3. s \in MessageRecords /\ s.about = Summary
  BY <1>2 DEF Message, MessageRecords
<1>4. messages' = <<s>>
  BY <1>1
<1> HIDE DEF s
<1>5. messages' \in Seq(MessageRecords)
  BY <1>3, <1>4
<1>6. 1 \in DOMAIN messages' /\ messages'[1] = s
  BY <1>4
<1>7. ThreadType'
  BY <1>0, <1>1, <1>5 DEF ThreadType
<1>8. AnsweredStay'
  <2> SUFFICES ASSUME NEW q \in Runs, run[q] = "answered"
               PROVE  /\ recorded[q] <= compactions + 1
                      /\ compactions + 1 # recorded[q]
                      /\ compactions + 1 = recorded[q] + 1 => \E i \in DOMAIN messages' : q \in messages'[i].about
    BY <1>1 DEF AnsweredStay, Remembered
  <2>1. recorded[q] <= compactions /\ recorded[q] \in Nat /\ compactions \in Nat
    BY <1>0 DEF AnsweredStay, ThreadType
  <2>2. compactions = recorded[q] => q \in Summary
    BY <1>0, SummaryKeepsUsers DEF AnsweredStay
  <2> QED BY <1>3, <1>6, <2>1, <2>2
<1> QED BY <1>7, <1>8 DEF ThreadInv

LEMMA StepThread == ThreadInv /\ [ThreadNext]_threadVars => ThreadInv'
<1> SUFFICES ASSUME ThreadInv, [ThreadNext]_threadVars PROVE ThreadInv'
  OBVIOUS
<1>1. ASSUME NEW r \in Runs, HandleRun(r) \/ InvokeFails(r) PROVE ThreadInv'
  BY <1>1 DEF HandleRun, InvokeFails, ThreadInv, ThreadType, AnsweredStay, Remembered
<1>2. CASE UNCHANGED threadVars
  BY <1>2 DEF threadVars, ThreadInv, ThreadType, AnsweredStay, Remembered
<1> QED BY <1>1, <1>2, RunThreadKeeps, CompactKeeps DEF ThreadNext

(* A question that was answered stays in the conversation, or in its       *)
(* summary, until the second compaction after it.                          *)
THEOREM OneCompactionForgetsNothingHolds == ThreadSpec => []OneCompactionForgetsNothing
<1>1. ThreadInv => OneCompactionForgetsNothing
  BY DEF ThreadInv, ThreadType, AnsweredStay, OneCompactionForgetsNothing, Remembered
<1> QED BY <1>1, InitThread, StepThread, PTL DEF ThreadSpec

-----------------------------------------------------------------------------
(* The login of the model provider. *)

Models == Choices \cup {DEFAULT, Nothing}
Steps ==
  {"new", "redirected", "exchanging", "opening", "writing", "persisting", "saving", "saved", "asking",
   "done", "failed", "gone"}

OAuthType ==
  /\ authRow \in Logins \cup {Nothing}
  /\ chosenModel \in Models
  /\ step \in [OAuthRequests -> Steps]
  /\ carried \in [Writers -> Logins \cup Models]
  /\ restarts \in Nat
  /\ answered \in Logins \cup {Nothing}
  /\ tried \subseteq Logins
  /\ unsettled \in BOOLEAN /\ defaulted \in BOOLEAN
  /\ picked \in Choices \cup {Nothing}

(* Two logins that are past the opening of the file have overlapped.       *)
LoginsApart == \A l, m \in InFile : l # m => l \in overlapped

(* One that has overlapped nobody has its payload in place, and no restore *)
(* is under way.                                                           *)
LoginAlone(l) ==
  /\ Restoring = {}
  /\ step[l] = "writing" => authFile = "empty"
  /\ step[l] # "writing" => authFile = l
  /\ step[l] \in {"saving", "saved"} => authRow = l

LoginsAlone == \A l \in InFile : l \notin overlapped => LoginAlone(l)

(* A login that has written the file did so since the last answer, unless  *)
(* the one that was answered overlapped it.                                *)
WrittenTried == \A l \in InFile : step[l] # "writing" => l \in tried \/ answered \in overlapped

Calm == answered # Nothing /\ Survivors \cap overlapped = {}

(* Restores have the payload of the row. *)
PayloadSurvives ==
  /\ authRow \in Survivors
  /\ \A r \in Restores : step[r] \in {"opening", "writing"} => carried[r] = authRow
  /\ \A r \in Restores : step[r] = "writing" => authFile \in {"empty", authRow}
  /\ Usable => authFile \in Survivors
  /\ looked => Usable \/ \E w \in Writers : step[w] = "writing"

FileInv == LoginsApart /\ LoginsAlone /\ WrittenTried /\ (Calm => PayloadSurvives)

(* As long as the process runs that was told of a choice, every login      *)
(* carries it to the row, but for the anonymous ones, and no other choice  *)
(* is on its way there.                                                    *)
SavedAs(m) == IF defaulted THEN DEFAULT ELSE m

ChoiceHolds(c) ==
  /\ chosenModel = c
  /\ \A l \in Logins : step[l] \in {"persisting", "saving"} =>
       carried[l] = IF l \in anonymous THEN DEFAULT ELSE c
  /\ \A d \in Choices : step[d] = "saving" => d = c
  /\ step[c] = "saving" \/ modelRow = SavedAs(c)

ChoiceInv ==
  picked # Nothing /\ ~unsettled => ChoiceHolds(picked)

OAuthInv == OAuthType /\ FileInv /\ ChoiceInv

LEMMA OAuthKinds ==
  /\ \A l \in Logins : l \in Writers /\ l \in OAuthRequests /\ l \notin Restores /\ l # Nothing
                       /\ l \notin {"missing", "empty", "garbled"}
  /\ \A r \in Restores : r \in Writers /\ r \in OAuthRequests /\ r \notin Logins /\ r \notin Choices
  /\ \A c \in Choices : c \in OAuthRequests /\ c \notin Writers /\ c \notin Logins /\ c # Nothing
  /\ Boot \in Restores /\ DEFAULT # Nothing
BY CodexOAuthAssumption DEF Writers, OAuthRequests, Restores

LEMMA InitOAuth == OAuthInit => OAuthInv
<1> SUFFICES ASSUME OAuthInit PROVE OAuthInv
  OBVIOUS
<1>1. OAuthType
  <2>1. picked \in Choices \cup {Nothing}
    BY DEF OAuthInit
  <2>2. step \in [OAuthRequests -> Steps] /\ carried \in [Writers -> Logins \cup Models]
    BY DEF OAuthInit, Models, Steps
  <2> QED BY <2>1, <2>2 DEF OAuthInit, OAuthType, Models
<1>2. InFile = {} /\ ~Calm
  BY OAuthKinds DEF OAuthInit, InFile, Calm
<1>3. FileInv
  BY <1>2 DEF FileInv, LoginsApart, LoginsAlone, WrittenTried
<1>4. ChoiceInv
  BY DEF OAuthInit, ChoiceInv
<1> QED BY <1>1, <1>3, <1>4 DEF OAuthInv

(* Where requests are after one has moved. *)
LEMMA GoesThere ==
  ASSUME OAuthType, NEW r \in OAuthRequests, NEW s, GoesTo(r, s)
  PROVE  \A x \in OAuthRequests : step'[x] = IF x = r THEN s ELSE step[x]
BY DEF OAuthType, GoesTo

(* Types. *)

LEMMA TypeGoes ==
  ASSUME OAuthType, NEW r \in OAuthRequests, NEW s \in Steps, GoesTo(r, s),
         UNCHANGED <<chosenModel, restarts, picked>>, authRow' \in Logins \cup {Nothing},
         carried' = carried \/ \E w \in Writers, p \in Logins \cup Models : carried' = [carried EXCEPT ![w] = p],
         answered' \in Logins \cup {Nothing}, tried' \subseteq Logins,
         unsettled' \in BOOLEAN, defaulted' \in BOOLEAN
  PROVE  OAuthType'
<1>1. step' \in [OAuthRequests -> Steps]
  BY DEF OAuthType, GoesTo
<1>2. carried' \in [Writers -> Logins \cup Models]
  BY DEF OAuthType
<1> QED BY <1>1, <1>2 DEF OAuthType

LEMMA LoginTypes ==
  ASSUME OAuthType, NEW l \in Logins, LoginStep(l)
  PROVE  OAuthType'
<1>0. l \in OAuthRequests /\ l \in Writers /\ Nothing \in Models
  BY OAuthKinds DEF Models
<1>1. CASE StateExpires(l)
  BY <1>1 DEF StateExpires, OAuthType, storage, history, logins, choices
<1>2. CASE StartLogin(l) \/ Callback(l) \/ TokenExchanged(l) \/ ImportCodexAuthJson(l)
  <2>1. PICK s \in {"redirected", "exchanging", "opening", "failed"} : GoesTo(l, s)
    BY <1>2 DEF StartLogin, Callback, TokenExchanged, ImportCodexAuthJson
  <2>2. UNCHANGED <<authRow, chosenModel, restarts, picked, carried, answered, tried, unsettled, defaulted>>
    BY <1>2 DEF StartLogin, Callback, TokenExchanged, ImportCodexAuthJson, storage, history, logins, choices
  <2>3. s \in Steps
    BY DEF Steps
  <2> QED BY <1>0, <2>1, <2>2, <2>3, TypeGoes DEF OAuthType
<1>3. CASE PersistPayload(l)
  <2>1. "saving" \in Steps /\ GoesTo(l, "saving") /\ authRow' = l
    BY <1>3 DEF PersistPayload, Steps
  <2>2. UNCHANGED <<chosenModel, restarts, picked, carried, answered, tried, unsettled, defaulted>>
    BY <1>3 DEF PersistPayload, history, logins, choices
  <2> QED BY <1>0, <2>1, <2>2, TypeGoes DEF OAuthType
<1>4. CASE PersistModel(l)
  <2>1. "saved" \in Steps /\ GoesTo(l, "saved") /\ carried' = [carried EXCEPT ![l] = Nothing] /\ defaulted' \in BOOLEAN
    BY <1>4 DEF PersistModel, Steps
  <2>2. UNCHANGED <<authRow, chosenModel, restarts, picked, answered, tried, unsettled>>
    BY <1>4 DEF PersistModel, logins
  <2> QED BY <1>0, <2>1, <2>2, TypeGoes DEF OAuthType
<1>5. CASE ConnectTenant(l)
  <2>1. step' \in [OAuthRequests -> Steps] /\ chosenModel' \in Models /\ answered' = l /\ tried' = {}
    BY <1>5, <1>0 DEF ConnectTenant, GoesTo, OAuthType, Steps, Models
  <2>2. UNCHANGED <<authRow, carried, restarts, picked, unsettled, defaulted>>
    BY <1>5 DEF ConnectTenant, storage, choices
  <2> QED BY <2>1, <2>2 DEF OAuthType
<1> QED BY <1>1, <1>2, <1>3, <1>4, <1>5 DEF LoginStep

LEMMA FileTypes ==
  ASSUME OAuthType, NEW w \in Writers, OpenFile(w) \/ WriteFile(w) \/ WriteFails(w)
  PROVE  OAuthType'
<1>0. w \in OAuthRequests /\ Nothing \in Models
  BY DEF OAuthRequests, Models
<1>1. CASE OpenFile(w)
  <2>1. "writing" \in Steps /\ GoesTo(w, "writing")
    BY <1>1 DEF OpenFile, Steps
  <2>2. UNCHANGED <<authRow, chosenModel, restarts, picked, carried, answered, tried, unsettled, defaulted>>
    BY <1>1 DEF OpenFile, choices
  <2> QED BY <1>0, <2>1, <2>2, TypeGoes DEF OAuthType
<1>2. CASE WriteFile(w)
  <2>1. PICK s \in {"persisting", "done"} : GoesTo(w, s)
    BY <1>2 DEF WriteFile
  <2>2. s \in Steps
    BY DEF Steps
  <2>3. UNCHANGED <<authRow, chosenModel, restarts, picked, answered, unsettled, defaulted>>
    BY <1>2 DEF WriteFile, choices
  <2>4. \E p \in Logins \cup Models : carried' = [carried EXCEPT ![w] = p]
    BY <1>2 DEF WriteFile, Models, OAuthType
  <2>5. tried' \subseteq Logins
    BY <1>2 DEF WriteFile, OAuthType
  <2> QED BY <1>0, <2>1, <2>2, <2>3, <2>4, <2>5, TypeGoes DEF OAuthType
<1>3. CASE WriteFails(w)
  <2>1. "failed" \in Steps /\ GoesTo(w, "failed") /\ carried' = [carried EXCEPT ![w] = Nothing]
    BY <1>3 DEF WriteFails, Steps
  <2>2. UNCHANGED <<authRow, chosenModel, restarts, picked, answered, tried, unsettled, defaulted>>
    BY <1>3 DEF WriteFails, storage, choices
  <2> QED BY <1>0, <2>1, <2>2, TypeGoes DEF OAuthType
<1> QED BY <1>1, <1>2, <1>3

LEMMA RestoreTypes ==
  ASSUME OAuthType, NEW r \in Restores, ReadAuthFile(r) \/ ReadAuthRow(r)
  PROVE  OAuthType'
<1>0. r \in OAuthRequests /\ r \in Writers
  BY OAuthKinds
<1>1. PICK s \in {"done", "asking", "opening"} : GoesTo(r, s)
  BY DEF ReadAuthFile, ReadAuthRow
<1>2. s \in Steps
  BY DEF Steps
<1>3. UNCHANGED <<authRow, chosenModel, restarts, picked, answered, tried, unsettled, defaulted>>
  BY DEF ReadAuthFile, ReadAuthRow, storage, history, logins, choices
<1>4. carried' = carried \/ carried' = [carried EXCEPT ![r] = authRow]
  BY DEF ReadAuthFile, ReadAuthRow
<1>5. authRow \in Logins \cup Models
  BY DEF OAuthType, Models
<1> QED BY <1>0, <1>1, <1>2, <1>3, <1>4, <1>5, TypeGoes DEF OAuthType

LEMMA ChoiceTypes ==
  ASSUME OAuthType, NEW c \in Choices, ChooseModel(c) \/ SaveChoice(c)
  PROVE  OAuthType'
<1>0. c \in OAuthRequests
  BY OAuthKinds
<1>1. step' \in [OAuthRequests -> Steps]
  BY <1>0 DEF ChooseModel, SaveChoice, GoesTo, OAuthType, Steps
<1>2. chosenModel' \in Models
  BY DEF ChooseModel, SaveChoice, OAuthType, Models
<1>3. picked' \in Choices \cup {Nothing} /\ restarts' = restarts
  <2>1. CASE ChooseModel(c)
    BY <2>1 DEF ChooseModel, OAuthType
  <2>2. CASE SaveChoice(c)
    BY <2>2 DEF SaveChoice, OAuthType
  <2> QED BY <2>1, <2>2
<1>4. UNCHANGED <<authRow, carried, answered, tried>>
  BY DEF ChooseModel, SaveChoice, storage, logins
<1>5. unsettled' \in BOOLEAN /\ defaulted' \in BOOLEAN
  BY DEF ChooseModel, SaveChoice, OAuthType
<1> QED BY <1>1, <1>2, <1>3, <1>4, <1>5 DEF OAuthType

LEMMA RestartTypes ==
  ASSUME OAuthType, Restart
  PROVE  OAuthType'
<1>1. step' \in [OAuthRequests -> Steps]
  BY DEF Restart, OAuthType, Steps
<1>2. carried' \in [Writers -> Logins \cup Models] /\ chosenModel' \in Models
  BY DEF Restart, Models
<1>3. restarts' = restarts + 1 /\ picked' = Nothing /\ UNCHANGED <<authRow, answered, tried>>
  BY DEF Restart
<1>4. unsettled' \in BOOLEAN /\ defaulted' \in BOOLEAN
  BY DEF Restart
<1> QED BY <1>1, <1>2, <1>3, <1>4 DEF OAuthType

-----------------------------------------------------------------------------
(* The file and the row. *)

(* What leaves both, or loses the file with all that was under way, and    *)
(* moves no login but past or out of the file.                             *)
LEMMA QuietFile ==
  ASSUME OAuthType, FileInv, UNCHANGED <<authRow, answered, tried, overlapped>>,
         \A l \in Logins : step'[l] = step[l] \/ l \notin InFile',
         \A r \in Restores : \/ step'[r] = step[r] /\ carried'[r] = carried[r]
                             \/ step'[r] \notin {"asking", "opening", "writing"},
         looked' => looked /\ \A w \in Writers : step[w] = "writing" => step'[w] = "writing",
         \/ authFile' = authFile
         \/ InFile' = {} /\ Restoring' = {} /\ ~looked' /\ authFile' \notin Logins
  PROVE  FileInv'
<1>1. /\ \A l \in InFile' : l \in InFile /\ step'[l] = step[l]
      /\ Restoring' \subseteq Restoring
      /\ \A r \in Restores : step'[r] \in {"opening", "writing"} => step'[r] = step[r] /\ carried'[r] = carried[r]
  BY DEF InFile, Restoring
<1>2. LoginsApart' /\ WrittenTried'
  BY <1>1 DEF FileInv, LoginsApart, WrittenTried
<1>3. LoginsAlone'
  BY <1>1 DEF FileInv, LoginsAlone, LoginAlone
<1>4. ASSUME Calm PROVE PayloadSurvives'
  <2>1. PayloadSurvives
    BY <1>4 DEF FileInv
  <2>2. authRow' \in Survivors' /\ \A r \in Restores : step'[r] \in {"opening", "writing"} => carried'[r] = authRow'
    BY <1>1, <2>1 DEF PayloadSurvives, Survivors
  <2>3. ASSUME NEW r \in Restores, step'[r] = "writing" PROVE authFile' \in {"empty", authRow'}
    <3>1. Restoring' # {}
      BY <2>3 DEF Restoring
    <3> QED BY <1>1, <2>1, <2>3, <3>1 DEF PayloadSurvives
  <2>4. Usable' => authFile' \in Survivors'
    BY <2>1 DEF PayloadSurvives, Survivors, Usable
  <2>5. looked' => Usable' \/ \E w \in Writers : step'[w] = "writing"
    BY <2>1 DEF PayloadSurvives, Usable
  <2> QED BY <2>2, <2>3, <2>4, <2>5 DEF PayloadSurvives
<1>5. Calm' => Calm
  BY DEF Calm, Survivors
<1> QED BY <1>2, <1>3, <1>4, <1>5 DEF FileInv

LEMMA LoginOpens ==
  ASSUME OAuthType, FileInv, NEW m \in Logins, OpenFile(m)
  PROVE  FileInv'
<1>0. m \in OAuthRequests /\ m \in Writers
  BY OAuthKinds
<1>1. /\ authFile' = "empty" /\ UNCHANGED <<authRow, carried, answered, tried, looked>>
      /\ overlapped' = IF InFile \cup Restoring # {} THEN overlapped \cup {m} \cup InFile ELSE overlapped
      /\ step[m] = "opening" /\ GoesTo(m, "writing")
  BY DEF OpenFile
<1>2. \A x \in OAuthRequests : step'[x] = IF x = m THEN "writing" ELSE step[x]
  BY <1>0, <1>1, GoesThere
<1>3. InFile' = InFile \cup {m} /\ Restoring' = Restoring /\ m \notin InFile
  BY <1>1, <1>2, OAuthKinds DEF InFile, Restoring
<1>4. LoginsApart'
  BY <1>1, <1>3 DEF FileInv, LoginsApart
<1>5. LoginsAlone'
  <2> SUFFICES ASSUME NEW l \in InFile', l \notin overlapped' PROVE LoginAlone(l)'
    BY DEF LoginsAlone
  <2>1. l = m /\ Restoring = {}
    BY <1>1, <1>3
  <2>2. step'[l] = "writing"
    BY <1>0, <1>2, <2>1
  <2> QED BY <1>1, <1>3, <2>1, <2>2 DEF LoginAlone
<1>6. WrittenTried'
  <2> SUFFICES ASSUME NEW l \in InFile', step'[l] # "writing" PROVE l \in tried \/ answered \in overlapped'
    BY <1>1 DEF WrittenTried
  <2>1. l \in InFile /\ step'[l] = step[l]
    BY <1>0, <1>2, <1>3, OAuthKinds DEF InFile
  <2> QED BY <1>1, <2>1 DEF FileInv, WrittenTried
<1>7. ASSUME Calm' PROVE PayloadSurvives'
  <2>1. PayloadSurvives
    BY <1>1, <1>7 DEF FileInv, Calm, Survivors
  <2>2. \A r \in Restores : step'[r] = step[r]
    BY <1>2, OAuthKinds
  <2>3. step'[m] = "writing" /\ ~Usable'
    BY <1>0, <1>1, <1>2, OAuthKinds DEF Usable
  <2> QED BY <1>0, <1>1, <2>1, <2>2, <2>3 DEF PayloadSurvives, Survivors
<1> QED BY <1>4, <1>5, <1>6, <1>7 DEF FileInv

(* A login past the opening of the file, one step further.                 *)
LEMMA LoginWrites ==
  ASSUME OAuthType, FileInv, NEW m \in Logins, WriteFile(m)
  PROVE  FileInv'
<1>0. m \in OAuthRequests /\ m \in Writers /\ m \notin Restores
  BY OAuthKinds
<1>1. /\ step[m] = "writing" /\ GoesTo(m, "persisting")
      /\ authFile' = m \/ authFile # "empty"
      /\ looked' = TRUE /\ tried' = tried \cup {m}
      /\ UNCHANGED <<authRow, answered, overlapped>>
      /\ \A w \in Writers : w # m => carried'[w] = carried[w]
  BY <1>0 DEF WriteFile, PayloadOf, OAuthType
<1>2. \A x \in OAuthRequests : step'[x] = IF x = m THEN "persisting" ELSE step[x]
  BY <1>0, <1>1, GoesThere
<1>3. InFile' = InFile /\ Restoring' = Restoring /\ m \in InFile
  BY <1>1, <1>2, OAuthKinds DEF InFile, Restoring
<1>4. LoginsApart'
  BY <1>1, <1>3 DEF FileInv, LoginsApart
<1>5. m \notin overlapped => authFile' = m /\ Restoring = {}
  BY <1>1, <1>3 DEF FileInv, LoginsAlone, LoginAlone
<1>6. LoginsAlone'
  <2> SUFFICES ASSUME NEW l \in InFile, l \notin overlapped PROVE LoginAlone(l)'
    BY <1>1, <1>3 DEF LoginsAlone
  <2>1. l = m
    BY <1>3 DEF FileInv, LoginsApart
  <2> QED BY <1>0, <1>2, <1>3, <1>5, <2>1 DEF LoginAlone
<1>7. WrittenTried'
  <2> SUFFICES ASSUME NEW l \in InFile, step'[l] # "writing" PROVE l \in tried' \/ answered \in overlapped
    BY <1>1, <1>3 DEF WrittenTried
  <2>1. l # m => step[l] # "writing"
    BY <1>2, OAuthKinds DEF InFile
  <2> QED BY <1>1, <2>1 DEF FileInv, WrittenTried
<1>8. ASSUME Calm' PROVE PayloadSurvives'
  <2>1. Calm /\ m \notin overlapped /\ m \in Survivors' /\ Survivors \subseteq Survivors'
    BY <1>1, <1>8 DEF Calm, Survivors
  <2>2. PayloadSurvives /\ authFile' = m /\ Restoring' = {}
    BY <1>3, <1>5, <2>1 DEF FileInv
  <2>3. \A r \in Restores : step'[r] \notin {"opening", "writing"}
    BY <2>2 DEF Restoring
  <2> QED BY <1>1, <2>1, <2>2, <2>3 DEF PayloadSurvives, Usable
<1> QED BY <1>4, <1>6, <1>7, <1>8 DEF FileInv

LEMMA LoginPersists ==
  ASSUME OAuthType, FileInv, NEW m \in Logins, PersistPayload(m) \/ PersistModel(m)
  PROVE  FileInv'
<1>0. m \in OAuthRequests /\ m \in Writers /\ m \notin Restores
  BY OAuthKinds
<1>1. PICK s \in {"saving", "saved"} :
        /\ GoesTo(m, s) /\ step[m] \in {"persisting", "saving"}
        /\ s = "saving" => authRow' = m
        /\ s = "saved" => authRow' = authRow /\ step[m] = "saving"
  BY DEF PersistPayload, PersistModel
<1>2. UNCHANGED <<authFile, answered, tried, overlapped, looked>> /\ \A w \in Writers : w # m => carried'[w] = carried[w]
  BY DEF PersistPayload, PersistModel, history, logins, OAuthType
<1>3. \A x \in OAuthRequests : step'[x] = IF x = m THEN s ELSE step[x]
  BY <1>0, <1>1, GoesThere
<1>4. InFile' = InFile /\ Restoring' = Restoring /\ m \in InFile
  BY <1>1, <1>3, OAuthKinds DEF InFile, Restoring
<1>5. LoginsApart'
  BY <1>2, <1>4 DEF FileInv, LoginsApart
<1>6. m \notin overlapped => LoginAlone(m)
  BY <1>4 DEF FileInv, LoginsAlone
<1>7. LoginsAlone'
  <2> SUFFICES ASSUME NEW l \in InFile, l \notin overlapped PROVE LoginAlone(l)'
    BY <1>2, <1>4 DEF LoginsAlone
  <2>1. l = m /\ LoginAlone(m)
    BY <1>4, <1>6 DEF FileInv, LoginsApart
  <2> QED BY <1>0, <1>1, <1>2, <1>3, <1>4, <2>1 DEF LoginAlone
<1>8. WrittenTried'
  <2> SUFFICES ASSUME NEW l \in InFile, step'[l] # "writing" PROVE l \in tried \/ answered \in overlapped
    BY <1>2, <1>4 DEF WrittenTried
  <2>1. step[l] # "writing"
    BY <1>1, <1>3, OAuthKinds DEF InFile
  <2> QED BY <2>1 DEF FileInv, WrittenTried
<1>9. ASSUME Calm PROVE PayloadSurvives'
  <2>1. PayloadSurvives /\ m \in tried
    BY <1>1, <1>4, <1>9 DEF FileInv, WrittenTried, Calm, Survivors
  <2>2. Restoring' = {}
    BY <1>4, <1>6, <1>9, <2>1 DEF LoginAlone, Calm, Survivors
  <2>3. \A r \in Restores : step'[r] \notin {"opening", "writing"}
    BY <2>2 DEF Restoring
  <2>4. authRow' \in Survivors'
    BY <1>1, <1>2, <2>1 DEF PayloadSurvives, Survivors
  <2>5. \A w \in Writers : step[w] = "writing" => step'[w] = "writing"
    BY <1>1, <1>3 DEF OAuthRequests
  <2> QED BY <1>2, <2>1, <2>3, <2>4, <2>5 DEF PayloadSurvives, Survivors, Usable
<1>10. Calm' => Calm
  BY <1>2 DEF Calm, Survivors
<1> QED BY <1>5, <1>7, <1>8, <1>9, <1>10 DEF FileInv

LEMMA LoginAnswered ==
  ASSUME OAuthType, FileInv, NEW m \in Logins, ConnectTenant(m)
  PROVE  FileInv'
<1>0. m \in OAuthRequests /\ m \in Writers /\ m \notin Restores
  BY OAuthKinds
<1>1. /\ step[m] = "saved" /\ GoesTo(m, "done") /\ answered' = m /\ tried' = {}
      /\ UNCHANGED <<authFile, authRow, carried, overlapped, looked>>
  BY DEF ConnectTenant, storage
<1>2. \A x \in OAuthRequests : step'[x] = IF x = m THEN "done" ELSE step[x]
  BY <1>0, <1>1, GoesThere
<1>3. InFile' = InFile \ {m} /\ Restoring' = Restoring /\ m \in InFile
  BY <1>1, <1>2, OAuthKinds DEF InFile, Restoring
<1>4. \A l \in InFile' : l \in InFile /\ step'[l] = step[l]
  BY <1>2, <1>3, OAuthKinds DEF InFile
<1>5. LoginsApart' /\ LoginsAlone'
  BY <1>1, <1>3, <1>4 DEF FileInv, LoginsApart, LoginsAlone, LoginAlone
<1>6. WrittenTried'
  BY <1>1, <1>3 DEF FileInv, LoginsApart, WrittenTried
<1>7. ASSUME Calm' PROVE PayloadSurvives'
  <2>1. LoginAlone(m) /\ Survivors' = {m}
    BY <1>1, <1>3, <1>7 DEF FileInv, LoginsAlone, Calm, Survivors
  <2>2. authFile = m /\ authRow = m /\ Restoring' = {}
    BY <1>1, <1>3, <2>1 DEF LoginAlone
  <2>3. \A r \in Restores : step'[r] \notin {"opening", "writing"}
    BY <2>2 DEF Restoring
  <2> QED BY <1>1, <2>1, <2>2, <2>3 DEF PayloadSurvives, Usable
<1> QED BY <1>5, <1>6, <1>7 DEF FileInv

(* A restore takes a step that leaves the logins alone: none is past the   *)
(* opening of the file that has overlapped nobody.                         *)
LEMMA RestoreSteps ==
  ASSUME OAuthType, FileInv, NEW r \in Restores, NEW s, GoesTo(r, s),
         UNCHANGED <<answered, tried>>, overlapped' \in {overlapped, overlapped \cup InFile},
         \A l \in InFile : l \notin overlapped' => FALSE,
         Calm /\ PayloadSurvives => PayloadSurvives'
  PROVE  FileInv'
<1>1. r \in OAuthRequests /\ \A x \in OAuthRequests : step'[x] = IF x = r THEN s ELSE step[x]
  BY GoesThere, OAuthKinds
<1>2. InFile' = InFile /\ \A l \in Logins : step'[l] = step[l]
  BY <1>1, OAuthKinds DEF InFile
<1>3. LoginsApart' /\ LoginsAlone' /\ WrittenTried'
  BY <1>2 DEF FileInv, LoginsApart, LoginsAlone, WrittenTried, InFile
<1>4. Calm' => Calm
  BY DEF Calm, Survivors
<1> QED BY <1>3, <1>4 DEF FileInv

LEMMA NobodyAlone ==
  ASSUME FileInv, NEW r \in Restoring
  PROVE  \A l \in InFile : l \notin overlapped => FALSE
BY DEF FileInv, LoginsAlone, LoginAlone

LEMMA ReadAuthFileKeeps ==
  ASSUME OAuthType, FileInv, NEW r \in Restores, ReadAuthFile(r)
  PROVE  FileInv'
<1>0. r \in OAuthRequests /\ r \in Writers
  BY OAuthKinds
<1>1. step[r] = "new" /\ UNCHANGED <<authFile, authRow, carried, answered, tried>>
  BY DEF ReadAuthFile, storage
<1>2. CASE Usable
  <2>1. GoesTo(r, "done") /\ looked' = TRUE /\ overlapped' = overlapped
    BY <1>2 DEF ReadAuthFile
  <2>2. \A x \in OAuthRequests : step'[x] = IF x = r THEN "done" ELSE step[x]
    BY <1>0, <2>1, GoesThere
  <2>3. InFile' = InFile /\ Restoring' = Restoring /\ \A l \in Logins : step'[l] = step[l]
    BY <1>1, <2>2, OAuthKinds DEF InFile, Restoring
  <2>4. LoginsApart' /\ LoginsAlone' /\ WrittenTried'
    BY <1>1, <2>1, <2>3 DEF FileInv, LoginsApart, LoginsAlone, LoginAlone, WrittenTried, InFile
  <2>5. \A x \in Restores : step'[x] \in {"opening", "writing"} => step'[x] = step[x]
    BY <2>2, OAuthKinds
  <2>6. Calm' => Calm
    BY <1>1, <2>1 DEF Calm, Survivors
  <2>7. Calm => PayloadSurvives'
    BY <1>1, <1>2, <2>5 DEF FileInv, PayloadSurvives, Survivors, Usable
  <2> QED BY <2>4, <2>6, <2>7 DEF FileInv
<1>3. CASE ~Usable
  <2>1. GoesTo(r, "asking") /\ looked' = looked /\ overlapped' = overlapped \cup InFile
    BY <1>3 DEF ReadAuthFile
  <2>2. \A x \in OAuthRequests : step'[x] = IF x = r THEN "asking" ELSE step[x]
    BY <1>0, <2>1, GoesThere
  <2>3. /\ \A x \in Restores : step'[x] \in {"opening", "writing"} => step'[x] = step[x]
        /\ \A w \in Writers : step[w] = "writing" => step'[w] = "writing"
    BY <1>1, <2>2, OAuthKinds DEF OAuthRequests
  <2>4. PayloadSurvives => PayloadSurvives'
    BY <1>1, <2>1, <2>3 DEF PayloadSurvives, Survivors, Usable
  <2> QED BY <1>1, <2>1, <2>4, RestoreSteps
<1> QED BY <1>2, <1>3

LEMMA ReadAuthRowKeeps ==
  ASSUME OAuthType, FileInv, NEW r \in Restores, ReadAuthRow(r)
  PROVE  FileInv'
<1>0. r \in OAuthRequests /\ r \in Writers /\ r \in Restoring
  BY OAuthKinds DEF ReadAuthRow, Restoring
<1>1. /\ step[r] = "asking" /\ \A w \in Writers : carried'[w] = IF w = r THEN authRow ELSE carried[w]
      /\ UNCHANGED <<authFile, authRow, answered, tried, overlapped, looked>>
  BY <1>0 DEF ReadAuthRow, storage, history, logins, OAuthType
<1>2. PICK s \in {"done", "opening"} : GoesTo(r, s)
  BY DEF ReadAuthRow
<1>3. \A x \in OAuthRequests : step'[x] = IF x = r THEN s ELSE step[x]
  BY <1>0, <1>2, GoesThere
<1>4. /\ \A x \in Restores : step'[x] \in {"opening", "writing"} => x = r \/ step'[x] = step[x]
      /\ \A x \in Restores : step'[x] = "writing" => step[x] = "writing"
      /\ \A w \in Writers : step[w] = "writing" => step'[w] = "writing"
  BY <1>1, <1>3, OAuthKinds DEF OAuthRequests
<1>5. PayloadSurvives => PayloadSurvives'
  BY <1>1, <1>4, OAuthKinds DEF PayloadSurvives, Survivors, Usable
<1> QED BY <1>0, <1>1, <1>2, <1>5, RestoreSteps, NobodyAlone

LEMMA RestoreOpens ==
  ASSUME OAuthType, FileInv, NEW r \in Restores, OpenFile(r)
  PROVE  FileInv'
<1>0. r \in OAuthRequests /\ r \in Writers /\ r \notin Logins /\ r \in Restoring
  BY OAuthKinds DEF OpenFile, Restoring
<1>1. /\ step[r] = "opening" /\ GoesTo(r, "writing") /\ authFile' = "empty"
      /\ UNCHANGED <<authRow, carried, answered, tried, overlapped, looked>>
  BY <1>0 DEF OpenFile
<1>2. \A x \in OAuthRequests : step'[x] = IF x = r THEN "writing" ELSE step[x]
  BY <1>0, <1>1, GoesThere
<1>3. /\ \A x \in Restores : step'[x] \in {"opening", "writing"} => step[x] \in {"opening", "writing"}
      /\ step'[r] = "writing"
  BY <1>0, <1>1, <1>2, OAuthKinds
<1>4. ~Usable'
  BY <1>1, OAuthKinds DEF Usable
<1>5. PayloadSurvives => PayloadSurvives'
  BY <1>0, <1>1, <1>3, <1>4 DEF PayloadSurvives, Survivors
<1> QED BY <1>0, <1>1, <1>5, RestoreSteps, NobodyAlone

LEMMA RestoreWrites ==
  ASSUME OAuthType, FileInv, NEW r \in Restores, WriteFile(r)
  PROVE  FileInv'
<1>0. r \in OAuthRequests /\ r \in Writers /\ r \notin Logins /\ r \in Restoring
  BY OAuthKinds DEF WriteFile, Restoring
<1>1. /\ step[r] = "writing" /\ GoesTo(r, "done") /\ looked' = TRUE
      /\ authFile' = carried[r] \/ authFile \notin {"empty", carried[r]}
      /\ UNCHANGED <<authRow, answered, tried, overlapped>>
      /\ \A w \in Writers : w # r => carried'[w] = carried[w]
  BY <1>0 DEF WriteFile, PayloadOf, OAuthType
<1>2. \A x \in OAuthRequests : step'[x] = IF x = r THEN "done" ELSE step[x]
  BY <1>0, <1>1, GoesThere
<1>3. \A x \in Restores : step'[x] \in {"opening", "writing"} => step'[x] = step[x] /\ carried'[x] = carried[x]
  BY <1>1, <1>2, OAuthKinds
<1>4. ASSUME Calm, PayloadSurvives PROVE PayloadSurvives'
  <2>1. authFile' = authRow
    BY <1>1, <1>4 DEF PayloadSurvives
  <2>2. authRow \in Logins /\ authRow \in Survivors
    BY <1>4 DEF PayloadSurvives, Calm, Survivors, OAuthType
  <2> QED BY <1>1, <1>3, <1>4, <2>1, <2>2 DEF PayloadSurvives, Survivors, Usable
<1> QED BY <1>0, <1>1, <1>4, RestoreSteps, NobodyAlone

LEMMA FailureKeeps ==
  ASSUME OAuthType, FileInv, NEW w \in Writers, WriteFails(w)
  PROVE  FileInv'
<1>0. w \in OAuthRequests
  BY DEF OAuthRequests
<1>1. /\ GoesTo(w, "failed") /\ looked' = (looked /\ step[w] # "writing")
      /\ UNCHANGED <<authFile, authRow, answered, tried, overlapped>>
      /\ \A x \in Writers : x # w => carried'[x] = carried[x]
  BY DEF WriteFails, storage, OAuthType
<1>2. \A x \in OAuthRequests : step'[x] = IF x = w THEN "failed" ELSE step[x]
  BY <1>0, <1>1, GoesThere
<1>3. \A l \in Logins : step'[l] = step[l] \/ l \notin InFile'
  BY <1>2, OAuthKinds DEF InFile
<1>4. \A r \in Restores : (step'[r] = step[r] /\ carried'[r] = carried[r]) \/ step'[r] = "failed"
  BY <1>1, <1>2, OAuthKinds
<1>5. looked' => looked /\ \A x \in Writers : step[x] = "writing" => step'[x] = "writing"
  BY <1>1, <1>2 DEF OAuthRequests
<1> QED BY <1>1, <1>3, <1>4, <1>5, QuietFile

(* What was under way is lost, and perhaps the file. *)
LEMMA RestartKeeps ==
  ASSUME OAuthType, FileInv, Restart
  PROVE  FileInv'
<1>1. /\ \A x \in OAuthRequests : step'[x] \in {"new", "redirected", "done", "gone"}
      /\ authFile' \in {authFile, "missing"} /\ looked' = FALSE
      /\ UNCHANGED <<authRow, answered, tried, overlapped>>
  BY DEF Restart
<1>2. InFile' = {} /\ Restoring' = {}
  BY <1>1, OAuthKinds DEF InFile, Restoring
<1>3. \A r \in Restores : step'[r] \notin {"asking", "opening", "writing"}
  BY <1>1, OAuthKinds
<1> QED BY <1>1, <1>2, <1>3, OAuthKinds, QuietFile

(* What touches neither the file nor a writer of it. *)
LEMMA OthersKeep ==
  ASSUME OAuthType, FileInv, UNCHANGED <<authFile, authRow, carried, logins>>,
         \A l \in Logins : step'[l] = step[l] \/ (step'[l] \in {"redirected", "exchanging", "opening", "failed"}
                                                  /\ step[l] # "writing"),
         \A r \in Restores : step'[r] = step[r]
  PROVE  FileInv'
<1>1. /\ UNCHANGED <<answered, tried, overlapped, looked>>
      /\ \A l \in Logins : step'[l] = step[l] \/ l \notin InFile'
  BY DEF logins, InFile
<1>2. \A w \in Writers : step[w] = "writing" => step'[w] = "writing"
  BY DEF Writers
<1> QED BY <1>1, <1>2, QuietFile

-----------------------------------------------------------------------------
(* The choice of a model. *)

(* What keeps a choice: logins take what they save from the connection.    *)
LEMMA ChoiceKept ==
  ASSUME ChoiceInv, OAuthType, UNCHANGED <<picked, restarts, modelRow, defaulted>>, unsettled => unsettled',
         chosenModel' = chosenModel \/ chosenModel = Nothing,
         \A c \in Choices : step'[c] = step[c],
         \A l \in Logins : step'[l] \in {"persisting", "saving"} =>
           \/ step[l] \in {"persisting", "saving"} /\ carried'[l] = carried[l] /\ (l \in anonymous' <=> l \in anonymous)
           \/ carried'[l] = (IF l \in anonymous' \/ chosenModel = Nothing THEN DEFAULT ELSE chosenModel)
  PROVE  ChoiceInv'
<1> SUFFICES ASSUME picked # Nothing, ~unsettled PROVE ChoiceHolds(picked)'
  BY DEF ChoiceInv
<1>1. ChoiceHolds(picked) /\ picked \in Choices
  BY DEF ChoiceInv, OAuthType
<1>2. chosenModel = picked /\ chosenModel # Nothing /\ chosenModel' = chosenModel
  BY <1>1, OAuthKinds DEF ChoiceHolds
<1>3. \A l \in Logins : step'[l] \in {"persisting", "saving"} =>
        carried'[l] = IF l \in anonymous' THEN DEFAULT ELSE picked
  BY <1>1, <1>2 DEF ChoiceHolds
<1> QED BY <1>1, <1>2, <1>3 DEF ChoiceHolds, SavedAs

LEMMA LoginChoice ==
  ASSUME OAuthType, ChoiceInv, NEW m \in Logins, LoginStep(m) \/ WriteFile(m) \/ WriteFails(m) \/ OpenFile(m)
  PROVE  ChoiceInv'
<1>0. m \in OAuthRequests /\ m \in Writers /\ m \notin Restores
  BY OAuthKinds
<1>1. CASE StateExpires(m)
  BY <1>1 DEF StateExpires, storage, history, choices, ChoiceInv, ChoiceHolds, SavedAs
<1>2. CASE PersistModel(m)
  <2> SUFFICES ASSUME picked # Nothing, ~unsettled
               PROVE  ChoiceHolds(picked)'
    BY <1>2 DEF ChoiceInv, PersistModel
  <2>1. /\ step[m] = "saving" /\ modelRow' = carried[m] /\ defaulted' = (picked # Nothing /\ m \in anonymous) /\ GoesTo(m, "saved")
        /\ UNCHANGED <<chosenModel, anonymous, picked>>
        /\ \A w \in Writers : w # m => carried'[w] = carried[w]
    BY <1>2 DEF PersistModel, OAuthType
  <2>2. ChoiceHolds(picked) /\ picked \in Choices
    BY DEF ChoiceInv, OAuthType
  <2>3. modelRow' = IF m \in anonymous THEN DEFAULT ELSE picked
    BY <2>1, <2>2 DEF ChoiceHolds
  <2>4. \A x \in OAuthRequests : step'[x] = IF x = m THEN "saved" ELSE step[x]
    BY <1>0, <2>1, GoesThere
  <2>5. \A c \in Choices : step'[c] = step[c]
    BY <2>4, OAuthKinds
  <2>6. \A l \in Logins : step'[l] \in {"persisting", "saving"} => step'[l] = step[l] /\ carried'[l] = carried[l]
    BY <2>1, <2>4, OAuthKinds
  <2> QED BY <2>1, <2>2, <2>3, <2>5, <2>6 DEF ChoiceHolds, SavedAs
<1>3. CASE WriteFile(m)
  <2>1. /\ GoesTo(m, "persisting") /\ UNCHANGED <<picked, restarts, modelRow, defaulted, unsettled, chosenModel, anonymous>>
        /\ carried'[m] = (IF m \in anonymous \/ chosenModel = Nothing THEN DEFAULT ELSE chosenModel)
        /\ \A w \in Writers : w # m => carried'[w] = carried[w]
    BY <1>0, <1>3 DEF WriteFile, OAuthType, choices
  <2>2. \A x \in OAuthRequests : step'[x] = IF x = m THEN "persisting" ELSE step[x]
    BY <1>0, <2>1, GoesThere
  <2> QED BY <2>1, <2>2, ChoiceKept, OAuthKinds
<1>4. CASE PersistPayload(m)
  <2>1. /\ step[m] = "persisting" /\ GoesTo(m, "saving")
        /\ UNCHANGED <<picked, restarts, modelRow, defaulted, unsettled, chosenModel, anonymous, carried>>
    BY <1>4 DEF PersistPayload, history, choices
  <2>2. \A x \in OAuthRequests : step'[x] = IF x = m THEN "saving" ELSE step[x]
    BY <1>0, <2>1, GoesThere
  <2> QED BY <2>1, <2>2, ChoiceKept, OAuthKinds
<1>5. CASE StartLogin(m) \/ Callback(m) \/ TokenExchanged(m) \/ ImportCodexAuthJson(m)
           \/ ConnectTenant(m) \/ WriteFails(m) \/ OpenFile(m)
  <2>1. PICK s \in {"redirected", "exchanging", "opening", "done", "failed", "writing"} : GoesTo(m, s)
    BY <1>5 DEF StartLogin, Callback, TokenExchanged, ImportCodexAuthJson, ConnectTenant, WriteFails, OpenFile
  <2>2. /\ UNCHANGED <<picked, restarts, modelRow, defaulted, unsettled>>
        /\ chosenModel' = chosenModel \/ chosenModel = Nothing
    BY <1>5 DEF StartLogin, Callback, TokenExchanged, ImportCodexAuthJson, ConnectTenant, WriteFails, OpenFile,
                storage, history, choices
  <2>3. \A l \in Logins : l # m => carried'[l] = carried[l] /\ (l \in anonymous' <=> l \in anonymous)
    BY <1>5, OAuthKinds
    DEF StartLogin, Callback, TokenExchanged, ImportCodexAuthJson, ConnectTenant, WriteFails, OpenFile, OAuthType
  <2>4. \A x \in OAuthRequests : step'[x] = IF x = m THEN s ELSE step[x]
    BY <1>0, <2>1, GoesThere
  <2> QED BY <2>2, <2>3, <2>4, ChoiceKept, OAuthKinds
<1> QED BY <1>1, <1>2, <1>3, <1>4, <1>5 DEF LoginStep

LEMMA RestoreChoice ==
  ASSUME OAuthType, ChoiceInv, NEW r \in Restores,
         ReadAuthFile(r) \/ ReadAuthRow(r) \/ OpenFile(r) \/ WriteFile(r) \/ WriteFails(r)
  PROVE  ChoiceInv'
<1>0. r \in OAuthRequests /\ r \in Writers /\ r \notin Logins
  BY OAuthKinds
<1>1. PICK s : GoesTo(r, s)
  BY DEF ReadAuthFile, ReadAuthRow, OpenFile, WriteFile, WriteFails
<1>2. UNCHANGED <<picked, restarts, modelRow, defaulted, unsettled, chosenModel>>
  BY DEF ReadAuthFile, ReadAuthRow, OpenFile, WriteFile, WriteFails, storage, history, choices
<1>3. \A l \in Logins : carried'[l] = carried[l] /\ (l \in anonymous' <=> l \in anonymous)
  BY <1>0, OAuthKinds DEF ReadAuthFile, ReadAuthRow, OpenFile, WriteFile, WriteFails, OAuthType
<1>4. \A x \in OAuthRequests : step'[x] = IF x = r THEN s ELSE step[x]
  BY <1>0, <1>1, GoesThere
<1> QED BY <1>2, <1>3, <1>4, ChoiceKept, OAuthKinds

LEMMA ChooseModelKeeps ==
  ASSUME OAuthType, ChoiceInv, NEW c \in Choices, ChooseModel(c)
  PROVE  ChoiceInv'
<1>0. c \in OAuthRequests
  BY OAuthKinds
<1>1. /\ chosenModel' = c /\ picked' = c /\ unsettled' = (SavingModel # {}) /\ GoesTo(c, "saving")
  BY DEF ChooseModel
<1>2. \A x \in OAuthRequests : step'[x] = IF x = c THEN "saving" ELSE step[x]
  BY <1>0, <1>1, GoesThere
<1> SUFFICES ASSUME SavingModel = {} PROVE ChoiceHolds(c)'
  BY <1>1 DEF ChoiceInv
<1>3. /\ \A l \in Logins : step[l] \notin {"persisting", "saving"}
      /\ \A d \in Choices : step[d] # "saving"
  BY DEF SavingModel
<1>4. /\ \A l \in Logins : step'[l] \notin {"persisting", "saving"}
      /\ \A d \in Choices : step'[d] = "saving" => d = c
      /\ step'[c] = "saving"
  BY <1>0, <1>2, <1>3, OAuthKinds
<1> QED BY <1>1, <1>4 DEF ChoiceHolds

LEMMA SaveChoiceKeeps ==
  ASSUME OAuthType, ChoiceInv, NEW c \in Choices, SaveChoice(c)
  PROVE  ChoiceInv'
<1>0. c \in OAuthRequests
  BY OAuthKinds
<1>1. /\ step[c] = "saving"
      /\ UNCHANGED <<chosenModel, anonymous, carried, restarts, picked>>
      /\ \/ modelRow' = c /\ defaulted' = FALSE /\ GoesTo(c, "done") /\ unsettled' = unsettled
         \/ unsettled' = TRUE
  BY DEF SaveChoice
<1> SUFFICES ASSUME picked # Nothing, ~unsettled'
             PROVE  ChoiceHolds(picked)'
  BY <1>1 DEF ChoiceInv
<1>2. modelRow' = c /\ defaulted' = FALSE /\ GoesTo(c, "done") /\ ChoiceHolds(picked)
  BY <1>1 DEF ChoiceInv
<1>3. picked = c
  BY <1>1, <1>2 DEF ChoiceHolds
<1>4. \A x \in OAuthRequests : step'[x] = IF x = c THEN "done" ELSE step[x]
  BY <1>0, <1>2, GoesThere
<1>5. (\A l \in Logins : step'[l] = step[l]) /\ \A d \in Choices : step'[d] # "saving"
  BY <1>2, <1>3, <1>4, OAuthKinds DEF ChoiceHolds
<1> QED BY <1>1, <1>2, <1>3, <1>5 DEF ChoiceHolds, SavedAs

-----------------------------------------------------------------------------
LEMMA StepOAuth == OAuthInv /\ [OAuthNext]_oauthVars => OAuthInv'
<1> SUFFICES ASSUME OAuthType, FileInv, ChoiceInv, [OAuthNext]_oauthVars
             PROVE  OAuthType' /\ FileInv' /\ ChoiceInv'
  BY DEF OAuthInv
<1>1. ASSUME NEW l \in Logins, LoginStep(l) PROVE OAuthType' /\ FileInv' /\ ChoiceInv'
  <2>1. CASE PersistPayload(l) \/ PersistModel(l) \/ ConnectTenant(l)
    BY <1>1, <2>1, LoginTypes, LoginPersists, LoginAnswered, LoginChoice
  <2>2. CASE StartLogin(l) \/ Callback(l) \/ TokenExchanged(l) \/ ImportCodexAuthJson(l)
    <3>1. PICK s \in {"redirected", "exchanging", "opening", "failed"} : GoesTo(l, s)
      BY <2>2 DEF StartLogin, Callback, TokenExchanged, ImportCodexAuthJson
    <3>2. \A x \in OAuthRequests : step'[x] = IF x = l THEN s ELSE step[x]
      BY <3>1, GoesThere, OAuthKinds
    <3>3. step[l] # "writing" /\ UNCHANGED <<authFile, authRow, carried, logins>>
      BY <2>2 DEF StartLogin, Callback, TokenExchanged, ImportCodexAuthJson, storage, history
    <3>4. FileInv'
      BY <3>2, <3>3, OAuthKinds, OthersKeep
    <3> QED BY <1>1, <3>4, LoginTypes, LoginChoice
  <2>3. CASE StateExpires(l)
    <3>1. UNCHANGED <<authFile, authRow, carried, logins, step>>
      BY <2>3 DEF StateExpires, storage, history
    <3> QED BY <1>1, <3>1, LoginTypes, LoginChoice, OthersKeep
  <2> QED BY <1>1, <2>1, <2>2, <2>3 DEF LoginStep
<1>2. ASSUME NEW r \in Restores, ReadAuthFile(r) \/ ReadAuthRow(r) PROVE OAuthType' /\ FileInv' /\ ChoiceInv'
  BY <1>2, RestoreTypes, ReadAuthFileKeeps, ReadAuthRowKeeps, RestoreChoice
<1>3. ASSUME NEW w \in Writers, OpenFile(w) \/ WriteFile(w) \/ WriteFails(w)
      PROVE  OAuthType' /\ FileInv' /\ ChoiceInv'
  <2>1. CASE w \in Logins
    BY <1>3, <2>1, FileTypes, LoginOpens, LoginWrites, FailureKeeps, LoginChoice
  <2>2. CASE w \in Restores
    BY <1>3, <2>2, FileTypes, RestoreOpens, RestoreWrites, FailureKeeps, RestoreChoice
  <2> QED BY <2>1, <2>2 DEF Writers
<1>4. ASSUME NEW c \in Choices, ChooseModel(c) \/ SaveChoice(c) PROVE OAuthType' /\ FileInv' /\ ChoiceInv'
  <2>1. PICK s : GoesTo(c, s)
    BY <1>4 DEF ChooseModel, SaveChoice
  <2>2. \A x \in OAuthRequests : step'[x] = IF x = c THEN s ELSE step[x]
    BY <2>1, GoesThere, OAuthKinds
  <2>3. UNCHANGED <<authFile, authRow, carried, logins>>
    BY <1>4 DEF ChooseModel, SaveChoice, storage
  <2>4. FileInv'
    BY <2>2, <2>3, OAuthKinds, OthersKeep
  <2> QED BY <1>4, <2>4, ChoiceTypes, ChooseModelKeeps, SaveChoiceKeeps
<1>5. CASE Restart
  <2>1. ChoiceInv'
    BY <1>5 DEF Restart, ChoiceInv, OAuthType
  <2> QED BY <1>5, <2>1, RestartTypes, RestartKeeps
<1>6. CASE UNCHANGED oauthVars
  <2>1. UNCHANGED <<authFile, authRow, modelRow, chosenModel, anonymous, step, carried, restarts, logins, choices>>
    BY <1>6 DEF oauthVars, storage, history
  <2>2. OAuthType' /\ ChoiceInv'
    BY <2>1 DEF OAuthType, ChoiceInv, ChoiceHolds, SavedAs, logins, choices
  <2> QED BY <2>1, <2>2, OthersKeep
<1> QED BY <1>1, <1>2, <1>3, <1>4, <1>5, <1>6 DEF OAuthNext

(* Unless a login and another writer of the file overlapped, the payload   *)
(* of the last login that was answered is in the row, and in the file when *)
(* that is usable, through crashes, redeployments, failures and restores,  *)
(* until a later login has written the file; and the file is usable, but   *)
(* while it is written, once it has been looked at since the start.        *)
THEOREM LoginSurvivesHolds == OAuthSpec => []LoginSurvives
<1>1. OAuthInv => LoginSurvives
  BY DEF OAuthInv, FileInv, Calm, PayloadSurvives, LoginSurvives
<1> QED BY <1>1, InitOAuth, StepOAuth, PTL DEF OAuthSpec

(* The model an administrator chose stays saved through later logins and   *)
(* failed ones, as long as the process runs that was told of it, but for   *)
(* the default that an import without a tenant saves in its place.         *)
THEOREM ChosenModelStaysHolds == OAuthSpec => []ChosenModelStays
<1>1. OAuthInv => ChosenModelStays
  BY DEF OAuthInv, OAuthType, ChoiceInv, ChoiceHolds, SavedAs, ChosenModelStays, SavingModel
<1> QED BY <1>1, InitOAuth, StepOAuth, PTL DEF OAuthSpec

-----------------------------------------------------------------------------
(***************************************************************************)
(* The record of one source, for any number of edits, reads and tokens.    *)
(*                                                                         *)
(* A refused token that a read replaced stays out of the cache, which is   *)
(* filled from the record too, and every handler writes to the record it   *)
(* holds: the invariant is that until the full load ends there is one      *)
(* record, and that neither it nor the cache has such a token, all of      *)
(* which were issued before.                                               *)
(*                                                                         *)
(* An edit that was answered stays: the invariant follows it through the   *)
(* one record, what the full load read, and the record that replaces the   *)
(* first; and the row has the record unless a write is under way.          *)
(***************************************************************************)

Records(n) == [edits : SUBSET Edits, token : 0..n]

OneRecord ==
  /\ entry = 1
  /\ holds = [r \in Requests |-> 1]
  /\ records \in [1..2 -> Records(issued)]

OnlyIssued ==
  /\ issued \in Nat
  /\ cached \in 0..issued
  /\ token \in [Reads -> 0..issued]
  /\ revoked \subseteq 1..issued
  /\ replaced \subseteq 1..issued

NoneLeft == cached \notin replaced /\ records[1].token \notin replaced

Kept == OneRecord /\ OnlyIssued /\ NoneLeft
RefusedInv == load = "done" \/ Kept

LEMMA InitKept == RecordInit => Kept
<1> SUFFICES ASSUME RecordInit PROVE Kept
  OBVIOUS
<1>1. issued = 0 /\ cached = 0 /\ replaced = {} /\ revoked = {} /\ entry = 1
  BY DEF RecordInit
<1>2. Original \in Records(0)
  BY DEF Original, Records
<1>3. OneRecord
  BY <1>1, <1>2 DEF RecordInit, OneRecord
<1>4. OnlyIssued
  BY <1>1 DEF RecordInit, OnlyIssued
<1>5. NoneLeft
  BY <1>1 DEF NoneLeft
<1> QED BY <1>3, <1>4, <1>5 DEF Kept

(* A request that ends keeps no token, and what it held is the one record. *)
LEMMA EndsKeeps ==
  ASSUME Kept, NEW r \in Requests, NEW place, Ends(r, place),
         UNCHANGED <<records, entry, cached, issued, revoked, replaced>>
  PROVE  Kept'
<1>1. token' \in [Reads -> 0..issued]
  BY DEF Ends, Kept, OnlyIssued
<1>2. holds' = [x \in Requests |-> 1]
  BY DEF Ends, Kept, OneRecord
<1>3. OneRecord' /\ OnlyIssued' /\ NoneLeft'
  BY <1>1, <1>2 DEF Kept, OneRecord, OnlyIssued, NoneLeft
<1> QED BY <1>3 DEF Kept

(* A request that only waits longer changes nothing of it.                 *)
LEMMA WaitKeeps ==
  ASSUME Kept, UNCHANGED <<records, entry, cached, issued, revoked, replaced, holds, token>>
  PROVE  Kept'
BY DEF Kept, OneRecord, OnlyIssued, NoneLeft

(* One lemma per action that touches the record, the cache or the tokens.  *)

LEMMA FindKeeps ==
  ASSUME Kept, NEW e \in Edits, FindDataSource(e)
  PROVE  Kept'
<1>1. holds' = [r \in Requests |-> 1]
  BY DEF FindDataSource, Kept, OneRecord
<1>2. UNCHANGED <<records, entry, cached, issued, revoked, replaced, token>>
  BY DEF FindDataSource, memory, remote
<1> QED BY <1>1, <1>2 DEF Kept, OneRecord, OnlyIssued, NoneLeft

LEMMA ApplyKeeps ==
  ASSUME Kept, NEW e \in Edits, ApplyDataSourceUpdate(e)
  PROVE  Kept'
<1> DEFINE record == [records[1] EXCEPT !.edits = @ \cup {e}]
<1>1. record \in Records(issued) /\ record.token = records[1].token
  BY DEF Kept, OneRecord, Records
<1>2. holds[e] = 1
  BY DEF Kept, OneRecord, Requests
<1>3. Send(e, record)
  BY <1>2 DEF ApplyDataSourceUpdate
<1>4. UNCHANGED <<entry, cached, issued, revoked, replaced, holds, token>>
  BY DEF ApplyDataSourceUpdate, remote
<1> HIDE DEF record
<1>5. records' = [records EXCEPT ![1] = record]
  BY <1>2, <1>3 DEF Send
<1>6. records' \in [1..2 -> Records(issued)] /\ records'[1] = record
  BY <1>1, <1>5 DEF Kept, OneRecord
<1> QED BY <1>1, <1>4, <1>6 DEF Kept, OneRecord, OnlyIssued, NoneLeft

LEMMA FetchKeeps ==
  ASSUME Kept, NEW r \in Reads, FetchToken(r)
  PROVE  Kept'
<1>1. holds' = [x \in Requests |-> 1]
  BY DEF FetchToken, Kept, OneRecord
<1>2. UNCHANGED <<records, entry, issued, revoked, replaced>>
  BY DEF FetchToken, remote, recordHistory
<1>3. records[1].token \in 0..issued
  BY DEF Kept, OneRecord, Records
<1>4. cached' \in {cached, records[1].token}
  BY DEF FetchToken, Kept, OneRecord
<1>5. token' \in [Reads -> 0..issued]
  <2>1. token' = token \/ token' = [token EXCEPT ![r] = cached']
    BY DEF FetchToken
  <2>2. cached' \in 0..issued
    BY <1>3, <1>4 DEF Kept, OnlyIssued
  <2> QED BY <2>1, <2>2 DEF Kept, OnlyIssued
<1> QED BY <1>1, <1>2, <1>3, <1>4, <1>5 DEF Kept, OneRecord, OnlyIssued, NoneLeft

LEMMA StoreKeeps ==
  ASSUME Kept, NEW r \in Reads, StoreManagedApiToken(r)
  PROVE  Kept'
<1> DEFINE record == [records[1] EXCEPT !.token = issued + 1]
<1>1. issued \in Nat /\ issued' = issued + 1 /\ cached' = issued + 1
  BY DEF Kept, OnlyIssued, StoreManagedApiToken
<1>2. record \in Records(issued + 1) /\ record.token = issued + 1
  BY <1>1 DEF Kept, OneRecord, Records
<1>3. holds[r] = 1
  BY DEF Kept, OneRecord, Requests
<1>4. Send(r, record)
  BY <1>1, <1>3 DEF StoreManagedApiToken
<1>5. UNCHANGED <<entry, revoked, holds>> /\ token' = [token EXCEPT ![r] = issued + 1]
  BY <1>1 DEF StoreManagedApiToken
<1>6. replaced' \subseteq 1..issued
  <2>1. replaced' \subseteq replaced \cup revoked
    BY DEF StoreManagedApiToken
  <2> QED BY <2>1 DEF Kept, OnlyIssued
<1> HIDE DEF record
<1>7. records' = [records EXCEPT ![1] = record]
  BY <1>3, <1>4 DEF Send
<1>8. records' \in [1..2 -> Records(issued')] /\ records'[1] = record
  <2>1. Records(issued) \subseteq Records(issued + 1)
    BY <1>1 DEF Records
  <2>2. records \in [1..2 -> Records(issued + 1)]
    BY <2>1 DEF Kept, OneRecord
  <2> QED BY <1>1, <1>2, <1>7, <2>2
<1>9. token' \in [Reads -> 0..issued'] /\ revoked' \subseteq 1..issued' /\ replaced' \subseteq 1..issued'
  BY <1>1, <1>5, <1>6 DEF Kept, OnlyIssued
<1>10. OneRecord'
  BY <1>5, <1>8 DEF Kept, OneRecord
<1>11. OnlyIssued'
  BY <1>1, <1>9 DEF OnlyIssued
<1>12. NoneLeft'
  BY <1>1, <1>2, <1>6, <1>8 DEF NoneLeft
<1> QED BY <1>10, <1>11, <1>12 DEF Kept

LEMMA RevokedKeeps ==
  ASSUME Kept, NEW t \in (1..issued) \ revoked, Revoked(t)
  PROVE  Kept'
BY DEF Revoked, memory, requests, recordHistory, Kept, OneRecord, OnlyIssued, NoneLeft

-----------------------------------------------------------------------------
LEMMA StepKeeps ==
  ASSUME Kept, RecordNext, load' # "done"
  PROVE  Kept'
<1>1. ASSUME NEW e \in Edits, FindDataSource(e) PROVE Kept'
  BY <1>1, FindKeeps
<1>2. ASSUME NEW e \in Edits, ApplyDataSourceUpdate(e) PROVE Kept'
  BY <1>2, ApplyKeeps
<1>3. ASSUME NEW r \in Requests, UpdateCommits(r) PROVE Kept'
  <2>1. UNCHANGED <<records, entry, cached, issued, revoked, replaced>>
    BY <1>3 DEF UpdateCommits, memory, remote, recordHistory
  <2>2. CASE r \in Edits
    BY <1>3, <2>1, <2>2, EndsKeeps DEF UpdateCommits
  <2>3. CASE r \notin Edits
    BY <1>3, <2>1, <2>3, WaitKeeps DEF UpdateCommits
  <2> QED BY <2>2, <2>3
<1>4. ASSUME NEW r \in Requests, UpdateFails(r) PROVE Kept'
  BY <1>4, EndsKeeps DEF UpdateFails, memory, remote
<1>5. ASSUME NEW r \in Reads, FetchToken(r) PROVE Kept'
  BY <1>5, FetchKeeps
<1>6. ASSUME NEW r \in Reads, StoreManagedApiToken(r) PROVE Kept'
  BY <1>6, StoreKeeps
<1>7. ASSUME NEW r \in Reads, TokenRequestFails(r) \/ ApiAnswers(r) PROVE Kept'
  BY <1>7, EndsKeeps DEF TokenRequestFails, ApiAnswers, memory, remote, recordHistory, Requests
<1>8. ASSUME NEW r \in Reads, ApiRefuses(r) PROVE Kept'
  <2>1. UNCHANGED <<records, entry, cached, issued, revoked, replaced>> /\ r \in Requests
    BY <1>8 DEF ApiRefuses, memory, remote, recordHistory, Requests
  <2>2. CASE r \in forced
    BY <1>8, <2>1, <2>2, EndsKeeps DEF ApiRefuses
  <2>3. CASE r \notin forced
    BY <1>8, <2>1, <2>3, WaitKeeps DEF ApiRefuses
  <2> QED BY <2>2, <2>3
<1>9. ASSUME NEW t \in (1..issued) \ expired, Expires(t) PROVE Kept'
  BY <1>9, WaitKeeps DEF Expires, memory, requests, recordHistory
<1>10. ASSUME NEW t \in (1..issued) \ revoked, Revoked(t) PROVE Kept'
  BY <1>10, RevokedKeeps
<1>11. ASSUME LoadReads PROVE Kept'
  BY <1>11, WaitKeeps DEF LoadReads, memory, remote, requests
<1>12. ASSUME LoadReplaces PROVE Kept'
  BY <1>12 DEF LoadReplaces
<1> QED
  BY <1>1, <1>2, <1>3, <1>4, <1>5, <1>6, <1>7, <1>8, <1>9, <1>10, <1>11, <1>12 DEF RecordNext

(* Once it has ended, the full load does not run again.                    *)
LEMMA LoadStaysDone ==
  ASSUME load = "done", RecordNext
  PROVE  load' = "done"
BY DEF RecordNext, FindDataSource, ApplyDataSourceUpdate, UpdateCommits, UpdateFails, FetchToken,
       StoreManagedApiToken, TokenRequestFails, ApiAnswers, ApiRefuses, Expires, Revoked,
       LoadReads, LoadReplaces, fullLoad

(* A token the API refused and a read replaced is not taken up again from  *)
(* the cache or the record (api-runtime-token.ts), until a full load       *)
(* brings back an older row.                                               *)
THEOREM RefusedStaysOutHolds == RecordSpec => []RefusedStaysOut
<1>1. RecordInit => RefusedInv
  BY InitKept DEF RefusedInv
<1>2. RefusedInv /\ [RecordNext]_recordVars => RefusedInv'
  <2> SUFFICES ASSUME RefusedInv, [RecordNext]_recordVars PROVE RefusedInv'
    OBVIOUS
  <2>1. CASE RecordNext
    BY <2>1, StepKeeps, LoadStaysDone DEF RefusedInv
  <2>2. CASE UNCHANGED recordVars
    BY <2>2, WaitKeeps DEF RefusedInv, recordVars, memory, fullLoad, remote, requests, recordHistory
  <2> QED BY <2>1, <2>2
<1>3. RefusedInv => RefusedStaysOut
  BY DEF RefusedInv, Kept, NoneLeft, RefusedStaysOut
<1> QED BY <1>1, <1>2, <1>3, PTL DEF RecordSpec

-----------------------------------------------------------------------------
(* Edits that were answered stay. *)

Rec == [edits : SUBSET Edits, token : Nat]

RecordType ==
  /\ records \in [1..2 -> Rec] /\ row \in Rec /\ loadRow \in Rec
  /\ sent \in [Requests -> Rec] /\ holds \in [Requests -> 1..2] /\ issued \in Nat
  /\ load \in {"none", "reading", "done"}
  /\ entry = IF load = "done" THEN 2 ELSE 1
  /\ at \in [Requests -> {"new", "body", "saving", "requesting", "calling", "done", "failed"}]

(* Until the full load ends there is one record, which has every edit that *)
(* is in the row, in a snapshot on its way there or in what the load read. *)
OneRecordSoFar ==
  load # "done" =>
    /\ \A r \in Requests : holds[r] = 1 /\ sent[r].edits \subseteq records[1].edits
    /\ row.edits \subseteq records[1].edits /\ loadRow.edits \subseteq records[1].edits
    /\ \A e \in Edits : at[e] \in {"new", "body"} => e \notin records[1].edits

(* Where an edit is that the full load does not undo.                      *)
EditsKept ==
  \A e \in Edits :
    /\ load = "none" /\ at[e] \in {"saving", "done"} => e \in records[1].edits
    /\ load = "reading" /\ e \notin raced /\ at[e] # "new" => e \in loadRow.edits
    /\ load = "done" /\ e \notin raced /\ at[e] = "body" => holds[e] = 2
    /\ load = "done" /\ e \notin raced /\ at[e] \in {"saving", "done"} => e \in records[2].edits

(* The row has the record, or the one write under way brings it there.     *)
Committed ==
  settled =>
    \/ Saving = {} /\ row = records[entry]
    \/ \E r \in Requests : Saving = {r} /\ sent[r] = records[entry]

EditInv == RecordType /\ OneRecordSoFar /\ EditsKept /\ Committed

LEMMA InitEdit == RecordInit => EditInv
<1> SUFFICES ASSUME RecordInit PROVE EditInv
  OBVIOUS
<1>1. Original \in Rec /\ Original.edits = {}
  BY DEF Original, Rec
<1>2. /\ records = [o \in 1..2 |-> Original] /\ entry = 1 /\ row = Original /\ loadRow = Original
      /\ load = "none" /\ at = [r \in Requests |-> "new"] /\ holds = [r \in Requests |-> 1]
      /\ sent = [r \in Requests |-> Original] /\ issued = 0
  BY DEF RecordInit
<1>3. RecordType
  BY <1>1, <1>2 DEF RecordType
<1>4. OneRecordSoFar
  BY <1>1, <1>2 DEF OneRecordSoFar, Requests
<1>5. EditsKept
  BY <1>2 DEF EditsKept, Requests
<1>6. Committed
  BY <1>2 DEF Committed, Saving
<1> QED BY <1>3, <1>4, <1>5, <1>6 DEF EditInv

(* A request takes a snapshot of the record it holds, with the edit it     *)
(* makes, if it makes one.                                                 *)
LEMMA SendEdits ==
  ASSUME EditInv, NEW r \in Requests, NEW record \in Rec,
         record.edits = records[holds[r]].edits \cup (Edits \cap {r}),
         r \in Edits => at[r] = "body", r \notin Edits => at[r] = "requesting",
         Send(r, record), UNCHANGED <<entry, row, load, loadRow, holds, raced>>, issued' \in Nat
  PROVE  EditInv'
<1>0. RecordType /\ OneRecordSoFar /\ EditsKept /\ Committed
  BY DEF EditInv
<1>1. /\ records' = [records EXCEPT ![holds[r]] = record] /\ sent' = [sent EXCEPT ![r] = record]
      /\ at' = [at EXCEPT ![r] = "saving"] /\ settled' = (holds[r] = entry /\ Saving = {})
      /\ holds[r] \in 1..2
  BY <1>0 DEF Send, Moves, RecordType
<1>2. /\ \A o \in 1..2 : records'[o] = IF o = holds[r] THEN record ELSE records[o]
      /\ \A x \in Requests : sent'[x] = IF x = r THEN record ELSE sent[x]
      /\ \A x \in Requests : at'[x] = IF x = r THEN "saving" ELSE at[x]
  BY <1>0, <1>1 DEF RecordType
<1>3. RecordType'
  BY <1>0, <1>1 DEF RecordType
<1>4. \A o \in 1..2 : records[o].edits \subseteq records'[o].edits
  BY <1>1, <1>2
<1>5. OneRecordSoFar'
  <2> SUFFICES ASSUME load # "done"
               PROVE  /\ \A x \in Requests : holds[x] = 1 /\ sent'[x].edits \subseteq records'[1].edits
                      /\ row.edits \subseteq records'[1].edits /\ loadRow.edits \subseteq records'[1].edits
                      /\ \A e \in Edits : at'[e] \in {"new", "body"} => e \notin records'[1].edits
    BY DEF OneRecordSoFar
  <2>1. holds[r] = 1 /\ records'[1] = record
    BY <1>0, <1>2 DEF OneRecordSoFar
  <2>2. \A e \in Edits : at'[e] \in {"new", "body"} => e \notin records'[1].edits
    BY <1>0, <1>2, <2>1 DEF OneRecordSoFar, Requests
  <2> QED BY <1>0, <1>2, <1>4, <2>1, <2>2 DEF OneRecordSoFar
<1>6. EditsKept'
  <2> SUFFICES ASSUME NEW e \in Edits
               PROVE  /\ load = "none" /\ at'[e] \in {"saving", "done"} => e \in records'[1].edits
                      /\ load = "reading" /\ e \notin raced /\ at'[e] # "new" => e \in loadRow.edits
                      /\ load = "done" /\ e \notin raced /\ at'[e] = "body" => holds[e] = 2
                      /\ load = "done" /\ e \notin raced /\ at'[e] \in {"saving", "done"} => e \in records'[2].edits
    BY DEF EditsKept
  <2>1. CASE e # r
    BY <1>0, <1>2, <1>4, <2>1 DEF EditsKept, Requests
  <2>2. CASE e = r
    <3>1. at[e] = "body" /\ at'[e] = "saving" /\ e \in records'[holds[e]].edits
      BY <1>1, <1>2, <2>2
    <3> QED BY <1>0, <3>1 DEF EditsKept, OneRecordSoFar, Requests
  <2> QED BY <2>1, <2>2
<1>7. Committed'
  <2> SUFFICES ASSUME settled' PROVE Saving' = {r} /\ sent'[r] = records'[entry]
    BY <1>2 DEF Committed
  <2>1. holds[r] = entry /\ Saving = {}
    BY <1>1
  <2>2. Saving' = {r}
    BY <1>2, <2>1 DEF Saving
  <2> QED BY <1>1, <1>2, <2>1, <2>2
<1> QED BY <1>3, <1>5, <1>6, <1>7 DEF EditInv

(* A request goes to another place and leaves records and rows alone.      *)
LEMMA MoveEdits ==
  ASSUME EditInv, NEW r \in Requests,
         NEW place \in {"body", "requesting", "calling", "done", "failed"}, Moves(r, place),
         r \in Edits => (place = "failed" \/ (place = "done" /\ at[r] = "saving")),
         at[r] # "new" \/ r \notin Edits,
         holds' = holds \/ holds' = [holds EXCEPT ![r] = 1] \/ holds' = [holds EXCEPT ![r] = entry],
         sent' = sent \/ sent' = [sent EXCEPT ![r] = Original],
         UNCHANGED <<records, entry, load, loadRow, raced, issued>>,
         \/ at[r] # "saving" /\ row' = row /\ settled' = settled
         \/ at[r] = "saving" /\ row' = sent[r] /\ settled' = settled
         \/ row' = row /\ settled' = FALSE
  PROVE  EditInv'
<1>0. RecordType /\ OneRecordSoFar /\ EditsKept /\ Committed
  BY DEF EditInv
<1>1. \A x \in Requests : at'[x] = IF x = r THEN place ELSE at[x]
  BY <1>0 DEF RecordType, Moves
<1>2. Original \in Rec /\ Original.edits = {}
  BY DEF Original, Rec
<1>3. \A x \in Requests : holds'[x] = holds[x] \/ (x = r /\ holds'[x] \in {1, entry})
  BY <1>0 DEF RecordType
<1>4. \A x \in Requests : sent'[x] = sent[x] \/ (x = r /\ sent'[x] = Original)
  BY <1>0, <1>2 DEF RecordType
<1>5. RecordType'
  BY <1>0, <1>2 DEF RecordType, Moves
<1>6. row' = row \/ row' = sent[r]
  OBVIOUS
<1>7. OneRecordSoFar'
  <2> SUFFICES ASSUME load # "done"
               PROVE  /\ \A x \in Requests : holds'[x] = 1 /\ sent'[x].edits \subseteq records[1].edits
                      /\ row'.edits \subseteq records[1].edits /\ loadRow.edits \subseteq records[1].edits
                      /\ \A e \in Edits : at'[e] \in {"new", "body"} => e \notin records[1].edits
    BY DEF OneRecordSoFar
  <2>1. entry = 1
    BY <1>0 DEF RecordType
  <2>2. \A x \in Requests : holds'[x] = 1 /\ sent'[x].edits \subseteq records[1].edits
    BY <1>0, <1>2, <1>3, <1>4, <2>1 DEF OneRecordSoFar
  <2>3. row'.edits \subseteq records[1].edits
    BY <1>0, <1>6 DEF OneRecordSoFar
  <2>4. \A e \in Edits : at'[e] \in {"new", "body"} => e \notin records[1].edits
    BY <1>0, <1>1 DEF OneRecordSoFar, Requests
  <2> QED BY <1>0, <2>2, <2>3, <2>4 DEF OneRecordSoFar
<1>8. EditsKept'
  <2> SUFFICES ASSUME NEW e \in Edits
               PROVE  /\ load = "none" /\ at'[e] \in {"saving", "done"} => e \in records[1].edits
                      /\ load = "reading" /\ e \notin raced /\ at'[e] # "new" => e \in loadRow.edits
                      /\ load = "done" /\ e \notin raced /\ at'[e] = "body" => holds'[e] = 2
                      /\ load = "done" /\ e \notin raced /\ at'[e] \in {"saving", "done"} => e \in records[2].edits
    BY DEF EditsKept
  <2>1. CASE e # r
    BY <1>0, <1>1, <1>3, <2>1 DEF EditsKept, Requests
  <2>2. CASE e = r
    BY <1>0, <1>1, <2>2 DEF EditsKept, Requests
  <2> QED BY <2>1, <2>2
<1>9. Committed'
  <2> SUFFICES ASSUME settled'
               PROVE  \/ Saving' = {} /\ row' = records[entry]
                      \/ \E x \in Requests : Saving' = {x} /\ sent'[x] = records[entry]
    BY DEF Committed
  <2>1. settled /\ (at[r] = "saving" => row' = sent[r]) /\ (at[r] # "saving" => row' = row)
    OBVIOUS
  <2>2. Saving' = Saving \ {r}
    BY <1>1 DEF Saving
  <2>3. CASE Saving = {} /\ row = records[entry]
    BY <2>1, <2>2, <2>3 DEF Saving
  <2>4. ASSUME NEW x \in Requests, Saving = {x}, sent[x] = records[entry]
        PROVE  \/ Saving' = {} /\ row' = records[entry]
               \/ Saving' = {x} /\ sent'[x] = records[entry]
    <3>1. CASE x = r
      BY <2>1, <2>2, <2>4, <3>1 DEF Saving
    <3>2. CASE x # r
      BY <1>4, <2>2, <2>4, <3>2
    <3> QED BY <3>1, <3>2
  <2> QED BY <1>0, <2>1, <2>3, <2>4 DEF Committed
<1> QED BY <1>5, <1>7, <1>8, <1>9 DEF EditInv

(* Steps that change nothing of all this. *)
LEMMA QuietEdits ==
  ASSUME EditInv, UNCHANGED <<records, entry, row, load, loadRow, at, holds, sent, issued, raced, settled>>
  PROVE  EditInv'
BY DEF EditInv, RecordType, OneRecordSoFar, EditsKept, Committed, Saving, Requests

LEMMA FindEdits ==
  ASSUME EditInv, NEW e \in Edits, FindDataSource(e)
  PROVE  EditInv'
<1>0. RecordType /\ OneRecordSoFar /\ EditsKept /\ Committed /\ e \in Requests
  BY DEF EditInv, Requests
<1>1. /\ at[e] = "new" /\ holds' = [holds EXCEPT ![e] = entry] /\ at' = [at EXCEPT ![e] = "body"]
      /\ raced' = IF load = "reading" THEN raced \cup {e} ELSE raced
      /\ UNCHANGED <<records, entry, row, load, loadRow, sent, issued, settled>>
  BY DEF FindDataSource, Moves, memory, fullLoad, remote
<1>2. RecordType'
  BY <1>0, <1>1 DEF RecordType
<1>3. /\ \A x \in Requests : at'[x] = IF x = e THEN "body" ELSE at[x]
      /\ \A x \in Requests : holds'[x] = IF x = e THEN entry ELSE holds[x]
  BY <1>0, <1>1 DEF RecordType
<1>4. OneRecordSoFar'
  <2> SUFFICES ASSUME load # "done"
               PROVE  /\ \A x \in Requests : holds'[x] = 1 /\ sent[x].edits \subseteq records[1].edits
                      /\ row.edits \subseteq records[1].edits /\ loadRow.edits \subseteq records[1].edits
                      /\ \A x \in Edits : at'[x] \in {"new", "body"} => x \notin records[1].edits
    BY <1>1 DEF OneRecordSoFar
  <2>1. entry = 1
    BY <1>0 DEF RecordType
  <2> QED BY <1>0, <1>1, <1>3, <2>1 DEF OneRecordSoFar, Requests
<1>5. EditsKept'
  <2> SUFFICES ASSUME NEW x \in Edits
               PROVE  /\ load = "none" /\ at'[x] \in {"saving", "done"} => x \in records[1].edits
                      /\ load = "reading" /\ x \notin raced' /\ at'[x] # "new" => x \in loadRow.edits
                      /\ load = "done" /\ x \notin raced' /\ at'[x] = "body" => holds'[x] = 2
                      /\ load = "done" /\ x \notin raced' /\ at'[x] \in {"saving", "done"} => x \in records[2].edits
    BY <1>1 DEF EditsKept
  <2>1. x \in Requests /\ (load = "done" => entry = 2)
    BY <1>0 DEF Requests, RecordType
  <2> QED BY <1>0, <1>1, <1>3, <2>1 DEF EditsKept
<1>6. Committed'
  <2>1. Saving' = Saving
    BY <1>1, <1>3 DEF Saving
  <2> QED BY <1>0, <1>1, <2>1 DEF Committed
<1> QED BY <1>2, <1>4, <1>5, <1>6 DEF EditInv

LEMMA LoadReadsEdits ==
  ASSUME EditInv, LoadReads
  PROVE  EditInv'
<1>0. RecordType /\ OneRecordSoFar /\ EditsKept /\ Committed
  BY DEF EditInv
<1>1. /\ load = "none" /\ load' = "reading" /\ loadRow' = row
      /\ raced' = {e \in Edits : at[e] # "new" /\ e \notin row.edits}
      /\ UNCHANGED <<records, entry, row, at, holds, sent, issued, settled>>
  BY DEF LoadReads, memory, remote, requests
<1>2. RecordType'
  BY <1>0, <1>1 DEF RecordType
<1>3. OneRecordSoFar'
  BY <1>0, <1>1 DEF OneRecordSoFar
<1>4. EditsKept'
  BY <1>0, <1>1 DEF EditsKept
<1>5. Committed'
  BY <1>0, <1>1 DEF Committed, Saving
<1> QED BY <1>2, <1>3, <1>4, <1>5 DEF EditInv

LEMMA LoadReplacesEdits ==
  ASSUME EditInv, LoadReplaces
  PROVE  EditInv'
<1>0. RecordType /\ OneRecordSoFar /\ EditsKept /\ Committed
  BY DEF EditInv
<1>1. /\ load = "reading" /\ load' = "done" /\ records' = [records EXCEPT ![2] = loadRow] /\ entry' = 2
      /\ settled' = FALSE /\ loadRow' = Original
      /\ UNCHANGED <<row, at, holds, sent, issued, raced>>
  BY DEF LoadReplaces, remote, requests
<1>2. Original \in Rec
  BY DEF Original, Rec
<1>3. RecordType'
  BY <1>0, <1>1, <1>2 DEF RecordType
<1>4. OneRecordSoFar' /\ Committed'
  BY <1>1 DEF OneRecordSoFar, Committed
<1>5. records'[2] = loadRow
  BY <1>0, <1>1 DEF RecordType
<1>6. EditsKept'
  <2> SUFFICES ASSUME NEW e \in Edits, e \notin raced, at[e] \in {"body", "saving", "done"}
               PROVE  (at[e] = "body" => holds[e] = 2) /\ e \in records'[2].edits
    BY <1>1 DEF EditsKept
  <2>1. e \in loadRow.edits
    BY <1>0, <1>1 DEF EditsKept
  <2>2. at[e] # "body"
    BY <1>0, <1>1, <2>1 DEF OneRecordSoFar
  <2> QED BY <1>5, <2>1, <2>2
<1> QED BY <1>3, <1>4, <1>6 DEF EditInv

LEMMA StepEdit == EditInv /\ [RecordNext]_recordVars => EditInv'
<1> SUFFICES ASSUME EditInv, [RecordNext]_recordVars PROVE EditInv'
  OBVIOUS
<1>0. /\ RecordType /\ \A e \in Edits : e \in Requests
      /\ \A r \in Reads : r \in Requests /\ r \notin Edits
  BY SourceRecordAssumption DEF EditInv, Requests
<1>1. ASSUME NEW e \in Edits, FindDataSource(e) PROVE EditInv'
  BY <1>1, FindEdits
<1>2. ASSUME NEW e \in Edits, ApplyDataSourceUpdate(e) PROVE EditInv'
  <2> DEFINE record == [records[holds[e]] EXCEPT !.edits = @ \cup {e}]
  <2>1. records[holds[e]] \in Rec
    BY <1>0 DEF RecordType
  <2>2. record \in Rec /\ record.edits = records[holds[e]].edits \cup (Edits \cap {e})
    BY <2>1 DEF Rec
  <2>3. /\ at[e] = "body" /\ Send(e, record)
        /\ UNCHANGED <<entry, row, load, loadRow, holds, raced, issued>>
    BY <1>2 DEF ApplyDataSourceUpdate, fullLoad, remote
  <2>4. issued' \in Nat
    BY <1>0, <2>3 DEF RecordType
  <2> HIDE DEF record
  <2> QED BY <1>0, <2>2, <2>3, <2>4, SendEdits
<1>3. ASSUME NEW r \in Requests, UpdateCommits(r) PROVE EditInv'
  <2>1. /\ at[r] = "saving" /\ row' = sent[r]
        /\ UNCHANGED <<records, entry, load, loadRow, raced, issued, settled>>
    BY <1>3 DEF UpdateCommits, memory, fullLoad, remote, recordHistory
  <2>2. CASE r \in Edits
    BY <1>3, <2>1, <2>2, MoveEdits DEF UpdateCommits, Ends
  <2>3. CASE r \notin Edits
    BY <1>3, <2>1, <2>3, MoveEdits DEF UpdateCommits
  <2> QED BY <2>2, <2>3
<1>4. ASSUME NEW r \in Requests, UpdateFails(r) PROVE EditInv'
  <2>1. /\ at[r] = "saving" /\ settled' = FALSE /\ Ends(r, "failed")
        /\ UNCHANGED <<records, entry, row, load, loadRow, raced, issued>>
    BY <1>4 DEF UpdateFails, memory, fullLoad, remote
  <2> QED BY <2>1, MoveEdits DEF Ends
<1>5. ASSUME NEW r \in Reads, FetchToken(r) PROVE EditInv'
  <2>1. /\ at[r] = "new" /\ holds' = [holds EXCEPT ![r] = entry]
        /\ Moves(r, "calling") \/ Moves(r, "requesting")
        /\ UNCHANGED <<records, entry, row, load, loadRow, raced, issued, settled, sent>>
    BY <1>5 DEF FetchToken, fullLoad, remote, recordHistory
  <2> QED BY <1>0, <2>1, MoveEdits
<1>6. ASSUME NEW r \in Reads, StoreManagedApiToken(r) PROVE EditInv'
  <2> DEFINE record == [records[holds[r]] EXCEPT !.token = issued']
  <2>1. records[holds[r]] \in Rec /\ issued' \in Nat
    BY <1>0, <1>6 DEF RecordType, StoreManagedApiToken
  <2>2. record \in Rec /\ record.edits = records[holds[r]].edits \cup (Edits \cap {r})
    BY <1>0, <2>1 DEF Rec
  <2>3. at[r] = "requesting" /\ Send(r, record) /\ UNCHANGED <<entry, row, load, loadRow, holds, raced>>
    BY <1>6 DEF StoreManagedApiToken, fullLoad
  <2> HIDE DEF record
  <2> QED BY <1>0, <2>1, <2>2, <2>3, SendEdits
<1>7. ASSUME NEW r \in Reads, TokenRequestFails(r) \/ ApiAnswers(r) PROVE EditInv'
  <2>1. /\ at[r] \in {"requesting", "calling"} /\ (Ends(r, "done") \/ Ends(r, "failed"))
        /\ UNCHANGED <<records, entry, row, load, loadRow, raced, issued, settled>>
    BY <1>7 DEF TokenRequestFails, ApiAnswers, memory, fullLoad, remote, recordHistory
  <2> QED BY <1>0, <2>1, MoveEdits DEF Ends
<1>8. ASSUME NEW r \in Reads, ApiRefuses(r) PROVE EditInv'
  <2>1. /\ at[r] = "calling"
        /\ Ends(r, "failed") \/ (Moves(r, "requesting") /\ UNCHANGED <<holds, sent>>)
        /\ UNCHANGED <<records, entry, row, load, loadRow, raced, issued, settled>>
    BY <1>8 DEF ApiRefuses, memory, fullLoad, remote, recordHistory
  <2> QED BY <1>0, <2>1, MoveEdits DEF Ends
<1>9. ASSUME NEW t, Expires(t) \/ Revoked(t) PROVE EditInv'
  BY <1>9, QuietEdits DEF Expires, Revoked, memory, fullLoad, requests, recordHistory
<1>10. CASE UNCHANGED recordVars
  BY <1>10, QuietEdits DEF recordVars, memory, fullLoad, remote, requests, recordHistory
<1> QED
  BY <1>1, <1>2, <1>3, <1>4, <1>5, <1>6, <1>7, <1>8, <1>9, <1>10, LoadReadsEdits, LoadReplacesEdits
  DEF RecordNext

(* An edit that was answered (data-source handlers, PUT) stays in the      *)
(* record unless it raced the full load, and in the row once the last      *)
(* write was alone and of the current record.                              *)
THEOREM EditsStayHolds == RecordSpec => []EditsStay
<1>1. EditInv => EditsStay
  <2> SUFFICES ASSUME EditInv, NEW e \in Edits \ raced, at[e] = "done"
               PROVE  e \in records[entry].edits /\ (settled /\ Saving = {} => row = records[entry])
    BY DEF EditsStay
  <2>0. RecordType /\ OneRecordSoFar /\ EditsKept /\ Committed
    BY DEF EditInv
  <2>1. e \in records[entry].edits
    <3>1. CASE load = "done"
      BY <2>0, <3>1 DEF RecordType, EditsKept
    <3>2. CASE load = "none"
      BY <2>0, <3>2 DEF RecordType, EditsKept
    <3>3. CASE load = "reading"
      BY <2>0, <3>3 DEF RecordType, EditsKept, OneRecordSoFar
    <3> QED BY <2>0, <3>1, <3>2, <3>3 DEF RecordType
  <2>2. settled /\ Saving = {} => row = records[entry]
    BY <2>0 DEF Committed
  <2> QED BY <2>1, <2>2
<1> QED BY <1>1, InitEdit, StepEdit, PTL DEF RecordSpec

-----------------------------------------------------------------------------
(***************************************************************************)
(* The plan is grounded, for any tables, turns and retries.  No single tool*)
(* checks it: build_component looks at what was loaded, get_schema at what *)
(* the preflight allowed, and the planner starts to build as soon as there *)
(* is a breakdown.  The invariant follows a request through the three: a   *)
(* model is only ever loaded while building, after the preflight its       *)
(* breakdown requires, and what was eligible then is never forgotten.      *)
(*                                                                         *)
(* Every request of the provider is charged to a place of its own, by      *)
(* attempt, stage, turn and try, and every step but the last goes on to a  *)
(* later place: that bounds what a question costs.                         *)
(***************************************************************************)

Knowledge ==
  [routed : BOOLEAN, breakdown : {"none", "plain", "inputs"}, eligible : SUBSET Tables,
   listed : BOOLEAN, matched : BOOLEAN, loaded : BOOLEAN, id : Arguments, name : Arguments]

Typed == known \in Knowledge

(* A loaded model comes after the preflight, if there is to be one. *)
LoadedAfterPreflight(state) ==
  state.loaded /\ state.breakdown = "inputs" => state.eligible # {}

(* The stages: nothing is loaded while routing, and a result is the end.   *)
Staged ==
  /\ stage = "route" => ~known.loaded
  /\ Planned => stage = "over"
  /\ stage = "over" => ~calling

GroundedInv == Typed /\ LoadedAfterPreflight(known) /\ Staged /\ GroundedPlan

-----------------------------------------------------------------------------

LEMMA FreshKnowledge == Fresh \in Knowledge /\ ~Fresh.loaded /\ LoadedAfterPreflight(Fresh)
BY AnalyzerPlanAssumption DEF Fresh, Knowledge, Arguments, LoadedAfterPreflight

LEMMA NoPlan == ASSUME NEW kind \in {"none", "reply", "fallback", "unavailable"},
                       outcome = Without(kind)
                PROVE  ~Planned
BY DEF Planned, Without

LEMMA InitGrounded == PlanInit => GroundedInv
<1> SUFFICES ASSUME PlanInit PROVE GroundedInv
  OBVIOUS
<1>1. ~Planned
  BY NoPlan DEF PlanInit
<1> QED BY <1>1, FreshKnowledge DEF PlanInit, GroundedInv, Typed, Staged, GroundedPlan

(* Without a plan all that matters is what the tools know.                 *)
LEMMA Unplanned ==
  ASSUME ~Planned', Typed', LoadedAfterPreflight(known)',
         stage' = "route" => ~known'.loaded, stage' = "over" => ~calling'
  PROVE  GroundedInv'
BY DEF GroundedInv, Staged, GroundedPlan

(* Before the end there is no plan, and a step that returns none goes on.  *)
LEMMA StillUnplanned ==
  ASSUME GroundedInv, stage # "over", UNCHANGED outcome
  PROVE  ~Planned'
BY DEF GroundedInv, Staged, Planned

LEMMA ConcludesWithout ==
  ASSUME GroundedInv, NEW kind \in {"none", "reply", "fallback", "unavailable"},
         Concludes(Without(kind))
  PROVE  GroundedInv'
<1>1. ~Planned'
  BY DEF Concludes, Planned, Without
<1>2. stage' = "over" /\ ~calling' /\ known' = known
  BY DEF Concludes, Enters
<1> QED BY <1>1, <1>2, Unplanned DEF GroundedInv, Typed, LoadedAfterPreflight

(* A failed stage either builds on what is known, or starts again, or ends. *)
LEMMA FailureGrounded ==
  ASSUME GroundedInv, stage # "over", NEW why, NEW state \in Knowledge,
         LoadedAfterPreflight(state), StageFails(why, state)
  PROVE  GroundedInv'
<1>1. CASE Concludes(Without("fallback"))
  BY <1>1, ConcludesWithout
<1>2. CASE Enters("build") /\ known' = state /\ UNCHANGED outcome
  <2>1. stage' = "build"
    BY <1>2 DEF Enters
  <2> QED BY <1>2, <2>1, StillUnplanned, Unplanned DEF Typed, LoadedAfterPreflight
<1>3. CASE Enters("route") /\ known' = Fresh /\ UNCHANGED outcome
  <2>1. stage' = "route"
    BY <1>3 DEF Enters
  <2> QED BY <1>3, <2>1, FreshKnowledge, StillUnplanned, Unplanned DEF Typed, LoadedAfterPreflight
<1> QED BY <1>1, <1>2, <1>3 DEF StageFails, AttemptEnds

(* What the tools keep may grow, as long as it stays in order.             *)
LEMMA KnowsMore ==
  ASSUME GroundedInv, stage # "over", UNCHANGED outcome,
         known' \in Knowledge, LoadedAfterPreflight(known'),
         stage' \in {"route", "build"}, stage' = "route" => ~known'.loaded
  PROVE  GroundedInv'
BY StillUnplanned, Unplanned DEF Typed, LoadedAfterPreflight

LEMMA RequestGrounded ==
  ASSUME GroundedInv, NEW why,
         \/ RequestRetried \/ AnswersWithText \/ AnswersWithCalls
         \/ RequestFails(why) \/ LookupThrows(why)
  PROVE  GroundedInv'
<1>1. stage # "over"
  BY DEF RequestRetried, AnswersWithText, AnswersWithCalls, RequestFails, LookupThrows, Asks, Calling
<1>2. known \in Knowledge /\ LoadedAfterPreflight(known)
  BY DEF GroundedInv, Typed
<1>3. CASE StageFails(why, known) \/ StageFails("text", known)
  BY <1>1, <1>2, <1>3, FailureGrounded
<1>4. CASE UNCHANGED <<stage, known, outcome>>
  <2>1. ~Planned' /\ stage' # "over"
    BY <1>1, <1>4, StillUnplanned
  <2> QED BY <1>4, <2>1, Unplanned DEF GroundedInv, Typed, LoadedAfterPreflight, Staged
<1> QED BY <1>3, <1>4
  DEF RequestRetried, AnswersWithText, AnswersWithCalls, RequestFails, LookupThrows

LEMMA CallsHandledGrounded ==
  ASSUME GroundedInv, CallsHandled
  PROVE  GroundedInv'
<1>1. stage # "over"
  BY DEF CallsHandled, GroundedInv, Staged
<1>2. CASE Concludes(Without("fallback"))
  BY <1>2, ConcludesWithout
<1>3. CASE UNCHANGED <<stage, known, outcome>>
  <2>1. ~Planned' /\ stage' # "over"
    BY <1>1, <1>3, StillUnplanned
  <2> QED BY <1>3, <2>1, Unplanned DEF GroundedInv, Typed, LoadedAfterPreflight, Staged
<1> QED BY <1>2, <1>3 DEF CallsHandled

-----------------------------------------------------------------------------
(* The tools of the routing stage *)

LEMMA RouteGrounded ==
  ASSUME GroundedInv, RouteAnalyzerUserTurn
  PROVE  GroundedInv'
<1>1. CASE Concludes(Without("reply"))
  BY <1>1, ConcludesWithout
<1>2. CASE Remember([known EXCEPT !.routed = TRUE])
  <2>1. stage = "route" /\ known \in Knowledge /\ LoadedAfterPreflight(known) /\ ~known.loaded
    BY DEF RouteAnalyzerUserTurn, Calling, GroundedInv, Typed, Staged
  <2>2. stage' = stage /\ UNCHANGED outcome /\ known' = [known EXCEPT !.routed = TRUE]
    BY <1>2 DEF Remember
  <2>3. known' \in Knowledge /\ ~known'.loaded /\ LoadedAfterPreflight(known')
    BY <2>1, <2>2 DEF Knowledge, LoadedAfterPreflight
  <2> QED BY <2>1, <2>2, <2>3, KnowsMore
<1> QED BY <1>1, <1>2 DEF RouteAnalyzerUserTurn

LEMMA BreakDownGrounded ==
  ASSUME GroundedInv, BreakDownAnalyzerRequest
  PROVE  GroundedInv'
<1>1. CASE Concludes(Without("reply"))
  BY <1>1, ConcludesWithout
<1>2. CASE /\ Enters("build")
           /\ \/ known' = [known EXCEPT !.breakdown = "plain"]
              \/ \E models \in (SUBSET Tables) \ {{}} :
                   known' = Resolved([known EXCEPT !.breakdown = "inputs"], models)
           /\ UNCHANGED outcome
  <2>1. stage = "route" /\ known \in Knowledge /\ ~known.loaded
    BY DEF BreakDownAnalyzerRequest, Calling, GroundedInv, Typed, Staged
  <2>2. stage' = "build"
    BY <1>2 DEF Enters
  <2>3. known' \in Knowledge /\ ~known'.loaded
    <3>1. CASE known' = [known EXCEPT !.breakdown = "plain"]
      BY <2>1, <3>1 DEF Knowledge
    <3>2. ASSUME NEW models \in SUBSET Tables,
                 known' = Resolved([known EXCEPT !.breakdown = "inputs"], models)
          PROVE  known' \in Knowledge /\ ~known'.loaded
      BY <2>1, <3>2 DEF Knowledge, Resolved
    <3> QED BY <1>2, <3>1, <3>2
  <2> QED BY <1>2, <2>1, <2>2, <2>3, KnowsMore DEF LoadedAfterPreflight
<1> QED BY <1>1, <1>2 DEF BreakDownAnalyzerRequest

LEMMA BreakDownThrowsGrounded ==
  ASSUME GroundedInv, BreakDownThrows
  PROVE  GroundedInv'
<1> DEFINE state == [known EXCEPT !.breakdown = "inputs"]
<1>1. stage = "route" /\ known \in Knowledge /\ ~known.loaded
  BY DEF BreakDownThrows, Calling, GroundedInv, Typed, Staged
<1>2. state \in Knowledge /\ LoadedAfterPreflight(state)
  BY <1>1 DEF Knowledge, LoadedAfterPreflight
<1>3. StageFails("failed", state)
  BY DEF BreakDownThrows
<1> QED BY <1>1, <1>2, <1>3, FailureGrounded

-----------------------------------------------------------------------------
(* The tools of the building stage *)

LEMMA ResolveGrounded ==
  ASSUME GroundedInv, ResolveModelCapabilities
  PROVE  GroundedInv'
<1>1. CASE Concludes(Without("reply"))
  BY <1>1, ConcludesWithout
<1>2. ASSUME NEW models \in (SUBSET Tables) \ {{}}, Remember(Resolved(known, models))
      PROVE  GroundedInv'
  <2>1. stage = "build" /\ known \in Knowledge
    BY DEF ResolveModelCapabilities, Calling, GroundedInv, Typed
  <2>2. stage' = stage /\ UNCHANGED outcome /\ known' = Resolved(known, models)
    BY <1>2 DEF Remember
  <2>3. known' = [known EXCEPT !.eligible = models, !.matched = TRUE]
    BY <2>2 DEF Resolved
  <2>4. known' \in Knowledge /\ known'.eligible = models
    BY <2>1, <2>3 DEF Knowledge
  <2>5. LoadedAfterPreflight(known')
    BY <2>4 DEF LoadedAfterPreflight
  <2> QED BY <2>1, <2>2, <2>4, <2>5, KnowsMore
<1> QED BY <1>1, <1>2 DEF ResolveModelCapabilities

LEMMA ListGrounded ==
  ASSUME GroundedInv, ListDataModels
  PROVE  GroundedInv'
<1>1. stage = "build" /\ known \in Knowledge /\ LoadedAfterPreflight(known)
  BY DEF ListDataModels, Calling, GroundedInv, Typed
<1>2. PICK some \in BOOLEAN : Remember([known EXCEPT !.listed = TRUE, !.matched = some])
  BY DEF ListDataModels
<1>3. stage' = stage /\ UNCHANGED outcome
      /\ known' = [known EXCEPT !.listed = TRUE, !.matched = some]
  BY <1>2 DEF Remember
<1>4. known' \in Knowledge /\ LoadedAfterPreflight(known')
  BY <1>1, <1>3 DEF Knowledge, LoadedAfterPreflight
<1> QED BY <1>1, <1>3, <1>4, KnowsMore

(* The one step that loads a model requires the preflight.                 *)
LEMMA GetSchemaGrounded ==
  ASSUME GroundedInv, NEW id \in Arguments, NEW name \in Arguments, GetSchema(id, name)
  PROVE  GroundedInv'
<1> DEFINE state == [known EXCEPT !.loaded = TRUE, !.id = Given(id, @), !.name = Given(name, @)]
<1>1. stage = "build" /\ known \in Knowledge /\ ~NeedsPreflight
  BY DEF GetSchema, SchemaAllowed, Calling, GroundedInv, Typed
<1>2. stage' = stage /\ UNCHANGED outcome /\ known' = state
  BY DEF GetSchema, Remember
<1>3. state \in Knowledge /\ LoadedAfterPreflight(state)
  BY <1>1 DEF Knowledge, Given, NeedsPreflight, LoadedAfterPreflight
<1> QED BY <1>1, <1>2, <1>3, KnowsMore

LEMMA ContextGrounded ==
  ASSUME GroundedInv, RequestDataSourceOrModelContext
  PROVE  GroundedInv'
BY ConcludesWithout DEF RequestDataSourceOrModelContext

(* The first of three that is in a set, if one is.                         *)
LEMMA FirstIn ==
  ASSUME NEW S, NEW a, NEW b, NEW c, a \in S \/ b \in S
  PROVE  First(a, b, c, S) \in S /\ First(a, b, c, S) = (IF a \in S THEN a ELSE b)
BY DEF First

(* GroundedPlan, of any plan and state of the tools.                       *)
Eligible(plan, state) ==
  LET named == {plan.id, plan.name, state.id, state.name} \ {NoTable}
  IN  named # {} /\ named \subseteq state.eligible

Grounded(plan, state) ==
  plan.kind = "multi" \/ (plan.kind = "single" /\ Eligible(plan, state)) =>
    plan.table \in state.eligible /\ plan.verified = plan.table

(* The table of a plan and the model its capability was verified for are   *)
(* the same eligible one, when the id and the name it was made from, and   *)
(* one of them there is, are eligible.                                     *)
LEMMA PlanVerified ==
  ASSUME Typed, NEW id, NEW name, NEW inActions, NEW plan,
         \E kind : plan = Plan(kind, id, name, inActions),
         NEW i, i = Given(id, known.id), NEW n, n = Given(name, known.name),
         {i, n} \subseteq known.eligible \cup {NoTable}, i # NoTable \/ n # NoTable
  PROVE  plan.table \in known.eligible /\ plan.verified = plan.table
<1>1. known.eligible \subseteq Tables /\ NoTable \notin Tables
  BY AnalyzerPlanAssumption DEF Typed, Knowledge
<1> DEFINE t == IF i \in known.eligible THEN i ELSE n
           rest == First(known.id, known.name, NoTable, known.eligible)
<1>2. t \in known.eligible
  OBVIOUS
<1>3. First(i, n, inActions, Tables) = t
  BY <1>1, FirstIn
<1>4. First(i, n, rest, known.eligible) = t
  BY FirstIn
<1>5. plan.table = First(i, n, inActions, Tables) /\ plan.verified = First(i, n, rest, known.eligible)
  BY DEF Plan
<1> QED BY <1>2, <1>3, <1>4, <1>5

LEMMA SingleGrounded ==
  ASSUME Typed, NEW id, NEW name, NEW inActions
  PROVE  Grounded(Plan("single", id, name, inActions), known)
<1> DEFINE plan == Plan("single", id, name, inActions)
           i == Given(id, known.id)
           n == Given(name, known.name)
<1>1. plan.kind = "single" /\ plan.id = id /\ plan.name = name
  BY DEF Plan
<1>2. SUFFICES ASSUME Eligible(plan, known)
               PROVE  plan.table \in known.eligible /\ plan.verified = plan.table
  BY <1>1 DEF Grounded
<1> HIDE DEF plan
<1>3. /\ {id, name, known.id, known.name} \subseteq known.eligible \cup {NoTable}
      /\ \E m \in {id, name, known.id, known.name} : m # NoTable
  BY <1>1, <1>2 DEF Eligible
<1>4. {i, n} \subseteq known.eligible \cup {NoTable} /\ (i # NoTable \/ n # NoTable)
  BY <1>3 DEF Given
<1>5. plan = Plan("single", id, name, inActions)
  BY DEF plan
<1> QED BY <1>4, <1>5, PlanVerified

LEMMA MultiGrounded ==
  ASSUME Typed, NEW id, NEW name, NEW inActions,
         known.eligible # {}, AllVerified(Given(id, known.id), Given(name, known.name))
  PROVE  Grounded(Plan("multi", id, name, inActions), known)
<1> DEFINE plan == Plan("multi", id, name, inActions)
           i == Given(id, known.id)
           n == Given(name, known.name)
<1>1. {i, n} \subseteq known.eligible \cup {NoTable} /\ (i # NoTable \/ n # NoTable)
  BY DEF AllVerified, Named
<1>2. plan.table \in known.eligible /\ plan.verified = plan.table
  BY <1>1, PlanVerified
<1> QED BY <1>2 DEF Grounded

(* A step that ends with a plan, after a model was loaded.                 *)
LEMMA PlanGrounded ==
  ASSUME GroundedInv, NEW plan, Concludes(plan), known.loaded,
         known.eligible # {} => Grounded(plan, known)
  PROVE  GroundedInv'
<1>1. stage' = "over" /\ ~calling' /\ known' = known /\ outcome' = plan
  BY DEF Concludes, Enters
<1>2. GroundedPlan'
  BY <1>1 DEF GroundedInv, LoadedAfterPreflight, GroundedPlan, AllEligible, Grounded, Eligible
<1> QED BY <1>1, <1>2 DEF GroundedInv, Typed, LoadedAfterPreflight, Staged

(* A call may be answered without a plan too.                              *)
LEMMA ReturnGrounded ==
  ASSUME GroundedInv, NEW plan, Returns(plan), known.loaded,
         known.eligible # {} => Grounded(plan, known)
  PROVE  GroundedInv'
BY ConcludesWithout, PlanGrounded DEF Returns

LEMMA BuildGrounded ==
  ASSUME GroundedInv, NEW id \in Arguments, NEW name \in Arguments, NEW inActions \in Arguments,
         BuildComponent(id, name, inActions)
  PROVE  GroundedInv'
<1>1. Typed /\ known.loaded /\ Returns(Plan("single", id, name, inActions))
  BY DEF BuildComponent, GroundedInv
<1> QED BY <1>1, SingleGrounded, ReturnGrounded

LEMMA BuildMultiGrounded ==
  ASSUME GroundedInv, NEW id \in Arguments, NEW name \in Arguments, NEW inActions \in Arguments,
         BuildMultiComponent(id, name, inActions)
  PROVE  GroundedInv'
<1> DEFINE unverified == [kind |-> "components", id |-> id, name |-> name,
                          table |-> First(id, name, inActions, Tables), verified |-> NoTable]
<1>1. Typed /\ known.loaded
  BY DEF BuildMultiComponent, GroundedInv
<1>2. CASE /\ AllVerified(Given(id, known.id), Given(name, known.name))
           /\ Returns(Plan("multi", id, name, inActions))
  BY <1>1, <1>2, MultiGrounded, ReturnGrounded
<1>3. CASE Returns(unverified)
  <2>1. unverified.kind = "components"
    OBVIOUS
  <2>2. Grounded(unverified, known)
    BY <2>1 DEF Grounded
  <2> HIDE DEF unverified
  <2> QED BY <1>1, <1>3, <2>2, ReturnGrounded
<1> QED BY <1>2, <1>3 DEF BuildMultiComponent

-----------------------------------------------------------------------------

LEMMA GroundedStep == GroundedInv /\ [PlanNext]_planVars => GroundedInv'
<1> SUFFICES ASSUME GroundedInv, [PlanNext]_planVars PROVE GroundedInv'
  OBVIOUS
<1>1. CASE ProviderMissing
  BY <1>1, ConcludesWithout DEF ProviderMissing
<1>2. CASE RequestRetried \/ AnswersWithText \/ AnswersWithCalls
  BY <1>2, RequestGrounded
<1>3. ASSUME NEW why, RequestFails(why) \/ LookupThrows(why) PROVE GroundedInv'
  BY <1>3, RequestGrounded
<1>4. CASE CallsHandled
  BY <1>4, CallsHandledGrounded
<1>5. CASE RouteAnalyzerUserTurn
  BY <1>5, RouteGrounded
<1>6. CASE BreakDownAnalyzerRequest
  BY <1>6, BreakDownGrounded
<1>7. CASE BreakDownThrows
  BY <1>7, BreakDownThrowsGrounded
<1>8. CASE ResolveModelCapabilities
  BY <1>8, ResolveGrounded
<1>9. CASE ListDataModels
  BY <1>9, ListGrounded
<1>10. CASE RequestDataSourceOrModelContext
  BY <1>10, ContextGrounded
<1>11. ASSUME NEW id \in Arguments, NEW name \in Arguments, GetSchema(id, name)
       PROVE  GroundedInv'
  BY <1>11, GetSchemaGrounded
<1>12. ASSUME NEW id \in Arguments, NEW name \in Arguments, NEW inActions \in Arguments,
              BuildComponent(id, name, inActions) \/ BuildMultiComponent(id, name, inActions)
       PROVE  GroundedInv'
  BY <1>12, BuildGrounded, BuildMultiGrounded
<1>13. CASE UNCHANGED planVars
  BY <1>13 DEF planVars, GroundedInv, Typed, LoadedAfterPreflight, Staged, Planned,
     GroundedPlan, AllEligible
<1> QED BY <1>1, <1>2, <1>3, <1>4, <1>5, <1>6, <1>7, <1>8, <1>9, <1>10, <1>11, <1>12, <1>13
  DEF PlanNext

(* Whatever tools the model calls, in any order and with any arguments,    *)
(* and whatever fails on the way: a plan for a request that needs the      *)
(* capability preflight (requestBreakdownRequiresCapabilityPreflight) is   *)
(* made after it, and for a model and a capability it found eligible, if   *)
(* it is one of several results or all that was named is eligible.         *)
THEOREM GroundedPlanHolds == PlanSpec => []GroundedPlan
<1>1. GroundedInv => GroundedPlan
  BY DEF GroundedInv
<1> QED BY InitGrounded, GroundedStep, <1>1, PTL DEF PlanSpec

-----------------------------------------------------------------------------
(* A question costs a bounded number of requests.  Each request is charged *)
(* to a place of its own, by attempt, stage, turn and try; every step but  *)
(* the last goes on to a later place.                                      *)

TurnsOf(s) == IF s = "route" THEN RouteTurns ELSE BuildTurns

(* The places of the attempts and stages before this one.                  *)
Before ==
  (IF retried THEN (RouteTurns + BuildTurns) * Attempts ELSE 0) + (IF stage = "build" THEN RouteTurns * Attempts ELSE 0)

Bound == 2 * (RouteTurns + BuildTurns) * Attempts

Flags ==
  /\ stage \in {"route", "build", "over"}
  /\ calling \in BOOLEAN /\ retried \in BOOLEAN
  /\ stage = "over" => ~calling
Counters ==
  /\ turn \in Nat /\ tries \in Nat /\ asked \in Nat
  /\ stage # "over" => turn < TurnsOf(stage)
  /\ tries < Attempts

BudgetInv ==
  /\ Flags
  /\ Counters
  /\ stage # "over" => asked <= Before + turn * Attempts + tries + (IF calling THEN 1 ELSE 0)
  /\ AskedAtMost

(* A turn has room for every try.                                          *)
LEMMA TurnRoom ==
  ASSUME NEW t \in Nat, NEW n \in Nat, NEW a \in Nat, t < n
  PROVE  /\ t * a \in Nat /\ n * a \in Nat
         /\ (t + 1) * a = t * a + a
         /\ t * a + a <= n * a
<1>1. t * a \in Nat /\ n * a \in Nat /\ (n - t - 1) * a \in Nat
  BY SMT
<1>2. (t + 1) * a = t * a + a
  BY SMT
<1>3. n * a = t * a + a + (n - t - 1) * a
  BY SMT
<1> QED BY <1>1, <1>2, <1>3

(* The places of a whole attempt, and of two.                              *)
LEMMA Places ==
  /\ RouteTurns * Attempts \in Nat /\ BuildTurns * Attempts \in Nat
  /\ (RouteTurns + BuildTurns) * Attempts = RouteTurns * Attempts + BuildTurns * Attempts
  /\ Bound = RouteTurns * Attempts + BuildTurns * Attempts + RouteTurns * Attempts + BuildTurns * Attempts
<1>1. RouteTurns \in Nat /\ BuildTurns \in Nat /\ Attempts \in Nat
  BY AnalyzerPlanAssumption
<1> QED BY <1>1, SMT DEF Bound

(* What is left when a turn is over, before the next stage, attempt or end. *)
LEMMA Room ==
  ASSUME BudgetInv, stage # "over", NEW n \in Nat, n = asked + (IF calling THEN 0 ELSE 1)
  PROVE  /\ n <= Before + (turn + 1) * Attempts
         /\ n <= (IF retried THEN (RouteTurns + BuildTurns) * Attempts ELSE 0) + RouteTurns * Attempts
                   + (IF stage = "build" THEN BuildTurns * Attempts ELSE 0)
         /\ n <= Bound
<1> DEFINE a == turn * Attempts
           r == RouteTurns * Attempts
           b == BuildTurns * Attempts
<1>1. /\ a \in Nat /\ (turn + 1) * Attempts = a + Attempts
      /\ a + Attempts <= TurnsOf(stage) * Attempts
  BY TurnRoom, AnalyzerPlanAssumption DEF BudgetInv, Flags, Counters, TurnsOf
<1>2. /\ r \in Nat /\ b \in Nat
      /\ (RouteTurns + BuildTurns) * Attempts = r + b /\ Bound = r + b + r + b
  BY Places
<1>3. TurnsOf(stage) * Attempts = IF stage = "route" THEN r ELSE b
  BY DEF TurnsOf
<1> DEFINE c == IF calling THEN 1 ELSE 0
           q == IF retried THEN (RouteTurns + BuildTurns) * Attempts ELSE 0
<1>4. c \in {0, 1} /\ n = asked + 1 - c
  BY DEF BudgetInv, Flags, Counters
<1>5. q \in {0, r + b}
  BY <1>2
<1>6. /\ asked \in Nat /\ tries \in Nat /\ tries + 1 <= Attempts /\ Attempts \in Nat
      /\ stage \in {"route", "build"}
      /\ asked <= Before + a + tries + c
  BY AnalyzerPlanAssumption DEF BudgetInv, Flags, Counters
<1>7. Before = q + (IF stage = "build" THEN r ELSE 0)
  BY DEF Before
<1> HIDE DEF a, r, b, c, q
<1>8. CASE stage = "route"
  <2>1. Before = q /\ a + Attempts <= r
    BY <1>1, <1>2, <1>3, <1>5, <1>7, <1>8
  <2>2. n <= q + a + Attempts
    BY <1>1, <1>2, <1>4, <1>5, <1>6, <2>1
  <2>3. n <= q + r /\ n <= Bound
    BY <1>1, <1>2, <1>4, <1>5, <1>6, <2>1, <2>2
  <2>4. n <= q + r + 0
    BY <1>2, <1>5, <2>3
  <2> QED BY <1>1, <1>2, <1>5, <1>6, <1>8, <2>1, <2>2, <2>3, <2>4 DEF q, r
<1>9. CASE stage = "build"
  <2>1. Before = q + r /\ a + Attempts <= b
    BY <1>1, <1>3, <1>7, <1>9
  <2>2. n <= q + r + a + Attempts
    BY <1>1, <1>2, <1>4, <1>5, <1>6, <2>1
  <2>3. n <= q + r + b /\ n <= Bound
    BY <1>1, <1>2, <1>4, <1>5, <1>6, <2>1, <2>2
  <2> QED BY <1>1, <1>2, <1>5, <1>6, <1>9, <2>1, <2>2, <2>3 DEF q, r, b
<1> QED BY <1>6, <1>8, <1>9

(* The steps, by what they do to the charge.  A step that asks pays for the *)
(* place it leaves; the steps of a response have paid already.             *)
Paid == asked' = asked + (IF calling THEN 0 ELSE 1)

LEMMA ConcludesBudget ==
  ASSUME BudgetInv, stage # "over", asked' \in Nat, asked' <= asked + (IF calling THEN 0 ELSE 1),
         NEW result, Concludes(result)
  PROVE  BudgetInv'
<1>1. asked + (IF calling THEN 0 ELSE 1) \in Nat
  BY DEF BudgetInv, Flags, Counters
<1>2. asked' <= Bound
  BY <1>1, Room, Places DEF BudgetInv, Flags, Counters
<1>3. /\ stage' = "over" /\ turn' = 0 /\ tries' = 0 /\ calling' = FALSE /\ retried' = retried
  BY DEF Concludes, Enters
<1>4. Flags'
  BY <1>3 DEF BudgetInv, Flags
<1>5. Counters'
  BY <1>3, AnalyzerPlanAssumption DEF Counters
<1> QED BY <1>2, <1>3, <1>4, <1>5 DEF BudgetInv, AskedAtMost, Bound

LEMMA NextTurnBudget ==
  ASSUME BudgetInv, stage # "over", Paid, ~LastTurn, NextTurn, UNCHANGED <<stage, retried>>
  PROVE  BudgetInv'
<1>1. asked + (IF calling THEN 0 ELSE 1) \in Nat
  BY DEF BudgetInv, Flags, Counters
<1>2. asked' \in Nat /\ asked' <= Before + (turn + 1) * Attempts /\ asked' <= Bound
  BY <1>1, Room DEF Paid
<1>3. turn' = turn + 1 /\ tries' = 0 /\ calling' = FALSE /\ turn + 1 < TurnsOf(stage)
  BY AnalyzerPlanAssumption DEF NextTurn, LastTurn, BudgetInv, Flags, Counters, TurnsOf
<1>4. Before' = Before
  BY DEF Before
<1>5. Flags' /\ Counters'
  <2>1. Flags'
    BY <1>3 DEF BudgetInv, Flags
  <2>2. turn' \in Nat /\ tries' \in Nat /\ tries' < Attempts
    BY <1>3, AnalyzerPlanAssumption DEF BudgetInv, Counters
  <2>3. TurnsOf(stage') = TurnsOf(stage)
    OBVIOUS
  <2> QED BY <1>2, <1>3, <2>1, <2>2, <2>3 DEF Counters
<1>6. (turn + 1) * Attempts \in Nat /\ Before \in Nat
  BY TurnRoom, Places, AnalyzerPlanAssumption DEF BudgetInv, Flags, Counters, Before
<1> QED BY <1>2, <1>3, <1>4, <1>5, <1>6 DEF BudgetInv, AskedAtMost, Bound

(* Routing is over: building begins behind it.                             *)
LEMMA BuildBudget ==
  ASSUME BudgetInv, stage = "route", Paid, Enters("build"), UNCHANGED retried
  PROVE  BudgetInv'
<1>1. asked + (IF calling THEN 0 ELSE 1) \in Nat
  BY DEF BudgetInv, Flags, Counters
<1>2. /\ asked' \in Nat /\ asked' <= Bound
      /\ asked' <= (IF retried THEN (RouteTurns + BuildTurns) * Attempts ELSE 0) + RouteTurns * Attempts
  <2>1. asked' <= (IF retried THEN (RouteTurns + BuildTurns) * Attempts ELSE 0) + RouteTurns * Attempts + 0
    BY <1>1, Room DEF Paid
  <2> QED BY <1>1, <2>1, Room, Places DEF Paid
<1>3. stage' = "build" /\ turn' = 0 /\ tries' = 0 /\ calling' = FALSE
  BY DEF Enters
<1>4. Flags' /\ Counters'
  <2>1. Flags'
    BY <1>3 DEF BudgetInv, Flags
  <2> QED BY <1>2, <1>3, <2>1, AnalyzerPlanAssumption DEF Counters, TurnsOf
<1>5. Before' = (IF retried THEN (RouteTurns + BuildTurns) * Attempts ELSE 0) + RouteTurns * Attempts
  BY <1>3 DEF Before
<1>6. turn' * Attempts = 0 /\ Before' \in Nat
  BY <1>3, <1>5, Places, AnalyzerPlanAssumption
<1> QED BY <1>2, <1>3, <1>4, <1>5, <1>6 DEF BudgetInv, AskedAtMost, Bound

(* The second attempt begins behind the whole first one.                   *)
LEMMA RetryBudget ==
  ASSUME BudgetInv, stage # "over", ~retried, Paid, Enters("route"), retried' = TRUE
  PROVE  BudgetInv'
<1>1. asked + (IF calling THEN 0 ELSE 1) \in Nat /\ stage \in {"route", "build"}
  BY DEF BudgetInv, Flags, Counters
<1>2. asked' \in Nat /\ asked' <= Bound /\ asked' <= (RouteTurns + BuildTurns) * Attempts
  BY <1>1, Room, Places DEF Paid
<1>3. stage' = "route" /\ turn' = 0 /\ tries' = 0 /\ calling' = FALSE
  BY DEF Enters
<1>4. Flags' /\ Counters'
  <2>1. Flags'
    BY <1>3 DEF BudgetInv, Flags
  <2> QED BY <1>2, <1>3, <2>1, AnalyzerPlanAssumption DEF Counters, TurnsOf
<1>5. Before' = (RouteTurns + BuildTurns) * Attempts /\ turn' * Attempts = 0
  BY <1>3, Places, AnalyzerPlanAssumption DEF Before
<1> QED BY <1>2, <1>3, <1>4, <1>5, Places DEF BudgetInv, AskedAtMost, Bound

LEMMA FailureBudget ==
  ASSUME BudgetInv, stage # "over", Paid, NEW why, NEW state, StageFails(why, state)
  PROVE  BudgetInv'
<1>1. CASE stage = "route" /\ Enters("build") /\ UNCHANGED retried
  BY <1>1, BuildBudget
<1>2. CASE ~retried /\ Enters("route") /\ retried' = TRUE
  BY <1>2, RetryBudget
<1>3. CASE Concludes(Without("fallback"))
  BY <1>3, ConcludesBudget DEF Paid, BudgetInv, Flags, Counters
<1> QED BY <1>1, <1>2, <1>3 DEF StageFails, AttemptEnds

(* A request that is sent again, or answered with calls.                   *)
LEMMA AskBudget ==
  ASSUME BudgetInv, RequestRetried \/ AnswersWithCalls
  PROVE  BudgetInv'
<1>1. stage # "over" /\ ~calling /\ asked' = asked + 1 /\ UNCHANGED <<stage, turn, retried>>
  BY DEF RequestRetried, AnswersWithCalls, Asks
<1>2. asked' \in Nat /\ asked' <= Bound
  BY <1>1, Room DEF BudgetInv, Flags, Counters
<1>3. \/ tries' = tries + 1 /\ tries + 1 < Attempts /\ calling' = FALSE
      \/ tries' = tries /\ calling' = TRUE
  BY <1>1 DEF RequestRetried, AnswersWithCalls, BudgetInv, Flags, Counters
<1>4. Before' = Before /\ turn' * Attempts = turn * Attempts
  BY <1>1 DEF Before
<1>5. Flags' /\ Counters'
  <2>1. Flags'
    BY <1>1, <1>3 DEF BudgetInv, Flags
  <2>2. turn' \in Nat /\ tries' \in Nat /\ tries' < Attempts /\ stage' = stage /\ turn' = turn
    BY <1>1, <1>3 DEF BudgetInv, Counters
  <2> QED BY <1>2, <2>1, <2>2 DEF BudgetInv, Counters
<1>6. Before \in Nat /\ turn * Attempts \in Nat
  BY <1>1, TurnRoom, Places, AnalyzerPlanAssumption DEF BudgetInv, Flags, Counters, Before, TurnsOf
<1> DEFINE p == turn * Attempts
<1>7. asked <= Before + p + tries /\ tries \in Nat /\ asked \in Nat /\ p \in Nat /\ turn' * Attempts = p
  BY <1>1, <1>4, <1>6 DEF BudgetInv, Flags, Counters
<1> HIDE DEF p
<1>8. asked' <= Before' + turn' * Attempts + tries' + (IF calling' THEN 1 ELSE 0)
  BY <1>1, <1>3, <1>4, <1>6, <1>7
<1> QED BY <1>2, <1>5, <1>8 DEF BudgetInv, AskedAtMost, Bound

(* A step that neither asks nor leaves the turn.                           *)
LEMMA StayBudget ==
  ASSUME BudgetInv, UNCHANGED <<stage, turn, tries, calling, retried, asked>>
  PROVE  BudgetInv'
BY DEF BudgetInv, Flags, Counters, AskedAtMost, Before

LEMMA StepBudget == BudgetInv /\ [PlanNext]_planVars => BudgetInv'
<1> SUFFICES ASSUME BudgetInv, [PlanNext]_planVars PROVE BudgetInv'
  OBVIOUS
<1>0. asked \in Nat /\ calling \in BOOLEAN /\ asked <= asked + (IF calling THEN 0 ELSE 1)
  BY DEF BudgetInv, Flags, Counters
<1>1. CASE RequestRetried \/ AnswersWithCalls
  BY <1>1, AskBudget
<1>2. CASE ProviderMissing
  BY <1>0, <1>2, ConcludesBudget DEF ProviderMissing
<1>3. ASSUME NEW why, RequestFails(why) PROVE BudgetInv'
  BY <1>3, FailureBudget DEF RequestFails, Asks, Paid
<1>4. CASE AnswersWithText
  <2>1. stage # "over" /\ Paid
    BY <1>4 DEF AnswersWithText, Asks, Paid
  <2> QED BY <1>4, <2>1, FailureBudget, NextTurnBudget DEF AnswersWithText
<1>5. CASE CallsHandled
  <2>1. Paid /\ asked' \in Nat /\ asked' <= asked + (IF calling THEN 0 ELSE 1)
    BY <1>0, <1>5 DEF CallsHandled, Paid
  <2>2. stage # "over"
    BY <1>5 DEF CallsHandled, BudgetInv, Flags
  <2> QED BY <1>5, <2>1, <2>2, ConcludesBudget, NextTurnBudget DEF CallsHandled
<1>6. ASSUME NEW s \in {"route", "build"}, Calling(s)
      PROVE  /\ stage = s /\ Paid /\ asked' \in Nat /\ asked' <= asked + (IF calling THEN 0 ELSE 1)
             /\ UNCHANGED asked
  BY <1>0, <1>6 DEF Calling, Paid
<1>7. ASSUME NEW s \in {"route", "build"}, Calling(s), NEW state, Remember(state) PROVE BudgetInv'
  BY <1>6, <1>7, StayBudget DEF Remember
<1>8. ASSUME NEW s \in {"route", "build"}, Calling(s), NEW result, Concludes(result) PROVE BudgetInv'
  BY <1>6, <1>8, ConcludesBudget
<1>9. CASE RouteAnalyzerUserTurn
  BY <1>7, <1>8, <1>9 DEF RouteAnalyzerUserTurn
<1>10. CASE BreakDownAnalyzerRequest
  <2>1. stage = "route" /\ Paid
    BY <1>6, <1>10 DEF BreakDownAnalyzerRequest
  <2> QED BY <1>8, <1>10, <2>1, BuildBudget DEF BreakDownAnalyzerRequest
<1>11. CASE BreakDownThrows
  BY <1>6, <1>11, FailureBudget DEF BreakDownThrows
<1>12. ASSUME NEW why, LookupThrows(why) PROVE BudgetInv'
  BY <1>6, <1>12, FailureBudget DEF LookupThrows
<1>13. CASE ResolveModelCapabilities \/ ListDataModels \/ RequestDataSourceOrModelContext
  BY <1>7, <1>8, <1>13 DEF ResolveModelCapabilities, ListDataModels, RequestDataSourceOrModelContext
<1>14. ASSUME NEW id \in Arguments, NEW name \in Arguments, GetSchema(id, name) PROVE BudgetInv'
  BY <1>7, <1>14 DEF GetSchema
<1>15. ASSUME NEW id \in Arguments, NEW name \in Arguments, NEW inActions \in Arguments,
              BuildComponent(id, name, inActions) \/ BuildMultiComponent(id, name, inActions)
       PROVE  BudgetInv'
  BY <1>8, <1>15 DEF BuildComponent, BuildMultiComponent, Returns
<1>16. CASE UNCHANGED planVars
  BY <1>16, StayBudget DEF planVars
<1> QED BY <1>1, <1>2, <1>3, <1>4, <1>5, <1>9, <1>10, <1>11, <1>12, <1>13, <1>14, <1>15, <1>16
        DEF PlanNext

(* Whatever the model answers, whatever fails and however often, a question *)
(* sends at most as many requests as two attempts have tries.              *)
THEOREM AskedAtMostHolds == PlanSpec => []AskedAtMost
<1>1. PlanInit => BudgetInv
  <2> SUFFICES ASSUME PlanInit PROVE BudgetInv
    OBVIOUS
  <2>1. stage = "route" /\ turn = 0 /\ tries = 0 /\ calling = FALSE /\ retried = FALSE /\ asked = 0
    BY DEF PlanInit
  <2>2. Flags /\ Counters
    <3>1. Flags
      BY <2>1 DEF Flags
    <3> QED BY <2>1, <3>1, AnalyzerPlanAssumption DEF Counters, TurnsOf
  <2>3. Before = 0 /\ turn * Attempts = 0 /\ asked <= Bound
    BY <2>1, Places, AnalyzerPlanAssumption DEF Before
  <2> QED BY <2>1, <2>2, <2>3 DEF BudgetInv, AskedAtMost, Bound
<1>2. BudgetInv => AskedAtMost
  BY DEF BudgetInv
<1> QED BY <1>1, <1>2, StepBudget, PTL DEF PlanSpec
=============================================================================
