---------------------------- MODULE SourceRecord ----------------------------
(***************************************************************************)
(* One API data source while it is edited and read.  Its record is an      *)
(* object in the array dataSources; handlers look it up, wait, and change  *)
(* that object, which a full load may have replaced meanwhile by one read  *)
(* from the row.  Every change is written to the row as a snapshot of the  *)
(* whole record, and writes under way commit in any order.                 *)
(*                                                                         *)
(* Reads keep the access token of the remote API in a cache of the process *)
(* and, managed, in the configuration of the record.  The token that the   *)
(* API refuses is replaced, once per read, past both.                      *)
(***************************************************************************)
EXTENDS Integers, FiniteSets

CONSTANTS
  Edits,    \* PUT requests; each changes a field of its own
  Reads,    \* reads of rows
  MaxTokens \* bound: tokens the remote API issues, numbered from 1

ASSUME SourceRecordAssumption ==
  Edits \cap Reads = {} /\ MaxTokens \in Nat

VARIABLES
  records,  \* the object of the first load and the one of the full load
  entry,    \* which of them is in the array
  row,      \* the row of the source
  loadRow,  \* the row as the full load read it
  load,     \* "none", "reading" or "done"
  cached,   \* tokenRequestCache, 0 when there is none
  issued,   \* tokens issued so far
  expired,  \* tokens past their expiresAt
  revoked,  \* tokens the API refuses before that
  at,       \* where each request is
  holds,    \* the object it looked up
  sent,     \* the snapshot it writes
  token,    \* the token a read uses
  forced,   \* reads that asked for a fresh token
  raced,    \* history: edits begun before the full load ended and not in the row it read
  settled,  \* history: the last write was of the current object and alone
  replaced  \* history: revoked tokens a read replaced

memory == <<records, entry, cached>>
fullLoad == <<load, loadRow>>
remote == <<issued, expired, revoked>>
requests == <<at, holds, sent, token, forced>>
recordHistory == <<raced, settled, replaced>>
recordVars == <<memory, row, fullLoad, remote, requests, recordHistory>>

Requests == Edits \cup Reads
Original == [edits |-> {}, token |-> 0]

RecordInit ==
  /\ records = [o \in 1..2 |-> Original] /\ entry = 1
  /\ row = Original /\ loadRow = Original /\ load = "none"
  /\ cached = 0 /\ issued = 0 /\ expired = {} /\ revoked = {}
  /\ at = [r \in Requests |-> "new"]
  /\ holds = [r \in Requests |-> 1]
  /\ sent = [r \in Requests |-> Original]
  /\ token = [r \in Reads |-> 0]
  /\ forced = {}
  /\ raced = {} /\ settled = TRUE /\ replaced = {}

Moves(r, place) == at' = [at EXCEPT ![r] = place]

(* What a request that is over held is forgotten. *)
Ends(r, outcome) ==
  /\ Moves(r, outcome)
  /\ holds' = [holds EXCEPT ![r] = 1]
  /\ sent' = [sent EXCEPT ![r] = Original]
  /\ token' = [x \in Reads |-> IF x = r THEN 0 ELSE token[x]]
  /\ forced' = forced \ {r}

Saving == {r \in Requests : at[r] = "saving"}

(* updateRuntimeDataSource takes the snapshot when it is called. *)
Send(r, record) ==
  /\ records' = [records EXCEPT ![holds[r]] = record]
  /\ sent' = [sent EXCEPT ![r] = record]
  /\ settled' = (holds[r] = entry /\ Saving = {})
  /\ Moves(r, "saving")

-----------------------------------------------------------------------------
(* PUT /api/data-sources/:id *)

FindDataSource(e) ==
  /\ at[e] = "new"
  /\ holds' = [holds EXCEPT ![e] = entry]
  /\ Moves(e, "body")
  /\ raced' = IF load = "reading" THEN raced \cup {e} ELSE raced
  /\ UNCHANGED <<memory, row, fullLoad, remote, sent, token, forced, settled, replaced>>

(* Mutant: the snapshot is taken before the change. *)
ApplyDataSourceUpdate_Mutant(e) ==
  /\ at[e] = "body"
  /\ records' = [records EXCEPT ![holds[e]].edits = @ \cup {e}]
  /\ sent' = [sent EXCEPT ![e] = records[holds[e]]]
  /\ settled' = (holds[e] = entry /\ Saving = {})
  /\ Moves(e, "saving")
  /\ UNCHANGED <<entry, cached, row, fullLoad, remote, holds, token, forced, raced, replaced>>

(* The body has arrived. *)
ApplyDataSourceUpdate(e) ==
  /\ at[e] = "body"
  /\ Send(e, [records[holds[e]] EXCEPT !.edits = @ \cup {e}])
  /\ UNCHANGED <<entry, cached, row, fullLoad, remote, holds, token, forced, raced, replaced>>

(* The row has the snapshot; an edit is answered, a read calls the API. *)
UpdateCommits(r) ==
  /\ at[r] = "saving"
  /\ row' = sent[r]
  /\ IF r \in Edits
       THEN Ends(r, "done")
       ELSE /\ Moves(r, "calling")
            /\ sent' = [sent EXCEPT ![r] = Original]
            /\ UNCHANGED <<holds, token, forced>>
  /\ UNCHANGED <<memory, fullLoad, remote, recordHistory>>

(* Answered with 500 or 502; what changed in memory stays. *)
UpdateFails(r) ==
  /\ at[r] = "saving"
  /\ settled' = FALSE
  /\ Ends(r, "failed")
  /\ UNCHANGED <<memory, row, fullLoad, remote, raced, replaced>>

-----------------------------------------------------------------------------
(* A read: fetchToken, the call, and one fresh token after a refusal. *)

Valid(t) == t # 0 /\ t \notin expired  \* tokenStillValid

(* The handler's lookup of the record and its first look at the token,      *)
(* which what it awaits between them keeps apart, are one step here.        *)
FetchToken(r) ==
  /\ r \in Reads /\ at[r] = "new"
  /\ holds' = [holds EXCEPT ![r] = entry]
  /\ IF Valid(cached) \/ Valid(records[entry].token)
       THEN /\ cached' = IF Valid(cached) THEN cached ELSE records[entry].token
            /\ token' = [token EXCEPT ![r] = cached']
            /\ Moves(r, "calling")
       ELSE Moves(r, "requesting") /\ UNCHANGED <<cached, token>>
  /\ UNCHANGED <<records, entry, row, fullLoad, remote, sent, forced, recordHistory>>

(* Mutant: a fresh token is cached, and stored only when there was none. *)
StoreManagedApiToken_Mutant(r) ==
  /\ at[r] = "requesting" /\ issued < MaxTokens
  /\ issued' = issued + 1
  /\ cached' = issued'
  /\ replaced' = IF r \in forced THEN replaced \cup ({token[r]} \cap revoked) ELSE replaced
  /\ token' = [token EXCEPT ![r] = issued']
  /\ Send(r, [records[holds[r]] EXCEPT !.token = IF Valid(@) THEN @ ELSE issued'])
  /\ UNCHANGED <<entry, row, fullLoad, expired, revoked, holds, forced, raced>>

(* The token server answers; storeManagedApiToken. *)
StoreManagedApiToken(r) ==
  /\ at[r] = "requesting" /\ issued < MaxTokens
  /\ issued' = issued + 1
  /\ cached' = issued'
  /\ replaced' = IF r \in forced THEN replaced \cup ({token[r]} \cap revoked) ELSE replaced
  /\ token' = [token EXCEPT ![r] = issued']
  /\ Send(r, [records[holds[r]] EXCEPT !.token = issued'])
  /\ UNCHANGED <<entry, row, fullLoad, expired, revoked, holds, forced, raced>>

TokenRequestFails(r) ==
  /\ at[r] = "requesting"
  /\ Ends(r, "failed")
  /\ UNCHANGED <<memory, row, fullLoad, remote, recordHistory>>

(* The API answers, or refuses: 401, 403 or an expired token. *)
ApiAnswers(r) ==
  /\ at[r] = "calling" /\ token[r] \notin revoked \cup expired
  /\ Ends(r, "done")
  /\ UNCHANGED <<memory, row, fullLoad, remote, recordHistory>>

ApiRefuses(r) ==
  /\ at[r] = "calling"
  /\ IF r \in forced
       THEN Ends(r, "failed")
       ELSE /\ Moves(r, "requesting")
            /\ forced' = forced \cup {r}
            /\ UNCHANGED <<holds, sent, token>>
  /\ UNCHANGED <<memory, row, fullLoad, remote, recordHistory>>

Expires(t) ==
  /\ expired' = expired \cup {t}
  /\ UNCHANGED <<memory, row, fullLoad, issued, revoked, requests, recordHistory>>

Revoked(t) ==
  /\ revoked' = revoked \cup {t}
  /\ UNCHANGED <<memory, row, fullLoad, issued, expired, requests, recordHistory>>

-----------------------------------------------------------------------------
(* The full load, once per process (RuntimeSync). *)

LoadReads ==
  /\ load = "none"
  /\ load' = "reading"
  /\ loadRow' = row
  /\ raced' = {e \in Edits : at[e] # "new" /\ e \notin row.edits}
  /\ UNCHANGED <<memory, row, remote, requests, settled, replaced>>

LoadReplaces ==
  /\ load = "reading"
  /\ load' = "done"
  /\ records' = [records EXCEPT ![2] = loadRow]
  /\ entry' = 2
  /\ settled' = FALSE
  /\ loadRow' = Original
  /\ UNCHANGED <<cached, row, remote, requests, raced, replaced>>

RecordNext ==
  \/ \E e \in Edits : FindDataSource(e) \/ ApplyDataSourceUpdate(e)
  \/ \E r \in Requests : UpdateCommits(r) \/ UpdateFails(r)
  \/ \E r \in Reads :
       FetchToken(r) \/ StoreManagedApiToken(r) \/ TokenRequestFails(r) \/ ApiAnswers(r) \/ ApiRefuses(r)
  \/ \E t \in (1..issued) \ expired : Expires(t)
  \/ \E t \in (1..issued) \ revoked : Revoked(t)
  \/ LoadReads \/ LoadReplaces

RecordSpec == RecordInit /\ [][RecordNext]_recordVars

-----------------------------------------------------------------------------
(* However edits and token refreshes of a source interleave, an edit that  *)
(* was answered stays in the record, unless it was under way while the     *)
(* full load was, which may undo it; and it stays in the row, unless the   *)
(* last write overlapped another, failed, or came from a handler that held *)
(* the replaced record (a full load that reads such a row brings it back). *)
EditsStay ==
  \A e \in Edits \ raced :
    at[e] = "done" =>
      /\ e \in records[entry].edits
      /\ settled /\ Saving = {} => row = records[entry]

(* A token the API refused and a read replaced is not taken up again from  *)
(* either place by later reads, until a full load brings back an older row. *)
RefusedStaysOut == load = "done" \/ cached \notin replaced
=============================================================================
