------------------------------ MODULE Uploader ------------------------------
(***************************************************************************)
(* The upload pass of app/uploader.py and the two manual-retry handlers of *)
(* app/api.py over the one SQLite database and the one inbox they share.   *)
(*                                                                         *)
(* A pass is a process: cron starts one at 06:00 and POST /run starts      *)
(* another, and only the flock in run_pass keeps them apart.  The API      *)
(* handlers do not take that lock.  Every database transaction, every      *)
(* rename and every HTTP exchange is one step, so passes, handlers, the    *)
(* worker threads of a pass and crashes interleave between any two.        *)
(*                                                                         *)
(* The send stage is coarser than the code here: it dispatches in any      *)
(* order, with any number of requests in flight, and may stop early at     *)
(* any point.  Module SendRecords has the window, the error streak and the *)
(* session.                                                                *)
(***************************************************************************)
EXTENDS UploadTypes

CONSTANTS
  Files,        \* file identities: a filename together with a sha256
  Names,        \* filenames
  NameOf,       \* the filename of each identity
  Records,      \* data lines
  FileOf,       \* the file each record comes from
  Oversize,     \* records whose envelope exceeds max_line_bytes
  Passes,       \* processes that execute app.run_once
  Requests,     \* API worker threads serving a retry request
  RetryCap,     \* config.retry_cap
  MaxFaults,    \* bound on crashes and exceptions
  NoFile, NoPass

ASSUME UploaderAssumption ==
  /\ NameOf \in [Files -> Names]
  /\ FileOf \in [Records -> Files]
  /\ Oversize \subseteq Records
  /\ RetryCap \in Nat \ {0}
  /\ MaxFaults \in Nat
  /\ NoFile \notin Files
  /\ NoPass \notin Passes
  /\ Passes \cap Requests = {}

VARIABLES
  \* the database
  status,       \* records.status, "none" before the row exists
  attempts,     \* records.attempts
  fstatus,      \* files.status, "none" before the row exists
  archived,     \* files with archived_at set
  lastRun,      \* runs.status of the newest row
  \* the file system
  inbox,        \* the content under each name in data_folder
  archivePlain, \* the content under each name in archive_folder
  archiveSha,   \* the content under <sha8>_<name> there, for each identity
  lock,         \* holder of the flock on lock_path
  \* a pass, and for pc, cur and snap a request too
  pc,
  work,         \* what the loop the pass is in has still to do
  todo,         \* records of the current wave not yet submitted
  flying,       \* submitted, no answer yet
  answers,      \* answered, not yet committed
  again,        \* first-wave records to be resent under a new session
  final,        \* the resend wave is running
  touched,      \* files whose records this pass has committed
  aborted,      \* summary.aborted
  cur,          \* the file being recomputed or archived
  snap,         \* the record statuses recompute_file_status has read
  \* history, not part of the program
  accepted,     \* acceptances of each record at the bureau, saturating at 2
  lost,         \* records with an acceptance whose answer was lost
  retried,      \* records an operator has reset
  overwritten,  \* identities replaced in the inbox by a newer version
  faults

dbVars    == <<status, attempts, fstatus, archived, lastRun>>
fsVars    == <<inbox, archivePlain, archiveSha>>
sendVars  == <<todo, flying, answers, again, final, touched, aborted>>
ghostVars == <<accepted, lost, retried, overwritten>>
vars == <<dbVars, fsVars, lock, pc, work, sendVars, cur, snap, ghostVars, faults>>

Actors == Passes \cup Requests
RecordsOf(f) == {r \in Records : FileOf[r] = f}
Statuses(f) == {status[r] : r \in RecordsOf(f)}

\* Mutant: the duplicate check forgets archived files.
IngestedUnarchived == {f \in Files : fstatus[f] # "none" /\ f \notin archived}

\* The identities get_file_by_identity finds.
Ingested == {f \in Files : fstatus[f] # "none"}

PassPc    == {"idle", "scan", "ingest", "send", "drain", "read", "write",
              "archive", "rename", "mark"}
RequestPc == {"idle", "read", "write"}

TypeOK ==
  /\ status \in [Records -> RecordStatus \cup {"none"}]
  /\ attempts \in [Records -> Nat]
  /\ fstatus \in [Files -> FileStatus \cup {"none"}]
  /\ archived \subseteq Files
  /\ lastRun \in {"none", "success", "aborted", "error"}
  /\ inbox \in [Names -> Files \cup {NoFile}]
  /\ archivePlain \in [Names -> Files \cup {NoFile}]
  /\ archiveSha \in [Files -> Files \cup {NoFile}]
  /\ lock \in Passes \cup {NoPass}
  /\ pc \in [Actors -> PassPc]
  /\ \A q \in Requests : pc[q] \in RequestPc
  /\ work \in [Passes -> SUBSET (Names \cup Files)]
  /\ todo \in [Passes -> SUBSET Records]
  /\ flying \in [Passes -> SUBSET Records]
  /\ answers \in [Passes -> SUBSET (Records \X SendResults)]
  /\ again \in [Passes -> SUBSET Records]
  /\ final \in [Passes -> BOOLEAN]
  /\ touched \in [Passes -> SUBSET Files]
  /\ aborted \in [Passes -> BOOLEAN]
  /\ cur \in [Actors -> Files \cup {NoFile}]
  /\ snap \in [Actors -> SUBSET (RecordStatus \cup {"none"})]
  /\ accepted \in [Records -> 0..2]
  /\ lost \subseteq Records
  /\ retried \subseteq Records
  /\ overwritten \subseteq Files
  /\ faults \in 0..MaxFaults

Init ==
  /\ status = [r \in Records |-> "none"]
  /\ attempts = [r \in Records |-> 0]
  /\ fstatus = [f \in Files |-> "none"]
  /\ archived = {}
  /\ lastRun = "none"
  /\ inbox = [n \in Names |-> NoFile]
  /\ archivePlain = [n \in Names |-> NoFile]
  /\ archiveSha = [f \in Files |-> NoFile]
  /\ lock = NoPass
  /\ pc = [a \in Actors |-> "idle"]
  /\ work = [p \in Passes |-> {}]
  /\ todo = [p \in Passes |-> {}]
  /\ flying = [p \in Passes |-> {}]
  /\ answers = [p \in Passes |-> {}]
  /\ again = [p \in Passes |-> {}]
  /\ final = [p \in Passes |-> FALSE]
  /\ touched = [p \in Passes |-> {}]
  /\ aborted = [p \in Passes |-> FALSE]
  /\ cur = [a \in Actors |-> NoFile]
  /\ snap = [a \in Actors |-> {}]
  /\ accepted = [r \in Records |-> 0]
  /\ lost = {}
  /\ retried = {}
  /\ overwritten = {}
  /\ faults = 0

Goto(a, label) == pc' = [pc EXCEPT ![a] = label]

-----------------------------------------------------------------------------
(***************************************************************************)
(* A writer of the inbox, the producer or _write_enriched of the enricher, *)
(* puts a file there, possibly over an older version of the same name,     *)
(* possibly a version delivered before.  The second writer is in detail in *)
(* module Enricher; every rename of it into the inbox is one of these.     *)
(***************************************************************************)
Drop(f) ==
  /\ inbox[NameOf[f]] # f
  /\ inbox' = [inbox EXCEPT ![NameOf[f]] = f]
  /\ overwritten' = overwritten \cup ({inbox[NameOf[f]]} \cap Files)
  /\ UNCHANGED <<dbVars, archivePlain, archiveSha, lock, pc, work, sendVars,
                 cur, snap, accepted, lost, retried, faults>>

-----------------------------------------------------------------------------
\* Mutant: the lock is not tested.
StartUnlocked(p) ==
  /\ pc[p] = "idle"
  /\ lock' = p
  /\ Goto(p, "scan")
  /\ UNCHANGED <<dbVars, fsVars, work, sendVars, cur, snap, ghostVars, faults>>

(* run_pass: take the lock or give up at once (the busy case changes nothing). *)
Start(p) ==
  /\ pc[p] = "idle"
  /\ lock = NoPass
  /\ lock' = p
  /\ Goto(p, "scan")
  /\ UNCHANGED <<dbVars, fsVars, work, sendVars, cur, snap, ghostVars, faults>>

\* scan_folder: some of the names present; the rest are younger than
\* min_file_age_sec or outside FILE_GLOB.
Scan(p) ==
  /\ pc[p] = "scan"
  /\ \E W \in SUBSET {n \in Names : inbox[n] # NoFile} :
        work' = [work EXCEPT ![p] = W]
  /\ Goto(p, "ingest")
  /\ UNCHANGED <<dbVars, fsVars, lock, sendVars, cur, snap, ghostVars, faults>>

\* ingest_new_files, one path: insert_file writes the file row and all its
\* record rows in one transaction unless the identity is already known.
Ingest(p, n) ==
  /\ pc[p] = "ingest"
  /\ n \in work[p]
  /\ work' = [work EXCEPT ![p] = @ \ {n}]
  /\ IF inbox[n] \in Ingested
     THEN UNCHANGED <<fstatus, status>>
     ELSE /\ fstatus' = [fstatus EXCEPT ![inbox[n]] = "pending"]
          /\ status' = [r \in Records |->
                          IF FileOf[r] = inbox[n] THEN "pending" ELSE status[r]]
  /\ UNCHANGED <<attempts, archived, lastRun, fsVars, lock, pc, sendVars, cur,
                 snap, ghostVars, faults>>

\* send_records begins: the snapshot of sendable records.
Select(p) ==
  /\ pc[p] = "ingest"
  /\ work[p] = {}
  /\ todo' = [todo EXCEPT ![p] =
                {r \in Records : Sendable(status[r], attempts[r], RetryCap)}]
  /\ Goto(p, "send")
  /\ UNCHANGED <<dbVars, fsVars, lock, work, flying, answers, again, final,
                 touched, aborted, cur, snap, ghostVars, faults>>

Submit(p, r) ==
  /\ pc[p] = "send"
  /\ r \in todo[p]
  /\ todo' = [todo EXCEPT ![p] = @ \ {r}]
  /\ flying' = [flying EXCEPT ![p] = @ \cup {r}]
  /\ UNCHANGED <<dbVars, fsVars, lock, pc, work, answers, again, final, touched,
                 aborted, cur, snap, ghostVars, faults>>

(***************************************************************************)
(* External: what the bureau did with a request and what became of its     *)
(* answer.  A request that ends in a transport error, a 5xx or an          *)
(* unreadable answer may have been accepted all the same.                  *)
(***************************************************************************)
MayBeAccepted(res) == res \in {Unreachable, Garbled}

Bureau(r, res, took) ==
  /\ took => res = Accepted \/ MayBeAccepted(res)
  /\ res = Accepted => took
  /\ accepted' = IF took /\ accepted[r] < 2
                 THEN [accepted EXCEPT ![r] = @ + 1] ELSE accepted

Answerable(r) == IF r \in Oversize THEN {TooLarge} ELSE BureauResults

\* send_one on a worker thread: the oversize check, then the POST.  When the
\* main thread has raised, the executor still runs what was submitted, but
\* nobody reads the answer.
SendOne(p, r) ==
  /\ r \in flying[p]
  /\ flying' = [flying EXCEPT ![p] = @ \ {r}]
  /\ \E res \in Answerable(r), took \in BOOLEAN :
        /\ Bureau(r, res, took)
        /\ IF pc[p] = "drain"
           THEN UNCHANGED answers
           ELSE answers' = [answers EXCEPT ![p] = @ \cup {<<r, res>>}]
        /\ lost' = IF took /\ (pc[p] = "drain" \/ res # Accepted)
                   THEN lost \cup {r} ELSE lost
  /\ UNCHANGED <<dbVars, fsVars, lock, pc, work, todo, again, final, touched,
                 aborted, cur, snap, retried, overwritten, faults>>

\* run_wave picks up one finished future and commits it.
Commit(p, r, res) ==
  /\ pc[p] = "send"
  /\ <<r, res>> \in answers[p]
  /\ answers' = [answers EXCEPT ![p] = @ \ {<<r, res>>}]
  /\ status' = [status EXCEPT ![r] = res.status]
  /\ attempts' = [attempts EXCEPT ![r] = AttemptsAfter(@, res)]
  /\ touched' = [touched EXCEPT ![p] = @ \cup {FileOf[r]}]
  /\ again' = IF res.sessionExpired /\ ~final[p]
              THEN [again EXCEPT ![p] = @ \cup {r}] ELSE again
  /\ UNCHANGED <<fstatus, archived, lastRun, fsVars, lock, pc, work, todo,
                 flying, final, aborted, cur, snap, ghostVars, faults>>

\* Mutant: the wave ends when the last future is done, committed or not.
WaveAnswered(p) == flying[p] = {}

\* The while loop of run_wave is over.
WaveDrained(p) == flying[p] = {} /\ answers[p] = {}

\* The one re-authentication of a pass: the first wave was dispatched in full.
Resend(p) ==
  /\ pc[p] = "send"
  /\ ~final[p]
  /\ todo[p] = {}
  /\ WaveDrained(p)
  /\ again[p] # {}
  /\ todo' = [todo EXCEPT ![p] = again[p]]
  /\ again' = [again EXCEPT ![p] = {}]
  /\ final' = [final EXCEPT ![p] = TRUE]
  /\ UNCHANGED <<dbVars, fsVars, lock, pc, work, flying, answers, touched,
                 aborted, cur, snap, ghostVars, faults>>

\* Mutant: an abort is not recorded.
AbortForgotten(p) == BOOLEAN

\* The ids _run_locked recomputes after the send stage.
ToRecompute(p) == (Ingested \ archived) \cup touched[p]

\* summary.aborted when send_records returns: records left undispatched mean it
\* aborted, and it may also have aborted on the last ones.
AbortFlag(p) == IF todo[p] = {} THEN BOOLEAN ELSE {TRUE}

\* send_records returns, and the ids to recompute are read.
SendEnd(p) ==
  /\ pc[p] = "send"
  /\ WaveDrained(p)
  /\ \E a \in AbortFlag(p) : aborted' = [aborted EXCEPT ![p] = a]
  /\ work' = [work EXCEPT ![p] = ToRecompute(p)]
  /\ todo' = [todo EXCEPT ![p] = {}]
  /\ again' = [again EXCEPT ![p] = {}]
  /\ final' = [final EXCEPT ![p] = FALSE]
  /\ touched' = [touched EXCEPT ![p] = {}]
  /\ Goto(p, "read")
  /\ UNCHANGED <<dbVars, fsVars, lock, flying, answers, cur, snap, ghostVars,
                 faults>>

-----------------------------------------------------------------------------
(***************************************************************************)
(* db.recompute_file_status is a SELECT and, in a later transaction, an    *)
(* UPDATE with what the SELECT showed.                                     *)
(***************************************************************************)
RecomputeRead(a, f) ==
  /\ pc[a] = "read"
  /\ snap' = [snap EXCEPT ![a] = Statuses(f)]
  /\ cur' = [cur EXCEPT ![a] = f]
  /\ Goto(a, "write")

RecomputeWrite(a, label) ==
  /\ pc[a] = "write"
  /\ fstatus' = [fstatus EXCEPT ![cur[a]] = AggregateStatus(snap[a])]
  /\ snap' = [snap EXCEPT ![a] = {}]
  /\ cur' = [cur EXCEPT ![a] = NoFile]
  /\ Goto(a, label)

PassRead(p, f) ==
  /\ f \in work[p]
  /\ RecomputeRead(p, f)
  /\ work' = [work EXCEPT ![p] = @ \ {f}]
  /\ UNCHANGED <<dbVars, fsVars, lock, sendVars, ghostVars, faults>>

PassWrite(p) ==
  /\ RecomputeWrite(p, "read")
  /\ UNCHANGED <<status, attempts, archived, lastRun, fsVars, lock, work,
                 sendVars, ghostVars, faults>>

\* Mutant: files with pending records are archived.
ArchivableUnlessFailed == {f \in Ingested \ archived : "failed" \notin Statuses(f)}

\* The query of archive_completed_files: unarchived, and no open record.
Archivable == {f \in Ingested \ archived : Statuses(f) \subseteq Terminal}

ArchivePlan(p) ==
  /\ pc[p] = "read"
  /\ work[p] = {}
  /\ work' = [work EXCEPT ![p] = Archivable]
  /\ Goto(p, "archive")
  /\ UNCHANGED <<dbVars, fsVars, lock, sendVars, cur, snap, ghostVars, faults>>

\* The source is gone or holds a newer version: only mark the row.
ArchiveAbsent(p, f) ==
  /\ pc[p] = "archive"
  /\ f \in work[p]
  /\ inbox[NameOf[f]] # f
  /\ archived' = archived \cup {f}
  /\ work' = [work EXCEPT ![p] = @ \ {f}]
  /\ UNCHANGED <<status, attempts, fstatus, lastRun, fsVars, lock, pc, sendVars,
                 cur, snap, ghostVars, faults>>

\* The inbox holds what the row's hash names: the rename may follow.
ArchiveMatch(p, f) ==
  /\ pc[p] = "archive"
  /\ f \in work[p]
  /\ inbox[NameOf[f]] = f
  /\ work' = [work EXCEPT ![p] = @ \ {f}]
  /\ cur' = [cur EXCEPT ![p] = f]
  /\ Goto(p, "rename")
  /\ UNCHANGED <<dbVars, fsVars, lock, sendVars, snap, ghostVars, faults>>

\* Mutant: the rename replaces whatever has the name in the archive.
StoreUnderName(f, g) ==
  /\ archivePlain' = [archivePlain EXCEPT ![NameOf[f]] = g]
  /\ UNCHANGED archiveSha

\* unique_target and the rename: content g goes under the plain name of row f, or
\* under the one prefixed with the row's hash when that is taken.
Store(f, g) ==
  IF archivePlain[NameOf[f]] = NoFile
  THEN /\ archivePlain' = [archivePlain EXCEPT ![NameOf[f]] = g]
       /\ UNCHANGED archiveSha
  ELSE /\ archiveSha' = [archiveSha EXCEPT ![f] = g]
       /\ UNCHANGED archivePlain

\* The rename moves what the name holds now, which need no longer be what was
\* hashed.
ArchiveMove(p) ==
  /\ pc[p] = "rename"
  /\ Store(cur[p], inbox[NameOf[cur[p]]])
  /\ inbox' = [inbox EXCEPT ![NameOf[cur[p]]] = NoFile]
  /\ Goto(p, "mark")
  /\ UNCHANGED <<dbVars, lock, work, sendVars, cur, snap, ghostVars, faults>>

ArchiveMark(p) ==
  /\ pc[p] = "mark"
  /\ archived' = archived \cup {cur[p]}
  /\ cur' = [cur EXCEPT ![p] = NoFile]
  /\ Goto(p, "archive")
  /\ UNCHANGED <<status, attempts, fstatus, lastRun, fsVars, lock, work,
                 sendVars, snap, ghostVars, faults>>

\* Back to idle: what every way out of a pass does to its local state.
Leave(p) ==
  /\ Goto(p, "idle")
  /\ lock' = NoPass
  /\ work' = [work EXCEPT ![p] = {}]
  /\ todo' = [todo EXCEPT ![p] = {}]
  /\ flying' = [flying EXCEPT ![p] = {}]
  /\ answers' = [answers EXCEPT ![p] = {}]
  /\ again' = [again EXCEPT ![p] = {}]
  /\ final' = [final EXCEPT ![p] = FALSE]
  /\ touched' = [touched EXCEPT ![p] = {}]
  /\ aborted' = [aborted EXCEPT ![p] = FALSE]
  /\ cur' = [cur EXCEPT ![p] = NoFile]
  /\ snap' = [snap EXCEPT ![p] = {}]

Finish(p) ==
  /\ pc[p] = "archive"
  /\ work[p] = {}
  /\ lastRun' = IF aborted[p] THEN "aborted" ELSE "success"
  /\ Leave(p)
  /\ UNCHANGED <<status, attempts, fstatus, archived, fsVars, ghostVars, faults>>

-----------------------------------------------------------------------------
(***************************************************************************)
(* Failures.  An exception on the main thread during the send stage leaves *)
(* the executor's with block, which waits for what is in flight; the       *)
(* answers already there are not committed.  Elsewhere it goes straight to *)
(* the except clause: a run row "error", and the lock is released.  A      *)
(* crash of the process writes nothing.                                    *)
(***************************************************************************)
Dropped(p) == {r \in Records : <<r, Accepted>> \in answers[p]}

RaiseInWave(p) ==
  /\ faults < MaxFaults
  /\ pc[p] = "send"
  /\ faults' = faults + 1
  /\ lost' = lost \cup Dropped(p)
  /\ answers' = [answers EXCEPT ![p] = {}]
  /\ Goto(p, "drain")
  /\ UNCHANGED <<dbVars, fsVars, lock, work, todo, flying, again, final, touched,
                 aborted, cur, snap, accepted, retried, overwritten>>

WriteErrorRun(p) ==
  /\ lastRun' = "error"
  /\ Leave(p)
  /\ UNCHANGED <<status, attempts, fstatus, archived, fsVars, ghostVars>>

Drained(p) ==
  /\ pc[p] = "drain"
  /\ flying[p] = {}
  /\ WriteErrorRun(p)
  /\ UNCHANGED faults

RaiseElsewhere(p) ==
  /\ faults < MaxFaults
  /\ pc[p] \notin {"idle", "send", "drain"}
  /\ faults' = faults + 1
  /\ WriteErrorRun(p)

Crash(p) ==
  /\ faults < MaxFaults
  /\ pc[p] # "idle"
  /\ faults' = faults + 1
  /\ lost' = lost \cup Dropped(p)
  /\ Leave(p)
  /\ UNCHANGED <<dbVars, fsVars, accepted, retried, overwritten>>

-----------------------------------------------------------------------------
(***************************************************************************)
(* POST /files/{id}/retry and POST /records/{id}/retry: reset_records,     *)
(* then recompute_file_status.  A file or a record that does not exist is  *)
(* a 404 and a record that is neither failed nor rejected a 409; both      *)
(* change nothing.                                                         *)
(***************************************************************************)
\* The WHERE clause of db.reset_records.
Resettable(R) == {r \in R : status[r] \in {"failed", "rejected"}}

ResetRecords(R) ==
  /\ status' = [r \in Records |-> IF r \in R THEN "pending" ELSE status[r]]
  /\ attempts' = [r \in Records |-> IF r \in R THEN 0 ELSE attempts[r]]
  /\ retried' = retried \cup R

Retry(q, f, R) ==
  /\ pc[q] = "idle"
  /\ ResetRecords(R)
  /\ cur' = [cur EXCEPT ![q] = f]
  /\ Goto(q, "read")
  /\ UNCHANGED <<fstatus, archived, lastRun, fsVars, lock, work, sendVars, snap,
                 accepted, lost, overwritten, faults>>

RetryFile(q, f) ==
  /\ f \in Ingested
  /\ Retry(q, f, Resettable(RecordsOf(f)))

RetryRecord(q, r) ==
  /\ r \in Resettable(Records)
  /\ Retry(q, FileOf[r], {r})

RequestRead(q) ==
  /\ RecomputeRead(q, cur[q])
  /\ UNCHANGED <<dbVars, fsVars, lock, work, sendVars, ghostVars, faults>>

RequestWrite(q) ==
  /\ RecomputeWrite(q, "idle")
  /\ UNCHANGED <<status, attempts, archived, lastRun, fsVars, lock, work,
                 sendVars, ghostVars, faults>>

RequestDies(q) ==
  /\ faults < MaxFaults
  /\ pc[q] # "idle"
  /\ faults' = faults + 1
  /\ Goto(q, "idle")
  /\ cur' = [cur EXCEPT ![q] = NoFile]
  /\ snap' = [snap EXCEPT ![q] = {}]
  /\ UNCHANGED <<dbVars, fsVars, lock, work, sendVars, ghostVars>>

-----------------------------------------------------------------------------
PassNext(p) ==
  \/ Start(p)
  \/ Scan(p)
  \/ \E n \in Names : Ingest(p, n)
  \/ Select(p)
  \/ \E r \in Records : Submit(p, r)
  \/ \E r \in Records : SendOne(p, r)
  \/ \E r \in Records, res \in SendResults : Commit(p, r, res)
  \/ Resend(p)
  \/ SendEnd(p)
  \/ \E f \in Files : PassRead(p, f)
  \/ PassWrite(p)
  \/ ArchivePlan(p)
  \/ \E f \in Files : ArchiveAbsent(p, f)
  \/ \E f \in Files : ArchiveMatch(p, f)
  \/ ArchiveMove(p)
  \/ ArchiveMark(p)
  \/ Finish(p)
  \/ Drained(p)

PassFault(p) == RaiseInWave(p) \/ RaiseElsewhere(p) \/ Crash(p)

RequestNext(q) ==
  \/ \E f \in Files : RetryFile(q, f)
  \/ \E r \in Records : RetryRecord(q, r)
  \/ RequestRead(q)
  \/ RequestWrite(q)
  \/ RequestDies(q)

Next ==
  \/ \E f \in Files : Drop(f)
  \/ \E p \in Passes : PassNext(p) \/ PassFault(p)
  \/ \E q \in Requests : RequestNext(q)

Spec == Init /\ [][Next]_vars

(***************************************************************************)
(* Fairness.  Cron keeps starting passes and a pass that can take a step   *)
(* takes one.  Of the bureau it is assumed that it does not fail a record  *)
(* for ever, and of the dispatch order, in which the settled records make  *)
(* room for the ones behind them, that no record is for ever among those   *)
(* an aborted pass leaves behind.                                          *)
(***************************************************************************)
Definitive == {Accepted, Refused, TooLarge}
SendDefinitive(p, r) ==
  /\ SendOne(p, r)
  /\ \E res \in Definitive : <<r, res>> \in answers'[p]

Fairness ==
  \A p \in Passes :
     /\ WF_vars(PassNext(p))
     /\ \A r \in Records : SF_vars(Submit(p, r)) /\ SF_vars(SendDefinitive(p, r))

FairSpec == Spec /\ Fairness

-----------------------------------------------------------------------------
(***************************************************************************)
(* Properties.                                                             *)
(***************************************************************************)

\* Everything a pass has selected, dispatched or answered.
Answered(p) == {r \in Records : \E res \in SendResults : <<r, res>> \in answers[p]}
InHand(p) == todo[p] \cup flying[p] \cup again[p] \cup Answered(p)

\* The snapshot a pass works from never goes stale in a way that matters: what
\* it still holds (send_records line 165) is sendable in the database at every
\* moment until it is committed, however long the pass runs and whatever
\* operators retry meanwhile.
InHandIsSendable ==
  \A p \in Passes : \A r \in InHand(p) : Sendable(status[r], attempts[r], RetryCap)

\* A record written SENT is never written again: no second pass, no retry
\* request and no late answer takes it back.
SentIsFinal == [][\A r \in Records : status[r] = "sent" => status'[r] = "sent"]_vars

\* The pass, the handlers, the lock and the crashes together write the records
\* table only as RecordLedger allows.  This is where the lock matters: of two
\* passes at once the second would settle rows the first has settled.
Ledger == INSTANCE RecordLedger
LedgerSpec == Ledger!Spec

\* No record burns more than retry_cap attempts between two manual resets,
\* although sendable_records tests the cap only when the pass begins.
RetryCapRespected == \A r \in Records : attempts[r] <= RetryCap

\* What delivery really promises: the bureau accepts a record a second time only
\* if the answer to an earlier acceptance never reached the database.
DuplicateNeedsLostAnswer == \A r \in Records : accepted[r] = 2 => r \in lost

\* A record is SENT only if the bureau accepted it, and a file whose status is
\* `sent` contains no record that was not: the status an operator trusts to
\* delete a file can lag behind but never runs ahead of delivery, in spite of
\* the read-then-write in recompute_file_status.
SentIsDelivered ==
  /\ \A r \in Records : status[r] = "sent" => accepted[r] > 0
  /\ \A f \in Files : fstatus[f] = "sent" => \A r \in RecordsOf(f) : accepted[r] > 0

\* archive_completed_files archives a file with an open record only when an
\* operator reopened that record.
ArchivedIsSettled ==
  \A f \in archived : \A r \in RecordsOf(f) : status[r] \in Terminal \/ r \in retried

\* No ingested content disappears from disk, or ends under another content's name,
\* unless a writer replaced it in the inbox: collisions in the archive, a newer
\* version arriving between the hash and the rename, and crashes between the
\* rename and mark_archived all keep a copy.
NoFileLost ==
  \A f \in Ingested :
     \/ inbox[NameOf[f]] = f
     \/ archivePlain[NameOf[f]] = f
     \/ archiveSha[f] = f
     \/ f \in overwritten

\* A pass about to record "success" leaves no record pending but those an
\* operator reopened: the health rule built on last_successful_run may rely on it.
SuccessLeavesNothingPending ==
  \A p \in Passes :
     (pc[p] = "archive" /\ ~aborted[p]) =>
        \A r \in Records : status[r] = "pending" => r \in retried

\* ARCHITECTURE.md:321 calls a crash at any point safe to restart from: whatever
\* step a crash or an exception hit, every record of an ingested file is in the
\* end settled or out of attempts, and the file archived if all are settled.
\* (Only with no operator reopening records.)
Done(f) ==
  /\ \A r \in RecordsOf(f) : \/ status[r] \in Terminal
                             \/ status[r] = "failed" /\ attempts[r] = RetryCap
  /\ Statuses(f) \subseteq Terminal => f \in archived
EveryFileCompletes == \A f \in Files : f \in Ingested ~> Done(f)
=============================================================================
