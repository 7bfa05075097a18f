------------------------------- MODULE Health -------------------------------
(***************************************************************************)
(* What the operator is told: GET /health of app/api.py, the alert of      *)
(* build_alert, and the runs row behind both, over passes, kills, retries  *)
(* and a clock.                                                            *)
(*                                                                         *)
(* Uploader has the interleavings inside a pass; here passes are serial    *)
(* (the flock), files have one data line or none, and a wave of the send   *)
(* stage is a sequence of committed results, any network error of which    *)
(* may be the one that aborts it.  Health is read at once, although the    *)
(* handler makes five queries.                                             *)
(***************************************************************************)
EXTENDS Integers, FiniteSetsExt, UploadTypes

CONSTANTS
  Files,        \* numbered in the order scan_folder sorts them
  RetryCap,     \* config.retry_cap
  MinAge,       \* config.min_file_age_sec
  MaxPass,      \* the longest a pass takes
  StaleAfter,   \* STALE_RUN_AFTER, 25 hours
  Window,       \* config.health_rejected_window_days
  MaxRejected,  \* config.health_rejected_max_ratio, in percent
  None,
  MaxTime       \* bound on the clock

ASSUME HealthAssumption ==
  /\ Files \subseteq Nat /\ IsFiniteSet(Files) /\ None \notin Nat
  /\ {RetryCap, MinAge, MaxPass, StaleAfter, Window, MaxTime} \subseteq Nat
  /\ MaxRejected \in 0..100

VARIABLES
  now,
  kind,         \* "line", "blank", or "undecodable": read_lines raises
  since,        \* when a file was delivered, or its unsettled record last written; or None
  row,          \* files and records: status "none" before ingest, "empty" without a line
  pass,         \* where the pass is, what it has to do, and its stale first answers
  summary,      \* the counters of RunSummary that build_alert reads; errors: is there one
  troubled,     \* history: files the running pass found empty, or whose record it wrote
                \* last as failed, as rejected, or as sent without a component
  lastSuccess   \* finished_at of last_successful_run

tables == <<since, row>>
report == <<summary, troubled>>
vars == <<now, kind, tables, pass, report, lastSuccess>>

Time == 0..MaxTime
Idle == [pc |-> "idle", todo |-> {}, started |-> 0, expired |-> {}, final |-> FALSE,
         aborted |-> FALSE]
Sending == {"auth", "send", "reauth", "run", "alert"}
EmptySummary == [failed |-> 0, rejected |-> 0, dropped |-> 0, empty |-> 0, errors |-> FALSE]

NoRow == [status |-> "none", attempts |-> 0, created |-> 0]

TypeOK ==
  /\ now \in Time
  /\ kind \in [Files -> {"line", "blank", "undecodable"}]
  /\ since \in [Files -> Time \cup {None}]
  /\ row \in [Files -> [status   : RecordStatus \cup {"none", "empty"},
                        attempts : Nat, created : Time]]
  /\ pass \in [pc : {"idle", "ingest"} \cup Sending, todo : SUBSET Files, started : Time,
               expired : SUBSET Files, final : BOOLEAN, aborted : BOOLEAN]
  /\ summary \in [failed : Nat, rejected : Nat, dropped : Nat, empty : Nat, errors : BOOLEAN]
  /\ troubled \subseteq Files
  /\ lastSuccess \in Time \cup {None}

Init ==
  /\ now = 0
  /\ kind \in [Files -> {"line", "blank", "undecodable"}]
  /\ since = [f \in Files |-> None]
  /\ row = [f \in Files |-> NoRow]
  /\ pass = Idle
  /\ summary = EmptySummary /\ troubled = {}
  /\ lastSuccess = None

-----------------------------------------------------------------------------
(***************************************************************************)
(* External: the clock and the producer.                                   *)
(***************************************************************************)
Tick ==
  /\ now < MaxTime
  /\ pass.pc # "idle" => now < pass.started + MaxPass
  /\ now' = now + 1
  /\ UNCHANGED <<kind, tables, pass, report, lastSuccess>>

Deliver(f) ==
  /\ row[f].status = "none" /\ since[f] = None
  /\ since' = [since EXCEPT ![f] = now]
  /\ UNCHANGED <<now, kind, row, pass, report, lastSuccess>>

-----------------------------------------------------------------------------
(***************************************************************************)
(* The pass.                                                               *)
(***************************************************************************)
\* scan_folder, less the files that are already ingested.
New == {f \in Files : row[f].status = "none" /\ since[f] # None /\ since[f] <= now - MinAge}

Start ==
  /\ pass.pc = "idle"
  /\ pass' = [Idle EXCEPT !.pc = "ingest", !.started = now, !.todo = New]
  /\ UNCHANGED <<now, kind, tables, report, lastSuccess>>

\* ingest_new_files, one path in the order of scan_folder; read_lines raises on a
\* file that is not UTF-8, so what sorts behind it waits.
Ingest(f) ==
  /\ pass.pc = "ingest" /\ pass.todo # {} /\ f = Min(pass.todo) /\ kind[f] # "undecodable"
  /\ row' = [row EXCEPT ![f].status = IF kind[f] = "line" THEN "pending" ELSE "empty",
                        ![f].created = now]
  /\ since' = [since EXCEPT ![f] = IF kind[f] = "line" THEN now ELSE None]
  /\ pass' = [pass EXCEPT !.todo = @ \ {f}]
  /\ summary' = [summary EXCEPT !.empty = IF kind[f] = "line" THEN @ ELSE @ + 1]
  /\ troubled' = IF kind[f] = "line" THEN troubled ELSE troubled \cup {f}
  /\ UNCHANGED <<now, kind, lastSuccess>>

Unsettled == {f \in Files : Sendable(row[f].status, row[f].attempts, RetryCap)}

\* sendable_records; without a record there is no authentication and no wave.
Select ==
  /\ pass.pc = "ingest" /\ pass.todo = {}
  /\ pass' = [pass EXCEPT !.pc = IF Unsettled = {} THEN "run" ELSE "auth", !.todo = Unsettled]
  /\ UNCHANGED <<now, kind, tables, report, lastSuccess>>

\* ensure_session, which aborts the pass if it fails.
Authenticate ==
  /\ pass.pc = "auth"
  /\ \/ pass' = [pass EXCEPT !.pc = "send"] /\ UNCHANGED summary
     \/ /\ pass' = [pass EXCEPT !.pc = "run", !.aborted = TRUE]
        /\ summary' = [summary EXCEPT !.errors = TRUE]
  /\ UNCHANGED <<now, kind, tables, troubled, lastSuccess>>

\* Mutant: a stale answer is counted in neither wave.
CountedUnlessStale(res) == ~res.sessionExpired

\* count_summary: a stale answer of the first wave is going to be resent.
Counted(res) == ~res.sessionExpired \/ pass.final

Tally(res, dropped) ==
  IF res.status = "sent" THEN [summary EXCEPT !.dropped = IF dropped THEN @ + 1 ELSE @]
  ELSE IF res.status = "rejected" THEN [summary EXCEPT !.rejected = @ + 1]
  ELSE [summary EXCEPT !.failed = @ + 1]

\* One result.  dropped: the bureau accepted the package without a component; stop:
\* this network error completes the streak, what is in flight still follows it.
Commit(f, res, dropped, stop) ==
  /\ pass.pc = "send" /\ f \in pass.todo
  /\ row' = [row EXCEPT ![f].status = res.status,
                        ![f].attempts = AttemptsAfter(@, res)]
  /\ since' = [since EXCEPT ![f] = IF res.status = "failed" THEN now ELSE None]
  /\ pass' = [pass EXCEPT !.todo = @ \ {f}, !.aborted = @ \/ stop,
                !.expired = IF res.sessionExpired /\ ~pass.final THEN @ \cup {f} ELSE @]
  /\ summary' = IF Counted(res) THEN Tally(res, dropped) ELSE summary
  /\ troubled' = IF res.status = "sent" /\ ~dropped THEN troubled \ {f} ELSE troubled \cup {f}
  /\ UNCHANGED <<now, kind, lastSuccess>>

\* run_wave returns: everything is committed, or the pass is aborted and leaves the
\* rest, its stale records included, to the next one.
WaveEnd ==
  /\ pass.pc = "send" /\ (pass.todo = {} \/ pass.aborted)
  /\ pass' = [pass EXCEPT !.pc = IF pass.expired # {} /\ ~pass.aborted THEN "reauth" ELSE "run"]
  /\ summary' = [summary EXCEPT !.errors = @ \/ pass.aborted]
  /\ UNCHANGED <<now, kind, tables, troubled, lastSuccess>>

\* client.reauth and the second wave, or the stale records count as failed.
Reauth ==
  /\ pass.pc = "reauth"
  /\ \/ /\ pass' = [pass EXCEPT !.pc = "send", !.todo = pass.expired, !.expired = {},
                                !.final = TRUE]
        /\ UNCHANGED summary
     \/ /\ pass' = [pass EXCEPT !.pc = "run"]
        /\ summary' = [summary EXCEPT !.failed = @ + Cardinality(pass.expired), !.errors = TRUE]
  /\ UNCHANGED <<now, kind, tables, troubled, lastSuccess>>

\* Mutant: a run of whatever status counts.
AnyRun == TRUE

\* insert_run, and the WHERE clause of last_successful_run.
RunSucceeds == ~pass.aborted

WriteRun ==
  /\ pass.pc = "run"
  /\ lastSuccess' = IF RunSucceeds THEN now ELSE lastSuccess
  /\ pass' = [pass EXCEPT !.pc = "alert"]
  /\ UNCHANGED <<now, kind, tables, report>>

\* build_alert: whether there is a message.  records_warnings and files_skipped, which
\* make for more messages, are left out.
Alarm ==
  \/ summary.failed > 0 \/ summary.rejected > 0 \/ summary.dropped > 0 \/ summary.empty > 0
  \/ summary.errors

\* The alert, if there is one, and the end of the pass.
SendAlert ==
  /\ pass.pc = "alert"
  /\ pass' = Idle /\ summary' = EmptySummary /\ troubled' = {}
  /\ UNCHANGED <<now, kind, tables, lastSuccess>>

\* An exception (an undecodable file, an unmounted folder, a failing rename) writes an
\* error run, and its alert asks the operator to look.  A killed process writes
\* and tells nothing, nor does an exception of the database, which the error row
\* meets again.
Fail ==
  /\ pass.pc # "idle"
  /\ pass' = Idle /\ summary' = EmptySummary /\ troubled' = {}
  /\ UNCHANGED <<now, kind, tables, lastSuccess>>

\* retry_record
Retry(f) ==
  /\ row[f].status \in {"failed", "rejected"}
  /\ row' = [row EXCEPT ![f].status = "pending", ![f].attempts = 0]
  /\ since' = [since EXCEPT ![f] = now]
  /\ UNCHANGED <<now, kind, pass, report, lastSuccess>>

PassNext ==
  \/ Start \/ Select \/ Authenticate \/ WaveEnd \/ Reauth \/ WriteRun \/ SendAlert \/ Fail
  \/ \E f \in Files : Ingest(f)
  \/ \E f \in Files, res \in SendResults, dropped, stop \in BOOLEAN :
        /\ dropped => res = Accepted
        /\ stop => res.isNetworkError
        /\ Commit(f, res, dropped, stop)

Next ==
  \/ PassNext \/ Tick
  \/ \E f \in Files : Deliver(f) \/ Retry(f)

Spec == Init /\ [][Next]_vars
-----------------------------------------------------------------------------
(***************************************************************************)
(* GET /health.                                                            *)
(***************************************************************************)
RunIsStale == lastSuccess = None \/ now - lastSuccess > StaleAfter

OverCap == {f \in Files : row[f].status = "failed" /\ row[f].attempts >= RetryCap}

TooManyRejected ==
  LET recent == {f \in Files : row[f].status \notin {"none", "empty"}
                               /\ row[f].created >= now - Window}
      rejected == {f \in recent : row[f].status = "rejected"}
  IN  100 * Cardinality(rejected) > MaxRejected * Cardinality(recent)

Healthy == ~RunIsStale /\ OverCap = {} /\ ~TooManyRejected

-----------------------------------------------------------------------------
\* From when on a pass can take a file or its record up.
Ready(f) == IF row[f].status = "none" THEN since[f] + MinAge ELSE since[f]

\* The purpose of the 25h rule: while health is "ok", no file lies in the inbox and no
\* unsettled record in the table for longer than 25 hours and one pass without
\* an attempt to send it, whatever passes abort, raise or are killed.
HealthyLeavesNothingWaiting ==
  Healthy => \A f \in Files : since[f] # None => Ready(f) + MaxPass + StaleAfter >= now

\* "Silence in Telegram = all is well" (README.md:76): a pass that ends without an alert
\* has met no failure, rejection, dropped component or empty file, in either wave, and
\* has left nothing behind but what came or was reset since it began and the
\* records that had reached the cap before.  The converse does not hold of the numbers:
\* an alert after an abort leaves out the stale records of the first wave.
SilenceMeansAllIsWell ==
  pass.pc = "alert" /\ ~Alarm =>
    /\ troubled = {} /\ ~pass.aborted
    /\ \A f \in Files :
         /\ row[f].status = "failed" => row[f].attempts >= RetryCap
         /\ since[f] # None /\ f \notin OverCap => Ready(f) >= pass.started
=============================================================================
