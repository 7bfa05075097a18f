---------------------------- MODULE SendRecords ----------------------------
(***************************************************************************)
(* The send stage of one pass: send_records of app/uploader.py with its    *)
(* two waves, its window of in-flight requests, the error streak that      *)
(* aborts it, the session it shares with the next passes, and the summary. *)
(*                                                                         *)
(* Worker threads only perform SendOne; every other action is the main     *)
(* thread.  The records table is read once (Select) and written at every   *)
(* commit.                                                                 *)
(***************************************************************************)
EXTENDS UploadTypes, Sequences

CONSTANTS
  Order,        \* all records, in the order of sendable_records
  Oversize,     \* records whose envelope exceeds max_line_bytes
  Answers,      \* what the bureau and the network may answer
  RetryCap,     \* config.retry_cap
  Concurrency,  \* config.ubki_concurrency
  Threshold     \* config.network_abort_threshold

Records == {Order[i] : i \in 1..Len(Order)}

ASSUME SendAssumption ==
  /\ Order \in Seq(Records)
  /\ \A i, j \in 1..Len(Order) : Order[i] = Order[j] => i = j
  /\ Answers \subseteq BureauResults
  /\ RetryCap \in Nat \ {0}
  /\ Concurrency \in Nat \ {0}
  /\ Threshold \in Nat \ {0}

VARIABLES
  status, attempts,   \* the records table
  cached,             \* what DbSessionStore.load would return
  pc,
  sessid,             \* the session the current wave is sent under
  pending,            \* the iterator over the current wave
  flying,             \* submitted futures without a result
  answers,            \* finished futures not yet committed
  streak,             \* consecutive network-like errors, in completion order
  aborted,
  expired,            \* first-wave records answered with a stale session
  final,              \* the second wave
  touched,            \* records committed by this pass
  counts,             \* records_sent, records_rejected, records_failed of the summary
  tally,              \* history: the outcome under which each record was counted
  auths,              \* authentications attempted by this pass
  reauthed            \* client.reauth was called

table   == <<status, attempts>>
session == <<cached, sessid, auths, reauthed>>
window  == <<pending, flying, answers>>
verdict == <<streak, aborted, expired, final>>
summary == <<touched, counts, tally>>
vars == <<table, session, pc, window, verdict, summary>>

Session == {"none", "good", "bad"}
Outcome == {"sent", "rejected", "failed"}
InFlight == Cardinality(flying) + Cardinality(answers)

TypeOK ==
  /\ status \in [Records -> RecordStatus]
  /\ attempts \in [Records -> 0..RetryCap]
  /\ cached \in Session
  /\ pc \in {"select", "auth", "fill", "wave", "refill", "reauth", "end"}
  /\ sessid \in Session
  /\ pending \in Seq(Records)
  /\ flying \subseteq Records
  /\ answers \subseteq Records \X SendResults
  /\ streak \in Nat
  /\ aborted \in BOOLEAN
  /\ expired \in Seq(Records)
  /\ final \in BOOLEAN
  /\ touched \subseteq Records
  /\ counts \in [Outcome -> Nat]
  /\ tally \in [Records -> Outcome \cup {"none"}]
  /\ auths \in Nat
  /\ reauthed \in BOOLEAN

\* Any records table, and any session left by earlier passes or set_session.py.
Init ==
  /\ status \in [Records -> {"pending", "failed", "rejected"}]
  /\ attempts \in [Records -> 0..RetryCap]
  /\ \A r \in Records : /\ status[r] = "pending" => attempts[r] = 0
                        /\ status[r] = "rejected" => attempts[r] > 0
  /\ cached \in Session
  /\ pc = "select"
  /\ sessid = "none"
  /\ pending = <<>>
  /\ flying = {}
  /\ answers = {}
  /\ streak = 0
  /\ aborted = FALSE
  /\ expired = <<>>
  /\ final = FALSE
  /\ touched = {}
  /\ counts = [o \in Outcome |-> 0]
  /\ tally = [r \in Records |-> "none"]
  /\ auths = 0
  /\ reauthed = FALSE

-----------------------------------------------------------------------------
RangeOf(s) == {s[i] : i \in 1..Len(s)}
ToSend == {r \in Records : Sendable(status[r], attempts[r], RetryCap)}

\* s holds the records of R in the order of the table (ORDER BY).
Lists(s, R) ==
  /\ RangeOf(s) = R
  /\ \A i, j \in 1..Len(s) :
        i < j => \E a, b \in 1..Len(Order) : a < b /\ Order[a] = s[i] /\ Order[b] = s[j]

Select ==
  /\ pc = "select"
  /\ \E n \in 0..Len(Order) : \E s \in [1..n -> Records] :
        Lists(s, ToSend) /\ pending' = s
  /\ pc' = "auth"
  /\ UNCHANGED <<table, session, flying, answers, verdict, summary>>

NothingToSend ==
  /\ pc = "auth"
  /\ pending = <<>>
  /\ pc' = "end"
  /\ UNCHANGED <<table, session, window, verdict, summary>>

\* ensure_session with a session cached for today.
UseCached ==
  /\ pc = "auth"
  /\ pending # <<>>
  /\ cached # "none"
  /\ sessid' = cached
  /\ pc' = "fill"
  /\ UNCHANGED <<table, cached, auths, reauthed, window, verdict, summary>>

\* client.auth: a new session, saved for the day, or UbkiAuthError.
AuthOk ==
  /\ sessid' = "good"
  /\ cached' = "good"
  /\ auths' = auths + 1

AuthFails ==
  /\ auths' = auths + 1
  /\ UNCHANGED cached

FirstAuth ==
  /\ pc = "auth"
  /\ pending # <<>>
  /\ cached = "none"
  /\ \/ AuthOk /\ pc' = "fill" /\ UNCHANGED aborted
     \/ AuthFails /\ pc' = "end" /\ aborted' = TRUE /\ UNCHANGED sessid
  /\ UNCHANGED <<table, reauthed, window, streak, expired, final, summary>>

Submit ==
  /\ pending' = Tail(pending)
  /\ flying' = flying \cup {Head(pending)}

\* The initial window: up to Concurrency records of the wave.
Fill ==
  /\ pc = "fill"
  /\ IF pending # <<>> /\ InFlight < Concurrency
     THEN Submit /\ UNCHANGED pc
     ELSE pc' = "wave" /\ UNCHANGED <<pending, flying>>
  /\ UNCHANGED <<table, session, answers, verdict, summary>>

\* External: the answer to one request.  A session that is no longer valid is
\* answered as stale, unless the request does not get through at all.
AnswerTo(res) ==
  /\ res \in Answers
  /\ sessid = "bad" => res \in {Stale, Unreachable}

\* send_one on a worker thread.
SendOne(r) ==
  /\ r \in flying
  /\ flying' = flying \ {r}
  /\ \E res \in SendResults :
        /\ IF r \in Oversize THEN res = TooLarge ELSE AnswerTo(res)
        /\ answers' = answers \cup {<<r, res>>}
  /\ UNCHANGED <<table, session, pc, pending, verdict, summary>>

\* The local function commit: the row, and the summary unless the record is
\* going to be resent.
WriteRow(r, res) ==
  /\ status' = [status EXCEPT ![r] = res.status]
  /\ attempts' = [attempts EXCEPT ![r] = AttemptsAfter(@, res)]
  /\ touched' = touched \cup {r}

\* Mutant: a stale answer is counted although its record is going to be resent.
CountAlways(res, resend) == [counts EXCEPT ![res.status] = @ + 1]

Count(res, resend) ==
  IF resend THEN counts ELSE [counts EXCEPT ![res.status] = @ + 1]

\* Mutant: the threshold is exceeded, not reached.
JudgeLate(res) ==
  LET s == IF res.isNetworkError THEN streak + 1
           ELSE IF res.isLocalReject THEN streak ELSE 0
  IN  /\ streak' = s
      /\ aborted' = (aborted \/ (res.isNetworkError /\ s > Threshold))

\* The streak and the decision to abort after one committed answer: a local
\* reject says nothing about the bureau.
Judge(res) ==
  LET s == IF res.isNetworkError THEN streak + 1
           ELSE IF res.isLocalReject THEN streak ELSE 0
  IN  /\ streak' = s
      /\ aborted' = (aborted \/ (res.isNetworkError /\ s >= Threshold))

Commit(r, res) ==
  LET resend == res.sessionExpired /\ ~final
  IN  /\ pc = "wave"
      /\ <<r, res>> \in answers
      /\ answers' = answers \ {<<r, res>>}
      /\ WriteRow(r, res)
      /\ counts' = Count(res, resend)
      /\ tally' = IF resend THEN tally ELSE [tally EXCEPT ![r] = res.status]
      /\ expired' = IF resend THEN Append(expired, r) ELSE expired
      /\ Judge(res)
      /\ pc' = IF aborted' THEN "wave" ELSE "refill"
      /\ UNCHANGED <<session, pending, flying, final>>

\* Mutants: a finished request is not replaced; an exhausted iterator blocks.
NoRefill ==
  /\ pc = "refill"
  /\ pc' = "wave"
  /\ UNCHANGED <<pending, flying>>
  /\ UNCHANGED <<table, session, answers, verdict, summary>>
RefillBlocks ==
  /\ pc = "refill"
  /\ pending # <<>>
  /\ pc' = "wave"
  /\ Submit
  /\ UNCHANGED <<table, session, answers, verdict, summary>>

\* One answer was committed and the pass goes on: submit the next record.
Refill ==
  /\ pc = "refill"
  /\ pc' = "wave"
  /\ IF pending # <<>> THEN Submit ELSE UNCHANGED <<pending, flying>>
  /\ UNCHANGED <<table, session, answers, verdict, summary>>

\* Mutants: the second wave may be followed by a third; futures that are done but
\* not committed do not keep the wave alive.
WaveEndAgain ==
  /\ pc = "wave"
  /\ flying = {} /\ answers = {}
  /\ pc' = IF expired # <<>> /\ ~aborted THEN "reauth" ELSE "end"
  /\ UNCHANGED <<table, session, window, verdict, summary>>
WaveEndEarly ==
  /\ pc = "wave"
  /\ flying = {}
  /\ pc' = IF ~final /\ expired # <<>> /\ ~aborted THEN "reauth" ELSE "end"
  /\ UNCHANGED <<table, session, window, verdict, summary>>

\* The while loop of run_wave ends; what follows it in send_records.
WaveEnd ==
  /\ pc = "wave"
  /\ flying = {} /\ answers = {}
  /\ pc' = IF ~final /\ expired # <<>> /\ ~aborted THEN "reauth" ELSE "end"
  /\ UNCHANGED <<table, session, window, verdict, summary>>

\* Mutant: the second wave is whatever is sendable by now.
SecondWaveReselects ==
  /\ \E n \in 0..Len(Order) : \E s \in [1..n -> Records] :
        Lists(s, ToSend) /\ pending' = s
  /\ final' = TRUE

SecondWave ==
  /\ pending' = expired
  /\ final' = TRUE

\* client.reauth, once; if it fails the stale records count as failed.
Reauth ==
  /\ pc = "reauth"
  /\ reauthed' = TRUE
  /\ \/ /\ AuthOk
        /\ pc' = "fill"
        /\ SecondWave
        /\ UNCHANGED <<counts, tally>>
     \/ /\ AuthFails
        /\ pc' = "end"
        /\ counts' = [counts EXCEPT !["failed"] = @ + Len(expired)]
        /\ tally' = [r \in Records |->
                       IF r \in RangeOf(expired) THEN "failed" ELSE tally[r]]
        /\ UNCHANGED <<sessid, pending, final>>
  /\ UNCHANGED <<table, flying, answers, streak, aborted, expired, touched>>

\* External: the bureau drops the session at any time, midnight included.
SessionDies ==
  /\ sessid = "good" \/ cached = "good"
  /\ pc # "end"
  /\ sessid' = IF sessid = "good" THEN "bad" ELSE sessid
  /\ cached' = IF cached = "good" THEN "bad" ELSE cached
  /\ UNCHANGED <<table, auths, reauthed, pc, window, verdict, summary>>

Main ==
  \/ Select
  \/ NothingToSend
  \/ UseCached
  \/ FirstAuth
  \/ Fill
  \/ \E r \in Records, res \in SendResults : Commit(r, res)
  \/ Refill
  \/ WaveEnd
  \/ Reauth

Next ==
  \/ Main
  \/ \E r \in Records : SendOne(r)
  \/ SessionDies

Spec == Init /\ [][Next]_vars

\* The main thread runs, and a request ends at the latest in the HTTP timeout.
FairSpec ==
  /\ Spec
  /\ WF_vars(Main)
  /\ \A r \in Records : WF_vars(SendOne(r))
-----------------------------------------------------------------------------
(***************************************************************************)
(* Properties.                                                             *)
(***************************************************************************)
Ended == pc = "end"

\* "An abort dispatches no more than ~concurrency extra sends" (run_wave): an
\* outage costs one pass at most Threshold + Concurrency - 1 failed requests in
\* a row, and once the pass has decided to abort it only drains its window.
OutageIsBounded ==
  /\ streak + (IF aborted THEN InFlight ELSE 0) <= Threshold + Concurrency - 1
  /\ InFlight <= Concurrency

\* A pass that ends without abort has answered and counted every record it
\* selected: the window neither skips nor strands one, in either wave.
EndWithoutAbortIsComplete ==
  (Ended /\ ~aborted) =>
     \A r \in Records : tally[r] = "none"
                           => ~Sendable(status[r], attempts[r], RetryCap)

\* "UBKI forbids frequent auth" (send_records): at most one authentication
\* before the fan-out and one after it, whatever the bureau answers and however
\* often the session dies.
AtMostTwoAuths == auths <= 2

\* The three integers of the summary never contradict the database: each is the
\* number of records this pass wrote with that outcome, none of them twice,
\* although a stale record is written FAILED first, counted later, and may be
\* sent by the second wave.  The only records left out are the ones of Uncounted:
\* at the end of a pass that reauthenticated without abort there are none, and at
\* the end of one that aborted they are failures no counter shows.
Answered == {r \in Records : \E res \in SendResults : <<r, res>> \in answers}
Hand == RangeOf(pending) \cup flying \cup Answered
Uncounted == IF reauthed THEN Hand ELSE RangeOf(expired)

CountsAreTrue ==
  /\ \A o \in Outcome :
        counts[o] = Cardinality({r \in touched \ Uncounted : status[r] = o})
  /\ Ended /\ ~aborted => Uncounted = {}

\* A record answered by the bureau in either wave is never sent again by this
\* pass: only a stale answer leads to a second request, and to one only.
ResendOnlyStale ==
  [][\A r \in Records :
       (r \in flying' /\ r \notin flying /\ r \in touched)
          => final /\ (\E i \in 1..Len(expired) : expired[i] = r) /\ tally[r] = "none"]_vars

\* The stage ends, whatever mixture of failures the bureau produces.
StageEnds == <>Ended

\* ARCHITECTURE.md:177 says that after a stale session the main thread
\* re-authenticates once and resends those records.
StaleSessionIsRefreshed == (Ended /\ expired # <<>>) => reauthed

-----------------------------------------------------------------------------
(***************************************************************************)
(* Every step of the stage is a step the coarser send stage of Uploader    *)
(* allows, or leaves its variables alone: what is checked and proved of    *)
(* Uploader holds with this stage in its place.  All records belong to one *)
(* ingested file; the history variables start saturated.                   *)
(***************************************************************************)
TheFile == {"file"}
ThePass == "pass"
InPass(x) == [p \in {ThePass} |-> x]

StagePc == IF pc = "select" THEN "ingest" ELSE IF Ended THEN "read" ELSE "send"
StageWork == IF Ended THEN TheFile ELSE {}
StageTodo == IF Ended THEN {} ELSE RangeOf(pending)
StageAgain == IF final \/ Ended THEN {} ELSE RangeOf(expired)
StageTouched == IF Ended \/ touched = {} THEN {} ELSE TheFile

Stage == INSTANCE Uploader WITH
  Files <- TheFile, Names <- {"name"},
  NameOf <- [f \in TheFile |-> "name"],
  FileOf <- [r \in Records |-> "file"],
  Passes <- {ThePass}, Requests <- {}, MaxFaults <- 0,
  NoFile <- "no file", NoPass <- "no pass",
  fstatus <- [f \in TheFile |-> "pending"],
  archived <- {}, lastRun <- "none",
  inbox <- [n \in {"name"} |-> "file"],
  archivePlain <- [n \in {"name"} |-> "no file"],
  archiveSha <- [f \in TheFile |-> "no file"],
  lock <- ThePass,
  pc <- InPass(StagePc), work <- InPass(StageWork), todo <- InPass(StageTodo),
  flying <- InPass(flying), answers <- InPass(answers), again <- InPass(StageAgain),
  final <- InPass(final /\ ~Ended), touched <- InPass(StageTouched),
  aborted <- InPass(Ended /\ aborted),
  cur <- InPass("no file"), snap <- InPass({}),
  accepted <- [r \in Records |-> 2], lost <- Records, retried <- {},
  overwritten <- {}, faults <- 0

StageSteps == [][Stage!PassNext(ThePass)]_(Stage!vars)
=============================================================================
