---------------------------- MODULE HealthProofs ----------------------------
(***************************************************************************)
(* What "ok" and silence mean to the operator, for any number of files,    *)
(* any ages and thresholds and however long the clock runs.                *)
(*                                                                         *)
(* The argument: a pass that is not aborted has, for every file, taken it  *)
(* up, or found it too young, or it was written to since the pass began.   *)
(* So whatever still waits when a run succeeds became ready after that run *)
(* had begun, at most MaxPass ago.  And what a pass met and has not counted *)
(* waits for the second wave, which either counts it or leaves an error.   *)
(***************************************************************************)
EXTENDS Health, FiniteSetTheorems, TLAPS

USE DEF tables, report

\* The files somebody still has to send.
Waits(f) == since[f] # None /\ f \notin OverCap

\* A pass takes no longer than it may, and only unsettled files wait.
ClockInv ==
  /\ pass.pc # "idle" => pass.started <= now /\ now <= pass.started + MaxPass
  /\ \A f \in Files : since[f] # None => row[f].status \in {"none", "pending", "failed"}
  /\ lastSuccess # None => lastSuccess <= now

\* What a pass has left behind when ingest ends, and when the send stage ends.
IngestInv ==
  pass.pc = "ingest" =>
    /\ ~pass.aborted
    /\ \A f \in Files \ pass.todo :
          row[f].status = "none" /\ Waits(f) => Ready(f) >= pass.started
SendInv ==
  pass.pc \in Sending /\ ~pass.aborted =>
    \A f \in Files \ pass.todo : Waits(f) => Ready(f) >= pass.started

\* The two waves: what is left to do, and what expired in the first.
WaveInv ==
  /\ pass.pc \in {"reauth", "run", "alert"} /\ ~pass.aborted => pass.todo = {}
  /\ pass.pc \in {"idle", "ingest", "auth", "reauth"} => ~pass.aborted /\ ~pass.final
  /\ pass.pc \in {"idle", "ingest", "auth"} => pass.expired = {}
  /\ pass.final => pass.expired = {}
  /\ pass.pc \in {"run", "alert"} /\ ~summary.errors => ~pass.aborted /\ pass.expired = {}

\* A record that can still be tried is on the list, or this pass has just failed with it.
FailedInv ==
  pass.pc \in Sending /\ ~pass.aborted =>
    \A f \in Files : row[f].status = "failed" /\ row[f].attempts < RetryCap
                        => f \in pass.todo \cup troubled

\* What a run that succeeded has left behind, ever since.
SuccessInv ==
  lastSuccess # None => \A f \in Files : Waits(f) => Ready(f) + MaxPass >= lastSuccess

\* Trouble that no counter shows is a stale answer whose record is going to be resent.
Awaiting == pass.expired \cup (IF pass.final THEN pass.todo ELSE {})
NewsInv ==
  /\ pass.pc = "idle" => troubled = {}
  /\ ~Alarm => troubled \subseteq Awaiting

HInv == /\ TypeOK /\ ClockInv /\ IngestInv /\ SendInv /\ SuccessInv
        /\ WaveInv /\ FailedInv /\ NewsInv

-----------------------------------------------------------------------------
\* The constants and the clock are numbers.
LEMMA Numbers ==
  ASSUME TypeOK
  PROVE  /\ MinAge \in Nat /\ MaxPass \in Nat /\ StaleAfter \in Nat /\ RetryCap \in Nat
         /\ None \notin Nat
         /\ now \in Nat /\ Time \subseteq Nat
         /\ pass.started \in Nat /\ pass.pc \in {"idle", "ingest"} \cup Sending
         /\ \A f \in Files : /\ since[f] # None => since[f] \in Nat /\ Ready(f) \in Nat
                             /\ row[f].attempts \in Nat
<1>1. /\ MinAge \in Nat /\ MaxPass \in Nat /\ StaleAfter \in Nat /\ RetryCap \in Nat
      /\ None \notin Nat /\ MaxTime \in Nat
  BY HealthAssumption
<1>2. Time \subseteq Nat
  BY <1>1 DEF Time
<1>3. pass.started \in Nat /\ pass.pc \in {"idle", "ingest"} \cup Sending /\ now \in Nat
  BY <1>2 DEF TypeOK
<1>4. \A f \in Files : since[f] \in Time \cup {None} /\ row[f].attempts \in Nat
  BY DEF TypeOK
<1>5. \A f \in Files : since[f] # None => since[f] \in Nat /\ Ready(f) \in Nat
  <2>1. SUFFICES ASSUME NEW f \in Files, since[f] # None
                 PROVE  since[f] \in Nat /\ Ready(f) \in Nat
    OBVIOUS
  <2>2. since[f] \in Nat
    BY <1>2, <1>4, <2>1
  <2>3. since[f] + MinAge \in Nat
    BY <1>1, <2>2
  <2>4. QED
    BY <2>2, <2>3 DEF Ready
<1>6. QED
  BY <1>1, <1>2, <1>3, <1>4, <1>5

\* What a result can make of a row.
LEMMA ResultTypes ==
  ASSUME NEW res \in SendResults
  PROVE  res.status \in {"sent", "failed", "rejected"}
<1>1. res \in {Accepted, Refused, Garbled, Unreachable, Stale, TooLarge}
  BY DEF SendResults, BureauResults
<1>2. QED
  BY <1>1 DEF Accepted, Refused, Garbled, Unreachable, Stale, TooLarge, Result

PassType ==
  [pc : {"idle", "ingest"} \cup Sending, todo : SUBSET Files, started : Time,
   expired : SUBSET Files, final : BOOLEAN, aborted : BOOLEAN]
SummaryType == [failed : Nat, rejected : Nat, dropped : Nat, empty : Nat, errors : BOOLEAN]

\* A list of stale records has a length.
LEMMA FilesAreFinite ==
  ASSUME NEW P \in SUBSET Files
  PROVE  IsFiniteSet(P) /\ Cardinality(P) \in Nat
<1>1. IsFiniteSet(Files)
  BY HealthAssumption
<1>2. IsFiniteSet(P)
  BY <1>1, FS_Subset
<1>3. QED
  BY <1>2, FS_CardinalityType

\* Counting one result keeps the counters numbers, and never lowers one.
LEMMA TallyType ==
  ASSUME TypeOK, NEW res \in SendResults, NEW dropped \in BOOLEAN
  PROVE  /\ Tally(res, dropped) \in SummaryType
         /\ ~(/\ Tally(res, dropped).failed = 0 /\ Tally(res, dropped).rejected = 0
              /\ Tally(res, dropped).dropped = 0) \/ (res.status = "sent" /\ ~dropped)
<1>1. summary \in SummaryType
  BY DEF TypeOK, SummaryType
<1>2. CASE res.status = "sent"
  BY <1>1, <1>2 DEF Tally, SummaryType
<1>3. CASE res.status = "rejected"
  BY <1>1, <1>3 DEF Tally, SummaryType
<1>4. CASE res.status \notin {"sent", "rejected"}
  BY <1>1, <1>4 DEF Tally, SummaryType
<1>5. QED
  BY <1>2, <1>3, <1>4

\* The rows, the clock and the pass keep their types.
LEMMA TypeStep ==
  ASSUME TypeOK, [Next]_vars
  PROVE  TypeOK'
<1> USE DEF TypeOK
<1>0. now \in Nat /\ MaxTime \in Nat /\ 0 \in Time /\ now \in Time
  BY HealthAssumption, Numbers DEF Time
<1>1. CASE UNCHANGED vars
  BY <1>1 DEF vars
<1>2. CASE Tick
  <2>1. now' \in Time
    BY <1>0, <1>2 DEF Tick, Time
  <2>2. QED
    BY <1>2, <2>1 DEF Tick
<1>3. CASE Start
  <2>1. pass' = [pc |-> "ingest", todo |-> New, started |-> now, expired |-> {},
                 final |-> FALSE, aborted |-> FALSE]
    BY <1>3 DEF Start, Idle
  <2>2. New \subseteq Files
    BY DEF New
  <2>3. pass' \in PassType
    BY <1>0, <2>1, <2>2 DEF PassType
  <2>4. QED
    BY <1>3, <2>3 DEF Start, PassType
<1>4. CASE Select
  <2>1. Unsettled \subseteq Files
    BY DEF Unsettled
  <2>2. pass' \in PassType
    BY <1>4, <2>1 DEF Select, PassType, Sending
  <2>3. QED
    BY <1>4, <2>2 DEF Select, PassType
<1>5. CASE Authenticate \/ WaveEnd
  <2>1. pass' \in PassType
    BY <1>5 DEF Authenticate, WaveEnd, PassType, Sending
  <2>2. summary' \in SummaryType
    BY <1>5 DEF Authenticate, WaveEnd, SummaryType
  <2>3. QED
    BY <1>5, <2>1, <2>2 DEF Authenticate, WaveEnd, PassType, SummaryType
<1>6. CASE Reauth
  <2>1. pass' \in PassType
    BY <1>6 DEF Reauth, PassType, Sending
  <2>2. IsFiniteSet(pass.expired) /\ Cardinality(pass.expired) \in Nat
    BY FilesAreFinite
  <2>3. summary' \in SummaryType
    <3>1. summary \in SummaryType
      BY DEF SummaryType
    <3>2. PICK n \in Nat : n = Cardinality(pass.expired)
      BY <2>2
    <3>3. \/ summary' = summary
          \/ summary' = [summary EXCEPT !.failed = @ + n, !.errors = TRUE]
      BY <1>6, <3>2 DEF Reauth
    <3>4. [summary EXCEPT !.failed = @ + n, !.errors = TRUE] \in SummaryType
      <4>1. summary.failed + n \in Nat
        BY <3>1 DEF SummaryType
      <4>2. PICK m \in Nat : m = summary.failed + n
        BY <4>1
      <4>3. [summary EXCEPT !.failed = m, !.errors = TRUE] \in SummaryType
        BY <3>1 DEF SummaryType
      <4>4. [summary EXCEPT !.failed = @ + n, !.errors = TRUE]
              = [summary EXCEPT !.failed = m, !.errors = TRUE]
        BY <4>2
      <4>5. QED
        BY <4>3, <4>4
    <3>5. QED
      BY <3>1, <3>3, <3>4
  <2>4. QED
    BY <1>6, <2>1, <2>3 DEF Reauth, PassType, SummaryType
<1>7. CASE WriteRun \/ SendAlert \/ Fail
  <2>1. CASE WriteRun
    <3>1. pass' \in PassType
      BY <2>1 DEF WriteRun, PassType, Sending
    <3>2. QED
      BY <1>0, <2>1, <3>1 DEF WriteRun, PassType
  <2>2. CASE SendAlert \/ Fail
    <3>1. pass' = [pc |-> "idle", todo |-> {}, started |-> 0, expired |-> {},
                   final |-> FALSE, aborted |-> FALSE]
          /\ summary' = [failed |-> 0, rejected |-> 0, dropped |-> 0, empty |-> 0,
                         errors |-> FALSE]
      BY <2>2 DEF SendAlert, Fail, Idle, EmptySummary
    <3>2. QED
      BY <1>0, <2>2, <3>1 DEF SendAlert, Fail
  <2>3. QED
    BY <1>7, <2>1, <2>2
<1>8. ASSUME NEW f \in Files, Ingest(f)
      PROVE  TypeOK'
  <2>1. PICK s \in {"pending", "empty"} :
             row' = [row EXCEPT ![f] = [@ EXCEPT !.status = s, !.created = now]]
    BY <1>8 DEF Ingest
  <2>2. row' \in [Files -> [status   : RecordStatus \cup {"none", "empty"},
                            attempts : Nat, created : Time]]
    BY <1>0, <2>1 DEF RecordStatus
  <2>3. since' \in [Files -> Time \cup {None}]
    BY <1>0, <1>8 DEF Ingest
  <2>4. pass' \in PassType
    BY <1>8 DEF Ingest, PassType
  <2>5. troubled' \subseteq Files /\ UNCHANGED <<now, kind, lastSuccess>>
    BY <1>8 DEF Ingest
  <2>6. summary' \in SummaryType
    BY <1>8 DEF Ingest, SummaryType
  <2>7. QED
    BY <2>2, <2>3, <2>4, <2>5, <2>6 DEF PassType, SummaryType
<1>9. ASSUME NEW f \in Files, NEW res \in SendResults, NEW dropped \in BOOLEAN,
             NEW stop \in BOOLEAN, Commit(f, res, dropped, stop)
      PROVE  TypeOK'
  <2>1. AttemptsAfter(row[f].attempts, res) \in Nat /\ row[f].created \in Time
        /\ res.status \in RecordStatus
    <3>1. row[f].attempts \in Nat /\ row[f].created \in Time
      OBVIOUS
    <3>2. AttemptsAfter(row[f].attempts, res) \in Nat
      BY <3>1 DEF AttemptsAfter
    <3>3. QED
      BY <3>1, <3>2, ResultTypes DEF RecordStatus
  <2>2. row' = [row EXCEPT ![f] = [@ EXCEPT !.status = res.status,
                                    !.attempts = AttemptsAfter(row[f].attempts, res)]]
    BY <1>9 DEF Commit
  <2>3. row' \in [Files -> [status   : RecordStatus \cup {"none", "empty"},
                            attempts : Nat, created : Time]]
    <3>1. row[f] \in [status   : RecordStatus \cup {"none", "empty"},
                     attempts : Nat, created : Time]
      OBVIOUS
    <3>2. [row[f] EXCEPT !.status = res.status,
                         !.attempts = AttemptsAfter(row[f].attempts, res)]
            \in [status   : RecordStatus \cup {"none", "empty"}, attempts : Nat, created : Time]
      BY <2>1, <3>1
    <3>3. QED
      BY <2>2, <3>2
  <2>4. since' \in [Files -> Time \cup {None}]
    BY <1>0, <1>9 DEF Commit
  <2>5. pass' \in PassType
    <3>1. PICK b \in BOOLEAN, E \in SUBSET Files :
             pass' = [pass EXCEPT !.todo = @ \ {f}, !.aborted = b, !.expired = E]
      <4>1. (pass.aborted \/ stop) \in BOOLEAN
        OBVIOUS
      <4>2. (IF res.sessionExpired /\ ~pass.final THEN pass.expired \cup {f}
             ELSE pass.expired) \in SUBSET Files
        OBVIOUS
      <4>3. pass' = [pass EXCEPT !.todo = @ \ {f}, !.aborted = pass.aborted \/ stop,
                       !.expired = IF res.sessionExpired /\ ~pass.final
                                   THEN pass.expired \cup {f} ELSE pass.expired]
        BY <1>9 DEF Commit
      <4>4. QED
        BY <4>1, <4>2, <4>3
    <3>2. QED
      BY <3>1 DEF PassType
  <2>6. summary' \in SummaryType
    BY <1>9, TallyType DEF Commit, SummaryType
  <2>7. troubled' \subseteq Files /\ UNCHANGED <<now, kind, lastSuccess>>
    BY <1>9 DEF Commit
  <2>8. QED
    BY <2>3, <2>4, <2>5, <2>6, <2>7 DEF PassType, SummaryType
<1>10. ASSUME NEW f \in Files, Deliver(f)
       PROVE  TypeOK'
  BY <1>0, <1>10 DEF Deliver
<1>11. ASSUME NEW f \in Files, Retry(f)
       PROVE  TypeOK'
  <2>1. row' = [row EXCEPT ![f] = [@ EXCEPT !.status = "pending", !.attempts = 0]]
    BY <1>11 DEF Retry
  <2>2. row' \in [Files -> [status   : RecordStatus \cup {"none", "empty"},
                            attempts : Nat, created : Time]]
    BY <2>1 DEF RecordStatus
  <2>3. since' \in [Files -> Time \cup {None}] /\ UNCHANGED <<now, kind, pass, report, lastSuccess>>
    BY <1>0, <1>11 DEF Retry
  <2>4. QED
    BY <2>2, <2>3
<1>12. QED
  BY <1>1, <1>2, <1>3, <1>4, <1>5, <1>6, <1>7, <1>8, <1>9, <1>10, <1>11 DEF Next, PassNext

-----------------------------------------------------------------------------
\* A file whose time has just been written is ready now or later.
LEMMA ReadyNow ==
  ASSUME TypeOK, NEW g \in Files, since'[g] = now
  PROVE  Ready(g)' \in Nat /\ Ready(g)' >= now
<1>1. now \in Nat /\ MinAge \in Nat
  BY Numbers
<1>2. Ready(g)' = now + MinAge \/ Ready(g)' = now
  BY HealthAssumption DEF Ready
<1>3. now + MinAge \in Nat /\ now + MinAge >= now /\ now >= now
  BY <1>1
<1>4. QED
  BY <1>1, <1>2, <1>3

\* A file that waits after a step waited before it, and has not become ready earlier, or
\* the step has just written its time.
LEMMA WaitsStep ==
  ASSUME TypeOK, [Next]_vars, NEW g \in Files, Waits(g)'
  PROVE  \/ Waits(g) /\ Ready(g)' = Ready(g)
         \/ Ready(g)' \in Nat /\ Ready(g)' >= now
<1>1. ASSUME since'[g] = now
      PROVE  Ready(g)' \in Nat /\ Ready(g)' >= now
  BY <1>1, ReadyNow
<1>2. ASSUME since'[g] = since[g], row'[g] = row[g]
      PROVE  Waits(g) /\ Ready(g)' = Ready(g)
  BY <1>2 DEF Waits, OverCap, Ready
<1>3. since'[g] # None
  BY DEF Waits
<1>4. ASSUME NEW f \in Files, since' = [since EXCEPT ![f] = since'[f]], since'[f] \in {now, None},
             row' = [row EXCEPT ![f] = row'[f]]
      PROVE  since'[g] = now \/ (since'[g] = since[g] /\ row'[g] = row[g])
  <2>1. CASE g = f
    BY <1>3, <1>4, <2>1
  <2>2. CASE g # f
    BY <1>4, <2>2 DEF TypeOK
  <2>3. QED
    BY <2>1, <2>2
<1>5. since'[g] = now \/ (since'[g] = since[g] /\ row'[g] = row[g])
  <2>1. CASE UNCHANGED <<since, row>>
    BY <2>1
  <2>2. ASSUME NEW f \in Files, Ingest(f)
        PROVE  since'[g] = now \/ (since'[g] = since[g] /\ row'[g] = row[g])
    <3>1. since'[f] \in {now, None} /\ since' = [since EXCEPT ![f] = since'[f]]
      BY <2>2 DEF Ingest, TypeOK
    <3>2. row' = [row EXCEPT ![f] = row'[f]]
      BY <2>2 DEF Ingest, TypeOK
    <3>3. QED
      BY <1>4, <3>1, <3>2
  <2>3. ASSUME NEW f \in Files, NEW res \in SendResults, NEW dropped \in BOOLEAN,
               NEW stop \in BOOLEAN, Commit(f, res, dropped, stop)
        PROVE  since'[g] = now \/ (since'[g] = since[g] /\ row'[g] = row[g])
    BY <1>4, <2>3 DEF Commit, TypeOK
  <2>4. ASSUME NEW f \in Files, Deliver(f)
        PROVE  since'[g] = now \/ (since'[g] = since[g] /\ row'[g] = row[g])
    BY <2>4 DEF Deliver, TypeOK
  <2>5. ASSUME NEW f \in Files, Retry(f)
        PROVE  since'[g] = now \/ (since'[g] = since[g] /\ row'[g] = row[g])
    BY <1>4, <2>5 DEF Retry, TypeOK
  <2>6. QED
    BY <2>1, <2>2, <2>3, <2>4, <2>5 DEF Next, PassNext, Start, Select, Authenticate, WaveEnd, Reauth, WriteRun,
       SendAlert, Fail, Tick, vars
<1>6. QED
  BY <1>1, <1>2, <1>5

\* A row is never taken out of the table again.
LEMMA NoneStep ==
  ASSUME TypeOK, [Next]_vars, NEW g \in Files, row'[g].status = "none"
  PROVE  row[g].status = "none" /\ ~(pass.pc = "ingest" /\ Ingest(g))
<1>1. ASSUME NEW f \in Files, Ingest(f)
      PROVE  row[g].status = "none" /\ ~Ingest(g)
  <2>1. row'[f].status # "none"
    BY <1>1 DEF Ingest, TypeOK
  <2>2. f # g /\ row'[g] = row[g]
    BY <1>1, <2>1 DEF Ingest, TypeOK
  <2>3. ~Ingest(g)
    BY <1>1, <2>2 DEF Ingest
  <2>4. QED
    BY <2>2, <2>3
<1>2. ASSUME NEW f \in Files, NEW res \in SendResults, NEW dropped \in BOOLEAN,
             NEW stop \in BOOLEAN, Commit(f, res, dropped, stop)
      PROVE  row[g].status = "none" /\ pass.pc # "ingest"
  <2>1. row'[f].status # "none"
    BY <1>2, ResultTypes DEF Commit, TypeOK
  <2>2. QED
    BY <1>2, <2>1 DEF Commit, TypeOK
<1>3. ASSUME NEW f \in Files, Retry(f)
      PROVE  row[g].status = "none" /\ ~Ingest(g)
  <2>1. row'[f].status # "none" /\ pass' = pass
    BY <1>3 DEF Retry, TypeOK
  <2>2. row[g].status = "none"
    BY <1>3, <2>1 DEF Retry, TypeOK
  <2>3. ~Ingest(g)
    BY <2>1 DEF Ingest, TypeOK
  <2>4. QED
    BY <2>2, <2>3
<1>4. QED
  BY <1>1, <1>2, <1>3 DEF Next, PassNext, Start, Select, Authenticate, WaveEnd, Reauth, WriteRun, SendAlert, Fail, Tick,
     Deliver, Ingest, vars

-----------------------------------------------------------------------------
\* Time passes, within the pass too, but not beyond what a pass may take.
LEMMA ClockStep ==
  ASSUME TypeOK, ClockInv, [Next]_vars
  PROVE  ClockInv' /\ now' \in Nat /\ now <= now'
<1>1. now' \in Nat /\ now <= now'
  <2>1. CASE Tick
    BY <2>1, Numbers DEF Tick
  <2>2. CASE now' = now
    BY <2>2, Numbers
  <2>3. QED
    BY <2>1, <2>2 DEF Next, PassNext, Start, Ingest, Select, Commit, Authenticate, WaveEnd, Reauth, WriteRun, SendAlert,
       Fail, Deliver, Retry, vars
<1>2. pass'.pc # "idle" => pass'.started <= now' /\ now' <= pass'.started + MaxPass
  <2>1. CASE Tick
    BY <2>1, Numbers DEF Tick, ClockInv
  <2>2. CASE Start
    <3>1. pass'.started = now /\ now' = now
      BY <2>2 DEF Start, Idle
    <3>2. QED
      BY <3>1, Numbers
  <2>3. CASE SendAlert \/ Fail
    BY <2>3 DEF SendAlert, Fail, Idle
  <2>4. ASSUME now' = now, pass'.started = pass.started, pass'.pc # "idle" => pass.pc # "idle"
        PROVE  pass'.pc # "idle" => pass'.started <= now' /\ now' <= pass'.started + MaxPass
    BY <2>4 DEF ClockInv
  <2>5. CASE Select \/ Authenticate \/ WaveEnd \/ Reauth \/ WriteRun \/ \E f \in Files : Ingest(f) \/ Deliver(f) \/ Retry(f)
    <3>1. CASE Select \/ Authenticate \/ WaveEnd \/ Reauth \/ WriteRun
      BY <2>4, <3>1 DEF Select, Authenticate, WaveEnd, Reauth, WriteRun, TypeOK
    <3>2. ASSUME NEW f \in Files, Ingest(f)
          PROVE  pass'.pc # "idle" => pass'.started <= now' /\ now' <= pass'.started + MaxPass
      BY <2>4, <3>2 DEF Ingest, TypeOK
    <3>3. ASSUME NEW f \in Files, Deliver(f) \/ Retry(f)
          PROVE  pass'.pc # "idle" => pass'.started <= now' /\ now' <= pass'.started + MaxPass
      BY <2>4, <3>3 DEF Deliver, Retry
    <3>4. QED
      BY <2>5, <3>1, <3>2, <3>3
  <2>6. CASE \E f \in Files, res \in SendResults, dropped, stop \in BOOLEAN :
               Commit(f, res, dropped, stop)
    BY <2>4, <2>6 DEF Commit, TypeOK
  <2>7. CASE UNCHANGED vars
    BY <2>4, <2>7 DEF vars
  <2>8. QED
    BY <2>1, <2>2, <2>3, <2>5, <2>6, <2>7 DEF Next, PassNext
<1>3. \A g \in Files : since'[g] # None => row'[g].status \in {"none", "pending", "failed"}
  <2> SUFFICES ASSUME NEW g \in Files, since'[g] # None
               PROVE  row'[g].status \in {"none", "pending", "failed"}
    OBVIOUS
  <2>1. CASE since'[g] = since[g] /\ row'[g] = row[g]
    BY <2>1 DEF ClockInv
  <2>2. ASSUME NEW f \in Files, Ingest(f)
        PROVE  row'[g].status \in {"none", "pending", "failed"}
    <3>1. CASE g = f
      BY <2>2, <3>1 DEF Ingest, TypeOK
    <3>2. CASE g # f
      BY <2>1, <2>2, <3>2 DEF Ingest, TypeOK
    <3>3. QED
      BY <3>1, <3>2
  <2>3. ASSUME NEW f \in Files, NEW res \in SendResults, NEW dropped \in BOOLEAN,
               NEW stop \in BOOLEAN, Commit(f, res, dropped, stop)
        PROVE  row'[g].status \in {"none", "pending", "failed"}
    <3>1. CASE g = f
      BY <2>3, <3>1 DEF Commit, TypeOK
    <3>2. CASE g # f
      BY <2>1, <2>3, <3>2 DEF Commit, TypeOK
    <3>3. QED
      BY <3>1, <3>2
  <2>4. ASSUME NEW f \in Files, Deliver(f)
        PROVE  row'[g].status \in {"none", "pending", "failed"}
    BY <2>1, <2>4 DEF Deliver, TypeOK
  <2>5. ASSUME NEW f \in Files, Retry(f)
        PROVE  row'[g].status \in {"none", "pending", "failed"}
    <3>1. CASE g = f
      BY <2>5, <3>1 DEF Retry, TypeOK
    <3>2. CASE g # f
      BY <2>1, <2>5, <3>2 DEF Retry, TypeOK
    <3>3. QED
      BY <3>1, <3>2
  <2>6. QED
    BY <2>1, <2>2, <2>3, <2>4, <2>5 DEF Next, PassNext, Start, Select, Authenticate, WaveEnd, Reauth, WriteRun,
       SendAlert, Fail, Tick, vars
<1>4. lastSuccess' # None => lastSuccess' <= now'
  <2>1. CASE lastSuccess' = now /\ now' = now
    BY <2>1, Numbers
  <2>2. CASE lastSuccess' = lastSuccess
    <3>1. lastSuccess # None => lastSuccess \in Nat
      BY Numbers DEF TypeOK
    <3>2. now \in Nat
      BY Numbers
    <3>3. QED
      BY <1>1, <2>2, <3>1, <3>2 DEF ClockInv
  <2>3. QED
    BY <2>1, <2>2 DEF Next, PassNext, Start, Ingest, Select, Commit, Authenticate, WaveEnd, Reauth, WriteRun, SendAlert,
       Fail, Deliver, Retry, Tick, vars
<1>5. QED
  BY <1>1, <1>2, <1>3, <1>4 DEF ClockInv

-----------------------------------------------------------------------------
\* Where a pass stands on its way, and when it began.
LEMMA PassMoves ==
  ASSUME TypeOK, [Next]_vars
  PROVE  /\ pass'.pc = "ingest" => Start \/ (/\ pass.pc = "ingest" /\ pass'.started = pass.started
                                             /\ pass'.aborted = pass.aborted)
         /\ pass'.pc \in Sending => \/ Select
                                    \/ /\ pass.pc \in Sending
                                       /\ pass'.started = pass.started
                                       /\ pass.aborted => pass'.aborted
<1> USE DEF Sending
<1>1. CASE Start \/ Select
  BY <1>1 DEF Start, Idle, Select, TypeOK
<1>2. CASE Authenticate \/ WaveEnd
  BY <1>2 DEF Authenticate, WaveEnd, TypeOK
<1>3. CASE Reauth \/ WriteRun
  BY <1>3 DEF Reauth, WriteRun, TypeOK
<1>4. CASE SendAlert \/ Fail
  BY <1>4 DEF SendAlert, Fail, Idle
<1>5. ASSUME NEW f \in Files, Ingest(f)
      PROVE  pass'.pc = pass.pc /\ pass'.started = pass.started /\ pass'.aborted = pass.aborted
  BY <1>5 DEF Ingest, TypeOK
<1>6. ASSUME NEW f \in Files, NEW res \in SendResults, NEW dropped \in BOOLEAN,
             NEW stop \in BOOLEAN, Commit(f, res, dropped, stop)
      PROVE  /\ pass'.pc = pass.pc /\ pass'.started = pass.started /\ pass.pc = "send"
             /\ pass.aborted => pass'.aborted
  BY <1>6 DEF Commit, TypeOK
<1>7. CASE UNCHANGED pass
  BY <1>7
<1>8. QED
  BY <1>1, <1>2, <1>3, <1>4, <1>5, <1>6, <1>7 DEF Next, PassNext, Tick, Deliver, Retry, vars

\* What is taken off a pass's list: by ingest a file that gets its row, by the send stage
\* one whose time is written.
LEMMA TodoStep ==
  ASSUME TypeOK, WaveInv, [Next]_vars, NEW g \in Files, g \in pass.todo, g \notin pass'.todo
  PROVE  /\ pass'.pc = "ingest" => Start \/ Ingest(g)
         /\ pass'.pc \in Sending /\ ~pass'.aborted => since'[g] \in {now, None}
<1>1. CASE Start
  BY <1>1 DEF Start, Idle, Sending
<1>2. CASE Select
  BY <1>2 DEF Select, TypeOK
<1>3. CASE Authenticate \/ WaveEnd \/ WriteRun
  BY <1>3 DEF Authenticate, WaveEnd, WriteRun, TypeOK
<1>4. CASE Reauth
  BY <1>4 DEF Reauth, WaveInv, TypeOK
<1>5. CASE SendAlert \/ Fail
  BY <1>5 DEF SendAlert, Fail, Idle, Sending
<1>6. ASSUME NEW f \in Files, Ingest(f)
      PROVE  f = g /\ pass'.pc = "ingest"
  BY <1>6 DEF Ingest, TypeOK
<1>7. ASSUME NEW f \in Files, NEW res \in SendResults, NEW dropped \in BOOLEAN,
             NEW stop \in BOOLEAN, Commit(f, res, dropped, stop)
      PROVE  pass'.pc = "send" /\ since'[g] \in {now, None}
  <2>1. pass'.pc = "send" /\ pass'.todo = pass.todo \ {f}
    BY <1>7 DEF Commit, TypeOK
  <2>2. f = g
    BY <2>1
  <2>3. QED
    BY <1>7, <2>1, <2>2 DEF Commit, TypeOK
<1>8. CASE UNCHANGED pass
  BY <1>8
<1>9. QED
  BY <1>1, <1>2, <1>3, <1>4, <1>5, <1>6, <1>7, <1>8 DEF Next, PassNext, Tick, Deliver, Retry,
     vars, Sending

-----------------------------------------------------------------------------
\* Ingest passes over a file only if it is too young, or has its row already.
LEMMA IngestStep ==
  ASSUME TypeOK, ClockInv, IngestInv, WaveInv, [Next]_vars
  PROVE  IngestInv'
<1>1. SUFFICES ASSUME pass'.pc = "ingest"
               PROVE  /\ ~pass'.aborted
                      /\ \A g \in Files \ pass'.todo :
                           row'[g].status = "none" /\ Waits(g)' => Ready(g)' >= pass'.started
  BY DEF IngestInv
<1>2. CASE Start
  <2>1. pass'.started = now /\ pass'.todo = New /\ ~pass'.aborted /\ UNCHANGED <<row, since>>
    BY <1>2 DEF Start, Idle
  <2>2. ASSUME NEW g \in Files \ New, row[g].status = "none", since[g] # None
        PROVE  since[g] + MinAge >= now
    <3>1. ~(since[g] <= now - MinAge)
      BY <2>2 DEF New
    <3>2. since[g] \in Nat /\ MinAge \in Nat /\ now \in Nat
      BY <2>2, Numbers
    <3>3. QED
      BY <3>1, <3>2
  <2>3. ASSUME NEW g \in Files \ New, row'[g].status = "none", Waits(g)'
        PROVE  Ready(g)' >= now
    BY <2>1, <2>2, <2>3 DEF Waits, Ready
  <2>4. QED
    BY <2>1, <2>3
<1>3. CASE ~Start
  <2>1. /\ pass.pc = "ingest" /\ pass'.started = pass.started /\ ~pass'.aborted
        /\ pass.started <= now /\ pass.started \in Nat /\ now \in Nat
    BY <1>1, <1>3, PassMoves, Numbers DEF IngestInv, ClockInv
  <2>2. ASSUME NEW g \in Files, g \notin pass'.todo, row'[g].status = "none", Waits(g)'
        PROVE  Ready(g)' >= pass.started
    <3>1. row[g].status = "none" /\ g \notin pass.todo
      BY <1>1, <1>3, <2>1, <2>2, NoneStep, TodoStep
    <3>2. CASE Waits(g) /\ Ready(g)' = Ready(g)
      BY <2>1, <3>1, <3>2 DEF IngestInv
    <3>3. CASE Ready(g)' \in Nat /\ Ready(g)' >= now
      BY <2>1, <3>3
    <3>4. QED
      BY <2>2, <3>2, <3>3, WaitsStep
  <2>3. QED
    BY <2>1, <2>2
<1>4. QED
  BY <1>2, <1>3

\* The send stage takes up every file that waits, and writes the time of each.
LEMMA SendStep ==
  ASSUME TypeOK, ClockInv, IngestInv, SendInv, WaveInv, [Next]_vars
  PROVE  SendInv'
<1>1. SUFFICES ASSUME pass'.pc \in Sending, ~pass'.aborted,
                      NEW g \in Files, g \notin pass'.todo, Waits(g)'
               PROVE  Ready(g)' >= pass'.started
  BY DEF SendInv
<1>2. CASE Select
  <2>1. /\ pass.pc = "ingest" /\ pass.todo = {} /\ pass'.started = pass.started
        /\ UNCHANGED <<row, since>>
        /\ ~Sendable(row[g].status, row[g].attempts, RetryCap)
    BY <1>1, <1>2 DEF Select, Unsettled, TypeOK
  <2>2. Waits(g) /\ Ready(g)' = Ready(g)
    BY <1>1, <2>1 DEF Waits, OverCap, Ready
  <2>3. row[g].status = "none"
    <3>1. row[g].status \in {"none", "pending", "failed"}
      BY <2>2 DEF ClockInv, Waits
    <3>2. row[g].status = "failed" => row[g].attempts < RetryCap
      BY <2>2, Numbers DEF Waits, OverCap
    <3>3. QED
      BY <2>1, <3>1, <3>2 DEF Sendable
  <2>4. QED
    BY <2>1, <2>2, <2>3 DEF IngestInv
<1>3. CASE ~Select
  <2>1. /\ pass.pc \in Sending /\ ~pass.aborted /\ pass'.started = pass.started
        /\ pass.started <= now /\ pass.started \in Nat /\ now \in Nat
    BY <1>1, <1>3, PassMoves, Numbers DEF ClockInv, Sending
  <2>2. CASE Ready(g)' \in Nat /\ Ready(g)' >= now
    BY <2>1, <2>2
  <2>3. CASE g \in pass.todo
    <3>1. since'[g] = now
      BY <1>1, <2>3, TodoStep DEF Waits
    <3>2. QED
      BY <2>2, <3>1, ReadyNow
  <2>4. CASE g \notin pass.todo /\ Waits(g) /\ Ready(g)' = Ready(g)
    BY <2>1, <2>4 DEF SendInv
  <2>5. QED
    BY <1>1, <2>2, <2>3, <2>4, WaitsStep
<1>4. QED
  BY <1>2, <1>3

\* When a run succeeds, nothing waits that was ready before its pass began.
LEMMA SuccessStep ==
  ASSUME TypeOK, ClockInv, SendInv, WaveInv, SuccessInv, [Next]_vars
  PROVE  SuccessInv'
<1>1. SUFFICES ASSUME lastSuccess' # None, NEW g \in Files, Waits(g)'
               PROVE  Ready(g)' + MaxPass >= lastSuccess'
  BY DEF SuccessInv
<1>2. CASE lastSuccess' = lastSuccess
  <2>1. lastSuccess \in Nat /\ lastSuccess <= now /\ MaxPass \in Nat /\ now \in Nat
    BY <1>1, <1>2, Numbers DEF ClockInv, TypeOK
  <2>2. CASE Waits(g) /\ Ready(g)' = Ready(g)
    BY <1>1, <1>2, <2>2 DEF SuccessInv
  <2>3. CASE Ready(g)' \in Nat /\ Ready(g)' >= now
    BY <1>2, <2>1, <2>3
  <2>4. QED
    BY <1>1, <2>2, <2>3, WaitsStep
<1>3. CASE WriteRun /\ ~pass.aborted
  <2>1. /\ pass.pc = "run" /\ pass.todo = {} /\ lastSuccess' = now /\ UNCHANGED <<row, since>>
    BY <1>3 DEF WriteRun, RunSucceeds, WaveInv
  <2>2. Waits(g) /\ Ready(g)' = Ready(g)
    BY <1>1, <2>1 DEF Waits, OverCap, Ready
  <2>3. Ready(g) >= pass.started /\ now <= pass.started + MaxPass
    BY <1>3, <2>1, <2>2 DEF SendInv, ClockInv, Sending
  <2>4. Ready(g) \in Nat /\ pass.started \in Nat /\ MaxPass \in Nat /\ now \in Nat
    BY <2>2, Numbers DEF Waits
  <2>5. Ready(g) + MaxPass >= now
    BY <2>3, <2>4
  <2>6. QED
    BY <2>1, <2>2, <2>5
<1>4. CASE WriteRun /\ pass.aborted
  BY <1>2, <1>4 DEF WriteRun, RunSucceeds
<1>5. QED
  BY <1>2, <1>3, <1>4 DEF Next, PassNext, Start, Ingest, Select, Commit, Authenticate, WaveEnd, Reauth, SendAlert, Fail,
     Deliver, Retry, Tick, vars

\* A pass leaves a wave with nothing to do, or aborted.
LEMMA WaveStep ==
  ASSUME TypeOK, WaveInv, [Next]_vars
  PROVE  WaveInv'
<1> USE DEF WaveInv
<1>1. CASE Start
  BY <1>1 DEF Start, Idle
<1>2. CASE Select
  BY <1>2 DEF Select, TypeOK
<1>3. CASE Authenticate
  <2>1. CASE pass' = [pass EXCEPT !.pc = "send"] /\ UNCHANGED summary
    BY <1>3, <2>1 DEF Authenticate, TypeOK
  <2>2. CASE /\ pass' = [pass EXCEPT !.pc = "run", !.aborted = TRUE]
             /\ summary' = [summary EXCEPT !.errors = TRUE]
    <3>1. pass'.pc = "run" /\ pass'.aborted /\ pass'.final = pass.final
          /\ pass'.expired = pass.expired /\ summary'.errors
      BY <2>2 DEF TypeOK
    <3>2. QED
      BY <1>3, <3>1 DEF Authenticate
  <2>3. QED
    BY <1>3, <2>1, <2>2 DEF Authenticate
<1>4. CASE WaveEnd
  BY <1>4 DEF WaveEnd, TypeOK
<1>5. CASE Reauth
  <2>1. CASE pass' = [pass EXCEPT !.pc = "send", !.todo = pass.expired, !.expired = {},
                                  !.final = TRUE]
    BY <2>1 DEF TypeOK
  <2>2. CASE pass' = [pass EXCEPT !.pc = "run"] /\ summary'.errors
    <3>1. pass'.pc = "run" /\ pass'.aborted = pass.aborted /\ pass'.final = pass.final
          /\ pass'.expired = pass.expired /\ pass'.todo = pass.todo
      BY <2>2 DEF TypeOK
    <3>2. pass.pc = "reauth"
      BY <1>5 DEF Reauth
    <3>3. QED
      BY <2>2, <3>1, <3>2
  <2>3. summary \in SummaryType
    BY DEF TypeOK, SummaryType
  <2>4. QED
    BY <1>5, <2>1, <2>2, <2>3 DEF Reauth, SummaryType
<1>6. CASE WriteRun
  BY <1>6 DEF WriteRun, TypeOK
<1>7. CASE SendAlert \/ Fail
  BY <1>7 DEF SendAlert, Fail, Idle
<1>8. ASSUME NEW f \in Files, Ingest(f)
      PROVE  WaveInv'
  BY <1>8 DEF Ingest, TypeOK
<1>9. ASSUME NEW f \in Files, NEW res \in SendResults, NEW dropped \in BOOLEAN,
             NEW stop \in BOOLEAN, Commit(f, res, dropped, stop)
      PROVE  WaveInv'
  BY <1>9 DEF Commit, TypeOK
<1>10. CASE UNCHANGED <<pass, report>>
  BY <1>10
<1>11. QED
  BY <1>1, <1>2, <1>3, <1>4, <1>5, <1>6, <1>7, <1>8, <1>9, <1>10 DEF Next, PassNext, Tick,
     Deliver, Retry, vars

\* Only a commit makes a record fail.
LEMMA FailedStep ==
  ASSUME TypeOK, WaveInv, FailedInv, [Next]_vars
  PROVE  FailedInv'
<1>1. SUFFICES ASSUME pass'.pc \in Sending, ~pass'.aborted, NEW g \in Files,
                      row'[g].status = "failed", row'[g].attempts < RetryCap
               PROVE  g \in pass'.todo \cup troubled'
  BY DEF FailedInv
<1>2. CASE Select
  BY <1>1, <1>2 DEF Select, Unsettled, Sendable, TypeOK
<1>3. CASE Authenticate \/ WaveEnd \/ WriteRun
  BY <1>1, <1>3 DEF Authenticate, WaveEnd, WriteRun, FailedInv, TypeOK, Sending
<1>4. CASE Reauth
  BY <1>1, <1>4 DEF Reauth, FailedInv, WaveInv, TypeOK, Sending
<1>5. CASE Start \/ SendAlert \/ Fail
  <2>1. pass'.pc = "ingest" \/ pass'.pc = "idle"
    <3>1. CASE Start
      BY <3>1 DEF Start, Idle
    <3>2. CASE SendAlert \/ Fail
      BY <3>2 DEF SendAlert, Fail, Idle
    <3>3. QED
      BY <1>5, <3>1, <3>2
  <2>2. QED
    BY <1>1, <2>1 DEF Sending
<1>6. ASSUME NEW f \in Files, Ingest(f)
      PROVE  FALSE
  BY <1>1, <1>6 DEF Ingest, Sending, TypeOK
<1>7. ASSUME NEW f \in Files, NEW res \in SendResults, NEW dropped \in BOOLEAN,
             NEW stop \in BOOLEAN, Commit(f, res, dropped, stop)
      PROVE  g \in pass'.todo \cup troubled'
  <2>1. /\ pass.pc \in Sending /\ ~pass.aborted /\ pass'.todo = pass.todo \ {f}
        /\ row'[f].status = res.status
    BY <1>1, <1>7 DEF Commit, Sending, TypeOK
  <2>2. troubled' = IF res.status = "sent" /\ ~dropped THEN troubled \ {f} ELSE troubled \cup {f}
    BY <1>7 DEF Commit
  <2>3. CASE g = f
    BY <1>1, <2>1, <2>2, <2>3
  <2>4. CASE g # f
    <3>1. row'[g] = row[g]
      BY <1>7, <2>4 DEF Commit, TypeOK
    <3>2. g \in pass.todo \cup troubled
      BY <1>1, <2>1, <3>1 DEF FailedInv
    <3>3. QED
      BY <2>1, <2>2, <2>4, <3>2
  <2>5. QED
    BY <2>3, <2>4
<1>8. ASSUME NEW f \in Files, Retry(f)
      PROVE  g \in pass'.todo \cup troubled'
  <2>1. row'[f].status = "pending"
    BY <1>8 DEF Retry, TypeOK
  <2>2. g # f
    BY <1>1, <2>1
  <2>3. row'[g] = row[g] /\ UNCHANGED <<pass, report>>
    BY <1>8, <2>2 DEF Retry, TypeOK
  <2>4. QED
    BY <1>1, <2>3 DEF FailedInv
<1>9. CASE UNCHANGED <<row, pass, report>>
  BY <1>1, <1>9 DEF FailedInv
<1>10. QED
  BY <1>2, <1>3, <1>4, <1>5, <1>6, <1>7, <1>8, <1>9 DEF Next, PassNext, Tick, Deliver, vars

\* What a commit meets is counted, or waits for the second wave.
LEMMA NewsStep ==
  ASSUME TypeOK, WaveInv, NewsInv, [Next]_vars
  PROVE  NewsInv'
<1>0. summary \in SummaryType
  BY DEF TypeOK, SummaryType
<1>1. CASE Start
  BY <1>1 DEF Start, Idle, NewsInv
<1>2. CASE Select
  BY <1>2 DEF Select, NewsInv, Alarm, Awaiting, WaveInv, TypeOK
<1>3. CASE Authenticate
  BY <1>0, <1>3 DEF Authenticate, NewsInv, Alarm, Awaiting, TypeOK, SummaryType
<1>4. CASE WaveEnd
  BY <1>0, <1>4 DEF WaveEnd, NewsInv, Alarm, Awaiting, TypeOK, SummaryType
<1>5. CASE Reauth
  <2>1. CASE pass' = [pass EXCEPT !.pc = "send", !.todo = pass.expired, !.expired = {},
                                  !.final = TRUE] /\ UNCHANGED summary
    <3>1. Awaiting' = pass.expired /\ Awaiting = pass.expired
      BY <1>5, <2>1 DEF Reauth, Awaiting, WaveInv, TypeOK
    <3>2. troubled' = troubled /\ Alarm' = Alarm /\ pass'.pc = "send"
      BY <1>5, <2>1 DEF Reauth, Alarm, TypeOK
    <3>3. QED
      BY <3>1, <3>2 DEF NewsInv
  <2>2. CASE pass'.pc = "run" /\ summary'.errors = TRUE
    BY <2>2 DEF NewsInv, Alarm
  <2>3. QED
    BY <1>0, <1>5, <2>1, <2>2 DEF Reauth, TypeOK, SummaryType
<1>6. CASE WriteRun
  BY <1>6 DEF WriteRun, NewsInv, Alarm, Awaiting, TypeOK
<1>7. CASE SendAlert \/ Fail
  BY <1>7 DEF SendAlert, Fail, NewsInv
<1>8. ASSUME NEW f \in Files, Ingest(f)
      PROVE  NewsInv'
  <2>1. Awaiting' = Awaiting /\ pass'.pc = "ingest"
    BY <1>8 DEF Ingest, Awaiting, WaveInv, TypeOK
  <2>2. CASE kind[f] = "line"
    <3>1. summary' = summary /\ troubled' = troubled
      BY <1>0, <1>8, <2>2 DEF Ingest, SummaryType
    <3>2. QED
      BY <2>1, <3>1 DEF NewsInv, Alarm
  <2>3. CASE kind[f] # "line"
    <3>1. summary'.empty = summary.empty + 1
      BY <1>0, <1>8, <2>3 DEF Ingest, SummaryType
    <3>2. summary.empty \in Nat
      BY <1>0 DEF SummaryType
    <3>3. Alarm'
      BY <3>1, <3>2 DEF Alarm
    <3>4. QED
      BY <2>1, <3>3 DEF NewsInv
  <2>4. QED
    BY <2>2, <2>3
<1>9. ASSUME NEW f \in Files, NEW res \in SendResults, NEW dropped \in BOOLEAN,
             NEW stop \in BOOLEAN, Commit(f, res, dropped, stop)
      PROVE  NewsInv'
  <2>1. /\ pass.pc = "send" /\ pass'.pc = "send" /\ pass'.todo = pass.todo \ {f}
        /\ pass'.final = pass.final
        /\ pass'.expired = IF res.sessionExpired /\ ~pass.final THEN pass.expired \cup {f}
                           ELSE pass.expired
    BY <1>9 DEF Commit, TypeOK
  <2>2. troubled' = IF res.status = "sent" /\ ~dropped THEN troubled \ {f} ELSE troubled \cup {f}
    BY <1>9 DEF Commit
  <2>3. SUFFICES ASSUME ~Alarm'
                 PROVE  troubled' \subseteq Awaiting'
    BY <2>1 DEF NewsInv
  <2>4. CASE Counted(res)
    <3>1. summary' = Tally(res, dropped)
      BY <1>9, <2>4 DEF Commit
    <3>2. summary' \in SummaryType
      BY <3>1, TallyType
    <3>3. summary'.failed = 0 /\ summary'.rejected = 0 /\ summary'.dropped = 0
          /\ summary'.empty = 0 /\ ~summary'.errors
      BY <2>3, <3>2 DEF Alarm, SummaryType
    <3>4. res.status = "sent" /\ ~dropped
      BY <3>1, <3>3, TallyType
    <3>5. summary' = summary
      BY <1>0, <3>1, <3>4 DEF Tally, SummaryType
    <3>6. troubled \subseteq Awaiting
      BY <2>3, <3>5 DEF NewsInv, Alarm
    <3>7. Awaiting \ {f} \subseteq Awaiting'
      BY <2>1 DEF Awaiting
    <3>8. QED
      BY <2>2, <3>4, <3>6, <3>7
  <2>5. CASE ~Counted(res)
    <3>1. summary' = summary /\ res.sessionExpired /\ ~pass.final
      BY <1>9, <2>5 DEF Commit, Counted
    <3>2. troubled \subseteq Awaiting
      BY <2>3, <3>1 DEF NewsInv, Alarm
    <3>3. Awaiting = pass.expired /\ Awaiting' = pass.expired \cup {f}
      BY <2>1, <3>1 DEF Awaiting
    <3>4. QED
      BY <2>2, <3>2, <3>3
  <2>6. QED
    BY <2>4, <2>5
<1>10. CASE UNCHANGED <<pass, report>>
  BY <1>10 DEF NewsInv, Alarm, Awaiting
<1>11. QED
  BY <1>1, <1>2, <1>3, <1>4, <1>5, <1>6, <1>7, <1>8, <1>9, <1>10 DEF Next, PassNext, Tick,
     Deliver, Retry, vars

-----------------------------------------------------------------------------
\* The inductive invariant of the files, the passes and the runs.
THEOREM HealthInvariant == Spec => []HInv
<1>1. Init => HInv
  <2>1. SUFFICES ASSUME Init
                 PROVE  HInv
    OBVIOUS
  <2>2. 0 \in Time
    BY HealthAssumption DEF Time
  <2>3. /\ row \in [Files -> [status   : RecordStatus \cup {"none", "empty"},
                              attempts : Nat, created : Time]]
        /\ since \in [Files -> Time \cup {None}]
    BY <2>1, <2>2 DEF Init, NoRow
  <2>4. /\ pass \in PassType /\ summary \in SummaryType
        /\ pass.pc = "idle" /\ pass.expired = {} /\ ~pass.final /\ ~pass.aborted
    BY <2>1, <2>2 DEF Init, Idle, EmptySummary, PassType, SummaryType
  <2>5. TypeOK
    BY <2>1, <2>2, <2>3, <2>4 DEF Init, TypeOK, PassType, SummaryType
  <2>6. ClockInv /\ IngestInv /\ SendInv /\ SuccessInv /\ WaveInv /\ FailedInv /\ NewsInv
    BY <2>1, <2>4 DEF Init, ClockInv, IngestInv, SendInv, SuccessInv, WaveInv, FailedInv,
       NewsInv, Sending
  <2>7. QED
    BY <2>5, <2>6 DEF HInv
<1>2. HInv /\ [Next]_vars => HInv'
  BY TypeStep, ClockStep, IngestStep, SendStep, SuccessStep, WaveStep, FailedStep, NewsStep
     DEF HInv
<1>3. QED
  BY <1>1, <1>2, PTL DEF Spec

\* While GET /health says "ok", nothing waits longer than 25 hours and one pass, whatever
\* passes abort, raise or are killed (the 25h rule of api.py and last_successful_run).
THEOREM OkMeansNothingWaits == Spec => []HealthyLeavesNothingWaiting
<1>1. HInv => HealthyLeavesNothingWaiting
  <2>1. SUFFICES ASSUME HInv, Healthy, NEW f \in Files, since[f] # None
                 PROVE  Ready(f) + MaxPass + StaleAfter >= now
    BY DEF HealthyLeavesNothingWaiting
  <2>2. lastSuccess # None /\ ~(now - lastSuccess > StaleAfter) /\ Waits(f)
    BY <2>1 DEF Healthy, RunIsStale, Waits
  <2>3. Ready(f) + MaxPass >= lastSuccess
    BY <2>1, <2>2 DEF HInv, SuccessInv
  <2>4. /\ Ready(f) \in Nat /\ MaxPass \in Nat /\ StaleAfter \in Nat /\ now \in Nat
        /\ lastSuccess \in Nat
    BY <2>1, <2>2, Numbers DEF HInv, TypeOK
  <2>5. QED
    BY <2>2, <2>3, <2>4
<1>2. QED
  BY <1>1, HealthInvariant, PTL

\* A pass that ends without an alert has met no failure, rejection, dropped component or
\* empty file in either wave, was not aborted, and leaves nothing to send but what came or
\* was reset since it began (commit and send_records, uploader.py 190-301; build_alert).
THEOREM SilenceIsDeserved == Spec => []SilenceMeansAllIsWell
<1>1. HInv => SilenceMeansAllIsWell
  <2>1. SUFFICES ASSUME HInv, pass.pc = "alert", ~Alarm
                 PROVE  /\ troubled = {} /\ ~pass.aborted
                        /\ \A f \in Files :
                             /\ row[f].status = "failed" => row[f].attempts >= RetryCap
                             /\ since[f] # None /\ f \notin OverCap => Ready(f) >= pass.started
    BY DEF SilenceMeansAllIsWell
  <2>2. ~summary.errors
    BY <2>1 DEF Alarm
  <2>3. ~pass.aborted /\ pass.expired = {} /\ pass.todo = {}
    BY <2>1, <2>2 DEF HInv, WaveInv
  <2>4. troubled = {}
    BY <2>1, <2>3 DEF HInv, NewsInv, Awaiting
  <2>5. ASSUME NEW f \in Files, row[f].status = "failed"
        PROVE  row[f].attempts >= RetryCap
    <3>1. ~(row[f].attempts < RetryCap)
      BY <2>1, <2>3, <2>4, <2>5 DEF HInv, FailedInv, Sending
    <3>2. row[f].attempts \in Nat /\ RetryCap \in Nat
      BY <2>1, Numbers DEF HInv
    <3>3. QED
      BY <3>1, <3>2
  <2>6. ASSUME NEW f \in Files, since[f] # None, f \notin OverCap
        PROVE  Ready(f) >= pass.started
    BY <2>1, <2>3, <2>6 DEF HInv, SendInv, Waits, Sending
  <2>7. QED
    BY <2>3, <2>4, <2>5, <2>6
<1>2. QED
  BY <1>1, HealthInvariant, PTL
=============================================================================
