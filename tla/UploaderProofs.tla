--------------------------- MODULE UploaderProofs ---------------------------
(***************************************************************************)
(* What is proved of Uploader for every set of files, records, passes and  *)
(* requests, every retry cap and every number of faults.                   *)
(***************************************************************************)
EXTENDS Uploader, TLAPS

(***************************************************************************)
(* The inductive invariant.  Only the holder of the flock is inside a      *)
(* pass; what a pass has in hand is in hand once, during its send stage,   *)
(* and after an exception there it keeps no answer; rows of the two tables *)
(* appear together; and the file a pass or request is about to write has a *)
(* row.                                                                    *)
(***************************************************************************)
LockInv == \A p \in Passes : pc[p] # "idle" => lock = p

HandInv ==
  \A p \in Passes :
     /\ pc[p] \notin {"send", "drain"} =>
           todo[p] = {} /\ flying[p] = {} /\ answers[p] = {} /\ again[p] = {}
     /\ pc[p] = "drain" => answers[p] = {}

DisjointInv ==
  \A p \in Passes :
     /\ todo[p] \cap flying[p] = {}
     /\ todo[p] \cap again[p] = {}
     /\ flying[p] \cap again[p] = {}
     /\ \A x \in answers[p] : x[1] \notin todo[p] \cup flying[p] \cup again[p]
     /\ \A x, y \in answers[p] : x[1] = y[1] => x = y

RowInv == \A r \in Records : status[r] = "none" <=> fstatus[FileOf[r]] = "none"

FreshInv == \A r \in Records : status[r] \in {"none", "pending"} => attempts[r] = 0

TargetInv ==
  /\ \A p \in Passes :
        /\ pc[p] \in {"read", "write", "archive", "rename", "mark"} => work[p] \subseteq Ingested
        /\ pc[p] \in {"write", "rename", "mark"} => cur[p] \in Ingested
        /\ touched[p] \subseteq Ingested
  /\ \A q \in Requests : pc[q] # "idle" => cur[q] \in Ingested

IInv ==
  /\ TypeOK
  /\ LockInv
  /\ HandInv
  /\ DisjointInv
  /\ InHandIsSendable
  /\ RowInv
  /\ FreshInv
  /\ RetryCapRespected
  /\ TargetInv

-----------------------------------------------------------------------------
(***************************************************************************)
(* The pure decisions of app/db.py.                                        *)
(***************************************************************************)

\* recompute_file_status always writes a file status.
LEMMA AggregateIsStatus ==
  ASSUME NEW S
  PROVE  AggregateStatus(S) \in FileStatus
BY DEF AggregateStatus, FileStatus, RecordStatus, Terminal

\* recompute_file_status writes "sent" only if every status it read was "sent".
LEMMA AggregateSent ==
  ASSUME NEW S, AggregateStatus(S) = "sent"
  PROVE  S \subseteq {"sent"}
BY DEF AggregateStatus, Terminal

\* A stale session is always reported as network-like.
LEMMA StaleIsNetwork ==
  ASSUME NEW res \in SendResults, res.sessionExpired
  PROVE  res.isNetworkError
BY DEF SendResults, BureauResults, Accepted, Refused, Garbled, Unreachable,
       Stale, TooLarge, Result

\* What an answer carries: a status, and a network-like one always a failure.
LEMMA ResultFacts ==
  ASSUME NEW res \in SendResults
  PROVE  /\ res.status \in {"sent", "failed", "rejected"}
         /\ res.isNetworkError => res.status = "failed"
BY DEF SendResults, BureauResults, Accepted, Refused, Garbled, Unreachable,
       Stale, TooLarge, Result

\* update_record_result keeps a row that was open within the cap: no attempt
\* goes beyond it, and a network-like failure leaves the count alone.
LEMMA CapLemma ==
  ASSUME NEW a \in Nat, NEW s, NEW res \in SendResults,
         RetryCap \in Nat \ {0},
         a <= RetryCap, s = "pending" => a = 0,
         Sendable(s, a, RetryCap)
  PROVE  /\ AttemptsAfter(a, res) \in Nat
         /\ AttemptsAfter(a, res) <= RetryCap
<1>1. a + 1 <= RetryCap
  BY DEF Sendable
<1>2. QED
  BY <1>1, ResultFacts DEF AttemptsAfter

-----------------------------------------------------------------------------
\* The initial state satisfies the invariant.
LEMMA InitIInv == Init => IInv
<1> SUFFICES ASSUME Init PROVE IInv
  OBVIOUS
<1> USE UploaderAssumption
<1>1. TypeOK
  BY DEF Init, TypeOK, PassPc, RequestPc, Actors
<1>2. LockInv /\ HandInv /\ DisjointInv
  BY DEF Init, LockInv, HandInv, DisjointInv, Actors
<1>3. InHandIsSendable
  BY DEF Init, InHandIsSendable, InHand, Answered
<1>4. RowInv /\ FreshInv /\ RetryCapRespected /\ TargetInv
  BY DEF Init, RowInv, FreshInv, RetryCapRespected, TargetInv, Actors
<1>5. QED
  BY <1>1, <1>2, <1>3, <1>4 DEF IInv

\* What recompute_file_status reads are record statuses.
LEMMA StatusesType ==
  ASSUME TypeOK, NEW f
  PROVE  Statuses(f) \subseteq RecordStatus \cup {"none"}
BY DEF TypeOK, Statuses, RecordsOf

\* A worker returns one of the modelled results.
LEMMA AnswerableType == \A r : Answerable(r) \subseteq SendResults
BY DEF Answerable, SendResults

\* Every step keeps the types.
LEMMA TypeStep == IInv /\ [Next]_vars => TypeOK'
<1> SUFFICES ASSUME IInv, [Next]_vars PROVE TypeOK'
  OBVIOUS
<1> USE UploaderAssumption DEF IInv, TypeOK, Actors, Goto, dbVars, fsVars, sendVars, ghostVars
<1>1. ASSUME NEW f \in Files, Drop(f) PROVE TypeOK'
  BY <1>1 DEF Drop, PassPc
<1>2. ASSUME NEW p \in Passes, Start(p) PROVE TypeOK'
  BY <1>2 DEF Start, PassPc
<1>3. ASSUME NEW p \in Passes, Scan(p) PROVE TypeOK'
  BY <1>3 DEF Scan, PassPc
<1>4. ASSUME NEW p \in Passes, NEW n \in Names, Ingest(p, n) PROVE TypeOK'
  <2>1. fstatus' \in [Files -> FileStatus \cup {"none"}]
    BY <1>4 DEF Ingest, FileStatus, RecordStatus
  <2>2. status' \in [Records -> RecordStatus \cup {"none"}]
    BY <1>4 DEF Ingest, RecordStatus
  <2>3. QED
    BY <1>4, <2>1, <2>2 DEF Ingest
<1>5. ASSUME NEW p \in Passes, Select(p) PROVE TypeOK'
  BY <1>5 DEF Select, PassPc
<1>6. ASSUME NEW p \in Passes, NEW r \in Records, Submit(p, r) PROVE TypeOK'
  BY <1>6 DEF Submit, PassPc
<1>7. ASSUME NEW p \in Passes, NEW r \in Records, SendOne(p, r) PROVE TypeOK'
  <2>1. PICK res \in SendResults :
          answers' \in {answers, [answers EXCEPT ![p] = @ \cup {<<r, res>>}]}
    BY <1>7, AnswerableType DEF SendOne
  <2>2. lost' \subseteq Records /\ accepted' \in [Records -> 0..2]
    BY <1>7 DEF SendOne, Bureau
  <2>3. answers' \in [Passes -> SUBSET (Records \X SendResults)]
    <3>1. <<r, res>> \in Records \X SendResults
      OBVIOUS
    <3>2. answers[p] \cup {<<r, res>>} \subseteq Records \X SendResults
      BY <3>1
    <3>3. QED
      BY <2>1, <3>2
  <2>4. QED
    BY <1>7, <2>2, <2>3 DEF SendOne
<1>8. ASSUME NEW p \in Passes, NEW r \in Records, NEW res \in SendResults,
             Commit(p, r, res)
      PROVE  TypeOK'
  BY <1>8, ResultFacts DEF Commit, AttemptsAfter, RecordStatus
<1>9. ASSUME NEW p \in Passes, Resend(p) PROVE TypeOK'
  BY <1>9 DEF Resend, PassPc
<1>10. ASSUME NEW p \in Passes, SendEnd(p) PROVE TypeOK'
  <2>1. AbortFlag(p) \subseteq BOOLEAN
    BY DEF AbortFlag
  <2>2. PICK a \in BOOLEAN : aborted' = [aborted EXCEPT ![p] = a]
    BY <1>10, <2>1 DEF SendEnd
  <2>3. ToRecompute(p) \subseteq Files
    BY DEF ToRecompute, Ingested
  <2>4. aborted' \in [Passes -> BOOLEAN] /\ work' \in [Passes -> SUBSET (Names \cup Files)]
    BY <1>10, <2>2, <2>3 DEF SendEnd
  <2>5. QED
    BY <1>10, <2>4 DEF SendEnd, PassPc
<1>11. ASSUME NEW p \in Passes, NEW f \in Files, PassRead(p, f) PROVE TypeOK'
  BY <1>11, StatusesType DEF PassRead, RecomputeRead, PassPc
<1>12. ASSUME NEW p \in Passes, PassWrite(p) PROVE TypeOK'
  BY <1>12, AggregateIsStatus DEF PassWrite, RecomputeWrite, PassPc
<1>13. ASSUME NEW p \in Passes, ArchivePlan(p) PROVE TypeOK'
  BY <1>13 DEF ArchivePlan, Archivable, Ingested, PassPc
<1>14. ASSUME NEW p \in Passes, NEW f \in Files, ArchiveAbsent(p, f) PROVE TypeOK'
  BY <1>14 DEF ArchiveAbsent, PassPc
<1>15. ASSUME NEW p \in Passes, NEW f \in Files, ArchiveMatch(p, f) PROVE TypeOK'
  BY <1>15 DEF ArchiveMatch, PassPc
<1>16. ASSUME NEW p \in Passes, ArchiveMove(p) \/ ArchiveMark(p) PROVE TypeOK'
  <2>1. cur[p] \in Files
    BY <1>16 DEF ArchiveMove, ArchiveMark, TargetInv, Ingested
  <2>2. CASE ArchiveMark(p)
    BY <2>1, <2>2 DEF ArchiveMark, PassPc
  <2>3. CASE ArchiveMove(p)
    <3>1. NameOf[cur[p]] \in Names /\ inbox[NameOf[cur[p]]] \in Files \cup {NoFile}
      BY <2>1
    <3>2. /\ archivePlain' \in [Names -> Files \cup {NoFile}]
          /\ archiveSha' \in [Files -> Files \cup {NoFile}]
          /\ inbox' \in [Names -> Files \cup {NoFile}]
      BY <2>1, <2>3, <3>1 DEF ArchiveMove, Store
    <3>3. QED
      BY <2>3, <3>2 DEF ArchiveMove, PassPc
  <2>4. QED
    BY <1>16, <2>2, <2>3
<1>17. ASSUME NEW p \in Passes, Finish(p) PROVE TypeOK'
  BY <1>17 DEF Finish, Leave, PassPc
<1>18. ASSUME NEW p \in Passes, Drained(p) PROVE TypeOK'
  BY <1>18 DEF Drained, WriteErrorRun, Leave, PassPc
<1>19. ASSUME NEW p \in Passes, RaiseInWave(p) PROVE TypeOK'
  BY <1>19 DEF RaiseInWave, Dropped, PassPc
<1>20. ASSUME NEW p \in Passes, RaiseElsewhere(p) PROVE TypeOK'
  BY <1>20 DEF RaiseElsewhere, WriteErrorRun, Leave, PassPc
<1>21. ASSUME NEW p \in Passes, Crash(p) PROVE TypeOK'
  BY <1>21 DEF Crash, Leave, PassPc, Dropped
<1>22. ASSUME NEW q \in Requests, NEW f \in Files, RetryFile(q, f) PROVE TypeOK'
  BY <1>22 DEF RetryFile, Retry, ResetRecords, Resettable, RecordsOf, Ingested, PassPc, RequestPc, RecordStatus
<1>23. ASSUME NEW q \in Requests, NEW r \in Records, RetryRecord(q, r) PROVE TypeOK'
  BY <1>23 DEF RetryRecord, Retry, ResetRecords, Resettable, PassPc, RequestPc, RecordStatus
<1>24. ASSUME NEW q \in Requests, RequestRead(q) PROVE TypeOK'
  BY <1>24, StatusesType DEF RequestRead, RecomputeRead, PassPc, RequestPc
<1>25. ASSUME NEW q \in Requests, RequestWrite(q) PROVE TypeOK'
  BY <1>25, AggregateIsStatus DEF RequestWrite, RecomputeWrite, PassPc, RequestPc
<1>26. ASSUME NEW q \in Requests, RequestDies(q) PROVE TypeOK'
  BY <1>26 DEF RequestDies, PassPc, RequestPc
<1>27. ASSUME UNCHANGED vars PROVE TypeOK'
  BY <1>27 DEF vars
<1>28. QED
  BY <1>1, <1>2, <1>3, <1>4, <1>5, <1>6, <1>7, <1>8, <1>9, <1>10, <1>11, <1>12, <1>13, <1>14, <1>15, <1>16, <1>17, <1>18, <1>19, <1>20, <1>21, <1>22, <1>23, <1>24, <1>25, <1>26, <1>27 DEF Next, PassNext, PassFault, RequestNext

(***************************************************************************)
(* Which steps write the two tables at all.                                *)
(***************************************************************************)

\* The records table is written by ingestion, by commits and by retries only.
LEMMA RecordsWrittenBy ==
  ASSUME [Next]_vars
  PROVE  \/ UNCHANGED <<status, attempts>>
         \/ \E p \in Passes, n \in Names : Ingest(p, n)
         \/ \E p \in Passes, r \in Records, res \in SendResults : Commit(p, r, res)
         \/ \E q \in Requests, f \in Files : RetryFile(q, f)
         \/ \E q \in Requests, r \in Records : RetryRecord(q, r)
BY SMTT(30) DEF Next, PassNext, PassFault, RequestNext, vars, dbVars, Drop, Start,
     Scan, Select, Submit, SendOne, Resend, SendEnd, PassRead, PassWrite,
     ArchivePlan, ArchiveAbsent, ArchiveMatch,
       ArchiveMove, ArchiveMark, Finish, Drained,
     RaiseInWave, RaiseElsewhere, Crash, WriteErrorRun, RequestRead,
     RequestWrite, RequestDies, RecomputeRead

\* files.status is written by ingestion and by the two recomputations only.
LEMMA FilesWrittenBy ==
  ASSUME [Next]_vars
  PROVE  \/ UNCHANGED fstatus
         \/ \E p \in Passes, n \in Names : Ingest(p, n)
         \/ \E p \in Passes : PassWrite(p)
         \/ \E q \in Requests : RequestWrite(q)
<1> USE DEF dbVars
<1>1. ASSUME NEW p \in Passes, PassNext(p), ~PassWrite(p),
             \A n \in Names : ~Ingest(p, n)
      PROVE  UNCHANGED fstatus
  BY <1>1 DEF PassNext, Start, Scan, Select, Submit, SendOne, Commit, Resend,
       SendEnd, PassRead, ArchivePlan, ArchiveAbsent, ArchiveMatch,
       ArchiveMove, ArchiveMark,
       Finish, Drained, WriteErrorRun
<1>2. ASSUME NEW p \in Passes, PassFault(p)
      PROVE  UNCHANGED fstatus
  BY <1>2 DEF PassFault, RaiseInWave, RaiseElsewhere, Crash, WriteErrorRun
<1>3. ASSUME NEW q \in Requests, RequestNext(q), ~RequestWrite(q)
      PROVE  UNCHANGED fstatus
  BY <1>3 DEF RequestNext, Retry, RetryFile, RetryRecord, RequestRead, RequestDies
<1>4. ASSUME NEW f \in Files, Drop(f)
      PROVE  UNCHANGED fstatus
  BY <1>4 DEF Drop
<1>5. QED
  BY <1>1, <1>2, <1>3, <1>4 DEF Next, vars

\* Only the holder of the flock is inside a pass.
LEMMA LockStep ==
  ASSUME TypeOK, LockInv, [Next]_vars
  PROVE  LockInv'
<1> USE UploaderAssumption DEF TypeOK, LockInv, Actors, Goto, dbVars, fsVars,
      sendVars, ghostVars
<1>1. ASSUME NEW f \in Files, Drop(f)
      PROVE  LockInv'
  BY <1>1 DEF Drop
<1>2. ASSUME NEW p \in Passes, Start(p)
      PROVE  LockInv'
  BY <1>2 DEF Start
<1>3. ASSUME NEW p \in Passes, Scan(p)
      PROVE  LockInv'
  BY <1>3 DEF Scan
<1>4. ASSUME NEW p \in Passes, NEW n \in Names, Ingest(p, n)
      PROVE  LockInv'
  BY <1>4 DEF Ingest
<1>5. ASSUME NEW p \in Passes, Select(p)
      PROVE  LockInv'
  BY <1>5 DEF Select
<1>6. ASSUME NEW p \in Passes, NEW r \in Records, Submit(p, r)
      PROVE  LockInv'
  BY <1>6 DEF Submit
<1>7. ASSUME NEW p \in Passes, NEW r \in Records, SendOne(p, r)
      PROVE  LockInv'
  BY <1>7 DEF SendOne
<1>8. ASSUME NEW p \in Passes, NEW r \in Records, NEW res \in SendResults, Commit(p, r, res)
      PROVE  LockInv'
  BY <1>8 DEF Commit
<1>9. ASSUME NEW p \in Passes, Resend(p)
      PROVE  LockInv'
  BY <1>9 DEF Resend
<1>10. ASSUME NEW p \in Passes, SendEnd(p)
       PROVE  LockInv'
  BY <1>10 DEF SendEnd
<1>11. ASSUME NEW p \in Passes, NEW f \in Files, PassRead(p, f)
       PROVE  LockInv'
  BY <1>11 DEF PassRead, RecomputeRead
<1>12. ASSUME NEW p \in Passes, PassWrite(p)
       PROVE  LockInv'
  BY <1>12 DEF PassWrite, RecomputeWrite
<1>13. ASSUME NEW p \in Passes, ArchivePlan(p)
       PROVE  LockInv'
  BY <1>13 DEF ArchivePlan
<1>14. ASSUME NEW p \in Passes, NEW f \in Files, ArchiveAbsent(p, f)
       PROVE  LockInv'
  BY <1>14 DEF ArchiveAbsent
<1>15. ASSUME NEW p \in Passes, NEW f \in Files, ArchiveMatch(p, f)
       PROVE  LockInv'
  BY <1>15 DEF ArchiveMatch
<1>16. ASSUME NEW p \in Passes, ArchiveMove(p) \/ ArchiveMark(p)
       PROVE  LockInv'
  BY <1>16 DEF ArchiveMove, Store, ArchiveMark
<1>17. ASSUME NEW p \in Passes, Finish(p)
       PROVE  LockInv'
  BY <1>17 DEF Finish, Leave
<1>18. ASSUME NEW p \in Passes, Drained(p)
       PROVE  LockInv'
  BY <1>18 DEF Drained, WriteErrorRun, Leave
<1>19. ASSUME NEW p \in Passes, RaiseInWave(p)
       PROVE  LockInv'
  BY <1>19 DEF RaiseInWave
<1>20. ASSUME NEW p \in Passes, RaiseElsewhere(p)
       PROVE  LockInv'
  BY <1>20 DEF RaiseElsewhere, WriteErrorRun, Leave
<1>21. ASSUME NEW p \in Passes, Crash(p)
       PROVE  LockInv'
  BY <1>21 DEF Crash, Leave
<1>22. ASSUME NEW q \in Requests, NEW f \in Files, RetryFile(q, f)
       PROVE  LockInv'
  BY <1>22 DEF RetryFile, Retry
<1>23. ASSUME NEW q \in Requests, NEW r \in Records, RetryRecord(q, r)
       PROVE  LockInv'
  BY <1>23 DEF RetryRecord, Retry
<1>24. ASSUME NEW q \in Requests, RequestRead(q)
       PROVE  LockInv'
  BY <1>24 DEF RequestRead, RecomputeRead
<1>25. ASSUME NEW q \in Requests, RequestWrite(q)
       PROVE  LockInv'
  BY <1>25 DEF RequestWrite, RecomputeWrite
<1>26. ASSUME NEW q \in Requests, RequestDies(q)
       PROVE  LockInv'
  BY <1>26 DEF RequestDies
<1>27. ASSUME UNCHANGED vars PROVE LockInv'
  BY <1>27 DEF vars
<1>28. QED
  BY <1>1, <1>2, <1>3, <1>4, <1>5, <1>6, <1>7, <1>8, <1>9, <1>10, <1>11,
     <1>12, <1>13, <1>14, <1>15, <1>16, <1>17, <1>18, <1>19, <1>20, <1>21,
     <1>22, <1>23, <1>24, <1>25, <1>26, <1>27 DEF Next, PassNext, PassFault,
     RequestNext

\* A pass has records in hand only during its send stage.
LEMMA HandStep ==
  ASSUME TypeOK, HandInv, [Next]_vars
  PROVE  HandInv'
<1> USE UploaderAssumption DEF TypeOK, HandInv, Actors, Goto, dbVars, fsVars,
      sendVars, ghostVars
<1>1. ASSUME NEW f \in Files, Drop(f)
      PROVE  HandInv'
  BY <1>1 DEF Drop
<1>2. ASSUME NEW p \in Passes, Start(p)
      PROVE  HandInv'
  BY <1>2 DEF Start
<1>3. ASSUME NEW p \in Passes, Scan(p)
      PROVE  HandInv'
  BY <1>3 DEF Scan
<1>4. ASSUME NEW p \in Passes, NEW n \in Names, Ingest(p, n)
      PROVE  HandInv'
  BY <1>4 DEF Ingest
<1>5. ASSUME NEW p \in Passes, Select(p)
      PROVE  HandInv'
  BY <1>5 DEF Select
<1>6. ASSUME NEW p \in Passes, NEW r \in Records, Submit(p, r)
      PROVE  HandInv'
  BY <1>6 DEF Submit
<1>7. ASSUME NEW p \in Passes, NEW r \in Records, SendOne(p, r)
      PROVE  HandInv'
  BY <1>7 DEF SendOne
<1>8. ASSUME NEW p \in Passes, NEW r \in Records, NEW res \in SendResults, Commit(p, r, res)
      PROVE  HandInv'
  BY <1>8 DEF Commit
<1>9. ASSUME NEW p \in Passes, Resend(p)
      PROVE  HandInv'
  BY <1>9 DEF Resend
<1>10. ASSUME NEW p \in Passes, SendEnd(p)
       PROVE  HandInv'
  BY <1>10 DEF SendEnd, WaveDrained
<1>11. ASSUME NEW p \in Passes, NEW f \in Files, PassRead(p, f)
       PROVE  HandInv'
  BY <1>11 DEF PassRead, RecomputeRead
<1>12. ASSUME NEW p \in Passes, PassWrite(p)
       PROVE  HandInv'
  BY <1>12 DEF PassWrite, RecomputeWrite
<1>13. ASSUME NEW p \in Passes, ArchivePlan(p)
       PROVE  HandInv'
  BY <1>13 DEF ArchivePlan
<1>14. ASSUME NEW p \in Passes, NEW f \in Files, ArchiveAbsent(p, f)
       PROVE  HandInv'
  BY <1>14 DEF ArchiveAbsent
<1>15. ASSUME NEW p \in Passes, NEW f \in Files, ArchiveMatch(p, f)
       PROVE  HandInv'
  BY <1>15 DEF ArchiveMatch
<1>16. ASSUME NEW p \in Passes, ArchiveMove(p) \/ ArchiveMark(p)
       PROVE  HandInv'
  BY <1>16 DEF ArchiveMove, Store, ArchiveMark
<1>17. ASSUME NEW p \in Passes, Finish(p)
       PROVE  HandInv'
  BY <1>17 DEF Finish, Leave
<1>18. ASSUME NEW p \in Passes, Drained(p)
       PROVE  HandInv'
  BY <1>18 DEF Drained, WriteErrorRun, Leave
<1>19. ASSUME NEW p \in Passes, RaiseInWave(p)
       PROVE  HandInv'
  BY <1>19 DEF RaiseInWave
<1>20. ASSUME NEW p \in Passes, RaiseElsewhere(p)
       PROVE  HandInv'
  BY <1>20 DEF RaiseElsewhere, WriteErrorRun, Leave
<1>21. ASSUME NEW p \in Passes, Crash(p)
       PROVE  HandInv'
  BY <1>21 DEF Crash, Leave
<1>22. ASSUME NEW q \in Requests, NEW f \in Files, RetryFile(q, f)
       PROVE  HandInv'
  BY <1>22 DEF RetryFile, Retry
<1>23. ASSUME NEW q \in Requests, NEW r \in Records, RetryRecord(q, r)
       PROVE  HandInv'
  BY <1>23 DEF RetryRecord, Retry
<1>24. ASSUME NEW q \in Requests, RequestRead(q)
       PROVE  HandInv'
  BY <1>24 DEF RequestRead, RecomputeRead
<1>25. ASSUME NEW q \in Requests, RequestWrite(q)
       PROVE  HandInv'
  BY <1>25 DEF RequestWrite, RecomputeWrite
<1>26. ASSUME NEW q \in Requests, RequestDies(q)
       PROVE  HandInv'
  BY <1>26 DEF RequestDies
<1>27. ASSUME UNCHANGED vars PROVE HandInv'
  BY <1>27 DEF vars
<1>28. QED
  BY <1>1, <1>2, <1>3, <1>4, <1>5, <1>6, <1>7, <1>8, <1>9, <1>10, <1>11,
     <1>12, <1>13, <1>14, <1>15, <1>16, <1>17, <1>18, <1>19, <1>20, <1>21,
     <1>22, <1>23, <1>24, <1>25, <1>26, <1>27 DEF Next, PassNext, PassFault,
     RequestNext

\* A record is in hand once.
LEMMA DisjointStep ==
  ASSUME TypeOK, HandInv, DisjointInv, [Next]_vars
  PROVE  DisjointInv'
<1> USE UploaderAssumption DEF TypeOK, HandInv, DisjointInv, Actors, Goto,
      dbVars, fsVars, sendVars, ghostVars
<1>1. ASSUME NEW f \in Files, Drop(f)
      PROVE  DisjointInv'
  BY <1>1 DEF Drop
<1>2. ASSUME NEW p \in Passes, Start(p)
      PROVE  DisjointInv'
  BY <1>2 DEF Start
<1>3. ASSUME NEW p \in Passes, Scan(p)
      PROVE  DisjointInv'
  BY <1>3 DEF Scan
<1>4. ASSUME NEW p \in Passes, NEW n \in Names, Ingest(p, n)
      PROVE  DisjointInv'
  BY <1>4 DEF Ingest
<1>5. ASSUME NEW p \in Passes, Select(p)
      PROVE  DisjointInv'
  BY <1>5 DEF Select
<1>6. ASSUME NEW p \in Passes, NEW r \in Records, Submit(p, r)
      PROVE  DisjointInv'
  BY <1>6 DEF Submit
<1>7. ASSUME NEW p \in Passes, NEW r \in Records, SendOne(p, r)
      PROVE  DisjointInv'
  <2>1. PICK res \in SendResults :
           answers' \in {answers, [answers EXCEPT ![p] = answers[p] \cup {<<r, res>>}]}
    BY <1>7, AnswerableType DEF SendOne
  <2>2. /\ r \in flying[p]
        /\ flying' = [flying EXCEPT ![p] = flying[p] \ {r}]
        /\ UNCHANGED <<todo, again>>
    BY <1>7 DEF SendOne
  <2>3. \A g \in Passes : \A x \in answers'[g] :
           x \in answers[g] \/ (g = p /\ x = <<r, res>>)
    BY <2>1
  <2>4. \A x \in answers[p] : x[1] # r
    BY <2>2
  <2>5. ASSUME NEW g \in Passes, NEW x \in answers'[g], NEW y \in answers'[g],
               x[1] = y[1]
        PROVE  x = y
    <3>1. CASE x \in answers[g] /\ y \in answers[g]
      BY <2>5, <3>1
    <3>2. CASE g = p /\ x = <<r, res>>
      <4>1. y[1] = r
        BY <2>5, <3>2
      <4>2. QED
        BY <2>3, <2>4, <3>2, <4>1
    <3>3. CASE g = p /\ y = <<r, res>>
      <4>1. x[1] = r
        BY <2>5, <3>3
      <4>2. QED
        BY <2>3, <2>4, <3>3, <4>1
    <3>4. QED
      BY <2>3, <3>1, <3>2, <3>3
  <2>6. \A g \in Passes : \A x \in answers'[g] :
           x[1] \notin todo'[g] \cup flying'[g] \cup again'[g]
    BY <2>2, <2>3
  <2>7. QED
    BY <2>2, <2>5, <2>6
<1>8. ASSUME NEW p \in Passes, NEW r \in Records, NEW res \in SendResults, Commit(p, r, res)
      PROVE  DisjointInv'
  BY <1>8 DEF Commit
<1>9. ASSUME NEW p \in Passes, Resend(p)
      PROVE  DisjointInv'
  BY <1>9 DEF Resend
<1>10. ASSUME NEW p \in Passes, SendEnd(p)
       PROVE  DisjointInv'
  BY <1>10 DEF SendEnd
<1>11. ASSUME NEW p \in Passes, NEW f \in Files, PassRead(p, f)
       PROVE  DisjointInv'
  BY <1>11 DEF PassRead, RecomputeRead
<1>12. ASSUME NEW p \in Passes, PassWrite(p)
       PROVE  DisjointInv'
  BY <1>12 DEF PassWrite, RecomputeWrite
<1>13. ASSUME NEW p \in Passes, ArchivePlan(p)
       PROVE  DisjointInv'
  BY <1>13 DEF ArchivePlan
<1>14. ASSUME NEW p \in Passes, NEW f \in Files, ArchiveAbsent(p, f)
       PROVE  DisjointInv'
  BY <1>14 DEF ArchiveAbsent
<1>15. ASSUME NEW p \in Passes, NEW f \in Files, ArchiveMatch(p, f)
       PROVE  DisjointInv'
  BY <1>15 DEF ArchiveMatch
<1>16. ASSUME NEW p \in Passes, ArchiveMove(p) \/ ArchiveMark(p)
       PROVE  DisjointInv'
  BY <1>16 DEF ArchiveMove, Store, ArchiveMark
<1>17. ASSUME NEW p \in Passes, Finish(p)
       PROVE  DisjointInv'
  BY <1>17 DEF Finish, Leave
<1>18. ASSUME NEW p \in Passes, Drained(p)
       PROVE  DisjointInv'
  BY <1>18 DEF Drained, WriteErrorRun, Leave
<1>19. ASSUME NEW p \in Passes, RaiseInWave(p)
       PROVE  DisjointInv'
  BY <1>19 DEF RaiseInWave
<1>20. ASSUME NEW p \in Passes, RaiseElsewhere(p)
       PROVE  DisjointInv'
  BY <1>20 DEF RaiseElsewhere, WriteErrorRun, Leave
<1>21. ASSUME NEW p \in Passes, Crash(p)
       PROVE  DisjointInv'
  BY <1>21 DEF Crash, Leave
<1>22. ASSUME NEW q \in Requests, NEW f \in Files, RetryFile(q, f)
       PROVE  DisjointInv'
  BY <1>22 DEF RetryFile, Retry
<1>23. ASSUME NEW q \in Requests, NEW r \in Records, RetryRecord(q, r)
       PROVE  DisjointInv'
  BY <1>23 DEF RetryRecord, Retry
<1>24. ASSUME NEW q \in Requests, RequestRead(q)
       PROVE  DisjointInv'
  BY <1>24 DEF RequestRead, RecomputeRead
<1>25. ASSUME NEW q \in Requests, RequestWrite(q)
       PROVE  DisjointInv'
  BY <1>25 DEF RequestWrite, RecomputeWrite
<1>26. ASSUME NEW q \in Requests, RequestDies(q)
       PROVE  DisjointInv'
  BY <1>26 DEF RequestDies
<1>27. ASSUME UNCHANGED vars PROVE DisjointInv'
  BY <1>27 DEF vars
<1>28. QED
  BY <1>1, <1>2, <1>3, <1>4, <1>5, <1>6, <1>7, <1>8, <1>9, <1>10, <1>11,
     <1>12, <1>13, <1>14, <1>15, <1>16, <1>17, <1>18, <1>19, <1>20, <1>21,
     <1>22, <1>23, <1>24, <1>25, <1>26, <1>27 DEF Next, PassNext, PassFault,
     RequestNext

\* A file row, once there, stays, and a recomputation only writes existing rows.
LEMMA IngestedStep ==
  ASSUME IInv, [Next]_vars
  PROVE  /\ Ingested \subseteq Ingested'
         /\ (\A p \in Passes, n \in Names : ~Ingest(p, n)) => Ingested' = Ingested
<1> USE UploaderAssumption DEF IInv, TypeOK, Ingested
<1>1. CASE UNCHANGED fstatus
  BY <1>1
<1>2. ASSUME NEW p \in Passes, NEW n \in Names, Ingest(p, n)
      PROVE  Ingested \subseteq Ingested'
  BY <1>2 DEF Ingest
<1>3. ASSUME NEW p \in Passes, PassWrite(p)
      PROVE  Ingested' = Ingested
  <2>1. cur[p] \in Ingested
    BY <1>3 DEF PassWrite, RecomputeWrite, TargetInv
  <2>2. AggregateStatus(snap[p]) # "none"
    BY AggregateIsStatus DEF FileStatus, RecordStatus
  <2>3. QED
    BY <1>3, <2>1, <2>2 DEF PassWrite, RecomputeWrite
<1>4. ASSUME NEW q \in Requests, RequestWrite(q)
      PROVE  Ingested' = Ingested
  <2>1. cur[q] \in Ingested
    BY <1>4 DEF RequestWrite, RecomputeWrite, TargetInv
  <2>2. AggregateStatus(snap[q]) # "none"
    BY AggregateIsStatus DEF FileStatus, RecordStatus
  <2>3. QED
    BY <1>4, <2>1, <2>2 DEF RequestWrite, RecomputeWrite, Actors
<1>5. QED
  BY <1>1, <1>2, <1>3, <1>4, FilesWrittenBy

\* A record in hand has a row, and so has its file.
LEMMA OpenHasRow ==
  ASSUME IInv, NEW r \in Records, status[r] # "none"
  PROVE  FileOf[r] \in Ingested
BY UploaderAssumption DEF IInv, RowInv, Ingested

\* The rows of a file appear and stay together.
LEMMA RowStep ==
  ASSUME IInv, [Next]_vars
  PROVE  RowInv'
<1> USE UploaderAssumption DEF IInv, TypeOK, RowInv
<1>1. ASSUME NEW p \in Passes, NEW n \in Names, Ingest(p, n)
      PROVE  RowInv'
  BY <1>1 DEF Ingest, Ingested
<1>2. ASSUME Ingested' = Ingested,
             \A r \in Records : status'[r] = "none" <=> status[r] = "none"
      PROVE  RowInv'
  BY <1>2 DEF Ingested
<1>3. ASSUME NEW p \in Passes, NEW r \in Records, NEW res \in SendResults,
             Commit(p, r, res)
      PROVE  \A s \in Records : status'[s] = "none" <=> status[s] = "none"
  <2>1. status[r] # "none"
    BY <1>3 DEF Commit, InHandIsSendable, InHand, Answered, Sendable
  <2>2. QED
    BY <1>3, <2>1, ResultFacts DEF Commit
<1>4. ASSUME NEW q \in Requests, NEW f \in Files, RetryFile(q, f)
      PROVE  \A s \in Records : status'[s] = "none" <=> status[s] = "none"
  BY <1>4 DEF RetryFile, Retry, ResetRecords, Resettable
<1>5. ASSUME NEW q \in Requests, NEW r \in Records, RetryRecord(q, r)
      PROVE  \A s \in Records : status'[s] = "none" <=> status[s] = "none"
  BY <1>5 DEF RetryRecord, Retry, ResetRecords, Resettable
<1>6. CASE \A p \in Passes, n \in Names : ~Ingest(p, n)
  <2>1. Ingested' = Ingested
    BY <1>6, IngestedStep
  <2>2. \A s \in Records : status'[s] = "none" <=> status[s] = "none"
    BY <1>3, <1>4, <1>5, <1>6, RecordsWrittenBy
  <2>3. QED
    BY <1>2, <2>1, <2>2
<1>7. QED
  BY <1>1, <1>6

\* Attempts stay within the cap, and are zero while a record is pending.
LEMMA AttemptsStep ==
  ASSUME IInv, [Next]_vars
  PROVE  FreshInv' /\ RetryCapRespected'
<1> DEFINE Goal == FreshInv' /\ RetryCapRespected'
<1> USE UploaderAssumption DEF IInv, TypeOK, FreshInv, RetryCapRespected
<1>1. CASE UNCHANGED <<status, attempts>>
  BY <1>1
<1>2. ASSUME NEW p \in Passes, NEW n \in Names, Ingest(p, n)
      PROVE  Goal
  BY <1>2 DEF Ingest, Ingested, RowInv
<1>3. ASSUME NEW p \in Passes, NEW r \in Records, NEW res \in SendResults,
             Commit(p, r, res)
      PROVE  Goal
  <2>1. Sendable(status[r], attempts[r], RetryCap)
    BY <1>3 DEF Commit, InHandIsSendable, InHand, Answered
  <2>2. attempts'[r] <= RetryCap
    BY <1>3, <2>1, CapLemma DEF Commit
  <2>3. status'[r] \notin {"none", "pending"}
    BY <1>3, ResultFacts DEF Commit
  <2>4. \A s \in Records : s # r => status'[s] = status[s] /\ attempts'[s] = attempts[s]
    BY <1>3 DEF Commit
  <2>5. QED
    BY <2>2, <2>3, <2>4
<1>4. ASSUME NEW q \in Requests, NEW f \in Files, RetryFile(q, f)
      PROVE  Goal
  BY <1>4 DEF RetryFile, Retry, ResetRecords
<1>5. ASSUME NEW q \in Requests, NEW r \in Records, RetryRecord(q, r)
      PROVE  Goal
  BY <1>5 DEF RetryRecord, Retry, ResetRecords
<1>6. QED
  BY <1>1, <1>2, <1>3, <1>4, <1>5, RecordsWrittenBy

\* What a pass or a request is about to write exists.
LEMMA TargetStep ==
  ASSUME IInv, TypeOK, TargetInv, [Next]_vars
  PROVE  TargetInv'
<1>0. Ingested \subseteq Ingested'
  BY IngestedStep
<1> USE UploaderAssumption, <1>0 DEF TypeOK, TargetInv, Actors, Goto, dbVars,
      fsVars, sendVars, ghostVars
<1>1. ASSUME NEW f \in Files, Drop(f)
      PROVE  TargetInv'
  BY <1>1 DEF Drop
<1>2. ASSUME NEW p \in Passes, Start(p)
      PROVE  TargetInv'
  BY <1>2 DEF Start
<1>3. ASSUME NEW p \in Passes, Scan(p)
      PROVE  TargetInv'
  BY <1>3 DEF Scan
<1>4. ASSUME NEW p \in Passes, NEW n \in Names, Ingest(p, n)
      PROVE  TargetInv'
  BY <1>4 DEF Ingest
<1>5. ASSUME NEW p \in Passes, Select(p)
      PROVE  TargetInv'
  BY <1>5 DEF Select
<1>6. ASSUME NEW p \in Passes, NEW r \in Records, Submit(p, r)
      PROVE  TargetInv'
  BY <1>6 DEF Submit
<1>7. ASSUME NEW p \in Passes, NEW r \in Records, SendOne(p, r)
      PROVE  TargetInv'
  BY <1>7 DEF SendOne
<1>8. ASSUME NEW p \in Passes, NEW r \in Records, NEW res \in SendResults, Commit(p, r, res)
      PROVE  TargetInv'
  <2>1. FileOf[r] \in Ingested
    BY <1>8, OpenHasRow DEF Commit, IInv, InHandIsSendable, InHand, Answered, Sendable
  <2>2. QED
    BY <1>8, <2>1 DEF Commit
<1>9. ASSUME NEW p \in Passes, Resend(p)
      PROVE  TargetInv'
  BY <1>9 DEF Resend
<1>10. ASSUME NEW p \in Passes, SendEnd(p)
       PROVE  TargetInv'
  BY <1>10 DEF SendEnd, ToRecompute
<1>11. ASSUME NEW p \in Passes, NEW f \in Files, PassRead(p, f)
       PROVE  TargetInv'
  BY <1>11 DEF PassRead, RecomputeRead
<1>12. ASSUME NEW p \in Passes, PassWrite(p)
       PROVE  TargetInv'
  BY <1>12 DEF PassWrite, RecomputeWrite
<1>13. ASSUME NEW p \in Passes, ArchivePlan(p)
       PROVE  TargetInv'
  BY <1>13 DEF ArchivePlan, Archivable
<1>14. ASSUME NEW p \in Passes, NEW f \in Files, ArchiveAbsent(p, f)
       PROVE  TargetInv'
  BY <1>14 DEF ArchiveAbsent
<1>15. ASSUME NEW p \in Passes, NEW f \in Files, ArchiveMatch(p, f)
       PROVE  TargetInv'
  BY <1>15 DEF ArchiveMatch
<1>16. ASSUME NEW p \in Passes, ArchiveMove(p) \/ ArchiveMark(p)
       PROVE  TargetInv'
  BY <1>16 DEF ArchiveMove, Store, ArchiveMark
<1>17. ASSUME NEW p \in Passes, Finish(p)
       PROVE  TargetInv'
  BY <1>17 DEF Finish, Leave
<1>18. ASSUME NEW p \in Passes, Drained(p)
       PROVE  TargetInv'
  BY <1>18 DEF Drained, WriteErrorRun, Leave
<1>19. ASSUME NEW p \in Passes, RaiseInWave(p)
       PROVE  TargetInv'
  BY <1>19 DEF RaiseInWave
<1>20. ASSUME NEW p \in Passes, RaiseElsewhere(p)
       PROVE  TargetInv'
  BY <1>20 DEF RaiseElsewhere, WriteErrorRun, Leave
<1>21. ASSUME NEW p \in Passes, Crash(p)
       PROVE  TargetInv'
  BY <1>21 DEF Crash, Leave
<1>22. ASSUME NEW q \in Requests, NEW f \in Files, RetryFile(q, f)
       PROVE  TargetInv'
  BY <1>22 DEF RetryFile, Retry
<1>23. ASSUME NEW q \in Requests, NEW r \in Records, RetryRecord(q, r)
       PROVE  TargetInv'
  BY <1>23, OpenHasRow DEF RetryRecord, Retry, Resettable
<1>24. ASSUME NEW q \in Requests, RequestRead(q)
       PROVE  TargetInv'
  BY <1>24 DEF RequestRead, RecomputeRead
<1>25. ASSUME NEW q \in Requests, RequestWrite(q)
       PROVE  TargetInv'
  BY <1>25 DEF RequestWrite, RecomputeWrite
<1>26. ASSUME NEW q \in Requests, RequestDies(q)
       PROVE  TargetInv'
  BY <1>26 DEF RequestDies
<1>27. ASSUME UNCHANGED vars PROVE TargetInv'
  BY <1>27 DEF vars
<1>28. QED
  BY <1>1, <1>2, <1>3, <1>4, <1>5, <1>6, <1>7, <1>8, <1>9, <1>10, <1>11,
     <1>12, <1>13, <1>14, <1>15, <1>16, <1>17, <1>18, <1>19, <1>20, <1>21,
     <1>22, <1>23, <1>24, <1>25, <1>26, <1>27 DEF Next, PassNext, PassFault,
     RequestNext

\* What a pass has in hand only shrinks after it has selected.
LEMMA HandShrinks ==
  ASSUME TypeOK, [Next]_vars, NEW g \in Passes, ~Select(g)
  PROVE  InHand(g)' \subseteq InHand(g)
<1> USE UploaderAssumption DEF TypeOK, InHand, Answered, Actors, Goto, dbVars,
      fsVars, sendVars, ghostVars
<1>1. ASSUME NEW f \in Files, Drop(f)
      PROVE  InHand(g)' \subseteq InHand(g)
  BY <1>1 DEF Drop
<1>2. ASSUME NEW p \in Passes, Start(p)
      PROVE  InHand(g)' \subseteq InHand(g)
  BY <1>2 DEF Start
<1>3. ASSUME NEW p \in Passes, Scan(p)
      PROVE  InHand(g)' \subseteq InHand(g)
  BY <1>3 DEF Scan
<1>4. ASSUME NEW p \in Passes, NEW n \in Names, Ingest(p, n)
      PROVE  InHand(g)' \subseteq InHand(g)
  BY <1>4 DEF Ingest
<1>5. ASSUME NEW p \in Passes, Select(p)
      PROVE  InHand(g)' \subseteq InHand(g)
  <2>1. p # g
    BY <1>5
  <2>2. QED
    BY <1>5, <2>1 DEF Select
<1>6. ASSUME NEW p \in Passes, NEW r \in Records, Submit(p, r)
      PROVE  InHand(g)' \subseteq InHand(g)
  BY <1>6 DEF Submit
<1>7. ASSUME NEW p \in Passes, NEW r \in Records, SendOne(p, r)
      PROVE  InHand(g)' \subseteq InHand(g)
  <2>1. PICK res \in SendResults :
           answers' \in {answers, [answers EXCEPT ![p] = answers[p] \cup {<<r, res>>}]}
    BY <1>7, AnswerableType DEF SendOne
  <2>2. Answered(g)' \subseteq Answered(g) \cup (IF g = p THEN {r} ELSE {})
    BY <2>1
  <2>3. /\ r \in flying[p]
        /\ flying'[g] \subseteq flying[g]
        /\ UNCHANGED <<todo, again>>
    BY <1>7 DEF SendOne
  <2>4. QED
    BY <2>2, <2>3
<1>8. ASSUME NEW p \in Passes, NEW r \in Records, NEW res \in SendResults, Commit(p, r, res)
      PROVE  InHand(g)' \subseteq InHand(g)
  <2>1. r \in Answered(p)
    BY <1>8 DEF Commit
  <2>2. Answered(g)' \subseteq Answered(g)
    BY <1>8 DEF Commit
  <2>3. again'[g] \subseteq again[g] \cup (IF g = p THEN {r} ELSE {})
    BY <1>8 DEF Commit
  <2>4. todo' = todo /\ flying' = flying
    BY <1>8 DEF Commit
  <2>5. QED
    BY <2>1, <2>2, <2>3, <2>4
<1>9. ASSUME NEW p \in Passes, Resend(p)
      PROVE  InHand(g)' \subseteq InHand(g)
  BY <1>9 DEF Resend
<1>10. ASSUME NEW p \in Passes, SendEnd(p)
       PROVE  InHand(g)' \subseteq InHand(g)
  BY <1>10 DEF SendEnd, WaveDrained
<1>11. ASSUME NEW p \in Passes, NEW f \in Files, PassRead(p, f)
       PROVE  InHand(g)' \subseteq InHand(g)
  BY <1>11 DEF PassRead, RecomputeRead
<1>12. ASSUME NEW p \in Passes, PassWrite(p)
       PROVE  InHand(g)' \subseteq InHand(g)
  BY <1>12 DEF PassWrite, RecomputeWrite
<1>13. ASSUME NEW p \in Passes, ArchivePlan(p)
       PROVE  InHand(g)' \subseteq InHand(g)
  BY <1>13 DEF ArchivePlan
<1>14. ASSUME NEW p \in Passes, NEW f \in Files, ArchiveAbsent(p, f)
       PROVE  InHand(g)' \subseteq InHand(g)
  BY <1>14 DEF ArchiveAbsent
<1>15. ASSUME NEW p \in Passes, NEW f \in Files, ArchiveMatch(p, f)
       PROVE  InHand(g)' \subseteq InHand(g)
  BY <1>15 DEF ArchiveMatch
<1>16. ASSUME NEW p \in Passes, ArchiveMove(p) \/ ArchiveMark(p)
       PROVE  InHand(g)' \subseteq InHand(g)
  BY <1>16 DEF ArchiveMove, Store, ArchiveMark
<1>17. ASSUME NEW p \in Passes, Finish(p)
       PROVE  InHand(g)' \subseteq InHand(g)
  BY <1>17 DEF Finish, Leave
<1>18. ASSUME NEW p \in Passes, Drained(p)
       PROVE  InHand(g)' \subseteq InHand(g)
  BY <1>18 DEF Drained, WriteErrorRun, Leave
<1>19. ASSUME NEW p \in Passes, RaiseInWave(p)
       PROVE  InHand(g)' \subseteq InHand(g)
  BY <1>19 DEF RaiseInWave
<1>20. ASSUME NEW p \in Passes, RaiseElsewhere(p)
       PROVE  InHand(g)' \subseteq InHand(g)
  BY <1>20 DEF RaiseElsewhere, WriteErrorRun, Leave
<1>21. ASSUME NEW p \in Passes, Crash(p)
       PROVE  InHand(g)' \subseteq InHand(g)
  BY <1>21 DEF Crash, Leave
<1>22. ASSUME NEW q \in Requests, NEW f \in Files, RetryFile(q, f)
       PROVE  InHand(g)' \subseteq InHand(g)
  BY <1>22 DEF RetryFile, Retry
<1>23. ASSUME NEW q \in Requests, NEW r \in Records, RetryRecord(q, r)
       PROVE  InHand(g)' \subseteq InHand(g)
  BY <1>23 DEF RetryRecord, Retry
<1>24. ASSUME NEW q \in Requests, RequestRead(q)
       PROVE  InHand(g)' \subseteq InHand(g)
  BY <1>24 DEF RequestRead, RecomputeRead
<1>25. ASSUME NEW q \in Requests, RequestWrite(q)
       PROVE  InHand(g)' \subseteq InHand(g)
  BY <1>25 DEF RequestWrite, RecomputeWrite
<1>26. ASSUME NEW q \in Requests, RequestDies(q)
       PROVE  InHand(g)' \subseteq InHand(g)
  BY <1>26 DEF RequestDies
<1>27. ASSUME UNCHANGED vars PROVE InHand(g)' \subseteq InHand(g)
  BY <1>27 DEF vars
<1>28. QED
  BY <1>1, <1>2, <1>3, <1>4, <1>5, <1>6, <1>7, <1>8, <1>9, <1>10, <1>11,
     <1>12, <1>13, <1>14, <1>15, <1>16, <1>17, <1>18, <1>19, <1>20, <1>21,
     <1>22, <1>23, <1>24, <1>25, <1>26, <1>27 DEF Next, PassNext, PassFault,
     RequestNext

\* A committed record leaves the hand of the pass, or it is to be resent.
LEMMA CommitLeaves ==
  ASSUME IInv, NEW p \in Passes, NEW r \in Records, NEW res \in SendResults,
         Commit(p, r, res), r \in InHand(p)'
  PROVE  res.status = "failed" /\ res.isNetworkError
<1> USE DEF IInv, TypeOK, DisjointInv, Commit
<1>1. r \notin todo[p] \cup flying[p] \cup again[p]
  OBVIOUS
<1>2. r \notin Answered(p)'
  BY DEF Answered
<1>3. res.sessionExpired
  BY <1>1, <1>2 DEF InHand
<1>4. QED
  BY <1>3, StaleIsNetwork, ResultFacts

\* What a pass has in hand stays sendable whoever writes the table.
LEMMA SendableStep ==
  ASSUME IInv, [Next]_vars
  PROVE  InHandIsSendable'
<1> SUFFICES ASSUME NEW g \in Passes, NEW s \in InHand(g)'
             PROVE  Sendable(status'[s], attempts'[s], RetryCap)
  BY DEF InHandIsSendable
<1>0. s \in Records
  BY TypeStep DEF TypeOK, InHand, Answered
<1> USE UploaderAssumption, <1>0 DEF IInv, TypeOK
<1>1. CASE Select(g)
  <2>1. s \in todo'[g]
    BY <1>1 DEF Select, HandInv, InHand, Answered
  <2>2. QED
    BY <1>1, <2>1 DEF Select, dbVars
<1>2. CASE ~Select(g)
  <2>1. s \in InHand(g)
    BY <1>2, HandShrinks
  <2>2. Sendable(status[s], attempts[s], RetryCap)
    BY <2>1 DEF InHandIsSendable
  <2>3. CASE UNCHANGED <<status, attempts>>
    BY <2>2, <2>3
  <2>4. ASSUME NEW p \in Passes, NEW n \in Names, Ingest(p, n)
        PROVE  Sendable(status'[s], attempts'[s], RetryCap)
    BY <2>2, <2>4 DEF Ingest, Sendable
  <2>5. ASSUME NEW p \in Passes, NEW r \in Records, NEW res \in SendResults,
               Commit(p, r, res)
        PROVE  Sendable(status'[s], attempts'[s], RetryCap)
    <3>1. CASE s # r
      BY <2>2, <2>5, <3>1 DEF Commit
    <3>2. CASE s = r
      <4>1. pc[p] = "send"
        BY <2>5 DEF Commit
      <4>2. pc[g] \in {"send", "drain"}
        BY <2>1 DEF HandInv, InHand, Answered
      <4>3. g = p
        BY <4>1, <4>2 DEF LockInv
      <4>4. res.status = "failed" /\ res.isNetworkError
        BY <2>5, <3>2, <4>3, CommitLeaves
      <4>5. attempts[r] < RetryCap
        BY <2>2, <3>2 DEF Sendable, FreshInv
      <4>6. status'[s] = "failed" /\ attempts'[s] = attempts[r]
        BY <2>5, <3>2, <4>4 DEF Commit, AttemptsAfter
      <4>7. QED
        BY <4>5, <4>6 DEF Sendable
    <3>3. QED
      BY <3>1, <3>2
  <2>6. ASSUME NEW q \in Requests, NEW f \in Files, RetryFile(q, f)
        PROVE  Sendable(status'[s], attempts'[s], RetryCap)
    BY <2>2, <2>6 DEF RetryFile, Retry, ResetRecords, Sendable
  <2>7. ASSUME NEW q \in Requests, NEW r \in Records, RetryRecord(q, r)
        PROVE  Sendable(status'[s], attempts'[s], RetryCap)
    BY <2>2, <2>7 DEF RetryRecord, Retry, ResetRecords, Sendable
  <2>8. QED
    BY <2>3, <2>4, <2>5, <2>6, <2>7, RecordsWrittenBy
<1>3. QED
  BY <1>1, <1>2

-----------------------------------------------------------------------------
\* The invariant is inductive.
LEMMA StepIInv == IInv /\ [Next]_vars => IInv'
BY TypeStep, LockStep, HandStep, DisjointStep, SendableStep, RowStep,
   AttemptsStep, TargetStep DEF IInv

\* It holds in every reachable state.
THEOREM Invariant == Spec => []IInv
BY InitIInv, StepIInv, PTL DEF Spec

-----------------------------------------------------------------------------
(***************************************************************************)
(* What follows from it.                                                   *)
(***************************************************************************)

\* Every variable keeps its type (the tables, the inbox, the pass).
THEOREM TypeCorrect == Spec => []TypeOK
BY Invariant, PTL DEF IInv

\* What a pass still has in hand is sendable in the database at every moment,
\* whatever operators retry while it runs (send_records, line 165).
THEOREM HandStaysSendable == Spec => []InHandIsSendable
BY Invariant, PTL DEF IInv

\* No record ever has more than retry_cap attempts.
THEOREM CapRespected == Spec => []RetryCapRespected
BY Invariant, PTL DEF IInv

\* The ledger and the pass speak of the same results.
LEMMA LedgerResults == Ledger!SendResults = SendResults
BY DEF SendResults, BureauResults, Accepted, Refused, Garbled, Unreachable, Stale,
       TooLarge, Result, Ledger!SendResults, Ledger!BureauResults, Ledger!Accepted,
       Ledger!Refused, Ledger!Garbled, Ledger!Unreachable, Ledger!Stale,
       Ledger!TooLarge, Ledger!Result

\* A record that is open when its answer is committed settles as RecordLedger
\* allows; ingestion inserts the rows of one file; retries reopen closed rows.
LEMMA LedgerStep ==
  ASSUME IInv, [Next]_vars
  PROVE  [Ledger!Next]_(Ledger!ledger)
<1> USE UploaderAssumption DEF IInv, TypeOK, Ledger!ledger
<1>1. CASE UNCHANGED <<status, attempts>>
  BY <1>1
<1>2. ASSUME NEW p \in Passes, NEW n \in Names, Ingest(p, n)
      PROVE  UNCHANGED <<status, attempts>> \/ Ledger!Next
  <2>1. CASE inbox[n] \in Ingested
    BY <1>2, <2>1 DEF Ingest
  <2>2. CASE inbox[n] \notin Ingested
    <3> DEFINE R == {r \in Records : FileOf[r] = inbox[n]}
    <3>1. \A r \in R : status[r] = "none"
      BY <2>2 DEF RowInv, Ingested
    <3>2. Ledger!Insert(R)
      BY <1>2, <2>2, <3>1 DEF Ingest, Ledger!Insert
    <3>3. QED
      BY <3>2 DEF Ledger!Next
  <2>3. QED
    BY <2>1, <2>2
<1>3. ASSUME NEW p \in Passes, NEW r \in Records, NEW res \in SendResults,
             Commit(p, r, res)
      PROVE  Ledger!Next
  <2>1. Sendable(status[r], attempts[r], RetryCap)
    BY <1>3 DEF Commit, InHandIsSendable, InHand, Answered
  <2>2. Ledger!Settle(r, res)
    BY <1>3, <2>1 DEF Commit, Ledger!Settle, Ledger!Sendable, Sendable,
         Ledger!AttemptsAfter, AttemptsAfter
  <2>3. QED
    BY <2>2, LedgerResults DEF Ledger!Next
<1>4. ASSUME NEW q \in Requests, NEW f \in Files, RetryFile(q, f)
      PROVE  Ledger!Next
  <2>1. Ledger!Reopen(Resettable(RecordsOf(f)))
    BY <1>4 DEF RetryFile, Retry, ResetRecords, Ledger!Reopen, Resettable, RecordsOf
  <2>2. QED
    BY <2>1 DEF Ledger!Next, Resettable, RecordsOf
<1>5. ASSUME NEW q \in Requests, NEW r \in Records, RetryRecord(q, r)
      PROVE  Ledger!Next
  <2>1. Ledger!Reopen({r})
    BY <1>5 DEF RetryRecord, Retry, ResetRecords, Ledger!Reopen, Resettable
  <2>2. QED
    BY <2>1 DEF Ledger!Next
<1>6. QED
  BY <1>1, <1>2, <1>3, <1>4, <1>5, RecordsWrittenBy

\* Passes, handlers, exceptions and crashes together implement RecordLedger.
THEOREM ImplementsLedger == Spec => LedgerSpec
<1>1. Init => Ledger!Init
  BY DEF Init, Ledger!Init
<1>2. QED
  BY <1>1, LedgerStep, Invariant, PTL DEF Spec, LedgerSpec, Ledger!Spec

\* No step writes a row that is SENT.
LEMMA SentStep ==
  ASSUME IInv, [Next]_vars, NEW r \in Records, status[r] = "sent"
  PROVE  status'[r] = "sent"
<1>1. CASE UNCHANGED <<status, attempts>>
  BY <1>1
<1>2. ASSUME NEW R \in SUBSET Records, Ledger!Insert(R) \/ Ledger!Reopen(R)
      PROVE  status'[r] = "sent"
  BY <1>2 DEF Ledger!Insert, Ledger!Reopen
<1>3. ASSUME NEW s \in Records, NEW res, Ledger!Settle(s, res)
      PROVE  status'[r] = "sent"
  BY <1>3 DEF Ledger!Settle, Ledger!Sendable, IInv, TypeOK
<1>4. QED
  BY <1>1, <1>2, <1>3, LedgerStep DEF Ledger!Next, Ledger!ledger

\* A record written SENT is never written again.
THEOREM SentStaysSent == Spec => SentIsFinal
<1>1. IInv /\ [Next]_vars => \A r \in Records : status[r] = "sent" => status'[r] = "sent"
  BY SentStep
<1>2. QED
  BY <1>1, Invariant, PTL DEF Spec, SentIsFinal

-----------------------------------------------------------------------------
(***************************************************************************)
(* Deliveries and files: who was accepted, what SENT means, which files    *)
(* are archived, what a successful run has left, and that no content is    *)
(* lost.  Each is an invariant of the database or the folders; what makes  *)
(* it inductive is a statement about what passes and requests remember     *)
(* while they are between two transactions.                                *)
(***************************************************************************)
\* An acceptance that is not lost is in the table or among the uncommitted
\* answers of a pass, and there is only one.
LostInv ==
  \A r \in Records \ lost :
     /\ accepted[r] < 2
     /\ accepted[r] > 0 => \/ status[r] = "sent"
                           \/ \E p \in Passes : <<r, Accepted>> \in answers[p]

\* Whoever is about to write "sent", to a record or to a file, knows of the
\* acceptances it needs.
SentInv ==
  /\ SentIsDelivered
  /\ \A p \in Passes : \A r \in Records : <<r, Accepted>> \in answers[p] => accepted[r] > 0
  /\ \A a \in Actors : pc[a] = "write" /\ snap[a] \subseteq {"sent"} =>
        \A r \in RecordsOf(cur[a]) : accepted[r] > 0

Settled(r) == status[r] \in Terminal \/ r \in retried
AllSettled(f) == \A r \in RecordsOf(f) : Settled(r)

\* The files a pass is going to archive were settled when it asked, and nothing
\* but a retry has opened them since.
ArchiveInv ==
  /\ ArchivedIsSettled
  /\ \A p \in Passes : pc[p] \in {"archive", "rename", "mark"} => \A f \in work[p] : AllSettled(f)
  /\ \A p \in Passes : pc[p] \in {"rename", "mark"} => AllSettled(cur[p])

PendingIn(R) == \A r \in Records : status[r] = "pending" => r \in R \cup retried
Unsettled(p) == todo[p] \cup flying[p] \cup Answered(p)
Late == {"read", "write", "archive", "rename", "mark"}

\* A pass has every pending record in hand until it has sent it; if it has ended
\* its send stage without abort none is left.
PendingInv ==
  \A p \in Passes :
     /\ pc[p] = "send" => PendingIn(Unsettled(p))
     /\ pc[p] \in Late /\ ~aborted[p] => PendingIn({})

\* A copy of content f outside the inbox, or its replacement there.
Elsewhere(f) == \/ archivePlain[NameOf[f]] = f
                \/ archiveSha[f] = f
                \/ f \in overwritten

Safe(f) == inbox[NameOf[f]] = f \/ Elsewhere(f)

\* What a rename is about to move in place of the file it hashed has replaced that
\* file in the inbox, and is kept elsewhere if a pass has ever ingested it.
RenameInv ==
  \A p \in Passes : pc[p] = "rename" =>
     /\ inbox[NameOf[cur[p]]] # NoFile
     /\ inbox[NameOf[cur[p]]] # cur[p] =>
          /\ cur[p] \in overwritten
          /\ inbox[NameOf[cur[p]]] \in Ingested => Elsewhere(inbox[NameOf[cur[p]]])

\* A name in the inbox holds a file of that name.
PlaceInv ==
  /\ NoFileLost
  /\ \A n \in Names : inbox[n] # NoFile => NameOf[inbox[n]] = n
  /\ RenameInv

-----------------------------------------------------------------------------
(***************************************************************************)
(* Which steps write the history variables, the answers, the folders.      *)
(***************************************************************************)

\* Acceptances and losses are recorded by workers, and losses also where a pass
\* drops its answers.
LEMMA AcceptedWrittenBy ==
  ASSUME [Next]_vars
  PROVE  \/ UNCHANGED <<accepted, lost>>
         \/ \E p \in Passes, r \in Records : SendOne(p, r)
         \/ \E p \in Passes : RaiseInWave(p) \/ Crash(p)
<1> USE DEF ghostVars
<1>1. ASSUME NEW p \in Passes, PassNext(p), \A r \in Records : ~SendOne(p, r)
      PROVE  UNCHANGED <<accepted, lost>>
  BY <1>1 DEF PassNext, Start, Scan, Ingest, Select, Submit, Commit, Resend, SendEnd,
       PassRead, PassWrite, ArchivePlan, ArchiveAbsent, ArchiveMatch,
       ArchiveMove, ArchiveMark,
       Finish, Drained, WriteErrorRun
<1>2. ASSUME NEW p \in Passes, PassFault(p), ~RaiseInWave(p), ~Crash(p)
      PROVE  UNCHANGED <<accepted, lost>>
  BY <1>2 DEF PassFault, RaiseElsewhere, WriteErrorRun
<1>3. ASSUME NEW q \in Requests, RequestNext(q)
      PROVE  UNCHANGED <<accepted, lost>>
  BY <1>3 DEF RequestNext, Retry, RetryFile, RetryRecord, RequestRead, RequestWrite,
       RequestDies
<1>4. ASSUME NEW f \in Files, Drop(f)
      PROVE  UNCHANGED <<accepted, lost>>
  BY <1>4 DEF Drop
<1>5. QED
  BY <1>1, <1>2, <1>3, <1>4 DEF Next, vars

\* Answers come from workers; they leave by a commit, or all together.
LEMMA AnswersWrittenBy ==
  ASSUME [Next]_vars
  PROVE  \/ UNCHANGED answers
         \/ \E p \in Passes, r \in Records : SendOne(p, r)
         \/ \E p \in Passes, r \in Records, res \in SendResults : Commit(p, r, res)
         \/ \E p \in Passes : \/ Finish(p) \/ Drained(p)
                              \/ RaiseInWave(p) \/ RaiseElsewhere(p) \/ Crash(p)
<1> USE DEF sendVars
<1>1. ASSUME NEW p \in Passes, PassNext(p), \A r \in Records : ~SendOne(p, r),
             \A r \in Records, res \in SendResults : ~Commit(p, r, res),
             ~Finish(p), ~Drained(p)
      PROVE  UNCHANGED answers
  BY <1>1 DEF PassNext, Start, Scan, Ingest, Select, Submit, Resend, SendEnd,
       PassRead, PassWrite, ArchivePlan, ArchiveAbsent, ArchiveMatch,
       ArchiveMove, ArchiveMark
<1>2. ASSUME NEW q \in Requests, RequestNext(q)
      PROVE  UNCHANGED answers
  BY <1>2 DEF RequestNext, Retry, RetryFile, RetryRecord, RequestRead, RequestWrite,
       RequestDies
<1>3. ASSUME NEW f \in Files, Drop(f)
      PROVE  UNCHANGED answers
  BY <1>3 DEF Drop
<1>4. QED
  BY <1>1, <1>2, <1>3 DEF Next, PassFault, vars

\* The folders are written by the producer and by the archive's rename.
LEMMA FoldersWrittenBy ==
  ASSUME [Next]_vars
  PROVE  \/ UNCHANGED <<inbox, archivePlain, archiveSha, overwritten>>
         \/ \E f \in Files : Drop(f)
         \/ \E p \in Passes : ArchiveMove(p)
<1> USE DEF fsVars, ghostVars
<1>1. ASSUME NEW p \in Passes, PassNext(p), ~ArchiveMove(p)
      PROVE  UNCHANGED <<inbox, archivePlain, archiveSha, overwritten>>
  BY <1>1 DEF PassNext, Start, Scan, Ingest, Select, Submit, SendOne, Commit, Resend,
       SendEnd, PassRead, PassWrite, ArchivePlan, ArchiveAbsent, ArchiveMatch,
       ArchiveMark, Finish, Drained, WriteErrorRun
<1>2. ASSUME NEW p \in Passes, PassFault(p)
      PROVE  UNCHANGED <<inbox, archivePlain, archiveSha, overwritten>>
  BY <1>2 DEF PassFault, RaiseInWave, Crash, RaiseElsewhere, WriteErrorRun
<1>3. ASSUME NEW q \in Requests, RequestNext(q)
      PROVE  UNCHANGED <<inbox, archivePlain, archiveSha, overwritten>>
  BY <1>3 DEF RequestNext, Retry, RetryFile, RetryRecord, RequestRead, RequestWrite,
       RequestDies
<1>4. QED
  BY <1>1, <1>2, <1>3 DEF Next, vars

\* archived_at is set by the two branches of archive_completed_files.
LEMMA ArchivedWrittenBy ==
  ASSUME [Next]_vars
  PROVE  \/ UNCHANGED archived
         \/ \E p \in Passes, f \in Files : ArchiveAbsent(p, f)
         \/ \E p \in Passes : ArchiveMark(p)
<1> USE DEF dbVars
<1>1. ASSUME NEW p \in Passes, PassNext(p), \A f \in Files : ~ArchiveAbsent(p, f),
             ~ArchiveMark(p)
      PROVE  UNCHANGED archived
  BY <1>1 DEF PassNext, Start, Scan, Ingest, Select, Submit, SendOne, Commit, Resend,
       SendEnd, PassRead, PassWrite, ArchivePlan, ArchiveMatch, ArchiveMove, Finish, Drained,
       WriteErrorRun
<1>2. ASSUME NEW p \in Passes, PassFault(p)
      PROVE  UNCHANGED archived
  BY <1>2 DEF PassFault, RaiseInWave, Crash, RaiseElsewhere, WriteErrorRun
<1>3. ASSUME NEW q \in Requests, RequestNext(q)
      PROVE  UNCHANGED archived
  BY <1>3 DEF RequestNext, Retry, RetryFile, RetryRecord, RequestRead, RequestWrite,
       RequestDies
<1>4. ASSUME NEW f \in Files, Drop(f)
      PROVE  UNCHANGED archived
  BY <1>4 DEF Drop
<1>5. QED
  BY <1>1, <1>2, <1>3, <1>4 DEF Next, vars

\* Only the two retry handlers reopen rows.
LEMMA RetriedWrittenBy ==
  ASSUME [Next]_vars
  PROVE  \/ UNCHANGED retried
         \/ \E q \in Requests, f \in Files : RetryFile(q, f)
         \/ \E q \in Requests, r \in Records : RetryRecord(q, r)
<1> USE DEF ghostVars
<1>1. ASSUME NEW p \in Passes, PassNext(p)
      PROVE  UNCHANGED retried
  BY <1>1 DEF PassNext, Start, Scan, Ingest, Select, Submit, SendOne, Commit, Resend,
       SendEnd, PassRead, PassWrite, ArchivePlan, ArchiveAbsent, ArchiveMatch,
       ArchiveMove, ArchiveMark, Finish, Drained, WriteErrorRun
<1>2. ASSUME NEW p \in Passes, PassFault(p)
      PROVE  UNCHANGED retried
  BY <1>2 DEF PassFault, RaiseInWave, Crash, RaiseElsewhere, WriteErrorRun
<1>3. ASSUME NEW q \in Requests, RequestRead(q) \/ RequestWrite(q) \/ RequestDies(q)
      PROVE  UNCHANGED retried
  BY <1>3 DEF RequestRead, RequestWrite, RequestDies
<1>4. ASSUME NEW f \in Files, Drop(f)
      PROVE  UNCHANGED retried
  BY <1>4 DEF Drop
<1>5. QED
  BY <1>1, <1>2, <1>3, <1>4 DEF Next, RequestNext, vars

\* The history variables never forget.
LEMMA HistoryGrows ==
  ASSUME TypeOK, [Next]_vars
  PROVE  /\ lost \subseteq lost'
         /\ retried \subseteq retried'
         /\ \A r \in Records : accepted[r] > 0 => accepted'[r] > 0
<1> USE DEF TypeOK
<1>1. ASSUME NEW p \in Passes, NEW r \in Records, SendOne(p, r)
      PROVE  lost \subseteq lost' /\ \A s \in Records : accepted[s] > 0 => accepted'[s] > 0
  BY <1>1 DEF SendOne, Bureau
<1>2. ASSUME NEW p \in Passes, RaiseInWave(p) \/ Crash(p)
      PROVE  lost \subseteq lost' /\ accepted' = accepted
  BY <1>2 DEF RaiseInWave, Crash
<1>3. retried \subseteq retried'
  BY RetriedWrittenBy DEF RetryFile, RetryRecord, Retry, ResetRecords
<1>4. QED
  BY <1>1, <1>2, <1>3, AcceptedWrittenBy

-----------------------------------------------------------------------------
(***************************************************************************)
(* Two facts every proof below needs.                                      *)
(***************************************************************************)

\* The flock admits one pass at a time.
LEMMA Alone ==
  ASSUME IInv, NEW p \in Passes, NEW g \in Passes, pc[p] # "idle", pc[g] # "idle"
  PROVE  p = g
BY DEF IInv, LockInv

\* Only an acceptance is written SENT.
LEMMA SentIsAccepted ==
  ASSUME NEW res \in SendResults
  PROVE  res.status = "sent" <=> res = Accepted
BY DEF SendResults, BureauResults, Accepted, Refused, Garbled, Unreachable, Stale,
       TooLarge, Result

-----------------------------------------------------------------------------
(***************************************************************************)
(* A second acceptance needs a lost answer.                                *)
(***************************************************************************)

\* A record on the wire that was accepted before has lost that answer.
LEMMA FlyingIsFresh ==
  ASSUME IInv, LostInv, NEW p \in Passes, NEW r \in flying[p], r \notin lost
  PROVE  accepted[r] = 0
<1> USE DEF IInv, TypeOK
<1>1. r \in Records /\ pc[p] # "idle"
  BY DEF HandInv
<1>2. status[r] # "sent"
  BY <1>1 DEF InHandIsSendable, InHand, Sendable
<1>3. ASSUME NEW g \in Passes, <<r, Accepted>> \in answers[g] PROVE FALSE
  <2>1. pc[g] # "idle"
    BY <1>3 DEF HandInv
  <2>2. g = p
    BY <1>1, <2>1, Alone
  <2>3. QED
    BY <1>3, <2>2 DEF DisjointInv
<1>4. ~(accepted[r] > 0)
  BY <1>1, <1>2, <1>3 DEF LostInv
<1>5. QED
  BY <1>1, <1>4

\* Every step keeps the account of acceptances.
LEMMA LostStep ==
  ASSUME IInv, LostInv, [Next]_vars
  PROVE  LostInv'
<1> SUFFICES ASSUME NEW r \in Records \ lost'
             PROVE  /\ accepted'[r] < 2
                    /\ accepted'[r] > 0 =>
                          \/ status'[r] = "sent"
                          \/ \E p \in Passes : <<r, Accepted>> \in answers'[p]
  BY DEF LostInv
<1> DEFINE Goal == /\ accepted'[r] < 2
                   /\ accepted'[r] > 0 =>
                         \/ status'[r] = "sent"
                         \/ \E p \in Passes : <<r, Accepted>> \in answers'[p]
<1>0. /\ r \in Records /\ r \notin lost
      /\ accepted[r] < 2
      /\ accepted[r] > 0 => \/ status[r] = "sent"
                            \/ \E p \in Passes : <<r, Accepted>> \in answers[p]
  BY HistoryGrows DEF LostInv, IInv
<1>1. status[r] = "sent" => status'[r] = "sent"
  BY <1>0, SentStep
<1> USE DEF IInv, TypeOK
<1>2. ASSUME NEW p \in Passes, NEW s \in Records, SendOne(p, s)
      PROVE  Goal
  <2>1. \A g \in Passes : answers[g] \subseteq answers'[g]
    BY <1>2 DEF SendOne
  <2>2. CASE s # r
    BY <1>0, <1>1, <1>2, <2>1, <2>2 DEF SendOne, Bureau
  <2>3. CASE s = r
    <3>1. accepted[r] = 0
      BY <1>0, <1>2, <2>3, FlyingIsFresh DEF SendOne
    <3>2. PICK res \in Answerable(r), took \in BOOLEAN :
             /\ Bureau(r, res, took)
             /\ IF pc[p] = "drain"
                THEN UNCHANGED answers
                ELSE answers' = [answers EXCEPT ![p] = @ \cup {<<r, res>>}]
             /\ lost' = IF took /\ (pc[p] = "drain" \/ res # Accepted)
                        THEN lost \cup {r} ELSE lost
      BY <1>2, <2>3 DEF SendOne
    <3>3. CASE took
      <4>1. pc[p] # "drain" /\ res = Accepted
        BY <3>2, <3>3
      <4>2. accepted'[r] = 1 /\ <<r, Accepted>> \in answers'[p]
        BY <1>0, <3>1, <3>2, <3>3, <4>1 DEF Bureau
      <4>3. QED
        BY <4>2
    <3>4. CASE ~took
      BY <3>1, <3>2, <3>4 DEF Bureau
    <3>5. QED
      BY <3>3, <3>4
  <2>4. QED
    BY <2>2, <2>3
<1>3. ASSUME NEW p \in Passes, NEW s \in Records, NEW res \in SendResults, Commit(p, s, res)
      PROVE  Goal
  <2>1. accepted' = accepted
    BY <1>3 DEF Commit, ghostVars
  <2>2. ASSUME NEW g \in Passes, <<r, Accepted>> \in answers[g]
        PROVE  status'[r] = "sent" \/ <<r, Accepted>> \in answers'[g]
    BY <1>0, <1>3, <2>2, SentIsAccepted DEF Commit
  <2>3. QED
    BY <1>0, <1>1, <2>1, <2>2
<1>4. ASSUME NEW p \in Passes, RaiseInWave(p) \/ Crash(p)
      PROVE  Goal
  <2>1. accepted' = accepted /\ lost' = lost \cup Dropped(p)
    BY <1>4 DEF RaiseInWave, Crash
  <2>2. ASSUME NEW g \in Passes, <<r, Accepted>> \in answers[g]
        PROVE  <<r, Accepted>> \in answers'[g]
    <3>1. g # p
      BY <1>0, <2>1, <2>2 DEF Dropped
    <3>2. QED
      BY <1>4, <2>2, <3>1 DEF RaiseInWave, Crash, Leave
  <2>3. QED
    BY <1>0, <1>1, <2>1, <2>2
<1>5. ASSUME NEW p \in Passes, Finish(p) \/ Drained(p) \/ RaiseElsewhere(p)
      PROVE  Goal
  <2>1. accepted' = accepted /\ answers[p] = {}
    BY <1>5 DEF Finish, Drained, RaiseElsewhere, WriteErrorRun, ghostVars, HandInv
  <2>2. \A g \in Passes : answers'[g] = answers[g]
    BY <1>5, <2>1 DEF Finish, Drained, RaiseElsewhere, WriteErrorRun, Leave
  <2>3. QED
    BY <1>0, <1>1, <2>1, <2>2
<1>6. CASE UNCHANGED <<accepted, answers>>
  BY <1>0, <1>1, <1>6
<1>7. QED
  BY <1>2, <1>3, <1>4, <1>5, <1>6, AcceptedWrittenBy, AnswersWrittenBy

-----------------------------------------------------------------------------
(***************************************************************************)
(* A status never runs ahead of delivery.                                  *)
(***************************************************************************)

\* What is about to be written was read by the same actor, and nobody else
\* changes what it read.
LEMMA AboutToWrite ==
  ASSUME TypeOK, [Next]_vars, NEW a \in Actors, pc'[a] = "write"
  PROVE  \/ pc[a] = "write" /\ snap'[a] = snap[a] /\ cur'[a] = cur[a]
         \/ \E f \in Files \cup {NoFile} : RecomputeRead(a, f)
<1> DEFINE Kept == pc[a] = "write" /\ snap'[a] = snap[a] /\ cur'[a] = cur[a]
<1> USE UploaderAssumption DEF TypeOK, Actors, Goto
<1>1. ASSUME NEW p \in Passes, PassNext(p), \A f \in Files : ~PassRead(p, f)
      PROVE  Kept
  <2>1. CASE Start(p) \/ Scan(p) \/ Select(p) \/ Resend(p) \/ SendEnd(p)
    BY <1>1, <2>1 DEF Start, Scan, Select, Resend, SendEnd
  <2>2. CASE PassWrite(p) \/ ArchivePlan(p) \/ ArchiveMove(p) \/ ArchiveMark(p)
    BY <1>1, <2>2 DEF PassWrite, RecomputeWrite, ArchivePlan, ArchiveMove, ArchiveMark
  <2>3. CASE Finish(p) \/ Drained(p)
    BY <1>1, <2>3 DEF Finish, Drained, WriteErrorRun, Leave
  <2>4. ASSUME NEW n \in Names, Ingest(p, n) PROVE Kept
    BY <1>1, <2>4 DEF Ingest
  <2>5. ASSUME NEW r \in Records, \/ Submit(p, r) \/ SendOne(p, r)
                                  \/ \E res \in SendResults : Commit(p, r, res)
        PROVE  Kept
    BY <1>1, <2>5 DEF Submit, SendOne, Commit
  <2>6. ASSUME NEW f \in Files, ArchiveAbsent(p, f) \/ ArchiveMatch(p, f) PROVE Kept
    BY <1>1, <2>6 DEF ArchiveAbsent, ArchiveMatch
  <2>7. QED
    BY <1>1, <2>1, <2>2, <2>3, <2>4, <2>5, <2>6 DEF PassNext
<1>2. ASSUME NEW p \in Passes, PassFault(p)
      PROVE  Kept
  BY <1>2 DEF PassFault, RaiseInWave, RaiseElsewhere, Crash, WriteErrorRun, Leave
<1>3. ASSUME NEW q \in Requests, RequestNext(q), ~RequestRead(q)
      PROVE  Kept
  BY <1>3 DEF RequestNext, Retry, RetryFile, RetryRecord, RequestWrite, RecomputeWrite,
       RequestDies
<1>4. ASSUME NEW f \in Files, Drop(f)
      PROVE  Kept
  BY <1>4 DEF Drop
<1>5. ASSUME NEW p \in Passes, NEW f \in Files, PassRead(p, f)
      PROVE  Kept \/ RecomputeRead(a, f)
  BY <1>5 DEF PassRead, RecomputeRead
<1>6. ASSUME NEW q \in Requests, RequestRead(q)
      PROVE  Kept \/ RecomputeRead(a, cur[a])
  BY <1>6 DEF RequestRead, RecomputeRead
<1>7. QED
  BY <1>1, <1>2, <1>3, <1>4, <1>5, <1>6 DEF Next, vars

\* Every step keeps what "sent" stands for.
LEMMA DeliveredStep ==
  ASSUME IInv, SentInv, [Next]_vars
  PROVE  SentInv'
<1>0. \A r \in Records : accepted[r] > 0 => accepted'[r] > 0
  BY HistoryGrows DEF IInv
<1> USE UploaderAssumption DEF IInv, TypeOK, SentInv, SentIsDelivered
<1>1. ASSUME NEW r \in Records, status'[r] = "sent"
      PROVE  accepted'[r] > 0
  <2>1. CASE status[r] = "sent"
    BY <1>0, <2>1
  <2>2. CASE status[r] # "sent"
    <3>1. ASSUME NEW p \in Passes, NEW s \in Records, NEW res \in SendResults,
                 Commit(p, s, res)
          PROVE  accepted'[r] > 0
      <4>1. s = r /\ res.status = "sent" /\ <<s, res>> \in answers[p]
        BY <1>1, <2>2, <3>1 DEF Commit
      <4>2. QED
        BY <1>0, <4>1, SentIsAccepted
    <3>2. ASSUME NEW p \in Passes, NEW n \in Names, Ingest(p, n)
          PROVE  FALSE
      BY <1>1, <2>2, <3>2 DEF Ingest
    <3>3. ASSUME NEW q \in Requests,
                 (\E f \in Files : RetryFile(q, f)) \/ (\E s \in Records : RetryRecord(q, s))
          PROVE  FALSE
      BY <1>1, <2>2, <3>3 DEF RetryFile, RetryRecord, Retry, ResetRecords
    <3>4. QED
      BY <1>1, <2>2, <3>1, <3>2, <3>3, RecordsWrittenBy
  <2>3. QED
    BY <2>1, <2>2
<1>2. ASSUME NEW p \in Passes, NEW r \in Records, <<r, Accepted>> \in answers'[p]
      PROVE  accepted'[r] > 0
  <2>1. CASE <<r, Accepted>> \in answers[p]
    BY <1>0, <2>1
  <2>2. CASE <<r, Accepted>> \notin answers[p]
    <3>1. ASSUME NEW g \in Passes, NEW s \in Records, SendOne(g, s)
          PROVE  accepted'[r] > 0
      <4>1. PICK res \in Answerable(s), took \in BOOLEAN :
               /\ Bureau(s, res, took)
               /\ answers' \in {answers, [answers EXCEPT ![g] = @ \cup {<<s, res>>}]}
        BY <3>1 DEF SendOne
      <4>2. answers' # answers
        BY <1>2, <2>2
      <4>3. answers' = [answers EXCEPT ![g] = @ \cup {<<s, res>>}]
        BY <4>1, <4>2
      <4>4. g = p /\ <<r, Accepted>> = <<s, res>>
        BY <1>2, <2>2, <4>3
      <4>5. s = r /\ res = Accepted
        BY <4>4
      <4>6. QED
        <5>1. took
          BY <4>1, <4>5 DEF Bureau
        <5>2. accepted' = IF accepted[r] < 2
                          THEN [accepted EXCEPT ![r] = @ + 1] ELSE accepted
          BY <4>1, <4>5, <5>1 DEF Bureau
        <5>3. QED
          BY <5>2
    <3>2. ASSUME NEW g \in Passes, NEW s \in Records, NEW res \in SendResults,
                 Commit(g, s, res)
          PROVE  FALSE
      BY <1>2, <2>2, <3>2 DEF Commit
    <3>3. ASSUME NEW g \in Passes, \/ Finish(g) \/ Drained(g)
                                   \/ RaiseInWave(g) \/ RaiseElsewhere(g) \/ Crash(g)
          PROVE  FALSE
      BY <1>2, <2>2, <3>3 DEF Finish, Drained, RaiseInWave, RaiseElsewhere, Crash,
           WriteErrorRun, Leave
    <3>4. QED
      BY <1>2, <2>2, <3>1, <3>2, <3>3, AnswersWrittenBy
  <2>3. QED
    BY <2>1, <2>2
<1>3. ASSUME NEW f \in Files, fstatus'[f] = "sent", NEW r \in RecordsOf(f)
      PROVE  accepted'[r] > 0
  <2>1. CASE fstatus[f] = "sent"
    BY <1>0, <2>1 DEF RecordsOf
  <2>2. CASE fstatus[f] # "sent"
    <3>1. ASSUME NEW p \in Passes, NEW n \in Names, Ingest(p, n)
          PROVE  FALSE
      BY <1>3, <2>2, <3>1 DEF Ingest
    <3>2. ASSUME NEW a \in Actors, NEW label, RecomputeWrite(a, label)
          PROVE  accepted'[r] > 0
      <4>1. f = cur[a] /\ AggregateStatus(snap[a]) = "sent"
        BY <1>3, <2>2, <3>2 DEF RecomputeWrite
      <4>2. pc[a] = "write" /\ snap[a] \subseteq {"sent"}
        BY <3>2, <4>1, AggregateSent DEF RecomputeWrite
      <4>3. QED
        BY <1>0, <1>3, <4>1, <4>2 DEF RecordsOf
    <3>3. QED
      BY <1>3, <2>2, <3>1, <3>2, FilesWrittenBy DEF PassWrite, RequestWrite, Actors
  <2>3. QED
    BY <2>1, <2>2
<1>4. ASSUME NEW a \in Actors, pc'[a] = "write", snap'[a] \subseteq {"sent"},
             NEW r \in RecordsOf(cur'[a])
      PROVE  accepted'[r] > 0
  <2>1. CASE pc[a] = "write" /\ snap'[a] = snap[a] /\ cur'[a] = cur[a]
    BY <1>0, <1>4, <2>1 DEF RecordsOf
  <2>2. ASSUME NEW f, RecomputeRead(a, f)
        PROVE  accepted'[r] > 0
    <3>1. snap'[a] = Statuses(f) /\ cur'[a] = f
      BY <2>2 DEF RecomputeRead, Actors
    <3>2. r \in RecordsOf(f) /\ Statuses(f) \subseteq {"sent"}
      BY <1>4, <3>1
    <3>3. r \in Records /\ status[r] = "sent"
      BY <3>2 DEF RecordsOf, Statuses
    <3>4. QED
      BY <1>0, <3>3
  <2>3. QED
    BY <1>4, <2>1, <2>2, AboutToWrite
<1>5. QED
  BY <1>1, <1>2, <1>3, <1>4 DEF RecordsOf

-----------------------------------------------------------------------------
(***************************************************************************)
(* What is archived is settled.                                            *)
(***************************************************************************)

\* A settled record is opened by an operator or not at all.
LEMMA SettledStays ==
  ASSUME IInv, [Next]_vars, NEW r \in Records, Settled(r)
  PROVE  Settled(r)'
<1>0. retried \subseteq retried'
  BY HistoryGrows DEF IInv
<1> USE UploaderAssumption DEF IInv, TypeOK, Settled
<1>1. CASE r \in retried
  BY <1>0, <1>1
<1>2. CASE status[r] \in Terminal
  <2>1. ASSUME NEW p \in Passes, NEW n \in Names, Ingest(p, n)
        PROVE  status'[r] = status[r]
    BY <1>2, <2>1 DEF Ingest, Ingested, RowInv, Terminal
  <2>2. ASSUME NEW p \in Passes, NEW s \in Records, NEW res \in SendResults, Commit(p, s, res)
        PROVE  status'[r] = status[r]
    BY <1>2, <2>2 DEF Commit, InHandIsSendable, InHand, Answered, Sendable, Terminal
  <2>3. ASSUME NEW q \in Requests,
               (\E f \in Files : RetryFile(q, f)) \/ (\E s \in Records : RetryRecord(q, s))
        PROVE  Settled(r)'
    BY <1>2, <2>3 DEF RetryFile, RetryRecord, Retry, ResetRecords
  <2>4. QED
    BY <1>2, <2>1, <2>2, <2>3, RecordsWrittenBy
<1>3. QED
  BY <1>1, <1>2

\* A pass archives what its query returned, less what it has dealt with, and
\* marks the file it has moved.
LEMMA ArchiveWork ==
  ASSUME TypeOK, [Next]_vars, NEW p \in Passes, pc'[p] \in {"archive", "rename", "mark"}
  PROVE  /\ \/ pc[p] \in {"archive", "rename", "mark"} /\ work'[p] \subseteq work[p]
            \/ ArchivePlan(p)
         /\ pc'[p] \in {"rename", "mark"} =>
               \/ pc[p] \in {"rename", "mark"} /\ cur'[p] = cur[p]
               \/ \E f \in Files : ArchiveMatch(p, f)
         /\ pc'[p] = "rename" => \/ pc[p] = "rename" /\ cur'[p] = cur[p]
                                 \/ \E f \in Files : ArchiveMatch(p, f)
<1> DEFINE Kept == /\ pc[p] = pc'[p] /\ cur'[p] = cur[p]
                   /\ work'[p] \subseteq work[p]
<1> USE UploaderAssumption DEF TypeOK, Actors, Goto
<1>1. ASSUME NEW g \in Passes, g # p, PassNext(g) \/ PassFault(g)
      PROVE  Kept
  <2>1. CASE Start(g) \/ Scan(g) \/ Select(g) \/ Resend(g) \/ SendEnd(g)
    BY <1>1, <2>1 DEF Start, Scan, Select, Resend, SendEnd
  <2>2. CASE PassWrite(g) \/ ArchivePlan(g) \/ ArchiveMove(g) \/ ArchiveMark(g)
    BY <1>1, <2>2 DEF PassWrite, RecomputeWrite, ArchivePlan, ArchiveMove, ArchiveMark
  <2>3. CASE Finish(g) \/ Drained(g) \/ PassFault(g)
    BY <1>1, <2>3 DEF Finish, Drained, PassFault, RaiseInWave, RaiseElsewhere, Crash,
         WriteErrorRun, Leave
  <2>4. ASSUME NEW n \in Names, Ingest(g, n) PROVE Kept
    BY <1>1, <2>4 DEF Ingest
  <2>5. ASSUME NEW r \in Records, \/ Submit(g, r) \/ SendOne(g, r)
                                  \/ \E res \in SendResults : Commit(g, r, res)
        PROVE  Kept
    BY <1>1, <2>5 DEF Submit, SendOne, Commit
  <2>6. ASSUME NEW f \in Files, PassRead(g, f) \/ ArchiveAbsent(g, f) \/ ArchiveMatch(g, f)
        PROVE  Kept
    BY <1>1, <2>6 DEF PassRead, RecomputeRead, ArchiveAbsent, ArchiveMatch
  <2>7. QED
    BY <1>1, <2>1, <2>2, <2>3, <2>4, <2>5, <2>6 DEF PassNext
<1>2. ASSUME PassNext(p) \/ PassFault(p), ~ArchivePlan(p),
             \A f \in Files : ~ArchiveMatch(p, f) /\ ~ArchiveAbsent(p, f),
             ~ArchiveMove(p), ~ArchiveMark(p)
      PROVE  Kept
  <2>1. CASE Start(p) \/ Scan(p) \/ Select(p) \/ Resend(p) \/ SendEnd(p)
    BY <2>1 DEF Start, Scan, Select, Resend, SendEnd
  <2>2. CASE PassWrite(p)
    BY <2>2 DEF PassWrite, RecomputeWrite
  <2>3. CASE Finish(p) \/ Drained(p) \/ PassFault(p)
    BY <2>3 DEF Finish, Drained, PassFault, RaiseInWave, RaiseElsewhere, Crash,
         WriteErrorRun, Leave
  <2>4. ASSUME NEW n \in Names, Ingest(p, n) PROVE Kept
    BY <2>4 DEF Ingest
  <2>5. ASSUME NEW r \in Records, \/ Submit(p, r) \/ SendOne(p, r)
                                  \/ \E res \in SendResults : Commit(p, r, res)
        PROVE  Kept
    BY <2>5 DEF Submit, SendOne, Commit
  <2>6. ASSUME NEW f \in Files, PassRead(p, f)
        PROVE  Kept
    BY <2>6 DEF PassRead, RecomputeRead
  <2>7. QED
    BY <1>2, <2>1, <2>2, <2>3, <2>4, <2>5, <2>6 DEF PassNext
<1>3. CASE ArchivePlan(p)
  BY <1>3 DEF ArchivePlan
<1>4. CASE \/ \E f \in Files : ArchiveMatch(p, f) \/ ArchiveAbsent(p, f)
         \/ ArchiveMove(p) \/ ArchiveMark(p)
  <2>1. ASSUME NEW f \in Files, ArchiveMatch(p, f) \/ ArchiveAbsent(p, f)
        PROVE  pc[p] = "archive" /\ work'[p] \subseteq work[p]
    BY <2>1 DEF ArchiveMatch, ArchiveAbsent
  <2>2. ASSUME NEW f \in Files, ArchiveAbsent(p, f)
        PROVE  pc'[p] = "archive"
    BY <2>2 DEF ArchiveAbsent
  <2>3. CASE ArchiveMove(p)
    BY <2>3 DEF ArchiveMove
  <2>4. CASE ArchiveMark(p)
    BY <2>4 DEF ArchiveMark
  <2>5. QED
    BY <1>4, <2>1, <2>2, <2>3, <2>4
<1>5. ASSUME NEW q \in Requests, RequestNext(q)
      PROVE  Kept
  BY <1>5 DEF RequestNext, Retry, RetryFile, RetryRecord, RequestRead, RecomputeRead,
       RequestWrite, RecomputeWrite, RequestDies
<1>6. ASSUME NEW f \in Files, Drop(f)
      PROVE  Kept
  BY <1>6 DEF Drop
<1>7. QED
  BY <1>1, <1>2, <1>3, <1>4, <1>5, <1>6 DEF Next, vars

\* Every step keeps what is archived, and what is going to be, settled.
LEMMA ArchiveStep ==
  ASSUME IInv, ArchiveInv, [Next]_vars
  PROVE  ArchiveInv'
<1>0. ASSUME NEW f \in Files, AllSettled(f)
      PROVE  AllSettled(f)'
  BY <1>0, SettledStays DEF AllSettled, RecordsOf
<1>1. ASSUME NEW p \in Passes, pc'[p] \in {"archive", "rename", "mark"}, NEW f \in work'[p]
      PROVE  AllSettled(f)'
  <2>1. CASE ArchivePlan(p)
    <3>1. f \in Files /\ AllSettled(f)
      BY <1>1, <2>1 DEF ArchivePlan, Archivable, Ingested, AllSettled, Settled, Statuses,
           RecordsOf, IInv, TypeOK
    <3>2. QED
      BY <1>0, <3>1
  <2>2. CASE pc[p] \in {"archive", "rename", "mark"} /\ work'[p] \subseteq work[p]
    BY <1>0, <1>1, <2>2 DEF ArchiveInv, IInv, TargetInv, Ingested
  <2>3. QED
    BY <1>1, <2>1, <2>2, ArchiveWork DEF IInv
<1>2. ASSUME NEW p \in Passes, pc'[p] \in {"rename", "mark"}
      PROVE  AllSettled(cur[p])' /\ cur'[p] \in Files
  <2>1. CASE pc[p] \in {"rename", "mark"} /\ cur'[p] = cur[p]
    BY <1>0, <2>1 DEF ArchiveInv, IInv, TargetInv, Ingested, AllSettled, RecordsOf
  <2>2. ASSUME NEW f \in Files, ArchiveMatch(p, f)
        PROVE  AllSettled(cur[p])' /\ cur'[p] \in Files
    <3>1. cur'[p] = f /\ AllSettled(f)
      BY <2>2 DEF ArchiveMatch, ArchiveInv, IInv, TypeOK, Actors
    <3>2. QED
      BY <1>0, <3>1 DEF AllSettled, RecordsOf
  <2>3. QED
    BY <1>2, <2>1, <2>2, ArchiveWork DEF IInv
<1>3. ASSUME NEW f \in archived'
      PROVE  AllSettled(f)'
  <2>1. f \in Files /\ AllSettled(f)
    <3>1. CASE f \in archived
      BY <3>1 DEF ArchiveInv, ArchivedIsSettled, AllSettled, Settled, IInv, TypeOK
    <3>2. ASSUME NEW p \in Passes, NEW g \in Files, ArchiveAbsent(p, g), f = g
          PROVE  f \in Files /\ AllSettled(f)
      BY <3>2 DEF ArchiveAbsent, ArchiveInv
    <3>3. ASSUME NEW p \in Passes, ArchiveMark(p), f = cur[p]
          PROVE  f \in Files /\ AllSettled(f)
      BY <3>3 DEF ArchiveMark, ArchiveInv, IInv, TargetInv, Ingested
    <3>4. QED
      BY <1>3, <3>1, <3>2, <3>3, ArchivedWrittenBy DEF ArchiveAbsent, ArchiveMark
  <2>2. QED
    BY <1>0, <2>1
<1>4. QED
  BY <1>1, <1>2, <1>3 DEF ArchiveInv, ArchivedIsSettled, AllSettled, Settled

-----------------------------------------------------------------------------
(***************************************************************************)
(* A successful run leaves nothing pending.                                *)
(***************************************************************************)

\* While one pass runs no other takes a step.
LEMMA OthersWait ==
  ASSUME IInv, NEW p \in Passes, NEW g \in Passes, pc[p] # "idle",
         PassNext(g) \/ PassFault(g)
  PROVE  g = p
<1>1. CASE pc[g] # "idle"
  BY <1>1, Alone
<1>2. CASE pc[g] = "idle"
  <2>1. lock = p /\ p # NoPass
    BY UploaderAssumption DEF IInv, LockInv
  <2>2. \A r \in Records : ~SendOne(g, r)
    BY <1>2 DEF IInv, HandInv, SendOne
  <2>3. QED
    BY <1>2, <2>1, <2>2 DEF PassNext, PassFault, Start, Scan, Ingest, Select, Submit,
       Commit, Resend, SendEnd, PassRead, RecomputeRead, PassWrite, RecomputeWrite,
       ArchivePlan, ArchiveAbsent, ArchiveMatch,
       ArchiveMove, ArchiveMark, Finish, Drained,
       RaiseInWave, RaiseElsewhere, Crash
<1>3. QED
  BY <1>1, <1>2

\* Besides ingestion only an operator makes a record pending.
LEMMA PendingBy ==
  ASSUME IInv, [Next]_vars, NEW r \in Records, status'[r] = "pending",
         r \notin retried'
  PROVE  \/ status[r] = "pending" /\ \A p \in Passes, res \in SendResults : ~Commit(p, r, res)
         \/ \E p \in Passes, n \in Names : Ingest(p, n)
<1> USE DEF IInv, TypeOK
<1>1. ASSUME NEW p \in Passes, NEW s \in Records, NEW res \in SendResults, Commit(p, s, res)
      PROVE  status[r] = "pending" /\ s # r
  BY <1>1, ResultFacts DEF Commit
<1>2. ASSUME NEW q \in Requests,
             (\E f \in Files : RetryFile(q, f)) \/ (\E s \in Records : RetryRecord(q, s))
      PROVE  status[r] = "pending"
  BY <1>2 DEF RetryFile, RetryRecord, Retry, ResetRecords
<1>3. QED
  BY <1>1, <1>2, RecordsWrittenBy

\* When a pass takes a step, every other one waits for the lock and is not moved.
LEMMA IdleWaits ==
  ASSUME IInv, NEW p \in Passes, NEW g \in Passes, g # p, PassNext(g) \/ PassFault(g)
  PROVE  pc'[p] = "idle"
<1>1. pc[p] = "idle"
  BY OthersWait
<1>2. pc'[p] = pc[p]
  BY DEF PassNext, PassFault, Start, Scan, Ingest, Select, Submit, SendOne, Commit,
     Resend, SendEnd, PassRead, RecomputeRead, PassWrite, RecomputeWrite,
     ArchivePlan, ArchiveAbsent, ArchiveMatch,
       ArchiveMove, ArchiveMark, Finish, Drained,
     RaiseInWave, RaiseElsewhere, Crash, WriteErrorRun, Leave, IInv, TypeOK, Actors, Goto
<1>3. QED
  BY <1>1, <1>2

\* A pass enters its send stage by selecting, and keeps there what is not yet
\* committed: submitted records, answered ones, and in a second wave the stale ones.
LEMMA SendWork ==
  ASSUME IInv, [Next]_vars, NEW p \in Passes, pc'[p] = "send", ~Select(p)
  PROVE  /\ pc[p] = "send"
         /\ \A r \in Unsettled(p) :
               \/ r \in Unsettled(p)'
               \/ \E res \in SendResults : Commit(p, r, res)
<1> DEFINE Goal == /\ pc[p] = "send"
                   /\ \A r \in Unsettled(p) :
                         \/ r \in Unsettled(p)'
                         \/ \E res \in SendResults : Commit(p, r, res)
<1> USE UploaderAssumption DEF IInv, TypeOK, Actors, Goto, Unsettled, Answered, sendVars
<1>1. ASSUME NEW r \in Records, Submit(p, r)
      PROVE  Goal
  BY <1>1 DEF Submit
<1>2. ASSUME NEW r \in Records, SendOne(p, r)
      PROVE  Goal
  <2>1. PICK res \in Answerable(r) :
          answers' = [answers EXCEPT ![p] = @ \cup {<<r, res>>}]
    BY <1>2 DEF SendOne
  <2>2. res \in SendResults
    BY AnswerableType
  <2>3. pc' = pc /\ todo' = todo /\ flying'[p] = flying[p] \ {r}
    BY <1>2 DEF SendOne
  <2>4. /\ answers[p] \subseteq answers'[p]
        /\ <<r, res>> \in answers'[p]
    BY <2>1
  <2>5. QED
    BY <2>2, <2>3, <2>4
<1>3. ASSUME NEW r \in Records, NEW res \in SendResults, Commit(p, r, res)
      PROVE  Goal
  <2>1. pc[p] = "send" /\ todo' = todo /\ flying' = flying
    BY <1>3 DEF Commit
  <2>2. \A x \in answers[p] : x \in answers'[p] \/ x = <<r, res>>
    BY <1>3 DEF Commit
  <2>3. QED
    BY <1>3, <2>1, <2>2
<1>4. ASSUME Resend(p)
      PROVE  Goal
  BY <1>4 DEF Resend, WaveDrained
<1>5. ASSUME \/ Start(p) \/ Scan(p) \/ SendEnd(p) \/ PassWrite(p) \/ ArchivePlan(p)
             \/ ArchiveMove(p) \/ ArchiveMark(p) \/ Finish(p) \/ Drained(p)
             \/ PassFault(p)
      PROVE  Goal
  BY <1>5 DEF Start, Scan, SendEnd, PassWrite, RecomputeWrite, ArchivePlan,
     ArchiveMove, ArchiveMark, Finish, Drained, PassFault, RaiseInWave, RaiseElsewhere, Crash,
     WriteErrorRun, Leave
<1>6. ASSUME NEW n \in Names, Ingest(p, n)
      PROVE  Goal
  BY <1>6 DEF Ingest
<1>7. ASSUME NEW f \in Files, PassRead(p, f) \/ ArchiveAbsent(p, f) \/ ArchiveMatch(p, f)
      PROVE  Goal
  BY <1>7 DEF PassRead, RecomputeRead, ArchiveAbsent, ArchiveMatch
<1>8. ASSUME NEW q \in Requests, RequestNext(q)
      PROVE  Goal
  BY <1>8 DEF RequestNext, Retry, RetryFile, RetryRecord, RequestRead, RecomputeRead,
       RequestWrite, RecomputeWrite, RequestDies
<1>9. ASSUME NEW f \in Files, Drop(f)
       PROVE  Goal
  BY <1>9 DEF Drop
<1>10. ASSUME UNCHANGED vars
       PROVE  Goal
  BY <1>10 DEF vars
<1> HIDE DEF Goal, IInv, TypeOK, Actors, Goto, Unsettled, Answered, sendVars
<1>11. ASSUME PassNext(p)
       PROVE  Goal
  BY <1>11, <1>1, <1>2, <1>3, <1>4, <1>5, <1>6, <1>7 DEF PassNext
<1>12. ASSUME PassFault(p)
       PROVE  Goal
  BY <1>12, <1>5
<1>13. ASSUME NEW g \in Passes, PassNext(g) \/ PassFault(g)
       PROVE  Goal
  BY <1>11, <1>12, <1>13, IdleWaits
<1>14. Goal
  BY <1>8, <1>9, <1>10, <1>13 DEF Next
<1>15. QED
  BY <1>14 DEF Goal

\* A pass past its send stage got there by SendEnd, and does not change its
\* verdict afterwards.
LEMMA LateWork ==
  ASSUME IInv, [Next]_vars, NEW p \in Passes, pc'[p] \in Late
  PROVE  SendEnd(p) \/ (pc[p] \in Late /\ aborted'[p] = aborted[p])
<1> DEFINE Goal == SendEnd(p) \/ (pc[p] \in Late /\ aborted'[p] = aborted[p])
<1> USE UploaderAssumption DEF IInv, TypeOK, Actors, Goto, Late, sendVars
<1>1. ASSUME \/ Start(p) \/ Scan(p) \/ Select(p) \/ Resend(p) \/ SendEnd(p)
             \/ PassWrite(p) \/ ArchivePlan(p) \/ ArchiveMove(p) \/ ArchiveMark(p)
      PROVE  Goal
  BY <1>1 DEF Start, Scan, Select, Resend, PassWrite, RecomputeWrite, ArchivePlan,
     ArchiveMove, ArchiveMark
<1>2. ASSUME Finish(p) \/ Drained(p) \/ PassFault(p)
      PROVE  Goal
  BY <1>2 DEF Finish, Drained, PassFault, RaiseInWave, RaiseElsewhere, Crash,
     WriteErrorRun, Leave
<1>3. ASSUME NEW n \in Names, Ingest(p, n)
      PROVE  Goal
  BY <1>3 DEF Ingest
<1>4. ASSUME NEW r \in Records, \/ Submit(p, r) \/ SendOne(p, r)
                                \/ \E res \in SendResults : Commit(p, r, res)
      PROVE  Goal
  BY <1>4 DEF Submit, SendOne, Commit
<1>5. ASSUME NEW f \in Files, PassRead(p, f) \/ ArchiveAbsent(p, f) \/ ArchiveMatch(p, f)
      PROVE  Goal
  BY <1>5 DEF PassRead, RecomputeRead, ArchiveAbsent, ArchiveMatch
<1>6. ASSUME NEW q \in Requests, RequestNext(q)
      PROVE  Goal
  BY <1>6 DEF RequestNext, Retry, RetryFile, RetryRecord, RequestRead, RecomputeRead,
       RequestWrite, RecomputeWrite, RequestDies
<1>7. ASSUME NEW f \in Files, Drop(f)
      PROVE  Goal
  BY <1>7 DEF Drop
<1>8. ASSUME UNCHANGED vars
      PROVE  Goal
  BY <1>8 DEF vars
<1> HIDE DEF Goal, IInv, TypeOK, Actors, Goto, sendVars
<1>9. ASSUME PassNext(p) \/ PassFault(p)
      PROVE  Goal
  BY <1>9, <1>1, <1>2, <1>3, <1>4, <1>5 DEF PassNext
<1>10. ASSUME NEW g \in Passes, PassNext(g) \/ PassFault(g)
       PROVE  Goal
  BY <1>9, <1>10, IdleWaits
<1>11. Goal
  BY <1>6, <1>7, <1>8, <1>10 DEF Next
<1>12. QED
  BY <1>11 DEF Goal

\* Every pending record stays in the hand of the pass that is sending.
LEMMA PendingStep ==
  ASSUME IInv, PendingInv, [Next]_vars
  PROVE  PendingInv'
<1>0. retried \subseteq retried'
  BY HistoryGrows DEF IInv
<1>1. ASSUME NEW p \in Passes, pc[p] \in {"send"} \cup Late,
             NEW r \in Records, status'[r] = "pending", r \notin retried'
      PROVE  /\ status[r] = "pending" /\ r \notin retried
             /\ \A res \in SendResults : ~Commit(p, r, res)
  <2>1. ASSUME NEW g \in Passes, NEW n \in Names, Ingest(g, n)
        PROVE  FALSE
    <3>1. pc[g] = "ingest"
      BY <2>1 DEF Ingest
    <3>2. QED
      BY <1>1, <3>1, Alone DEF Late
  <2>2. QED
    BY <1>0, <1>1, <2>1, PendingBy
<1>2. ASSUME NEW p \in Passes, pc'[p] = "send"
      PROVE  PendingIn(Unsettled(p))'
  <2>1. CASE Select(p)
    <3>1. ASSUME NEW r \in Records, status[r] = "pending"
          PROVE  r \in todo'[p]
      BY <2>1, <3>1, UploaderAssumption DEF Select, Sendable, IInv, TypeOK, FreshInv
    <3>2. UNCHANGED status
      BY <2>1 DEF Select, dbVars
    <3>3. QED
      BY <3>1, <3>2 DEF PendingIn, Unsettled
  <2>2. CASE ~Select(p)
    BY <1>1, <1>2, <2>2, SendWork DEF PendingInv, PendingIn
  <2>3. QED
    BY <2>1, <2>2
<1>3. ASSUME NEW p \in Passes, pc'[p] \in Late, ~aborted'[p]
      PROVE  PendingIn({})'
  <2>1. CASE SendEnd(p)
    <3>1. todo[p] = {}
      BY <1>3, <2>1 DEF SendEnd, AbortFlag, IInv, TypeOK
    <3>2. Unsettled(p) = {}
      BY <2>1, <3>1 DEF SendEnd, WaveDrained, Unsettled, Answered
    <3>3. PendingIn({}) /\ UNCHANGED <<status, retried>>
      BY <2>1, <3>2 DEF SendEnd, PendingInv, PendingIn, dbVars, ghostVars
    <3>4. QED
      BY <3>3 DEF PendingIn
  <2>2. CASE pc[p] \in Late /\ aborted'[p] = aborted[p]
    BY <1>1, <1>3, <2>2 DEF PendingInv, PendingIn
  <2>3. QED
    BY <1>3, <2>1, <2>2, LateWork
<1>4. QED
  BY <1>2, <1>3 DEF PendingInv, Late

-----------------------------------------------------------------------------
(***************************************************************************)
(* No content is lost.                                                     *)
(***************************************************************************)

\* Content kept elsewhere stays so: the rename puts the file under a name nothing
\* else has, or under its own hash if that is taken.
LEMMA ElsewhereStays ==
  ASSUME IInv, PlaceInv, [Next]_vars, NEW f \in Files, Elsewhere(f)
  PROVE  Elsewhere(f)'
<1> USE UploaderAssumption DEF IInv, TypeOK, Elsewhere
<1>1. ASSUME NEW g \in Files, Drop(g)
      PROVE  Elsewhere(f)'
  BY <1>1 DEF Drop
<1>2. ASSUME NEW p \in Passes, ArchiveMove(p)
      PROVE  Elsewhere(f)'
  <2>1. pc[p] = "rename" /\ overwritten' = overwritten /\ cur[p] \in Files
    BY <1>2 DEF ArchiveMove, ghostVars, TargetInv, Ingested
  <2>2. CASE archivePlain[NameOf[f]] = f
    BY <1>2, <2>1, <2>2 DEF ArchiveMove, Store
  <2>3. CASE archiveSha[f] = f /\ cur[p] # f
    BY <1>2, <2>1, <2>3 DEF ArchiveMove, Store
  <2>4. CASE archiveSha[f] = f /\ cur[p] = f
    <3>1. inbox[NameOf[f]] = f \/ f \in overwritten
      BY <2>1, <2>4 DEF PlaceInv, RenameInv
    <3>2. QED
      BY <1>2, <2>1, <2>4, <3>1 DEF ArchiveMove, Store
  <2>5. QED
    BY <2>1, <2>2, <2>3, <2>4
<1>3. QED
  BY <1>1, <1>2, FoldersWrittenBy

\* What is on disk, or was replaced, stays so: a newer version counts the one it
\* replaces, and the rename stores what it takes from the inbox.
LEMMA SafeStays ==
  ASSUME IInv, PlaceInv, [Next]_vars, NEW f \in Files, f \in Ingested, Safe(f)
  PROVE  Safe(f)'
<1>1. CASE Elsewhere(f)
  BY <1>1, ElsewhereStays DEF Safe
<1>2. CASE inbox[NameOf[f]] = f
  <2> USE UploaderAssumption DEF IInv, TypeOK
  <2>1. ASSUME NEW g \in Files, Drop(g)
        PROVE  Safe(f)'
    BY <1>2, <2>1 DEF Drop, Safe, Elsewhere
  <2>2. ASSUME NEW p \in Passes, ArchiveMove(p), ~Elsewhere(f)
        PROVE  Safe(f)'
    <3>1. pc[p] = "rename" /\ cur[p] \in Files
      BY <2>2 DEF ArchiveMove, TargetInv, Ingested
    <3>2. CASE NameOf[f] = NameOf[cur[p]]
      <4>1. cur[p] = f
        BY <1>2, <2>2, <3>1, <3>2 DEF PlaceInv, RenameInv
      <4>2. QED
        BY <1>2, <2>2, <3>1, <4>1 DEF ArchiveMove, Store, Safe, Elsewhere
    <3>3. CASE NameOf[f] # NameOf[cur[p]]
      BY <1>2, <2>2, <3>1, <3>3 DEF ArchiveMove, Safe
    <3>4. QED
      BY <3>2, <3>3
  <2>3. CASE UNCHANGED <<inbox, archivePlain, archiveSha, overwritten>>
    BY <1>2, <2>3 DEF Safe
  <2>4. QED
    BY <1>1, <2>1, <2>2, <2>3, FoldersWrittenBy
<1>3. QED
  BY <1>1, <1>2 DEF Safe

\* Between the hash and the rename nobody ingests, and a newer version counts the
\* one it replaces.
LEMMA RenameStep ==
  ASSUME IInv, PlaceInv, [Next]_vars
  PROVE  RenameInv'
<1> DEFINE Held(p) == inbox[NameOf[cur[p]]]
           Ok(p) == /\ Held(p) # NoFile
                    /\ Held(p) # cur[p] =>
                         /\ cur[p] \in overwritten
                         /\ Held(p) \in Ingested => Elsewhere(Held(p))
<1> SUFFICES ASSUME NEW p \in Passes, pc'[p] = "rename"
             PROVE  Ok(p)'
  BY DEF RenameInv
<1>1. ASSUME NEW f \in Files, ArchiveMatch(p, f)
      PROVE  Ok(p)'
  <2>1. cur'[p] = f /\ inbox'[NameOf[f]] = f
    BY <1>1 DEF ArchiveMatch, fsVars, IInv, TypeOK, Actors
  <2>2. QED
    BY <2>1, UploaderAssumption
<1>2. CASE pc[p] = "rename" /\ cur'[p] = cur[p]
  <2>1. cur[p] \in Files /\ NameOf[cur[p]] \in Names /\ Ok(p)
    BY <1>2, UploaderAssumption DEF IInv, TargetInv, Ingested, PlaceInv, RenameInv
  <2>2. ASSUME NEW f \in Files, f \in Ingested'
        PROVE  f \in Ingested
    <3>1. ASSUME NEW g \in Passes, NEW n \in Names, Ingest(g, n)
          PROVE  FALSE
      BY <1>2, <3>1, Alone DEF Ingest
    <3>2. QED
      BY <2>2, <3>1, IngestedStep DEF IInv
  <2>3. ASSUME NEW h \in Files, Drop(h)
        PROVE  Ok(p)'
    <3>1. /\ inbox' = [inbox EXCEPT ![NameOf[h]] = h]
          /\ overwritten' = overwritten \cup ({inbox[NameOf[h]]} \cap Files)
          /\ inbox[NameOf[h]] # h
      BY <2>3 DEF Drop
    <3>2. CASE NameOf[h] = NameOf[cur[p]]
      <4>1. Held(p)' = h
        BY <1>2, <2>1, <3>1, <3>2 DEF IInv, TypeOK
      <4>2. cur[p] \in overwritten'
        BY <2>1, <3>1, <3>2
      <4>3. h \in Ingested => Elsewhere(h)
        BY <3>1 DEF PlaceInv, NoFileLost, Elsewhere
      <4>4. h \in Ingested => Elsewhere(h)'
        BY <4>3, ElsewhereStays
      <4>5. QED
        BY <1>2, <2>2, <4>1, <4>2, <4>4, UploaderAssumption
    <3>3. CASE NameOf[h] # NameOf[cur[p]]
      <4>1. Held(p)' = Held(p)
        BY <1>2, <2>1, <3>1, <3>3 DEF IInv, TypeOK
      <4>2. Held(p) \in Files
        BY <2>1 DEF IInv, TypeOK
      <4>3. cur[p] \in overwritten => cur[p] \in overwritten'
        BY <3>1
      <4>4. Elsewhere(Held(p)) => Elsewhere(Held(p))'
        BY <4>1, <4>2, ElsewhereStays
      <4>5. QED
        BY <1>2, <2>1, <2>2, <4>1, <4>2, <4>3, <4>4
    <3>4. QED
      BY <3>2, <3>3
  <2>4. ASSUME NEW g \in Passes, ArchiveMove(g)
        PROVE  FALSE
    <3>1. pc[g] = "rename" /\ pc' = [pc EXCEPT ![g] = "mark"]
      BY <2>4 DEF ArchiveMove, Goto
    <3>2. g = p
      BY <1>2, <3>1, Alone
    <3>3. QED
      BY <3>1, <3>2 DEF IInv, TypeOK, Actors
  <2>5. CASE UNCHANGED <<inbox, archivePlain, archiveSha, overwritten>>
    BY <1>2, <2>1, <2>2, <2>5 DEF Elsewhere, IInv, TypeOK
  <2>6. QED
    BY <2>3, <2>4, <2>5, FoldersWrittenBy
<1>3. QED
  BY <1>1, <1>2, ArchiveWork DEF IInv

\* Ingestion reads the file it records under that file's own name.
LEMMA PlaceStep ==
  ASSUME IInv, PlaceInv, [Next]_vars
  PROVE  PlaceInv'
<1>1. ASSUME NEW n \in Names, inbox'[n] # NoFile
      PROVE  NameOf[inbox'[n]] = n
  <2> USE UploaderAssumption DEF IInv, TypeOK, PlaceInv
  <2>1. ASSUME NEW f \in Files, Drop(f)
        PROVE  NameOf[inbox'[n]] = n
    BY <1>1, <2>1 DEF Drop
  <2>2. ASSUME NEW p \in Passes, ArchiveMove(p)
        PROVE  NameOf[inbox'[n]] = n
    BY <1>1, <2>2 DEF ArchiveMove
  <2>3. QED
    BY <1>1, <2>1, <2>2, FoldersWrittenBy
<1>2. ASSUME NEW f \in Ingested'
      PROVE  Safe(f)'
  <2>1. CASE f \in Ingested
    BY <2>1, SafeStays DEF PlaceInv, NoFileLost, Safe, Elsewhere, Ingested
  <2>2. ASSUME NEW p \in Passes, NEW n \in Names, Ingest(p, n), f \notin Ingested
        PROVE  Safe(f)'
    <3>1. f = inbox[n] /\ UNCHANGED inbox
      BY <1>2, <2>2 DEF Ingest, Ingested, IInv, TypeOK, fsVars
    <3>2. n = NameOf[f]
      BY <1>2, <3>1, UploaderAssumption DEF PlaceInv, Ingested
    <3>3. QED
      BY <3>1, <3>2 DEF Safe
  <2>3. QED
    BY <1>2, <2>1, <2>2, IngestedStep DEF IInv
<1>3. QED
  BY <1>1, <1>2, RenameStep DEF PlaceInv, NoFileLost, Safe, Elsewhere

-----------------------------------------------------------------------------
(***************************************************************************)
(* The theorems.                                                           *)
(***************************************************************************)

\* What the delivery promises need, beside IInv.
DeliveryInv == LostInv /\ SentInv /\ ArchiveInv /\ PendingInv /\ PlaceInv

\* An empty database, empty folders and waiting passes satisfy it.
LEMMA InitDeliveryInv == Init => DeliveryInv
<1> SUFFICES ASSUME Init
             PROVE  DeliveryInv
  OBVIOUS
<1> USE UploaderAssumption DEF Init, Actors
<1>1. LostInv
  BY DEF LostInv
<1>2. SentInv
  BY DEF SentInv, SentIsDelivered
<1>3. ArchiveInv
  BY DEF ArchiveInv, ArchivedIsSettled
<1>4. PendingInv
  BY DEF PendingInv, Late
<1>5. PlaceInv
  BY DEF PlaceInv, RenameInv, NoFileLost, Ingested
<1>6. QED
  BY <1>1, <1>2, <1>3, <1>4, <1>5 DEF DeliveryInv

\* Every reachable state of the uploader satisfies the delivery invariant.
THEOREM Delivery == Spec => []DeliveryInv
<1>1. IInv /\ DeliveryInv /\ [Next]_vars => DeliveryInv'
  BY LostStep, DeliveredStep, ArchiveStep, PendingStep, PlaceStep DEF DeliveryInv
<1>2. QED
  BY <1>1, InitDeliveryInv, Invariant, PTL DEF Spec

\* The bureau accepts a record twice only if the answer to an earlier acceptance
\* was lost on the wire, dropped by an exception or lost in a crash.
THEOREM DuplicatesAreExplained == Spec => []DuplicateNeedsLostAnswer
<1>1. DeliveryInv => DuplicateNeedsLostAnswer
  <2> SUFFICES ASSUME DeliveryInv, NEW r \in Records, accepted[r] = 2, r \notin lost
               PROVE  FALSE
    BY DEF DuplicateNeedsLostAnswer
  <2>1. accepted[r] < 2
    BY DEF DeliveryInv, LostInv
  <2>2. QED
    BY <2>1
<1>2. QED
  BY <1>1, Delivery, PTL

\* "sent", of a record and of a file, is never ahead of the bureau.
THEOREM SentMeansDelivered == Spec => []SentIsDelivered
<1>1. DeliveryInv => SentIsDelivered
  BY DEF DeliveryInv, SentInv
<1>2. QED
  BY <1>1, Delivery, PTL

\* An archived file has no open record but those an operator reopened.
THEOREM ArchivedMeansSettled == Spec => []ArchivedIsSettled
<1>1. DeliveryInv => ArchivedIsSettled
  BY DEF DeliveryInv, ArchiveInv
<1>2. QED
  BY <1>1, Delivery, PTL

\* A run recorded as a success leaves no record pending.
THEOREM SuccessMeansNothingPending == Spec => []SuccessLeavesNothingPending
<1>1. DeliveryInv => SuccessLeavesNothingPending
  BY DEF DeliveryInv, PendingInv, PendingIn, Late, SuccessLeavesNothingPending
<1>2. QED
  BY <1>1, Delivery, PTL

\* No ingested content disappears unless a newer version replaced it in the inbox.
THEOREM NothingIsLost == Spec => []NoFileLost
<1>1. DeliveryInv => NoFileLost
  BY DEF DeliveryInv, PlaceInv
<1>2. QED
  BY <1>1, Delivery, PTL
=============================================================================
