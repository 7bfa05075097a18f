---------------------------- MODULE UploadTypes ----------------------------
(***************************************************************************)
(* Vocabulary shared by the modules of the upload pass: the statuses of    *)
(* app/db.py, the part of UploadResult (app/ubki_client.py) that the       *)
(* control flow of app/uploader.py looks at, and the three pure decisions  *)
(* of app/db.py on which everything else rests.                            *)
(***************************************************************************)
EXTENDS Naturals, FiniteSets

\* app/db.py RECORD_STATUSES and FILE_STATUSES.  A row that was never inserted
\* is "none".
RecordStatus == {"pending", "sent", "failed", "rejected"}
FileStatus   == RecordStatus \cup {"partial"}
Terminal     == {"sent", "rejected"}

(***************************************************************************)
(* An UploadResult keeps the status to be written and the three flags that *)
(* send_records tests.  The error texts, the response body and the warning *)
(* codes are written to the row and read by no decision.                   *)
(***************************************************************************)
UploadResult == [status         : {"sent", "failed", "rejected"},
                 isNetworkError : BOOLEAN,
                 sessionExpired : BOOLEAN,
                 isLocalReject  : BOOLEAN]

Result(s, network, stale, local) ==
  [status |-> s, isNetworkError |-> network,
   sessionExpired |-> stale, isLocalReject |-> local]

\* state ok or nt without a rejected component
Accepted == Result("sent", FALSE, FALSE, FALSE)
\* state er, or ok and nt with er > 0
Refused == Result("rejected", FALSE, FALSE, FALSE)
\* 4xx, an unknown state, 200 without JSON
Garbled == Result("failed", FALSE, FALSE, FALSE)
\* transport error, 5xx, state sy
Unreachable == Result("failed", TRUE, FALSE, FALSE)
\* 401, 403, errcode 2014
Stale == Result("failed", TRUE, TRUE, FALSE)

\* the envelope was not sent at all
TooLarge == Result("rejected", FALSE, FALSE, TRUE)

\* What send_prepared can return, and with the oversize check what send_one can.
BureauResults == {Accepted, Refused, Garbled, Unreachable, Stale}
SendResults   == BureauResults \cup {TooLarge}

\* Mutants: the cap tested with <=; failed records never retried.
SendableAtCap(status, attempts, cap) ==
  \/ status = "pending"
  \/ status = "failed" /\ attempts <= cap
SendableOnce(status, attempts, cap) == status = "pending"

\* The WHERE clause of db.sendable_records.
Sendable(status, attempts, cap) ==
  \/ status = "pending"
  \/ status = "failed" /\ attempts < cap

\* db.update_record_result: network-like failures do not burn an attempt.
AttemptsAfter(attempts, res) ==
  IF res.isNetworkError THEN attempts ELSE attempts + 1

\* Mutants: a label no reader of files.status knows; terminal taken for sent.
AggregateMixed(S) == IF Cardinality(S) = 1 THEN CHOOSE s \in S : TRUE ELSE "mixed"
AggregateTerminal(S) ==
  CASE S \subseteq Terminal -> "sent"
    [] S = {"pending"}      -> "pending"
    [] "failed" \in S       -> "failed"
    [] OTHER                -> "partial"

\* The status db.recompute_file_status derives from the set of statuses it has
\* read; the empty set is a file without data lines.
AggregateStatus(S) ==
  CASE S \subseteq {"sent"}      -> "sent"
    [] S = {"pending"}           -> "pending"
    [] "failed" \in S            -> "failed"
    [] S \subseteq Terminal /\ "rejected" \in S -> "rejected"
    [] OTHER                     -> "partial"
=============================================================================
