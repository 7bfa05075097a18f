---------------------------- MODULE RecordLedger ----------------------------
(***************************************************************************)
(* What the records table promises, whoever writes it: rows appear a file  *)
(* at a time, an open row is settled by one answer at a time and never     *)
(* beyond the retry cap, only an operator reopens a row, and a sent row is *)
(* never touched again.  No pass, no lock and no crash appears here;       *)
(* Uploader and SendRecords implement it.                                  *)
(***************************************************************************)
EXTENDS UploadTypes

CONSTANTS Records, RetryCap

VARIABLES status, attempts
ledger == <<status, attempts>>

Init ==
  /\ status = [r \in Records |-> "none"]
  /\ attempts = [r \in Records |-> 0]

\* db.insert_file: the rows of one file, in one transaction.
Insert(R) ==
  /\ \A r \in R : status[r] = "none"
  /\ status' = [r \in Records |-> IF r \in R THEN "pending" ELSE status[r]]
  /\ UNCHANGED attempts

\* db.update_record_result on a row that was open when the answer came.
Settle(r, res) ==
  /\ Sendable(status[r], attempts[r], RetryCap)
  /\ status' = [status EXCEPT ![r] = res.status]
  /\ attempts' = [attempts EXCEPT ![r] = AttemptsAfter(@, res)]

\* db.reset_records.
Reopen(R) ==
  /\ \A r \in R : status[r] \in {"failed", "rejected"}
  /\ status' = [r \in Records |-> IF r \in R THEN "pending" ELSE status[r]]
  /\ attempts' = [r \in Records |-> IF r \in R THEN 0 ELSE attempts[r]]

Next ==
  \/ \E R \in SUBSET Records : Insert(R) \/ Reopen(R)
  \/ \E r \in Records, res \in SendResults : Settle(r, res)

Spec == Init /\ [][Next]_ledger
=============================================================================
