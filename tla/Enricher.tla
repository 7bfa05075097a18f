------------------------------ MODULE Enricher ------------------------------
(***************************************************************************)
(* The enrichment stage of app/enricher.py at the level of files: a run    *)
(* reads raw producer files, joins them with the cabinet database, writes  *)
(* an enriched file to the uploader inbox and a quarantine file, moves the *)
(* raw file away and records its identity.                                 *)
(*                                                                         *)
(* The enricher has a lock of its own, so the uploader ingests and         *)
(* archives while a run writes; the producer drops files, operators take   *)
(* quarantine files and the cabinet changes at any time.  Every rename and *)
(* every commit is a step, and a crash or an exception may come between    *)
(* any two.                                                                *)
(***************************************************************************)
EXTENDS Naturals, FiniteSets

CONSTANTS
  Raws,         \* identities of raw files: filename and sha256
  Names,        \* filenames
  NameOf,       \* the filename of each raw file
  Lines,        \* data lines
  RawOf,        \* the raw file each line is in
  Fragile,      \* raw files that may be unreadable
  Rows,         \* what the cabinet can answer for a line
  NoRow,        \* no answer, or one that sends the line to quarantine
  Volatile,     \* lines whose client's data may change
  Runs,         \* processes that execute app.enrich
  MaxFaults,    \* bound on crashes and exceptions
  Nothing, NoRun

ASSUME EnricherAssumption ==
  /\ NameOf \in [Raws -> Names]
  /\ RawOf \in [Lines -> Raws]
  /\ Fragile \subseteq Raws
  /\ NoRow \notin Rows
  /\ Volatile \subseteq Lines
  /\ Nothing \notin Raws
  /\ NoRun \notin Runs
  /\ MaxFaults \in Nat

VARIABLES
  \* the folders; an output that does not exist is the empty set
  raw,          \* the content under each name in RAW_FOLDER
  young,        \* names there that are younger than min_file_age_sec
  inbox,        \* enriched lines under each path in data_folder
  quarantine,   \* lines under each path in quarantine_folder
  processed,    \* the content under each path in processed_folder
  \* the database
  enrichedFiles,\* the enriched_files table
  ingested,     \* identities in the uploader's files table
  archived,     \* those with archived_at set
  cabinet,      \* what MySQL answers for each line now
  unreadable,   \* raw files in no known encoding, or with deals that are no list
  \* a run
  lock, pc, work,
  cur,          \* the raw file in process
  good, bad,    \* its enriched and its quarantined lines
  target,       \* the path _write_enriched has chosen
  \* history, not part of the program
  taken,        \* lines of quarantine files operators have taken
  interrupted,  \* raw files whose processing was cut short
  faults

folders  == <<raw, young, inbox, quarantine, processed>>
uploader == <<ingested, archived>>
file     == <<cur, good, bad, target>>
history  == <<taken, interrupted, faults>>
vars == <<folders, enrichedFiles, uploader, cabinet, unreadable, lock, pc, work,
          file, history>>

LinesOf(r) == {l \in Lines : RawOf[l] = r}

\* A path in an output folder: the plain name, or the name after the first eight
\* digits of the raw file's hash.
Path == (Raws \cup {Nothing}) \X Names
Plain(r) == <<Nothing, NameOf[r]>>
Prefixed(r) == <<r, NameOf[r]>>

\* The bytes of an enriched file: its lines with what the cabinet said of them.
Output == SUBSET (Lines \X Rows)

TypeOK ==
  /\ raw \in [Names -> Raws \cup {Nothing}]
  /\ young \subseteq Names
  /\ inbox \in [Path -> Output]
  /\ quarantine \in [Path -> SUBSET Lines]
  /\ processed \in [Path -> Raws \cup {Nothing}]
  /\ enrichedFiles \subseteq Raws
  /\ ingested \subseteq Path \X Output
  /\ archived \subseteq ingested
  /\ cabinet \in [Lines -> Rows \cup {NoRow}]
  /\ unreadable \subseteq Fragile
  /\ lock \in Runs \cup {NoRun}
  /\ pc \in [Runs -> {"idle", "scan", "next", "fetch", "choose", "write",
                      "quarantine", "move", "insert"}]
  /\ work \in [Runs -> SUBSET Names]
  /\ cur \in [Runs -> Raws \cup {Nothing}]
  /\ good \in [Runs -> Output]
  /\ bad \in [Runs -> SUBSET Lines]
  /\ target \in [Runs -> Path \cup {Nothing}]
  /\ taken \subseteq Lines
  /\ interrupted \subseteq Raws
  /\ faults \in 0..MaxFaults

Init ==
  /\ raw = [n \in Names |-> Nothing]
  /\ young = {}
  /\ inbox = [p \in Path |-> {}]
  /\ quarantine = [p \in Path |-> {}]
  /\ processed = [p \in Path |-> Nothing]
  /\ enrichedFiles = {}
  /\ ingested = {}
  /\ archived = {}
  /\ cabinet \in [Lines -> Rows \cup {NoRow}]
  /\ unreadable \in SUBSET Fragile
  /\ lock = NoRun
  /\ pc = [e \in Runs |-> "idle"]
  /\ work = [e \in Runs |-> {}]
  /\ cur = [e \in Runs |-> Nothing]
  /\ good = [e \in Runs |-> {}]
  /\ bad = [e \in Runs |-> {}]
  /\ target = [e \in Runs |-> Nothing]
  /\ taken = {}
  /\ interrupted = {}
  /\ faults = 0

-----------------------------------------------------------------------------
(***************************************************************************)
(* External: the producer, the cabinet, the operators.                     *)
(***************************************************************************)
Drop(r) ==
  /\ raw[NameOf[r]] # r
  /\ raw' = [raw EXCEPT ![NameOf[r]] = r]
  /\ young' = young \cup {NameOf[r]}
  /\ UNCHANGED <<inbox, quarantine, processed, enrichedFiles, uploader, cabinet,
                 unreadable, lock, pc, work, file, history>>

Age(n) ==
  /\ n \in young
  /\ young' = young \ {n}
  /\ UNCHANGED <<raw, inbox, quarantine, processed, enrichedFiles, uploader,
                 cabinet, unreadable, lock, pc, work, file, history>>

CabinetChange(l, row) ==
  /\ cabinet[l] # row
  /\ cabinet' = [cabinet EXCEPT ![l] = row]
  /\ UNCHANGED <<folders, enrichedFiles, uploader, unreadable, lock, pc, work,
                 file, history>>

TakeQuarantine(p) ==
  /\ quarantine[p] # {}
  /\ quarantine' = [quarantine EXCEPT ![p] = {}]
  /\ taken' = taken \cup quarantine[p]
  /\ UNCHANGED <<raw, young, inbox, processed, enrichedFiles, uploader, cabinet,
                 unreadable, lock, pc, work, file, interrupted, faults>>

-----------------------------------------------------------------------------
(***************************************************************************)
(* The uploader, as far as the inbox is concerned; module Uploader has the *)
(* rest.  A file whose identity is archived already is left where it is.   *)
(***************************************************************************)
UploaderIngest(p) ==
  /\ inbox[p] # {}
  /\ ingested' = ingested \cup {<<p, inbox[p]>>}
  /\ UNCHANGED <<folders, enrichedFiles, archived, cabinet, unreadable, lock,
                 pc, work, file, history>>

UploaderArchive(p) ==
  /\ <<p, inbox[p]>> \in ingested \ archived
  /\ archived' = archived \cup {<<p, inbox[p]>>}
  /\ inbox' = [inbox EXCEPT ![p] = {}]
  /\ UNCHANGED <<raw, young, quarantine, processed, enrichedFiles, ingested,
                 cabinet, unreadable, lock, pc, work, file, history>>

-----------------------------------------------------------------------------
(***************************************************************************)
(* run_enrich and process_file.                                            *)
(***************************************************************************)
Goto(e, label) == pc' = [pc EXCEPT ![e] = label]

Start(e) ==
  /\ pc[e] = "idle"
  /\ lock = NoRun
  /\ lock' = e
  /\ Goto(e, "scan")
  /\ UNCHANGED <<folders, enrichedFiles, uploader, cabinet, unreadable, work,
                 file, history>>

\* scan_folder over RAW_FOLDER.
Scan(e) ==
  /\ pc[e] = "scan"
  /\ work' = [work EXCEPT ![e] = {n \in Names : raw[n] # Nothing} \ young]
  /\ Goto(e, "next")
  /\ UNCHANGED <<folders, enrichedFiles, uploader, cabinet, unreadable, lock,
                 file, history>>

\* Mutant: the raw file's identity is not looked up.
IsNewAlways(r) == TRUE

IsNew(r) == r \notin enrichedFiles

\* process_file begins: a file already enriched is left alone.
Begin(e, n) ==
  /\ pc[e] = "next"
  /\ n \in work[e]
  /\ work' = [work EXCEPT ![e] = @ \ {n}]
  /\ IF IsNew(raw[n])
     THEN cur' = [cur EXCEPT ![e] = raw[n]] /\ Goto(e, "fetch")
     ELSE UNCHANGED <<cur, pc>>
  /\ UNCHANGED <<folders, enrichedFiles, uploader, cabinet, unreadable, lock,
                 good, bad, target, history>>

\* enrich_line for every line of the file.
Enriched(r) == {<<l, cabinet[l]>> : l \in {k \in LinesOf(r) : cabinet[k] # NoRow}}
Rejected(r) == {l \in LinesOf(r) : cabinet[l] = NoRow}

\* The queries, and what becomes of the lines.
Fetch(e) ==
  /\ pc[e] = "fetch" /\ cur[e] \notin unreadable
  /\ good' = [good EXCEPT ![e] = Enriched(cur[e])]
  /\ bad' = [bad EXCEPT ![e] = Rejected(cur[e])]
  /\ Goto(e, IF Enriched(cur[e]) = {} THEN "quarantine" ELSE "choose")
  /\ UNCHANGED <<folders, enrichedFiles, uploader, cabinet, unreadable, lock,
                 work, cur, target, history>>

\* Mutant: whatever has the name is replaced.
AlwaysPlain(folder, r, data) == Plain(r)

\* The plain name if it is free or holds these very bytes, else the prefixed one.
TargetFor(folder, r, data) ==
  IF folder[Plain(r)] \in {{}, data} THEN Plain(r) ELSE Prefixed(r)

\* _write_enriched: the first look at the inbox.
ChooseTarget(e) ==
  /\ pc[e] = "choose"
  /\ target' = [target EXCEPT ![e] = TargetFor(inbox, cur[e], good[e])]
  /\ Goto(e, "write")
  /\ UNCHANGED <<folders, enrichedFiles, uploader, cabinet, unreadable, lock,
                 work, cur, good, bad, history>>

\* _write_enriched: the identical file is reused, or the hidden temporary file is
\* renamed over the target; the backdated mtime lets the uploader see it at once.
WriteEnriched(e) ==
  /\ pc[e] = "write"
  /\ inbox' = [inbox EXCEPT ![target[e]] = good[e]]
  /\ Goto(e, "quarantine")
  /\ UNCHANGED <<raw, young, quarantine, processed, enrichedFiles, uploader,
                 cabinet, unreadable, lock, work, file, history>>

WriteQuarantine(e) ==
  /\ pc[e] = "quarantine"
  /\ IF bad[e] = {}
     THEN UNCHANGED quarantine
     ELSE quarantine' =
            [quarantine EXCEPT ![TargetFor(quarantine, cur[e], bad[e])] = bad[e]]
  /\ Goto(e, "move")
  /\ UNCHANGED <<raw, young, inbox, processed, enrichedFiles, uploader, cabinet,
                 unreadable, lock, work, file, history>>

\* The rename into processed_folder moves what has the name by now.
MoveRaw(e) ==
  LET to == IF processed[Plain(cur[e])] = Nothing
            THEN Plain(cur[e]) ELSE Prefixed(cur[e])
  IN  /\ pc[e] = "move"
      /\ processed' = [processed EXCEPT ![to] = raw[NameOf[cur[e]]]]
      /\ raw' = [raw EXCEPT ![NameOf[cur[e]]] = Nothing]
      /\ young' = young \ {NameOf[cur[e]]}
      /\ Goto(e, "insert")
      /\ UNCHANGED <<inbox, quarantine, enrichedFiles, uploader, cabinet,
                     unreadable, lock, work, file, history>>

ForgetFile(e) ==
  /\ cur' = [cur EXCEPT ![e] = Nothing]
  /\ good' = [good EXCEPT ![e] = {}]
  /\ bad' = [bad EXCEPT ![e] = {}]
  /\ target' = [target EXCEPT ![e] = Nothing]

InsertRow(e) ==
  /\ pc[e] = "insert"
  /\ enrichedFiles' = enrichedFiles \cup {cur[e]}
  /\ Goto(e, "next")
  /\ ForgetFile(e)
  /\ UNCHANGED <<folders, uploader, cabinet, unreadable, lock, work, history>>

End(e) ==
  /\ pc[e] = "next"
  /\ work[e] = {}
  /\ Goto(e, "idle")
  /\ lock' = NoRun
  /\ UNCHANGED <<folders, enrichedFiles, uploader, cabinet, unreadable, work,
                 file, history>>

CutShort(e) ==
  /\ interrupted' = interrupted \cup ({cur[e]} \cap Raws)
  /\ ForgetFile(e)
  /\ UNCHANGED <<folders, enrichedFiles, uploader, cabinet, unreadable, taken>>

\* _read_numbered_lines, or the loop over the deals of a line, raises whenever it is
\* given this file; the file stays in the folder.
ReadFails(e) ==
  /\ pc[e] = "fetch" /\ cur[e] \in unreadable
  /\ CutShort(e)
  /\ Goto(e, "next")
  /\ UNCHANGED <<lock, work, faults>>

Interrupt(e) ==
  /\ faults < MaxFaults
  /\ faults' = faults + 1
  /\ CutShort(e)

\* An exception in process_file ends this file only: MySQL is down, a folder is
\* not writable, the uploader moved the file between two looks at it.
FileFails(e) ==
  /\ pc[e] \notin {"idle", "scan", "next"}
  /\ Interrupt(e)
  /\ Goto(e, "next")
  /\ UNCHANGED <<lock, work>>

\* Mutant: the lock is a file somebody has to remove.
LockSurvives == UNCHANGED lock

\* The operating system drops the flock with the process.
LockDrops == lock' = NoRun

Crash(e) ==
  /\ pc[e] # "idle"
  /\ Interrupt(e)
  /\ Goto(e, "idle")
  /\ LockDrops
  /\ work' = [work EXCEPT ![e] = {}]

RunNext(e) ==
  \/ Start(e)
  \/ Scan(e)
  \/ \E n \in Names : Begin(e, n)
  \/ Fetch(e)
  \/ ReadFails(e)
  \/ ChooseTarget(e)
  \/ WriteEnriched(e)
  \/ WriteQuarantine(e)
  \/ MoveRaw(e)
  \/ InsertRow(e)
  \/ End(e)

Next ==
  \/ \E r \in Raws : Drop(r)
  \/ \E n \in Names : Age(n)
  \/ \E l \in Volatile, row \in Rows \cup {NoRow} : CabinetChange(l, row)
  \/ \E p \in Path : TakeQuarantine(p) \/ UploaderIngest(p) \/ UploaderArchive(p)
  \/ \E e \in Runs : RunNext(e) \/ FileFails(e) \/ Crash(e)

Spec == Init /\ [][Next]_vars

\* Cron keeps starting runs, a run that can take a step takes one, and a file that
\* is not touched grows old.
FairSpec ==
  /\ Spec
  /\ \A e \in Runs : WF_vars(RunNext(e))
  /\ \A n \in Names : WF_vars(Age(n))
-----------------------------------------------------------------------------
(***************************************************************************)
(* Properties.                                                             *)
(***************************************************************************)
LinesIn(output) == {x[1] : x \in output}

\* The identity table does its work: the uploader gets one line under two
\* identities only when the processing of its raw file was interrupted, however
\* often the producer delivers that file again.
Deliveries(l) == {x \in ingested : l \in LinesIn(x[2])}
TwiceOnlyIfInterrupted ==
  \A l \in Lines : Cardinality(Deliveries(l)) > 1 => RawOf[l] \in interrupted

\* A readable raw file that stays in the folder is enriched in the end, whatever crashed
\* meanwhile and whatever other file raises on every run.
EveryRawIsEnriched ==
  \A r \in Raws :
     (raw[NameOf[r]] = r /\ r \notin unreadable)
        ~> (r \in enrichedFiles \/ raw[NameOf[r]] # r)

\* Where the lines are.
InInbox == UNION {LinesIn(inbox[p]) : p \in Path}
InQuarantine == UNION {quarantine[p] : p \in Path}
Offered == InInbox \cup InQuarantine
Delivered == taken \cup UNION {LinesIn(x[2]) : x \in ingested}

\* The stage implements LineDelivery: until a file is recorded its lines are only its
\* own concern, and afterwards every line stays in the folders until somebody has it,
\* through name collisions, crashed attempts and a cabinet that changed in between.
Delivery == INSTANCE LineDelivery WITH
  Files <- Raws, FileOf <- RawOf, settled <- enrichedFiles,
  offered <- Offered, delivered <- Delivered
DeliverySpec == Delivery!Spec
=============================================================================
