--------------------------- MODULE EnricherProofs ---------------------------
(***************************************************************************)
(* The enrichment stage for any files, names, lines and runs: it keeps the *)
(* promise of LineDelivery, and hands a line to the uploader under two     *)
(* identities only if the processing of its raw file was interrupted.      *)
(*                                                                         *)
(* The argument: one run at a time works on one raw file that is not       *)
(* recorded yet; a prefixed name holds lines of its own raw file only, so  *)
(* a rename replaces nobody else's lines; what has been written stays      *)
(* written or is delivered until the file is recorded; and before an       *)
(* uninterrupted file is written none of its lines is to be seen.          *)
(***************************************************************************)
EXTENDS Enricher, FiniteSetTheorems, TLAPS

InFile == {"fetch", "choose", "write", "quarantine", "move", "insert"}
Fetched == InFile \ {"fetch"}
Written == {"quarantine", "move", "insert"}

\* One run at a time, on one raw file that is not recorded yet.
RunInv ==
  /\ \A e \in Runs : pc[e] # "idle" => lock = e
  /\ \A n \in Names : raw[n] # Nothing => NameOf[raw[n]] = n
  /\ \A e \in Runs : \A n \in work[e] : raw[n] # Nothing /\ pc[e] \notin {"idle", "scan"}
  /\ \A e \in Runs : pc[e] \in InFile =>
        cur[e] \in Raws \ enrichedFiles /\ NameOf[cur[e]] \notin work[e]

\* The lines of a file are split into the enriched and the quarantined.
SplitInv ==
  \A e \in Runs : pc[e] \in Fetched =>
    LinesIn(good[e]) \cup bad[e] = LinesOf(cur[e])

\* A prefixed name belongs to its raw file; a chosen target is free, or holds these very
\* bytes, or is the prefixed one.
FolderInv ==
  /\ \A r \in Raws : /\ LinesIn(inbox[Prefixed(r)]) \subseteq LinesOf(r)
                     /\ quarantine[Prefixed(r)] \subseteq LinesOf(r)
  /\ \A e \in Runs : pc[e] = "write" =>
        \/ target[e] = Prefixed(cur[e])
        \/ target[e] = Plain(cur[e]) /\ inbox[target[e]] \in {{}, good[e]}

\* What a run has written is there, or somebody has it.
WrittenInv ==
  \A e \in Runs :
    /\ pc[e] \in Written => LinesIn(good[e]) \subseteq InInbox \cup Delivered
    /\ pc[e] \in {"move", "insert"} => bad[e] \subseteq InQuarantine \cup Delivered

\* The identities with lines of a raw file the uploader has seen or may see.
Seen == ingested \cup {<<p, inbox[p]>> : p \in Path}
Has(x, r) == \E l \in LinesIn(x[2]) : RawOf[l] = r

\* An uninterrupted file shows under one identity, and under none before it is written.
OnceInv ==
  \A r \in Raws \ interrupted :
    /\ \A x, y \in Seen : Has(x, r) /\ Has(y, r) => x = y
    /\ (r \notin enrichedFiles /\ \A e \in Runs : ~(cur[e] = r /\ pc[e] \in Written)) =>
         \A x \in Seen : ~Has(x, r)

EInv == TypeOK /\ RunInv /\ SplitInv /\ FolderInv /\ WrittenInv /\ OnceInv

-----------------------------------------------------------------------------
(***************************************************************************)
(* Paths, lines and runs.                                                  *)
(***************************************************************************)
\* A file's two names are paths, and no other file has its prefixed one.
LEMMA PathFacts ==
  ASSUME NEW r \in Raws
  PROVE  /\ Plain(r) \in Path /\ Prefixed(r) \in Path
         /\ \A s \in Raws : /\ Plain(r) # Prefixed(s)
                            /\ Prefixed(r) = Prefixed(s) => r = s
BY EnricherAssumption DEF Plain, Prefixed, Path

\* What the queries make of a file is its lines, split in two.
LEMMA SplitFacts ==
  ASSUME TypeOK, NEW r \in Raws
  PROVE  /\ Enriched(r) \in Output /\ Rejected(r) \in SUBSET Lines
         /\ LinesIn(Enriched(r)) \cup Rejected(r) = LinesOf(r)
<1>1. Enriched(r) \in Output
  BY DEF Enriched, Output, LinesOf, TypeOK
<1>2. LinesIn(Enriched(r)) = {k \in LinesOf(r) : cabinet[k] # NoRow}
  <2>1. ASSUME NEW k \in LinesOf(r), cabinet[k] # NoRow
        PROVE  k \in LinesIn(Enriched(r))
    <3>1. <<k, cabinet[k]>> \in Enriched(r)
      BY <2>1 DEF Enriched
    <3>2. QED
      BY <3>1 DEF LinesIn
  <2>2. ASSUME NEW k \in LinesIn(Enriched(r))
        PROVE  k \in LinesOf(r) /\ cabinet[k] # NoRow
    BY DEF LinesIn, Enriched
  <2>3. QED
    BY <2>1, <2>2
<1>3. QED
  BY <1>1, <1>2 DEF Rejected, LinesOf

\* An output is a set of lines of data.
LEMMA OutputFacts ==
  ASSUME NEW o \in Output
  PROVE  LinesIn(o) \subseteq Lines
BY DEF Output, LinesIn

\* The lock leaves at most one run at work.
LEMMA OneRun ==
  ASSUME TypeOK, RunInv, NEW e \in Runs, pc[e] # "idle"
  PROVE  \A x \in Runs : x # e => pc[x] = "idle"
BY DEF RunInv

\* The target is one of the two names of the file.
LEMMA TargetFacts ==
  ASSUME NEW folder, NEW r \in Raws, NEW data
  PROVE  /\ TargetFor(folder, r, data) \in Path
         /\ \/ TargetFor(folder, r, data) = Prefixed(r)
            \/ /\ TargetFor(folder, r, data) = Plain(r)
               /\ folder[Plain(r)] \in {{}, data}
BY PathFacts DEF TargetFor

-----------------------------------------------------------------------------
(***************************************************************************)
(* Types.                                                                  *)
(***************************************************************************)
\* What a run forgets about its file.
LEMMA ForgetTypes ==
  ASSUME TypeOK, NEW e \in Runs, ForgetFile(e)
  PROVE  /\ cur' \in [Runs -> Raws \cup {Nothing}] /\ good' \in [Runs -> Output]
         /\ bad' \in [Runs -> SUBSET Lines] /\ target' \in [Runs -> Path \cup {Nothing}]
BY DEF ForgetFile, TypeOK, Output

\* A fault adds the raw file in process to the interrupted ones.
LEMMA InterruptTypes ==
  ASSUME TypeOK, NEW e \in Runs, Interrupt(e)
  PROVE  interrupted' \subseteq Raws /\ faults' \in 0..MaxFaults
BY EnricherAssumption DEF Interrupt, CutShort, TypeOK

\* The folders, the tables and the runs keep their types.
LEMMA TypeStep ==
  ASSUME TypeOK, RunInv, [Next]_vars
  PROVE  TypeOK'
<1> USE DEF TypeOK, Goto, folders, uploader, file, history
<1>0. \A r \in Raws : NameOf[r] \in Names
  BY EnricherAssumption
<1>1. CASE UNCHANGED vars
  BY <1>1 DEF vars
<1>2. ASSUME NEW r \in Raws, Drop(r)
      PROVE  TypeOK'
  BY <1>0, <1>2 DEF Drop
<1>3. ASSUME NEW n \in Names, Age(n)
      PROVE  TypeOK'
  BY <1>3 DEF Age
<1>4. ASSUME NEW l \in Lines, NEW row \in Rows \cup {NoRow}, CabinetChange(l, row)
      PROVE  TypeOK'
  BY <1>4 DEF CabinetChange
<1>5. ASSUME NEW p \in Path, TakeQuarantine(p)
      PROVE  TypeOK'
  BY <1>5 DEF TakeQuarantine
<1>6. ASSUME NEW p \in Path, UploaderIngest(p)
      PROVE  TypeOK'
  BY <1>6 DEF UploaderIngest
<1>7. ASSUME NEW p \in Path, UploaderArchive(p)
      PROVE  TypeOK'
  <2>1. {} \in Output
    BY DEF Output
  <2>2. QED
    BY <1>7, <2>1 DEF UploaderArchive
<1>8. ASSUME NEW e \in Runs, Start(e) \/ Scan(e) \/ End(e)
      PROVE  TypeOK'
  BY <1>8 DEF Start, Scan, End
<1>9. ASSUME NEW e \in Runs, NEW n \in Names, Begin(e, n)
      PROVE  TypeOK'
  BY <1>9 DEF Begin
<1>10. ASSUME NEW e \in Runs, Fetch(e)
       PROVE  TypeOK'
  <2>1. cur[e] \in Raws
    BY <1>10 DEF Fetch, RunInv, InFile
  <2>2. QED
    BY <1>10, <2>1, SplitFacts DEF Fetch
<1>11. ASSUME NEW e \in Runs, ChooseTarget(e)
       PROVE  TypeOK'
  <2>1. cur[e] \in Raws
    BY <1>11 DEF ChooseTarget, RunInv, InFile
  <2>2. QED
    BY <1>11, <2>1, TargetFacts DEF ChooseTarget
<1>12. ASSUME NEW e \in Runs, WriteEnriched(e)
       PROVE  TypeOK'
  BY <1>12 DEF WriteEnriched
<1>13. ASSUME NEW e \in Runs, WriteQuarantine(e)
       PROVE  TypeOK'
  BY <1>13 DEF WriteQuarantine
<1>14. ASSUME NEW e \in Runs, MoveRaw(e)
       PROVE  TypeOK'
  BY <1>0, <1>14 DEF MoveRaw, RunInv, InFile
<1>15. ASSUME NEW e \in Runs, InsertRow(e)
       PROVE  TypeOK'
  <2>1. cur[e] \in Raws
    BY <1>15 DEF InsertRow, RunInv, InFile
  <2>2. QED
    BY <1>15, <2>1, ForgetTypes DEF InsertRow
<1>16. ASSUME NEW e \in Runs, FileFails(e)
       PROVE  TypeOK'
  BY <1>16, ForgetTypes, InterruptTypes DEF FileFails, Interrupt, CutShort
<1>17. ASSUME NEW e \in Runs, Crash(e)
       PROVE  TypeOK'
  BY <1>17, ForgetTypes, InterruptTypes DEF Crash, Interrupt, CutShort, LockDrops
<1>18. ASSUME NEW e \in Runs, ReadFails(e)
       PROVE  TypeOK'
  <2>1. interrupted' \subseteq Raws
    BY <1>18 DEF ReadFails, CutShort
  <2>2. QED
    BY <1>18, <2>1, ForgetTypes DEF ReadFails, CutShort
<1>19. QED
  BY <1>1, <1>2, <1>3, <1>4, <1>5, <1>6, <1>7, <1>8, <1>9, <1>10, <1>11, <1>12, <1>13, <1>14,
     <1>15, <1>16, <1>17, <1>18, EnricherAssumption DEF Next, RunNext

-----------------------------------------------------------------------------
(***************************************************************************)
(* One run, one file.                                                      *)
(***************************************************************************)
\* The steps of others leave the runs alone and take no raw file away.
LEMMA RunInvOthers ==
  ASSUME TypeOK, RunInv, UNCHANGED <<lock, pc, work, cur, enrichedFiles>>,
         \A n \in Names : raw'[n] = raw[n] \/ (raw'[n] \in Raws /\ NameOf[raw'[n]] = n)
  PROVE  RunInv'
<1>1. Nothing \notin Raws
  BY EnricherAssumption
<1>2. \A n \in Names : raw'[n] # Nothing => NameOf[raw'[n]] = n
  BY DEF RunInv
<1>3. \A e \in Runs : \A n \in work[e] : raw'[n] # Nothing
  BY <1>1 DEF RunInv, TypeOK
<1>4. QED
  BY <1>2, <1>3 DEF RunInv

\* A step of a run that keeps the lock, its work list and its file.
LEMMA RunInvMoves ==
  ASSUME TypeOK, RunInv, NEW e \in Runs, pc[e] # "idle", NEW label,
         pc' = [pc EXCEPT ![e] = label],
         label \in InFile => cur'[e] \in Raws \ enrichedFiles /\ NameOf[cur'[e]] \notin work[e],
         label \notin {"idle", "scan"},
         cur' = [cur EXCEPT ![e] = cur'[e]],
         UNCHANGED <<lock, work, enrichedFiles, raw>>
  PROVE  RunInv'
<1>1. \A x \in Runs : x # e => pc[x] = "idle" /\ pc'[x] = pc[x] /\ cur'[x] = cur[x]
  BY OneRun DEF TypeOK
<1>2. pc'[e] = label
  BY DEF TypeOK
<1>3. \A x \in Runs : pc'[x] # "idle" => lock' = x
  BY <1>1 DEF RunInv
<1>4. \A x \in Runs : \A n \in work'[x] : raw'[n] # Nothing /\ pc'[x] \notin {"idle", "scan"}
  BY <1>1, <1>2 DEF RunInv
<1>5. \A x \in Runs : pc'[x] \in InFile =>
        cur'[x] \in Raws \ enrichedFiles' /\ NameOf[cur'[x]] \notin work'[x]
  BY <1>1, <1>2 DEF InFile
<1>6. QED
  BY <1>3, <1>4, <1>5 DEF RunInv

\* Every step keeps one run on one unrecorded file.
LEMMA RunStep ==
  ASSUME TypeOK, RunInv, [Next]_vars
  PROVE  RunInv'
<1> USE DEF Goto, folders, uploader, file, history
<1>0. /\ \A r \in Raws : NameOf[r] \in Names
      /\ Nothing \notin Raws /\ NoRun \notin Runs
  BY EnricherAssumption
<1>1. CASE UNCHANGED vars
  BY <1>1 DEF vars, RunInv
<1>2. ASSUME NEW r \in Raws, Drop(r)
      PROVE  RunInv'
  BY <1>0, <1>2, RunInvOthers DEF Drop, TypeOK
<1>3. CASE \/ \E n \in Names : Age(n)
           \/ \E l \in Lines, row \in Rows \cup {NoRow} : CabinetChange(l, row)
           \/ \E p \in Path : TakeQuarantine(p) \/ UploaderIngest(p) \/ UploaderArchive(p)
  <2>1. UNCHANGED <<lock, pc, work, cur, enrichedFiles, raw>>
    BY <1>3 DEF Age, CabinetChange, TakeQuarantine, UploaderIngest, UploaderArchive
  <2>2. QED
    BY <2>1, RunInvOthers
<1>4. ASSUME NEW e \in Runs, Start(e)
      PROVE  RunInv'
  <2>1. \A x \in Runs : pc[x] = "idle"
    BY <1>0, <1>4 DEF Start, RunInv
  <2>2. \A x \in Runs : work[x] = {}
    BY <2>1 DEF RunInv
  <2>3. pc'[e] = "scan" /\ \A x \in Runs : x # e => pc'[x] = "idle"
    BY <1>4, <2>1 DEF Start, TypeOK
  <2>4. QED
    BY <1>4, <2>2, <2>3 DEF Start, RunInv, InFile
<1>5. ASSUME NEW e \in Runs, Scan(e)
      PROVE  RunInv'
  <2>1. \A x \in Runs : x # e => pc'[x] = "idle" /\ work'[x] = work[x] /\ pc[x] = "idle"
    BY <1>5, OneRun DEF Scan, TypeOK
  <2>2. pc'[e] = "next" /\ work'[e] = {n \in Names : raw[n] # Nothing} \ young
    BY <1>5 DEF Scan, TypeOK
  <2>3. QED
    BY <1>5, <2>1, <2>2 DEF Scan, RunInv, InFile
<1>6. ASSUME NEW e \in Runs, NEW n \in Names, Begin(e, n)
      PROVE  RunInv'
  <2>1. \A x \in Runs : x # e =>
          pc'[x] = "idle" /\ work'[x] = work[x] /\ pc[x] = "idle" /\ cur'[x] = cur[x]
    BY <1>6, OneRun DEF Begin, TypeOK
  <2>2. work'[e] = work[e] \ {n} /\ n \in work[e] /\ pc[e] = "next"
    BY <1>6 DEF Begin, TypeOK
  <2>3. raw[n] \in Raws /\ NameOf[raw[n]] = n
    BY <2>2 DEF RunInv, TypeOK
  <2>4. \/ pc'[e] = "next"
        \/ pc'[e] = "fetch" /\ cur'[e] = raw[n] /\ raw[n] \notin enrichedFiles
    BY <1>6 DEF Begin, IsNew, TypeOK
  <2>5. UNCHANGED <<lock, raw, enrichedFiles>>
    BY <1>6 DEF Begin
  <2>6. \A x \in Runs : pc'[x] # "idle" => lock' = x
    BY <2>1, <2>2, <2>5 DEF RunInv
  <2>7. \A x \in Runs : \A m \in work'[x] : raw'[m] # Nothing /\ pc'[x] \notin {"idle", "scan"}
    BY <2>1, <2>2, <2>4, <2>5 DEF RunInv
  <2>8. \A x \in Runs : pc'[x] \in InFile =>
          cur'[x] \in Raws \ enrichedFiles' /\ NameOf[cur'[x]] \notin work'[x]
    BY <2>1, <2>2, <2>3, <2>4, <2>5 DEF InFile
  <2>9. QED
    BY <2>5, <2>6, <2>7, <2>8 DEF RunInv
<1>7. ASSUME NEW e \in Runs,
             Fetch(e) \/ ChooseTarget(e) \/ WriteEnriched(e) \/ WriteQuarantine(e)
      PROVE  RunInv'
  <2>1. pc[e] \in InFile /\ UNCHANGED <<lock, work, enrichedFiles, raw, cur>>
    BY <1>7 DEF Fetch, ChooseTarget, WriteEnriched, WriteQuarantine, InFile
  <2>2. PICK label \in {"quarantine", "choose", "write", "move"} :
          pc' = [pc EXCEPT ![e] = label]
    BY <1>7 DEF Fetch, ChooseTarget, WriteEnriched, WriteQuarantine
  <2>3. cur'[e] \in Raws \ enrichedFiles /\ NameOf[cur'[e]] \notin work[e]
    BY <2>1 DEF RunInv
  <2>4. cur' = [cur EXCEPT ![e] = cur'[e]]
    BY <2>1 DEF TypeOK
  <2>5. QED
    BY <2>1, <2>2, <2>3, <2>4, RunInvMoves DEF InFile
<1>8. ASSUME NEW e \in Runs, MoveRaw(e)
      PROVE  RunInv'
  <2>1. /\ pc[e] = "move" /\ pc' = [pc EXCEPT ![e] = "insert"]
        /\ raw' = [raw EXCEPT ![NameOf[cur[e]]] = Nothing]
        /\ UNCHANGED <<lock, work, enrichedFiles, cur>>
    BY <1>8 DEF MoveRaw
  <2>2. \A x \in Runs : x # e => pc'[x] = "idle" /\ pc[x] = "idle"
    BY <2>1, OneRun DEF TypeOK
  <2>3. pc'[e] = "insert" /\ cur[e] \in Raws \ enrichedFiles /\ NameOf[cur[e]] \notin work[e]
    BY <2>1 DEF RunInv, TypeOK, InFile
  <2>4. \A n \in Names : n # NameOf[cur[e]] => raw'[n] = raw[n]
    BY <2>1 DEF TypeOK
  <2>5. \A n \in Names : raw'[n] # Nothing => NameOf[raw'[n]] = n
    BY <1>0, <2>1, <2>3, <2>4 DEF RunInv, TypeOK
  <2>6. \A n \in work[e] : raw'[n] # Nothing
    BY <2>3, <2>4 DEF RunInv, TypeOK
  <2>7. \A x \in Runs : \A n \in work'[x] : raw'[n] # Nothing /\ pc'[x] \notin {"idle", "scan"}
    BY <2>1, <2>2, <2>3, <2>6 DEF RunInv
  <2>8. QED
    BY <2>1, <2>2, <2>3, <2>5, <2>7 DEF RunInv
<1>9. ASSUME NEW e \in Runs,
             InsertRow(e) \/ ReadFails(e) \/ FileFails(e) \/ End(e) \/ Crash(e)
      PROVE  RunInv'
  <2>1. /\ pc[e] # "idle" /\ raw' = raw /\ enrichedFiles \subseteq enrichedFiles'
        /\ \/ pc' = [pc EXCEPT ![e] = "next"] /\ UNCHANGED <<lock, work>>
              /\ pc[e] \notin {"idle", "scan"}
           \/ pc' = [pc EXCEPT ![e] = "idle"] /\ work' = [work EXCEPT ![e] = {}]
    <3>1. CASE InsertRow(e) \/ ReadFails(e) \/ FileFails(e)
      BY <3>1 DEF InsertRow, ReadFails, FileFails, Interrupt, CutShort
    <3>2. CASE End(e)
      BY <3>2 DEF End, TypeOK
    <3>3. CASE Crash(e)
      BY <3>3 DEF Crash, Interrupt, CutShort
    <3>4. QED
      BY <1>9, <3>1, <3>2, <3>3
  <2>2. \A x \in Runs : x # e => pc'[x] = "idle" /\ pc[x] = "idle"
    BY <2>1, OneRun DEF TypeOK
  <2>3. \A x \in Runs : pc'[x] \notin InFile
    BY <2>1, <2>2 DEF InFile, TypeOK
  <2>4. \A x \in Runs : pc'[x] # "idle" => lock' = x
    BY <2>1, <2>2 DEF RunInv, TypeOK
  <2>5. \A x \in Runs : \A n \in work'[x] : raw'[n] # Nothing /\ pc'[x] \notin {"idle", "scan"}
    BY <2>1, <2>2 DEF RunInv, TypeOK
  <2>6. QED
    BY <2>1, <2>3, <2>4, <2>5 DEF RunInv
<1>10. QED
  BY <1>1, <1>2, <1>3, <1>4, <1>5, <1>6, <1>7, <1>8, <1>9, EnricherAssumption DEF Next, RunNext

-----------------------------------------------------------------------------
(***************************************************************************)
(* The lines of a file and the folders.                                    *)
(***************************************************************************)
\* What a run knows of its file stays until it is done with it.
LEMMA FileStep ==
  ASSUME TypeOK, [Next]_vars, NEW e \in Runs
  PROVE  /\ pc'[e] \in Fetched =>
              \/ Fetch(e)
              \/ pc[e] \in Fetched /\ cur'[e] = cur[e] /\ good'[e] = good[e] /\ bad'[e] = bad[e]
         /\ pc'[e] = "write" => ChooseTarget(e) \/ (pc[e] = "write" /\ target'[e] = target[e])
         /\ pc'[e] \in Written =>
              WriteEnriched(e) \/ (Fetch(e) /\ Enriched(cur[e]) = {}) \/ pc[e] \in Written
         /\ pc'[e] \in {"move", "insert"} => WriteQuarantine(e) \/ pc[e] \in {"move", "insert"}
<1> USE DEF Goto, file, Fetched, InFile, Written
<1>1. CASE UNCHANGED <<pc, file>>
  BY <1>1
<1>2. ASSUME NEW x \in Runs, Start(x) \/ Scan(x) \/ End(x)
      PROVE  UNCHANGED file /\ pc'[e] \in {pc[e], "scan", "next", "idle"}
  BY <1>2 DEF Start, Scan, End, TypeOK
<1>3. ASSUME NEW x \in Runs, NEW n \in Names, Begin(x, n)
      PROVE  \/ pc'[e] \in {"next", "fetch"}
             \/ pc'[e] = pc[e] /\ cur'[e] = cur[e] /\ UNCHANGED <<good, bad, target>>
  BY <1>3 DEF Begin, TypeOK
<1>4. ASSUME NEW x \in Runs, Fetch(x)
      PROVE  \/ x = e /\ pc'[e] = IF Enriched(cur[e]) = {} THEN "quarantine" ELSE "choose"
             \/ x # e /\ pc'[e] = pc[e] /\ good'[e] = good[e] /\ bad'[e] = bad[e]
                /\ UNCHANGED <<cur, target>>
  BY <1>4 DEF Fetch, TypeOK
<1>5. ASSUME NEW x \in Runs, ChooseTarget(x)
      PROVE  /\ UNCHANGED <<cur, good, bad>>
             /\ \/ x = e /\ pc[e] = "choose" /\ pc'[e] = "write"
                \/ x # e /\ pc'[e] = pc[e] /\ target'[e] = target[e]
  BY <1>5 DEF ChooseTarget, TypeOK
<1>6. ASSUME NEW x \in Runs, WriteEnriched(x)
      PROVE  /\ UNCHANGED file
             /\ \/ x = e /\ pc[e] = "write" /\ pc'[e] = "quarantine"
                \/ x # e /\ pc'[e] = pc[e]
  BY <1>6 DEF WriteEnriched, TypeOK
<1>7. ASSUME NEW x \in Runs, WriteQuarantine(x)
      PROVE  /\ UNCHANGED file
             /\ \/ x = e /\ pc[e] = "quarantine" /\ pc'[e] = "move"
                \/ x # e /\ pc'[e] = pc[e]
  BY <1>7 DEF WriteQuarantine, TypeOK
<1>8. ASSUME NEW x \in Runs, MoveRaw(x)
      PROVE  /\ UNCHANGED file
             /\ \/ x = e /\ pc[e] = "move" /\ pc'[e] = "insert"
                \/ x # e /\ pc'[e] = pc[e]
  BY <1>8 DEF MoveRaw, TypeOK
<1>9. ASSUME NEW x \in Runs, InsertRow(x) \/ ReadFails(x) \/ FileFails(x) \/ Crash(x)
      PROVE  \/ pc'[e] \in {"next", "idle"}
             \/ pc'[e] = pc[e] /\ cur'[e] = cur[e] /\ good'[e] = good[e] /\ bad'[e] = bad[e]
                /\ target'[e] = target[e]
  BY <1>9 DEF InsertRow, ReadFails, FileFails, Crash, Interrupt, CutShort, ForgetFile, TypeOK
<1>10. QED
  BY <1>1, <1>2, <1>3, <1>4, <1>5, <1>6, <1>7, <1>8, <1>9
     DEF Next, RunNext, Drop, Age, CabinetChange, TakeQuarantine, UploaderIngest,
         UploaderArchive, vars

\* What is enriched and what is quarantined are together the lines of the file.
LEMMA SplitStep ==
  ASSUME TypeOK, RunInv, SplitInv, [Next]_vars
  PROVE  SplitInv'
<1>1. SUFFICES ASSUME NEW e \in Runs, pc'[e] \in Fetched
               PROVE  LinesIn(good'[e]) \cup bad'[e] = LinesOf(cur'[e])
  BY DEF SplitInv
<1>2. CASE Fetch(e)
  <2>1. cur[e] \in Raws /\ cur' = cur
    BY <1>2 DEF Fetch, RunInv, InFile
  <2>2. good'[e] = Enriched(cur[e]) /\ bad'[e] = Rejected(cur[e])
    BY <1>2 DEF Fetch, TypeOK
  <2>3. QED
    BY <2>1, <2>2, SplitFacts
<1>3. CASE pc[e] \in Fetched /\ cur'[e] = cur[e] /\ good'[e] = good[e] /\ bad'[e] = bad[e]
  BY <1>3 DEF SplitInv
<1>4. QED
  BY <1>1, <1>2, <1>3, FileStep

\* What a step does to the inbox: a path is emptied by the uploader, or written by a run.
LEMMA InboxStep ==
  ASSUME TypeOK, [Next]_vars
  PROVE  \/ UNCHANGED inbox
         \/ \E p \in Path : UploaderArchive(p)
         \/ \E e \in Runs : WriteEnriched(e)
BY DEF Next, RunNext, Drop, Age, CabinetChange, TakeQuarantine, UploaderIngest, Start, Scan,
   Begin, Fetch, ChooseTarget, WriteQuarantine, MoveRaw, InsertRow, End, ReadFails, FileFails,
   Crash, Interrupt, CutShort, vars, folders

\* A run writes the inbox where only its own lines are.
LEMMA WriteFacts ==
  ASSUME TypeOK, RunInv, SplitInv, FolderInv, NEW e \in Runs, WriteEnriched(e)
  PROVE  /\ cur[e] \in Raws \ enrichedFiles /\ LinesIn(good[e]) \subseteq LinesOf(cur[e])
         /\ target[e] \in Path /\ target[e] \in {Plain(cur[e]), Prefixed(cur[e])}
         /\ LinesIn(inbox[target[e]]) \subseteq LinesOf(cur[e])
         /\ inbox' = [inbox EXCEPT ![target[e]] = good[e]]
<1>1. pc[e] = "write" /\ inbox' = [inbox EXCEPT ![target[e]] = good[e]]
  BY DEF WriteEnriched
<1>2. cur[e] \in Raws \ enrichedFiles /\ LinesIn(good[e]) \subseteq LinesOf(cur[e])
  BY <1>1 DEF RunInv, SplitInv, Fetched, InFile
<1>3. LinesIn({}) = {}
  BY DEF LinesIn
<1>4. CASE target[e] = Prefixed(cur[e])
  BY <1>1, <1>2, <1>4, PathFacts DEF FolderInv
<1>5. CASE target[e] = Plain(cur[e]) /\ inbox[target[e]] \in {{}, good[e]}
  BY <1>1, <1>2, <1>3, <1>5, PathFacts
<1>6. QED
  BY <1>1, <1>4, <1>5 DEF FolderInv

\* The same of quarantine.
LEMMA QuarantineFacts ==
  ASSUME TypeOK, RunInv, SplitInv, FolderInv, NEW e \in Runs, WriteQuarantine(e)
  PROVE  /\ cur[e] \in Raws \ enrichedFiles /\ bad[e] \subseteq LinesOf(cur[e])
         /\ \/ bad[e] = {} /\ quarantine' = quarantine
            \/ \E t \in Path : /\ quarantine' = [quarantine EXCEPT ![t] = bad[e]]
                               /\ quarantine[t] \subseteq LinesOf(cur[e])
                               /\ t \in {Plain(cur[e]), Prefixed(cur[e])}
<1>1. pc[e] = "quarantine"
  BY DEF WriteQuarantine
<1>2. cur[e] \in Raws \ enrichedFiles /\ bad[e] \subseteq LinesOf(cur[e])
  BY <1>1 DEF RunInv, SplitInv, Fetched, InFile
<1>3. CASE bad[e] = {}
  BY <1>2, <1>3 DEF WriteQuarantine
<1>4. CASE bad[e] # {}
  <2> DEFINE t == TargetFor(quarantine, cur[e], bad[e])
  <2>1. quarantine' = [quarantine EXCEPT ![t] = bad[e]]
    BY <1>4 DEF WriteQuarantine
  <2>2. t \in Path /\ (t = Prefixed(cur[e])
                       \/ (t = Plain(cur[e]) /\ quarantine[Plain(cur[e])] \in {{}, bad[e]}))
    BY <1>2, TargetFacts
  <2>3. quarantine[t] \subseteq LinesOf(cur[e])
    BY <1>2, <2>2 DEF FolderInv
  <2>4. QED
    BY <1>2, <2>1, <2>2, <2>3
<1>5. QED
  BY <1>3, <1>4

\* Prefixed names keep to their files, and a chosen target stays good.
LEMMA FolderStep ==
  ASSUME TypeOK, RunInv, SplitInv, FolderInv, [Next]_vars
  PROVE  FolderInv'
<1>0. LinesIn({}) = {}
  BY DEF LinesIn
<1>1. \A r \in Raws : LinesIn(inbox'[Prefixed(r)]) \subseteq LinesOf(r)
  <2>1. CASE UNCHANGED inbox
    BY <2>1 DEF FolderInv
  <2>2. ASSUME NEW p \in Path, UploaderArchive(p)
        PROVE  \A r \in Raws : LinesIn(inbox'[Prefixed(r)]) \subseteq LinesOf(r)
    BY <1>0, <2>2, PathFacts DEF UploaderArchive, FolderInv, TypeOK
  <2>3. ASSUME NEW e \in Runs, WriteEnriched(e)
        PROVE  \A r \in Raws : LinesIn(inbox'[Prefixed(r)]) \subseteq LinesOf(r)
    <3> SUFFICES ASSUME NEW r \in Raws
                 PROVE  LinesIn(inbox'[Prefixed(r)]) \subseteq LinesOf(r)
      OBVIOUS
    <3>1. CASE target[e] = Prefixed(r)
      <4>1. r = cur[e]
        BY <2>3, <3>1, WriteFacts, PathFacts
      <4>2. QED
        BY <2>3, <3>1, <4>1, WriteFacts DEF TypeOK
    <3>2. CASE target[e] # Prefixed(r)
      <4>1. inbox'[Prefixed(r)] = inbox[Prefixed(r)]
        BY <2>3, <3>2, WriteFacts, PathFacts DEF TypeOK
      <4>2. QED
        BY <4>1 DEF FolderInv
    <3>3. QED
      BY <3>1, <3>2
  <2>4. QED
    BY <2>1, <2>2, <2>3, InboxStep
<1>2. \A r \in Raws : quarantine'[Prefixed(r)] \subseteq LinesOf(r)
  <2>1. CASE UNCHANGED quarantine
    BY <2>1 DEF FolderInv
  <2>2. ASSUME NEW p \in Path, TakeQuarantine(p)
        PROVE  \A r \in Raws : quarantine'[Prefixed(r)] \subseteq LinesOf(r)
    BY <2>2, PathFacts DEF TakeQuarantine, FolderInv, TypeOK
  <2>3. ASSUME NEW e \in Runs, WriteQuarantine(e)
        PROVE  \A r \in Raws : quarantine'[Prefixed(r)] \subseteq LinesOf(r)
    <3>1. CASE quarantine' = quarantine
      BY <3>1 DEF FolderInv
    <3>2. ASSUME NEW t \in Path, quarantine' = [quarantine EXCEPT ![t] = bad[e]],
                 t \in {Plain(cur[e]), Prefixed(cur[e])}, NEW r \in Raws
          PROVE  quarantine'[Prefixed(r)] \subseteq LinesOf(r)
      <4>1. cur[e] \in Raws /\ bad[e] \subseteq LinesOf(cur[e])
        BY <2>3, QuarantineFacts
      <4>2. CASE t = Prefixed(r)
        <5>1. r = cur[e]
          BY <3>2, <4>1, <4>2, PathFacts
        <5>2. QED
          BY <3>2, <4>1, <4>2, <5>1 DEF TypeOK
      <4>3. CASE t # Prefixed(r)
        <5>1. quarantine'[Prefixed(r)] = quarantine[Prefixed(r)]
          BY <3>2, <4>3, PathFacts DEF TypeOK
        <5>2. QED
          BY <5>1 DEF FolderInv
      <4>4. QED
        BY <4>2, <4>3
    <3>3. QED
      BY <2>3, <3>1, <3>2, QuarantineFacts
  <2>4. QED
    BY <2>1, <2>2, <2>3 DEF Next, RunNext, Drop, Age, CabinetChange, UploaderIngest,
       UploaderArchive, Start, Scan, Begin, Fetch, ChooseTarget, WriteEnriched, MoveRaw,
       InsertRow, End, ReadFails, FileFails, Crash, Interrupt, CutShort, vars, folders
<1>3. ASSUME NEW e \in Runs, pc'[e] = "write"
      PROVE  \/ target'[e] = Prefixed(cur'[e])
             \/ target'[e] = Plain(cur'[e]) /\ inbox'[target'[e]] \in {{}, good'[e]}
  <2>1. CASE ChooseTarget(e)
    <3>1. cur[e] \in Raws /\ target'[e] = TargetFor(inbox, cur[e], good[e])
          /\ UNCHANGED <<cur, good, inbox>>
      BY <2>1 DEF ChooseTarget, RunInv, InFile, TypeOK, folders
    <3>2. QED
      BY <3>1, TargetFacts
  <2>2. CASE pc[e] = "write" /\ target'[e] = target[e]
    <3>1. cur'[e] = cur[e] /\ good'[e] = good[e]
      BY <1>3, <2>2, FileStep DEF Fetched, InFile, Fetch
    <3>2. CASE target[e] = Prefixed(cur[e])
      BY <2>2, <3>1, <3>2
    <3>3. CASE target[e] = Plain(cur[e]) /\ inbox[target[e]] \in {{}, good[e]}
      <4>1. target[e] \in Path
        BY <2>2, <3>3, PathFacts DEF RunInv, InFile
      <4>2. CASE UNCHANGED inbox
        BY <2>2, <3>1, <3>3, <4>2
      <4>3. CASE \E p \in Path : UploaderArchive(p)
        BY <2>2, <3>1, <3>3, <4>1, <4>3 DEF UploaderArchive, TypeOK
      <4>4. ASSUME NEW x \in Runs, WriteEnriched(x)
            PROVE  FALSE
        <5>1. x = e
          BY <2>2, <4>4, OneRun DEF WriteEnriched
        <5>2. QED
          BY <1>3, <4>4, <5>1 DEF WriteEnriched, Goto, TypeOK
      <4>5. QED
        BY <4>2, <4>3, <4>4, InboxStep
    <3>4. QED
      BY <2>2, <3>2, <3>3 DEF FolderInv
  <2>3. QED
    BY <1>3, <2>1, <2>2, FileStep
<1>4. QED
  BY <1>1, <1>2, <1>3 DEF FolderInv

-----------------------------------------------------------------------------
(***************************************************************************)
(* Where the lines are.                                                    *)
(***************************************************************************)
\* The steps that touch the outputs, what was handed over, and the table.
LEMMA StoreStep ==
  ASSUME TypeOK, [Next]_vars
  PROVE  \/ UNCHANGED <<inbox, quarantine, taken, ingested, enrichedFiles>>
         \/ \E p \in Path : TakeQuarantine(p) \/ UploaderIngest(p) \/ UploaderArchive(p)
         \/ \E e \in Runs : WriteEnriched(e) \/ WriteQuarantine(e) \/ InsertRow(e)
BY DEF Next, RunNext, Drop, Age, CabinetChange, Start, Scan, Begin, Fetch, ChooseTarget, MoveRaw,
   End, ReadFails, FileFails, Crash, Interrupt, CutShort, vars, folders, uploader, history

\* A path that is written or emptied, and the lines in the inbox.
LEMMA InboxWrite ==
  ASSUME TypeOK, NEW t \in Path, NEW o, inbox' = [inbox EXCEPT ![t] = o]
  PROVE  /\ InInbox' \subseteq InInbox \cup LinesIn(o)
         /\ InInbox \subseteq InInbox' \cup LinesIn(inbox[t])
         /\ LinesIn(o) \subseteq InInbox'
<1>1. inbox'[t] = o /\ \A p \in Path : p # t => inbox'[p] = inbox[p]
  BY DEF TypeOK
<1>2. QED
  BY <1>1 DEF InInbox

\* The same of quarantine.
LEMMA QuarantineWrite ==
  ASSUME TypeOK, NEW t \in Path, NEW S, quarantine' = [quarantine EXCEPT ![t] = S]
  PROVE  /\ InQuarantine' \subseteq InQuarantine \cup S
         /\ InQuarantine \subseteq InQuarantine' \cup quarantine[t]
         /\ S \subseteq InQuarantine'
<1>1. quarantine'[t] = S /\ \A p \in Path : p # t => quarantine'[p] = quarantine[p]
  BY DEF TypeOK
<1>2. QED
  BY <1>1 DEF InQuarantine

\* The uploader ingests: the lines of the file are delivered, and stay where they are.
LEMMA IngestFacts ==
  ASSUME TypeOK, NEW p \in Path, UploaderIngest(p)
  PROVE  /\ UNCHANGED <<InInbox, InQuarantine, enrichedFiles>>
         /\ Delivered' = Delivered \cup LinesIn(inbox[p])
         /\ LinesIn(inbox[p]) \subseteq InInbox
<1>1. ingested' = ingested \cup {<<p, inbox[p]>>} /\ UNCHANGED <<inbox, quarantine, taken>>
  BY DEF UploaderIngest, folders, history
<1>2. Delivered' = Delivered \cup LinesIn(inbox[p])
  <2>1. ASSUME NEW l \in Delivered'
        PROVE  l \in Delivered \cup LinesIn(inbox[p])
    <3>1. CASE l \in taken
      BY <3>1 DEF Delivered
    <3>2. ASSUME NEW x \in ingested', l \in LinesIn(x[2])
          PROVE  l \in Delivered \cup LinesIn(inbox[p])
      <4>1. CASE x \in ingested
        BY <3>2, <4>1 DEF Delivered
      <4>2. CASE x = <<p, inbox[p]>>
        BY <3>2, <4>2
      <4>3. QED
        BY <1>1, <4>1, <4>2
    <3>3. QED
      BY <1>1, <3>1, <3>2 DEF Delivered
  <2>2. LinesIn(inbox[p]) \subseteq Delivered'
    <3>1. <<p, inbox[p]>> \in ingested' /\ <<p, inbox[p]>>[2] = inbox[p]
      BY <1>1
    <3>2. QED
      BY <3>1 DEF Delivered
  <2>3. Delivered \subseteq Delivered'
    BY <1>1 DEF Delivered
  <2>4. QED
    BY <2>1, <2>2, <2>3
<1>3. QED
  BY <1>1, <1>2 DEF InInbox, InQuarantine, UploaderIngest

\* The uploader archives: what leaves the inbox had been delivered.
LEMMA ArchiveFacts ==
  ASSUME TypeOK, NEW p \in Path, UploaderArchive(p)
  PROVE  /\ UNCHANGED <<InQuarantine, Delivered, enrichedFiles>>
         /\ InInbox' \subseteq InInbox /\ InInbox \subseteq InInbox' \cup Delivered
<1>1. /\ <<p, inbox[p]>> \in ingested /\ inbox' = [inbox EXCEPT ![p] = {}]
      /\ UNCHANGED <<quarantine, taken, ingested, enrichedFiles>>
  BY DEF UploaderArchive, history
<1>2. LinesIn({}) = {}
  BY DEF LinesIn
<1>3. LinesIn(inbox[p]) \subseteq Delivered
  BY <1>1 DEF Delivered
<1>4. QED
  BY <1>1, <1>2, <1>3, InboxWrite DEF InQuarantine, Delivered

\* An operator takes a quarantine file.
LEMMA TakeFacts ==
  ASSUME TypeOK, NEW p \in Path, TakeQuarantine(p)
  PROVE  /\ UNCHANGED <<InInbox, enrichedFiles>>
         /\ Delivered' = Delivered \cup quarantine[p] /\ quarantine[p] \subseteq InQuarantine
         /\ InQuarantine' \subseteq InQuarantine
         /\ InQuarantine \subseteq InQuarantine' \cup Delivered'
<1>1. /\ quarantine' = [quarantine EXCEPT ![p] = {}] /\ taken' = taken \cup quarantine[p]
      /\ UNCHANGED <<inbox, ingested, enrichedFiles>>
  BY DEF TakeQuarantine, uploader
<1>2. Delivered' = Delivered \cup quarantine[p]
  BY <1>1 DEF Delivered
<1>3. quarantine[p] \subseteq InQuarantine /\ InInbox' = InInbox
  BY <1>1 DEF InQuarantine, InInbox
<1>4. InQuarantine' \subseteq InQuarantine /\ InQuarantine \subseteq InQuarantine' \cup quarantine[p]
  <2>1. quarantine'[p] = {} /\ \A q \in Path : q # p => quarantine'[q] = quarantine[q]
    BY <1>1 DEF TypeOK
  <2>2. QED
    BY <2>1 DEF InQuarantine
<1>5. QED
  BY <1>1, <1>2, <1>3, <1>4

\* Nothing leaves the inbox but into other hands, unless a run writes there.
LEMMA InboxKept ==
  ASSUME TypeOK, [Next]_vars, \A e \in Runs : ~WriteEnriched(e)
  PROVE  InInbox \cup Delivered \subseteq InInbox' \cup Delivered'
<1>1. CASE UNCHANGED <<inbox, taken, ingested>>
  BY <1>1 DEF InInbox, Delivered
<1>2. ASSUME NEW p \in Path, TakeQuarantine(p) \/ UploaderIngest(p) \/ UploaderArchive(p)
      PROVE  InInbox \cup Delivered \subseteq InInbox' \cup Delivered'
  BY <1>2, TakeFacts, IngestFacts, ArchiveFacts
<1>3. QED
  BY <1>1, <1>2, StoreStep DEF WriteQuarantine, InsertRow, uploader, history, folders

\* Nothing leaves quarantine but into other hands, unless a run writes there.
LEMMA QuarantineKept ==
  ASSUME TypeOK, [Next]_vars, \A e \in Runs : ~WriteQuarantine(e)
  PROVE  InQuarantine \cup Delivered \subseteq InQuarantine' \cup Delivered'
<1>1. CASE UNCHANGED <<quarantine, taken, ingested>>
  BY <1>1 DEF InQuarantine, Delivered
<1>2. ASSUME NEW p \in Path, TakeQuarantine(p) \/ UploaderIngest(p) \/ UploaderArchive(p)
      PROVE  InQuarantine \cup Delivered \subseteq InQuarantine' \cup Delivered'
  BY <1>2, TakeFacts, IngestFacts, ArchiveFacts
<1>3. QED
  BY <1>1, <1>2, StoreStep DEF WriteEnriched, InsertRow, uploader, history, folders

\* What a run has written stays written or is delivered until the file is recorded.
LEMMA WrittenStep ==
  ASSUME TypeOK, RunInv, SplitInv, FolderInv, WrittenInv, [Next]_vars
  PROVE  WrittenInv'
<1>1. ASSUME NEW e \in Runs, pc'[e] \in Written
      PROVE  LinesIn(good'[e]) \subseteq InInbox' \cup Delivered'
  <2>1. CASE WriteEnriched(e)
    <3>1. good' = good
      BY <2>1 DEF WriteEnriched, file
    <3>2. QED
      BY <2>1, <3>1, WriteFacts, InboxWrite
  <2>2. CASE Fetch(e) /\ Enriched(cur[e]) = {}
    <3>1. good'[e] = {}
      BY <2>2 DEF Fetch, TypeOK
    <3>2. QED
      BY <3>1 DEF LinesIn
  <2>3. CASE pc[e] \in Written
    <3>1. \A x \in Runs : ~WriteEnriched(x)
      BY <2>3, OneRun DEF WriteEnriched, Written
    <3>2. good'[e] = good[e]
      BY <1>1, <2>3, FileStep DEF Fetch, Fetched, InFile, Written
    <3>3. LinesIn(good[e]) \subseteq InInbox \cup Delivered
      BY <2>3 DEF WrittenInv
    <3>4. QED
      BY <3>1, <3>2, <3>3, InboxKept
  <2>4. QED
    BY <1>1, <2>1, <2>2, <2>3, FileStep
<1>2. ASSUME NEW e \in Runs, pc'[e] \in {"move", "insert"}
      PROVE  bad'[e] \subseteq InQuarantine' \cup Delivered'
  <2>1. CASE WriteQuarantine(e)
    <3>1. bad' = bad
      BY <2>1 DEF WriteQuarantine, file
    <3>2. QED
      BY <2>1, <3>1, QuarantineFacts, QuarantineWrite
  <2>2. CASE pc[e] \in {"move", "insert"}
    <3>1. \A x \in Runs : ~WriteQuarantine(x)
      BY <2>2, OneRun DEF WriteQuarantine
    <3>2. bad'[e] = bad[e]
      BY <1>2, <2>2, FileStep DEF Fetch, Fetched, InFile
    <3>3. bad[e] \subseteq InQuarantine \cup Delivered
      BY <2>2 DEF WrittenInv
    <3>4. QED
      BY <3>1, <3>2, <3>3, QuarantineKept
  <2>3. QED
    BY <1>2, <2>1, <2>2, FileStep
<1>3. QED
  BY <1>1, <1>2 DEF WrittenInv

-----------------------------------------------------------------------------
(***************************************************************************)
(* Once, unless interrupted.                                               *)
(***************************************************************************)
\* A run that has written its file goes on with it, records it or is cut short.
LEMMA WrittenGoesOn ==
  ASSUME TypeOK, [Next]_vars, NEW e \in Runs, pc[e] \in Written
  PROVE  \/ pc'[e] \in Written /\ cur'[e] = cur[e]
         \/ InsertRow(e) \/ ReadFails(e) \/ FileFails(e) \/ Crash(e)
<1> USE DEF Goto, file, Written
<1>1. CASE UNCHANGED <<pc, file>>
  BY <1>1
<1>2. ASSUME NEW x \in Runs, Start(x) \/ Scan(x) \/ End(x)
      PROVE  pc'[e] \in Written /\ cur'[e] = cur[e]
  BY <1>2 DEF Start, Scan, End, TypeOK
<1>3. ASSUME NEW x \in Runs, NEW n \in Names, Begin(x, n)
      PROVE  pc'[e] \in Written /\ cur'[e] = cur[e]
  BY <1>3 DEF Begin, TypeOK
<1>4. ASSUME NEW x \in Runs, Fetch(x) \/ ChooseTarget(x)
      PROVE  pc'[e] \in Written /\ cur'[e] = cur[e]
  BY <1>4 DEF Fetch, ChooseTarget, TypeOK
<1>5. ASSUME NEW x \in Runs, WriteEnriched(x) \/ WriteQuarantine(x) \/ MoveRaw(x)
      PROVE  pc'[e] \in Written /\ cur'[e] = cur[e]
  BY <1>5 DEF WriteEnriched, WriteQuarantine, MoveRaw, TypeOK
<1>6. ASSUME NEW x \in Runs, x # e,
             InsertRow(x) \/ ReadFails(x) \/ FileFails(x) \/ Crash(x)
      PROVE  pc'[e] = pc[e] /\ cur'[e] = cur[e]
  BY <1>6 DEF InsertRow, ReadFails, FileFails, Crash, Interrupt, CutShort, ForgetFile, TypeOK
<1>7. QED
  BY <1>1, <1>2, <1>3, <1>4, <1>5, <1>6
     DEF Next, RunNext, Drop, Age, CabinetChange, TakeQuarantine, UploaderIngest,
         UploaderArchive, vars

\* A raw file nobody has written yet.
Fresh(r) == r \notin enrichedFiles /\ \A e \in Runs : ~(cur[e] = r /\ pc[e] \in Written)

\* Nobody writes a file twice but after an interruption: rows and interruptions only accumulate.
LEMMA FreshStep ==
  ASSUME TypeOK, [Next]_vars, NEW r \in Raws, Fresh(r)', r \notin interrupted'
  PROVE  Fresh(r) /\ r \notin interrupted
<1>1. enrichedFiles \subseteq enrichedFiles' /\ interrupted \subseteq interrupted'
  BY DEF Next, RunNext, Drop, Age, CabinetChange, TakeQuarantine, UploaderIngest,
     UploaderArchive, Start, Scan, Begin, Fetch, ChooseTarget, WriteEnriched, WriteQuarantine,
     MoveRaw, InsertRow, End, ReadFails, FileFails, Crash, Interrupt, CutShort, vars, history
<1>2. ASSUME NEW e \in Runs, cur[e] = r, pc[e] \in Written
      PROVE  FALSE
  <2>1. CASE pc'[e] \in Written /\ cur'[e] = cur[e]
    BY <1>2, <2>1 DEF Fresh
  <2>2. CASE InsertRow(e)
    BY <1>2, <2>2 DEF Fresh, InsertRow
  <2>3. CASE ReadFails(e) \/ FileFails(e) \/ Crash(e)
    BY <1>2, <2>3 DEF ReadFails, FileFails, Crash, Interrupt, CutShort
  <2>4. QED
    BY <1>2, <2>1, <2>2, <2>3, WrittenGoesOn
<1>3. QED
  BY <1>1, <1>2 DEF Fresh

\* What is seen comes from a rename; an empty path has no lines.
LEMMA SeenStep ==
  ASSUME TypeOK, [Next]_vars, NEW x \in Seen', NEW r \in Raws, Has(x, r)
  PROVE  x \in Seen \/ \E e \in Runs : WriteEnriched(e) /\ x = <<target[e], good[e]>>
<1>0. \A p : ~Has(<<p, {}>>, r)
  BY DEF Has, LinesIn
<1>1. CASE UNCHANGED <<inbox, ingested>>
  BY <1>1 DEF Seen
<1>2. ASSUME NEW p \in Path, TakeQuarantine(p) \/ UploaderIngest(p)
      PROVE  x \in Seen
  BY <1>2 DEF TakeQuarantine, UploaderIngest, Seen, folders, uploader
<1>3. ASSUME NEW p \in Path, UploaderArchive(p)
      PROVE  x \in Seen
  <2>1. ingested' = ingested /\ inbox' = [inbox EXCEPT ![p] = {}]
    BY <1>3 DEF UploaderArchive
  <2>2. CASE x \in ingested
    BY <2>2 DEF Seen
  <2>3. ASSUME NEW q \in Path, x = <<q, inbox'[q]>>
        PROVE  x \in Seen
    <3>1. q # p
      BY <1>0, <2>1, <2>3 DEF TypeOK
    <3>2. x = <<q, inbox[q]>>
      BY <2>1, <2>3, <3>1 DEF TypeOK
    <3>3. QED
      BY <3>2 DEF Seen
  <2>4. QED
    BY <2>1, <2>2, <2>3 DEF Seen
<1>4. ASSUME NEW e \in Runs, WriteEnriched(e)
      PROVE  x \in Seen \/ x = <<target[e], good[e]>>
  <2>1. ingested' = ingested /\ inbox' = [inbox EXCEPT ![target[e]] = good[e]]
    BY <1>4 DEF WriteEnriched, uploader
  <2>2. CASE x \in ingested
    BY <2>2 DEF Seen
  <2>3. ASSUME NEW q \in Path, x = <<q, inbox'[q]>>
        PROVE  x \in Seen \/ x = <<target[e], good[e]>>
    <3>1. CASE q = target[e]
      BY <2>1, <2>3, <3>1 DEF TypeOK
    <3>2. CASE q # target[e]
      <4>1. x = <<q, inbox[q]>>
        BY <2>1, <2>3, <3>2 DEF TypeOK
      <4>2. QED
        BY <4>1 DEF Seen
    <3>3. QED
      BY <3>1, <3>2
  <2>4. QED
    BY <2>1, <2>2, <2>3 DEF Seen
<1>5. ASSUME NEW e \in Runs, WriteQuarantine(e) \/ InsertRow(e)
      PROVE  UNCHANGED <<inbox, ingested>>
  BY <1>5 DEF WriteQuarantine, InsertRow, folders, uploader
<1>6. QED
  BY <1>1, <1>2, <1>3, <1>4, <1>5, StoreStep

\* A file that is not interrupted is written once.
LEMMA OnceStep ==
  ASSUME TypeOK, RunInv, SplitInv, FolderInv, OnceInv, [Next]_vars
  PROVE  OnceInv'
<1> SUFFICES ASSUME NEW r \in Raws, r \notin interrupted'
             PROVE  /\ \A x, y \in Seen' : Has(x, r) /\ Has(y, r) => x = y
                    /\ Fresh(r)' => \A x \in Seen' : ~Has(x, r)
  BY DEF OnceInv, Fresh, Has, LinesIn
<1>1. r \notin interrupted
  BY DEF Next, RunNext, Drop, Age, CabinetChange, TakeQuarantine, UploaderIngest,
     UploaderArchive, Start, Scan, Begin, Fetch, ChooseTarget, WriteEnriched, WriteQuarantine,
     MoveRaw, InsertRow, End, ReadFails, FileFails, Crash, Interrupt, CutShort, vars, history
<1>2. /\ \A x, y \in Seen : Has(x, r) /\ Has(y, r) => x = y
      /\ Fresh(r) => \A x \in Seen : ~Has(x, r)
  BY <1>1 DEF OnceInv, Fresh
<1>3. CASE \E e \in Runs : WriteEnriched(e) /\ cur[e] = r
  <2>1. PICK e \in Runs : WriteEnriched(e) /\ cur[e] = r
    BY <1>3
  <2>2. pc[e] = "write" /\ pc'[e] = "quarantine" /\ cur' = cur
    BY <2>1 DEF WriteEnriched, Goto, file, TypeOK
  <2>3. Fresh(r)
    <3>1. r \notin enrichedFiles
      BY <2>1, WriteFacts
    <3>2. \A x \in Runs : pc[x] \notin Written
      BY <2>2, OneRun DEF Written
    <3>3. QED
      BY <3>1, <3>2 DEF Fresh
  <2>4. ~Fresh(r)'
    BY <2>1, <2>2 DEF Fresh, Written
  <2>5. \A x \in Runs : WriteEnriched(x) => x = e
    BY <2>2, OneRun DEF WriteEnriched
  <2>6. \A x \in Seen' : Has(x, r) => x = <<target[e], good[e]>>
    BY <1>2, <2>3, <2>5, SeenStep
  <2>7. QED
    BY <2>4, <2>6
<1>4. CASE ~\E e \in Runs : WriteEnriched(e) /\ cur[e] = r
  <2>1. ASSUME NEW x \in Seen', Has(x, r)
        PROVE  x \in Seen
    <3>1. ASSUME NEW e \in Runs, WriteEnriched(e), x = <<target[e], good[e]>>
          PROVE  FALSE
      <4>1. LinesIn(good[e]) \subseteq LinesOf(cur[e])
        BY <3>1, WriteFacts
      <4>2. PICK l \in LinesIn(good[e]) : RawOf[l] = r
        BY <2>1, <3>1 DEF Has
      <4>3. QED
        BY <1>4, <3>1, <4>1, <4>2 DEF LinesOf
    <3>2. QED
      BY <2>1, <3>1, SeenStep
  <2>2. Fresh(r)' => Fresh(r)
    BY FreshStep
  <2>3. QED
    BY <1>2, <2>1, <2>2
<1>5. QED
  BY <1>3, <1>4

-----------------------------------------------------------------------------
(***************************************************************************)
(* The theorems.                                                           *)
(***************************************************************************)
\* At first the folders and the tables are empty.
LEMMA EnricherInit ==
  ASSUME Init
  PROVE  EInv
<1> USE DEF Init
<1>1. {} \in Output /\ LinesIn({}) = {}
  BY DEF Output, LinesIn
<1>2. TypeOK
  BY <1>1, EnricherAssumption DEF TypeOK
<1>3. RunInv /\ SplitInv /\ WrittenInv
  BY DEF RunInv, SplitInv, WrittenInv, InFile, Fetched, Written
<1>4. FolderInv
  BY <1>1, PathFacts DEF FolderInv
<1>5. OnceInv
  <2>1. \A x \in Seen : x[2] = {}
    BY DEF Seen
  <2>2. \A x \in Seen, r \in Raws : ~Has(x, r)
    BY <1>1, <2>1 DEF Has
  <2>3. QED
    BY <2>2 DEF OnceInv
<1>6. QED
  BY <1>2, <1>3, <1>4, <1>5 DEF EInv

\* The inductive invariant holds in every reachable state, for any raw files, lines, runs
\* and faults: one run at a time on one unrecorded file, prefixed names that hold lines of
\* their own file only, written lines kept until somebody has them.
THEOREM EnricherInvariant == Spec => []EInv
<1>1. EInv /\ [Next]_vars => EInv'
  BY TypeStep, RunStep, SplitStep, FolderStep, WrittenStep, OnceStep DEF EInv
<1>2. QED
  BY <1>1, EnricherInit, PTL DEF Spec

\* Type correctness of the enrichment stage.
THEOREM EnricherTypes == Spec => []TypeOK
<1>1. EInv => TypeOK
  BY DEF EInv
<1>2. QED
  BY <1>1, EnricherInvariant, PTL

\* The uploader gets one line under two identities only when process_file was cut short on
\* its raw file.
THEOREM RepeatsAreInterruptions == Spec => []TwiceOnlyIfInterrupted
<1>1. ASSUME EInv, NEW l \in Lines, RawOf[l] \notin interrupted
      PROVE  ~(Cardinality(Deliveries(l)) > 1)
  <2>1. RawOf[l] \in Raws
    BY EnricherAssumption
  <2>2. \A x, y \in Deliveries(l) : x = y
    <3>1. \A x \in Deliveries(l) : x \in Seen /\ Has(x, RawOf[l])
      BY DEF Deliveries, Seen, Has
    <3>2. QED
      BY <1>1, <2>1, <3>1 DEF EInv, OnceInv
  <2>3. CASE Deliveries(l) = {}
    <3>1. Cardinality({}) = 0
      BY FS_EmptySet
    <3>2. QED
      BY <2>3, <3>1
  <2>4. ASSUME NEW x \in Deliveries(l)
        PROVE  ~(Cardinality(Deliveries(l)) > 1)
    <3>1. Deliveries(l) = {x}
      BY <2>2
    <3>2. Cardinality({x}) = 1
      BY FS_Singleton
    <3>3. QED
      BY <3>1, <3>2
  <2>5. QED
    BY <2>3, <2>4
<1>2. EInv => TwiceOnlyIfInterrupted
  BY <1>1 DEF TwiceOnlyIfInterrupted
<1>3. QED
  BY <1>2, EnricherInvariant, PTL

\* Offered lines are lines.
LEMMA OfferedTypes ==
  ASSUME TypeOK
  PROVE  Offered \subseteq Lines
<1>1. \A p \in Path : LinesIn(inbox[p]) \subseteq Lines
  BY OutputFacts DEF TypeOK
<1>2. QED
  BY <1>1 DEF TypeOK, Offered, InInbox, InQuarantine

\* Every step of the stage is a step of LineDelivery or changes nothing it sees.
LEMMA DeliveryStep ==
  ASSUME EInv, EInv', [Next]_vars
  PROVE  Delivery!Next \/ UNCHANGED <<Offered, Delivered, enrichedFiles>>
<1> USE DEF EInv
<1>1. CASE UNCHANGED <<inbox, quarantine, taken, ingested, enrichedFiles>>
  BY <1>1 DEF Offered, InInbox, InQuarantine, Delivered
<1>2. ASSUME NEW p \in Path, TakeQuarantine(p)
      PROVE  Delivery!Next
  <2>1. Delivery!Deliver
    BY <1>2, TakeFacts DEF Delivery!Deliver, Offered
  <2>2. QED
    BY <2>1 DEF Delivery!Next
<1>3. ASSUME NEW p \in Path, UploaderIngest(p)
      PROVE  Delivery!Next
  <2>1. Delivery!Deliver
    BY <1>3, IngestFacts DEF Delivery!Deliver, Offered
  <2>2. QED
    BY <2>1 DEF Delivery!Next
<1>4. ASSUME NEW p \in Path, UploaderArchive(p)
      PROVE  Delivery!Next
  <2>1. Delivery!Deliver
    BY <1>4, ArchiveFacts DEF Delivery!Deliver, Offered
  <2>2. QED
    BY <2>1 DEF Delivery!Next
<1>5. ASSUME NEW e \in Runs, WriteEnriched(e)
      PROVE  Delivery!Next
  <2>1. /\ cur[e] \in Raws \ enrichedFiles
        /\ InInbox' \subseteq InInbox \cup LinesOf(cur[e])
        /\ InInbox \subseteq InInbox' \cup LinesOf(cur[e])
    BY <1>5, WriteFacts, InboxWrite
  <2>2. UNCHANGED <<InQuarantine, Delivered, enrichedFiles>>
    BY <1>5 DEF WriteEnriched, InQuarantine, Delivered, uploader, history
  <2>3. Delivery!Attempt(cur[e])
    BY <2>1, <2>2, OfferedTypes DEF Delivery!Attempt, Offered, LinesOf
  <2>4. QED
    BY <2>1, <2>3 DEF Delivery!Next
<1>6. ASSUME NEW e \in Runs, WriteQuarantine(e)
      PROVE  Delivery!Next \/ UNCHANGED <<Offered, Delivered, enrichedFiles>>
  <2>1. UNCHANGED <<InInbox, Delivered, enrichedFiles>>
    BY <1>6 DEF WriteQuarantine, InInbox, Delivered, uploader, history
  <2>2. CASE quarantine' = quarantine
    BY <2>1, <2>2 DEF Offered, InQuarantine
  <2>3. ASSUME NEW t \in Path, quarantine' = [quarantine EXCEPT ![t] = bad[e]],
               quarantine[t] \subseteq LinesOf(cur[e])
        PROVE  Delivery!Next
    <3>1. cur[e] \in Raws \ enrichedFiles /\ bad[e] \subseteq LinesOf(cur[e])
      BY <1>6, QuarantineFacts
    <3>2. /\ InQuarantine' \subseteq InQuarantine \cup LinesOf(cur[e])
          /\ InQuarantine \subseteq InQuarantine' \cup LinesOf(cur[e])
      BY <2>3, <3>1, QuarantineWrite
    <3>3. Delivery!Attempt(cur[e])
      BY <2>1, <3>1, <3>2, OfferedTypes DEF Delivery!Attempt, Offered, LinesOf
    <3>4. QED
      BY <3>1, <3>3 DEF Delivery!Next
  <2>4. QED
    BY <1>6, <2>2, <2>3, QuarantineFacts
<1>7. ASSUME NEW e \in Runs, InsertRow(e)
      PROVE  Delivery!Next
  <2>1. /\ pc[e] = "insert" /\ enrichedFiles' = enrichedFiles \cup {cur[e]}
        /\ UNCHANGED <<Offered, Delivered>>
    BY <1>7 DEF InsertRow, Offered, InInbox, InQuarantine, Delivered, folders, uploader, history
  <2>2. cur[e] \in Raws /\ LinesOf(cur[e]) = LinesIn(good[e]) \cup bad[e]
    BY <2>1 DEF RunInv, SplitInv, Fetched, InFile
  <2>3. LinesOf(cur[e]) \subseteq Offered \cup Delivered
    BY <2>1, <2>2 DEF WrittenInv, Written, Offered
  <2>4. Delivery!Settle(cur[e])
    BY <2>1, <2>3 DEF Delivery!Settle, LinesOf
  <2>5. QED
    BY <2>2, <2>4 DEF Delivery!Next
<1>8. QED
  BY <1>1, <1>2, <1>3, <1>4, <1>5, <1>6, <1>7, StoreStep

\* The stage implements LineDelivery: once a file is recorded in enriched_files, a line of
\* it leaves the folders only into the hands of the uploader or an operator.
THEOREM ImplementsDelivery == Spec => DeliverySpec
<1>1. Init => Delivery!Init
  <2>1. LinesIn({}) = {}
    BY DEF LinesIn
  <2>2. QED
    BY <2>1 DEF Init, Delivery!Init, Offered, InInbox, InQuarantine, Delivered
<1>2. EInv /\ EInv' /\ [Next]_vars =>
        [Delivery!Next]_<<Offered, Delivered, enrichedFiles>>
  BY DeliveryStep
<1>3. QED
  BY <1>1, <1>2, EnricherInvariant, PTL DEF Spec, DeliverySpec, Delivery!Spec
=============================================================================
