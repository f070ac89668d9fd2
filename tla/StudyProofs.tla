----------------------------- MODULE StudyProofs -----------------------------
(***************************************************************************)
(* Theorems about the execution of studies (StudyRunner) and their launch  *)
(* from the Studies page (LaunchClaim), for any processes, specs, cells,   *)
(* tabs, children and faults.                                              *)
(***************************************************************************)
EXTENDS StudyRunner, LaunchClaim, FiniteSetTheorems, TLAPS

LEMMA NoJobType == NoJob \in Jobs
  BY RunNamesAssumption DEF NoJob, Jobs

LEMMA EmptyLedgerType ==
    ASSUME NEW i \in Identities
    PROVE  EmptyLedger(i) \in Ledgers
  BY DEF EmptyLedger, Ledgers, LedgerCell, Statuses, PendingCell, AbsentCell

LEMMA NoLedgerType == NoLedger \in Ledgers
  BY DEF NoLedger, Ledgers, LedgerCell, Statuses, AbsentCell

LEMMA NoRowsType == NoRows \in [Cells -> Rows]
  BY DEF NoRows, Rows, Statuses, AbsentRow

LEMMA InitStudyLedgerType ==
    ASSUME NEW lg \in Ledgers, NEW j \in Jobs
    PROVE  InitStudyLedger(lg, j) \in Ledgers
<1>1. j.identity \in Identities /\ j.confirm \in BOOLEAN
  BY DEF Jobs
<1>2. EmptyLedger(j.identity) \in Ledgers
  BY <1>1, EmptyLedgerType
<1>3. [lg EXCEPT !.identity = j.identity,
         !.cells = [c \in Cells |-> IF c \in RunNames[j.identity]
                      THEN (IF j.force \/ lg.cells[c].status = "absent" THEN PendingCell ELSE lg.cells[c])
                      ELSE AbsentCell]] \in Ledgers
  BY <1>1 DEF Ledgers, LedgerCell, Statuses, PendingCell, AbsentCell
<1>4. ASSUME NEW b \in Ledgers
      PROVE  [b EXCEPT !.confirm = @ \/ j.confirm] \in Ledgers
  BY <1>1 DEF Ledgers
<1> QED
  BY <1>2, <1>3, <1>4 DEF InitStudyLedger

LEMMA MarkCellType ==
    ASSUME NEW lg \in Ledgers, NEW c \in Cells, NEW st \in Statuses, NEW zip \in BOOLEAN
    PROVE  MarkCell(lg, c, st, zip) \in Ledgers
  BY DEF MarkCell, Ledgers, LedgerCell

LEMMA WriteResultsIndexType ==
    ASSUME NEW rs \in [Cells -> Rows], NEW names
    PROVE  WriteResultsIndex(rs, names) \in [Cells -> Rows]
<1> SUFFICES ASSUME NEW c \in Cells
             PROVE  (IF c \notin names THEN AbsentRow
                     ELSE IF rs[c].status = "absent" THEN [AbsentRow EXCEPT !.status = "pending"]
                     ELSE rs[c]) \in Rows
  BY DEF WriteResultsIndex
<1>1. AbsentRow \in Rows /\ [AbsentRow EXCEPT !.status = "pending"] \in Rows /\ rs[c] \in Rows
  BY DEF AbsentRow, Rows, Statuses
<1>2. CASE c \notin names
  BY <1>1, <1>2
<1>3. CASE c \in names /\ rs[c].status = "absent"
  BY <1>1, <1>3
<1>4. CASE c \in names /\ rs[c].status # "absent"
  BY <1>1, <1>4
<1> QED
  BY <1>2, <1>3, <1>4

-----------------------------------------------------------------------------
LEMMA InitType == Init => TypeOK
  BY NoJobType, NoLedgerType, NoRowsType, FaultsAssumption DEF Init, TypeOK

LEMMA ForgetType ==
    ASSUME NEW p \in Procs, TypeOK, Forget(p)
    PROVE  /\ pc' \in [Procs -> Inside \cup {"idle", "lock"}]
           /\ job' \in [Procs -> Jobs]
           /\ existing' \in [Procs -> Ledgers]
           /\ rows' \in [Procs -> [Cells -> Rows]]
           /\ todo' \in [Procs -> SUBSET Cells]
           /\ left' \in [Procs -> SUBSET Cells]
           /\ cell' \in [Procs -> SUBSET Cells]
           /\ aborted' \in [Procs -> BOOLEAN]
  BY NoJobType, NoLedgerType, NoRowsType DEF TypeOK, Forget, Goto

LEMMA GotoType ==
    ASSUME NEW p \in Procs, TypeOK, NEW l \in Inside, Goto(p, l)
    PROVE  pc' \in [Procs -> Inside \cup {"idle", "lock"}]
  BY DEF TypeOK, Goto

LEMMA StepType ==
    ASSUME TypeOK, NEW p \in Procs, Step(p)
    PROVE  TypeOK'
<1> USE DEF TypeOK
<1>0. job[p] \in Jobs /\ job[p].identity \in Identities /\ job[p].force \in BOOLEAN
  BY DEF Jobs
<1>1. CASE Contend(p)
  BY <1>1, ForgetType DEF Contend, disk
<1>2. CASE Acquire(p)
  BY <1>2 DEF Acquire, Goto, disk, local, Inside
<1>3. CASE Gate(p)
  BY <1>3 DEF Gate, Goto, disk, Inside
<1>4. CASE GateRefuses(p)
  BY <1>4, ForgetType DEF GateRefuses, Leave, Unlock, disk
<1>5. CASE Prepare(p)
  BY <1>0, <1>5 DEF Prepare, Goto, local, Inside
<1>6. CASE PrepareFails(p)
  BY <1>6, ForgetType DEF PrepareFails, Leave, Unlock, disk
<1>7. CASE InitLedger(p)
  <2>1. ledger' \in Ledgers
    BY <1>0, <1>7, InitStudyLedgerType DEF InitLedger
  <2> QED
    BY <1>7, <2>1 DEF InitLedger, Goto, local, Inside
<1>8. CASE Claim(p)
  <2> DEFINE run == CellsToRun(ledger, RunNames[job[p].identity], job[p].force)
  <2>1. run \in SUBSET Cells
    BY <1>0, RunNamesAssumption DEF CellsToRun
  <2>2. ledger' \in Ledgers
    <3> DEFINE marked == [c \in Cells |-> IF c \in run THEN [ledger.cells[c] EXCEPT !.status = "running"]
                                          ELSE ledger.cells[c]]
    <3>1. marked \in [Cells -> LedgerCell]
      BY DEF Ledgers, LedgerCell, Statuses
    <3>2. ledger' = [ledger EXCEPT !.cells = marked]
      BY <1>8 DEF Claim, Ledgers
    <3> HIDE DEF marked
    <3> QED
      BY <3>1, <3>2 DEF Ledgers
  <2>3. ScopeStudyIndex(index, job[p]) \in [Cells -> Rows]
    BY DEF ScopeStudyIndex, Rows, AbsentRow, Statuses
  <2> QED
    BY <1>8, <2>1, <2>2, <2>3 DEF Claim, Goto, Inside
<1>9. CASE \E c \in Cells : CellOk(p, c) \/ CellFailed(p, c)
  <2>1. PICK c \in Cells : CellOk(p, c) \/ CellFailed(p, c)
    BY <1>9
  <2>2. bundle' \in [Cells -> Identities \cup {Absent, Torn}]
    BY <2>1 DEF CellOk, CellFailed
  <2>3. cell' \in [Procs -> SUBSET Cells]
    <3>1. cell' = [cell EXCEPT ![p] = {c}]
      BY <2>1 DEF CellOk, CellFailed
    <3> QED
      BY <3>1
  <2>4. "bundle" \in Inside /\ "record_failed" \in Inside
    BY DEF Inside
  <2>5. pc' \in [Procs -> Inside \cup {"idle", "lock"}]
    BY <2>1, <2>4, GotoType DEF CellOk, CellFailed
  <2> QED
    BY <2>1, <2>2, <2>3, <2>5 DEF CellOk, CellFailed
<1>10. CASE FinishBundle(p)
  BY <1>0, <1>10 DEF FinishBundle, Goto, local, Inside
<1>11. CASE RecordOk(p) \/ RecordFailed(p)
  <2>1. PICK c \in Cells : \/ Apply(p, c, "ok", TRUE, job[p].identity)
                           \/ Apply(p, c, "failed", FALSE, NoIdentity)
    BY <1>11 DEF RecordOk, RecordFailed
  <2>2. MarkCell(ledger, c, "ok", TRUE) \in Ledgers /\ MarkCell(ledger, c, "failed", FALSE) \in Ledgers
    BY MarkCellType DEF Statuses
  <2>3. [rows EXCEPT ![p][c] = [status |-> "ok", metrics |-> job[p].identity]] \in [Procs -> [Cells -> Rows]]
    BY <1>0 DEF Rows, Statuses
  <2>4. [rows EXCEPT ![p][c] = [status |-> "failed", metrics |-> NoIdentity]] \in [Procs -> [Cells -> Rows]]
    BY DEF Rows, Statuses
  <2>5. ledger' \in Ledgers /\ rows' \in [Procs -> [Cells -> Rows]]
    BY <2>1, <2>2, <2>3, <2>4 DEF Apply
  <2>6. left' \in [Procs -> SUBSET Cells]
    <3>1. left' = [left EXCEPT ![p] = left[p] \ {c}]
      BY <2>1 DEF Apply
    <3> QED
      BY <3>1
  <2>7. pc' \in [Procs -> Inside \cup {"idle", "lock"}]
    BY <2>1, GotoType DEF Apply, Inside
  <2> QED
    BY <2>1, <2>5, <2>6, <2>7 DEF Apply
<1>12. CASE Reindex(p)
  <2>1. index' \in [Cells -> Rows]
    BY <1>12, WriteResultsIndexType DEF Reindex
  <2> QED
    BY <1>12, <2>1 DEF Reindex, Goto, Inside
<1>13. CASE DispatchDone(p)
  BY <1>13 DEF DispatchDone, Goto, disk, local, Inside
<1>14. CASE Sweep(p)
  <2>1. ledger' \in Ledgers
    BY <1>14 DEF Sweep, Ledgers, LedgerCell, Statuses
  <2>2. rows' \in [Procs -> [Cells -> Rows]]
    BY <1>14 DEF Sweep, Rows, AbsentRow, Statuses
  <2> QED
    BY <1>14, <2>1, <2>2 DEF Sweep, Goto, Inside
<1>15. CASE SweepIndex(p)
  <2>1. index' \in [Cells -> Rows]
    BY <1>15, WriteResultsIndexType DEF SweepIndex
  <2> QED
    BY <1>15, <2>1 DEF SweepIndex, Goto, local, Inside
<1>16. CASE SweepClean(p)
  BY <1>16 DEF SweepClean, Goto, disk, local, Inside
<1>17. CASE Finish(p)
  <2> DEFINE synced == [c \in Cells |-> IF c \in RunNames[job[p].identity]
                          THEN SyncStudyIndexRow(c, ledger.cells[c], rows[p][c]) ELSE rows[p][c]]
  <2>1. synced \in [Cells -> Rows]
    BY DEF SyncStudyIndexRow, BundleMetrics, Rows, Ledgers, LedgerCell
  <2>2. rows' \in [Procs -> [Cells -> Rows]]
    BY <1>17, <2>1 DEF Finish
  <2>3. index' \in [Cells -> Rows]
    BY <1>17, <2>1, WriteResultsIndexType DEF Finish
  <2> QED
    BY <1>17, <2>2, <2>3 DEF Finish, Goto, Inside
<1>18. CASE Release(p)
  BY <1>18, ForgetType DEF Release, Leave, Unlock, disk
<1> QED
  BY <1>1, <1>2, <1>3, <1>4, <1>5, <1>6, <1>7, <1>8, <1>9, <1>10, <1>11, <1>12, <1>13,
     <1>14, <1>15, <1>16, <1>17, <1>18 DEF Step

LEMMA NextType == TypeOK /\ [Next]_vars => TypeOK'
<1> SUFFICES ASSUME TypeOK, [Next]_vars
             PROVE  TypeOK'
  OBVIOUS
<1>1. CASE \E p \in Procs : Step(p)
  BY <1>1, StepType
<1>2. CASE \E p \in Procs : Interrupt(p)
  BY <1>2, FaultsAssumption DEF TypeOK, Interrupt, Goto, disk, Inside
<1>3. CASE \E p \in Procs : Crash(p)
  <2>1. PICK p \in Procs : Crash(p)
    BY <1>3
  <2>2. faults' \in 0..MaxFaults
    BY <2>1, FaultsAssumption DEF TypeOK, Crash
  <2> QED
    BY <2>1, <2>2, ForgetType DEF TypeOK, Crash, Leave, Unlock, disk
<1>4. CASE \E p \in Procs, j \in Jobs : Start(p, j)
  BY <1>4 DEF TypeOK, Start, Goto, disk
<1>5. CASE \E c \in Cells : LoseBundle(c)
  BY <1>5, FaultsAssumption DEF TypeOK, LoseBundle, local
<1>6. CASE UNCHANGED vars
  BY <1>6 DEF TypeOK, vars, disk, local
<1> QED
  BY <1>1, <1>2, <1>3, <1>4, <1>5, <1>6 DEF Next

\* Every state of a study directory and of the processes working in it is
\* well-typed, whatever crashes and whatever is forced (run_study).
THEOREM TypeCorrect == Spec => []TypeOK
<1>1. Init => TypeOK
  BY InitType
<1>2. TypeOK /\ [Next]_vars => TypeOK'
  BY NextType
<1> QED
  BY <1>1, <1>2, PTL DEF Spec

-----------------------------------------------------------------------------
(* The ledger never calls a wrong bundle ok.  OkBundleIsCurrent needs to    *)
(* know what the one writer is in the middle of: what it read before the    *)
(* ledger was rewritten, that the ledger is its own afterwards, and that a  *)
(* cell whose bundle is being replaced is on record as running.             *)

Owning   == Inside \ {"gate", "prepare", "init"}
Applying == {"dispatch", "bundle", "record", "record_failed", "reindex"}

UnidentifiedIsMissing == ledger.identity = NoIdentity => ledger = NoLedger

ReadIsFresh ==
    \A p \in Procs : pc[p] \in {"prepare", "init"} =>
        existing[p] = ledger /\ SameIdentity(ledger, job[p])

LedgerIsOwn ==
    \A p \in Procs : pc[p] \in Owning => ledger.identity = job[p].identity

LeftIsRunning ==
    \A p \in Procs : pc[p] \in Applying =>
        \A c \in left[p] : ledger.cells[c].status = "running"

ApplyingIsLeft ==
    \A p \in Procs : pc[p] \in {"bundle", "record", "record_failed"} => cell[p] \subseteq left[p]

RecordedIsWhole ==
    \A p \in Procs : pc[p] = "record" =>
        \A c \in cell[p] : bundle[c] \in {job[p].identity, Absent}

Safe ==
    /\ TypeOK
    /\ OneWriter
    /\ OkBundleIsCurrent
    /\ UnidentifiedIsMissing
    /\ ReadIsFresh
    /\ LedgerIsOwn
    /\ LeftIsRunning
    /\ ApplyingIsLeft
    /\ RecordedIsWhole

\* The invariants that speak of nothing but what a step leaves alone.
LEMMA InitSafe == Init => Safe
<1> SUFFICES ASSUME Init PROVE Safe
  OBVIOUS
<1>1. \A p \in Procs : pc[p] = "idle" /\ lock # p
  BY SentinelAssumption DEF Init
<1>2. \A c \in Cells : ledger.cells[c].status = "absent"
  BY DEF Init, NoLedger, AbsentCell
<1> QED
  BY <1>1, <1>2, InitType DEF Init, Safe, OneWriter, OkBundleIsCurrent, UnidentifiedIsMissing,
     ReadIsFresh, LedgerIsOwn, LeftIsRunning, ApplyingIsLeft, RecordedIsWhole, Inside, Owning, Applying

\* A process that ends, in whatever way, drops what the invariants say of it.
LEMMA LeaveSafe ==
    ASSUME Safe, TypeOK', NEW p \in Procs, Forget(p), Unlock(p), UNCHANGED disk
    PROVE  Safe'
<1>1. pc' = [pc EXCEPT ![p] = "idle"] /\ UNCHANGED <<ledger, bundle>>
  BY DEF Forget, Goto, disk
<1>2. \A q \in Procs : q # p => /\ pc'[q] = pc[q] /\ job'[q] = job[q] /\ existing'[q] = existing[q]
                                /\ left'[q] = left[q] /\ cell'[q] = cell[q]
  BY DEF Forget, Goto, Safe, TypeOK
<1>3. pc'[p] = "idle"
  BY <1>1 DEF Safe, TypeOK
<1>4. OneWriter'
  BY <1>2, <1>3, SentinelAssumption DEF Safe, OneWriter, Unlock, Inside
<1>5. OkBundleIsCurrent' /\ UnidentifiedIsMissing'
  BY <1>1 DEF Safe, OkBundleIsCurrent, UnidentifiedIsMissing
<1>6. ReadIsFresh' /\ LedgerIsOwn' /\ LeftIsRunning' /\ ApplyingIsLeft' /\ RecordedIsWhole'
  BY <1>1, <1>2, <1>3 DEF Safe, ReadIsFresh, LedgerIsOwn, LeftIsRunning, ApplyingIsLeft, RecordedIsWhole,
     Owning, Applying, Inside, SameIdentity
<1> QED
  BY <1>4, <1>5, <1>6 DEF Safe

\* A step of the holder that writes neither the ledger nor a bundle.
LEMMA MoveSafe ==
    ASSUME Safe, TypeOK', NEW p \in Procs, NEW l \in Inside, pc[p] \in Inside, Goto(p, l),
           UNCHANGED <<lock, ledger, bundle, job>>,
           \A q \in Procs : q # p => /\ existing'[q] = existing[q] /\ left'[q] = left[q] /\ cell'[q] = cell[q],
           l \in {"prepare", "init"} => existing'[p] = ledger /\ SameIdentity(ledger, job[p]),
           l \in Owning => ledger.identity = job[p].identity,
           l \in Applying => \A c \in left'[p] : ledger.cells[c].status = "running",
           l \in {"bundle", "record", "record_failed"} => cell'[p] \subseteq left'[p],
           l = "record" => \A c \in cell'[p] : bundle[c] \in {job[p].identity, Absent}
    PROVE  Safe'
<1>1. pc'[p] = l /\ \A q \in Procs : q # p => pc'[q] = pc[q]
  BY DEF Goto, Safe, TypeOK
<1>2. OneWriter' /\ OkBundleIsCurrent' /\ UnidentifiedIsMissing'
  BY <1>1 DEF Safe, OneWriter, OkBundleIsCurrent, UnidentifiedIsMissing
<1>3. ReadIsFresh' /\ LedgerIsOwn' /\ LeftIsRunning' /\ ApplyingIsLeft' /\ RecordedIsWhole'
  BY <1>1 DEF Safe, ReadIsFresh, LedgerIsOwn, LeftIsRunning, ApplyingIsLeft, RecordedIsWhole, SameIdentity
<1> QED
  BY <1>2, <1>3 DEF Safe

\* A step of the holder that writes the ledger or a bundle: nobody else is
\* past the lock, so only what is said of the holder can change.
LEMMA WriteSafe ==
    ASSUME Safe, TypeOK', NEW p \in Procs, NEW l \in Owning, pc[p] \in Inside, Goto(p, l),
           lock' = lock, job' = job,
           OkBundleIsCurrent', UnidentifiedIsMissing',
           ledger'.identity = job[p].identity,
           l \in Applying => \A c \in left'[p] : ledger'.cells[c].status = "running",
           l \in {"bundle", "record", "record_failed"} => cell'[p] \subseteq left'[p],
           l = "record" => \A c \in cell'[p] : bundle'[c] \in {job[p].identity, Absent}
    PROVE  Safe'
<1>1. pc'[p] = l /\ \A q \in Procs : q # p => pc'[q] = pc[q]
  BY DEF Goto, Safe, TypeOK
<1>2. OneWriter'
  BY <1>1 DEF Safe, OneWriter, Owning
<1>3. \A q \in Procs : q # p => pc'[q] \notin Inside
  BY <1>1, <1>2 DEF Safe, OneWriter
<1>4. ReadIsFresh' /\ LedgerIsOwn' /\ LeftIsRunning' /\ ApplyingIsLeft' /\ RecordedIsWhole'
  BY <1>1, <1>3 DEF ReadIsFresh, LedgerIsOwn, LeftIsRunning, ApplyingIsLeft, RecordedIsWhole,
     Owning, Applying, Inside
<1> QED
  BY <1>2, <1>4 DEF Safe

LEMMA AcquireSafe ==
    ASSUME Safe, TypeOK', NEW p \in Procs, Acquire(p)
    PROVE  Safe'
<1>1. pc'[p] = "gate" /\ \A q \in Procs : q # p => pc'[q] = pc[q]
  BY DEF Acquire, Goto, Safe, TypeOK
<1>2. UNCHANGED <<ledger, bundle, job, existing, left, cell>>
  BY DEF Acquire, disk, local
<1>3. OneWriter'
  BY <1>1, SentinelAssumption DEF Acquire, Safe, OneWriter, Inside
<1>4. OkBundleIsCurrent' /\ UnidentifiedIsMissing'
  BY <1>2 DEF Safe, OkBundleIsCurrent, UnidentifiedIsMissing
<1>5. ReadIsFresh' /\ LedgerIsOwn' /\ LeftIsRunning' /\ ApplyingIsLeft' /\ RecordedIsWhole'
  BY <1>1, <1>2 DEF Safe, ReadIsFresh, LedgerIsOwn, LeftIsRunning, ApplyingIsLeft, RecordedIsWhole,
     SameIdentity, Owning, Applying
<1> QED
  BY <1>3, <1>4, <1>5 DEF Safe

LEMMA InitLedgerSafe ==
    ASSUME Safe, TypeOK', NEW p \in Procs, InitLedger(p)
    PROVE  Safe'
<1> DEFINE j == job[p]
           kept == [c \in Cells |-> IF c \in RunNames[j.identity]
                                    THEN IF j.force \/ ledger.cells[c].status = "absent"
                                         THEN PendingCell ELSE ledger.cells[c]
                                    ELSE AbsentCell]
<1>1. existing[p] = ledger /\ SameIdentity(ledger, j) /\ pc[p] = "init"
  BY DEF InitLedger, Safe, ReadIsFresh
<1>2. j \in Jobs /\ ledger \in Ledgers
  BY DEF Safe, TypeOK
<1>3. ledger' = InitStudyLedger(ledger, j) /\ UNCHANGED <<lock, bundle, job>> /\ Goto(p, "claim")
  BY <1>1 DEF InitLedger, local
<1>4. ASSUME ledger = NoLedger \/ (j.force /\ ledger.identity # j.identity)
      PROVE  OkBundleIsCurrent' /\ ledger'.identity = j.identity
  <2>1. ledger' = [EmptyLedger(j.identity) EXCEPT !.confirm = @ \/ j.confirm]
    BY <1>3, <1>4 DEF InitStudyLedger
  <2>2. ledger'.identity = j.identity /\ \A c \in Cells : ledger'.cells[c].status # "ok"
    BY <2>1 DEF EmptyLedger, PendingCell, AbsentCell
  <2> QED
    BY <2>2 DEF OkBundleIsCurrent
<1>5. ASSUME ~(ledger = NoLedger \/ (j.force /\ ledger.identity # j.identity))
      PROVE  OkBundleIsCurrent' /\ ledger'.identity = j.identity
  <2>1. ledger.identity = j.identity
    BY <1>1, <1>5 DEF SameIdentity, Safe, UnidentifiedIsMissing
  <2>2. ledger' = [[ledger EXCEPT !.identity = j.identity, !.cells = kept] EXCEPT !.confirm = @ \/ j.confirm]
    BY <1>3, <1>5 DEF InitStudyLedger
  <2>3. ledger'.identity = j.identity /\ ledger'.cells = kept
    BY <1>2, <2>2 DEF Ledgers
  <2>4. \A c \in Cells : kept[c].status = "ok" => kept[c] = ledger.cells[c]
    BY DEF PendingCell, AbsentCell
  <2> QED
    BY <1>3, <2>1, <2>3, <2>4 DEF Safe, OkBundleIsCurrent
<1>6. OkBundleIsCurrent' /\ ledger'.identity = j.identity
  BY <1>4, <1>5
<1>7. UnidentifiedIsMissing'
  BY <1>2, <1>6, SentinelAssumption DEF UnidentifiedIsMissing, Jobs
<1> QED
  BY <1>1, <1>3, <1>6, <1>7, WriteSafe DEF Owning, Applying, Inside

LEMMA ClaimSafe ==
    ASSUME Safe, TypeOK', NEW p \in Procs, Claim(p)
    PROVE  Safe'
<1> DEFINE run == CellsToRun(ledger, RunNames[job[p].identity], job[p].force)
           marked == [c \in Cells |-> IF c \in run THEN [ledger.cells[c] EXCEPT !.status = "running"]
                                      ELSE ledger.cells[c]]
<1>1. ledger \in Ledgers /\ job[p] \in Jobs /\ ledger.identity = job[p].identity
  BY DEF Claim, Safe, TypeOK, LedgerIsOwn, Owning, Inside
<1>2. ledger' = [ledger EXCEPT !.cells = marked]
  BY <1>1 DEF Claim, Ledgers
<1>3. ledger'.identity = ledger.identity /\ ledger'.cells = marked
  BY <1>1, <1>2 DEF Ledgers
<1>4. run \subseteq Cells
  BY <1>1, RunNamesAssumption DEF CellsToRun, Jobs
<1>5. \A c \in run : marked[c].status = "running"
  BY <1>1, <1>4 DEF Ledgers, LedgerCell
<1>6. \A c \in Cells : marked[c].status = "ok" => marked[c] = ledger.cells[c]
  BY <1>5
<1>7. bundle' = bundle /\ left'[p] = run
  BY DEF Claim, Safe, TypeOK
<1> HIDE DEF run, marked
<1>8. OkBundleIsCurrent'
  BY <1>3, <1>6, <1>7 DEF Safe, OkBundleIsCurrent
<1>9. UnidentifiedIsMissing'
  BY <1>1, <1>3, SentinelAssumption DEF UnidentifiedIsMissing, Jobs
<1> QED
  BY <1>1, <1>3, <1>5, <1>7, <1>8, <1>9, WriteSafe DEF Claim, Owning, Applying, Inside

LEMMA ApplySafe ==
    ASSUME Safe, TypeOK', NEW p \in Procs, NEW c \in Cells, NEW m,
           \/ pc[p] = "record" /\ Apply(p, c, "ok", TRUE, m)
           \/ pc[p] = "record_failed" /\ Apply(p, c, "failed", FALSE, m)
    PROVE  Safe'
<1>1. ledger \in Ledgers /\ job[p] \in Jobs /\ ledger.identity = job[p].identity
  BY DEF Safe, TypeOK, LedgerIsOwn, Owning, Inside
<1>2. PICK st \in {"ok", "failed"}, zip \in BOOLEAN :
        /\ ledger' = MarkCell(ledger, c, st, zip)
        /\ st = "ok" => zip /\ bundle[c] \in {job[p].identity, Absent}
  BY DEF Apply, Safe, RecordedIsWhole
<1>3. ledger'.identity = ledger.identity /\ ledger'.cells[c] = [status |-> st, zip |-> zip]
      /\ \A d \in Cells : d # c => ledger'.cells[d] = ledger.cells[d]
  BY <1>1, <1>2 DEF MarkCell, Ledgers
<1>4. left'[p] = left[p] \ {c} /\ left[p] \subseteq Cells /\ UNCHANGED <<lock, bundle, job>> /\ Goto(p, "reindex")
  BY DEF Apply, Safe, TypeOK
<1>5. OkBundleIsCurrent'
  BY <1>1, <1>2, <1>3, <1>4 DEF Safe, OkBundleIsCurrent
<1>6. \A d \in left'[p] : ledger'.cells[d].status = "running"
  BY <1>3, <1>4 DEF Safe, LeftIsRunning, Applying
<1>7. UnidentifiedIsMissing'
  BY <1>1, <1>3, SentinelAssumption DEF UnidentifiedIsMissing, Jobs
<1> QED
  BY <1>1, <1>3, <1>4, <1>5, <1>6, <1>7, WriteSafe DEF Owning, Applying, Inside

LEMMA BundleSafe ==
    ASSUME Safe, TypeOK', NEW p \in Procs, NEW c \in Cells, CellOk(p, c) \/ CellFailed(p, c)
    PROVE  Safe'
<1>1. job[p] \in Jobs /\ ledger.identity = job[p].identity /\ ledger.cells[c].status = "running"
  BY DEF CellOk, CellFailed, Safe, TypeOK, LedgerIsOwn, LeftIsRunning, Owning, Applying, Inside
<1>2. \A d \in Cells : d # c => bundle'[d] = bundle[d]
  BY DEF CellOk, CellFailed, Safe, TypeOK
<1>3. cell'[p] = {c} /\ left' = left /\ c \in left[p] /\ UNCHANGED <<lock, ledger, job>>
  BY DEF CellOk, CellFailed, Safe, TypeOK
<1>4. OkBundleIsCurrent' /\ UnidentifiedIsMissing'
  BY <1>1, <1>2, <1>3 DEF Safe, OkBundleIsCurrent, UnidentifiedIsMissing
<1>5. \A d \in left'[p] : ledger'.cells[d].status = "running"
  BY <1>3 DEF CellOk, CellFailed, Safe, LeftIsRunning, Applying
<1>6. PICK l \in {"bundle", "record_failed"} : Goto(p, l)
  BY DEF CellOk, CellFailed
<1>7. pc[p] \in Inside /\ l \in Owning
  BY <1>6 DEF CellOk, CellFailed, Inside, Owning
<1> QED
  BY <1>1, <1>3, <1>4, <1>5, <1>6, <1>7, WriteSafe DEF Applying

LEMMA FinishBundleSafe ==
    ASSUME Safe, TypeOK', NEW p \in Procs, FinishBundle(p)
    PROVE  Safe'
<1>1. ledger.identity = job[p].identity /\ cell[p] \subseteq left[p] /\ cell[p] \subseteq Cells
      /\ \A c \in left[p] : ledger.cells[c].status = "running"
  BY DEF FinishBundle, Safe, TypeOK, LedgerIsOwn, LeftIsRunning, ApplyingIsLeft, Owning, Applying, Inside
<1>2. UNCHANGED <<lock, ledger, job, left, cell>>
  BY DEF FinishBundle, local
<1>3. \A c \in Cells : bundle'[c] = IF c \in cell[p] THEN job[p].identity ELSE bundle[c]
  BY DEF FinishBundle
<1>4. OkBundleIsCurrent' /\ UnidentifiedIsMissing'
  BY <1>1, <1>2, <1>3 DEF Safe, OkBundleIsCurrent, UnidentifiedIsMissing
<1>5. \A c \in cell'[p] : bundle'[c] \in {job[p].identity, Absent}
  BY <1>1, <1>2, <1>3
<1> QED
  BY <1>1, <1>2, <1>4, <1>5, WriteSafe DEF FinishBundle, Owning, Applying, Inside

LEMMA SweepSafe ==
    ASSUME Safe, TypeOK', NEW p \in Procs, Sweep(p)
    PROVE  Safe'
<1> DEFINE swept == [c \in Cells |-> IF c \in LeftRunning(p) THEN [status |-> "failed", zip |-> FALSE]
                                     ELSE ledger.cells[c]]
<1>1. ledger \in Ledgers /\ job[p] \in Jobs /\ ledger.identity = job[p].identity
  BY DEF Sweep, Safe, TypeOK, LedgerIsOwn, Owning, Inside
<1>2. ledger' = [ledger EXCEPT !.cells = swept]
  BY <1>1 DEF Sweep, Ledgers
<1>3. ledger'.identity = ledger.identity /\ ledger'.cells = swept /\ bundle' = bundle
  BY <1>1, <1>2 DEF Sweep, Ledgers
<1>4. \A c \in Cells : swept[c].status = "ok" => swept[c] = ledger.cells[c]
  OBVIOUS
<1> HIDE DEF swept
<1>5. OkBundleIsCurrent'
  BY <1>3, <1>4 DEF Safe, OkBundleIsCurrent
<1>6. UnidentifiedIsMissing'
  BY <1>1, <1>3, SentinelAssumption DEF UnidentifiedIsMissing, Jobs
<1> QED
  BY <1>1, <1>3, <1>5, <1>6, WriteSafe DEF Sweep, Owning, Applying, Inside

LEMMA StepSafe ==
    ASSUME Safe, NEW p \in Procs, Step(p)
    PROVE  Safe'
<1>0. TypeOK'
  BY StepType DEF Safe
<1>1. CASE Contend(p)
  <2>1. UNCHANGED <<lock, ledger, bundle>> /\ Forget(p) /\ pc[p] = "lock"
    BY <1>1 DEF Contend, disk
  <2>2. lock # p
    BY <2>1 DEF Safe, OneWriter, Inside
  <2> QED
    BY <1>0, <1>1, <2>1, <2>2, LeaveSafe DEF Contend, Unlock
<1>2. CASE Acquire(p)
  BY <1>0, <1>2, AcquireSafe
<1>3. CASE Gate(p)
  <2>1. UNCHANGED <<lock, ledger, bundle, job, left, cell>> /\ SameIdentity(ledger, job[p])
        /\ Goto(p, "prepare") /\ pc[p] \in Inside /\ existing' = [existing EXCEPT ![p] = ledger]
    BY <1>3 DEF Gate, disk, Inside
  <2>2. existing'[p] = ledger /\ \A q \in Procs : q # p => existing'[q] = existing[q]
    BY <2>1 DEF Safe, TypeOK
  <2> QED
    BY <1>0, <2>1, <2>2, MoveSafe DEF Inside, Owning, Applying
<1>4. CASE GateRefuses(p) \/ PrepareFails(p) \/ Release(p)
  BY <1>0, <1>4, LeaveSafe DEF GateRefuses, PrepareFails, Release, Leave
<1>5. CASE Prepare(p)
  <2>1. UNCHANGED <<lock, ledger, bundle, job, existing, left, cell>> /\ Goto(p, "init") /\ pc[p] = "prepare"
    BY <1>5 DEF Prepare, local
  <2>2. existing[p] = ledger /\ SameIdentity(ledger, job[p])
    BY <2>1 DEF Safe, ReadIsFresh
  <2> QED
    BY <1>0, <2>1, <2>2, MoveSafe DEF Inside, Owning, Applying
<1>6. CASE InitLedger(p)
  BY <1>0, <1>6, InitLedgerSafe
<1>7. CASE Claim(p)
  BY <1>0, <1>7, ClaimSafe
<1>8. CASE \E c \in Cells : CellOk(p, c) \/ CellFailed(p, c)
  BY <1>0, <1>8, BundleSafe
<1>9. CASE FinishBundle(p)
  BY <1>0, <1>9, FinishBundleSafe
<1>10. CASE RecordOk(p) \/ RecordFailed(p)
  BY <1>0, <1>10, ApplySafe DEF RecordOk, RecordFailed
<1>11. CASE Reindex(p)
  <2>1. UNCHANGED <<lock, ledger, bundle, job, existing, left>> /\ Goto(p, "dispatch") /\ pc[p] = "reindex"
        /\ cell' = [cell EXCEPT ![p] = {}]
    BY <1>11 DEF Reindex
  <2>2. \A q \in Procs : q # p => cell'[q] = cell[q]
    BY <2>1 DEF Safe, TypeOK
  <2>3. ledger.identity = job[p].identity /\ \A c \in left[p] : ledger.cells[c].status = "running"
    BY <2>1 DEF Safe, LedgerIsOwn, LeftIsRunning, Owning, Applying, Inside
  <2> QED
    BY <1>0, <2>1, <2>2, <2>3, MoveSafe DEF Inside, Owning, Applying
<1>12. CASE DispatchDone(p) \/ SweepClean(p) \/ SweepIndex(p) \/ Finish(p)
  <2>1. PICK l \in {"sweep", "finish", "release"} : Goto(p, l)
    BY <1>12 DEF DispatchDone, SweepClean, SweepIndex, Finish
  <2>2. UNCHANGED <<lock, ledger, bundle, job, existing, left, cell>>
        /\ pc[p] \in {"dispatch", "sweep", "sweep_index", "finish"}
    BY <1>12 DEF DispatchDone, SweepClean, SweepIndex, Finish, disk, local
  <2>3. ledger.identity = job[p].identity /\ pc[p] \in Inside
    BY <2>2 DEF Safe, LedgerIsOwn, Owning, Inside
  <2> QED
    BY <1>0, <2>1, <2>2, <2>3, MoveSafe DEF Inside, Owning, Applying
<1>13. CASE Sweep(p)
  BY <1>0, <1>13, SweepSafe
<1> QED
  BY <1>1, <1>2, <1>3, <1>4, <1>5, <1>6, <1>7, <1>8, <1>9, <1>10, <1>11, <1>12, <1>13 DEF Step

LEMMA InterruptSafe ==
    ASSUME Safe, TypeOK', NEW p \in Procs, Interrupt(p)
    PROVE  Safe'
<1>1. UNCHANGED <<lock, ledger, bundle, job, existing, left>> /\ Goto(p, "sweep")
      /\ pc[p] \in Applying /\ cell' = [cell EXCEPT ![p] = {}]
  BY DEF Interrupt, disk, Applying
<1>2. \A q \in Procs : q # p => cell'[q] = cell[q]
  BY <1>1 DEF Safe, TypeOK
<1>3. ledger.identity = job[p].identity /\ pc[p] \in Inside
  BY <1>1 DEF Safe, LedgerIsOwn, Owning, Applying, Inside
<1> QED
  BY <1>1, <1>2, <1>3, MoveSafe DEF Inside, Owning, Applying

LEMMA StartSafe ==
    ASSUME Safe, TypeOK', NEW p \in Procs, NEW j \in Jobs, Start(p, j)
    PROVE  Safe'
<1>1. pc'[p] = "lock" /\ pc[p] = "idle" /\ \A q \in Procs : q # p => pc'[q] = pc[q] /\ job'[q] = job[q]
  BY DEF Start, Goto, Safe, TypeOK
<1>2. UNCHANGED <<lock, ledger, bundle, existing, left, cell>>
  BY DEF Start, disk
<1>3. OneWriter' /\ OkBundleIsCurrent' /\ UnidentifiedIsMissing'
  BY <1>1, <1>2 DEF Safe, OneWriter, OkBundleIsCurrent, UnidentifiedIsMissing, Inside
<1>4. ReadIsFresh' /\ LedgerIsOwn' /\ LeftIsRunning' /\ ApplyingIsLeft' /\ RecordedIsWhole'
  BY <1>1, <1>2 DEF Safe, ReadIsFresh, LedgerIsOwn, LeftIsRunning, ApplyingIsLeft, RecordedIsWhole,
     SameIdentity, Owning, Applying, Inside
<1> QED
  BY <1>3, <1>4 DEF Safe

LEMMA LoseBundleSafe ==
    ASSUME Safe, TypeOK', NEW c \in Cells, LoseBundle(c)
    PROVE  Safe'
<1>1. UNCHANGED <<lock, ledger, pc, job, existing, left, cell>> /\ bundle' = [bundle EXCEPT ![c] = Absent]
  BY DEF LoseBundle, local
<1>2. \A d \in Cells : bundle'[d] \in {bundle[d], Absent}
  BY <1>1 DEF Safe, TypeOK
<1>3. OneWriter' /\ OkBundleIsCurrent' /\ UnidentifiedIsMissing'
  BY <1>1, <1>2 DEF Safe, OneWriter, OkBundleIsCurrent, UnidentifiedIsMissing
<1>4. ReadIsFresh' /\ LedgerIsOwn' /\ LeftIsRunning' /\ ApplyingIsLeft'
  BY <1>1 DEF Safe, ReadIsFresh, LedgerIsOwn, LeftIsRunning, ApplyingIsLeft, SameIdentity
<1>5. RecordedIsWhole'
  BY <1>1, <1>2 DEF Safe, TypeOK, RecordedIsWhole
<1> QED
  BY <1>3, <1>4, <1>5 DEF Safe

LEMMA StutterSafe == Safe /\ UNCHANGED vars => Safe'
  BY DEF vars, disk, local, Safe, TypeOK, OneWriter, OkBundleIsCurrent, UnidentifiedIsMissing,
     ReadIsFresh, LedgerIsOwn, LeftIsRunning, ApplyingIsLeft, RecordedIsWhole, SameIdentity

\* The strengthened invariant is inductive; both theorems below are read off it.
LEMMA SafeInvariant == Spec => []Safe
<1>1. Init => Safe
  BY InitSafe
<1>2. Safe /\ [Next]_vars => Safe'
  <2> SUFFICES ASSUME Safe, [Next]_vars
               PROVE  Safe'
    OBVIOUS
  <2>0. TypeOK'
    BY NextType DEF Safe
  <2>1. CASE \E p \in Procs : Step(p)
    BY <2>1, StepSafe
  <2>2. CASE \E p \in Procs : Interrupt(p)
    BY <2>0, <2>2, InterruptSafe
  <2>3. CASE \E p \in Procs : Crash(p)
    BY <2>0, <2>3, LeaveSafe DEF Crash, Leave
  <2>4. CASE \E p \in Procs, j \in Jobs : Start(p, j)
    BY <2>0, <2>4, StartSafe
  <2>5. CASE \E c \in Cells : LoseBundle(c)
    BY <2>0, <2>5, LoseBundleSafe
  <2>6. CASE UNCHANGED vars
    BY <2>6, StutterSafe
  <2> QED
    BY <2>1, <2>2, <2>3, <2>4, <2>5, <2>6 DEF Next
<1> QED
  BY <1>1, <1>2, PTL DEF Spec

\* At any time at most one process is past .study.lock, and it is the one the
\* operating system calls its holder (_study_dir_lock).
THEOREM WritersExclude == Spec => []OneWriter
<1>1. Safe => OneWriter
  BY DEF Safe
<1> QED
  BY <1>1, SafeInvariant, PTL

\* A cell the ledger calls ok has a whole bundle of the ledger's identity or, when
\* somebody deleted it, none: never a torn zip, never that of another spec
\* (_apply_cell_result, _init_study_ledger, _finalize_running_cells).
THEOREM OkBundles == Spec => []OkBundleIsCurrent
<1>1. Safe => OkBundleIsCurrent
  BY DEF Safe
<1> QED
  BY <1>1, SafeInvariant, PTL

-----------------------------------------------------------------------------
(* What a step may do to the results.  One more fact is needed: the ledger  *)
(* knows no cell that is not of its own study.                              *)

CellsAreNamed ==
    \A c \in Cells : ledger.cells[c].status # "absent" => c \in RunNames[ledger.identity]

Whole == Safe /\ CellsAreNamed

LEMMA HolderFacts ==
    ASSUME Safe, NEW p \in Procs, pc[p] \in Inside
    PROVE  lock = p
  BY DEF Safe, OneWriter

\* The ledger a run opens with, against the one it found: a study takes the place of
\* another only under force, and without force no cell loses its ok.
LEMMA InitLedgerFacts ==
    ASSUME Whole, NEW p \in Procs, InitLedger(p)
    PROVE  /\ lock = p /\ UNCHANGED <<lock, bundle, job>>
           /\ ledger'.identity = job[p].identity
           /\ ledger.identity \in {NoIdentity, job[p].identity} \/ job[p].force
           /\ job[p].force => \A c \in Cells : ledger'.cells[c].status # "ok"
           /\ ~job[p].force => \A c \in Cells :
                 ledger.cells[c].status = "ok" <=> ledger'.cells[c].status = "ok"
           /\ CellsAreNamed'
<1> DEFINE j == job[p]
           kept == [c \in Cells |-> IF c \in RunNames[j.identity]
                                    THEN IF j.force \/ ledger.cells[c].status = "absent"
                                         THEN PendingCell ELSE ledger.cells[c]
                                    ELSE AbsentCell]
<1>1. existing[p] = ledger /\ SameIdentity(ledger, j) /\ pc[p] = "init"
  BY DEF InitLedger, Whole, Safe, ReadIsFresh
<1>2. j \in Jobs /\ ledger \in Ledgers /\ lock = p
  BY <1>1, HolderFacts DEF Whole, Safe, TypeOK, Inside
<1>3. ledger' = InitStudyLedger(ledger, j) /\ UNCHANGED <<lock, bundle, job>>
  BY <1>1 DEF InitLedger, local
<1>4. ledger.identity \in {NoIdentity, j.identity} \/ j.force
  BY <1>1 DEF SameIdentity
<1>5. CASE ledger = NoLedger \/ (j.force /\ ledger.identity # j.identity)
  <2>1. ledger' = [EmptyLedger(j.identity) EXCEPT !.confirm = @ \/ j.confirm]
    BY <1>3, <1>5 DEF InitStudyLedger
  <2>2. /\ ledger'.identity = j.identity
        /\ \A c \in Cells : /\ ledger'.cells[c].status # "ok"
                            /\ ledger'.cells[c].status # "absent" => c \in RunNames[j.identity]
    BY <2>1 DEF EmptyLedger, PendingCell, AbsentCell
  <2>3. ~j.force => \A c \in Cells : ledger.cells[c].status # "ok"
    BY <1>5 DEF NoLedger, AbsentCell
  <2> QED
    BY <1>2, <1>3, <1>4, <2>2, <2>3 DEF CellsAreNamed
<1>6. CASE ~(ledger = NoLedger \/ (j.force /\ ledger.identity # j.identity))
  <2>1. ledger.identity = j.identity
    BY <1>4, <1>6 DEF Whole, Safe, UnidentifiedIsMissing
  <2>2. ledger' = [[ledger EXCEPT !.identity = j.identity, !.cells = kept] EXCEPT !.confirm = @ \/ j.confirm]
    BY <1>3, <1>6 DEF InitStudyLedger
  <2>3. ledger'.identity = j.identity /\ ledger'.cells = kept
    BY <1>2, <2>2 DEF Ledgers
  <2>4. \A c \in Cells : ledger.cells[c].status = "ok" => c \in RunNames[j.identity]
    BY <2>1 DEF Whole, CellsAreNamed
  <2>5. j.force => \A c \in Cells : kept[c].status # "ok"
    BY DEF PendingCell, AbsentCell
  <2>6. ~j.force => \A c \in Cells : ledger.cells[c].status = "ok" <=> kept[c].status = "ok"
    BY <2>4 DEF PendingCell, AbsentCell
  <2>7. \A c \in Cells : kept[c].status # "absent" => c \in RunNames[j.identity]
    BY DEF AbsentCell
  <2> QED
    BY <1>2, <1>3, <1>4, <2>3, <2>5, <2>6, <2>7 DEF CellsAreNamed
<1> QED
  BY <1>5, <1>6

\* What Claim marks as running was not ok, or has lost its bundle, or is redone by force.
LEMMA ClaimFacts ==
    ASSUME Whole, NEW p \in Procs, Claim(p)
    PROVE  /\ lock = p /\ UNCHANGED <<lock, bundle, job>>
           /\ ledger'.identity = ledger.identity
           /\ job[p].force => \A c \in Cells : ledger'.cells[c].status # "ok"
           /\ ~job[p].force => \A c \in Cells :
                 \/ ledger'.cells[c].status = "ok" <=> ledger.cells[c].status = "ok"
                 \/ bundle[c] = Absent /\ ledger'.cells[c].status = "running"
           /\ CellsAreNamed'
<1> DEFINE run == CellsToRun(ledger, RunNames[job[p].identity], job[p].force)
           marked == [c \in Cells |-> IF c \in run THEN [ledger.cells[c] EXCEPT !.status = "running"]
                                      ELSE ledger.cells[c]]
<1>1. ledger \in Ledgers /\ job[p] \in Jobs /\ ledger.identity = job[p].identity /\ lock = p
  BY HolderFacts DEF Claim, Whole, Safe, TypeOK, LedgerIsOwn, Owning, Inside
<1>2. ledger' = [ledger EXCEPT !.cells = marked] /\ UNCHANGED <<lock, bundle, job>>
  BY <1>1 DEF Claim, Ledgers
<1>3. ledger'.identity = ledger.identity /\ ledger'.cells = marked
  BY <1>1, <1>2 DEF Ledgers
<1>4. run \subseteq RunNames[job[p].identity] /\ run \subseteq Cells
  BY <1>1, RunNamesAssumption DEF CellsToRun, Jobs
<1>5. \A c \in Cells : c \in run => marked[c].status = "running"
  BY <1>1 DEF Ledgers, LedgerCell
<1>6. \A c \in Cells : c \notin run => marked[c] = ledger.cells[c]
  OBVIOUS
<1>7. job[p].force => \A c \in Cells : c \notin run => ledger.cells[c].status # "ok"
  BY <1>1 DEF CellsToRun, Whole, CellsAreNamed
<1>8. ~job[p].force => \A c \in run : ledger.cells[c].status = "ok" => bundle[c] = Absent
  BY <1>4 DEF CellsToRun, Whole, Safe, OkBundleIsCurrent
<1> HIDE DEF run, marked
<1>9. CellsAreNamed'
  BY <1>1, <1>3, <1>4, <1>5, <1>6 DEF Whole, CellsAreNamed
<1> QED
  BY <1>1, <1>2, <1>3, <1>5, <1>6, <1>7, <1>8, <1>9

LEMMA ApplyFacts ==
    ASSUME Whole, NEW p \in Procs, NEW c \in Cells, NEW m,
           \/ pc[p] = "record" /\ Apply(p, c, "ok", TRUE, m)
           \/ pc[p] = "record_failed" /\ Apply(p, c, "failed", FALSE, m)
    PROVE  /\ lock = p /\ UNCHANGED <<lock, bundle, job>>
           /\ ledger'.identity = ledger.identity
           /\ ledger.cells[c].status = "running"
           /\ ledger'.cells[c].status = "ok" => bundle[c] \in {ledger.identity, Absent}
           /\ \A d \in Cells : d # c => ledger'.cells[d] = ledger.cells[d]
           /\ CellsAreNamed'
<1>1. ledger \in Ledgers /\ job[p] \in Jobs /\ ledger.identity = job[p].identity /\ lock = p
  BY HolderFacts DEF Whole, Safe, TypeOK, LedgerIsOwn, Owning, Inside
<1>2. PICK st \in {"ok", "failed"}, zip \in BOOLEAN :
        /\ ledger' = MarkCell(ledger, c, st, zip)
        /\ st = "ok" => bundle[c] \in {job[p].identity, Absent}
  BY DEF Apply, Whole, Safe, RecordedIsWhole
<1>3. ledger'.identity = ledger.identity /\ ledger'.cells[c] = [status |-> st, zip |-> zip]
      /\ \A d \in Cells : d # c => ledger'.cells[d] = ledger.cells[d]
  BY <1>1, <1>2 DEF MarkCell, Ledgers
<1>4. ledger.cells[c].status = "running" /\ UNCHANGED <<lock, bundle, job>>
  BY DEF Apply, Whole, Safe, ApplyingIsLeft, LeftIsRunning, Applying
<1>5. CellsAreNamed'
  BY <1>3, <1>4 DEF Whole, CellsAreNamed
<1> QED
  BY <1>1, <1>2, <1>3, <1>4, <1>5

LEMMA SweepFacts ==
    ASSUME Whole, NEW p \in Procs, Sweep(p)
    PROVE  /\ UNCHANGED <<lock, bundle, job>>
           /\ ledger'.identity = ledger.identity
           /\ \A c \in Cells : 
                 \/ ledger'.cells[c] = ledger.cells[c]
                 \/ ledger.cells[c].status = "running" /\ ledger'.cells[c].status = "failed"
           /\ CellsAreNamed'
<1> DEFINE swept == [c \in Cells |-> IF c \in LeftRunning(p) THEN [status |-> "failed", zip |-> FALSE]
                                     ELSE ledger.cells[c]]
<1>1. ledger \in Ledgers
  BY DEF Whole, Safe, TypeOK
<1>2. ledger' = [ledger EXCEPT !.cells = swept] /\ UNCHANGED <<lock, bundle, job>>
  BY <1>1 DEF Sweep, Ledgers
<1>3. ledger'.identity = ledger.identity /\ ledger'.cells = swept
  BY <1>1, <1>2 DEF Ledgers
<1>4. \A c \in Cells : \/ swept[c] = ledger.cells[c]
                       \/ ledger.cells[c].status = "running" /\ swept[c].status = "failed"
  BY DEF LeftRunning
<1>5. CellsAreNamed'
  BY <1>3, <1>4 DEF Whole, CellsAreNamed
<1> QED
  BY <1>2, <1>3, <1>4, <1>5

\* The only steps that write the ledger.
LEMMA LedgerWriters ==
    ASSUME TypeOK, Next
    PROVE  \/ UNCHANGED ledger
           \/ \E p \in Procs : InitLedger(p) \/ Claim(p) \/ Sweep(p)
           \/ \E p \in Procs, c \in Cells, m \in Identities \cup {NoIdentity} :
                 \/ pc[p] = "record" /\ Apply(p, c, "ok", TRUE, m)
                 \/ pc[p] = "record_failed" /\ Apply(p, c, "failed", FALSE, m)
<1>1. ASSUME NEW p \in Procs, Step(p)
      PROVE  \/ UNCHANGED ledger
             \/ InitLedger(p) \/ Claim(p) \/ Sweep(p) \/ RecordOk(p) \/ RecordFailed(p)
  BY <1>1 DEF Step, Contend, Acquire, Gate, GateRefuses, Prepare, PrepareFails, CellOk, CellFailed,
     FinishBundle, Reindex, DispatchDone, SweepIndex, SweepClean, Finish, Release, disk
<1>2. ASSUME NEW p \in Procs, Interrupt(p) \/ Crash(p)
      PROVE  UNCHANGED ledger
  BY <1>2 DEF Interrupt, Crash, disk
<1>3. ASSUME NEW p \in Procs, NEW j \in Jobs, Start(p, j)
      PROVE  UNCHANGED ledger
  BY <1>3 DEF Start, disk
<1>4. ASSUME NEW c \in Cells, LoseBundle(c)
      PROVE  UNCHANGED ledger
  BY <1>4 DEF LoseBundle
<1>5. ASSUME NEW p \in Procs, RecordOk(p) \/ RecordFailed(p)
      PROVE  \E c \in Cells, m \in Identities \cup {NoIdentity} :
                 \/ pc[p] = "record" /\ Apply(p, c, "ok", TRUE, m)
                 \/ pc[p] = "record_failed" /\ Apply(p, c, "failed", FALSE, m)
  BY <1>5 DEF RecordOk, RecordFailed, TypeOK, Jobs
<1> QED
  BY <1>1, <1>2, <1>3, <1>4, <1>5 DEF Next

LEMMA WholeInvariant == Spec => []Whole
<1>1. Init => CellsAreNamed
  BY DEF Init, CellsAreNamed, NoLedger, AbsentCell
<1>2. ASSUME Whole, [Next]_vars
      PROVE  CellsAreNamed'
  <2>1. CASE UNCHANGED ledger
    BY <1>2, <2>1 DEF Whole, CellsAreNamed
  <2>2. CASE Next
    BY <1>2, <2>1, <2>2, LedgerWriters, InitLedgerFacts, ClaimFacts, SweepFacts, ApplyFacts
       DEF Whole, Safe
  <2> QED
    BY <1>2, <2>1, <2>2 DEF vars, disk
<1> QED
  BY <1>1, <1>2, SafeInvariant, PTL DEF Spec, Whole

\* A directory passes from one study to another only in the hands of a forced run,
\* however many processes got past the first look at the identity
\* (_assert_study_identity, called again under the lock).
THEOREM OnlyForceSwaps == Spec => IdentityNeedsForce
<1>1. ASSUME Whole, [Next]_vars
      PROVE  ledger'.identity # ledger.identity =>
                \/ ledger.identity = NoIdentity
                \/ lock \in Procs /\ job[lock].force
  <2>1. CASE UNCHANGED ledger
    BY <2>1
  <2>2. CASE Next
    BY <1>1, <2>1, <2>2, LedgerWriters, InitLedgerFacts, ClaimFacts, SweepFacts, ApplyFacts
       DEF Whole, Safe
  <2> QED
    BY <1>1, <2>1, <2>2 DEF vars, disk
<1>2. Whole /\ [Next]_vars =>
        [ledger'.identity # ledger.identity =>
            \/ ledger.identity = NoIdentity
            \/ lock \in Procs /\ job[lock].force]_vars
  BY <1>1
<1> QED
  BY <1>2, WholeInvariant, PTL DEF Spec, IdentityNeedsForce

\* Without force no run gives up a cell that is ok and whose bundle is there
\* (cells_to_run, _init_study_ledger, _finalize_running_cells).
THEOREM ResumeSkipsOk == Spec => ResumeKeepsOk
<1>1. ASSUME Whole, [Next]_vars, NEW c \in Cells,
             ledger.cells[c].status = "ok", ledger'.cells[c].status # "ok"
      PROVE  bundle[c] = Absent \/ (lock \in Procs /\ job[lock].force)
  <2>1. CASE UNCHANGED ledger
    BY <1>1, <2>1
  <2>2. CASE Next
    <3>1. ASSUME NEW p \in Procs, InitLedger(p)
          PROVE  lock \in Procs /\ job[lock].force
      BY <1>1, <3>1, InitLedgerFacts
    <3>2. ASSUME NEW p \in Procs, Claim(p)
          PROVE  bundle[c] = Absent \/ (lock \in Procs /\ job[lock].force)
      BY <1>1, <3>2, ClaimFacts
    <3>3. ASSUME NEW p \in Procs, Sweep(p)
          PROVE  FALSE
      BY <1>1, <3>3, SweepFacts
    <3>4. ASSUME NEW p \in Procs, NEW d \in Cells, NEW m,
                 \/ pc[p] = "record" /\ Apply(p, d, "ok", TRUE, m)
                 \/ pc[p] = "record_failed" /\ Apply(p, d, "failed", FALSE, m)
          PROVE  FALSE
      BY <1>1, <3>4, ApplyFacts
    <3> QED
      BY <1>1, <2>1, <2>2, <3>1, <3>2, <3>3, <3>4, LedgerWriters DEF Whole, Safe
  <2> QED
    BY <1>1, <2>1, <2>2 DEF vars, disk
<1>2. Whole /\ [Next]_vars =>
        [\A c \in Cells :
            ledger.cells[c].status = "ok" /\ ledger'.cells[c].status # "ok" =>
                bundle[c] = Absent \/ (lock \in Procs /\ job[lock].force)]_vars
  BY <1>1
<1> QED
  BY <1>2, WholeInvariant, PTL DEF Spec, ResumeKeepsOk

-----------------------------------------------------------------------------
(* StudyRunner implements StudyResults.  In the mapping a result is the     *)
(* bundle of a cell the ledger calls ok; every step of a run maps to a step *)
(* of the promise or changes nothing of it.                                 *)

Forced == IF lock \in Procs THEN job[lock].force ELSE FALSE
Shown  == [c \in Cells |-> IF ledger.cells[c].status = "ok" THEN BundleMetrics(c) ELSE NoIdentity]

LEMMA ShownFacts ==
    ASSUME Safe, NEW c \in Cells
    PROVE  /\ Shown[c] \in {ledger.identity, NoIdentity}
           /\ ledger.cells[c].status # "ok" \/ bundle[c] = Absent => Shown[c] = NoIdentity
  BY SentinelAssumption DEF Shown, BundleMetrics, Safe, OkBundleIsCurrent

\* Enough for a step to be invisible: the same holder, and no cell that is shown differently.
LEMMA Unseen ==
    ASSUME UNCHANGED lock, lock \in Procs => job'[lock].force = job[lock].force,
           \A c \in Cells : Shown'[c] = Shown[c]
    PROVE  UNCHANGED Results!vars
<1>1. Shown' = Shown
  BY DEF Shown
<1> QED
  BY <1>1 DEF Results!vars, Shown

LEMMA QuietStep ==
    ASSUME UNCHANGED <<lock, ledger, bundle>>, lock \in Procs => job'[lock].force = job[lock].force
    PROVE  UNCHANGED Results!vars
<1>1. Shown' = Shown
  BY DEF Shown, BundleMetrics
<1> QED
  BY <1>1, Unseen

LEMMA LeaveShows ==
    ASSUME Safe, NEW p \in Procs, Forget(p), Unlock(p), UNCHANGED disk
    PROVE  Results!Yield \/ UNCHANGED Results!vars
<1>1. UNCHANGED <<ledger, bundle>> /\ \A q \in Procs : q # p => job'[q] = job[q]
  BY DEF Forget, disk, Safe, TypeOK
<1>2. CASE lock = p
  BY <1>1, <1>2, SentinelAssumption DEF Unlock, Results!Yield, BundleMetrics
<1>3. CASE lock # p
  BY <1>1, <1>3, QuietStep DEF Unlock
<1> QED
  BY <1>2, <1>3

LEMMA WithdrawShows ==
    ASSUME NEW p \in Procs, lock = p, UNCHANGED <<lock, job>>, job[p].force,
           \A c \in Cells : ledger'.cells[c].status # "ok"
    PROVE  Results!WithdrawAll
  BY SentinelAssumption DEF Results!WithdrawAll

LEMMA LedgerShows ==
    ASSUME Whole, NEW p \in Procs, InitLedger(p) \/ Claim(p) \/ Sweep(p)
    PROVE  [Results!Next]_(Results!vars)
<1>1. CASE (InitLedger(p) \/ Claim(p)) /\ job[p].force
  BY <1>1, InitLedgerFacts, ClaimFacts, WithdrawShows DEF Results!Next
<1>2. CASE InitLedger(p) /\ ~job[p].force
  <2>1. \A c \in Cells : Shown'[c] = Shown[c]
    BY <1>2, InitLedgerFacts DEF Shown, BundleMetrics
  <2> QED
    BY <1>2, <2>1, InitLedgerFacts, Unseen
<1>3. CASE Claim(p) /\ ~job[p].force
  <2>1. ASSUME NEW c \in Cells
        PROVE  Shown'[c] = Shown[c]
    <3>1. \/ ledger'.cells[c].status = "ok" <=> ledger.cells[c].status = "ok"
          \/ bundle[c] = Absent /\ ledger'.cells[c].status = "running"
      BY <1>3, ClaimFacts
    <3>2. bundle' = bundle
      BY <1>3, ClaimFacts
    <3> QED
      BY <3>1, <3>2, ShownFacts DEF Shown, BundleMetrics, Whole
  <2> QED
    BY <1>3, <2>1, ClaimFacts, Unseen
<1>4. CASE Sweep(p)
  <2>1. \A c \in Cells : Shown'[c] = Shown[c]
    BY <1>4, SweepFacts DEF Shown, BundleMetrics
  <2> QED
    BY <1>4, <2>1, SweepFacts, Unseen
<1> QED
  BY <1>1, <1>2, <1>3, <1>4

LEMMA ApplyShows ==
    ASSUME Whole, NEW p \in Procs, NEW c \in Cells, NEW m,
           \/ pc[p] = "record" /\ Apply(p, c, "ok", TRUE, m)
           \/ pc[p] = "record_failed" /\ Apply(p, c, "failed", FALSE, m)
    PROVE  [Results!Next]_(Results!vars)
<1>1. \A d \in Cells : d # c => Shown'[d] = Shown[d]
  BY ApplyFacts DEF Shown, BundleMetrics
<1>2. Shown[c] = NoIdentity
  BY ApplyFacts, ShownFacts DEF Whole
<1>3. CASE Shown'[c] = NoIdentity
  BY <1>1, <1>2, <1>3, ApplyFacts, Unseen
<1>4. CASE Shown'[c] # NoIdentity
  <2>1. PICK i \in Identities : i = ledger.identity /\ Shown'[c] = i
    BY <1>4, ApplyFacts, SentinelAssumption DEF Shown, BundleMetrics
  <2>2. Shown' = [Shown EXCEPT ![c] = i]
    BY <1>1, <2>1 DEF Shown
  <2>3. \A d \in Cells : Shown[d] # NoIdentity => Shown[d] = i
    BY <2>1, ShownFacts DEF Whole
  <2>4. Results!Publish(c, i)
    BY <1>2, <2>2, <2>3, ApplyFacts, SentinelAssumption DEF Results!Publish, Results!Published, Shown
  <2> QED
    BY <2>1, <2>4 DEF Results!Next
<1> QED
  BY <1>3, <1>4

\* A bundle that is being written or removed is that of a cell still running.
LEMMA BundleShows ==
    ASSUME Whole, NEW p \in Procs,
           FinishBundle(p) \/ \E c \in Cells : CellOk(p, c) \/ CellFailed(p, c)
    PROVE  UNCHANGED Results!vars
<1>1. UNCHANGED <<lock, ledger, job>>
  BY DEF FinishBundle, CellOk, CellFailed, local
<1>2. \A c \in Cells : bundle'[c] = bundle[c] \/ ledger.cells[c].status = "running"
  BY DEF FinishBundle, CellOk, CellFailed, Whole, Safe, TypeOK, ApplyingIsLeft, LeftIsRunning, Applying
<1>3. \A c \in Cells : Shown'[c] = Shown[c]
  BY <1>1, <1>2 DEF Shown, BundleMetrics
<1> QED
  BY <1>1, <1>3, Unseen

LEMMA LossShows ==
    ASSUME Whole, NEW c \in Cells, LoseBundle(c)
    PROVE  Results!Lose(c)
<1>1. UNCHANGED <<lock, ledger, job>> /\ bundle' = [bundle EXCEPT ![c] = Absent]
  BY DEF LoseBundle, local
<1>2. \A d \in Cells : bundle'[d] = IF d = c THEN Absent ELSE bundle[d]
  BY <1>1 DEF Whole, Safe, TypeOK
<1>3. Shown' = [Shown EXCEPT ![c] = NoIdentity]
  BY <1>1, <1>2, SentinelAssumption DEF Shown, BundleMetrics
<1> QED
  BY <1>1, <1>3 DEF Results!Lose, Shown

LEMMA StepShows ==
    ASSUME Whole, NEW p \in Procs, Step(p)
    PROVE  [Results!Next]_(Results!vars)
<1>1. CASE Acquire(p)
  <2>1. lock = NoProc /\ lock' = p /\ UNCHANGED <<ledger, bundle, job>> /\ job[p].force \in BOOLEAN
    BY <1>1 DEF Acquire, disk, local, Whole, Safe, TypeOK, Jobs
  <2>2. Results!Take(p)
    BY <2>1, SentinelAssumption DEF Results!Take, BundleMetrics
  <2> QED
    BY <2>2 DEF Results!Next
<1>2. CASE GateRefuses(p) \/ PrepareFails(p) \/ Release(p)
  <2>1. Forget(p) /\ Unlock(p) /\ UNCHANGED disk
    BY <1>2 DEF GateRefuses, PrepareFails, Release, Leave
  <2> QED
    BY <2>1, LeaveShows DEF Whole, Results!Next
<1>3. CASE Contend(p)
  <2>1. lock # p /\ UNCHANGED <<lock, ledger, bundle>> /\ \A q \in Procs : q # p => job'[q] = job[q]
    BY <1>3 DEF Contend, Forget, disk, Whole, Safe, TypeOK, OneWriter, Inside
  <2> QED
    BY <2>1, QuietStep
<1>4. CASE \/ Gate(p) \/ Prepare(p) \/ Reindex(p) \/ DispatchDone(p)
           \/ SweepIndex(p) \/ SweepClean(p) \/ Finish(p)
  <2>1. UNCHANGED <<lock, ledger, bundle, job>>
    BY <1>4 DEF Gate, Prepare, Reindex, DispatchDone, SweepIndex, SweepClean, Finish, disk, local
  <2> QED
    BY <2>1, QuietStep
<1>5. CASE InitLedger(p) \/ Claim(p) \/ Sweep(p)
  BY <1>5, LedgerShows
<1>6. CASE FinishBundle(p) \/ \E c \in Cells : CellOk(p, c) \/ CellFailed(p, c)
  BY <1>6, BundleShows
<1>7. CASE RecordOk(p) \/ RecordFailed(p)
  BY <1>7, ApplyShows DEF RecordOk, RecordFailed
<1> QED
  BY <1>1, <1>2, <1>3, <1>4, <1>5, <1>6, <1>7 DEF Step

\* run_study keeps the promise StudyResults makes of a directory: results of one study at
\* a time, taken back only by force or loss, changed only by the holder of the lock.
THEOREM ImplementsStudyResults == Spec => KeepsItsPromise
<1>1. Init => Results!Init
  BY SentinelAssumption DEF Init, Results!Init, NoLedger, AbsentCell
<1>2. ASSUME Whole, [Next]_vars
      PROVE  [Results!Next]_(Results!vars)
  <2>1. ASSUME NEW p \in Procs, Step(p)
        PROVE  [Results!Next]_(Results!vars)
    BY <1>2, <2>1, StepShows
  <2>2. ASSUME NEW p \in Procs, Interrupt(p)
        PROVE  [Results!Next]_(Results!vars)
    <3>1. UNCHANGED <<lock, ledger, bundle, job>>
      BY <2>2 DEF Interrupt, disk
    <3> QED
      BY <3>1, QuietStep
  <2>3. ASSUME NEW p \in Procs, Crash(p)
        PROVE  [Results!Next]_(Results!vars)
    BY <1>2, <2>3, LeaveShows DEF Whole, Crash, Leave, Results!Next
  <2>4. ASSUME NEW p \in Procs, NEW j \in Jobs, Start(p, j)
        PROVE  [Results!Next]_(Results!vars)
    <3>1. lock # p /\ UNCHANGED <<lock, ledger, bundle>> /\ \A q \in Procs : q # p => job'[q] = job[q]
      BY <1>2, <2>4 DEF Start, disk, Whole, Safe, TypeOK, OneWriter, Inside
    <3> QED
      BY <3>1, QuietStep
  <2>5. ASSUME NEW c \in Cells, LoseBundle(c)
        PROVE  [Results!Next]_(Results!vars)
    BY <1>2, <2>5, LossShows DEF Results!Next
  <2>6. CASE UNCHANGED vars
    <3>1. UNCHANGED <<lock, ledger, bundle, job>>
      BY <2>6 DEF vars, disk, local
    <3> QED
      BY <3>1, QuietStep
  <2> QED
    BY <1>2, <2>1, <2>2, <2>3, <2>4, <2>5, <2>6 DEF Next
<1> QED
  BY <1>1, <1>2, WholeInvariant, PTL DEF Spec, KeepsItsPromise, Results!Spec

-----------------------------------------------------------------------------
(* A run that gets to its end.  What it knows of its cells on the way       *)
(* there: the ledger lists those of its spec, the ones it did not set out   *)
(* to run are ok, none is running once it has swept, a failed one keeps no  *)
(* metrics from before.                                                     *)

Working == Owning \ {"claim", "release"}

ExpansionIsOwn(p) == pc[p] \in Working \cup {"init", "claim"} => expansion = job[p].identity

SpecIsListed(p) ==
    pc[p] \in Working \cup {"claim"} =>
        \A c \in RunNames[job[p].identity] : ledger.cells[c].status # "absent"

ClaimedOrOver(p) ==
    pc[p] \in Working =>
        \A c \in RunNames[job[p].identity] :
            \/ ledger.cells[c].status \in {"ok", "failed"}
            \/ ledger.cells[c].status = "running" /\ c \in todo[p]

NoneLeftRunning(p) ==
    pc[p] \in {"sweep_index", "finish"} =>
        \A c \in RunNames[job[p].identity] : ledger.cells[c].status # "running"

FailedHasNoMetrics(p) ==
    pc[p] \in Working =>
        \A c \in Cells : ledger.cells[c].status = "failed" => rows[p][c].metrics = NoIdentity

Settled(p) ==
    /\ ExpansionIsOwn(p) /\ SpecIsListed(p) /\ ClaimedOrOver(p)
    /\ NoneLeftRunning(p) /\ FailedHasNoMetrics(p)

Settling == Whole /\ \A p \in Procs : Settled(p)

LEMMA PlacesOfARun ==
    /\ Working = {"dispatch", "bundle", "record", "record_failed", "reindex", "sweep", "sweep_index", "finish"}
    /\ Working \cup {"init", "claim"} \subseteq Inside /\ Working \subseteq Owning
  BY DEF Working, Owning, Inside

LEMMA SettledOutside ==
    ASSUME NEW p, pc[p] \notin Working \cup {"init", "claim"}
    PROVE  Settled(p)
  BY PlacesOfARun DEF Settled, ExpansionIsOwn, SpecIsListed, ClaimedOrOver, NoneLeftRunning, FailedHasNoMetrics

\* What is said of one process concerns the holder of the lock alone.
LEMMA SettledAlone ==
    ASSUME Whole', NEW p \in Procs, pc'[p] \in Inside, Settled(p)'
    PROVE  Settling'
<1>1. ASSUME NEW q \in Procs, q # p
      PROVE  Settled(q)'
  <2>1. pc'[q] \notin Inside
    BY <1>1 DEF Whole, Safe, OneWriter
  <2> QED
    BY <2>1, PlacesOfARun DEF Settled, ExpansionIsOwn, SpecIsListed, ClaimedOrOver, NoneLeftRunning,
       FailedHasNoMetrics
<1> QED
  BY <1>1 DEF Settling

\* A step that changes nothing a process at work looks at, unless it ends one.
LEMMA SettledElsewhere ==
    ASSUME Settling, Whole', UNCHANGED <<ledger, expansion>>,
           \A q \in Procs : \/ pc'[q] \notin Inside
                            \/ /\ pc'[q] = pc[q] /\ job'[q] = job[q]
                               /\ todo'[q] = todo[q] /\ rows'[q] = rows[q]
    PROVE  Settling'
<1>1. ASSUME NEW q \in Procs
      PROVE  Settled(q)'
  <2>1. CASE pc'[q] \notin Inside
    BY <2>1, PlacesOfARun DEF Settled, ExpansionIsOwn, SpecIsListed, ClaimedOrOver, NoneLeftRunning,
       FailedHasNoMetrics
  <2>2. CASE /\ pc'[q] = pc[q] /\ job'[q] = job[q]
             /\ todo'[q] = todo[q] /\ rows'[q] = rows[q]
    BY <2>2 DEF Settling, Settled, ExpansionIsOwn, SpecIsListed, ClaimedOrOver, NoneLeftRunning,
       FailedHasNoMetrics
  <2> QED
    BY <2>1, <2>2
<1> QED
  BY <1>1 DEF Settling

\* A step of a run that leaves the ledger and its own index alone.
LEMMA SettledOnward ==
    ASSUME Settling, Whole', NEW p \in Procs, UNCHANGED <<ledger, expansion, job, todo, rows>>,
           pc[p] \in Working, pc'[p] \in (Working \ {"sweep_index", "finish"}) \cup {"release"}
    PROVE  Settling'
<1>1. Settled(p)'
  <2>1. Settled(p)
    BY DEF Settling
  <2>2. "release" \notin Working
    BY DEF Working
  <2> QED
    BY <2>1, <2>2, PlacesOfARun DEF Settled, ExpansionIsOwn, SpecIsListed, ClaimedOrOver, NoneLeftRunning,
       FailedHasNoMetrics
<1>2. pc'[p] \in Inside
  BY PlacesOfARun DEF Inside
<1> QED
  BY <1>1, <1>2, SettledAlone

LEMMA LeaveSettles ==
    ASSUME Settling, Whole', NEW p \in Procs, Forget(p), UNCHANGED disk
    PROVE  Settling'
<1>1. UNCHANGED <<ledger, expansion>> /\ pc'[p] = "idle"
  BY DEF Forget, Goto, disk, Settling, Whole, Safe, TypeOK
<1>2. \A q \in Procs : q # p => /\ pc'[q] = pc[q] /\ job'[q] = job[q]
                                /\ todo'[q] = todo[q] /\ rows'[q] = rows[q]
  BY DEF Forget, Goto, Settling, Whole, Safe, TypeOK
<1>3. "idle" \notin Inside
  BY DEF Inside
<1> QED
  BY <1>1, <1>2, <1>3, SettledElsewhere

\* The ledger a run opens with lists every cell of its spec.
LEMMA OpenedLedgerLists ==
    ASSUME NEW lg \in Ledgers, NEW j \in Jobs, NEW c \in RunNames[j.identity]
    PROVE  InitStudyLedger(lg, j).cells[c].status # "absent"
<1> DEFINE kept == [d \in Cells |-> IF d \in RunNames[j.identity]
                                    THEN IF j.force \/ lg.cells[d].status = "absent"
                                         THEN PendingCell ELSE lg.cells[d]
                                    ELSE AbsentCell]
<1>1. c \in Cells
  BY RunNamesAssumption DEF Jobs
<1>2. PendingCell.status # "absent"
  BY DEF PendingCell
<1>3. CASE lg = NoLedger \/ (j.force /\ lg.identity # j.identity)
  <2>1. InitStudyLedger(lg, j) = [EmptyLedger(j.identity) EXCEPT !.confirm = @ \/ j.confirm]
    BY <1>3 DEF InitStudyLedger
  <2>2. InitStudyLedger(lg, j).cells[c] = PendingCell
    BY <1>1, <2>1 DEF EmptyLedger
  <2> QED
    BY <1>2, <2>2
<1>4. CASE ~(lg = NoLedger \/ (j.force /\ lg.identity # j.identity))
  <2>1. InitStudyLedger(lg, j) = [[lg EXCEPT !.identity = j.identity, !.cells = kept] EXCEPT !.confirm = @ \/ j.confirm]
    BY <1>4 DEF InitStudyLedger
  <2>2. InitStudyLedger(lg, j).cells = kept
    BY <2>1 DEF Ledgers
  <2>3. kept[c] = IF j.force \/ lg.cells[c].status = "absent" THEN PendingCell ELSE lg.cells[c]
    BY <1>1
  <2> QED
    BY <1>2, <2>2, <2>3
<1> QED
  BY <1>3, <1>4

LEMMA InitLedgerSettles ==
    ASSUME Settling, Whole', NEW p \in Procs, InitLedger(p)
    PROVE  Settling'
<1>1. /\ pc[p] = "init" /\ pc'[p] = "claim" /\ UNCHANGED <<expansion, job>>
      /\ ledger' = InitStudyLedger(existing[p], job[p])
  BY DEF InitLedger, Goto, local, Settling, Whole, Safe, TypeOK
<1>2. existing[p] \in Ledgers /\ job[p] \in Jobs
  BY DEF Settling, Whole, Safe, TypeOK
<1>3. \A c \in RunNames[job[p].identity] : ledger'.cells[c].status # "absent"
  BY <1>1, <1>2, OpenedLedgerLists
<1>4. expansion' = job'[p].identity
  BY <1>1 DEF Settling, Settled, ExpansionIsOwn
<1>5. Settled(p)'
  BY <1>1, <1>3, <1>4, PlacesOfARun DEF Settled, ExpansionIsOwn, SpecIsListed, ClaimedOrOver, NoneLeftRunning,
     FailedHasNoMetrics
<1> QED
  BY <1>1, <1>5, SettledAlone DEF Inside

LEMMA ClaimSettles ==
    ASSUME Settling, Whole', NEW p \in Procs, Claim(p)
    PROVE  Settling'
<1> DEFINE names == RunNames[job[p].identity]
           run == CellsToRun(ledger, names, job[p].force)
<1>1. /\ pc[p] = "claim" /\ pc'[p] = "dispatch" /\ UNCHANGED <<expansion, job>> /\ todo'[p] = run
      /\ ledger \in Ledgers /\ job[p] \in Jobs
  BY DEF Claim, Goto, Settling, Whole, Safe, TypeOK
<1>2. names \subseteq Cells
  BY <1>1, RunNamesAssumption DEF Jobs
<1>3. ledger' = [ledger EXCEPT !.cells = [c \in Cells |->
                    IF c \in run THEN [ledger.cells[c] EXCEPT !.status = "running"] ELSE ledger.cells[c]]]
  BY <1>1 DEF Claim, Ledgers
<1>4. \A c \in Cells : IF c \in run THEN ledger'.cells[c].status = "running"
                       ELSE ledger'.cells[c] = ledger.cells[c]
  BY <1>1, <1>3 DEF Ledgers, LedgerCell
<1>5. \A c \in names : c \in run \/ ledger.cells[c].status = "ok"
  BY DEF CellsToRun
<1> HIDE DEF run
<1>6. \A c \in names : \/ ledger'.cells[c].status = "ok"
                       \/ ledger'.cells[c].status = "running" /\ c \in todo'[p]
  BY <1>1, <1>2, <1>4, <1>5
<1>7. \A c \in Cells : ledger'.cells[c].status # "failed"
  <2>1. ledger'.identity = job[p].identity
    BY <1>1 DEF Whole, Safe, LedgerIsOwn, Owning, Inside
  <2>2. \A c \in Cells : ledger'.cells[c].status # "absent" => c \in names
    BY <2>1 DEF Whole, CellsAreNamed
  <2> QED
    BY <1>6, <2>2
<1>8. expansion' = job'[p].identity
  BY <1>1 DEF Settling, Settled, ExpansionIsOwn
<1>9. Settled(p)'
  BY <1>1, <1>6, <1>7, <1>8 DEF Settled, ExpansionIsOwn, SpecIsListed, ClaimedOrOver, NoneLeftRunning,
     FailedHasNoMetrics
<1> QED
  BY <1>1, <1>9, SettledAlone DEF Inside

LEMMA ApplySettles ==
    ASSUME Settling, Whole', NEW p \in Procs, NEW c \in Cells, NEW m,
           \/ pc[p] = "record" /\ Apply(p, c, "ok", TRUE, m)
           \/ pc[p] = "record_failed" /\ Apply(p, c, "failed", FALSE, m) /\ m = NoIdentity
    PROVE  Settling'
<1>1. /\ pc[p] \in Working /\ pc'[p] = "reindex" /\ UNCHANGED <<expansion, job, todo>>
      /\ ledger \in Ledgers /\ job[p] \in Jobs
  BY PlacesOfARun DEF Apply, Goto, Settling, Whole, Safe, TypeOK
<1>2. PICK st \in {"ok", "failed"}, zip \in BOOLEAN :
        /\ ledger' = MarkCell(ledger, c, st, zip)
        /\ rows' = [rows EXCEPT ![p][c] = [status |-> st, metrics |-> m]]
        /\ st = "failed" => m = NoIdentity
  BY DEF Apply
<1>3. /\ ledger'.cells[c].status = st
      /\ \A d \in Cells : d # c => ledger'.cells[d] = ledger.cells[d]
  BY <1>1, <1>2 DEF MarkCell, Ledgers
<1>4. /\ rows'[p][c].metrics = m
      /\ \A d \in Cells : d # c => rows'[p][d] = rows[p][d]
  BY <1>2 DEF Settling, Whole, Safe, TypeOK
<1>5. RunNames[job[p].identity] \subseteq Cells
  BY <1>1, RunNamesAssumption DEF Jobs
<1>6. Settled(p)
  BY DEF Settling
<1>7. Settled(p)'
  BY <1>1, <1>2, <1>3, <1>4, <1>5, <1>6 DEF Settled, ExpansionIsOwn, SpecIsListed, ClaimedOrOver,
     NoneLeftRunning, FailedHasNoMetrics
<1> QED
  BY <1>1, <1>7, SettledAlone DEF Inside

LEMMA SweepSettles ==
    ASSUME Settling, Whole', NEW p \in Procs, Sweep(p)
    PROVE  Settling'
<1>1. /\ pc[p] = "sweep" /\ pc'[p] = "sweep_index" /\ UNCHANGED <<expansion, job, todo>>
      /\ ledger \in Ledgers /\ job[p] \in Jobs
  BY DEF Sweep, Goto, Settling, Whole, Safe, TypeOK
<1>2. RunNames[job[p].identity] \subseteq Cells
  BY <1>1, RunNamesAssumption DEF Jobs
<1>3. \A c \in Cells : IF c \in LeftRunning(p) THEN ledger'.cells[c].status = "failed"
                       ELSE ledger'.cells[c] = ledger.cells[c]
  BY <1>1 DEF Sweep, Ledgers
<1>4. \A c \in Cells : rows'[p][c] = IF c \in LeftRunning(p) THEN [AbsentRow EXCEPT !.status = "failed"]
                                     ELSE rows[p][c]
  BY DEF Sweep, Settling, Whole, Safe, TypeOK
<1>5. [AbsentRow EXCEPT !.status = "failed"].metrics = NoIdentity
  BY DEF AbsentRow
<1>6. \A c \in Cells : c \in LeftRunning(p) <=> c \in todo[p] /\ ledger.cells[c].status = "running"
  BY DEF LeftRunning
<1>7. Settled(p) /\ pc[p] \in Working
  BY <1>1, PlacesOfARun DEF Settling
<1>8. Settled(p)'
  BY <1>1, <1>2, <1>3, <1>4, <1>5, <1>6, <1>7 DEF Settled, ExpansionIsOwn, SpecIsListed, ClaimedOrOver,
     NoneLeftRunning, FailedHasNoMetrics
<1> QED
  BY <1>1, <1>8, SettledAlone DEF Inside

\* The end of the sweep: nothing of the spec is running any more.
LEMMA SweptSettles ==
    ASSUME Settling, Whole', NEW p \in Procs, SweepIndex(p) \/ SweepClean(p)
    PROVE  Settling'
<1>1. /\ pc[p] \in Working /\ pc'[p] \in {"finish", "release"}
      /\ UNCHANGED <<ledger, expansion, job, todo, rows>>
  BY PlacesOfARun DEF SweepIndex, SweepClean, Goto, disk, local, Settling, Whole, Safe, TypeOK
<1>2. Settled(p) /\ "release" \notin Working
  BY DEF Settling, Working
<1>3. \A c \in RunNames[job[p].identity] : ledger.cells[c].status # "running"
  <2>1. CASE SweepIndex(p)
    BY <1>2, <2>1 DEF SweepIndex, Settled, NoneLeftRunning
  <2>2. CASE SweepClean(p)
    BY <1>1, <1>2, <2>2 DEF SweepClean, LeftRunning, Settled, ClaimedOrOver
  <2> QED
    BY <2>1, <2>2
<1>4. Settled(p)'
  BY <1>1, <1>2, <1>3 DEF Settled, ExpansionIsOwn, SpecIsListed, ClaimedOrOver, NoneLeftRunning,
     FailedHasNoMetrics
<1> QED
  BY <1>1, <1>4, SettledAlone DEF Inside

LEMMA StepSettles ==
    ASSUME Settling, Whole', NEW p \in Procs, Step(p)
    PROVE  Settling'
<1>0. TypeOK
  BY DEF Settling, Whole, Safe
<1>1. CASE Contend(p) \/ GateRefuses(p) \/ PrepareFails(p) \/ Release(p)
  BY <1>1, LeaveSettles DEF Contend, GateRefuses, PrepareFails, Release, Leave
<1>2. CASE Acquire(p) \/ Gate(p)
  <2>1. pc'[p] \in {"gate", "prepare"}
    BY <1>0, <1>2 DEF Acquire, Gate, Goto, TypeOK
  <2>2. pc'[p] \in Inside /\ pc'[p] \notin Working \cup {"init", "claim"}
    BY <2>1, PlacesOfARun DEF Inside
  <2>3. Settled(p)'
    BY <2>2, PlacesOfARun DEF Settled, ExpansionIsOwn, SpecIsListed, ClaimedOrOver, NoneLeftRunning,
       FailedHasNoMetrics
  <2> QED
    BY <2>2, <2>3, SettledAlone
<1>3. CASE Prepare(p)
  <2>1. pc'[p] = "init" /\ expansion' = job'[p].identity
    BY <1>0, <1>3 DEF Prepare, Goto, local, TypeOK
  <2>2. Settled(p)'
    BY <2>1, PlacesOfARun DEF Settled, ExpansionIsOwn, SpecIsListed, ClaimedOrOver, NoneLeftRunning,
       FailedHasNoMetrics
  <2> QED
    BY <2>1, <2>2, SettledAlone DEF Inside
<1>4. CASE InitLedger(p)
  BY <1>4, InitLedgerSettles
<1>5. CASE Claim(p)
  BY <1>5, ClaimSettles
<1>6. CASE \/ \E c \in Cells : CellOk(p, c) \/ CellFailed(p, c)
           \/ FinishBundle(p) \/ Reindex(p) \/ DispatchDone(p)
  <2>1. /\ UNCHANGED <<ledger, expansion, job, todo, rows>>
        /\ pc[p] \in {"dispatch", "bundle", "reindex"}
        /\ pc'[p] \in {"bundle", "record_failed", "record", "dispatch", "sweep"}
    BY <1>0, <1>6 DEF CellOk, CellFailed, FinishBundle, Reindex, DispatchDone, Goto, disk, local, TypeOK
  <2> QED
    BY <2>1, PlacesOfARun, SettledOnward
<1>7. CASE RecordOk(p) \/ RecordFailed(p)
  BY <1>7, ApplySettles DEF RecordOk, RecordFailed
<1>8. CASE Sweep(p)
  BY <1>8, SweepSettles
<1>9. CASE SweepIndex(p) \/ SweepClean(p)
  BY <1>9, SweptSettles
<1>10. CASE Finish(p)
  <2>1. pc'[p] = "release"
    BY <1>0, <1>10 DEF Finish, Goto, TypeOK
  <2>2. Settled(p)'
    BY <2>1, PlacesOfARun DEF Settled, ExpansionIsOwn, SpecIsListed, ClaimedOrOver, NoneLeftRunning,
       FailedHasNoMetrics
  <2> QED
    BY <2>1, <2>2, SettledAlone DEF Inside
<1> QED
  BY <1>1, <1>2, <1>3, <1>4, <1>5, <1>6, <1>7, <1>8, <1>9, <1>10 DEF Step

LEMMA NextSettles == Settling /\ [Next]_vars /\ Whole' => Settling'
<1> SUFFICES ASSUME Settling, [Next]_vars, Whole' PROVE Settling'
  OBVIOUS
<1>0. TypeOK
  BY DEF Settling, Whole, Safe
<1>1. ASSUME NEW p \in Procs, Step(p)
      PROVE  Settling'
  BY <1>1, StepSettles
<1>2. ASSUME NEW p \in Procs, Interrupt(p)
      PROVE  Settling'
  <2>1. /\ UNCHANGED <<ledger, expansion, job, todo, rows>> /\ pc'[p] = "sweep"
        /\ pc[p] \in {"dispatch", "bundle", "record", "record_failed", "reindex"}
    BY <1>0, <1>2 DEF Interrupt, Goto, disk, TypeOK
  <2> QED
    BY <2>1, PlacesOfARun, SettledOnward
<1>3. ASSUME NEW p \in Procs, Crash(p)
      PROVE  Settling'
  BY <1>3, LeaveSettles DEF Crash, Leave
<1>4. ASSUME NEW p \in Procs, NEW j \in Jobs, Start(p, j)
      PROVE  Settling'
  <2>1. /\ UNCHANGED <<ledger, expansion, todo, rows>> /\ pc'[p] = "lock" /\ "lock" \notin Inside
        /\ \A q \in Procs : q # p => pc'[q] = pc[q] /\ job'[q] = job[q]
    BY <1>0, <1>4 DEF Start, Goto, disk, TypeOK, Inside
  <2> QED
    BY <2>1, SettledElsewhere
<1>5. ASSUME NEW c \in Cells, LoseBundle(c)
      PROVE  Settling'
  BY <1>5, SettledElsewhere DEF LoseBundle, local
<1>6. CASE UNCHANGED vars
  BY <1>6, SettledElsewhere DEF vars, disk, local
<1> QED
  BY <1>1, <1>2, <1>3, <1>4, <1>5, <1>6 DEF Next

LEMMA SettlingInvariant == Spec => []Settling
<1>1. Init => \A p \in Procs : Settled(p)
  <2> SUFFICES ASSUME Init, NEW p \in Procs PROVE Settled(p)
    OBVIOUS
  <2>1. pc[p] \notin Working \cup {"init", "claim"}
    BY PlacesOfARun DEF Init
  <2> QED
    BY <2>1, SettledOutside
<1>2. Whole /\ (\A p \in Procs : Settled(p)) <=> Settling
  BY DEF Settling
<1> QED
  BY <1>1, <1>2, NextSettles, WholeInvariant, PTL DEF Spec

\* What _finalize_study_index leaves: a row for each cell of the spec, of the ledger's
\* status, an ok one with the metrics it had or those of its bundle.
LEMMA FinishFacts ==
    ASSUME Settling, NEW p \in Procs, Finish(p)
    PROVE  LET names == RunNames[job[p].identity] IN
           /\ UNCHANGED <<ledger, bundle, expansion, job>> /\ pc[p] = "finish"
           /\ ledger.identity = job[p].identity /\ expansion = ledger.identity
           /\ \A c \in Cells \ names : ledger.cells[c].status = "absent" /\ index'[c] = AbsentRow
           /\ \A c \in names :
                 /\ ledger.cells[c].status \in {"ok", "failed"}
                 /\ index'[c] = SyncStudyIndexRow(c, ledger.cells[c], rows[p][c])
                 /\ ledger.cells[c].status = "failed" => rows[p][c].metrics = NoIdentity
<1> DEFINE names == RunNames[job[p].identity]
           synced == [c \in Cells |-> IF c \in names
                        THEN SyncStudyIndexRow(c, ledger.cells[c], rows[p][c]) ELSE rows[p][c]]
<1>1. /\ UNCHANGED <<ledger, bundle, expansion, job>> /\ pc[p] = "finish"
      /\ index' = WriteResultsIndex(synced, names)
      /\ job[p] \in Jobs /\ names \subseteq Cells
  BY RunNamesAssumption DEF Finish, Settling, Whole, Safe, TypeOK, Jobs
<1>2. ledger.identity = job[p].identity /\ Settled(p) /\ pc[p] \in Working
  BY <1>1, PlacesOfARun DEF Settling, Whole, Safe, LedgerIsOwn
<1>3. \A c \in names : ledger.cells[c].status \in {"ok", "failed"}
  BY <1>1, <1>2 DEF Settled, ClaimedOrOver, NoneLeftRunning
<1>4. \A c \in Cells \ names : ledger.cells[c].status = "absent"
  BY <1>2 DEF Settling, Whole, CellsAreNamed
<1>5. \A c \in Cells \ names : index'[c] = AbsentRow
  BY <1>1 DEF WriteResultsIndex
<1>6. ASSUME NEW c \in names
      PROVE  index'[c] = SyncStudyIndexRow(c, ledger.cells[c], rows[p][c])
  <2>1. synced[c] = SyncStudyIndexRow(c, ledger.cells[c], rows[p][c]) /\ c \in Cells
    BY <1>1
  <2>2. synced[c].status = ledger.cells[c].status
    BY <2>1 DEF SyncStudyIndexRow
  <2>3. synced[c].status # "absent"
    BY <1>3, <2>2
  <2> HIDE DEF synced, names
  <2>4. index'[c] = IF c \notin names THEN AbsentRow
                    ELSE IF synced[c].status = "absent" THEN [AbsentRow EXCEPT !.status = "pending"]
                    ELSE synced[c]
    BY <1>1, <2>1 DEF WriteResultsIndex
  <2> QED
    BY <1>6, <2>1, <2>3, <2>4
<1>7. expansion = ledger.identity
  BY <1>2 DEF Settled, ExpansionIsOwn
<1>8. \A c \in names : ledger.cells[c].status = "failed" => rows[p][c].metrics = NoIdentity
  BY <1>1, <1>2 DEF Settled, FailedHasNoMetrics
<1> QED
  BY <1>1, <1>2, <1>3, <1>4, <1>5, <1>6, <1>7, <1>8

LEMMA OnlyFinishFinishes ==
    ASSUME TypeOK, [Next]_vars, NEW p \in Procs, pc[p] = "finish", pc'[p] = "release"
    PROVE  Finish(p)
<1>1. ASSUME NEW q \in Procs, q # p, pc' = [pc EXCEPT ![q] = "idle"] \/ \E l : Goto(q, l)
      PROVE  FALSE
  BY <1>1 DEF TypeOK, Goto
<1>2. ASSUME NEW q \in Procs, Step(q)
      PROVE  \E l : Goto(q, l)
  BY <1>2 DEF Step, Contend, Acquire, Gate, GateRefuses, Prepare, PrepareFails, InitLedger, Claim, CellOk,
     CellFailed, FinishBundle, RecordOk, RecordFailed, Apply, Reindex, DispatchDone, Sweep, SweepIndex,
     SweepClean, Finish, Release, Forget, Leave
<1>3. ASSUME NEW q \in Procs, Interrupt(q) \/ Crash(q) \/ \E j \in Jobs : Start(q, j)
      PROVE  /\ \E l : Goto(q, l)
             /\ q # p
  <2>1. \E l : Goto(q, l)
    BY <1>3 DEF Interrupt, Crash, Start, Forget, Leave
  <2>2. CASE Interrupt(q) \/ \E j \in Jobs : Start(q, j)
    BY <2>2 DEF Interrupt, Start
  <2>3. CASE Crash(q)
    <3>1. pc'[q] = "idle"
      BY <2>3 DEF Crash, Leave, Forget, Goto, TypeOK
    <3> QED
      BY <2>1, <3>1
  <2> QED
    BY <1>3, <2>1, <2>2, <2>3
<1>4. ASSUME Step(p)
      PROVE  Finish(p)
  BY <1>4 DEF Step, Contend, Acquire, Gate, GateRefuses, Prepare, PrepareFails, InitLedger, Claim, CellOk,
     CellFailed, FinishBundle, RecordOk, RecordFailed, Reindex, DispatchDone, Sweep, SweepIndex,
     SweepClean, Release
<1>5. ASSUME NEW c \in Cells, LoseBundle(c)
      PROVE  FALSE
  BY <1>5 DEF LoseBundle
<1>6. ASSUME UNCHANGED vars
      PROVE  FALSE
  BY <1>6 DEF vars
<1> QED
  BY <1>1, <1>2, <1>3, <1>4, <1>5, <1>6 DEF Next

\* A run_study that gets to its end leaves ledger, index and expansion artifacts that speak
\* of the same cells: each ok, with metrics while its bundle is there, or failed, without
\* any; and this after any crashes, interrupts and resumes (_finalize_study_index).
THEOREM FinishedRunsAreSettled == Spec => FinishSettles
<1> DEFINE Ends(p) == pc[p] = "finish" /\ pc'[p] = "release" =>
        /\ expansion' = ledger'.identity
        /\ \A c \in Cells :
            LET st == ledger'.cells[c].status IN
            /\ st \in {"ok", "failed"} <=> c \in RunNames[job[p].identity]
            /\ index'[c].status = st
            /\ st = "ok" /\ bundle'[c] # Absent => index'[c].metrics # NoIdentity
            /\ st # "ok" => index'[c].metrics = NoIdentity
<1>1. ASSUME Settling, [Next]_vars, NEW p \in Procs
      PROVE  Ends(p)
  <2> SUFFICES ASSUME pc[p] = "finish", pc'[p] = "release"
               PROVE  /\ expansion' = ledger'.identity
                      /\ \A c \in Cells :
                          LET st == ledger'.cells[c].status IN
                          /\ st \in {"ok", "failed"} <=> c \in RunNames[job[p].identity]
                          /\ index'[c].status = st
                          /\ st = "ok" /\ bundle'[c] # Absent => index'[c].metrics # NoIdentity
                          /\ st # "ok" => index'[c].metrics = NoIdentity
    OBVIOUS
  <2>1. Finish(p)
    BY <1>1, OnlyFinishFinishes DEF Settling, Whole, Safe
  <2>2. UNCHANGED <<ledger, bundle, expansion>> /\ expansion = ledger.identity
    BY <1>1, <2>1, FinishFacts
  <2>3. ASSUME NEW c \in Cells, c \notin RunNames[job[p].identity]
        PROVE  ledger.cells[c].status = "absent" /\ index'[c] = AbsentRow
    BY <1>1, <2>1, <2>3, FinishFacts
  <2>4. ASSUME NEW c \in Cells, c \in RunNames[job[p].identity]
        PROVE  /\ ledger.cells[c].status \in {"ok", "failed"}
               /\ index'[c].status = ledger.cells[c].status
               /\ ledger.cells[c].status = "ok" /\ bundle[c] # Absent => index'[c].metrics # NoIdentity
               /\ ledger.cells[c].status = "failed" => index'[c].metrics = NoIdentity
    <3>1. /\ ledger.cells[c].status \in {"ok", "failed"}
          /\ index'[c] = SyncStudyIndexRow(c, ledger.cells[c], rows[p][c])
          /\ ledger.cells[c].status = "failed" => rows[p][c].metrics = NoIdentity
          /\ ledger.identity = job[p].identity
      BY <1>1, <2>1, <2>4, FinishFacts
    <3>2. ledger.identity \in Identities
      BY <1>1, <3>1 DEF Settling, Whole, Safe, TypeOK, Jobs
    <3>3. ledger.cells[c].status = "ok" => ledger.cells[c].zip /\ bundle[c] \in {ledger.identity, Absent}
      BY <1>1 DEF Settling, Whole, Safe, OkBundleIsCurrent
    <3>4. ledger.cells[c].status = "ok" /\ bundle[c] # Absent => BundleMetrics(c) # NoIdentity
      BY <3>2, <3>3, SentinelAssumption DEF BundleMetrics
    <3> QED
      BY <3>1, <3>3, <3>4 DEF SyncStudyIndexRow
  <2> QED
    BY <2>2, <2>3, <2>4 DEF AbsentRow
<1>2. Settling /\ [Next]_vars => \A p \in Procs : Ends(p)
  BY <1>1
<1>3. FinishSettles <=> [][\A p \in Procs : Ends(p)]_vars
  BY DEF FinishSettles
<1> HIDE DEF Ends
<1> QED
  BY <1>2, <1>3, SettlingInvariant, PTL DEF Spec

-----------------------------------------------------------------------------
(* The index while nothing has gone wrong.  Rows of another study can be in *)
(* it only while a forced run is on its way to replace them, and such a run *)
(* does not stop halfway without a fault.                                   *)

NoneAborted == faults = 0 => \A p \in Procs : ~aborted[p]

OwnMetrics(row, i) == row.metrics \in {NoIdentity, i}

RowsAreOwn ==
    faults = 0 => \A p \in Procs : pc[p] \in Working =>
        \A c \in Cells : OwnMetrics(rows[p][c], job[p].identity)

IndexIsOwn ==
    faults = 0 =>
        \/ \E p \in Procs : pc[p] \in Working \cup {"claim"} /\ job[p].force
        \/ \A c \in Cells : OwnMetrics(index[c], ledger.identity)

Faultless == Settling /\ NoneAborted /\ RowsAreOwn /\ IndexIsOwn

LEMMA NothingAborts == Settling /\ NoneAborted /\ [Next]_vars => NoneAborted'
<1> SUFFICES ASSUME Settling, NoneAborted, [Next]_vars, faults' = 0
             PROVE  \A p \in Procs : ~aborted'[p]
  BY DEF NoneAborted
<1>0. TypeOK
  BY DEF Settling, Whole, Safe
<1>1. ASSUME NEW q \in Procs, aborted' = [aborted EXCEPT ![q] = FALSE] \/ aborted' = aborted, faults = 0
      PROVE  \A p \in Procs : ~aborted'[p]
  BY <1>0, <1>1 DEF NoneAborted, TypeOK
<1>2. ASSUME NEW q \in Procs, Step(q)
      PROVE  faults' = faults /\ (aborted' = [aborted EXCEPT ![q] = FALSE] \/ aborted' = aborted)
  BY <1>2 DEF Step, Contend, Acquire, Gate, GateRefuses, Prepare, PrepareFails, InitLedger, Claim, CellOk,
     CellFailed, FinishBundle, RecordOk, RecordFailed, Apply, Reindex, DispatchDone, Sweep, SweepIndex,
     SweepClean, Finish, Release, Forget, Leave, local
<1>3. ASSUME \/ \E q \in Procs : Interrupt(q) \/ Crash(q)
             \/ \E c \in Cells : LoseBundle(c)
      PROVE  FALSE
  <2>1. faults' = faults + 1 /\ faults \in Nat
    BY <1>0, <1>3, FaultsAssumption DEF Interrupt, Crash, LoseBundle, TypeOK
  <2> QED
    BY <2>1
<1>4. ASSUME NEW q \in Procs, NEW j \in Jobs, Start(q, j)
      PROVE  faults' = faults /\ aborted' = aborted
  BY <1>4 DEF Start
<1>5. ASSUME UNCHANGED vars
      PROVE  faults' = faults /\ aborted' = aborted
  BY <1>5 DEF vars, local
<1>6. CASE faults = 0 /\ aborted' = aborted
  BY <1>6 DEF NoneAborted
<1> QED
  BY <1>1, <1>2, <1>3, <1>4, <1>5, <1>6 DEF Next

\* The rows of a spec that are kept or rewritten are its own, and so is the index made of them.
LEMMA IndexOfOwnRows ==
    ASSUME NEW rs, NEW names, NEW i, \A c \in Cells : OwnMetrics(rs[c], i)
    PROVE  \A c \in Cells : OwnMetrics(WriteResultsIndex(rs, names)[c], i)
<1> SUFFICES ASSUME NEW c \in Cells PROVE OwnMetrics(WriteResultsIndex(rs, names)[c], i)
  OBVIOUS
<1>1. WriteResultsIndex(rs, names)[c] \in {AbsentRow, [AbsentRow EXCEPT !.status = "pending"], rs[c]}
  BY DEF WriteResultsIndex
<1>2. AbsentRow.metrics = NoIdentity /\ [AbsentRow EXCEPT !.status = "pending"].metrics = NoIdentity
  BY DEF AbsentRow
<1> QED
  BY <1>1, <1>2 DEF OwnMetrics

\* A process that stops work without a fault had no work begun or has finished it.
LEMMA QuietLeaveIsHonest ==
    ASSUME Faultless, Settling', NEW p \in Procs, Forget(p), UNCHANGED disk, faults' = faults,
           pc[p] \notin Working \cup {"claim"}
    PROVE  RowsAreOwn' /\ IndexIsOwn'
<1>1. UNCHANGED <<ledger, index>> /\ pc'[p] = "idle" /\ "idle" \notin Working \cup {"claim"}
  BY PlacesOfARun DEF Forget, Goto, disk, Faultless, Settling, Whole, Safe, TypeOK
<1>2. \A q \in Procs : q # p => pc'[q] = pc[q] /\ job'[q] = job[q] /\ rows'[q] = rows[q]
  BY DEF Forget, Goto, Faultless, Settling, Whole, Safe, TypeOK
<1>3. RowsAreOwn'
  BY <1>1, <1>2 DEF Faultless, RowsAreOwn
<1>4. ASSUME NEW q \in Procs, pc[q] \in Working \cup {"claim"}, job[q].force
      PROVE  pc'[q] \in Working \cup {"claim"} /\ job'[q].force
  BY <1>2, <1>4
<1>5. IndexIsOwn'
  BY <1>1, <1>4 DEF Faultless, IndexIsOwn
<1> QED
  BY <1>3, <1>5

\* A step before or during the work of a run that moves no rows and no identity.
LEMMA QuietStepIsHonest ==
    ASSUME Faultless, Settling', NEW p \in Procs, faults' = faults, UNCHANGED <<index, job, rows>>,
           ledger'.identity = ledger.identity,
           \A q \in Procs : q # p => pc'[q] = pc[q],
           pc[p] \in Working \cup {"claim"} => pc'[p] \in Working \cup {"claim"},
           pc'[p] \in Working => pc[p] \in Working
    PROVE  RowsAreOwn' /\ IndexIsOwn'
<1>1. RowsAreOwn'
  BY DEF Faultless, RowsAreOwn
<1>2. \A q \in Procs : pc[q] \in Working \cup {"claim"} => pc'[q] \in Working \cup {"claim"}
  OBVIOUS
<1>3. IndexIsOwn'
  BY <1>2 DEF Faultless, IndexIsOwn
<1> QED
  BY <1>1, <1>3

\* A step of the work itself: only the rows and the index of the holder of the lock are at stake.
LEMMA WorkIsHonest ==
    ASSUME Faultless, Settling', NEW p \in Procs, pc'[p] \in Inside, faults' = faults,
           pc'[p] \in Working /\ faults = 0 => \A c \in Cells : OwnMetrics(rows'[p][c], job'[p].identity),
           faults = 0 => \/ pc'[p] \in Working \cup {"claim"} /\ job'[p].force
                         \/ \A c \in Cells : OwnMetrics(index'[c], ledger'.identity)
    PROVE  RowsAreOwn' /\ IndexIsOwn'
<1>1. \A q \in Procs : q # p => pc'[q] \notin Inside
  BY DEF Settling, Whole, Safe, OneWriter
<1>2. RowsAreOwn'
  BY <1>1, PlacesOfARun DEF RowsAreOwn
<1>3. IndexIsOwn'
  BY DEF IndexIsOwn
<1> QED
  BY <1>2, <1>3

\* What the holder knows of the index when its own run is not forced.
LEMMA IndexOfHolder ==
    ASSUME Faultless, NEW p \in Procs, pc[p] \in Inside, faults = 0
    PROVE  \/ pc[p] \in Working \cup {"claim"} /\ job[p].force
           \/ \A c \in Cells : OwnMetrics(index[c], ledger.identity)
<1>1. \A q \in Procs : q # p => pc[q] \notin Inside
  BY DEF Faultless, Settling, Whole, Safe, OneWriter
<1> QED
  BY <1>1, PlacesOfARun DEF Faultless, IndexIsOwn

LEMMA InitLedgerIsHonest ==
    ASSUME Faultless, Settling', NEW p \in Procs, InitLedger(p)
    PROVE  RowsAreOwn' /\ IndexIsOwn'
<1>1. /\ pc[p] = "init" /\ pc'[p] = "claim" /\ UNCHANGED <<index, job, faults>>
      /\ job[p] \in Jobs
  BY DEF InitLedger, Goto, local, Faultless, Settling, Whole, Safe, TypeOK
<1>2. pc'[p] \in Inside /\ pc[p] \in Inside /\ "claim" \notin Working /\ "init" \notin Working \cup {"claim"}
  BY <1>1, PlacesOfARun DEF Inside
<1>3. /\ ledger'.identity = job[p].identity
      /\ ledger.identity \in {NoIdentity, job[p].identity} \/ job[p].force
  BY InitLedgerFacts DEF Faultless, Settling
<1>4. ASSUME faults = 0, ~job[p].force
      PROVE  \A c \in Cells : OwnMetrics(index'[c], ledger'.identity)
  BY <1>1, <1>2, <1>3, <1>4, IndexOfHolder DEF OwnMetrics
<1> QED
  BY <1>1, <1>2, <1>4, WorkIsHonest

LEMMA ClaimIsHonest ==
    ASSUME Faultless, Settling', NEW p \in Procs, Claim(p)
    PROVE  RowsAreOwn' /\ IndexIsOwn'
<1>1. /\ pc[p] = "claim" /\ pc'[p] = "dispatch" /\ UNCHANGED <<index, job, faults>>
      /\ rows'[p] = ScopeStudyIndex(index, job[p])
  BY DEF Claim, Goto, Faultless, Settling, Whole, Safe, TypeOK
<1>2. pc'[p] \in Inside /\ pc[p] \in Inside /\ "dispatch" \in Working
  BY <1>1, PlacesOfARun DEF Inside
<1>3. ledger'.identity = ledger.identity /\ ledger.identity = job[p].identity
  BY <1>1, ClaimFacts DEF Faultless, Settling, Whole, Safe, LedgerIsOwn, Owning, Inside
<1>4. faults = 0 => job[p].force \/ \A c \in Cells : OwnMetrics(index[c], ledger.identity)
  BY <1>2, IndexOfHolder
<1>5. ASSUME faults = 0, NEW c \in Cells
      PROVE  OwnMetrics(rows'[p][c], job[p].identity)
  <2>1. rows'[p][c] = IF c \in RunNames[job[p].identity] /\ ~job[p].force THEN index[c] ELSE AbsentRow
    BY <1>1 DEF ScopeStudyIndex
  <2> QED
    BY <1>3, <1>4, <1>5, <2>1 DEF OwnMetrics, AbsentRow
<1> QED
  BY <1>1, <1>2, <1>3, <1>4, <1>5, WorkIsHonest

LEMMA ApplyIsHonest ==
    ASSUME Faultless, Settling', NEW p \in Procs, NEW c \in Cells, NEW m \in {job[p].identity, NoIdentity},
           \/ pc[p] = "record" /\ Apply(p, c, "ok", TRUE, m)
           \/ pc[p] = "record_failed" /\ Apply(p, c, "failed", FALSE, m)
    PROVE  RowsAreOwn' /\ IndexIsOwn'
<1>0. PICK st \in {"ok", "failed"} :
          /\ rows' = [rows EXCEPT ![p][c] = [status |-> st, metrics |-> m]]
          /\ UNCHANGED <<index, job, faults>> /\ Goto(p, "reindex")
          /\ pc[p] \in {"record", "record_failed"}
  BY DEF Apply
<1>1. /\ pc[p] \in Working /\ pc'[p] = "reindex" /\ UNCHANGED <<index, job, faults>>
      /\ rows'[p][c].metrics = m /\ \A d \in Cells : d # c => rows'[p][d] = rows[p][d]
  BY <1>0, PlacesOfARun DEF Goto, Faultless, Settling, Whole, Safe, TypeOK
<1>2. pc'[p] \in Inside /\ pc[p] \in Inside /\ "reindex" \in Working
  BY <1>1, PlacesOfARun DEF Inside
<1>3. ledger'.identity = ledger.identity
  BY ApplyFacts DEF Faultless, Settling
<1>4. ASSUME faults = 0, NEW d \in Cells
      PROVE  OwnMetrics(rows'[p][d], job[p].identity)
  BY <1>1, <1>4 DEF OwnMetrics, Faultless, RowsAreOwn
<1>5. faults = 0 => job[p].force \/ \A d \in Cells : OwnMetrics(index[d], ledger.identity)
  BY <1>2, IndexOfHolder
<1> QED
  BY <1>1, <1>2, <1>3, <1>4, <1>5, WorkIsHonest

LEMMA SweepIsHonest ==
    ASSUME Faultless, Settling', NEW p \in Procs, Sweep(p)
    PROVE  RowsAreOwn' /\ IndexIsOwn'
<1>1. /\ pc[p] = "sweep" /\ pc'[p] = "sweep_index" /\ UNCHANGED <<index, job, faults>>
      /\ \A c \in Cells : rows'[p][c] = IF c \in LeftRunning(p) THEN [AbsentRow EXCEPT !.status = "failed"]
                                        ELSE rows[p][c]
  BY DEF Sweep, Goto, Faultless, Settling, Whole, Safe, TypeOK
<1>2. pc'[p] \in Inside /\ pc[p] \in Inside /\ pc[p] \in Working /\ pc'[p] \in Working
  BY <1>1, PlacesOfARun DEF Inside
<1>3. ledger'.identity = ledger.identity
  BY SweepFacts DEF Faultless, Settling
<1>4. [AbsentRow EXCEPT !.status = "failed"].metrics = NoIdentity
  BY DEF AbsentRow
<1>5. ASSUME faults = 0, NEW c \in Cells
      PROVE  OwnMetrics(rows'[p][c], job[p].identity)
  BY <1>1, <1>2, <1>4, <1>5 DEF OwnMetrics, Faultless, RowsAreOwn
<1>6. faults = 0 => job[p].force \/ \A c \in Cells : OwnMetrics(index[c], ledger.identity)
  BY <1>2, IndexOfHolder
<1> QED
  BY <1>1, <1>2, <1>3, <1>5, <1>6, WorkIsHonest

\* The steps that replace the index.
LEMMA ReindexIsHonest ==
    ASSUME Faultless, Settling', NEW p \in Procs, Reindex(p) \/ SweepIndex(p) \/ Finish(p)
    PROVE  RowsAreOwn' /\ IndexIsOwn'
<1>1. /\ pc[p] \in Working /\ pc[p] \in Inside /\ pc'[p] \in Inside /\ UNCHANGED <<ledger, job, faults>>
      /\ index' = WriteResultsIndex(rows'[p], RunNames[job[p].identity])
      /\ pc'[p] \in Working => rows'[p] = rows[p]
  <2>0. TypeOK
    BY DEF Faultless, Settling, Whole, Safe
  <2>1. CASE Reindex(p)
    BY <2>0, <2>1, PlacesOfARun DEF Reindex, Goto, Inside, TypeOK
  <2>2. CASE SweepIndex(p)
    BY <2>0, <2>2, PlacesOfARun DEF SweepIndex, Goto, local, Inside, TypeOK
  <2>3. CASE Finish(p)
    <3>1. "release" \notin Working
      BY DEF Working
    <3> QED
      BY <2>0, <2>3, <3>1, PlacesOfARun DEF Finish, Goto, Inside, TypeOK
  <2> QED
    BY <2>1, <2>2, <2>3
<1>2. ledger.identity = job[p].identity
  BY <1>1, PlacesOfARun DEF Faultless, Settling, Whole, Safe, LedgerIsOwn
<1>3. ASSUME faults = 0, NEW c \in Cells
      PROVE  OwnMetrics(rows'[p][c], job[p].identity)
  <2>1. OwnMetrics(rows[p][c], job[p].identity)
    BY <1>1, <1>3 DEF Faultless, RowsAreOwn
  <2>2. CASE Reindex(p) \/ SweepIndex(p)
    BY <2>1, <2>2 DEF Reindex, SweepIndex, local
  <2>3. CASE Finish(p)
    <3>1. \/ rows'[p][c] = rows[p][c]
          \/ rows'[p][c] = SyncStudyIndexRow(c, ledger.cells[c], rows[p][c])
      BY <2>3 DEF Finish, Faultless, Settling, Whole, Safe, TypeOK
    <3>2. ledger.cells[c].status = "ok" => BundleMetrics(c) \in {NoIdentity, ledger.identity}
      BY SentinelAssumption DEF BundleMetrics, Faultless, Settling, Whole, Safe, OkBundleIsCurrent
    <3>3. SyncStudyIndexRow(c, ledger.cells[c], rows[p][c]).metrics \in
              {rows[p][c].metrics, NoIdentity, ledger.identity}
      BY <3>2 DEF SyncStudyIndexRow
    <3> QED
      BY <1>2, <2>1, <3>1, <3>3 DEF OwnMetrics
  <2> QED
    BY <2>2, <2>3
<1>4. ASSUME faults = 0
      PROVE  \A c \in Cells : OwnMetrics(index'[c], ledger'.identity)
  <2>1. \A c \in Cells : OwnMetrics(rows'[p][c], job[p].identity)
    BY <1>3, <1>4
  <2>2. \A c \in Cells : OwnMetrics(WriteResultsIndex(rows'[p], RunNames[job[p].identity])[c], job[p].identity)
    BY <2>1, IndexOfOwnRows
  <2> QED
    BY <1>1, <1>2, <2>2
<1> QED
  BY <1>1, <1>3, <1>4, WorkIsHonest

LEMMA NextIsHonest == Faultless /\ [Next]_vars /\ Settling' => RowsAreOwn' /\ IndexIsOwn'
<1> SUFFICES ASSUME Faultless, [Next]_vars, Settling', faults' = 0
             PROVE  RowsAreOwn' /\ IndexIsOwn'
  BY DEF RowsAreOwn, IndexIsOwn
<1>0. TypeOK
  BY DEF Faultless, Settling, Whole, Safe
<1>1. ASSUME \/ \E q \in Procs : Interrupt(q) \/ Crash(q)
             \/ \E c \in Cells : LoseBundle(c)
      PROVE  FALSE
  <2>1. faults' = faults + 1 /\ faults \in Nat
    BY <1>0, <1>1, FaultsAssumption DEF Interrupt, Crash, LoseBundle, TypeOK
  <2> QED
    BY <2>1
<1>2. ASSUME NEW p \in Procs, NEW j \in Jobs, Start(p, j)
      PROVE  RowsAreOwn' /\ IndexIsOwn'
  <2>1. /\ UNCHANGED <<ledger, index, rows, faults>> /\ pc[p] = "idle" /\ pc'[p] = "lock"
        /\ \A q \in Procs : q # p => pc'[q] = pc[q] /\ job'[q] = job[q]
    BY <1>0, <1>2 DEF Start, Goto, disk, TypeOK
  <2>2. pc'[p] \notin Working \cup {"claim"} /\ pc[p] \notin Working \cup {"claim"}
    BY <2>1, PlacesOfARun
  <2>3. RowsAreOwn'
    BY <2>1, <2>2 DEF Faultless, RowsAreOwn
  <2>4. IndexIsOwn'
    BY <2>1, <2>2 DEF Faultless, IndexIsOwn
  <2> QED
    BY <2>3, <2>4
<1>3. CASE UNCHANGED vars
  BY <1>3 DEF vars, disk, local, Faultless, RowsAreOwn, IndexIsOwn
<1>4. ASSUME NEW p \in Procs, Step(p)
      PROVE  RowsAreOwn' /\ IndexIsOwn'
  <2>1. CASE Contend(p) \/ GateRefuses(p) \/ PrepareFails(p) \/ Release(p)
    <3>1. pc[p] \notin Working \cup {"claim"}
      BY <2>1, PlacesOfARun DEF Contend, GateRefuses, PrepareFails, Release
    <3> QED
      BY <2>1, <3>1, QuietLeaveIsHonest DEF Contend, GateRefuses, PrepareFails, Release, Leave
  <2>2. CASE \/ Acquire(p) \/ Gate(p) \/ Prepare(p) \/ DispatchDone(p) \/ FinishBundle(p)
             \/ \E c \in Cells : CellOk(p, c) \/ CellFailed(p, c)
    <3>1. /\ UNCHANGED <<ledger, index, job, rows, faults>>
          /\ \A q \in Procs : q # p => pc'[q] = pc[q]
          /\ \/ pc[p] \in {"lock", "gate", "prepare"} /\ pc'[p] \in {"gate", "prepare", "init"}
             \/ pc[p] \in {"dispatch", "bundle"} /\ pc'[p] \in {"sweep", "record", "bundle", "record_failed"}
      BY <1>0, <2>2 DEF Acquire, Gate, Prepare, DispatchDone, FinishBundle, CellOk, CellFailed, Goto, disk,
         local, TypeOK
    <3> QED
      BY <3>1, PlacesOfARun, QuietStepIsHonest
  <2>3. CASE SweepClean(p)
    <3>1. /\ UNCHANGED <<ledger, index, job, rows, faults>> /\ pc[p] = "sweep"
          /\ pc'[p] = IF aborted[p] THEN "release" ELSE "finish"
          /\ \A q \in Procs : q # p => pc'[q] = pc[q]
      BY <1>0, <2>3 DEF SweepClean, Goto, disk, local, TypeOK
    <3>2. ~aborted[p]
      BY <3>1 DEF Faultless, NoneAborted
    <3> QED
      BY <3>1, <3>2, PlacesOfARun, QuietStepIsHonest
  <2>4. CASE InitLedger(p)
    BY <2>4, InitLedgerIsHonest
  <2>5. CASE Claim(p)
    BY <2>5, ClaimIsHonest
  <2>6. CASE RecordOk(p) \/ RecordFailed(p)
    BY <2>6, ApplyIsHonest DEF RecordOk, RecordFailed
  <2>7. CASE Sweep(p)
    BY <2>7, SweepIsHonest
  <2>8. CASE Reindex(p) \/ SweepIndex(p) \/ Finish(p)
    BY <2>8, ReindexIsHonest
  <2> QED
    BY <1>4, <2>1, <2>2, <2>3, <2>4, <2>5, <2>6, <2>7, <2>8 DEF Step
<1> QED
  BY <1>1, <1>2, <1>3, <1>4 DEF Next

\* In a directory in which nothing was interrupted, crashed or deleted, the index a run ends
\* with shows for every cell the metrics of the very bundle it points at, whatever specs ran
\* there before and by whatever force (_scope_study_index, _sync_study_index_row).
THEOREM UndisturbedIndexIsHonest == Spec => FaultlessIndexIsHonest
<1> DEFINE Ends(p) == faults = 0 /\ pc[p] = "finish" /\ pc'[p] = "release" => IndexIsHonest'
<1>1. Spec => []Faultless
  <2>1. Init => NoneAborted /\ RowsAreOwn /\ IndexIsOwn
    <3> SUFFICES ASSUME Init PROVE NoneAborted /\ RowsAreOwn /\ IndexIsOwn
      OBVIOUS
    <3>1. NoneAborted
      BY DEF Init, NoneAborted
    <3>2. RowsAreOwn
      BY PlacesOfARun DEF Init, RowsAreOwn
    <3>3. IndexIsOwn
      BY DEF Init, IndexIsOwn, OwnMetrics, NoRows, AbsentRow
    <3> QED
      BY <3>1, <3>2, <3>3
  <2>2. Faultless <=> Settling /\ NoneAborted /\ RowsAreOwn /\ IndexIsOwn
    BY DEF Faultless
  <2> QED
    BY <2>1, <2>2, NothingAborts, NextIsHonest, SettlingInvariant, PTL DEF Spec
<1>2. ASSUME Faultless, [Next]_vars, NEW p \in Procs
      PROVE  Ends(p)
  <2> SUFFICES ASSUME faults = 0, pc[p] = "finish", pc'[p] = "release",
                      NEW c \in Cells, index'[c].status = "ok", bundle'[c] # Absent
               PROVE  index'[c].metrics = bundle'[c]
    BY DEF IndexIsHonest
  <2>1. Finish(p)
    BY <1>2, OnlyFinishFinishes DEF Faultless, Settling, Whole, Safe
  <2>2. /\ UNCHANGED <<ledger, bundle>> /\ ledger.identity = job[p].identity
        /\ c \notin RunNames[job[p].identity] => index'[c] = AbsentRow
        /\ c \in RunNames[job[p].identity] => index'[c] = SyncStudyIndexRow(c, ledger.cells[c], rows[p][c])
    BY <1>2, <2>1, FinishFacts DEF Faultless
  <2>3. index'[c] = SyncStudyIndexRow(c, ledger.cells[c], rows[p][c]) /\ ledger.cells[c].status = "ok"
    BY <2>2 DEF AbsentRow, SyncStudyIndexRow
  <2>4. ledger.cells[c].zip /\ bundle[c] = ledger.identity /\ ledger.identity \in Identities
    BY <1>2, <2>2, <2>3 DEF Faultless, Settling, Whole, Safe, OkBundleIsCurrent, TypeOK, Jobs
  <2>5. rows[p][c].metrics \in {NoIdentity, ledger.identity}
    BY <1>2, <2>2, PlacesOfARun DEF Faultless, RowsAreOwn, OwnMetrics
  <2> QED
    BY <2>2, <2>3, <2>4, <2>5, SentinelAssumption DEF SyncStudyIndexRow, BundleMetrics
<1>3. Faultless /\ [Next]_vars => \A p \in Procs : Ends(p)
  BY <1>2
<1>4. FaultlessIndexIsHonest <=> [][\A p \in Procs : Ends(p)]_vars
  BY DEF FaultlessIndexIsHonest
<1> HIDE DEF Ends
<1> QED
  BY <1>1, <1>3, <1>4, PTL DEF Spec

-----------------------------------------------------------------------------
(* LaunchClaim: a launch from the Studies page *)

ChildStep == \E c \in Children : (Enter(c) \/ Exit(c) \/ Reap(c)) /\ UNCHANGED <<visitors, history>>
TabStep(t) == Launching(t) /\ UNCHANGED visitors

LEMMA LaunchSteps ==
    [LaunchNext]_launchVars =>
        (\E t \in visitors : TabStep(t)) \/ ChildStep \/ UNCHANGED launchVars
  BY DEF LaunchNext, TabStep, ChildStep

-----------------------------------------------------------------------------
(* Types *)

\* A tab knows the child whose pid it is about to write.
Recording == {"record", "write", "rewrite"}
ChildKnown == \A t \in Tabs : tab[t] \in Recording => launched[t] \in Children

TabsTyped == LaunchTypeOK /\ ChildKnown

LEMMA TabsTypeInit == LaunchInit => TabsTyped
<1> SUFFICES ASSUME LaunchInit PROVE TabsTyped
  OBVIOUS
<1>1. stuck \in BOOLEAN /\ unrestored \in BOOLEAN /\ lost \in SUBSET Children
  BY Zenon DEF LaunchInit
<1>2. failures \in 0..MaxFailures
  BY FailuresAssumption DEF LaunchInit
<1>3. child \in [Children -> Lives]
  BY DEF LaunchInit, Lives
<1>4. tab \in [Tabs -> Labels] /\ ChildKnown
  BY DEF LaunchInit, Labels, ChildKnown, Recording
<1> QED
  BY <1>1, <1>2, <1>3, <1>4 DEF LaunchInit, TabsTyped, LaunchTypeOK

LEMMA FailsType == TabsTyped /\ Fails => failures' \in 0..MaxFailures
  BY FailuresAssumption DEF TabsTyped, LaunchTypeOK, Fails

LEMMA LeaveClaimType ==
    TabsTyped /\ LeaveClaim => stuck' \in BOOLEAN /\ pidFile' \in Children \cup {Server, Missing, Empty}
<1> SUFFICES ASSUME TabsTyped, LeaveClaim
             PROVE  stuck' \in BOOLEAN /\ pidFile' \in Children \cup {Server, Missing, Empty}
  OBVIOUS
<1>1. stuck' \in BOOLEAN
  BY Zenon DEF LeaveClaim
<1> QED
  BY <1>1 DEF LeaveClaim, TabsTyped, LaunchTypeOK

\* A tab that is done with its child is at rest, and the child lives as it did.
LEMMA LaunchedType ==
    ASSUME TabsTyped, NEW t \in Tabs, tab[t] \in Recording, Launched(t)
    PROVE  /\ launched[t] \in Children /\ child' \in [Children -> Lives] /\ ChildKnown'
           /\ launched' \in [Tabs -> Children \cup {NoOne}] /\ tab' \in [Tabs -> Labels]
           /\ savedLog' \in [Tabs -> Children \cup {NoOne}]
           /\ Live' = Live /\ \A c \in Children : child[c] = "unborn" => child'[c] = "unborn"
<1> USE DEF TabsTyped, LaunchTypeOK
<1>1. launched[t] \in Children
  BY DEF ChildKnown
<1>2. child' = [child EXCEPT ![launched[t]] = IF @ = "ended" THEN "gone" ELSE @]
  BY DEF Launched
<1>3. child' \in [Children -> Lives]
  BY <1>1, <1>2 DEF Lives
<1>4. \A c \in Children : child'[c] = child[c] \/ (child[c] = "ended" /\ child'[c] = "gone")
  BY <1>1, <1>2
<1>5. Live' = Live
  BY <1>4 DEF Live
<1>6. tab' \in [Tabs -> Labels] /\ ChildKnown'
  BY DEF Launched, TabTo, Labels, ChildKnown, Recording
<1> QED
  BY <1>1, <1>3, <1>4, <1>5, <1>6 DEF Launched

LEMMA LaunchingType ==
    ASSUME TabsTyped, NEW t \in Tabs, TabStep(t)
    PROVE  TabsTyped'
<1> USE DEF TabsTyped, LaunchTypeOK, ChildKnown, Recording, Labels, TabTo, procs, history
<1>0. UNCHANGED visitors
  BY DEF TabStep
<1>1. CASE Check(t) \/ CreateLost(t)
  BY <1>0, <1>1 DEF Check, CreateLost
<1>2. CASE Clear(t) \/ Create(t)
  BY <1>0, <1>2 DEF Clear, Create, Unlink
<1>3. CASE TakeClaim(t) \/ Truncate(t)
  BY <1>0, <1>3 DEF TakeClaim, WriteThrough, Truncate
<1>4. CASE ReadLog(t) \/ OpenLog(t)
  BY <1>0, <1>4 DEF ReadLog, OpenLog
<1>5. CASE ClaimFails(t) \/ TruncateAgain(t)
  BY <1>0, <1>5, FailsType DEF ClaimFails, TruncateAgain
<1>6. CASE ReadLogFails(t)
  BY <1>0, <1>6, FailsType, LeaveClaimType DEF ReadLogFails
<1>7. CASE SpawnFails(t)
  <2>1. /\ failures' \in 0..MaxFailures
        /\ pidFile' \in Children \cup {Server, Missing, Empty} /\ open' \in SUBSET Tabs
    BY <1>7, FailsType, LeaveClaimType DEF SpawnFails, ReleaseClaim, Unlink
  <2>2. stuck' \in BOOLEAN
    BY <1>7, LeaveClaimType DEF SpawnFails, ReleaseClaim
  <2>3. log' \in Children \cup {NoOne}
    BY <1>7 DEF SpawnFails, RestoreLog
  <2>4. unrestored' \in BOOLEAN
    BY <1>7 DEF SpawnFails, RestoreLog
  <2> QED
    BY <1>0, <1>7, <2>1, <2>2, <2>3, <2>4 DEF SpawnFails
<1>8. ASSUME NEW c \in Children, Popen(t, c) PROVE TabsTyped'
  <2>1. child' \in [Children -> Lives]
    BY <1>8 DEF Popen, Lives
  <2> QED
    BY <1>0, <1>8, <2>1 DEF Popen
<1>9. CASE Record(t)
  <2>1. Launched(t) /\ tab[t] \in Recording
    BY <1>9 DEF Record
  <2> HIDE DEF Recording, ChildKnown
  <2>2. /\ launched[t] \in Children /\ child' \in [Children -> Lives] /\ ChildKnown'
        /\ launched' \in [Tabs -> Children \cup {NoOne}] /\ tab' \in [Tabs -> Labels]
        /\ savedLog' \in [Tabs -> Children \cup {NoOne}]
    BY <2>1, LaunchedType
  <2> QED
    BY <1>0, <1>9, <2>2 DEF Record, Launched, WriteThrough
<1>10. CASE RecordFails(t)
  <2>1. Launched(t) /\ tab[t] \in Recording
    BY <1>10 DEF RecordFails
  <2> HIDE DEF Recording, ChildKnown
  <2>2. /\ launched[t] \in Children /\ child' \in [Children -> Lives] /\ ChildKnown'
        /\ launched' \in [Tabs -> Children \cup {NoOne}] /\ tab' \in [Tabs -> Labels]
        /\ savedLog' \in [Tabs -> Children \cup {NoOne}]
    BY <2>1, LaunchedType
  <2>3. failures' \in 0..MaxFailures /\ stuck' \in BOOLEAN /\ pidFile' \in Children \cup {Server, Missing, Empty}
    BY <1>10, FailsType, LeaveClaimType DEF RecordFails
  <2> QED
    BY <1>0, <1>10, <2>2, <2>3 DEF RecordFails, Launched
<1> QED
  BY <1>1, <1>2, <1>3, <1>4, <1>5, <1>6, <1>7, <1>8, <1>9, <1>10 DEF TabStep, Launching

LEMMA TabsTypeStep == TabsTyped /\ [LaunchNext]_launchVars => TabsTyped'
<1> SUFFICES ASSUME TabsTyped, [LaunchNext]_launchVars PROVE TabsTyped'
  OBVIOUS
<1>1. ASSUME NEW t \in visitors, TabStep(t) PROVE TabsTyped'
  BY <1>1, LaunchingType DEF TabsTyped, LaunchTypeOK
<1>2. CASE ChildStep
  <2> PICK c \in Children : (Enter(c) \/ Exit(c) \/ Reap(c)) /\ UNCHANGED <<visitors, history>>
    BY <1>2 DEF ChildStep
  <2>1. child' \in [Children -> Lives]
    BY DEF Enter, Exit, Reap, TabsTyped, LaunchTypeOK, Lives
  <2> QED
    BY <2>1 DEF Enter, Exit, Reap, TabsTyped, LaunchTypeOK, ChildKnown, history
<1>3. CASE UNCHANGED launchVars
  BY <1>3 DEF launchVars, procs, history, TabsTyped, LaunchTypeOK, ChildKnown
<1> QED
  BY <1>1, <1>2, <1>3, LaunchSteps

\* What the pid file, the logs, the tabs and the children may be; a tab that writes a pid
\* writes that of a child, so the file never comes to name nothing.
THEOREM LaunchTypeCorrect == LaunchSpec => []LaunchTypeOK
<1>1. TabsTyped => LaunchTypeOK
  BY DEF TabsTyped
<1> QED
  BY TabsTypeInit, TabsTypeStep, <1>1, PTL DEF LaunchSpec

-----------------------------------------------------------------------------
(* What is left behind *)

Holding == {"spawn", "yaml", "start", "record"}

\* A claim in the server's name is that of some tab which is about to replace it, or to
\* take it back; or an error has left one that is not cleaned up after.
ClaimIsHeld == pidFile = Server => stuck \/ \E t \in Tabs : tab[t] \in Holding

LEMMA HoldersStay ==
    ASSUME TabsTyped, NEW t \in Tabs, ClaimIsHeld, NEW l \in Labels, TabTo(t, l),
           tab[t] \notin Holding \/ l \in Holding, UNCHANGED <<pidFile, stuck>>
    PROVE  ClaimIsHeld'
<1> SUFFICES ASSUME pidFile = Server, ~stuck PROVE \E u \in Tabs : tab'[u] \in Holding
  BY DEF ClaimIsHeld
<1> PICK u \in Tabs : tab[u] \in Holding
  BY DEF ClaimIsHeld
<1>1. CASE u = t
  BY <1>1 DEF TabTo, TabsTyped, LaunchTypeOK
<1>2. CASE u # t
  BY <1>2 DEF TabTo, TabsTyped, LaunchTypeOK
<1> QED
  BY <1>1, <1>2

LEMMA ClaimLeft == LeaveClaim => ClaimIsHeld'
  BY Zenon DEF LeaveClaim, ClaimIsHeld

LEMMA ClaimStep == TabsTyped /\ ClaimIsHeld /\ [LaunchNext]_launchVars => ClaimIsHeld'
<1> SUFFICES ASSUME TabsTyped, ClaimIsHeld, [LaunchNext]_launchVars PROVE ClaimIsHeld'
  OBVIOUS
<1>1. ASSUME NEW t \in visitors, TabStep(t) PROVE ClaimIsHeld'
  <2>1. t \in Tabs
    BY DEF TabsTyped, LaunchTypeOK
  <2> USE DEF Labels, Holding, history
  <2>2. ASSUME Clear(t) \/ Create(t) \/ Truncate(t) \/ TruncateAgain(t) PROVE ClaimIsHeld'
    BY <2>2, PidAssumption DEF Clear, Create, Truncate, TruncateAgain, Unlink, ClaimIsHeld
  <2>3. ASSUME Check(t) \/ CreateLost(t) \/ ClaimFails(t) PROVE ClaimIsHeld'
    BY <2>1, <2>3, HoldersStay DEF Check, CreateLost, ClaimFails
  <2>4. ASSUME TakeClaim(t) PROVE ClaimIsHeld'
    <3>1. tab'[t] = "spawn"
      BY <2>1, <2>4 DEF TakeClaim, TabTo, TabsTyped, LaunchTypeOK
    <3> QED
      BY <2>1, <3>1 DEF ClaimIsHeld
  <2>5. ASSUME ReadLog(t) \/ OpenLog(t) PROVE ClaimIsHeld'
    BY <2>1, <2>5, HoldersStay DEF ReadLog, OpenLog
  <2>6. ASSUME NEW c \in Children, Popen(t, c) PROVE ClaimIsHeld'
    BY <2>1, <2>6, HoldersStay DEF Popen
  <2>7. ASSUME ReadLogFails(t) \/ RecordFails(t) PROVE ClaimIsHeld'
    BY <2>7, ClaimLeft DEF ReadLogFails, RecordFails
  <2>8. ASSUME SpawnFails(t) PROVE ClaimIsHeld'
    BY <2>8, ClaimLeft, PidAssumption DEF SpawnFails, ReleaseClaim, Unlink, ClaimIsHeld
  <2>9. ASSUME Record(t) PROVE ClaimIsHeld'
    <3>1. /\ launched[t] # Server /\ UNCHANGED stuck /\ TabTo(t, "idle")
          /\ tab[t] \in {"write", "rewrite"}
      BY <2>1, <2>9, PidAssumption DEF TabsTyped, ChildKnown, Recording, Record, Launched
    <3>2. CASE pidFile' = pidFile
      BY <2>1, <3>1, <3>2, HoldersStay
    <3>3. CASE pidFile' = launched[t]
      BY <3>1, <3>3 DEF ClaimIsHeld
    <3> QED
      BY <2>9, <3>2, <3>3 DEF Record, WriteThrough
  <2> QED
    BY <1>1, <2>2, <2>3, <2>4, <2>5, <2>6, <2>7, <2>8, <2>9 DEF TabStep, Launching
<1>2. CASE ChildStep
  BY <1>2 DEF ChildStep, Enter, Exit, Reap, ClaimIsHeld, history
<1>3. CASE UNCHANGED launchVars
  BY <1>3 DEF launchVars, history, ClaimIsHeld
<1> QED
  BY <1>1, <1>2, <1>3, LaunchSteps

\* However many tabs race, unlink each other's claims and fail to spawn: when all of them
\* are back and every child is gone with its pid, the pid file refuses nobody, unless an
\* error left a claim behind that the code does not clean up after.
THEOREM NothingRefusesForever == LaunchSpec => []RestAllowsLaunch
<1>1. LaunchInit => ClaimIsHeld
  BY PidAssumption DEF LaunchInit, ClaimIsHeld
<1>2. TabsTyped /\ ClaimIsHeld => RestAllowsLaunch
  BY DEF ClaimIsHeld, RestAllowsLaunch, NamesALiveProcess, Holding
<1> QED
  BY TabsTypeInit, TabsTypeStep, ClaimStep, <1>1, <1>2, PTL DEF LaunchSpec

-----------------------------------------------------------------------------
(* A tab on its own *)

\* The lock is that of a child that lives.
LockIsAlive == studyLock # NoOne => studyLock \in Live

Before == {"clear", "create", "claim", "spawn", "yaml", "start"}

AllUnborn == \A c \in Children : child[c] = "unborn"

\* While v is launching nothing else lives whose pid could be written; afterwards the pid
\* file names what lives, or the server; what the log holds is the output of what lives.
Orderly(v) ==
    /\ \A t \in Tabs : t # v => tab[t] = "idle"
    /\ tab[v] \in Before => Recorded = {}
    /\ tab[v] \in Recording => Recorded \subseteq {launched[v]}
    /\ tab[v] = "idle" => \A c \in Recorded : pidFile \in {c, Server}
    /\ tab[v] \in {"claim", "write", "rewrite"} => v \in open
    /\ tab[v] \in Holding => pidFile = Server
    /\ \A c \in Recorded : log = c
    /\ tab[v] # "start" /\ log = NoOne => unrestored \/ AllUnborn
    /\ tab[v] \in {"yaml", "start"} /\ savedLog[v] = NoOne => unrestored \/ AllUnborn

TabsInv == TabsTyped /\ LockIsAlive /\ \A v \in Tabs : visitors = {v} => Orderly(v)

LEMMA LockStep == TabsTyped /\ LockIsAlive /\ [LaunchNext]_launchVars => LockIsAlive'
<1> SUFFICES ASSUME TabsTyped, LockIsAlive, [LaunchNext]_launchVars PROVE LockIsAlive'
  OBVIOUS
<1>1. ASSUME NEW t \in visitors, TabStep(t) PROVE LockIsAlive'
  <2>1. CASE UNCHANGED <<child, studyLock>>
    BY <2>1 DEF LockIsAlive, Live
  <2>2. ASSUME NEW c \in Children, Popen(t, c) PROVE LockIsAlive'
    BY <2>2 DEF LockIsAlive, Live, Popen, Polled, TabsTyped, LaunchTypeOK
  <2>3. CASE Record(t) \/ RecordFails(t)
    <3>1. t \in Tabs /\ tab[t] \in Recording /\ Launched(t) /\ UNCHANGED studyLock
      BY <2>3 DEF TabsTyped, LaunchTypeOK, Recording, Record, RecordFails, Launched
    <3>2. Live' = Live
      BY <3>1, LaunchedType
    <3> QED
      BY <3>1, <3>2 DEF LockIsAlive
  <2> QED
    BY <1>1, <2>1, <2>2, <2>3 DEF TabStep, Launching, Check, Clear, Create, CreateLost, TakeClaim,
        ClaimFails, ReadLog, ReadLogFails, OpenLog, SpawnFails, Truncate, TruncateAgain, procs
<1>2. CASE ChildStep
  <2> PICK c \in Children : Enter(c) \/ Exit(c) \/ Reap(c)
    BY <1>2 DEF ChildStep
  <2>1. CASE Enter(c)
    BY <2>1 DEF LockIsAlive, Live, Enter, TabsTyped, LaunchTypeOK
  <2>2. CASE Exit(c)
    BY <2>2 DEF LockIsAlive, Live, Exit, TabsTyped, LaunchTypeOK
  <2>3. CASE Reap(c)
    BY <2>3 DEF LockIsAlive, Live, Reap, Polled, TabsTyped, LaunchTypeOK
  <2> QED
    BY <2>1, <2>2, <2>3
<1>3. CASE UNCHANGED launchVars
  BY <1>3 DEF launchVars, procs, LockIsAlive, Live
<1> QED
  BY <1>1, <1>2, <1>3, LaunchSteps

LEMMA LaunchingKeepsOrder ==
    ASSUME TabsTyped, NEW v \in Tabs, Orderly(v), TabStep(v)
    PROVE  Orderly(v)'
<1> USE DEF Before, Holding, Recording, procs, history
<1>1. \A l : TabTo(v, l) => tab'[v] = l /\ \A t \in Tabs : t # v => tab'[t] = tab[t]
  BY DEF TabTo, TabsTyped, LaunchTypeOK
<1>2. UNCHANGED <<child, lost>> => UNCHANGED Recorded
  BY DEF Recorded, Live
<1>3. UNCHANGED child => UNCHANGED AllUnborn
  BY DEF AllUnborn
<1> USE <1>1, <1>2, <1>3
<1>4. CASE Check(v)
  <2>1. Recorded = {}
    BY <1>4, PidAssumption DEF Check, NamesALiveProcess, Recorded, Live, Orderly
  <2> QED
    BY <1>4, <2>1 DEF Check, Orderly
<1>5. CASE Clear(v) \/ CreateLost(v) \/ ClaimFails(v)
  BY <1>5 DEF Clear, CreateLost, ClaimFails, Unlink, Orderly
<1>6. CASE Create(v) \/ Truncate(v) \/ TruncateAgain(v)
  BY <1>6 DEF Create, Truncate, TruncateAgain, Orderly
<1>7. CASE TakeClaim(v)
  BY <1>7 DEF TakeClaim, WriteThrough, Orderly
<1>8. CASE ReadLog(v)
  BY <1>8 DEF ReadLog, Orderly, TabsTyped, LaunchTypeOK
<1>9. CASE OpenLog(v)
  BY <1>9 DEF OpenLog, Orderly
<1>10. CASE ReadLogFails(v)
  BY <1>10 DEF ReadLogFails, Orderly
<1>11. CASE SpawnFails(v)
  <2>1. Recorded' = {} /\ tab'[v] = "idle" /\ UNCHANGED AllUnborn
    BY <1>11 DEF SpawnFails, Orderly
  <2>2. log' = NoOne => unrestored' \/ AllUnborn
    BY <1>11 DEF SpawnFails, RestoreLog, Orderly
  <2>3. \A t \in Tabs : t # v => tab'[t] = "idle"
    BY <1>11 DEF SpawnFails, Orderly
  <2> QED
    BY <2>1, <2>2, <2>3 DEF Orderly
<1>12. ASSUME NEW c \in Children, Popen(v, c) PROVE Orderly(v)'
  <2>1. Live' = Live \cup {c}
    BY <1>12 DEF Popen, Polled, Live, TabsTyped, LaunchTypeOK
  <2>2. launched'[v] = c /\ log' = c /\ c # NoOne /\ UNCHANGED lost
    BY <1>12, PidAssumption DEF Popen, TabsTyped, LaunchTypeOK
  <2>3. Recorded' \subseteq {c}
    BY <1>12, <2>1, <2>2 DEF Popen, Orderly, Recorded
  <2> QED
    BY <1>12, <2>2, <2>3 DEF Popen, Orderly
<1>13. CASE Record(v) \/ RecordFails(v)
  <2>1. /\ tab[v] \in Recording /\ Launched(v)
        /\ tab'[v] = "idle" /\ UNCHANGED <<log, unrestored>>
        /\ \A t \in Tabs : t # v => tab'[t] = "idle"
    BY <1>13 DEF Record, RecordFails, Launched, Orderly
  <2>2. Live' = Live /\ \A c \in Children : child[c] = "unborn" => child'[c] = "unborn"
    BY <2>1, LaunchedType
  <2>3. AllUnborn => AllUnborn'
    BY <2>2 DEF AllUnborn
  <2>4. CASE Record(v)
    <3>1. UNCHANGED Recorded /\ pidFile' = launched[v]
      BY <2>2, <2>4 DEF Record, WriteThrough, Recorded, Orderly
    <3> QED
      BY <2>1, <2>3, <3>1 DEF Orderly
  <2>5. CASE RecordFails(v)
    <3>1. Recorded' = {}
      BY <2>1, <2>2, <2>5 DEF RecordFails, Recorded, Orderly
    <3> QED
      BY <2>1, <2>3, <3>1 DEF Orderly
  <2> QED
    BY <1>13, <2>4, <2>5
<1> QED
  BY <1>4, <1>5, <1>6, <1>7, <1>8, <1>9, <1>10, <1>11, <1>12, <1>13 DEF TabStep, Launching

LEMMA ChildKeepsOrder ==
    ASSUME TabsTyped, NEW v \in Tabs, Orderly(v), ChildStep
    PROVE  Orderly(v)'
<1> PICK c \in Children : (Enter(c) \/ Exit(c) \/ Reap(c)) /\ UNCHANGED <<visitors, history>>
  BY DEF ChildStep
<1>1. Live' \subseteq Live
  BY DEF Enter, Exit, Reap, Polled, Live, TabsTyped, LaunchTypeOK
<1>2. child[c] # "unborn" /\ UNCHANGED <<pidFile, open, log, savedLog, tab, launched, unrestored, lost>>
  BY DEF Enter, Exit, Reap, Polled, Live, history
<1>3. ~AllUnborn /\ Recorded' \subseteq Recorded
  BY <1>1, <1>2 DEF AllUnborn, Recorded
<1> QED
  BY <1>2, <1>3 DEF Orderly

LEMMA TabsInvHolds == LaunchSpec => []TabsInv
<1>1. LaunchInit => TabsInv
  <2> SUFFICES ASSUME LaunchInit PROVE TabsInv
    OBVIOUS
  <2>1. TabsTyped /\ Live = {} /\ Recorded = {}
    BY TabsTypeInit DEF LaunchInit, Live, Recorded
  <2>2. log = NoOne => AllUnborn
    BY PidAssumption DEF LaunchInit, AllUnborn
  <2> QED
    BY <2>1, <2>2 DEF LaunchInit, TabsInv, LockIsAlive, Orderly, Before, Holding, Recording
<1>2. TabsInv /\ [LaunchNext]_launchVars => TabsInv'
  <2> SUFFICES ASSUME TabsInv, [LaunchNext]_launchVars PROVE TabsInv'
    OBVIOUS
  <2>1. TabsTyped' /\ LockIsAlive'
    BY TabsTypeStep, LockStep DEF TabsInv
  <2>2. ASSUME NEW v \in Tabs, visitors' = {v} PROVE Orderly(v)'
    <3>1. visitors = {v}
      BY <2>2 DEF LaunchNext, launchVars
    <3>2. Orderly(v) /\ TabsTyped
      BY <3>1 DEF TabsInv
    <3>3. CASE UNCHANGED launchVars
      BY <3>2, <3>3 DEF launchVars, procs, history, Orderly, Recorded, Live, AllUnborn
    <3> QED
      BY <3>1, <3>2, <3>3, LaunchSteps, LaunchingKeepsOrder, ChildKeepsOrder
  <2> QED
    BY <2>1, <2>2 DEF TabsInv
<1> QED
  BY <1>1, <1>2, PTL DEF LaunchSpec

LEMMA FewerThanTwo == \A S : (\A x, y \in S : x = y) => Cardinality(S) \in {0, 1} /\ (S = {} => Cardinality(S) = 0)
<1> SUFFICES ASSUME NEW S, \A x, y \in S : x = y
             PROVE  Cardinality(S) \in {0, 1} /\ (S = {} => Cardinality(S) = 0)
  OBVIOUS
<1>1. CASE S = {}
  BY <1>1, FS_EmptySet
<1>2. ASSUME NEW x \in S PROVE Cardinality(S) = 1
  <2>1. S = {x}
    OBVIOUS
  <2> QED
    BY <2>1, FS_Singleton
<1> QED
  BY <1>1, <1>2

\* A tab that launches again and again: its claim keeps it out while the child it started
\* is alive, from the check of the pid file to the pid that replaces the claim, if that
\* pid could be written.
THEOREM OneLaunchAtATime == LaunchSpec => []LaunchesExcludeAlone
<1>1. ASSUME TabsInv, Alone PROVE LaunchesExclude
  <2> PICK v \in Tabs : visitors = {v}
    BY <1>1 DEF Alone
  <2>1. Orderly(v)
    BY <1>1 DEF TabsInv
  <2>2. InFlight \subseteq {v} /\ (InFlight # {} => Recorded = {})
    BY <2>1 DEF InFlight, Orderly, Before
  <2>3. \A c, d \in Recorded : c = d
    BY <2>1 DEF Orderly
  <2> HIDE DEF InFlight, Recorded
  <2>4. /\ Cardinality(InFlight) \in {0, 1} /\ (InFlight = {} => Cardinality(InFlight) = 0)
        /\ Cardinality(Recorded) \in {0, 1} /\ (Recorded = {} => Cardinality(Recorded) = 0)
    BY <2>2, <2>3, FewerThanTwo
  <2> QED
    BY <2>2, <2>4 DEF LaunchesExclude
<1>2. TabsInv => LaunchesExcludeAlone
  BY <1>1 DEF LaunchesExcludeAlone
<1> QED
  BY TabsInvHolds, <1>2, PTL

\* A tab on its own never wipes the log of the launch before for good unless the restore
\* fails, and the child that holds the study lock is the one whose output the log holds,
\* unless its pid could not be written.
THEOREM TheLogIsTheRuns == LaunchSpec => []LogSurvives
<1>1. TabsInv => LogSurvives
  <2> SUFFICES ASSUME TabsInv, Alone PROVE LogSurvives
    BY DEF LogSurvives
  <2> PICK v \in Tabs : visitors = {v}
    BY DEF Alone
  <2>1. Orderly(v) /\ LockIsAlive
    BY DEF TabsInv
  <2> QED
    BY <2>1 DEF Orderly, LogSurvives, LockIsAlive, Recorded, AllUnborn
<1> QED
  BY TabsInvHolds, <1>1, PTL
==============================================================================
