------------------------------ MODULE StudyRunner ------------------------------
(***************************************************************************)
(* `study run`: processes that execute the cells of one expanded StudySpec *)
(* into one output directory (thesistester/study/execute.py, ledger.py).   *)
(*                                                                         *)
(* The directory holds the ledger, one research bundle per cell, the       *)
(* results index and the expansion artifacts.  Each of them is written by  *)
(* a step of its own, so that a process can die between any two writes.    *)
(* The ledger and the index are replaced atomically; a bundle is not.      *)
(*                                                                         *)
(* What a cell computes is abstracted to the identity (study_identity_hash)*)
(* of the spec it was run for: a bundle, or the metrics of an index row,   *)
(* "are" the identity that produced them.                                  *)
(***************************************************************************)
EXTENDS Naturals, FiniteSets

CONSTANTS
    Procs,          \* processes that may call run_study on the directory
    Identities,     \* study identity hashes
    Cells,          \* run names of all the specs together
    RunNames,       \* the run names a spec of that identity expands to
    ConfirmAbove,   \* study.confirm_above_runs
    NoProc, NoIdentity,
    Absent, Torn,   \* a bundle that is missing, and one cut short by a crash
    MaxFaults       \* bound on crashes, interrupts and lost bundles together

ASSUME RunNamesAssumption ==
    /\ Identities # {}
    /\ RunNames \in [Identities -> SUBSET Cells]
ASSUME SentinelAssumption ==
    /\ NoProc \notin Procs
    /\ {NoIdentity, Absent, Torn} \cap Identities = {}
    /\ Absent # Torn
ASSUME FaultsAssumption == MaxFaults \in Nat

VARIABLES
    lock,       \* holder of the flock on .study.lock
    ledger,     \* study.ledger.json
    bundle,     \* <cell>.research.zip
    index,      \* results_index.csv
    expansion,  \* identity of study.spec.yaml / experiment.yaml on disk
    pc,         \* where a process is in run_study
    job,        \* its arguments: identity of its spec, force, confirm
    existing,   \* the ledger it read under the lock
    rows,       \* its index_by_name
    todo,       \* the cells it set out to run
    left,       \* the cells of todo whose result it has not applied
    cell,       \* the cell whose result it is applying (a set: {} or {c})
    aborted,    \* an exception is on its way out of the try block
    faults

disk  == <<ledger, bundle, index, expansion>>
local == <<job, existing, rows, todo, left, cell, aborted>>
vars  == <<lock, disk, pc, local, faults>>

-----------------------------------------------------------------------------
(* Values. "absent" is a name the ledger or the index does not mention.     *)

Statuses  == {"absent", "pending", "running", "ok", "failed"}
LedgerCell == [status : Statuses, zip : BOOLEAN]
Ledgers   == [identity : Identities \cup {NoIdentity},
              confirm  : BOOLEAN,
              cells    : [Cells -> LedgerCell]]
Rows      == [status : Statuses, metrics : Identities \cup {NoIdentity}]
Jobs      == [identity : Identities, force : BOOLEAN, confirm : BOOLEAN]

Inside == {"gate", "prepare", "init", "claim", "dispatch", "bundle", "record",
           "record_failed", "reindex", "sweep", "sweep_index", "finish", "release"}

AbsentCell  == [status |-> "absent", zip |-> FALSE]
PendingCell == [status |-> "pending", zip |-> FALSE]
AbsentRow   == [status |-> "absent", metrics |-> NoIdentity]

NoLedger == [identity |-> NoIdentity, confirm |-> FALSE,
             cells |-> [c \in Cells |-> AbsentCell]]
NoRows   == [c \in Cells |-> AbsentRow]

-----------------------------------------------------------------------------
(* ledger.py *)

EmptyLedger(i) ==
    [identity |-> i, confirm |-> FALSE,
     cells |-> [c \in Cells |-> IF c \in RunNames[i] THEN PendingCell ELSE AbsentCell]]

\* Mutant: a status that is not in LEDGER_STATUSES.
MarkCellUnknownStatus(lg, c, st, zip) ==
    [lg EXCEPT !.cells[c] = [status |-> IF st = "failed" THEN "error" ELSE st, zip |-> zip]]

\* mark_cell with no bundle_path argument keeps the old one for "running".
MarkCell(lg, c, st, zip) ==
    [lg EXCEPT !.cells[c] = [status |-> st, zip |-> zip]]

\* Mutant: cells of a crashed run, still running, are taken for done.
CellsToRunNotRunning(lg, names, force) ==
    {c \in names : force \/ lg.cells[c].status \in {"pending", "failed"}}

\* Mutant: a cell is skipped only when the index knows it is ok.
CellsToRunByIndex(lg, names, force) ==
    {c \in names : force \/ ~(lg.cells[c].status = "ok" /\ index[c].status = "ok")}

\* Soft resume skips a cell only while its bundle is still on disk.
CellsToRun(lg, names, force) ==
    {c \in names : force \/ ~(/\ lg.cells[c].status = "ok"
                              /\ lg.cells[c].zip
                              /\ bundle[c] # Absent)}

(* execute.py *)

\* _require_study_confirm
Confirmed(j) == Cardinality(RunNames[j.identity]) >= ConfirmAbove => j.confirm

\* Mutant: the identity check is dropped.
AnyIdentity(lg, j) == TRUE

\* _assert_study_identity
SameIdentity(lg, j) == lg.identity \in {NoIdentity, j.identity} \/ j.force

\* Mutant: cells of the old identity are kept on a forced swap.
InitStudyLedgerKeepsCells(lg, j) ==
    [identity |-> j.identity, confirm |-> lg.confirm \/ j.confirm,
     cells |-> [c \in Cells |-> IF c \notin RunNames[j.identity] THEN AbsentCell
                                ELSE IF lg.cells[c].status = "absent" THEN PendingCell
                                ELSE lg.cells[c]]]

\* _init_study_ledger, then record_confirmation when --confirm was given.
InitStudyLedger(lg, j) ==
    LET names == RunNames[j.identity]
        fresh == lg = NoLedger \/ (j.force /\ lg.identity # j.identity)
        kept(c) == IF j.force \/ lg.cells[c].status = "absent"
                   THEN PendingCell ELSE lg.cells[c]
        base  == IF fresh THEN EmptyLedger(j.identity)
                 ELSE [lg EXCEPT !.identity = j.identity,
                         !.cells = [c \in Cells |-> IF c \in names THEN kept(c) ELSE AbsentCell]]
    IN  [base EXCEPT !.confirm = @ \/ j.confirm]

\* _scope_study_index
ScopeStudyIndex(rs, j) ==
    [c \in Cells |-> IF c \in RunNames[j.identity] /\ ~j.force THEN rs[c] ELSE AbsentRow]

\* _write_results_index: a run name with no row is written as a pending stub.
WriteResultsIndex(rs, names) ==
    [c \in Cells |-> IF c \notin names THEN AbsentRow
                     ELSE IF rs[c].status = "absent" THEN [AbsentRow EXCEPT !.status = "pending"]
                     ELSE rs[c]]

\* The metrics read back from the research zip, null when it cannot be read.
BundleMetrics(c) == IF bundle[c] \in Identities THEN bundle[c] ELSE NoIdentity

\* Mutant: a missing row of an ok cell is not read back from its bundle.
SyncStudyIndexRowNoRehydrate(c, lc, row) == [status |-> lc.status, metrics |-> row.metrics]

\* _sync_study_index_row
SyncStudyIndexRow(c, lc, row) ==
    [status  |-> lc.status,
     metrics |-> IF lc.status = "ok" /\ lc.zip /\ row.metrics = NoIdentity
                 THEN BundleMetrics(c) ELSE row.metrics]

-----------------------------------------------------------------------------
(* The process leaves run_study: the with block releases the lock, and a    *)
(* dead process has its flock released by the operating system.             *)

NoJob == [identity |-> CHOOSE i \in Identities : TRUE, force |-> FALSE, confirm |-> FALSE]

Goto(p, l) == pc' = [pc EXCEPT ![p] = l]

Forget(p) ==
    /\ Goto(p, "idle")
    /\ job'      = [job EXCEPT ![p] = NoJob]
    /\ existing' = [existing EXCEPT ![p] = NoLedger]
    /\ rows'     = [rows EXCEPT ![p] = NoRows]
    /\ todo'     = [todo EXCEPT ![p] = {}]
    /\ left'     = [left EXCEPT ![p] = {}]
    /\ cell'     = [cell EXCEPT ![p] = {}]
    /\ aborted'  = [aborted EXCEPT ![p] = FALSE]

Unlock(p) == lock' = IF lock = p THEN NoProc ELSE lock

Leave(p) == Forget(p) /\ Unlock(p)

Init ==
    /\ lock = NoProc
    /\ ledger = NoLedger
    /\ bundle = [c \in Cells |-> Absent]
    /\ index = NoRows
    /\ expansion = NoIdentity
    /\ pc = [p \in Procs |-> "idle"]
    /\ job = [p \in Procs |-> NoJob]
    /\ existing = [p \in Procs |-> NoLedger]
    /\ rows = [p \in Procs |-> NoRows]
    /\ todo = [p \in Procs |-> {}]
    /\ left = [p \in Procs |-> {}]
    /\ cell = [p \in Procs |-> {}]
    /\ aborted = [p \in Procs |-> FALSE]
    /\ faults = 0

-----------------------------------------------------------------------------
(* run_study.  A call refused by a gate before the lock changes nothing.    *)

Start(p, j) ==
    /\ pc[p] = "idle"
    /\ Confirmed(j)
    /\ SameIdentity(ledger, j)
    /\ job' = [job EXCEPT ![p] = j]
    /\ Goto(p, "lock")
    /\ UNCHANGED <<lock, disk, existing, rows, todo, left, cell, aborted, faults>>

\* The lock is not waited for.
Contend(p) ==
    /\ pc[p] = "lock"
    /\ lock # NoProc
    /\ Forget(p)
    /\ UNCHANGED <<lock, disk, faults>>

\* Mutant: a shared lock.
AcquireShared(p) ==
    /\ pc[p] = "lock"
    /\ lock' = p
    /\ Goto(p, "gate")
    /\ UNCHANGED <<disk, local, faults>>

Acquire(p) ==
    /\ pc[p] = "lock"
    /\ lock = NoProc
    /\ lock' = p
    /\ Goto(p, "gate")
    /\ UNCHANGED <<disk, local, faults>>

\* Mutant: the identity is not checked again under the lock.
GateUnchecked(p) ==
    /\ pc[p] = "gate"
    /\ existing' = [existing EXCEPT ![p] = ledger]
    /\ Goto(p, "prepare")
    /\ UNCHANGED <<lock, disk, job, rows, todo, left, cell, aborted, faults>>

\* The ledger may have changed since Start looked at it.
Gate(p) ==
    /\ pc[p] = "gate"
    /\ SameIdentity(ledger, job[p])
    /\ existing' = [existing EXCEPT ![p] = ledger]
    /\ Goto(p, "prepare")
    /\ UNCHANGED <<lock, disk, job, rows, todo, left, cell, aborted, faults>>

GateRefuses(p) ==
    /\ pc[p] = "gate"
    /\ ~SameIdentity(ledger, job[p])
    /\ Leave(p)
    /\ UNCHANGED <<disk, faults>>

\* Tick-stitch or prior-profile preparation, which may raise, and then
\* write_expansion_artifacts.
Prepare(p) ==
    /\ pc[p] = "prepare"
    /\ expansion' = job[p].identity
    /\ Goto(p, "init")
    /\ UNCHANGED <<lock, ledger, bundle, index, local, faults>>

PrepareFails(p) ==
    /\ pc[p] = "prepare"
    /\ Leave(p)
    /\ UNCHANGED <<disk, faults>>

InitLedger(p) ==
    /\ pc[p] = "init"
    /\ ledger' = InitStudyLedger(existing[p], job[p])
    /\ Goto(p, "claim")
    /\ UNCHANGED <<lock, bundle, index, expansion, local, faults>>

\* Loads the index, chooses the cells to run and marks them running.
Claim(p) ==
    LET run == CellsToRun(ledger, RunNames[job[p].identity], job[p].force) IN
    /\ pc[p] = "claim"
    /\ rows' = [rows EXCEPT ![p] = ScopeStudyIndex(index, job[p])]
    /\ todo' = [todo EXCEPT ![p] = run]
    /\ left' = [left EXCEPT ![p] = run]
    /\ ledger' = [ledger EXCEPT !.cells = [c \in Cells |->
                    IF c \in run THEN [@[c] EXCEPT !.status = "running"] ELSE @[c]]]
    /\ Goto(p, "dispatch")
    /\ UNCHANGED <<lock, bundle, index, expansion, job, existing, cell, aborted, faults>>

-----------------------------------------------------------------------------
(* _dispatch_study_cells and _apply_cell_result.  The results of the pool   *)
(* arrive in any order; the serial loop is one of the orders.               *)

\* An ok payload: the zip is written in place, so it is torn until it is whole.
CellOk(p, c) ==
    /\ pc[p] = "dispatch"
    /\ c \in left[p]
    /\ bundle' = [bundle EXCEPT ![c] = Torn]
    /\ cell' = [cell EXCEPT ![p] = {c}]
    /\ Goto(p, "bundle")
    /\ UNCHANGED <<lock, ledger, index, expansion, job, existing, rows, todo, left, aborted, faults>>

FinishBundle(p) ==
    /\ pc[p] = "bundle"
    /\ bundle' = [c \in Cells |-> IF c \in cell[p] THEN job[p].identity ELSE bundle[c]]
    /\ Goto(p, "record")
    /\ UNCHANGED <<lock, ledger, index, expansion, local, faults>>

\* A failed payload (the cell raised, or its worker died): a zip of an earlier
\* run is unlinked, and a failure to unlink it is ignored.
CellFailed(p, c) ==
    /\ pc[p] = "dispatch"
    /\ c \in left[p]
    /\ bundle' \in {bundle, [bundle EXCEPT ![c] = Absent]}
    /\ cell' = [cell EXCEPT ![p] = {c}]
    /\ Goto(p, "record_failed")
    /\ UNCHANGED <<lock, ledger, index, expansion, job, existing, rows, todo, left, aborted, faults>>

Apply(p, c, st, zip, metrics) ==
    /\ c \in cell[p]
    /\ ledger' = MarkCell(ledger, c, st, zip)
    /\ rows' = [rows EXCEPT ![p][c] = [status |-> st, metrics |-> metrics]]
    /\ left' = [left EXCEPT ![p] = @ \ {c}]
    /\ Goto(p, "reindex")
    /\ UNCHANGED <<lock, bundle, index, expansion, job, existing, todo, cell, aborted, faults>>

RecordOk(p) ==
    /\ pc[p] = "record"
    /\ \E c \in Cells : Apply(p, c, "ok", TRUE, job[p].identity)

RecordFailed(p) ==
    /\ pc[p] = "record_failed"
    /\ \E c \in Cells : Apply(p, c, "failed", FALSE, NoIdentity)

Reindex(p) ==
    /\ pc[p] = "reindex"
    /\ index' = WriteResultsIndex(rows[p], RunNames[job[p].identity])
    /\ cell' = [cell EXCEPT ![p] = {}]
    /\ Goto(p, "dispatch")
    /\ UNCHANGED <<lock, ledger, bundle, expansion, job, existing, rows, todo, left, aborted, faults>>

DispatchDone(p) ==
    /\ pc[p] = "dispatch"
    /\ left[p] = {}
    /\ Goto(p, "sweep")
    /\ UNCHANGED <<lock, disk, local, faults>>

\* KeyboardInterrupt, or an OSError of one of the writes, in the try block.
Interrupt(p) ==
    /\ pc[p] \in {"dispatch", "bundle", "record", "record_failed", "reindex"}
    /\ faults < MaxFaults
    /\ faults' = faults + 1
    /\ aborted' = [aborted EXCEPT ![p] = TRUE]
    /\ cell' = [cell EXCEPT ![p] = {}]
    /\ Goto(p, "sweep")
    /\ UNCHANGED <<lock, disk, job, existing, rows, todo, left>>

-----------------------------------------------------------------------------
(* _finalize_running_cells, in the finally clause.                          *)

LeftRunning(p) == {c \in todo[p] : ledger.cells[c].status = "running"}

Sweep(p) ==
    LET dirty == LeftRunning(p) IN
    /\ pc[p] = "sweep"
    /\ dirty # {}
    /\ ledger' = [ledger EXCEPT !.cells = [c \in Cells |->
                    IF c \in dirty THEN [status |-> "failed", zip |-> FALSE] ELSE @[c]]]
    /\ rows' = [rows EXCEPT ![p] = [c \in Cells |->
                    IF c \in dirty THEN [AbsentRow EXCEPT !.status = "failed"] ELSE @[c]]]
    /\ Goto(p, "sweep_index")
    /\ UNCHANGED <<lock, bundle, index, expansion, job, existing, todo, left, cell, aborted, faults>>

SweepIndex(p) ==
    /\ pc[p] = "sweep_index"
    /\ index' = WriteResultsIndex(rows[p], RunNames[job[p].identity])
    /\ Goto(p, IF aborted[p] THEN "release" ELSE "finish")
    /\ UNCHANGED <<lock, ledger, bundle, expansion, local, faults>>

SweepClean(p) ==
    /\ pc[p] = "sweep"
    /\ LeftRunning(p) = {}
    /\ Goto(p, IF aborted[p] THEN "release" ELSE "finish")
    /\ UNCHANGED <<lock, disk, local, faults>>

\* _finalize_study_index
Finish(p) ==
    LET names == RunNames[job[p].identity]
        synced == [c \in Cells |-> IF c \in names
                     THEN SyncStudyIndexRow(c, ledger.cells[c], rows[p][c]) ELSE rows[p][c]]
    IN
    /\ pc[p] = "finish"
    /\ rows' = [rows EXCEPT ![p] = synced]
    /\ index' = WriteResultsIndex(synced, names)
    /\ Goto(p, "release")
    /\ UNCHANGED <<lock, ledger, bundle, expansion, job, existing, todo, left, cell, aborted, faults>>

Release(p) ==
    /\ pc[p] = "release"
    /\ Leave(p)
    /\ UNCHANGED <<disk, faults>>

\* The process dies, or an exception escapes outside the try block.
Crash(p) ==
    /\ pc[p] # "idle"
    /\ faults < MaxFaults
    /\ faults' = faults + 1
    /\ Leave(p)
    /\ UNCHANGED disk

\* Somebody deletes a research bundle.
LoseBundle(c) ==
    /\ faults < MaxFaults
    /\ faults' = faults + 1
    /\ bundle[c] # Absent
    /\ bundle' = [bundle EXCEPT ![c] = Absent]
    /\ UNCHANGED <<lock, ledger, index, expansion, pc, local>>

-----------------------------------------------------------------------------
Step(p) ==
    \/ Contend(p) \/ Acquire(p) \/ Gate(p) \/ GateRefuses(p)
    \/ Prepare(p) \/ PrepareFails(p) \/ InitLedger(p) \/ Claim(p)
    \/ \E c \in Cells : CellOk(p, c) \/ CellFailed(p, c)
    \/ FinishBundle(p) \/ RecordOk(p) \/ RecordFailed(p) \/ Reindex(p)
    \/ DispatchDone(p) \/ Sweep(p) \/ SweepIndex(p) \/ SweepClean(p)
    \/ Finish(p) \/ Release(p)

Next ==
    \/ \E p \in Procs : Step(p) \/ Interrupt(p) \/ Crash(p)
    \/ \E p \in Procs, j \in Jobs : Start(p, j)
    \/ \E c \in Cells : LoseBundle(c)

Spec == Init /\ [][Next]_vars

\* run_study never waits: every call it makes returns, a cell's payload included.
FairSpec == Spec /\ \A p \in Procs : WF_vars(Step(p))

-----------------------------------------------------------------------------
(* Properties *)

TypeOK ==
    /\ lock \in Procs \cup {NoProc}
    /\ ledger \in Ledgers
    /\ bundle \in [Cells -> Identities \cup {Absent, Torn}]
    /\ index \in [Cells -> Rows]
    /\ expansion \in Identities \cup {NoIdentity}
    /\ pc \in [Procs -> Inside \cup {"idle", "lock"}]
    /\ job \in [Procs -> Jobs]
    /\ existing \in [Procs -> Ledgers]
    /\ rows \in [Procs -> [Cells -> Rows]]
    /\ todo \in [Procs -> SUBSET Cells]
    /\ left \in [Procs -> SUBSET Cells]
    /\ cell \in [Procs -> SUBSET Cells]
    /\ aborted \in [Procs -> BOOLEAN]
    /\ faults \in 0..MaxFaults

\* Only the holder of .study.lock is past the lock (_study_dir_lock), whatever
\* crashes: the ledger and the bundles have one writer at a time.
OneWriter == \A p \in Procs : pc[p] \in Inside <=> lock = p

\* A cell the ledger calls ok names a bundle that is never cut short and never
\* that of another spec: it is whole and of the ledger's identity, or lost.
OkBundleIsCurrent ==
    \A c \in Cells : ledger.cells[c].status = "ok" =>
        /\ ledger.cells[c].zip
        /\ bundle[c] \in {ledger.identity, Absent}

\* A directory changes hands from one study identity to another only under
\* --force, even when two specs race for it past the first identity check.
IdentityNeedsForce ==
    [][ledger'.identity # ledger.identity =>
        \/ ledger.identity = NoIdentity
        \/ lock \in Procs /\ job[lock].force]_vars

\* Soft resume: without --force a cell that is ok stays ok while its bundle is
\* on disk, however often runs are interrupted, crash and start again.
ResumeKeepsOk ==
    [][\A c \in Cells :
        ledger.cells[c].status = "ok" /\ ledger'.cells[c].status # "ok" =>
            bundle[c] = Absent \/ (lock \in Procs /\ job[lock].force)]_vars

\* A run that gets to the end leaves every cell of its spec ok or failed, and an
\* index that says the same of the same cells: an ok row has metrics when its
\* bundle is there to read, a failed row has none, and the expansion artifacts
\* beside it are those of the ledger.
FinishSettles ==
    [][\A p \in Procs : pc[p] = "finish" /\ pc'[p] = "release" =>
        /\ expansion' = ledger'.identity
        /\ \A c \in Cells :
            LET st == ledger'.cells[c].status IN
            /\ st \in {"ok", "failed"} <=> c \in RunNames[job[p].identity]
            /\ index'[c].status = st
            /\ st = "ok" /\ bundle'[c] # Absent => index'[c].metrics # NoIdentity
            /\ st # "ok" => index'[c].metrics = NoIdentity]_vars

\* The index of a finished run shows the metrics of the bundles it points at
\* ("overwrites bundles/index rows for those names").
IndexIsHonest == \A c \in Cells :
    index[c].status = "ok" /\ bundle[c] # Absent => index[c].metrics = bundle[c]
FinishedIndexIsHonest ==
    [][\A p \in Procs : pc[p] = "finish" /\ pc'[p] = "release" => IndexIsHonest']_vars

\* The same of a directory in which nothing has gone wrong yet, whatever specs ran
\* in it, forced or resumed.
FaultlessIndexIsHonest ==
    [][\A p \in Procs :
        faults = 0 /\ pc[p] = "finish" /\ pc'[p] = "release" => IndexIsHonest']_vars

\* Cells a crash left running are picked up again: once nothing goes wrong any
\* more, a run that gets the directory leaves no cell pending or running.
RunsSettle ==
    \A p \in Procs :
        pc[p] = "claim" /\ faults = MaxFaults
            ~> \A c \in Cells : ledger.cells[c].status \in {"absent", "ok", "failed"}

\* The directory keeps the promise of StudyResults: the published results are
\* the bundles of the cells the ledger calls ok.
Results == INSTANCE StudyResults WITH
    holder  <- lock,
    forced  <- IF lock \in Procs THEN job[lock].force ELSE FALSE,
    results <- [c \in Cells |-> IF ledger.cells[c].status = "ok" THEN BundleMetrics(c)
                                ELSE NoIdentity]

KeepsItsPromise == Results!Spec
=============================================================================
