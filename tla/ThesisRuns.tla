------------------------------- MODULE ThesisRuns -------------------------------
(***************************************************************************)
(* One thesis of the research assistant: specification versions that are   *)
(* confirmed and executed, and runs that complete, fail or are cancelled   *)
(* (thesistester/assistant/orchestrator.py over repository.py).            *)
(*                                                                         *)
(* A record is a JSON file replaced atomically.  There is no lock: a       *)
(* repository call reads a record, checks its revision or its absence, and *)
(* replaces it some time later.  Each call is two steps here, and          *)
(* `overlapped` notes when a write came between the two steps of another   *)
(* call on the same records, which is where the checks stop holding.       *)
(***************************************************************************)
EXTENDS Naturals, FiniteSets

CONSTANTS
    Sessions,       \* sessions that confirm one specification and execute it
    Cancellers,     \* sessions that press Cancel
    RunSpecs,       \* normalized run specs a user may confirm
    NoSpec, NoRun,
    MaxFaults       \* bound on sessions that die and on complete_run failing to write

ASSUME SentinelAssumption == NoSpec \notin RunSpecs /\ NoRun \notin Sessions
ASSUME ActorsAssumption == Sessions \cap Cancellers = {}
ASSUME SessionsAssumption == IsFiniteSet(Sessions)
ASSUME FaultsAssumption == MaxFaults \in Nat

VARIABLES
    specs,      \* specs/<version>.json
    runs,       \* runs/<run_id>.json, the run of each session
    bundle,     \* the research bundle at the session's output_path
    pc,         \* where a session is
    wanted,     \* the run spec its user has on the screen
    version,    \* the spec version it goes by
    draft,      \* the text confirm_spec_version has read and will copy
    target,     \* the version it is about to write
    read,       \* the run record it has read
    provenance, \* whether it has provenance to store
    report,     \* what it told its user
    cpc, cread, cancelling, \* the same of a canceller, and the run it cancels
    overlapped, \* kinds of records on which two calls have overlapped
    faults

specVars   == <<specs, version, draft, target, wanted>>
cancelVars == <<cpc, cread, cancelling>>
runVars    == <<runs, read, provenance, report>>
vars == <<specVars, runVars, bundle, pc, cancelVars, overlapped, faults>>

-----------------------------------------------------------------------------
Versions == 1..(2 * Cardinality(Sessions))
AbsentSpec == [text |-> NoSpec, status |-> "absent", parent |-> 0]
AbsentRun  == [text |-> NoSpec, status |-> "absent", revision |-> 0, provenance |-> FALSE]
Terminal   == {"completed", "failed", "cancelled"}
Statuses   == {"absent", "running"} \cup Terminal
Labels == {"new", "create_check", "create_write", "confirm", "confirm_check", "confirm_write",
           "start", "compute", "complete", "complete_write", "finalize", "attach",
           "attach_write", "reread", "fail", "fail_write", "closed"}

IsRun(r) == r \in [text : {r.text}, status : Statuses, revision : Nat, provenance : BOOLEAN]

TypeOK ==
    /\ \A s \in Sessions : IsRun(runs[s]) /\ IsRun(read[s])
    /\ DOMAIN runs = Sessions /\ DOMAIN read = Sessions
    /\ bundle \in [Sessions -> {"none", "readable", "unreadable"}]
    /\ pc \in [Sessions -> Labels]
    /\ provenance \in [Sessions -> BOOLEAN]
    /\ report \in [Sessions -> {"none", "error"} \cup Terminal]
    /\ cpc \in [Cancellers -> {"idle", "cancel", "cancel_write"}]
    /\ DOMAIN cread = Cancellers /\ \A c \in Cancellers : IsRun(cread[c])
    /\ cancelling \in [Cancellers -> Sessions \cup {NoRun}]
    /\ faults \in Nat

Init ==
    /\ specs = [v \in Versions |-> AbsentSpec]
    /\ runs = [s \in Sessions |-> AbsentRun]
    /\ bundle = [s \in Sessions |-> "none"]
    /\ pc = [s \in Sessions |-> "new"]
    /\ wanted = [s \in Sessions |-> NoSpec]
    /\ version = [s \in Sessions |-> 0]
    /\ draft = [s \in Sessions |-> NoSpec]
    /\ target = [s \in Sessions |-> 0]
    /\ read = [s \in Sessions |-> AbsentRun]
    /\ provenance = [s \in Sessions |-> FALSE]
    /\ report = [s \in Sessions |-> "none"]
    /\ cpc = [c \in Cancellers |-> "idle"]
    /\ cread = [c \in Cancellers |-> AbsentRun]
    /\ cancelling = [c \in Cancellers |-> NoRun]
    /\ overlapped = {}
    /\ faults = 0

Goto(s, l) == pc' = [pc EXCEPT ![s] = l]

Close(s, r) == Goto(s, "closed") /\ report' = [report EXCEPT ![s] = r]

-----------------------------------------------------------------------------
(* repository.py, specification versions *)

\* create_spec_version and _create_confirmed_copy number by what is listed.
NextVersion == Cardinality({v \in Versions : specs[v].status # "absent"}) + 1

\* Sessions that have found their target free and not written it yet.
WritingSpec == {s \in Sessions : pc[s] \in {"create_write", "confirm_write"}}

\* _write_json_atomic, exclusive: another version may have been listed since.
WriteSpec(s, spec) ==
    /\ specs' = [specs EXCEPT ![target[s]] = spec]
    /\ overlapped' = IF WritingSpec \ {s} = {} THEN overlapped ELSE overlapped \cup {"specs"}
    /\ version' = [version EXCEPT ![s] = target[s]]

\* Existing records are refused.
CheckFree(s, l) ==
    /\ IF specs[target[s]].status = "absent"
       THEN Goto(s, l) /\ UNCHANGED report
       ELSE Close(s, "error")
    /\ UNCHANGED <<specVars, runs, read, provenance, bundle, cancelVars, overlapped, faults>>

\* confirm_validated_spec: a new ready version of what the user has on screen.
CreateSpec(s) ==
    /\ pc[s] = "new"
    /\ \E t \in RunSpecs : wanted' = [wanted EXCEPT ![s] = t]
    /\ target' = [target EXCEPT ![s] = NextVersion]
    /\ Goto(s, "create_check")
    /\ UNCHANGED <<specs, version, draft, runVars, bundle, cancelVars, overlapped, faults>>

CheckCreate(s) == pc[s] = "create_check" /\ CheckFree(s, "create_write")

WriteCreate(s) ==
    /\ pc[s] = "create_write"
    /\ WriteSpec(s, [text |-> wanted[s], status |-> "ready", parent |-> target[s] - 1])
    /\ Goto(s, "confirm")
    /\ UNCHANGED <<target, draft, wanted, runVars, bundle, cancelVars, faults>>

\* Mutant: the newest version is confirmed, not the one that was created.
ConfirmNewest(s) ==
    /\ pc[s] = "confirm"
    /\ version' = [version EXCEPT ![s] = NextVersion - 1]
    /\ IF specs[NextVersion - 1].status = "confirmed"
       THEN Goto(s, "start") /\ UNCHANGED target
       ELSE Goto(s, "confirm_check") /\ target' = [target EXCEPT ![s] = NextVersion]
    /\ draft' = [draft EXCEPT ![s] = specs[NextVersion - 1].text]
    /\ UNCHANGED <<specs, wanted, runVars, bundle, cancelVars, overlapped, faults>>

\* confirm_spec_version: a version that is confirmed, or has a confirmed copy, is
\* not copied again.
Confirm(s) ==
    /\ pc[s] = "confirm"
    /\ LET copies == {v \in Versions : specs[v].status = "confirmed"
                                       /\ specs[v].parent = version[s]} IN
       \/ /\ specs[version[s]].status = "confirmed"
          /\ Goto(s, "start")
          /\ UNCHANGED <<version, target>>
       \/ /\ specs[version[s]].status = "ready" /\ copies # {}
          /\ version' = [version EXCEPT ![s] = CHOOSE v \in copies : \A u \in copies : v <= u]
          /\ Goto(s, "start")
          /\ UNCHANGED target
       \/ /\ specs[version[s]].status = "ready" /\ copies = {}
          /\ target' = [target EXCEPT ![s] = NextVersion]
          /\ Goto(s, "confirm_check")
          /\ UNCHANGED version
    /\ draft' = [draft EXCEPT ![s] = specs[version[s]].text]
    /\ UNCHANGED <<specs, wanted, runVars, bundle, cancelVars, overlapped, faults>>

CheckConfirm(s) == pc[s] = "confirm_check" /\ CheckFree(s, "confirm_write")

WriteConfirm(s) ==
    /\ pc[s] = "confirm_write"
    /\ WriteSpec(s, [text |-> draft[s], status |-> "confirmed", parent |-> version[s]])
    /\ Goto(s, "start")
    /\ UNCHANGED <<target, draft, wanted, runVars, bundle, cancelVars, faults>>

-----------------------------------------------------------------------------
(* repository.py, runs *)

\* start_run: execute_confirmed_run refuses what is not confirmed.
StartRun(s) ==
    /\ pc[s] = "start"
    /\ LET spec == specs[version[s]] IN
       IF spec.status = "confirmed"
       THEN /\ runs' = [runs EXCEPT ![s] = [text |-> spec.text, status |-> "running",
                                            revision |-> 1, provenance |-> FALSE]]
            /\ Goto(s, "compute") /\ UNCHANGED report
       ELSE /\ Close(s, "error") /\ UNCHANGED runs
    /\ UNCHANGED <<specVars, read, provenance, bundle, cancelVars, overlapped, faults>>

\* The calls between whose two steps a write of run r would fall.
WritingRun(r) ==
    (IF pc[r] \in {"complete_write", "fail_write", "attach_write"} THEN {r} ELSE {})
    \cup {c \in Cancellers : cpc[c] = "cancel_write" /\ cancelling[c] = r}

WriteRun(me, r, run) ==
    /\ runs' = [runs EXCEPT ![r] = run]
    /\ overlapped' = IF WritingRun(r) \ {me} = {} THEN overlapped ELSE overlapped \cup {"runs"}

\* Mutant: neither the revision nor a cancellation is looked at.
MayFinishCancelled(run, expected) == run.status \notin {"completed", "failed"}

\* _finish_run, before the write.
MayFinish(run, expected) == run.revision = expected /\ run.status = "running"

\* _finish_run, the record it writes.
Finished(run, status, withProvenance) ==
    [text |-> run.text, status |-> status, revision |-> run.revision + 1,
     provenance |-> withProvenance]

-----------------------------------------------------------------------------
(* orchestrator.py, execute_confirmed_run *)

\* run_experiment_to_bundle raises, or writes a bundle, which then is or is not
\* what was reported (_assert_readable_bundle_provenance).
Compute(s) ==
    /\ pc[s] = "compute"
    /\ \E outcome \in {"none", "readable", "unreadable"} :
          /\ bundle' = [bundle EXCEPT ![s] = outcome]
          /\ provenance' = [provenance EXCEPT ![s] = outcome # "none"]
          /\ Goto(s, IF outcome = "readable" THEN "complete" ELSE "finalize")
    /\ UNCHANGED <<specVars, runs, read, report, cancelVars, overlapped, faults>>

ReadRun(s) == read' = [read EXCEPT ![s] = runs[s]]

\* complete_run with the revision start_run returned.
Complete(s) ==
    /\ pc[s] = "complete"
    /\ ReadRun(s)
    /\ Goto(s, IF MayFinish(runs[s], 1) THEN "complete_write" ELSE "finalize")
    /\ UNCHANGED <<specVars, runs, provenance, report, bundle, cancelVars, overlapped, faults>>

WriteComplete(s) ==
    /\ pc[s] = "complete_write"
    /\ WriteRun(s, s, Finished(read[s], "completed", TRUE))
    /\ Close(s, "completed")
    /\ UNCHANGED <<specVars, read, provenance, bundle, cancelVars, faults>>

\* _write_json_atomic raises, before the record is replaced or after it, in the
\* fsync of the directory.
WriteCompleteFails(s) ==
    /\ pc[s] = "complete_write"
    /\ faults < MaxFaults /\ faults' = faults + 1
    /\ \/ UNCHANGED <<runs, overlapped>>
       \/ WriteRun(s, s, Finished(read[s], "completed", TRUE))
    /\ Goto(s, "finalize")
    /\ UNCHANGED <<specVars, read, provenance, report, bundle, cancelVars>>

\* Mutant: a cancelled run gets no provenance.
FinalizeNoAttach(s) ==
    /\ pc[s] = "finalize"
    /\ ReadRun(s)
    /\ \/ /\ runs[s].status = "cancelled"
          /\ Close(s, "cancelled")
       \/ /\ runs[s].status = "running"
          /\ Goto(s, "fail") /\ UNCHANGED report
       \/ /\ runs[s].status \in {"completed", "failed"}
          /\ Close(s, "failed")
    /\ UNCHANGED <<specVars, runs, provenance, bundle, cancelVars, overlapped, faults>>

\* _finalize_raced_or_failed_run
Finalize(s) ==
    /\ pc[s] = "finalize"
    /\ ReadRun(s)
    /\ \/ /\ runs[s].status = "cancelled"
          /\ IF provenance[s] /\ ~runs[s].provenance
             THEN Goto(s, "attach") /\ UNCHANGED report
             ELSE Close(s, "cancelled")
       \/ /\ runs[s].status = "running"
          /\ Goto(s, "fail") /\ UNCHANGED report
       \/ /\ runs[s].status \in {"completed", "failed"}
          /\ Close(s, "failed")
    /\ UNCHANGED <<specVars, runs, provenance, bundle, cancelVars, overlapped, faults>>

\* attach_cancelled_run_provenance; a conflict is not an error.
Attach(s) ==
    /\ pc[s] = "attach"
    /\ IF /\ runs[s].revision = read[s].revision
          /\ runs[s].status = "cancelled" /\ ~runs[s].provenance
       THEN Goto(s, "attach_write") /\ UNCHANGED report
       ELSE Close(s, "cancelled")
    /\ ReadRun(s)
    /\ UNCHANGED <<specVars, runs, provenance, bundle, cancelVars, overlapped, faults>>

WriteAttach(s) ==
    /\ pc[s] = "attach_write"
    /\ WriteRun(s, s, Finished(read[s], "cancelled", TRUE))
    /\ Close(s, "cancelled")
    /\ UNCHANGED <<specVars, read, provenance, bundle, cancelVars, faults>>

Fail(s) ==
    /\ pc[s] = "fail"
    /\ Goto(s, IF MayFinish(runs[s], read[s].revision) THEN "fail_write" ELSE "reread")
    /\ ReadRun(s)
    /\ UNCHANGED <<specVars, runs, provenance, report, bundle, cancelVars, overlapped, faults>>

WriteFail(s) ==
    /\ pc[s] = "fail_write"
    /\ WriteRun(s, s, Finished(read[s], "failed", FALSE))
    /\ Close(s, "failed")
    /\ UNCHANGED <<specVars, read, provenance, bundle, cancelVars, faults>>

\* Mutant: whoever got there first, the run is reported as failed.
RereadFailed(s) ==
    /\ pc[s] = "reread"
    /\ Close(s, "failed")
    /\ UNCHANGED <<specVars, runs, read, provenance, bundle, cancelVars, overlapped, faults>>

\* Lost to a cancellation: start over, otherwise report the failure.
Reread(s) ==
    /\ pc[s] = "reread"
    /\ IF runs[s].status = "cancelled"
       THEN Goto(s, "finalize") /\ UNCHANGED report
       ELSE Close(s, "failed")
    /\ UNCHANGED <<specVars, runs, read, provenance, bundle, cancelVars, overlapped, faults>>

\* The session dies; what it has written stays.
Crash(s) ==
    /\ faults < MaxFaults /\ faults' = faults + 1
    /\ pc[s] \notin {"new", "closed"}
    /\ Close(s, "none")
    /\ UNCHANGED <<specVars, runs, read, provenance, bundle, cancelVars, overlapped>>

-----------------------------------------------------------------------------
(* orchestrator.py, cancel_run *)

PressCancel(c, r) ==
    /\ cpc[c] = "idle"
    /\ runs[r].status # "absent"
    /\ cancelling' = [cancelling EXCEPT ![c] = r]
    /\ cread' = [cread EXCEPT ![c] = runs[r]]
    /\ cpc' = [cpc EXCEPT ![c] = "cancel"]
    /\ UNCHANGED <<specVars, runVars, bundle, pc, overlapped, faults>>

Leave(c) ==
    /\ cpc' = [cpc EXCEPT ![c] = "idle"]
    /\ cread' = [cread EXCEPT ![c] = AbsentRun]
    /\ cancelling' = [cancelling EXCEPT ![c] = NoRun]

\* The repository's cancel_run; a conflict or a run that is over is reported back.
Cancel(c) ==
    /\ cpc[c] = "cancel"
    /\ LET run == runs[cancelling[c]] IN
       IF MayFinish(run, cread[c].revision)
       THEN /\ cpc' = [cpc EXCEPT ![c] = "cancel_write"]
            /\ cread' = [cread EXCEPT ![c] = run]
            /\ UNCHANGED cancelling
       ELSE Leave(c)
    /\ UNCHANGED <<specVars, runVars, bundle, pc, overlapped, faults>>

WriteCancel(c) ==
    /\ cpc[c] = "cancel_write"
    /\ WriteRun(c, cancelling[c], Finished(cread[c], "cancelled", FALSE))
    /\ Leave(c)
    /\ UNCHANGED <<specVars, read, provenance, report, bundle, pc, faults>>

-----------------------------------------------------------------------------
Execute(s) ==
    \/ CreateSpec(s) \/ CheckCreate(s) \/ WriteCreate(s)
    \/ Confirm(s) \/ CheckConfirm(s) \/ WriteConfirm(s)
    \/ StartRun(s) \/ Compute(s) \/ Complete(s) \/ WriteComplete(s) \/ Finalize(s)
    \/ Attach(s) \/ WriteAttach(s) \/ Fail(s) \/ WriteFail(s) \/ Reread(s)

CancelStep(c) == Cancel(c) \/ WriteCancel(c)

Next ==
    \/ \E s \in Sessions : Execute(s) \/ WriteCompleteFails(s) \/ Crash(s)
    \/ \E c \in Cancellers : CancelStep(c) \/ \E r \in Sessions : PressCancel(c, r)

Spec == Init /\ [][Next]_vars

-----------------------------------------------------------------------------
(* Properties *)

\* A user who was told a run is cancelled finds it cancelled for good, whatever
\* the execution does later (_finalize_raced_or_failed_run, "without overturning
\* terminal cancel state").
CancelSticks ==
    [][\A s \in Sessions : runs[s].status = "cancelled" => runs'[s].status = "cancelled"]_vars

\* The same as long as no two repository calls overlap on a run.
CancelSticksApart ==
    [][\A s \in Sessions : runs[s].status = "cancelled" /\ "runs" \notin overlapped' =>
           runs'[s].status = "cancelled"]_vars

\* What the execution tells its user is what the record says, however it raced
\* with cancellations (OrchestrationResult.status); only a write that raised after
\* it had replaced the record makes a completed run look failed.
ReportsAgree ==
    "runs" \notin overlapped =>
        \A s \in Sessions : report[s] \in Terminal =>
            \/ runs[s].status = report[s]
            \/ faults > 0 /\ report[s] = "failed" /\ runs[s].status = "completed"

\* A bundle that was computed and read back can be found from the run, completed
\* or cancelled, unless the run is on record as failed (attach_cancelled_run_
\* provenance, "so the on-disk bundle remains discoverable"); and there is never a
\* completed run without a bundle that verifies, even when calls overlap.
NothingIsLost ==
    \A s \in Sessions :
        /\ /\ "runs" \notin overlapped
           /\ report[s] \in {"completed", "cancelled"} /\ bundle[s] = "readable"
           => runs[s].provenance
        /\ runs[s].status = "completed" => runs[s].provenance /\ bundle[s] = "readable"

\* What runs is what its own user confirmed, however sessions interleave and number
\* their versions.
RunsWhatWasConfirmed ==
    "specs" \notin overlapped =>
        \A s \in Sessions : runs[s].status # "absent" => runs[s].text = wanted[s]

=============================================================================
