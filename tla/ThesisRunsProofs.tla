---------------------------- MODULE ThesisRunsProofs ----------------------------
(***************************************************************************)
(* What a run of a thesis promises, for any number of sessions, users who  *)
(* cancel, and faults: what the record, the report and the bundle have to  *)
(* do with one another.                                                    *)
(***************************************************************************)
EXTENDS ThesisRuns, FiniteSetTheorems, TLAPS

Early == {"new", "create_check", "create_write", "confirm", "confirm_check", "confirm_write", "start"}
Past  == {"finalize", "attach", "attach_write", "reread", "fail", "fail_write", "closed"}

\* Whoever overlaps: a run is not started twice, and a completed one has its bundle; the
\* session that completed it knows, or was let down by the disk.
Progress(s) ==
    /\ pc[s] \in Early => runs[s].status = "absent"
    /\ runs[s].status = "completed" =>
          pc[s] \in Past /\ runs[s].provenance /\ bundle[s] = "readable"
    /\ runs[s].status = "completed" /\ pc[s] # "closed" => faults > 0
    /\ pc[s] \in {"complete", "complete_write"} => bundle[s] = "readable"
    /\ bundle[s] = "readable" => provenance[s]
    /\ report[s] # "none" => pc[s] = "closed"

Quiet == "runs" \notin overlapped

\* While calls do not overlap, what a session has read is what it will replace.
ReadIsCurrent(s) ==
    /\ pc[s] \in {"complete_write", "fail_write"} => runs[s] = read[s] /\ runs[s].status = "running"
    /\ pc[s] \in {"attach", "attach_write"} =>
          runs[s] = read[s] /\ runs[s].status = "cancelled" /\ ~runs[s].provenance
    /\ pc[s] = "fail" => \/ runs[s] = read[s] /\ runs[s].status = "running"
                         \/ runs[s].status = "cancelled"
    /\ pc[s] = "reread" => runs[s].status = "cancelled"

Agrees(s) ==
    /\ report[s] \in Terminal =>
          \/ runs[s].status = report[s]
          \/ faults > 0 /\ report[s] = "failed" /\ runs[s].status = "completed"
    /\ report[s] \in {"completed", "cancelled"} /\ bundle[s] = "readable" => runs[s].provenance

CancelsRun(c) ==
    cpc[c] # "idle" => cancelling[c] \in Sessions /\ runs[cancelling[c]].status # "absent"

CancelIsCurrent(c) ==
    cpc[c] = "cancel_write" =>
        cread[c] = runs[cancelling[c]] /\ runs[cancelling[c]].status = "running"

IInv ==
    /\ TypeOK
    /\ \A c \in Cancellers : CancelsRun(c)
    /\ \A s \in Sessions : Progress(s)
    /\ Quiet => /\ \A s \in Sessions : ReadIsCurrent(s) /\ Agrees(s)
                /\ \A c \in Cancellers : CancelIsCurrent(c)

-----------------------------------------------------------------------------
LEMMA FinishedRun ==
    ASSUME NEW r, IsRun(r), NEW status \in Terminal, NEW p \in BOOLEAN
    PROVE  /\ IsRun(Finished(r, status, p))
           /\ Finished(r, status, p).status = status
           /\ Finished(r, status, p).provenance = p
<1>1. Finished(r, status, p) = [text |-> r.text, status |-> status, revision |-> r.revision + 1, provenance |-> p]
  BY DEF Finished
<1> QED
  BY <1>1 DEF IsRun, Statuses

LEMMA StartedRun ==
    ASSUME NEW t
    PROVE  LET r == [text |-> t, status |-> "running", revision |-> 1, provenance |-> FALSE]
           IN  IsRun(r) /\ r.status = "running"
  BY DEF IsRun, Statuses

\* All that a step of session s has to do with anybody else.
Others(s) ==
    /\ \A r \in Sessions \ {s} :
          /\ runs'[r] = runs[r] /\ read'[r] = read[r] /\ pc'[r] = pc[r] /\ report'[r] = report[r]
          /\ bundle'[r] = bundle[r] /\ provenance'[r] = provenance[r]
    /\ UNCHANGED cancelVars
    /\ faults' \in Nat /\ faults' >= faults
    /\ Quiet' => Quiet
    /\ runs[s].status # "absent" => runs'[s].status # "absent"
    /\ Quiet' => \/ runs'[s] = runs[s]
                 \/ \A c \in Cancellers : ~(cpc[c] = "cancel_write" /\ cancelling[c] = s)

LEMMA SessionStep ==
    ASSUME IInv, NEW s \in Sessions, Others(s), TypeOK', Progress(s)',
           Quiet' => (ReadIsCurrent(s) /\ Agrees(s))'
    PROVE  IInv'
<1>1. ASSUME NEW r \in Sessions PROVE Progress(r)'
  <2>1. CASE r # s
    BY <2>1 DEF Others, IInv, Progress, TypeOK
  <2> QED
    BY <2>1
<1>2. ASSUME Quiet', NEW r \in Sessions PROVE ReadIsCurrent(r)' /\ Agrees(r)'
  <2>1. CASE r # s
    BY <1>2, <2>1 DEF Others, IInv, ReadIsCurrent, Agrees, TypeOK
  <2> QED
    BY <1>2, <2>1
<1>3. ASSUME Quiet', NEW c \in Cancellers PROVE CancelIsCurrent(c)'
  <2>1. CASE cpc[c] = "cancel_write"
    <3>1. CancelIsCurrent(c) /\ cancelling[c] \in Sessions
      BY <1>3, <2>1 DEF Others, IInv, CancelsRun
    <3>2. runs'[cancelling[c]] = runs[cancelling[c]]
      BY <1>3, <2>1, <3>1 DEF Others
    <3> QED
      BY <3>1, <3>2 DEF CancelIsCurrent, Others, cancelVars
  <2> QED
    BY <2>1 DEF CancelIsCurrent, Others, cancelVars
<1>4. ASSUME NEW c \in Cancellers PROVE CancelsRun(c)'
  BY DEF IInv, Others, cancelVars, CancelsRun
<1> QED
  BY <1>1, <1>2, <1>3, <1>4 DEF IInv

-----------------------------------------------------------------------------
LEMMA Moves ==
    ASSUME TypeOK, NEW s \in Sessions, NEW l \in Labels, Goto(s, l)
    PROVE  /\ pc' \in [Sessions -> Labels] /\ pc'[s] = l
           /\ \A r \in Sessions : r # s => pc'[r] = pc[r]
  BY DEF TypeOK, Goto

LEMMA Closes ==
    ASSUME TypeOK, NEW s \in Sessions, NEW x \in {"none", "error"} \cup Terminal, Close(s, x)
    PROVE  /\ pc' \in [Sessions -> Labels] /\ pc'[s] = "closed"
           /\ report' \in [Sessions -> {"none", "error"} \cup Terminal] /\ report'[s] = x
           /\ \A r \in Sessions : r # s => pc'[r] = pc[r] /\ report'[r] = report[r]
<1>1. Goto(s, "closed") /\ "closed" \in Labels
  BY DEF Close, Labels
<1> QED
  BY <1>1, Moves DEF TypeOK, Close

LEMMA Reads ==
    ASSUME TypeOK, NEW s \in Sessions, ReadRun(s)
    PROVE  /\ DOMAIN read' = Sessions /\ read'[s] = runs[s] /\ \A r \in Sessions : IsRun(read'[r])
           /\ \A r \in Sessions : r # s => read'[r] = read[r]
  BY DEF TypeOK, ReadRun

\* A step that leaves the records alone.
LEMMA NoWriteStep ==
    ASSUME IInv, NEW s \in Sessions, UNCHANGED <<runs, cancelVars, overlapped>>,
           pc' \in [Sessions -> Labels],
           report' \in [Sessions -> {"none", "error"} \cup Terminal],
           bundle' \in [Sessions -> {"none", "readable", "unreadable"}],
           provenance' \in [Sessions -> BOOLEAN],
           DOMAIN read' = Sessions, \A r \in Sessions : IsRun(read'[r]),
           faults' \in Nat, faults' >= faults,
           \A r \in Sessions : r # s =>
              /\ read'[r] = read[r] /\ pc'[r] = pc[r] /\ report'[r] = report[r]
              /\ bundle'[r] = bundle[r] /\ provenance'[r] = provenance[r],
           Progress(s)', Quiet => (ReadIsCurrent(s) /\ Agrees(s))'
    PROVE  IInv'
<1>1. TypeOK'
  BY DEF IInv, TypeOK, cancelVars
<1>2. Others(s)
  BY DEF Others, Quiet
<1>3. Quiet' => Quiet
  BY DEF Quiet
<1> QED
  BY <1>1, <1>2, <1>3, SessionStep

\* A step of confirm_validated_spec or confirm_spec_version, as a run sees it.
SpecMove(s, l) ==
    /\ pc[s] \in Early /\ Goto(s, l)
    /\ UNCHANGED report \/ (l = "closed" /\ report' = [report EXCEPT ![s] = "error"])
    /\ UNCHANGED <<runs, read, provenance, bundle, cancelVars, faults>>
    /\ "runs" \in overlapped <=> "runs" \in overlapped'

LEMMA SpecStep ==
    ASSUME IInv, NEW s \in Sessions, NEW l \in Early \cup {"closed"}, SpecMove(s, l)
    PROVE  IInv'
<1> USE DEF SpecMove
<1>1. pc' \in [Sessions -> Labels] /\ pc'[s] = l /\ \A r \in Sessions : r # s => pc'[r] = pc[r]
  <2>1. l \in Labels
    BY DEF Early, Labels
  <2> QED
    BY <2>1, Moves DEF IInv
<1>2. /\ report' \in [Sessions -> {"none", "error"} \cup Terminal]
      /\ \A r \in Sessions : r # s => report'[r] = report[r]
      /\ report'[s] \in {"none", "error"}
      /\ report'[s] # "none" => l = "closed"
  BY DEF IInv, TypeOK, Progress, Early
<1>3. runs[s].status = "absent"
  BY DEF IInv, Progress
<1>4. TypeOK'
  BY <1>1, <1>2 DEF IInv, TypeOK, cancelVars
<1>5. Others(s)
  BY <1>1, <1>2 DEF IInv, TypeOK, Others, Quiet
<1>6. Progress(s)'
  BY <1>1, <1>2, <1>3 DEF IInv, Progress, Early, Past
<1>7. (ReadIsCurrent(s) /\ Agrees(s))'
  BY <1>1, <1>2, <1>3 DEF ReadIsCurrent, Agrees, Early, Terminal
<1> QED
  BY <1>4, <1>5, <1>6, <1>7, SessionStep

LEMMA SpecActions ==
    ASSUME IInv, NEW s \in Sessions,
           \/ CreateSpec(s) \/ CheckCreate(s) \/ WriteCreate(s)
           \/ Confirm(s) \/ CheckConfirm(s) \/ WriteConfirm(s)
    PROVE  IInv'
<1> USE DEF SpecMove, Early, specVars, runVars
<1>1. CASE CreateSpec(s)
  <2> SpecMove(s, "create_check")
    BY <1>1 DEF CreateSpec
  <2> QED
    BY SpecStep
<1>2. ASSUME NEW l, pc[s] \in Early, CheckFree(s, l) PROVE SpecMove(s, l) \/ SpecMove(s, "closed")
  BY <1>2 DEF CheckFree, Close
<1>3. CASE CheckCreate(s) \/ CheckConfirm(s)
  <2> SpecMove(s, "create_write") \/ SpecMove(s, "confirm_write") \/ SpecMove(s, "closed")
    BY <1>2, <1>3 DEF CheckCreate, CheckConfirm
  <2> QED
    BY SpecStep
<1>4. ASSUME NEW t, WriteSpec(s, t) PROVE "runs" \in overlapped <=> "runs" \in overlapped'
  BY <1>4 DEF WriteSpec
<1>5. CASE WriteCreate(s) \/ WriteConfirm(s)
  <2> SpecMove(s, "confirm") \/ SpecMove(s, "start")
    BY <1>4, <1>5 DEF WriteCreate, WriteConfirm
  <2> QED
    BY SpecStep
<1>6. CASE Confirm(s)
  <2> SpecMove(s, "start") \/ SpecMove(s, "confirm_check")
    BY <1>6 DEF Confirm
  <2> QED
    BY SpecStep
<1> QED
  BY <1>1, <1>3, <1>5, <1>6

-----------------------------------------------------------------------------
LEMMA QuietWrite ==
    ASSUME NEW me, NEW r, NEW run, WriteRun(me, r, run), Quiet'
    PROVE  Quiet /\ WritingRun(r) \subseteq {me}
<1>1. WritingRun(r) \ {me} = {}
  BY DEF WriteRun, Quiet
<1> QED
  BY <1>1 DEF WriteRun, Quiet

LEMMA WriteStep ==
    ASSUME IInv, NEW s \in Sessions, NEW run, IsRun(run), run.status # "absent",
           WriteRun(s, s, run), UNCHANGED <<read, provenance, bundle, cancelVars>>,
           pc' \in [Sessions -> Labels],
           report' \in [Sessions -> {"none", "error"} \cup Terminal],
           faults' \in Nat, faults' >= faults,
           \A r \in Sessions : r # s => pc'[r] = pc[r] /\ report'[r] = report[r],
           Progress(s)', Quiet => (ReadIsCurrent(s) /\ Agrees(s))'
    PROVE  IInv'
<1>1. /\ DOMAIN runs' = Sessions /\ runs'[s] = run
      /\ \A r \in Sessions : r # s => runs'[r] = runs[r]
  BY DEF IInv, TypeOK, WriteRun
<1>2. TypeOK'
  BY <1>1 DEF IInv, TypeOK, cancelVars
<1>3. Quiet' => Quiet /\ \A c \in Cancellers : ~(cpc[c] = "cancel_write" /\ cancelling[c] = s)
  BY QuietWrite, ActorsAssumption DEF WritingRun
<1>4. Others(s)
  BY <1>1, <1>3 DEF Others
<1> QED
  BY <1>2, <1>3, <1>4, SessionStep

\* The record a step of s writes, as IInv sees it.
LEMMA Written ==
    ASSUME IInv, NEW s \in Sessions, NEW run, WriteRun(s, s, run)
    PROVE  runs'[s] = run
  BY DEF IInv, TypeOK, WriteRun

LEMMA StartStep == ASSUME IInv, NEW s \in Sessions, StartRun(s) PROVE IInv'
<1> DEFINE run == [text |-> specs[version[s]].text, status |-> "running", revision |-> 1,
                   provenance |-> FALSE]
<1>1. CASE specs[version[s]].status = "confirmed"
  <2>1. IsRun(run) /\ run.status = "running"
    BY StartedRun
  <2>2. runs' = [runs EXCEPT ![s] = run] /\ Goto(s, "compute") /\ "compute" \in Labels
    BY <1>1 DEF StartRun, Labels
  <2> HIDE DEF run
  <2>3. /\ DOMAIN runs' = Sessions /\ runs'[s] = run
        /\ \A r \in Sessions : r # s => runs'[r] = runs[r]
    BY <2>2 DEF IInv, TypeOK
  <2>4. /\ pc' \in [Sessions -> Labels] /\ pc'[s] = "compute"
        /\ \A r \in Sessions : r # s => pc'[r] = pc[r]
    BY <2>2, Moves DEF IInv
  <2>5. /\ UNCHANGED <<read, provenance, bundle, report, cancelVars, overlapped, faults>>
        /\ pc[s] = "start" /\ runs[s].status = "absent"
    BY <1>1 DEF StartRun, IInv, Progress, Early
  <2>6. TypeOK'
    BY <2>1, <2>3, <2>4, <2>5 DEF IInv, TypeOK, cancelVars
  <2>7. Quiet => \A c \in Cancellers : ~(cpc[c] = "cancel_write" /\ cancelling[c] = s)
    BY <2>5 DEF IInv, CancelIsCurrent
  <2>8. Others(s)
    BY <2>3, <2>4, <2>5, <2>7 DEF Others, IInv, TypeOK, Quiet
  <2>9. Progress(s)'
    BY <2>1, <2>3, <2>4, <2>5 DEF IInv, Progress, Early
  <2>10. (ReadIsCurrent(s) /\ Agrees(s))'
    BY <2>4, <2>5 DEF IInv, Progress, ReadIsCurrent, Agrees, Terminal
  <2> QED
    BY <2>6, <2>8, <2>9, <2>10, SessionStep
<1>2. CASE specs[version[s]].status # "confirmed"
  <2> SpecMove(s, "closed")
    BY <1>2 DEF StartRun, Close, SpecMove, Early
  <2> QED
    BY SpecStep
<1> QED
  BY <1>1, <1>2

LEMMA ComputeStep == ASSUME IInv, NEW s \in Sessions, Compute(s) PROVE IInv'
<1> PICK outcome \in {"none", "readable", "unreadable"} :
         /\ bundle' = [bundle EXCEPT ![s] = outcome]
         /\ provenance' = [provenance EXCEPT ![s] = outcome # "none"]
         /\ Goto(s, IF outcome = "readable" THEN "complete" ELSE "finalize")
  BY DEF Compute
<1>1. /\ pc' \in [Sessions -> Labels]
      /\ pc'[s] = IF outcome = "readable" THEN "complete" ELSE "finalize"
      /\ \A r \in Sessions : r # s => pc'[r] = pc[r]
  BY Moves DEF IInv, Labels
<1>2. /\ bundle' \in [Sessions -> {"none", "readable", "unreadable"}] /\ bundle'[s] = outcome
      /\ \A r \in Sessions : r # s => bundle'[r] = bundle[r]
  BY DEF IInv, TypeOK
<1>3. provenance' \in [Sessions -> BOOLEAN]
  <2>1. (outcome # "none") \in BOOLEAN
    OBVIOUS
  <2>2. provenance \in [Sessions -> BOOLEAN]
    BY DEF IInv, TypeOK
  <2> QED
    BY <2>1, <2>2
<1>4. (outcome = "readable" => provenance'[s]) /\ \A r \in Sessions : r # s => provenance'[r] = provenance[r]
  BY DEF IInv, TypeOK
<1>5. UNCHANGED <<runs, read, report, cancelVars, overlapped, faults>> /\ pc[s] = "compute"
  BY DEF Compute
<1>6. runs[s].status # "completed" /\ report[s] = "none"
  BY <1>5 DEF IInv, Progress, Past
<1>7. Progress(s)'
  BY <1>1, <1>2, <1>4, <1>5, <1>6 DEF Progress, Early
<1>8. (ReadIsCurrent(s) /\ Agrees(s))'
  BY <1>1, <1>5, <1>6 DEF ReadIsCurrent, Agrees, Terminal
<1> QED
  BY <1>1, <1>2, <1>3, <1>4, <1>5, <1>7, <1>8, NoWriteStep DEF IInv, TypeOK

\* A step of s that reads its record, or not, and decides where to go.
LEMMA DecideStep ==
    ASSUME IInv, NEW s \in Sessions, NEW l \in Labels, Goto(s, l),
           ReadRun(s) \/ UNCHANGED read,
           UNCHANGED <<runs, provenance, report, bundle, cancelVars, overlapped, faults>>,
           Progress(s)', Quiet => (ReadIsCurrent(s) /\ Agrees(s))'
    PROVE  IInv'
<1>1. pc' \in [Sessions -> Labels] /\ \A r \in Sessions : r # s => pc'[r] = pc[r]
  BY Moves DEF IInv
<1>2. /\ DOMAIN read' = Sessions /\ \A r \in Sessions : IsRun(read'[r])
      /\ \A r \in Sessions : r # s => read'[r] = read[r]
  BY Reads DEF IInv, TypeOK
<1> QED
  BY <1>1, <1>2, NoWriteStep DEF IInv, TypeOK

\* A step of s that tells its user, or dies.
LEMMA CloseStep ==
    ASSUME IInv, NEW s \in Sessions, NEW x \in {"none"} \cup Terminal, Close(s, x),
           ReadRun(s) \/ UNCHANGED read,
           UNCHANGED <<runs, provenance, bundle, cancelVars, overlapped>>,
           faults' \in Nat, faults' >= faults,
           Progress(s)', Quiet => (ReadIsCurrent(s) /\ Agrees(s))'
    PROVE  IInv'
<1>1. /\ pc' \in [Sessions -> Labels] /\ \A r \in Sessions : r # s => pc'[r] = pc[r]
      /\ report' \in [Sessions -> {"none", "error"} \cup Terminal]
      /\ \A r \in Sessions : r # s => report'[r] = report[r]
  BY Closes DEF IInv
<1>2. /\ DOMAIN read' = Sessions /\ \A r \in Sessions : IsRun(read'[r])
      /\ \A r \in Sessions : r # s => read'[r] = read[r]
  BY Reads DEF IInv, TypeOK
<1> QED
  BY <1>1, <1>2, NoWriteStep DEF IInv, TypeOK

LEMMA CompleteStep == ASSUME IInv, NEW s \in Sessions, Complete(s) PROVE IInv'
<1> DEFINE l == IF MayFinish(runs[s], 1) THEN "complete_write" ELSE "finalize"
<1>1. /\ pc[s] = "complete" /\ l \in Labels /\ Goto(s, l) /\ ReadRun(s)
      /\ UNCHANGED <<runs, provenance, report, bundle, cancelVars, overlapped, faults>>
  BY DEF Complete, Labels
<1>2. pc'[s] = l /\ read'[s] = runs[s]
  BY <1>1, Moves, Reads DEF IInv
<1>3. Progress(s) /\ runs[s].status # "completed" /\ report[s] = "none"
  BY <1>1 DEF IInv, Progress, Past
<1>4. Progress(s)'
  BY <1>1, <1>2, <1>3 DEF Progress, Early
<1>5. (ReadIsCurrent(s) /\ Agrees(s))'
  BY <1>1, <1>2, <1>3 DEF ReadIsCurrent, Agrees, Terminal, MayFinish
<1> HIDE DEF l
<1> QED
  BY <1>1, <1>4, <1>5, DecideStep DEF IInv, TypeOK

LEMMA FinalizeStep == ASSUME IInv, NEW s \in Sessions, Finalize(s) PROVE IInv'
<1>1. /\ pc[s] = "finalize" /\ ReadRun(s) /\ read'[s] = runs[s]
      /\ UNCHANGED <<runs, provenance, bundle, cancelVars, overlapped, faults>>
  BY Reads DEF Finalize, IInv
<1>2. Progress(s) /\ report[s] = "none" /\ (runs[s].status = "completed" => faults > 0)
  BY <1>1 DEF IInv, Progress
<1>3. ASSUME NEW l \in {"attach", "fail"}, Goto(s, l), UNCHANGED report,
             l = "attach" => runs[s].status = "cancelled" /\ ~runs[s].provenance,
             l = "fail" => runs[s].status = "running"
      PROVE  IInv'
  <2>1. l \in Labels /\ pc'[s] = l
    BY <1>3, Moves DEF IInv, Labels
  <2>2. Progress(s)'
    BY <1>1, <1>2, <1>3, <2>1 DEF Progress, Early, Past
  <2>3. (ReadIsCurrent(s) /\ Agrees(s))'
    BY <1>1, <1>2, <1>3, <2>1 DEF ReadIsCurrent, Agrees, Terminal
  <2> QED
    BY <1>1, <1>3, <2>1, <2>2, <2>3, DecideStep DEF IInv, TypeOK
<1>4. ASSUME NEW x \in {"cancelled", "failed"}, Close(s, x),
             x = "cancelled" => runs[s].status = "cancelled" /\ (provenance[s] => runs[s].provenance),
             x = "failed" => runs[s].status \in {"completed", "failed"}
      PROVE  IInv'
  <2>1. x \in Terminal /\ "closed" \in Labels
    BY DEF Terminal, Labels
  <2>2. pc'[s] = "closed" /\ report'[s] = x
    BY <1>4, <2>1, Closes DEF IInv
  <2>3. Progress(s)'
    BY <1>1, <1>2, <2>2 DEF Progress, Early, Past
  <2>4. (ReadIsCurrent(s) /\ Agrees(s))'
    BY <1>1, <1>2, <1>4, <2>2 DEF ReadIsCurrent, Agrees, Terminal, Progress
  <2> QED
    BY <1>1, <1>4, <2>1, <2>3, <2>4, CloseStep DEF IInv, TypeOK
<1> QED
  BY <1>3, <1>4 DEF Finalize

LEMMA AttachStep == ASSUME IInv, NEW s \in Sessions, Attach(s) PROVE IInv'
<1>1. /\ pc[s] = "attach" /\ ReadRun(s) /\ read'[s] = runs[s]
      /\ UNCHANGED <<runs, provenance, bundle, cancelVars, overlapped, faults>>
  BY Reads DEF Attach, IInv
<1>2. Progress(s) /\ report[s] = "none" /\ (Quiet => ReadIsCurrent(s))
  BY <1>1 DEF IInv, Progress
<1>3. CASE Goto(s, "attach_write") /\ runs[s].status = "cancelled" /\ ~runs[s].provenance /\ UNCHANGED report
  <2>1. "attach_write" \in Labels /\ pc'[s] = "attach_write"
    BY <1>3, Moves DEF IInv, Labels
  <2>2. Progress(s)'
    BY <1>1, <1>2, <1>3, <2>1 DEF Progress, Early, Past
  <2>3. (ReadIsCurrent(s) /\ Agrees(s))'
    BY <1>1, <1>2, <1>3, <2>1 DEF ReadIsCurrent, Agrees, Terminal
  <2> QED
    BY <1>1, <1>3, <2>1, <2>2, <2>3, DecideStep DEF IInv, TypeOK
<1>4. CASE Close(s, "cancelled") /\ ~Quiet
  <2>1. "cancelled" \in Terminal /\ "closed" \in Labels
    BY DEF Terminal, Labels
  <2>2. pc'[s] = "closed" /\ report'[s] = "cancelled"
    BY <1>4, <2>1, Closes DEF IInv
  <2>3. Progress(s)'
    BY <1>1, <1>2, <2>2 DEF Progress, Early, Past
  <2> QED
    BY <1>1, <1>4, <2>1, <2>3, CloseStep DEF IInv, TypeOK
<1>5. Quiet => runs[s] = read[s] /\ runs[s].status = "cancelled" /\ ~runs[s].provenance
  BY <1>1, <1>2 DEF ReadIsCurrent
<1> QED
  BY <1>3, <1>4, <1>5 DEF Attach

LEMMA FailStep == ASSUME IInv, NEW s \in Sessions, Fail(s) PROVE IInv'
<1> DEFINE l == IF MayFinish(runs[s], read[s].revision) THEN "fail_write" ELSE "reread"
<1>1. /\ pc[s] = "fail" /\ l \in Labels /\ Goto(s, l) /\ ReadRun(s)
      /\ UNCHANGED <<runs, provenance, report, bundle, cancelVars, overlapped, faults>>
  BY DEF Fail, Labels
<1>2. pc'[s] = l /\ read'[s] = runs[s]
  BY <1>1, Moves, Reads DEF IInv
<1>3. Progress(s) /\ report[s] = "none" /\ (Quiet => ReadIsCurrent(s))
  BY <1>1 DEF IInv, Progress
<1>4. Progress(s)'
  BY <1>1, <1>2, <1>3 DEF Progress, Early, Past
<1>5. Quiet => (ReadIsCurrent(s) /\ Agrees(s))'
  BY <1>1, <1>2, <1>3 DEF ReadIsCurrent, Agrees, Terminal, MayFinish
<1> HIDE DEF l
<1> QED
  BY <1>1, <1>4, <1>5, DecideStep DEF IInv, TypeOK

LEMMA RereadStep == ASSUME IInv, NEW s \in Sessions, Reread(s) PROVE IInv'
<1>1. /\ pc[s] = "reread"
      /\ UNCHANGED <<runs, read, provenance, bundle, cancelVars, overlapped, faults>>
  BY DEF Reread
<1>2. Progress(s) /\ report[s] = "none" /\ (Quiet => runs[s].status = "cancelled")
  BY <1>1 DEF IInv, Progress, ReadIsCurrent
<1>3. CASE Goto(s, "finalize") /\ UNCHANGED report
  <2>1. "finalize" \in Labels /\ pc'[s] = "finalize"
    BY <1>3, Moves DEF IInv, Labels
  <2>2. Progress(s)'
    BY <1>1, <1>2, <1>3, <2>1 DEF Progress, Early, Past
  <2>3. (ReadIsCurrent(s) /\ Agrees(s))'
    BY <1>1, <1>2, <1>3, <2>1 DEF ReadIsCurrent, Agrees, Terminal
  <2> QED
    BY <1>1, <1>3, <2>1, <2>2, <2>3, DecideStep DEF IInv, TypeOK
<1>4. CASE Close(s, "failed") /\ ~Quiet
  <2>1. "failed" \in Terminal /\ "closed" \in Labels
    BY DEF Terminal, Labels
  <2>2. pc'[s] = "closed" /\ report'[s] = "failed"
    BY <1>4, <2>1, Closes DEF IInv
  <2>3. Progress(s)'
    BY <1>1, <1>2, <2>2 DEF Progress, Early, Past
  <2> QED
    BY <1>1, <1>4, <2>1, <2>3, CloseStep DEF IInv, TypeOK
<1> QED
  BY <1>2, <1>3, <1>4 DEF Reread

LEMMA CrashStep == ASSUME IInv, NEW s \in Sessions, Crash(s) PROVE IInv'
<1>1. /\ Close(s, "none") /\ pc'[s] = "closed" /\ report'[s] = "none" /\ "closed" \in Labels
      /\ UNCHANGED <<runs, read, provenance, bundle, cancelVars, overlapped>>
      /\ faults' \in Nat /\ faults' >= faults
  BY Closes DEF Crash, IInv, TypeOK, Labels
<1>2. Progress(s)'
  BY <1>1 DEF IInv, Progress, Early, Past
<1>3. (ReadIsCurrent(s) /\ Agrees(s))'
  BY <1>1 DEF ReadIsCurrent, Agrees, Terminal
<1> QED
  BY <1>1, <1>2, <1>3, CloseStep

LEMMA WriteCompleteStep ==
    ASSUME IInv, NEW s \in Sessions, WriteComplete(s) \/ WriteCompleteFails(s)
    PROVE  IInv'
<1> DEFINE run == Finished(read[s], "completed", TRUE)
<1>1. IsRun(run) /\ run.status = "completed" /\ run.provenance = TRUE
  BY FinishedRun DEF IInv, TypeOK, Terminal
<1>2. /\ pc[s] = "complete_write" /\ UNCHANGED <<read, provenance, bundle, cancelVars>>
      /\ bundle[s] = "readable" /\ provenance[s] /\ report[s] = "none"
  BY DEF WriteComplete, WriteCompleteFails, IInv, Progress
<1>3. CASE WriteComplete(s)
  <2>1. WriteRun(s, s, run) /\ Close(s, "completed") /\ "completed" \in Terminal /\ UNCHANGED faults
    BY <1>3 DEF WriteComplete, Terminal
  <2> HIDE DEF run
  <2>2. /\ pc' \in [Sessions -> Labels] /\ pc'[s] = "closed"
        /\ report' \in [Sessions -> {"none", "error"} \cup Terminal] /\ report'[s] = "completed"
        /\ \A r \in Sessions : r # s => pc'[r] = pc[r] /\ report'[r] = report[r]
    BY <2>1, Closes DEF IInv
  <2>3. runs'[s] = run
    BY <2>1, Written
  <2>4. Progress(s)'
    BY <1>1, <1>2, <2>2, <2>3 DEF Progress, Early, Past
  <2>5. (ReadIsCurrent(s) /\ Agrees(s))'
    BY <1>1, <2>2, <2>3 DEF ReadIsCurrent, Agrees
  <2> QED
    BY <1>1, <1>2, <2>1, <2>2, <2>4, <2>5, WriteStep DEF IInv, TypeOK
<1>4. ASSUME WriteCompleteFails(s) PROVE IInv'
  <2>1. /\ Goto(s, "finalize") /\ "finalize" \in Labels /\ UNCHANGED report
        /\ faults' = faults + 1 /\ faults \in Nat
    BY <1>4 DEF WriteCompleteFails, Labels, IInv, TypeOK
  <2>2. /\ pc' \in [Sessions -> Labels] /\ pc'[s] = "finalize"
        /\ \A r \in Sessions : r # s => pc'[r] = pc[r]
    BY <2>1, Moves DEF IInv
  <2>3. (ReadIsCurrent(s) /\ Agrees(s))'
    BY <1>2, <2>1, <2>2 DEF ReadIsCurrent, Agrees, Terminal
  <2>4. CASE UNCHANGED <<runs, overlapped>>
    <3>1. Progress(s)'
      BY <1>2, <2>1, <2>2, <2>4 DEF IInv, Progress, Early, Past
    <3> QED
      BY <1>2, <2>1, <2>2, <2>3, <2>4, <3>1, NoWriteStep DEF IInv, TypeOK
  <2>5. CASE WriteRun(s, s, run)
    <3> HIDE DEF run
    <3>1. runs'[s] = run
      BY <2>5, Written
    <3>2. Progress(s)'
      BY <1>1, <1>2, <2>1, <2>2, <3>1 DEF Progress, Early, Past
    <3> QED
      BY <1>1, <1>2, <2>1, <2>2, <2>3, <2>5, <3>2, WriteStep DEF IInv, TypeOK
  <2> QED
    BY <1>4, <2>4, <2>5 DEF WriteCompleteFails
<1> QED
  BY <1>3, <1>4

LEMMA WriteOutcomeStep ==
    ASSUME IInv, NEW s \in Sessions, NEW x \in {"cancelled", "failed"}, NEW p \in BOOLEAN,
           pc[s] \in {"attach_write", "fail_write"}, x = "cancelled" => p,
           WriteRun(s, s, Finished(read[s], x, p)), Close(s, x),
           UNCHANGED <<read, provenance, bundle, cancelVars, faults>>
    PROVE  IInv'
<1> DEFINE run == Finished(read[s], x, p)
<1>1. x \in Terminal
  BY DEF Terminal
<1>2. IsRun(run) /\ run.status = x /\ run.provenance = p
  BY <1>1, FinishedRun DEF IInv, TypeOK
<1>3. /\ pc' \in [Sessions -> Labels] /\ pc'[s] = "closed"
      /\ report' \in [Sessions -> {"none", "error"} \cup Terminal] /\ report'[s] = x
      /\ \A r \in Sessions : r # s => pc'[r] = pc[r] /\ report'[r] = report[r]
  BY <1>1, Closes DEF IInv
<1>4. WriteRun(s, s, run)
  OBVIOUS
<1> HIDE DEF run
<1>5. runs'[s] = run
  BY <1>4, Written
<1>6. Progress(s)'
  BY <1>2, <1>3, <1>5 DEF IInv, Progress, Early, Past
<1>7. (ReadIsCurrent(s) /\ Agrees(s))'
  BY <1>2, <1>3, <1>5 DEF ReadIsCurrent, Agrees
<1> QED
  BY <1>2, <1>3, <1>4, <1>6, <1>7, WriteStep DEF IInv, TypeOK

LEMMA WriteAttachStep == ASSUME IInv, NEW s \in Sessions, WriteAttach(s) PROVE IInv'
  BY WriteOutcomeStep DEF WriteAttach

LEMMA WriteFailStep == ASSUME IInv, NEW s \in Sessions, WriteFail(s) PROVE IInv'
  BY WriteOutcomeStep DEF WriteFail

LEMMA ExecuteStep ==
    ASSUME IInv, NEW s \in Sessions, Execute(s) \/ WriteCompleteFails(s) \/ Crash(s)
    PROVE  IInv'
  BY SpecActions, StartStep, ComputeStep, CompleteStep, WriteCompleteStep, FinalizeStep, AttachStep,
     WriteAttachStep, FailStep, WriteFailStep, RereadStep, CrashStep DEF Execute

-----------------------------------------------------------------------------
\* A step of canceller c that writes nothing.
LEMMA CancellerStep ==
    ASSUME IInv, NEW c \in Cancellers, UNCHANGED <<runVars, bundle, pc, overlapped, faults>>,
           cpc' \in [Cancellers -> {"idle", "cancel", "cancel_write"}],
           DOMAIN cread' = Cancellers, \A d \in Cancellers : IsRun(cread'[d]),
           cancelling' \in [Cancellers -> Sessions \cup {NoRun}],
           \A d \in Cancellers : d # c =>
              cpc'[d] = cpc[d] /\ cread'[d] = cread[d] /\ cancelling'[d] = cancelling[d],
           CancelsRun(c)', Quiet => CancelIsCurrent(c)'
    PROVE  IInv'
<1>1. TypeOK'
  BY DEF IInv, TypeOK, runVars
<1>2. \A s \in Sessions : Progress(s)'
  BY DEF IInv, Progress, runVars
<1>3. ASSUME Quiet PROVE \A s \in Sessions : (ReadIsCurrent(s) /\ Agrees(s))'
  BY <1>3 DEF IInv, ReadIsCurrent, Agrees, runVars
<1>4. ASSUME NEW d \in Cancellers PROVE CancelsRun(d)' /\ (Quiet => CancelIsCurrent(d)')
  BY DEF IInv, CancelsRun, CancelIsCurrent, runVars
<1>5. Quiet' => Quiet
  BY DEF Quiet
<1> QED
  BY <1>1, <1>2, <1>3, <1>4, <1>5 DEF IInv

LEMMA LeaveFacts ==
    ASSUME TypeOK, NEW c \in Cancellers, Leave(c)
    PROVE  /\ cpc' \in [Cancellers -> {"idle", "cancel", "cancel_write"}] /\ cpc'[c] = "idle"
           /\ DOMAIN cread' = Cancellers /\ \A d \in Cancellers : IsRun(cread'[d])
           /\ cancelling' \in [Cancellers -> Sessions \cup {NoRun}]
           /\ \A d \in Cancellers : d # c =>
                cpc'[d] = cpc[d] /\ cread'[d] = cread[d] /\ cancelling'[d] = cancelling[d]
<1>1. IsRun(AbsentRun)
  BY DEF IsRun, AbsentRun, Statuses
<1> QED
  BY <1>1 DEF TypeOK, Leave

LEMMA PressCancelStep == ASSUME IInv, NEW c \in Cancellers, NEW r \in Sessions, PressCancel(c, r) PROVE IInv'
<1>1. /\ cpc' \in [Cancellers -> {"idle", "cancel", "cancel_write"}] /\ cpc'[c] = "cancel"
      /\ DOMAIN cread' = Cancellers /\ \A d \in Cancellers : IsRun(cread'[d])
      /\ cancelling' \in [Cancellers -> Sessions \cup {NoRun}] /\ cancelling'[c] = r
      /\ \A d \in Cancellers : d # c =>
            cpc'[d] = cpc[d] /\ cread'[d] = cread[d] /\ cancelling'[d] = cancelling[d]
  BY DEF PressCancel, IInv, TypeOK
<1>2. runs[r].status # "absent" /\ UNCHANGED <<runVars, bundle, pc, overlapped, faults>>
  BY DEF PressCancel
<1>3. CancelsRun(c)' /\ CancelIsCurrent(c)'
  BY <1>1, <1>2 DEF CancelsRun, CancelIsCurrent, runVars
<1> QED
  BY <1>1, <1>2, <1>3, CancellerStep

LEMMA CancelCheckStep == ASSUME IInv, NEW c \in Cancellers, Cancel(c) PROVE IInv'
<1>1. /\ cpc[c] = "cancel" /\ UNCHANGED <<runVars, bundle, pc, overlapped, faults>>
      /\ cancelling[c] \in Sessions /\ runs[cancelling[c]].status # "absent"
  BY DEF Cancel, IInv, CancelsRun
<1>2. CASE Leave(c)
  <2>1. CancelsRun(c)' /\ CancelIsCurrent(c)'
    BY <1>2, LeaveFacts DEF CancelsRun, CancelIsCurrent, IInv
  <2> QED
    BY <1>1, <1>2, <2>1, LeaveFacts, CancellerStep DEF IInv
<1>3. ASSUME runs[cancelling[c]].status = "running", cpc' = [cpc EXCEPT ![c] = "cancel_write"],
             cread' = [cread EXCEPT ![c] = runs[cancelling[c]]], UNCHANGED cancelling
      PROVE  IInv'
  <2>1. /\ cpc' \in [Cancellers -> {"idle", "cancel", "cancel_write"}]
        /\ DOMAIN cread' = Cancellers /\ cread'[c] = runs[cancelling[c]]
        /\ \A d \in Cancellers : IsRun(cread'[d])
        /\ cancelling' \in [Cancellers -> Sessions \cup {NoRun}]
        /\ \A d \in Cancellers : d # c =>
              cpc'[d] = cpc[d] /\ cread'[d] = cread[d] /\ cancelling'[d] = cancelling[d]
    BY <1>1, <1>3 DEF IInv, TypeOK
  <2>2. CancelsRun(c)' /\ CancelIsCurrent(c)'
    BY <1>1, <1>3, <2>1 DEF CancelsRun, CancelIsCurrent, runVars
  <2> QED
    BY <1>1, <2>1, <2>2, CancellerStep
<1> QED
  BY <1>2, <1>3 DEF Cancel, MayFinish

LEMMA WriteCancelStep == ASSUME IInv, NEW c \in Cancellers, WriteCancel(c) PROVE IInv'
<1> PICK r \in Sessions : r = cancelling[c]
  BY DEF WriteCancel, IInv, CancelsRun
<1> DEFINE run == Finished(cread[c], "cancelled", FALSE)
<1>1. IsRun(run) /\ run.status = "cancelled"
  BY FinishedRun DEF IInv, TypeOK, Terminal
<1>2. /\ cpc[c] = "cancel_write" /\ cancelling[c] = r /\ runs[r].status # "absent"
      /\ WriteRun(c, r, run) /\ Leave(c)
      /\ UNCHANGED <<read, provenance, report, bundle, pc, faults>>
  BY DEF WriteCancel, IInv, CancelsRun
<1> HIDE DEF run
<1>3. /\ DOMAIN runs' = Sessions /\ runs'[r] = run
      /\ \A s \in Sessions : s # r => runs'[s] = runs[s]
  BY <1>2 DEF IInv, TypeOK, WriteRun
<1>4. TypeOK'
  BY <1>1, <1>2, <1>3, LeaveFacts DEF IInv, TypeOK
<1>5. ASSUME NEW d \in Cancellers PROVE CancelsRun(d)'
  BY <1>1, <1>2, <1>3, LeaveFacts DEF IInv, CancelsRun
<1>6. ASSUME NEW s \in Sessions PROVE Progress(s)'
  <2>1. CASE s = r
    BY <1>1, <1>2, <1>3, <2>1 DEF IInv, Progress
  <2>2. CASE s # r
    BY <1>2, <1>3, <2>2 DEF IInv, Progress
  <2> QED
    BY <2>1, <2>2
<1>7. ASSUME Quiet'
      PROVE  /\ \A s \in Sessions : ReadIsCurrent(s)' /\ Agrees(s)'
             /\ \A d \in Cancellers : CancelIsCurrent(d)'
  <2>1. Quiet /\ WritingRun(r) \subseteq {c}
    BY <1>2, <1>7, QuietWrite
  <2>2. runs[r].status = "running"
    BY <1>2, <2>1 DEF IInv, CancelIsCurrent
  <2>3. pc[r] \notin {"complete_write", "fail_write", "attach_write"}
    BY <1>2, <2>1, ActorsAssumption DEF WritingRun
  <2>4. ASSUME NEW d \in Cancellers, d # c, cpc[d] = "cancel_write" PROVE cancelling[d] # r
    BY <2>1, <2>4 DEF WritingRun
  <2>5. ReadIsCurrent(r) /\ Agrees(r)
    BY <1>2, <2>1 DEF IInv
  <2>6. (ReadIsCurrent(r) /\ Agrees(r))'
    BY <1>1, <1>2, <1>3, <2>2, <2>3, <2>5 DEF ReadIsCurrent, Agrees, Terminal
  <2>7. ASSUME NEW s \in Sessions, s # r PROVE (ReadIsCurrent(s) /\ Agrees(s))'
    BY <1>2, <1>3, <2>1, <2>7 DEF IInv, ReadIsCurrent, Agrees
  <2>8. ASSUME NEW d \in Cancellers PROVE CancelIsCurrent(d)'
    BY <1>2, <1>3, <2>1, <2>4, LeaveFacts DEF IInv, CancelIsCurrent, CancelsRun
  <2> QED
    BY <2>6, <2>7, <2>8
<1> QED
  BY <1>4, <1>5, <1>6, <1>7 DEF IInv

-----------------------------------------------------------------------------
LEMMA InvInit == Init => IInv
<1> SUFFICES ASSUME Init PROVE IInv
  OBVIOUS
<1>1. IsRun(AbsentRun) /\ AbsentRun.status = "absent"
  BY DEF IsRun, AbsentRun, Statuses
<1>2. provenance \in [Sessions -> BOOLEAN]
  BY DEF Init
<1>3. TypeOK
  BY <1>1, <1>2 DEF Init, TypeOK, Labels
<1>4. \A s \in Sessions : Progress(s)
  BY <1>1 DEF Init, Progress, Early
<1>5. \A s \in Sessions : ReadIsCurrent(s) /\ Agrees(s)
  BY DEF Init, ReadIsCurrent, Agrees, Terminal
<1>6. \A c \in Cancellers : CancelsRun(c) /\ CancelIsCurrent(c)
  BY DEF Init, CancelsRun, CancelIsCurrent
<1> QED
  BY <1>3, <1>4, <1>5, <1>6 DEF IInv

LEMMA InvStutter == ASSUME IInv, UNCHANGED vars PROVE IInv'
<1> USE DEF vars, specVars, runVars, cancelVars
<1>1. TypeOK' /\ (Quiet' => Quiet)
  BY DEF IInv, TypeOK, Quiet
<1>2. \A s \in Sessions : Progress(s)' /\ (Quiet => ReadIsCurrent(s)' /\ Agrees(s)')
  BY DEF IInv, Progress, ReadIsCurrent, Agrees
<1>3. \A c \in Cancellers : CancelsRun(c)' /\ (Quiet => CancelIsCurrent(c)')
  BY DEF IInv, CancelsRun, CancelIsCurrent
<1> QED
  BY <1>1, <1>2, <1>3 DEF IInv

LEMMA InvStep == IInv /\ [Next]_vars => IInv'
  BY ExecuteStep, PressCancelStep, CancelCheckStep, WriteCancelStep, InvStutter DEF Next, CancelStep

\* _finalize_raced_or_failed_run: however an execution races with cancellations, crashes
\* and writes that fail, what it tells its user is on record.
THEOREM ReportsAreTrue == Spec => []ReportsAgree
<1>1. IInv => ReportsAgree
  BY DEF IInv, Agrees, ReportsAgree, Quiet
<1> QED
  BY InvInit, InvStep, <1>1, PTL DEF Spec

\* A readable bundle can be found from its run, and a completed run has one: the latter
\* whatever overlaps, because nothing writes "completed" but what has checked the bundle.
THEOREM BundlesAreFound == Spec => []NothingIsLost
<1>1. IInv => NothingIsLost
  BY DEF IInv, Agrees, Progress, NothingIsLost, Quiet
<1> QED
  BY InvInit, InvStep, <1>1, PTL DEF Spec

LEMMA OneRunIsWritten ==
    ASSUME IInv, NEW r \in Sessions, NEW me, NEW run, WriteRun(me, r, run)
    PROVE  runs'[r] = run /\ \A s \in Sessions : s # r => runs'[s] = runs[s]
  BY DEF IInv, TypeOK, WriteRun

LEMMA CancelledStays ==
    ASSUME IInv, Next, Quiet', NEW s \in Sessions, runs[s].status = "cancelled"
    PROVE  runs'[s].status = "cancelled"
<1>1. CASE UNCHANGED runs
  BY <1>1
<1>2. ASSUME NEW r \in Sessions, StartRun(r) PROVE runs'[s].status = "cancelled"
  <2>1. runs[r].status = "absent"
    BY <1>2 DEF StartRun, IInv, Progress, Early
  <2> QED
    BY <1>2, <2>1 DEF StartRun, IInv, TypeOK
<1>3. ASSUME NEW r \in Sessions, pc[r] \in {"complete_write", "fail_write"}, NEW run,
             WriteRun(r, r, run)
      PROVE  runs'[s].status = "cancelled"
  <2>1. runs[r].status = "running"
    BY <1>3, QuietWrite DEF IInv, ReadIsCurrent
  <2> QED
    BY <1>3, <2>1, OneRunIsWritten
<1>4. ASSUME NEW r \in Sessions, NEW me, NEW x, IsRun(x), NEW p \in BOOLEAN,
             WriteRun(me, r, Finished(x, "cancelled", p))
      PROVE  runs'[s].status = "cancelled"
  <2>1. Finished(x, "cancelled", p).status = "cancelled"
    BY <1>4, FinishedRun DEF Terminal
  <2> QED
    BY <1>4, <2>1, OneRunIsWritten
<1>5. ASSUME NEW r \in Sessions, Execute(r) \/ WriteCompleteFails(r) \/ Crash(r)
      PROVE  runs'[s].status = "cancelled"
  <2> USE DEF specVars, runVars
  <2>1. CASE CreateSpec(r) \/ CheckCreate(r) \/ WriteCreate(r) \/ Confirm(r) \/ CheckConfirm(r) \/ WriteConfirm(r)
    BY <1>1, <2>1 DEF CreateSpec, CheckCreate, CheckFree, WriteCreate, Confirm, CheckConfirm, WriteConfirm
  <2>2. CASE Compute(r) \/ Complete(r) \/ Finalize(r) \/ Attach(r) \/ Fail(r) \/ Reread(r) \/ Crash(r)
    BY <1>1, <2>2 DEF Compute, Complete, Finalize, Attach, Fail, Reread, Crash
  <2>3. CASE WriteComplete(r) \/ WriteCompleteFails(r)
    BY <1>1, <1>3, <2>3 DEF WriteComplete, WriteCompleteFails
  <2>4. CASE WriteFail(r)
    BY <1>3, <2>4 DEF WriteFail
  <2>5. CASE WriteAttach(r)
    BY <1>4, <2>5 DEF WriteAttach, IInv, TypeOK
  <2> QED
    BY <1>2, <1>5, <2>1, <2>2, <2>3, <2>4, <2>5 DEF Execute
<1>6. ASSUME NEW c \in Cancellers, WriteCancel(c) PROVE runs'[s].status = "cancelled"
  <2> PICK r \in Sessions : r = cancelling[c]
    BY <1>6 DEF WriteCancel, IInv, CancelsRun
  <2> QED
    BY <1>4, <1>6 DEF WriteCancel, IInv, TypeOK
<1>7. ASSUME NEW c \in Cancellers, Cancel(c) \/ \E r \in Sessions : PressCancel(c, r)
      PROVE  runs'[s].status = "cancelled"
  BY <1>1, <1>7 DEF Cancel, PressCancel, runVars
<1> QED
  BY <1>5, <1>6, <1>7 DEF Next, CancelStep

\* "without overturning terminal cancel state": true of every step as long as no two
\* calls have overlapped on a run, however many sessions, users and faults there are.
THEOREM CancellationsStand == Spec => CancelSticksApart
<1>1. ASSUME IInv, [Next]_vars
      PROVE  [\A s \in Sessions : runs[s].status = "cancelled" /\ "runs" \notin overlapped' =>
                 runs'[s].status = "cancelled"]_vars
  BY <1>1, CancelledStays DEF Quiet
<1> QED
  BY <1>1, InvInit, InvStep, PTL DEF Spec, CancelSticksApart

\* The records of the runs, what the sessions and the users who cancel have read of
\* them, and where each of them is keep their types.
THEOREM TypeCorrect == Spec => []TypeOK
<1>1. IInv => TypeOK
  BY DEF IInv
<1> QED
  BY <1>1, InvInit, InvStep, PTL DEF Spec

-----------------------------------------------------------------------------
(* What runs is what was confirmed.  IInv says nothing of specification versions; this  *)
(* part of the invariant does, for as long as no two calls have overlapped on them.     *)

Apart == "specs" \notin overlapped

SpecRecord == [text : RunSpecs \cup {NoSpec}, status : {"absent", "ready", "confirmed"}, parent : Nat]

SpecTypes ==
    /\ specs \in [Versions -> SpecRecord]
    /\ version \in [Sessions -> {0} \cup Versions]
    /\ target \in [Sessions -> Nat]
    /\ wanted \in [Sessions -> RunSpecs \cup {NoSpec}]
    /\ draft \in [Sessions -> RunSpecs \cup {NoSpec}]

Listed(v) == specs[v].status # "absent"

\* A session goes by no version until it has written one, and by one with its user's text
\* from then on; what it is about to write is free, and a copy of that text.
GoesBy(s) ==
    /\ pc[s] \in {"new", "create_check", "create_write"} => version[s] = 0
    /\ version[s] # 0 => Listed(version[s]) /\ specs[version[s]].text = wanted[s]
    /\ pc[s] \in {"confirm", "confirm_check", "confirm_write", "start"} => version[s] # 0
    /\ pc[s] \in {"create_check", "create_write", "confirm_check", "confirm_write"} =>
          target[s] \in Versions
    /\ pc[s] \in {"create_write", "confirm_write"} => ~Listed(target[s])
    /\ pc[s] \in {"confirm_check", "confirm_write"} =>
          specs[version[s]].status = "ready" /\ draft[s] = wanted[s]

\* A confirmed version is a copy of the ready one it names.
IsCopy(v) ==
    specs[v].status = "confirmed" =>
        /\ specs[v].parent \in Versions
        /\ specs[specs[v].parent].status = "ready"
        /\ specs[v].text = specs[specs[v].parent].text

\* What a session has written: the version it goes by, and what that is a copy of.
Wrote(s, v) ==
    /\ version[s] # 0
    /\ \/ version[s] = v
       \/ specs[version[s]].status = "confirmed" /\ specs[version[s]].parent = v

Numbered == \A v \in Versions : Listed(v) => \E s \in Sessions : Wrote(s, v)

SInv ==
    /\ SpecTypes
    /\ \A s \in Sessions : GoesBy(s)
    /\ \A v \in Versions : IsCopy(v)
    /\ Numbered

\* The labels at which a session has read the record it is about to replace.
Reading == {"complete_write", "fail", "fail_write", "attach", "attach_write"}

\* The texts that run records hand on.
Texts(s) ==
    /\ runs[s].status # "absent" => version[s] # 0 /\ runs[s].text = wanted[s]
    /\ pc[s] \in Reading => runs[s].status # "absent" /\ read[s].text = wanted[s]

CancelTexts(c) == cpc[c] # "idle" => cread[c].text = wanted[cancelling[c]]

TInv == (\A s \in Sessions : Texts(s)) /\ (\A c \in Cancellers : CancelTexts(c))

-----------------------------------------------------------------------------
(* How far the numbering gets *)

LEMMA ImageSize ==
    ASSUME NEW S, IsFiniteSet(S), NEW f, DOMAIN f = S
    PROVE  /\ IsFiniteSet({f[x] : x \in S})
           /\ Cardinality({f[x] : x \in S}) <= Cardinality(S)
<1> DEFINE T == {f[x] : x \in S}  g == [x \in S |-> f[x]]
<1>1. g \in Surjection(S, T)
  BY DEF Surjection
<1> HIDE DEF T, g
<1>2. IsFiniteSet(T) /\ Cardinality(T) <= Cardinality(S)
  BY <1>1, FS_Surjection
<1> QED
  BY <1>2 DEF T

\* While a session is about to number a version, it has used at most one of its two.
LEMMA NextIsAVersion ==
    ASSUME SpecTypes, NEW s \in Sessions, Numbered,
           \A v \in Versions : Wrote(s, v) => version[s] = v
    PROVE  NextVersion \in Versions
<1> DEFINE N == Cardinality(Sessions)
           R == Sessions \ {s}
           used == {v \in Versions : specs[v].status # "absent"}
           origin == [x \in R |-> specs[version[x]].parent]
           by == {version[x] : x \in Sessions}
           from == {origin[x] : x \in R}
<1>1. N \in Nat /\ IsFiniteSet(R) /\ Cardinality(R) = N - 1
  BY SessionsAssumption, FS_CardinalityType, FS_RemoveElement
<1>2. IsFiniteSet(by) /\ Cardinality(by) <= N /\ Cardinality(by) \in Nat
  <2>1. DOMAIN version = Sessions
    BY DEF SpecTypes
  <2> QED
    BY <2>1, SessionsAssumption, ImageSize, FS_CardinalityType
<1>3. IsFiniteSet(from) /\ Cardinality(from) <= N - 1 /\ Cardinality(from) \in Nat
  <2>1. DOMAIN origin = R
    OBVIOUS
  <2> HIDE DEF origin, R
  <2> QED
    BY <2>1, <1>1, ImageSize, FS_CardinalityType
<1>4. used \subseteq by \cup from
  <2> SUFFICES ASSUME NEW v \in used PROVE v \in by \cup from
    OBVIOUS
  <2>1. PICK x \in Sessions : Wrote(x, v)
    BY DEF Numbered, Listed
  <2>2. CASE x = s
    BY <2>1, <2>2
  <2>3. CASE x # s
    BY <2>1, <2>3 DEF Wrote
  <2> QED
    BY <2>2, <2>3
<1>5. Cardinality(used) \in Nat /\ Cardinality(used) <= N + (N - 1)
  <2> HIDE DEF by, from, used, R, N
  <2>1. /\ IsFiniteSet(by \cup from)
        /\ Cardinality(by \cup from) = Cardinality(by) + Cardinality(from) - Cardinality(by \cap from)
        /\ Cardinality(by \cap from) \in Nat
    BY <1>2, <1>3, FS_Union, FS_Intersection, FS_CardinalityType
  <2>2. /\ IsFiniteSet(used) /\ Cardinality(used) <= Cardinality(by \cup from)
        /\ Cardinality(used) \in Nat /\ Cardinality(by \cup from) \in Nat
    BY <1>4, <2>1, FS_Subset, FS_CardinalityType
  <2> QED
    BY <1>1, <1>2, <1>3, <2>1, <2>2
<1>6. NextVersion = Cardinality(used) + 1
  BY DEF NextVersion
<1> HIDE DEF used, N
<1>7. NextVersion \in 1..(2 * N)
  BY <1>1, <1>5, <1>6
<1> QED
  BY <1>7 DEF Versions, N

-----------------------------------------------------------------------------
(* Specification versions *)

\* What a step of s cannot do to the version another session goes by.
Elsewhere(s) ==
    \A r \in Sessions \ {s} :
        /\ pc'[r] = pc[r] /\ version'[r] = version[r] /\ target'[r] = target[r]
        /\ wanted'[r] = wanted[r] /\ draft'[r] = draft[r]

\* A step that writes no version.
LEMMA SpecsStand ==
    ASSUME SInv, NEW s \in Sessions, Elsewhere(s), specs' = specs,
           version' = version, SpecTypes', GoesBy(s)'
    PROVE  SInv'
<1>1. Versions' = Versions
  BY DEF Versions
<1>2. ASSUME NEW r \in Sessions PROVE GoesBy(r)'
  <2>1. CASE r # s
    BY <1>1, <2>1 DEF SInv, GoesBy, Elsewhere, Listed
  <2> QED
    BY <2>1
<1>3. ASSUME NEW v \in Versions PROVE IsCopy(v)'
  BY <1>1 DEF SInv, IsCopy
<1>4. Numbered'
  BY <1>1 DEF SInv, Numbered, Listed, Wrote
<1> QED
  BY <1>1, <1>2, <1>3, <1>4 DEF SInv

\* A step past the specification versions.
LEMMA SpecsRest ==
    ASSUME TypeOK, SInv, NEW s \in Sessions, UNCHANGED specVars,
           \A r \in Sessions : r # s => pc'[r] = pc[r],
           pc'[s] \notin Early
    PROVE  SInv'
<1>1. Elsewhere(s)
  BY DEF Elsewhere, specVars
<1>2. SpecTypes'
  BY DEF SInv, SpecTypes, specVars, Versions
<1>3. GoesBy(s)'
  BY DEF SInv, GoesBy, specVars, Early, Listed
<1> QED
  BY <1>1, <1>2, <1>3, SpecsStand DEF specVars

LEMMA CreateSpecs == ASSUME TypeOK, SInv, NEW s \in Sessions, CreateSpec(s) PROVE SInv'
<1>0. pc[s] = "new" /\ "create_check" \in Labels
  BY DEF CreateSpec, Labels
<1>1. pc'[s] = "create_check" /\ \A r \in Sessions : r # s => pc'[r] = pc[r]
  BY <1>0, Moves DEF CreateSpec
<1>2. version[s] = 0
  BY <1>0 DEF SInv, GoesBy
<1>3. NextVersion \in Versions
  BY <1>2, NextIsAVersion DEF SInv, Wrote
<1>4. NextVersion \in Nat
  BY <1>3 DEF Versions
<1>5. PICK t \in RunSpecs : wanted' = [wanted EXCEPT ![s] = t]
  BY DEF CreateSpec
<1>6. target' = [target EXCEPT ![s] = NextVersion] /\ UNCHANGED <<specs, version, draft>>
  BY DEF CreateSpec
<1>7. target' \in [Sessions -> Nat] /\ target'[s] = NextVersion
  BY <1>4, <1>6 DEF SInv, SpecTypes
<1>8. wanted' \in [Sessions -> RunSpecs \cup {NoSpec}]
  BY <1>5 DEF SInv, SpecTypes
<1>9. SpecTypes'
  BY <1>6, <1>7, <1>8 DEF SInv, SpecTypes, Versions
<1>10. Elsewhere(s)
  BY <1>1, <1>5, <1>6 DEF Elsewhere, SInv, SpecTypes
<1>11. GoesBy(s)'
  BY <1>1, <1>2, <1>3, <1>6, <1>7 DEF GoesBy, Versions
<1> QED
  BY <1>6, <1>9, <1>10, <1>11, SpecsStand

\* What a session found free is free until it writes it, or it gives up.
LEMMA CheckSpecs ==
    ASSUME TypeOK, SInv, NEW s \in Sessions, CheckCreate(s) \/ CheckConfirm(s)
    PROVE  SInv'
<1>1. PICK l \in {"create_write", "confirm_write"} :
        /\ CheckFree(s, l)
        /\ l = "create_write" => pc[s] = "create_check"
        /\ l = "confirm_write" => pc[s] = "confirm_check"
  BY DEF CheckCreate, CheckConfirm
<1>2. /\ \/ pc'[s] = l /\ ~Listed(target[s])
         \/ pc'[s] = "closed"
      /\ \A r \in Sessions : r # s => pc'[r] = pc[r]
  <2>1. CASE specs[target[s]].status = "absent"
    <3>1. Goto(s, l) /\ l \in Labels
      BY <1>1, <2>1 DEF CheckFree, Labels
    <3> QED
      BY <2>1, <3>1, Moves DEF Listed
  <2>2. CASE specs[target[s]].status # "absent"
    <3>1. Goto(s, "closed") /\ "closed" \in Labels
      BY <1>1, <2>2 DEF CheckFree, Close, Labels
    <3> QED
      BY <3>1, Moves
  <2> QED
    BY <2>1, <2>2
<1>3. UNCHANGED <<specs, version, draft, target, wanted>>
  BY <1>1 DEF CheckFree, specVars
<1>4. SpecTypes' /\ Elsewhere(s)
  BY <1>2, <1>3 DEF SInv, SpecTypes, Elsewhere, Versions
<1>5. GoesBy(s)'
  BY <1>1, <1>2, <1>3 DEF SInv, GoesBy, Listed, Versions
<1> QED
  BY <1>3, <1>4, <1>5, SpecsStand

\* A write of a free version, with nobody else about to write.
LEMMA WriteSpecs ==
    ASSUME SInv, NEW s \in Sessions, pc[s] \in {"create_write", "confirm_write"},
           NEW spec \in SpecRecord, spec.status # "absent", WriteSpec(s, spec), Apart',
           spec.text = wanted[s], UNCHANGED <<target, draft, wanted>>,
           pc'[s] \in {"confirm", "start"},
           \A r \in Sessions : r # s => pc'[r] = pc[r],
           spec.status = "confirmed" =>
              /\ version[s] # 0 /\ spec.parent = version[s]
              /\ specs[version[s]].status = "ready" /\ specs[version[s]].text = wanted[s],
           spec.status = "ready" => version[s] = 0
    PROVE  SInv'
<1> DEFINE t == target[s]
<1>1. t \in Versions /\ ~Listed(t) /\ t \in Nat /\ t # 0
  BY DEF SInv, GoesBy, Versions
<1>2. /\ specs' = [specs EXCEPT ![t] = spec]
      /\ version' = [version EXCEPT ![s] = t]
      /\ WritingSpec \ {s} = {}
  BY DEF WriteSpec, Apart
<1>3. Versions' = Versions
  BY DEF Versions
<1>4. specs' \in [Versions -> SpecRecord] /\ specs'[t] = spec
      /\ \A v \in Versions : v # t => specs'[v] = specs[v]
  BY <1>1, <1>2 DEF SInv, SpecTypes
<1>5. version' \in [Sessions -> {0} \cup Versions] /\ version'[s] = t
      /\ \A r \in Sessions : r # s => version'[r] = version[r]
  BY <1>1, <1>2 DEF SInv, SpecTypes
<1>6. SpecTypes'
  BY <1>3, <1>4, <1>5 DEF SInv, SpecTypes
<1>7. \A v \in Versions : Listed(v) => v # t /\ specs'[v] = specs[v]
  BY <1>1, <1>4
<1> HIDE DEF t
<1>8. ASSUME NEW r \in Sessions PROVE GoesBy(r)'
  <2>1. CASE r = s
    BY <1>1, <1>4, <1>5, <2>1 DEF GoesBy, Listed
  <2>2. CASE r # s
    <3>1. pc[r] \notin {"create_write", "confirm_write"} /\ GoesBy(r)
      BY <1>2, <2>2 DEF SInv, WritingSpec
    <3>2. version[r] # 0 => version[r] \in Versions /\ specs'[version[r]] = specs[version[r]]
      BY <1>7, <3>1 DEF GoesBy, SInv, SpecTypes
    <3>3. pc'[r] = pc[r] /\ version'[r] = version[r]
      BY <1>5, <2>2
    <3> QED
      BY <1>3, <3>1, <3>2, <3>3 DEF GoesBy, Listed
  <2> QED
    BY <2>1, <2>2
<1>9. ASSUME NEW v \in Versions PROVE IsCopy(v)'
  <2>1. CASE v = t
    <3>1. CASE spec.status = "confirmed"
      <4>1. version[s] \in Versions /\ Listed(version[s])
        BY <3>1 DEF SInv, SpecTypes, Listed
      <4> QED
        BY <1>3, <1>4, <1>7, <2>1, <3>1, <4>1 DEF IsCopy
    <3> QED
      BY <1>4, <2>1, <3>1 DEF IsCopy
  <2>2. CASE v # t
    <3>1. specs'[v] = specs[v] /\ IsCopy(v)
      BY <1>4, <2>2 DEF SInv
    <3> QED
      BY <1>3, <1>7, <3>1 DEF IsCopy, Listed
  <2> QED
    BY <2>1, <2>2
<1>10. ASSUME NEW v \in Versions, Listed(v)' PROVE \E x \in Sessions : Wrote(x, v)'
  <2>1. CASE v = t
    BY <1>1, <1>5, <2>1 DEF Wrote
  <2>2. CASE v # t
    <3>1. PICK x \in Sessions : Wrote(x, v)
      BY <1>4, <1>10, <2>2 DEF SInv, Numbered, Listed
    <3>2. CASE x = s
      <4>1. version[s] # 0 /\ spec.status = "confirmed" /\ specs[version[s]].status = "ready"
        BY <3>1, <3>2 DEF Wrote, SpecRecord
      <4>2. version[s] = v
        BY <3>1, <3>2, <4>1 DEF Wrote
      <4> QED
        BY <1>1, <1>4, <1>5, <4>1, <4>2 DEF Wrote
    <3>3. CASE x # s
      <4>1. version[x] # 0 /\ version[x] \in Versions /\ Listed(version[x])
        BY <3>1 DEF Wrote, SInv, GoesBy, SpecTypes
      <4> QED
        BY <1>5, <1>7, <3>1, <3>3, <4>1 DEF Wrote
    <3> QED
      BY <3>2, <3>3
  <2> QED
    BY <2>1, <2>2
<1> QED
  BY <1>3, <1>6, <1>8, <1>9, <1>10 DEF SInv, Numbered

LEMMA WriteCreates ==
    ASSUME TypeOK, SInv, NEW s \in Sessions, WriteCreate(s), Apart'
    PROVE  SInv'
<1> DEFINE spec == [text |-> wanted[s], status |-> "ready", parent |-> target[s] - 1]
<1>0. pc[s] = "create_write" /\ "confirm" \in Labels
  BY DEF WriteCreate, Labels
<1>1. version[s] = 0 /\ target[s] \in Versions
  BY <1>0 DEF SInv, GoesBy
<1>2. target[s] - 1 \in Nat
  <2>1. Cardinality(Sessions) \in Nat
    BY SessionsAssumption, FS_CardinalityType
  <2> QED
    BY <1>1, <2>1 DEF Versions
<1>3. spec \in SpecRecord /\ spec.status = "ready" /\ spec.text = wanted[s]
  BY <1>2 DEF SInv, SpecTypes, SpecRecord
<1>4. /\ WriteSpec(s, spec) /\ UNCHANGED <<target, draft, wanted>>
      /\ pc'[s] = "confirm" /\ \A r \in Sessions : r # s => pc'[r] = pc[r]
  BY <1>0, Moves DEF WriteCreate
<1> HIDE DEF spec
<1> QED
  BY <1>0, <1>1, <1>3, <1>4, WriteSpecs

LEMMA WriteConfirms ==
    ASSUME TypeOK, SInv, NEW s \in Sessions, WriteConfirm(s), Apart'
    PROVE  SInv'
<1> DEFINE spec == [text |-> draft[s], status |-> "confirmed", parent |-> version[s]]
<1>0. pc[s] = "confirm_write" /\ "start" \in Labels
  BY DEF WriteConfirm, Labels
<1>1. /\ version[s] # 0 /\ version[s] \in Versions /\ draft[s] = wanted[s]
      /\ specs[version[s]].status = "ready" /\ specs[version[s]].text = wanted[s]
  BY <1>0 DEF SInv, GoesBy, SpecTypes
<1>2. version[s] \in Nat
  BY <1>1 DEF Versions
<1>3. /\ spec \in SpecRecord /\ spec.status = "confirmed" /\ spec.text = wanted[s]
      /\ spec.parent = version[s]
  BY <1>1, <1>2 DEF SInv, SpecTypes, SpecRecord
<1>4. /\ WriteSpec(s, spec) /\ UNCHANGED <<target, draft, wanted>>
      /\ pc'[s] = "start" /\ \A r \in Sessions : r # s => pc'[r] = pc[r]
  BY <1>0, Moves DEF WriteConfirm
<1> HIDE DEF spec
<1> QED
  BY <1>0, <1>1, <1>3, <1>4, WriteSpecs

\* The least of a set of numbers (confirm_spec_version takes the first copy it lists).
LEMMA LeastVersion ==
    ASSUME NEW T \in SUBSET Nat, T # {}
    PROVE  (CHOOSE v \in T : \A u \in T : v <= u) \in T
<1> DEFINE Less == {p \in Nat \X Nat : p[1] < p[2]}
<1>1. IsWellFoundedOn(Less, Nat)
  <2>1. Less = OpToRel(<, Nat)
    BY DEF OpToRel
  <2> QED
    BY <2>1, NatLessThanWellFounded
<1>2. \A n, m \in Nat : n < m <=> <<n, m>> \in Less
  OBVIOUS
<1> HIDE DEF Less
<1>3. PICK m \in T : \A n \in T : ~(<<n, m>> \in Less)
  BY <1>1, WFMin
<1>4. ASSUME NEW n \in T PROVE m <= n
  <2>1. m \in Nat /\ n \in Nat /\ ~(n < m)
    BY <1>2, <1>3
  <2> QED
    BY <2>1
<1> QED
  BY <1>4

LEMMA ConfirmSpecs == ASSUME TypeOK, SInv, NEW s \in Sessions, Confirm(s) PROVE SInv'
<1> DEFINE v == version[s]
           copies == {u \in Versions : specs[u].status = "confirmed" /\ specs[u].parent = v}
           first == CHOOSE u \in copies : \A w \in copies : u <= w
<1>0. pc[s] = "confirm" /\ {"start", "confirm_check"} \subseteq Labels
  BY DEF Confirm, Labels
<1>1. v # 0 /\ v \in Versions /\ Listed(v) /\ specs[v].text = wanted[s] /\ specs[v].text \in RunSpecs \cup {NoSpec}
  BY <1>0 DEF SInv, GoesBy, SpecTypes, SpecRecord
<1>2. /\ UNCHANGED <<specs, wanted>>
      /\ draft' = [draft EXCEPT ![s] = specs[v].text]
  BY DEF Confirm
<1>3. \/ specs[v].status = "confirmed" /\ Goto(s, "start") /\ UNCHANGED <<version, target>>
      \/ /\ copies # {} /\ version' = [version EXCEPT ![s] = first]
         /\ Goto(s, "start") /\ UNCHANGED target
      \/ /\ specs[v].status = "ready" /\ target' = [target EXCEPT ![s] = NextVersion]
         /\ Goto(s, "confirm_check") /\ UNCHANGED version
  BY DEF Confirm
<1>4. Versions' = Versions
  BY DEF Versions
<1>5. /\ draft' \in [Sessions -> RunSpecs \cup {NoSpec}] /\ draft'[s] = wanted[s]
      /\ \A r \in Sessions : r # s => draft'[r] = draft[r]
  BY <1>1, <1>2 DEF SInv, SpecTypes
<1> HIDE DEF v, copies, first
<1>6. \A r \in Sessions : r # s => pc'[r] = pc[r]
  BY <1>0, <1>3, Moves
<1>7. CASE specs[v].status = "confirmed" /\ Goto(s, "start") /\ UNCHANGED <<version, target>>
  <2>1. pc'[s] = "start"
    BY <1>0, <1>7, Moves
  <2>2. SpecTypes' /\ Elsewhere(s)
    BY <1>2, <1>4, <1>5, <1>6, <1>7 DEF SInv, SpecTypes, Elsewhere
  <2>3. GoesBy(s)'
    BY <1>1, <1>2, <1>7, <2>1 DEF GoesBy, Listed, v
  <2> QED
    BY <1>2, <1>7, <2>2, <2>3, SpecsStand
<1>8. CASE /\ specs[v].status = "ready" /\ target' = [target EXCEPT ![s] = NextVersion]
           /\ Goto(s, "confirm_check") /\ UNCHANGED version
  <2>1. pc'[s] = "confirm_check"
    BY <1>0, <1>8, Moves
  <2>2. NextVersion \in Versions
    BY <1>8, NextIsAVersion DEF SInv, Wrote, v
  <2>3. NextVersion \in Nat
    BY <2>2 DEF Versions
  <2>4. target' \in [Sessions -> Nat] /\ target'[s] = NextVersion
        /\ \A r \in Sessions : r # s => target'[r] = target[r]
    BY <1>8, <2>3 DEF SInv, SpecTypes
  <2>5. SpecTypes' /\ Elsewhere(s)
    BY <1>2, <1>4, <1>5, <1>6, <1>8, <2>4 DEF SInv, SpecTypes, Elsewhere
  <2>6. GoesBy(s)'
    BY <1>1, <1>2, <1>4, <1>5, <1>8, <2>1, <2>2, <2>4 DEF GoesBy, Listed, v
  <2> QED
    BY <1>2, <1>8, <2>5, <2>6, SpecsStand
<1>9. CASE /\ copies # {} /\ version' = [version EXCEPT ![s] = first]
           /\ Goto(s, "start") /\ UNCHANGED target
  <2>1. pc'[s] = "start"
    BY <1>0, <1>9, Moves
  <2>2. copies \in SUBSET Nat
    <3>1. Versions \subseteq Nat
      BY DEF Versions
    <3> QED
      BY <3>1 DEF copies
  <2>3. first \in copies
    BY <1>9, <2>2, LeastVersion DEF first
  <2>4. /\ first \in Versions /\ first # 0 /\ specs[first].status = "confirmed" /\ specs[first].parent = v
        /\ specs[first].text = wanted[s]
    <3>1. first \in Versions /\ specs[first].status = "confirmed" /\ specs[first].parent = v
      BY <2>3 DEF copies
    <3>2. IsCopy(first) /\ first # 0
      BY <3>1 DEF SInv, Versions
    <3> QED
      BY <1>1, <3>1, <3>2 DEF IsCopy
  <2>5. /\ version' \in [Sessions -> {0} \cup Versions] /\ version'[s] = first
        /\ \A r \in Sessions : r # s => version'[r] = version[r]
    BY <1>9, <2>4 DEF SInv, SpecTypes
  <2>6. SpecTypes'
    BY <1>2, <1>4, <1>5, <1>9, <2>5 DEF SInv, SpecTypes
  <2>7. ASSUME NEW r \in Sessions PROVE GoesBy(r)'
    <3>1. CASE r = s
      BY <1>2, <2>1, <2>4, <2>5, <3>1 DEF GoesBy, Listed
    <3>2. CASE r # s
      BY <1>2, <1>4, <1>5, <1>6, <1>9, <2>5, <3>2 DEF SInv, GoesBy, Listed
    <3> QED
      BY <3>1, <3>2
  <2>8. ASSUME NEW u \in Versions PROVE IsCopy(u)'
    BY <1>2, <1>4 DEF SInv, IsCopy
  <2>9. ASSUME NEW u \in Versions, Listed(u)' PROVE \E x \in Sessions : Wrote(x, u)'
    <3>1. PICK x \in Sessions : Wrote(x, u)
      BY <1>2, <2>9 DEF SInv, Numbered, Listed
    <3>2. CASE x # s
      BY <1>2, <2>5, <3>1, <3>2 DEF Wrote
    <3>3. CASE x = s /\ u = v
      BY <1>2, <2>4, <2>5, <3>3 DEF Wrote
    <3>4. CASE x = s /\ u # v
      \* v is confirmed and u its parent: v is no parent then, and has no copies.
      <4>1. specs[v].status = "confirmed"
        BY <3>1, <3>4 DEF Wrote, v
      <4>2. IsCopy(first)
        BY <2>4 DEF SInv
      <4> QED
        BY <2>4, <4>1, <4>2 DEF IsCopy
    <3> QED
      BY <3>2, <3>3, <3>4
  <2> QED
    BY <1>4, <2>6, <2>7, <2>8, <2>9 DEF SInv, Numbered
<1> QED
  BY <1>3, <1>7, <1>8, <1>9

LEMMA ApartStays == ASSUME [Next]_vars, Apart' PROVE Apart
<1> USE DEF Apart
<1>1. CASE UNCHANGED overlapped
  BY <1>1
<1>2. ASSUME NEW s, NEW spec, WriteSpec(s, spec) PROVE Apart
  BY <1>2 DEF WriteSpec
<1>3. ASSUME NEW me, NEW r, NEW run, WriteRun(me, r, run) PROVE Apart
  BY <1>3 DEF WriteRun
<1>4. ASSUME NEW s \in Sessions, Execute(s) \/ WriteCompleteFails(s) \/ Crash(s) PROVE Apart
  <2>1. CASE WriteCreate(s) \/ WriteConfirm(s)
    BY <1>2, <2>1 DEF WriteCreate, WriteConfirm
  <2>2. CASE WriteComplete(s) \/ WriteAttach(s) \/ WriteFail(s) \/ WriteCompleteFails(s)
    BY <1>1, <1>3, <2>2 DEF WriteComplete, WriteAttach, WriteFail, WriteCompleteFails
  <2>3. CASE CreateSpec(s) \/ CheckCreate(s) \/ Confirm(s) \/ CheckConfirm(s)
    BY <1>1, <2>3 DEF CreateSpec, CheckCreate, CheckFree, Confirm, CheckConfirm
  <2>4. CASE StartRun(s) \/ Compute(s) \/ Complete(s) \/ Finalize(s) \/ Attach(s) \/ Fail(s) \/ Reread(s) \/ Crash(s)
    BY <1>1, <2>4 DEF StartRun, Compute, Complete, Finalize, Attach, Fail, Reread, Crash
  <2> QED
    BY <1>4, <2>1, <2>2, <2>3, <2>4 DEF Execute
<1>5. ASSUME NEW c \in Cancellers, CancelStep(c) \/ \E r \in Sessions : PressCancel(c, r) PROVE Apart
  <2>1. CASE WriteCancel(c)
    BY <1>3, <2>1 DEF WriteCancel
  <2> QED
    BY <1>1, <1>5, <2>1 DEF CancelStep, Cancel, PressCancel
<1> QED
  BY <1>1, <1>4, <1>5 DEF Next, vars

\* Where the steps of an execution leave the session, and what the others have.
LEMMA RunMoves ==
    ASSUME TypeOK, NEW s \in Sessions,
           \/ StartRun(s) \/ Compute(s) \/ Complete(s) \/ WriteComplete(s) \/ WriteCompleteFails(s)
           \/ Finalize(s) \/ Attach(s) \/ WriteAttach(s) \/ Fail(s) \/ WriteFail(s) \/ Reread(s)
           \/ Crash(s)
    PROVE  /\ UNCHANGED <<specVars, cancelVars>>
           /\ pc'[s] \notin Early /\ \A r \in Sessions : r # s => pc'[r] = pc[r]
<1>1. UNCHANGED <<specVars, cancelVars>>
  BY DEF StartRun, Compute, Complete, WriteComplete, WriteCompleteFails, Finalize, Attach,
         WriteAttach, Fail, WriteFail, Reread, Crash
<1>2. \E l \in Labels \ Early : Goto(s, l)
  <2> USE DEF Labels, Early, Close
  <2>1. CASE StartRun(s) \/ Compute(s) \/ Complete(s) \/ WriteComplete(s) \/ WriteCompleteFails(s)
    BY <2>1 DEF StartRun, Compute, Complete, WriteComplete, WriteCompleteFails
  <2>2. CASE Finalize(s) \/ Attach(s) \/ WriteAttach(s)
    BY <2>2 DEF Finalize, Attach, WriteAttach
  <2>3. CASE Fail(s) \/ WriteFail(s) \/ Reread(s) \/ Crash(s)
    BY <2>3 DEF Fail, WriteFail, Reread, Crash
  <2> QED
    BY <2>1, <2>2, <2>3
<1> QED
  BY <1>1, <1>2, Moves

LEMMA SpecsStep == ASSUME TypeOK, SInv, [Next]_vars, Apart' PROVE SInv'
<1>1. ASSUME NEW s \in Sessions, Execute(s) \/ WriteCompleteFails(s) \/ Crash(s) PROVE SInv'
  <2>1. CASE CreateSpec(s) \/ CheckCreate(s) \/ WriteCreate(s) \/ Confirm(s) \/ CheckConfirm(s) \/ WriteConfirm(s)
    BY <2>1, CreateSpecs, CheckSpecs, WriteCreates, ConfirmSpecs, WriteConfirms
  <2>2. CASE ~(\/ CreateSpec(s) \/ CheckCreate(s) \/ WriteCreate(s)
               \/ Confirm(s) \/ CheckConfirm(s) \/ WriteConfirm(s))
    BY <1>1, <2>2, RunMoves, SpecsRest DEF Execute
  <2> QED
    BY <2>1, <2>2
<1>2. CASE UNCHANGED <<specVars, pc>>
  <2>1. SpecTypes' /\ \A s \in Sessions : GoesBy(s)'
    BY <1>2 DEF SInv, SpecTypes, GoesBy, Listed, Versions, specVars
  <2>2. (\A v \in Versions' : IsCopy(v)') /\ Numbered'
    BY <1>2 DEF SInv, IsCopy, Numbered, Listed, Wrote, Versions, specVars
  <2> QED
    BY <2>1, <2>2 DEF SInv
<1>3. ASSUME NEW c \in Cancellers, CancelStep(c) \/ \E r \in Sessions : PressCancel(c, r) PROVE SInv'
  BY <1>2, <1>3 DEF CancelStep, Cancel, WriteCancel, PressCancel
<1>4. CASE UNCHANGED vars
  BY <1>2, <1>4 DEF vars
<1> QED
  BY <1>1, <1>3, <1>4 DEF Next

-----------------------------------------------------------------------------
(* The texts that run records hand on *)

LEMMA TextsMove ==
    ASSUME TInv, NEW s \in Sessions, UNCHANGED <<specVars, cancelVars>>,
           \A r \in Sessions : r # s =>
               pc'[r] = pc[r] /\ runs'[r] = runs[r] /\ read'[r] = read[r],
           Texts(s)'
    PROVE  TInv'
<1>1. ASSUME NEW r \in Sessions PROVE Texts(r)'
  <2>1. CASE r # s
    BY <2>1 DEF TInv, Texts, specVars
  <2> QED
    BY <2>1
<1>2. ASSUME NEW c \in Cancellers PROVE CancelTexts(c)'
  BY DEF TInv, CancelTexts, specVars, cancelVars
<1> QED
  BY <1>1, <1>2 DEF TInv

\* A step that writes no record, and takes in the one there is if it is about to replace it.
LEMMA TextsRead ==
    ASSUME IInv, TInv, NEW s \in Sessions, UNCHANGED <<specVars, cancelVars, runs>>,
           pc' \in [Sessions -> Labels],
           \A r \in Sessions : r # s => pc'[r] = pc[r],
           \/ pc'[s] \notin Reading /\ (UNCHANGED read \/ ReadRun(s))
           \/ runs[s].status # "absent" /\ ReadRun(s)
    PROVE  TInv'
<1>1. \A r \in Sessions : r # s => read'[r] = read[r]
  BY Reads DEF IInv
<1>2. ReadRun(s) => read'[s] = runs[s]
  BY Reads DEF IInv
<1>3. Texts(s)'
  BY <1>2 DEF TInv, Texts, specVars, Reading
<1> QED
  BY <1>1, <1>3, TextsMove

\* A step that replaces the record by what it has read, and is over then.
LEMMA TextsWrite ==
    ASSUME IInv, TInv, NEW s \in Sessions, UNCHANGED <<specVars, cancelVars, read>>,
           \A r \in Sessions : r # s => pc'[r] = pc[r],
           pc[s] \in Reading, pc'[s] \notin Reading,
           NEW status \in Terminal, NEW p \in BOOLEAN,
           WriteRun(s, s, Finished(read[s], status, p))
    PROVE  TInv'
<1>1. /\ runs'[s] = Finished(read[s], status, p)
      /\ \A r \in Sessions : r # s => runs'[r] = runs[r]
  BY DEF IInv, TypeOK, WriteRun
<1>2. Finished(read[s], status, p).text = read[s].text
  BY DEF Finished
<1>3. Texts(s)'
  BY <1>1, <1>2 DEF TInv, Texts, specVars, Reading
<1> QED
  BY <1>1, <1>3, TextsMove

LEMMA TextsStart == ASSUME IInv, SInv, TInv, NEW s \in Sessions, StartRun(s) PROVE TInv'
<1>1. /\ version[s] # 0 /\ specs[version[s]].text = wanted[s] /\ pc[s] = "start"
  BY DEF StartRun, SInv, GoesBy
<1>2. /\ UNCHANGED <<specVars, cancelVars, read>>
      /\ pc'[s] \notin Early /\ \A r \in Sessions : r # s => pc'[r] = pc[r]
  BY RunMoves DEF StartRun, IInv
<1>3. CASE specs[version[s]].status = "confirmed"
  <2>1. /\ runs'[s].text = wanted[s]
        /\ \A r \in Sessions : r # s => runs'[r] = runs[r]
    BY <1>1, <1>3 DEF StartRun, IInv, TypeOK
  <2>2. pc'[s] = "compute"
    BY <1>1, <1>3 DEF StartRun, Goto, IInv, TypeOK
  <2>3. Texts(s)'
    BY <1>1, <1>2, <2>1, <2>2 DEF Texts, specVars, Reading
  <2> QED
    BY <1>2, <2>1, <2>3, TextsMove
<1>4. CASE specs[version[s]].status # "confirmed"
  <2>1. UNCHANGED runs
    BY <1>4 DEF StartRun
  <2>2. pc'[s] = "closed"
    BY <1>4 DEF StartRun, Close, Goto, IInv, TypeOK
  <2>3. Texts(s)'
    BY <1>2, <2>1, <2>2 DEF TInv, Texts, specVars, Reading
  <2> QED
    BY <1>2, <2>1, <2>3, TextsMove
<1> QED
  BY <1>3, <1>4

LEMMA TextsRun ==
    ASSUME IInv, TInv, NEW s \in Sessions,
           \/ Compute(s) \/ Complete(s) \/ WriteComplete(s) \/ WriteCompleteFails(s)
           \/ Finalize(s) \/ Attach(s) \/ WriteAttach(s) \/ Fail(s) \/ WriteFail(s) \/ Reread(s)
           \/ Crash(s)
    PROVE  TInv'
<1>1. /\ UNCHANGED <<specVars, cancelVars>>
      /\ \A r \in Sessions : r # s => pc'[r] = pc[r]
  BY RunMoves DEF IInv
<1>2. TypeOK
  BY DEF IInv
<1>3. ASSUME NEW l \in Labels, Goto(s, l) PROVE pc'[s] = l /\ pc' \in [Sessions -> Labels]
  BY <1>2, <1>3, Moves
<1>4. /\ {"compute", "complete", "finalize", "reread", "closed"} \subseteq Labels \ Reading
      /\ Reading \subseteq Labels
  BY DEF Labels, Reading
<1>5. CASE Compute(s) \/ Reread(s) \/ Crash(s)
  <2>1. \E l \in Labels \ Reading : Goto(s, l)
    BY <1>4, <1>5 DEF Compute, Reread, Crash, Close
  <2>2. UNCHANGED <<runs, read>>
    BY <1>5 DEF Compute, Reread, Crash
  <2> QED
    BY <1>1, <1>3, <2>1, <2>2, TextsRead
<1>6. CASE Complete(s) \/ Fail(s)
  <2>1. /\ ReadRun(s) /\ UNCHANGED runs
        /\ \/ \E l \in Labels : Goto(s, l) /\ runs[s].status # "absent"
           \/ \E l \in Labels \ Reading : Goto(s, l)
    BY <1>4, <1>6 DEF Complete, Fail, MayFinish, Reading
  <2> QED
    BY <1>1, <1>3, <2>1, TextsRead
<1>7. CASE Finalize(s)
  <2>1. ReadRun(s) /\ UNCHANGED runs /\ (\E l \in Labels : Goto(s, l)) /\ runs[s].status # "absent"
    BY <1>4, <1>7 DEF Finalize, Close, Reading
  <2> QED
    BY <1>1, <1>3, <2>1, TextsRead
<1>8. CASE Attach(s)
  <2>1. /\ ReadRun(s) /\ UNCHANGED runs
        /\ \/ \E l \in Labels : Goto(s, l) /\ runs[s].status # "absent"
           \/ \E l \in Labels \ Reading : Goto(s, l)
    BY <1>4, <1>8 DEF Attach, Close, Reading
  <2> QED
    BY <1>1, <1>3, <2>1, TextsRead
<1>9. CASE WriteCompleteFails(s) /\ UNCHANGED runs
  <2>1. Goto(s, "finalize") /\ UNCHANGED read
    BY <1>9 DEF WriteCompleteFails
  <2> QED
    BY <1>1, <1>3, <1>4, <1>9, <2>1, TextsRead
<1>10. CASE WriteComplete(s) \/ WriteAttach(s) \/ WriteFail(s) \/ (WriteCompleteFails(s) /\ ~UNCHANGED runs)
  <2>1. PICK status \in Terminal, p \in BOOLEAN : WriteRun(s, s, Finished(read[s], status, p))
    BY <1>10 DEF WriteComplete, WriteAttach, WriteFail, WriteCompleteFails, Terminal
  <2>2. /\ pc[s] \in Reading /\ UNCHANGED read
        /\ Goto(s, "closed") \/ Goto(s, "finalize")
    BY <1>10 DEF WriteComplete, WriteAttach, WriteFail, WriteCompleteFails, Reading, Close
  <2> QED
    BY <1>1, <1>3, <1>4, <2>1, <2>2, TextsWrite
<1> QED
  BY <1>5, <1>6, <1>7, <1>8, <1>9, <1>10

\* While versions are numbered and confirmed there is no run yet.
LEMMA TextsSpec ==
    ASSUME IInv, SInv, TInv, NEW s \in Sessions,
           \/ CreateSpec(s) \/ CheckCreate(s) \/ WriteCreate(s)
           \/ Confirm(s) \/ CheckConfirm(s) \/ WriteConfirm(s)
    PROVE  TInv'
<1>1. pc[s] \in Early /\ UNCHANGED <<runs, read, cancelVars>>
  BY DEF CreateSpec, CheckCreate, CheckFree, WriteCreate, Confirm, CheckConfirm, WriteConfirm,
         runVars, Early
<1>2. runs[s].status = "absent"
  BY <1>1 DEF IInv, Progress
<1>3. \A r \in Sessions : r # s => wanted'[r] = wanted[r] /\ version'[r] = version[r]
  <2>1. /\ wanted' = wanted \/ \E t \in RunSpecs : wanted' = [wanted EXCEPT ![s] = t]
        /\ version' = version \/ \E v : version' = [version EXCEPT ![s] = v]
    <3>1. CASE CreateSpec(s)
      BY <3>1 DEF CreateSpec
    <3>2. CASE CheckCreate(s) \/ CheckConfirm(s)
      BY <3>2 DEF CheckCreate, CheckConfirm, CheckFree, specVars
    <3>3. CASE WriteCreate(s) \/ WriteConfirm(s)
      BY <3>3 DEF WriteCreate, WriteConfirm, WriteSpec
    <3>4. CASE Confirm(s)
      BY <3>4 DEF Confirm
    <3> QED
      BY <3>1, <3>2, <3>3, <3>4
  <2> QED
    BY <2>1 DEF SInv, SpecTypes
<1>4. /\ pc'[s] \notin Reading /\ \A r \in Sessions : r # s => pc'[r] = pc[r]
  <2>1. \E l \in Labels \ Reading : Goto(s, l)
    <3> USE DEF Labels, Reading
    <3>1. CASE CreateSpec(s) \/ Confirm(s)
      BY <3>1 DEF CreateSpec, Confirm
    <3>2. CASE CheckCreate(s) \/ CheckConfirm(s)
      BY <3>2 DEF CheckCreate, CheckConfirm, CheckFree, Close
    <3>3. CASE WriteCreate(s) \/ WriteConfirm(s)
      BY <3>3 DEF WriteCreate, WriteConfirm
    <3> QED
      BY <3>1, <3>2, <3>3
  <2> QED
    BY <2>1, Moves DEF IInv
<1>5. ASSUME NEW r \in Sessions PROVE Texts(r)'
  BY <1>1, <1>2, <1>3, <1>4 DEF TInv, Texts
<1>6. ASSUME NEW c \in Cancellers PROVE CancelTexts(c)'
  <2>1. cpc[c] # "idle" => cancelling[c] # s /\ cancelling[c] \in Sessions
    BY <1>2 DEF IInv, CancelsRun
  <2> QED
    BY <1>1, <1>3, <2>1 DEF TInv, CancelTexts, cancelVars
<1> QED
  BY <1>5, <1>6 DEF TInv

LEMMA TextsCancel ==
    ASSUME IInv, TInv, NEW c \in Cancellers,
           CancelStep(c) \/ \E r \in Sessions : PressCancel(c, r)
    PROVE  TInv'
<1> USE DEF specVars, runVars
<1>1. CASE \E r \in Sessions : PressCancel(c, r)
  <2>1. PICK r \in Sessions : PressCancel(c, r)
    BY <1>1
  <2>2. \A s \in Sessions : Texts(s)'
    BY <2>1 DEF PressCancel, TInv, Texts
  <2>3. /\ cancelling'[c] = r /\ cread'[c] = runs[r] /\ runs[r].text = wanted[r]
        /\ \A d \in Cancellers : d # c =>
              cpc'[d] = cpc[d] /\ cread'[d] = cread[d] /\ cancelling'[d] = cancelling[d]
    BY <2>1 DEF PressCancel, IInv, TypeOK, TInv, Texts
  <2>4. ASSUME NEW d \in Cancellers PROVE CancelTexts(d)'
    BY <2>1, <2>3 DEF PressCancel, TInv, CancelTexts
  <2> QED
    BY <2>2, <2>4 DEF TInv
<1>2. CASE Cancel(c)
  <2>1. \A s \in Sessions : Texts(s)'
    BY <1>2 DEF Cancel, TInv, Texts
  <2>2. cancelling[c] \in Sessions /\ runs[cancelling[c]].text = wanted[cancelling[c]]
    BY <1>2 DEF Cancel, IInv, CancelsRun, TInv, Texts
  <2>3. /\ cpc'[c] # "idle" => cancelling'[c] = cancelling[c] /\ cread'[c] = runs[cancelling[c]]
        /\ \A d \in Cancellers : d # c =>
              cpc'[d] = cpc[d] /\ cread'[d] = cread[d] /\ cancelling'[d] = cancelling[d]
    BY <1>2 DEF Cancel, Leave, IInv, TypeOK
  <2>4. ASSUME NEW d \in Cancellers PROVE CancelTexts(d)'
    BY <1>2, <2>2, <2>3 DEF Cancel, TInv, CancelTexts
  <2> QED
    BY <2>1, <2>4 DEF TInv
<1>3. CASE WriteCancel(c)
  <2> PICK r : r = cancelling[c]
    OBVIOUS
  <2>1. /\ r \in Sessions /\ runs[r].status # "absent" /\ cread[c].text = wanted[r]
        /\ WriteRun(c, r, Finished(cread[c], "cancelled", FALSE))
    BY <1>3 DEF WriteCancel, IInv, CancelsRun, TInv, CancelTexts
  <2>2. /\ runs'[r] = Finished(cread[c], "cancelled", FALSE)
        /\ \A s \in Sessions : s # r => runs'[s] = runs[s]
    BY <2>1, OneRunIsWritten
  <2>3. /\ Finished(cread[c], "cancelled", FALSE).text = wanted[r]
        /\ Finished(cread[c], "cancelled", FALSE).status = "cancelled"
    BY <2>1 DEF Finished
  <2>4. ASSUME NEW s \in Sessions PROVE Texts(s)'
    BY <1>3, <2>1, <2>2, <2>3 DEF WriteCancel, TInv, Texts
  <2>5. /\ cpc'[c] = "idle"
        /\ \A d \in Cancellers : d # c =>
              cpc'[d] = cpc[d] /\ cread'[d] = cread[d] /\ cancelling'[d] = cancelling[d]
    BY <1>3 DEF WriteCancel, Leave, IInv, TypeOK
  <2>6. ASSUME NEW d \in Cancellers PROVE CancelTexts(d)'
    BY <1>3, <2>5 DEF WriteCancel, TInv, CancelTexts
  <2> QED
    BY <2>4, <2>6 DEF TInv
<1> QED
  BY <1>1, <1>2, <1>3 DEF CancelStep

LEMMA TextsStep == ASSUME IInv, SInv, TInv, [Next]_vars PROVE TInv'
<1>1. ASSUME NEW s \in Sessions, Execute(s) \/ WriteCompleteFails(s) \/ Crash(s) PROVE TInv'
  BY <1>1, TextsSpec, TextsStart, TextsRun DEF Execute
<1>2. ASSUME NEW c \in Cancellers, CancelStep(c) \/ \E r \in Sessions : PressCancel(c, r) PROVE TInv'
  BY <1>2, TextsCancel
<1>3. CASE UNCHANGED vars
  BY <1>3 DEF vars, specVars, runVars, cancelVars, TInv, Texts, CancelTexts
<1> QED
  BY <1>1, <1>2, <1>3 DEF Next

LEMMA TextsInit == Init => SInv /\ TInv
<1> SUFFICES ASSUME Init PROVE SInv /\ TInv
  OBVIOUS
<1>1. SpecTypes
  BY DEF Init, SpecTypes, SpecRecord, AbsentSpec
<1>2. \A v \in Versions : ~Listed(v) /\ specs[v].status # "confirmed"
  BY DEF Init, Listed, AbsentSpec
<1>3. (\A s \in Sessions : GoesBy(s)) /\ (\A v \in Versions : IsCopy(v)) /\ Numbered
  BY <1>2 DEF Init, GoesBy, IsCopy, Numbered
<1>4. TInv
  BY DEF Init, TInv, Texts, CancelTexts, AbsentRun, Reading
<1> QED
  BY <1>1, <1>3, <1>4 DEF SInv

\* orchestrator.py, execute_confirmed_run after confirm_validated_spec: however many
\* sessions number, confirm, execute, cancel and die, a run is of the text its own user had
\* on the screen, as long as no two calls overlap on the specification versions.
THEOREM ConfirmedIsWhatRuns == Spec => []RunsWhatWasConfirmed
<1> DEFINE TextInv == IInv /\ (Apart => SInv /\ TInv)
<1>1. Init => TextInv
  BY InvInit, TextsInit
<1>2. TextInv /\ [Next]_vars => TextInv'
  <2> SUFFICES ASSUME TextInv, [Next]_vars PROVE TextInv'
    OBVIOUS
  <2>1. IInv'
    BY InvStep
  <2>2. ASSUME Apart' PROVE SInv' /\ TInv'
    BY <2>2, ApartStays, SpecsStep, TextsStep DEF IInv
  <2> QED
    BY <2>1, <2>2
<1>3. TextInv => RunsWhatWasConfirmed
  BY DEF Apart, TInv, Texts, RunsWhatWasConfirmed
<1> QED
  BY <1>1, <1>2, <1>3, PTL DEF Spec
================================================================================
