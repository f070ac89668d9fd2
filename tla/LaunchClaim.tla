------------------------------ MODULE LaunchClaim ------------------------------
(***************************************************************************)
(* One-click launch of `study run` from the Studies page                   *)
(* (thesistester/study/launch.py).  Every browser tab is a thread of the   *)
(* Streamlit server; a launch claims study.launch.pid for the output       *)
(* directory, starts a detached child and writes the child's pid over the  *)
(* claim.  The child meets the study lock of StudyRunner by itself.        *)
(*                                                                         *)
(* A write of the pid file truncates it first, and an empty file reads as  *)
(* no pid at all.  A child that has ended keeps its pid until the server   *)
(* polls it: spawn_launch drops its Popen, so that happens when it returns *)
(* or at a later Popen of the server (CPython's subprocess module keeps    *)
(* dropped children and polls them in the constructor).                    *)
(***************************************************************************)
EXTENDS Naturals, FiniteSets

CONSTANTS
    Tabs,       \* browser sessions on the Studies page
    Children,   \* pids the launches can get, one per launch
    Server,     \* the pid of the Streamlit server
    Missing, Empty,
    NoOne,      \* nobody's log, nobody's lock
    MaxFailures   \* bound on operations that raise

ASSUME PidAssumption ==
    /\ Server \notin Children
    /\ {Missing, Empty, NoOne} \cap (Children \cup {Server}) = {}
    /\ Missing # Empty
ASSUME FailuresAssumption == MaxFailures \in Nat

VARIABLES
    pidFile,    \* study.launch.pid
    open,       \* tabs with a descriptor of the file now in the directory
    log,        \* whose output study.launch.log holds
    savedLog,   \* what spawn_launch keeps to restore after a failed spawn
    tab,        \* where a tab is in spawn_launch
    launched,   \* the child a tab has just started
    child,      \* life of a child
    studyLock,  \* the child that holds .study.lock
    failures,
    visitors,   \* the tabs that are on the page at all
    stuck,      \* whether an error has left a claim in the server's name
    lost,       \* children whose pid could not be written over the claim
    unrestored  \* whether the log of before a failed spawn could not be put back

procs      == <<launched, child, studyLock>>
history    == <<stuck, lost, unrestored>>
launchVars == <<pidFile, open, log, savedLog, tab, procs, failures, visitors, history>>

Labels == {"idle", "clear", "create", "claim", "spawn", "yaml", "start", "record", "write",
           "rewrite"}
Lives  == {"unborn", "starting", "running", "ended", "gone"}   \* ended: not yet polled

LaunchTypeOK ==
    /\ pidFile \in Children \cup {Server, Missing, Empty}
    /\ open \in SUBSET Tabs
    /\ log \in Children \cup {NoOne}
    /\ savedLog \in [Tabs -> Children \cup {NoOne}]
    /\ tab \in [Tabs -> Labels]
    /\ launched \in [Tabs -> Children \cup {NoOne}]
    /\ child \in [Children -> Lives]
    /\ studyLock \in Children \cup {NoOne}
    /\ failures \in 0..MaxFailures
    /\ visitors \in SUBSET Tabs
    /\ stuck \in BOOLEAN
    /\ lost \in SUBSET Children
    /\ unrestored \in BOOLEAN

LaunchInit ==
    /\ pidFile \in {Missing} \cup Children   \* that of an earlier launch
    /\ open = {}
    /\ log = IF pidFile \in Children THEN pidFile ELSE NoOne
    /\ savedLog = [t \in Tabs |-> NoOne]
    /\ tab = [t \in Tabs |-> "idle"]
    /\ launched = [t \in Tabs |-> NoOne]
    /\ \E l \in {"ended", "gone"} :
           child = [c \in Children |-> IF c = pidFile THEN l ELSE "unborn"]
    /\ studyLock = NoOne
    /\ failures = 0
    /\ visitors \in SUBSET Tabs
    /\ stuck = FALSE /\ lost = {} /\ unrestored = FALSE

TabTo(t, l) == tab' = [tab EXCEPT ![t] = l]

-----------------------------------------------------------------------------
(* _claim_launch_pid_file *)

\* Mutant: a pid that cannot be probed counts as dead.
NamesTheServer == pidFile = Server

\* read_launch_pid_status: the file names a process that exists (os.kill(pid, 0)), be it
\* one that has ended.
NamesALiveProcess ==
    \/ pidFile = Server
    \/ pidFile \in Children /\ child[pidFile] \in {"starting", "running", "ended"}

\* A live pid refuses the launch, and nothing changes.
Check(t) ==
    /\ tab[t] = "idle"
    /\ ~NamesALiveProcess
    /\ TabTo(t, "clear")
    /\ UNCHANGED <<pidFile, open, log, savedLog, procs, failures, history>>

\* Mutant: the claim is left in place.
KeepFile == UNCHANGED <<pidFile, open>>

\* _release_launch_pid_claim
Unlink == pidFile' = Missing /\ open' = {}

\* Whatever the file says by now.
Clear(t) ==
    /\ tab[t] = "clear"
    /\ Unlink
    /\ TabTo(t, "create")
    /\ UNCHANGED <<log, savedLog, procs, failures, history>>

\* O_CREAT | O_EXCL
Create(t) ==
    /\ tab[t] = "create"
    /\ pidFile = Missing
    /\ pidFile' = Empty
    /\ open' = {t}
    /\ TabTo(t, "claim")
    /\ UNCHANGED <<log, savedLog, procs, failures, history>>

CreateLost(t) ==
    /\ tab[t] = "create"
    /\ pidFile # Missing
    /\ TabTo(t, "idle")
    /\ UNCHANGED <<pidFile, open, log, savedLog, procs, failures, history>>

\* os.write on the descriptor, which another tab may have unlinked by now.
WriteThrough(t, pid) ==
    /\ pidFile' = IF t \in open THEN pid ELSE pidFile
    /\ open' = open \ {t}

TakeClaim(t) ==
    /\ tab[t] = "claim"
    /\ WriteThrough(t, Server)
    /\ TabTo(t, "spawn")
    /\ UNCHANGED <<log, savedLog, procs, failures, history>>

Fails == failures < MaxFailures /\ failures' = failures + 1

\* The unlink, the exclusive create or the write raises: what is there stays, an empty
\* claim in the last case.
ClaimFails(t) ==
    /\ tab[t] \in {"clear", "create", "claim"}
    /\ Fails
    /\ open' = open \ {t}
    /\ TabTo(t, "idle")
    /\ UNCHANGED <<pidFile, log, savedLog, procs, history>>

-----------------------------------------------------------------------------
(* spawn_launch *)

ReadLog(t) ==
    /\ tab[t] = "spawn"
    /\ savedLog' = [savedLog EXCEPT ![t] = log]
    /\ TabTo(t, "yaml")
    /\ UNCHANGED <<pidFile, open, log, procs, failures, history>>

\* An error that is not cleaned up after: the file goes on naming whom it names.
LeaveClaim ==
    /\ stuck' = (stuck \/ pidFile = Server)
    /\ UNCHANGED pidFile

\* The read of the old log raises, before the try that gives the claim back.
ReadLogFails(t) ==
    /\ tab[t] = "spawn"
    /\ Fails
    /\ LeaveClaim
    /\ TabTo(t, "idle")
    /\ UNCHANGED <<open, log, savedLog, procs, lost, unrestored>>

\* Writes the launch YAML and truncates the log.
OpenLog(t) ==
    /\ tab[t] = "yaml"
    /\ log' = NoOne
    /\ TabTo(t, "start")
    /\ UNCHANGED <<pidFile, open, savedLog, procs, failures, history>>

\* _release_launch_pid_claim keeps quiet about an unlink that fails.
ReleaseClaim == (Unlink /\ UNCHANGED stuck) \/ (LeaveClaim /\ UNCHANGED open)

\* Mutant: the log is left truncated.
RestoreNothing(t) == UNCHANGED <<log, unrestored>>

\* _restore_launch_log, quiet as well: the log may stay as it is, or cut short.
RestoreLog(t) ==
    \/ log' = savedLog[t] /\ UNCHANGED unrestored
    \/ log' \in {log, NoOne} /\ unrestored' = TRUE

\* The YAML, the open of the log or the Popen raises; the log was opened for the last.
SpawnFails(t) ==
    /\ \/ tab[t] = "yaml" /\ UNCHANGED <<log, unrestored>>
       \/ tab[t] = "start" /\ RestoreLog(t)
    /\ Fails
    /\ ReleaseClaim
    /\ savedLog' = [savedLog EXCEPT ![t] = NoOne]
    /\ TabTo(t, "idle")
    /\ UNCHANGED <<procs, lost>>

\* The children nobody refers to any more are polled.
Polled(c) == child[c] = "ended" /\ \A t \in Tabs : launched[t] # c

Popen(t, c) ==
    /\ tab[t] = "start"
    /\ child[c] = "unborn"
    /\ child' = [k \in Children |-> IF k = c THEN "starting"
                                    ELSE IF Polled(k) THEN "gone" ELSE child[k]]
    /\ launched' = [launched EXCEPT ![t] = c]
    /\ log' = c
    /\ unrestored' = FALSE
    /\ TabTo(t, "record")
    /\ UNCHANGED <<pidFile, open, savedLog, studyLock, failures, stuck, lost>>

\* _record_child_pid: write_text opens with truncation; so does os.open if that fails.
Truncate(t) ==
    /\ tab[t] = "record"
    /\ pidFile' = Empty
    /\ open' = open \cup {t}
    /\ TabTo(t, "write")
    /\ UNCHANGED <<log, savedLog, procs, failures, history>>

\* The write of write_text raises: os.open truncates what is there once more.
TruncateAgain(t) ==
    /\ tab[t] = "write"
    /\ pidFile # Missing
    /\ Fails
    /\ pidFile' = Empty
    /\ open' = open \cup {t}
    /\ TabTo(t, "rewrite")
    /\ UNCHANGED <<log, savedLog, procs, history>>

\* The call is over, and its Popen is dropped and polled.
Launched(t) ==
    /\ TabTo(t, "idle")
    /\ child' = [child EXCEPT ![launched[t]] = IF @ = "ended" THEN "gone" ELSE @]
    /\ launched' = [launched EXCEPT ![t] = NoOne]
    /\ savedLog' = [savedLog EXCEPT ![t] = NoOne]
    /\ UNCHANGED <<log, studyLock, unrestored>>

Record(t) ==
    /\ tab[t] \in {"write", "rewrite"}
    /\ WriteThrough(t, launched[t])
    /\ Launched(t)
    /\ UNCHANGED <<failures, stuck, lost>>

\* Neither write gets through: the child runs; the placeholder stays, or the file is
\* empty once it was truncated.
RecordFails(t) ==
    /\ tab[t] \in {"record", "write", "rewrite"}
    /\ Fails
    /\ LeaveClaim
    /\ open' = open \ {t}
    /\ Launched(t)
    /\ lost' = lost \cup {launched[t]}

\* The server polls a dropped child at some other Popen of its own; it ends and init does.
Reap(c) ==
    /\ Polled(c)
    /\ child' = [child EXCEPT ![c] = "gone"]
    /\ UNCHANGED <<pidFile, open, log, savedLog, tab, launched, studyLock, failures>>

-----------------------------------------------------------------------------
(* The child: run_study behind its own lock. *)

Enter(c) ==
    /\ child[c] = "starting"
    /\ studyLock = NoOne
    /\ studyLock' = c
    /\ child' = [child EXCEPT ![c] = "running"]
    /\ UNCHANGED <<pidFile, open, log, savedLog, tab, launched, failures>>

Live == {c \in Children : child[c] \in {"starting", "running"}}

\* The run ends, dies, or finds the lock taken.
Exit(c) ==
    /\ c \in Live
    /\ child' = [child EXCEPT ![c] = "ended"]
    /\ studyLock' = IF studyLock = c THEN NoOne ELSE studyLock
    /\ UNCHANGED <<pidFile, open, log, savedLog, tab, launched, failures>>

Launching(t) ==
    \/ Check(t) \/ Clear(t) \/ Create(t) \/ CreateLost(t) \/ TakeClaim(t) \/ ClaimFails(t)
    \/ ReadLog(t) \/ ReadLogFails(t) \/ OpenLog(t) \/ SpawnFails(t)
    \/ (\E c \in Children : Popen(t, c))
    \/ Truncate(t) \/ TruncateAgain(t) \/ Record(t) \/ RecordFails(t)

LaunchNext ==
    \/ \E t \in visitors : Launching(t) /\ UNCHANGED visitors
    \/ \E c \in Children : (Enter(c) \/ Exit(c) \/ Reap(c)) /\ UNCHANGED <<visitors, history>>

LaunchSpec == LaunchInit /\ [][LaunchNext]_launchVars

-----------------------------------------------------------------------------
(* Properties *)

\* The claim is TOCTOU-safe (_claim_launch_pid_file): one tab at a time gets to
\* the spawn, and none while the child of another launch is alive; a child whose pid
\* could not be written is left to the user, who is told to stop it (spawn_launch).
InFlight == {t \in Tabs : tab[t] \in {"spawn", "yaml", "start"}}
Recorded == Live \ lost

LaunchesExclude == Cardinality(InFlight) + Cardinality(Recorded) <= 1

\* With every tab at rest and every child gone (its pid too), nothing refuses the next
\* launch: no claim in the name of the server is left behind, however tabs race, unless
\* an error left it there that spawn_launch does not clean up after: a read of the log,
\* an unlink of the claim, or both writes of a pid.
RestAllowsLaunch ==
    /\ ~stuck
    /\ \A t \in Tabs : tab[t] = "idle"
    /\ \A c \in Children : child[c] \in {"unborn", "gone"}
    => ~NamesALiveProcess

Alone == \E t \in Tabs : visitors = {t}

\* One tab that launches again and again never has two launches going, and none while
\* a child of an earlier one is alive whose pid it could write.
LaunchesExcludeAlone == Alone => LaunchesExclude

\* While tabs do not race, a failed spawn does not wipe the log of the launch before
\* it (once anything was launched the log belongs to some launch, except while one is
\* opening it and where the restore itself failed), and the run a user watches is the
\* one whose log is on the page: the child that holds the study lock writes it, unless
\* its pid could not be written.
LogSurvives ==
    Alone =>
        /\ (\A t \in Tabs : tab[t] # "start") /\ log = NoOne
               => unrestored \/ \A c \in Children : child[c] = "unborn"
        /\ studyLock \notin lost \cup {NoOne} => log = studyLock
=============================================================================
