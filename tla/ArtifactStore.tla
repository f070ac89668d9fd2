----------------------------- MODULE ArtifactStore -----------------------------
(***************************************************************************)
(* The execution-artifact store (thesistester/persistence/                 *)
(* execution_artifacts.py, execution_artifact_ops.py) under the loads of   *)
(* thesistester/api.py and the eviction the assistant can ask for.         *)
(*                                                                         *)
(* A dataset file has one path and, over time, several contents            *)
(* ("versions").  A data artifact is a directory keyed by the identity of  *)
(* the bars in it; a source binding is a file keyed by the hash of the     *)
(* source bytes that names such an identity.  The bars of a version are    *)
(* abstracted to the version itself.                                       *)
(*                                                                         *)
(* Loads touch an artifact or a binding only under its flock.  The listing *)
(* eviction starts from takes no lock, so the steps of a locked section    *)
(* that a listing can tell apart are steps of their own.                   *)
(***************************************************************************)
EXTENDS Naturals, FiniteSets

CONSTANTS
    Loaders,        \* processes that load the dataset
    Versions,       \* contents of the dataset file
    MaxEntries,     \* max_entries of the eviction
    EditMidLoad,    \* may the file change while a load is parsing or storing it?
    NoLoader, Nothing, Absent, Torn,
    MaxLoads, MaxEdits, MaxFaults   \* bounds on loads, on edits, and on
                                    \* crashes and failed writes together

ASSUME BoundsAssumption ==
    /\ MaxEntries \in Nat /\ MaxLoads \in Nat /\ MaxEdits \in Nat /\ MaxFaults \in Nat
    /\ EditMidLoad \in BOOLEAN
ASSUME SentinelAssumption ==
    /\ NoLoader \notin Loaders
    /\ {Nothing, Absent, Torn} \cap Versions = {}
    /\ Absent # Torn

VARIABLES
    source,     \* what the dataset file holds
    artifact,   \* data/<key>/
    binding,    \* source_index/<key>.json
    stamp,      \* accessed_at of what is stored (0: none to be read)
    temps,      \* staged .<key>.tmp.* directories whose writer died
    stray,      \* accessed_at of a <key>.tmp.<pid>.json whose writer died (0: none)
    lock,       \* holder of data-<key>.lock
    pc,         \* where a loader is
    policy,     \* its cache_policy
    bytes,      \* the source hash it looks its binding up by
    data,       \* the identity it has in hand
    onward,     \* where it goes once the manifest is touched
    window,     \* what source has held since its load began
    got,        \* what its load returned
    epc,        \* where the eviction is
    scan,       \* the items it has yet to inspect
    listed,     \* the records it keeps
    victims,    \* the records it has yet to delete
    quiet,      \* whether no load has been under way since it started
    clock, loads, edits, faults

recency == <<stamp, clock>>
debris  == <<temps, stray>>
store   == <<artifact, binding, recency, debris, lock>>
call    == <<policy, bytes, window, loads>>
evict   == <<epc, scan, listed, victims, quiet>>
world   == <<source, edits, faults>>
vars    == <<world, store, call, pc, data, onward, got, evict>>

-----------------------------------------------------------------------------
\* whole; manifest cut short; manifest there and other files gone; manifest gone
Directories == {"absent", "whole", "torn", "partial", "headless"}
Items   == {"data", "source_binding"} \X Versions
Stamps  == Nat
Records == [item : Items \cup ({"stray"} \X Versions), at : Stamps, used : Stamps]
Labels  == {"idle", "binding", "artifact", "touch", "rewrite", "invalidate", "parse",
            "store", "remove", "stage", "publish", "bind", "done"}

TypeOK ==
    /\ source \in Versions
    /\ artifact \in [Versions -> Directories]
    /\ binding \in [Versions -> Versions \cup {Absent, Torn}]
    /\ stamp \in [Items -> Stamps]
    /\ temps \in SUBSET Versions
    /\ stray \in [Versions -> Stamps]
    /\ lock \in [Versions -> Loaders \cup {NoLoader}]
    /\ pc \in [Loaders -> Labels]
    /\ policy \in [Loaders -> {"off", "read", "read_write"}]
    /\ bytes \in [Loaders -> Versions \cup {Nothing}]
    /\ data \in [Loaders -> Versions \cup {Nothing}]
    /\ onward \in [Loaders -> {"done", "bind"}]
    /\ window \in [Loaders -> SUBSET Versions]
    /\ got \in [Loaders -> Versions \cup {Nothing}]
    /\ epc \in {"idle", "scan", "delete"}
    /\ scan \in SUBSET Items
    /\ listed \in SUBSET Records
    /\ victims \in SUBSET Records
    /\ quiet \in BOOLEAN
    /\ clock \in Stamps
    /\ loads \in 0..MaxLoads /\ edits \in 0..MaxEdits /\ faults \in 0..MaxFaults

Init ==
    /\ source \in Versions
    /\ \E known \in {{}, {source}} :     \* an empty store, or one that has seen the file
          /\ artifact = [v \in Versions |-> IF v \in known THEN "whole" ELSE "absent"]
          /\ binding = [v \in Versions |-> IF v \in known THEN v ELSE Absent]
    /\ stamp = [x \in Items |-> 0]
    /\ temps = {}
    /\ stray = [v \in Versions |-> 0]
    /\ lock = [v \in Versions |-> NoLoader]
    /\ pc = [p \in Loaders |-> "idle"]
    /\ policy = [p \in Loaders |-> "off"]
    /\ bytes = [p \in Loaders |-> Nothing]
    /\ data = [p \in Loaders |-> Nothing]
    /\ onward = [p \in Loaders |-> "done"]
    /\ window = [p \in Loaders |-> {}]
    /\ got = [p \in Loaders |-> Nothing]
    /\ epc = "idle"
    /\ scan = {} /\ listed = {} /\ victims = {}
    /\ quiet = TRUE
    /\ clock = 0 /\ loads = 0 /\ edits = 0 /\ faults = 0

-----------------------------------------------------------------------------
(* The user *)

\* A load between the parse of the file and the binding of its hash.
Storing(p) == pc[p] \in {"store", "remove", "stage", "publish", "bind"}
              \/ (pc[p] \in {"touch", "rewrite"} /\ onward[p] = "bind")

\* The dataset file is saved with other bars in it.
Edit ==
    /\ edits < MaxEdits
    /\ EditMidLoad \/ \A p \in Loaders : ~Storing(p)
    /\ source' \in Versions \ {source}
    /\ window' = [p \in Loaders |-> IF window[p] = {} THEN {}
                                    ELSE window[p] \cup {source'}]
    /\ edits' = edits + 1
    /\ UNCHANGED <<store, pc, policy, bytes, data, onward, got, loads, evict, faults>>

-----------------------------------------------------------------------------
(* _load_experiment_data *)

Goto(p, l) == pc' = [pc EXCEPT ![p] = l]

Stamp(x) == /\ clock' = clock + 1
            /\ stamp' = [stamp EXCEPT ![x] = clock + 1]

\* Every policy but "off" hashes the source and looks its binding up.
StartLoad(p) ==
    /\ pc[p] = "idle" /\ loads < MaxLoads
    /\ \E c \in {"off", "read", "read_write"} :
          /\ policy' = [policy EXCEPT ![p] = c]
          /\ Goto(p, IF c = "off" THEN "parse" ELSE "binding")
          /\ bytes' = [bytes EXCEPT ![p] = IF c = "off" THEN Nothing ELSE source]
    /\ window' = [window EXCEPT ![p] = {source}]
    /\ loads' = loads + 1
    /\ quiet' = FALSE
    /\ UNCHANGED <<world, store, data, onward, got, epc, scan, listed, victims>>

\* read_source_data_binding: a hit rewrites the binding to count the access.
ReadBinding(p) ==
    /\ pc[p] = "binding"
    /\ IF binding[bytes[p]] \in Versions
       THEN /\ data' = [data EXCEPT ![p] = binding[bytes[p]]]
            /\ Stamp(<<"source_binding", bytes[p]>>)
            /\ Goto(p, "artifact")
       ELSE /\ Goto(p, "parse")
            /\ UNCHANGED <<data, recency>>
    /\ UNCHANGED <<world, artifact, binding, debris, lock, call, onward, got, evict>>

\* The rewrite in place raises, and the hit is returned: the binding stays cut short.
ReadBindingUncounted(p) ==
    /\ faults < MaxFaults
    /\ pc[p] = "binding"
    /\ binding[bytes[p]] \in Versions
    /\ data' = [data EXCEPT ![p] = binding[bytes[p]]]
    /\ binding' = [binding EXCEPT ![bytes[p]] = Torn]
    /\ stamp' = [stamp EXCEPT ![<<"source_binding", bytes[p]>>] = 0]
    /\ Goto(p, "artifact")
    /\ faults' = faults + 1
    /\ UNCHANGED <<source, edits, artifact, clock, debris, lock, call, onward, got, evict>>

Take(p, v) == /\ lock[v] = NoLoader
              /\ lock' = [lock EXCEPT ![v] = p]
Drop(v) == lock' = [lock EXCEPT ![v] = NoLoader]

\* read_verified_data_artifact: anything but a whole artifact is a miss.
ReadArtifact(p) ==
    /\ pc[p] = "artifact"
    /\ lock[data[p]] = NoLoader
    /\ IF artifact[data[p]] = "whole"
       THEN /\ Take(p, data[p])
            /\ Goto(p, "touch")
            /\ onward' = [onward EXCEPT ![p] = "done"]
       ELSE /\ Goto(p, "invalidate")
            /\ UNCHANGED <<lock, onward>>
    /\ UNCHANGED <<world, artifact, binding, recency, debris, call, data, got, evict>>

\* Mutant: the lock is released before the manifest is touched.
TouchUnlocked(p) ==
    /\ pc[p] = "touch"
    /\ artifact' = [artifact EXCEPT ![data[p]] = "torn"]
    /\ Goto(p, "rewrite")
    /\ Drop(data[p])
    /\ UNCHANGED <<world, binding, recency, debris, call, data, onward, got, evict>>

\* _touch_accessed_at rewrites the manifest in place: it is cut to nothing ...
Touch(p) ==
    /\ pc[p] = "touch"
    /\ artifact' = [artifact EXCEPT ![data[p]] = "torn"]
    /\ Goto(p, "rewrite")
    /\ UNCHANGED <<world, binding, recency, debris, lock, call, data, onward, got, evict>>

\* The artifact has been verified: the lock is released and the load goes on.
Verified(p) ==
    /\ Drop(data[p])
    /\ Goto(p, onward[p])
    /\ got' = IF onward[p] = "done" THEN [got EXCEPT ![p] = data[p]] ELSE got

\* ... and then written.
Rewrite(p) ==
    /\ pc[p] = "rewrite"
    /\ artifact' = [artifact EXCEPT ![data[p]] = "whole"]
    /\ Stamp(<<"data", data[p]>>)
    /\ Verified(p)
    /\ UNCHANGED <<world, binding, debris, call, data, onward, evict>>

\* The write raises, which _verify_data_dir takes for a hit that is not counted: the
\* manifest stays cut short.
RewriteFails(p) ==
    /\ faults < MaxFaults
    /\ pc[p] = "rewrite"
    /\ stamp' = [stamp EXCEPT ![<<"data", data[p]>>] = 0]
    /\ Verified(p)
    /\ faults' = faults + 1
    /\ UNCHANGED <<source, edits, artifact, binding, clock, debris, call, data, onward, evict>>

\* invalidate_source_data_binding hashes the file again.
Invalidate(p) ==
    /\ pc[p] = "invalidate"
    /\ binding' = [binding EXCEPT ![source] = Absent]
    /\ Goto(p, "parse")
    /\ UNCHANGED <<world, artifact, recency, debris, lock, call, data, onward, got, evict>>

\* load_dataset and the identity of what it read.
Parse(p) ==
    /\ pc[p] = "parse"
    /\ data' = [data EXCEPT ![p] = source]
    /\ IF policy[p] = "read_write"
       THEN Goto(p, "store") /\ UNCHANGED got
       ELSE Goto(p, "done") /\ got' = [got EXCEPT ![p] = source]
    /\ UNCHANGED <<world, store, call, onward, evict>>

\* Mutant: what is stored already is not looked at before it is replaced.
WriteOver(p) ==
    /\ pc[p] = "store"
    /\ Take(p, data[p])
    /\ onward' = [onward EXCEPT ![p] = "bind"]
    /\ Goto(p, IF artifact[data[p]] # "absent" THEN "remove" ELSE "stage")
    /\ UNCHANGED <<world, artifact, binding, recency, debris, call, data, got, evict>>

\* write_data_artifact: a whole artifact is reused, another is removed.
Write(p) ==
    /\ pc[p] = "store"
    /\ Take(p, data[p])
    /\ onward' = [onward EXCEPT ![p] = "bind"]
    /\ Goto(p, CASE artifact[data[p]] = "whole"  -> "touch"
                 [] artifact[data[p]] = "absent" -> "stage"
                 [] OTHER -> "remove")
    /\ UNCHANGED <<world, artifact, binding, recency, debris, call, data, got, evict>>

Remove(p) ==
    /\ pc[p] = "remove"
    /\ artifact' = [artifact EXCEPT ![data[p]] = "absent"]
    /\ Goto(p, "stage")
    /\ UNCHANGED <<world, binding, recency, debris, lock, call, data, onward, got, evict>>

\* stage_data_artifact fills a temporary directory ...
Stage(p) ==
    /\ pc[p] = "stage"
    /\ Goto(p, "publish")
    /\ UNCHANGED <<world, store, call, data, onward, got, evict>>

\* ... which _publish_directory renames; the verification that follows touches it.
Publish(p) ==
    /\ pc[p] = "publish"
    /\ artifact' = [artifact EXCEPT ![data[p]] = "whole"]
    /\ Stamp(<<"data", data[p]>>)
    /\ Goto(p, "touch")
    /\ UNCHANGED <<world, binding, debris, lock, call, data, onward, got, evict>>

\* Mutant: the binding is keyed by the hash it was looked up by, taken before the parse.
BindLookedUp(p) ==
    /\ pc[p] = "bind"
    /\ LET h == IF bytes[p] = Nothing THEN source ELSE bytes[p] IN
       /\ binding' = [binding EXCEPT ![h] = data[p]]
       /\ Stamp(<<"source_binding", h>>)
    /\ got' = [got EXCEPT ![p] = data[p]]
    /\ Goto(p, "done")
    /\ UNCHANGED <<world, artifact, debris, lock, call, data, onward, evict>>

\* write_source_data_binding hashes the file once more.
Bind(p) ==
    /\ pc[p] = "bind"
    /\ binding' = [binding EXCEPT ![source] = data[p]]
    /\ Stamp(<<"source_binding", source>>)
    /\ got' = [got EXCEPT ![p] = data[p]]
    /\ Goto(p, "done")
    /\ UNCHANGED <<world, artifact, debris, lock, call, data, onward, evict>>

\* The load is over; its locals are gone.
Forget(p) ==
    /\ Goto(p, "idle")
    /\ policy' = [policy EXCEPT ![p] = "off"]
    /\ bytes' = [bytes EXCEPT ![p] = Nothing]
    /\ data' = [data EXCEPT ![p] = Nothing]
    /\ onward' = [onward EXCEPT ![p] = "done"]
    /\ window' = [window EXCEPT ![p] = {}]
    /\ got' = [got EXCEPT ![p] = Nothing]
    /\ UNCHANGED <<source, edits, loads, evict>>

Return(p) ==
    /\ pc[p] = "done"
    /\ Forget(p)
    /\ UNCHANGED <<store, faults>>

\* Staging or the rename raised: the temporary directory goes, the error propagates.
WriteFails(p) ==
    /\ faults < MaxFaults
    /\ pc[p] = "publish"
    /\ Drop(data[p])
    /\ Forget(p)
    /\ faults' = faults + 1
    /\ UNCHANGED <<artifact, binding, recency, debris>>

\* The process dies: the kernel drops its flock, what it was writing stays as it is.
Crash(p) ==
    /\ faults < MaxFaults
    /\ pc[p] \notin {"idle", "done"}
    /\ \/ /\ pc[p] = "rewrite"
          /\ stamp' = [stamp EXCEPT ![<<"data", data[p]>>] = 0]
          /\ UNCHANGED <<artifact, binding, debris, clock>>
       \/ /\ pc[p] = "remove"
          /\ \E d \in {"partial", "headless"} : artifact' = [artifact EXCEPT ![data[p]] = d]
          /\ UNCHANGED <<binding, recency, debris>>
       \/ /\ pc[p] = "publish"
          /\ temps' = temps \cup {data[p]}
          /\ UNCHANGED <<artifact, binding, recency, stray>>
       \/ /\ pc[p] = "binding"
          /\ binding[bytes[p]] \in Versions
          /\ binding' = [binding EXCEPT ![bytes[p]] = Torn]
          /\ stamp' = [stamp EXCEPT ![<<"source_binding", bytes[p]>>] = 0]
          /\ UNCHANGED <<artifact, debris, clock>>
       \/ /\ pc[p] = "bind"
          /\ clock' = clock + 1
          /\ stray' = [stray EXCEPT ![source] = clock + 1]
          /\ UNCHANGED <<artifact, binding, stamp, temps>>
       \/ /\ pc[p] \notin {"rewrite", "publish"}
          /\ UNCHANGED <<artifact, binding, recency, debris>>
    /\ lock' = [v \in Versions |-> IF lock[v] = p THEN NoLoader ELSE lock[v]]
    /\ Forget(p)
    /\ faults' = faults + 1

-----------------------------------------------------------------------------
(* evict_execution_artifacts(max_entries = MaxEntries) *)

StartEvict ==
    /\ epc = "idle"
    /\ epc' = "scan"
    /\ scan' = Items
    /\ quiet' = \A p \in Loaders : pc[p] = "idle"
    /\ UNCHANGED <<world, store, call, pc, data, onward, got, listed, victims>>

\* _inspect_dir_artifact: a manifest that does not parse is listed with no date.
DataRecords(v) ==
    IF artifact[v] \in {"absent", "headless"} THEN {}
    ELSE {[item |-> <<"data", v>>,
           at   |-> IF artifact[v] = "torn" THEN 0 ELSE stamp[<<"data", v>>],
           used |-> stamp[<<"data", v>>]]}

\* _inspect_source_binding: any *.json is listed, and a temporary file a dead
\* writer left is one, under the key of the binding it was meant to become.
BindingRecords(v) ==
    (IF binding[v] = Absent THEN {}
     ELSE {[item |-> <<"source_binding", v>>,
            at   |-> stamp[<<"source_binding", v>>],
            used |-> stamp[<<"source_binding", v>>]]})
    \cup (IF stray[v] = 0 THEN {}
          ELSE {[item |-> <<"stray", v>>, at |-> stray[v], used |-> stray[v]]})

\* list_execution_artifacts, one entry after the other, data/ first; no lock.
Inspect(x) ==
    /\ epc = "scan" /\ x \in scan
    /\ x[1] = "source_binding" => \A v \in Versions : <<"data", v>> \notin scan
    /\ listed' = listed \cup (IF x[1] = "data" THEN DataRecords(x[2]) ELSE BindingRecords(x[2]))
    /\ scan' = scan \ {x}
    /\ UNCHANGED <<world, store, call, pc, data, onward, got, epc, victims, quiet>>

Overflow(n) == IF n > MaxEntries THEN n - MaxEntries ELSE 0

\* Mutant: one too few.
SelectOneLess(V) ==
    /\ Cardinality(V) = Overflow(Cardinality(listed) - 1)
    /\ \A x \in V, y \in listed \ V : x.at <= y.at

\* select_eviction_victims with max_entries alone.
Oldest(V) ==
    /\ Cardinality(V) = Overflow(Cardinality(listed))
    /\ \A x \in V, y \in listed \ V : x.at <= y.at

SelectVictims ==
    /\ epc = "scan" /\ scan = {}
    /\ epc' = "delete"
    /\ \E V \in SUBSET listed : Oldest(V) /\ victims' = V /\ listed' = listed \ V
    /\ UNCHANGED <<world, store, call, pc, data, onward, got, scan, quiet>>

\* delete_execution_artifact goes by the record's key, under that key's lock.
Delete(x) ==
    /\ epc = "delete" /\ x \in victims
    /\ IF x.item[1] = "data"
       THEN /\ lock[x.item[2]] = NoLoader
            /\ artifact' = [artifact EXCEPT ![x.item[2]] = "absent"]
            /\ UNCHANGED binding
       ELSE /\ binding' = [binding EXCEPT ![x.item[2]] = Absent]
            /\ UNCHANGED artifact
    /\ victims' = victims \ {x}
    /\ UNCHANGED <<world, recency, debris, lock, call, pc, data, onward, got,
                   epc, scan, listed, quiet>>

FinishEvict ==
    /\ epc' = "idle" /\ scan' = {} /\ listed' = {} /\ victims' = {} /\ quiet' = TRUE
    /\ UNCHANGED <<source, edits, lock, recency, debris, call, pc, data, onward, got>>

EndEvict ==
    /\ epc = "delete" /\ victims = {}
    /\ FinishEvict
    /\ UNCHANGED <<artifact, binding, faults>>

\* The eviction dies or fails in the middle of a tree it was removing.
EvictFails ==
    /\ epc = "delete"
    /\ faults < MaxFaults
    /\ \E x \in victims, d \in {"partial", "headless"} :
          /\ x.item[1] = "data" /\ lock[x.item[2]] = NoLoader
          /\ artifact[x.item[2]] # "absent"
          /\ artifact' = [artifact EXCEPT ![x.item[2]] = d]
    /\ FinishEvict
    /\ faults' = faults + 1
    /\ UNCHANGED binding

-----------------------------------------------------------------------------
Load(p) ==
    \/ ReadBinding(p) \/ ReadArtifact(p) \/ Touch(p) \/ Rewrite(p) \/ Invalidate(p)
    \/ Parse(p) \/ Write(p) \/ Remove(p) \/ Stage(p) \/ Publish(p) \/ Bind(p) \/ Return(p)

Fault(p) == ReadBindingUncounted(p) \/ RewriteFails(p) \/ WriteFails(p) \/ Crash(p)

Evict == SelectVictims \/ EndEvict \/ (\E x \in Items : Inspect(x)) \/ (\E x \in victims : Delete(x))

Next ==
    \/ Edit \/ StartEvict \/ Evict \/ EvictFails
    \/ \E p \in Loaders : StartLoad(p) \/ Load(p) \/ Fault(p)

Spec == Init /\ [][Next]_vars

-----------------------------------------------------------------------------
(* Properties *)

\* A load returns the bars of bytes the file held during that load: neither an
\* eviction, a crash nor another load makes it serve what the file held before
\* (docs/CLASSIC_ASSISTANT_INTEGRATION_PLAN.md, "never a failed or stale hit").
Reads == INSTANCE SourceReads
KeepsItsPromise == Reads!Spec

\* The same of one state: what a load has returned was in the file while it ran
\* (_load_experiment_data, the warm path in particular).
LoadsAreCurrent == \A p \in Loaders : got[p] # Nothing => got[p] \in window[p]

\* An artifact that is there for a reader stays there through every write of the same
\* key (write_data_artifact verifies under the lock before it removes anything): only
\* an eviction takes it away, or the load that counts its access, if it dies between
\* the truncation of the manifest and the write or if that write raises.
Counted(v) == \E p \in Loaders : lock[v] = p /\ pc[p] = "rewrite" /\ data[p] = v
Readable(v) == artifact[v] = "whole" \/ Counted(v)
OnlyEvictionLoses ==
    [][\A v \in Versions : Readable(v) /\ ~Readable(v)' =>
           epc = "delete" \/ (Counted(v) /\ faults' > faults)]_vars

\* A flock is held exactly from the verification to the release of the same load: a
\* load that misses, raises or moves on keeps none, so no later one waits on it.
LocksAreReturned ==
    \A v \in Versions, p \in Loaders :
        lock[v] = p <=> /\ data[p] = v
                        /\ pc[p] \in {"touch", "rewrite", "remove", "stage", "publish"}

\* A directory that is neither whole nor absent is being worked on under its lock, or
\* a fault, a death or a write that raised, has left it so (the next locked section
\* that stores the key repairs it), and the lock is that of a load in its locked
\* section: without faults no damage stays behind, and no lock ever does.
DamageIsOwned ==
    /\ LocksAreReturned
    /\ faults = 0 => \A v \in Versions :
           artifact[v] \notin {"whole", "absent"} => lock[v] # NoLoader

\* An eviction no load ran beside leaves at most max_entries artifacts and bindings
\* (evict_execution_artifacts); of the temporary files of dead writers, which are
\* listed and counted as well, it may leave more.
Stored == {x \in Items : IF x[1] = "data" THEN artifact[x[2]] \notin {"absent", "headless"}
                         ELSE binding[x[2]] # Absent}
EvictionBounds ==
    [][epc = "delete" /\ epc' = "idle" /\ faults' = faults /\ quiet
           => Cardinality(Stored) <= MaxEntries]_vars
=============================================================================
