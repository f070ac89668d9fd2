-------------------------- MODULE ArtifactStoreProofs --------------------------
(***************************************************************************)
(* What the store of execution artifacts keeps to, for any number of       *)
(* loads, versions of the file, evictions, crashes and failed writes.      *)
(***************************************************************************)
EXTENDS ArtifactStore, FiniteSetTheorems, TLAPS

\* Inside the flock of a key.
Locked == {"touch", "rewrite", "remove", "stage", "publish"}

\* What a locked section has found or made of the directory.
Section(p) ==
    /\ pc[p] = "touch" => artifact[data[p]] = "whole"
    /\ pc[p] = "rewrite" => artifact[data[p]] = "torn"
    /\ pc[p] = "remove" => artifact[data[p]] \notin {"whole", "absent"}
    /\ pc[p] \in {"stage", "publish"} => artifact[data[p]] = "absent"
    /\ pc[p] \in Locked \cup {"artifact", "store", "bind"} => data[p] \in Versions

Protected ==
    /\ TypeOK
    /\ DamageIsOwned
    /\ \A p \in Loaders : Section(p)

-----------------------------------------------------------------------------
(* Types *)

LEMMA RecordTypes ==
    ASSUME TypeOK, NEW v \in Versions
    PROVE  DataRecords(v) \subseteq Records /\ BindingRecords(v) \subseteq Records
<1>1. <<"data", v>> \in Items /\ <<"source_binding", v>> \in Items
  BY DEF Items
<1>2. stamp[<<"data", v>>] \in Nat /\ stamp[<<"source_binding", v>>] \in Nat /\ stray[v] \in Nat
  BY <1>1 DEF TypeOK, Stamps
<1> QED
  BY <1>1, <1>2 DEF DataRecords, BindingRecords, Records, Stamps

LEMMA TypeInit == Init => TypeOK
  BY BoundsAssumption DEF Init, TypeOK, Directories, Stamps, Labels

LEMMA ForgetTypes ==
    ASSUME TypeOK, NEW p \in Loaders, Forget(p)
    PROVE  /\ pc' \in [Loaders -> Labels]
           /\ policy' \in [Loaders -> {"off", "read", "read_write"}]
           /\ bytes' \in [Loaders -> Versions \cup {Nothing}]
           /\ data' \in [Loaders -> Versions \cup {Nothing}]
           /\ onward' \in [Loaders -> {"done", "bind"}]
           /\ window' \in [Loaders -> SUBSET Versions]
           /\ got' \in [Loaders -> Versions \cup {Nothing}]
  BY DEF TypeOK, Forget, Goto, Labels

LEMMA StampTypes ==
    ASSUME TypeOK, NEW x, Stamp(x)
    PROVE  stamp' \in [Items -> Stamps] /\ clock' \in Stamps
<1>1. clock + 1 \in Nat
  BY DEF TypeOK, Stamps
<1> QED
  BY <1>1 DEF TypeOK, Stamp, Stamps

LEMMA TypeStep ==
    ASSUME TypeOK, \A p \in Loaders : Section(p), [Next]_vars
    PROVE  TypeOK'
<1> USE BoundsAssumption
<1>1. CASE UNCHANGED vars
  BY <1>1 DEF TypeOK, vars, world, store, recency, debris, call, evict
<1>2. CASE Edit
  BY <1>2 DEF TypeOK, Edit, store, recency, debris, evict
<1>3. CASE StartEvict
  BY <1>3 DEF TypeOK, StartEvict, world, store, recency, debris, call
<1>4. CASE SelectVictims
  BY <1>4 DEF TypeOK, SelectVictims, world, store, recency, debris, call
<1>5. CASE EndEvict
  BY <1>5 DEF TypeOK, EndEvict, FinishEvict, recency, debris, call
<1>6. CASE EvictFails
  <2>1. artifact' \in [Versions -> Directories] /\ faults' \in 0..MaxFaults
    <3>1. PICK x \in victims, d \in {"partial", "headless"} :
              artifact' = [artifact EXCEPT ![x.item[2]] = d]
      BY <1>6 DEF EvictFails
    <3>2. d \in Directories
      BY DEF Directories
    <3>3. artifact' \in [Versions -> Directories]
      BY <3>1, <3>2 DEF TypeOK
    <3>4. faults' \in 0..MaxFaults
      BY <1>6 DEF EvictFails, TypeOK
    <3> QED
      BY <3>3, <3>4
  <2> QED
    BY <1>6, <2>1 DEF TypeOK, EvictFails, FinishEvict, recency, debris, call
<1>7. ASSUME NEW x \in Items, Inspect(x) PROVE TypeOK'
  <2>1. x[2] \in Versions
    BY DEF Items
  <2>2. listed' \subseteq Records
    BY <1>7, <2>1, RecordTypes DEF Inspect, TypeOK
  <2> QED
    BY <1>7, <2>2 DEF Inspect, TypeOK, world, store, recency, debris, call
<1>8. ASSUME NEW x \in victims, Delete(x) PROVE TypeOK'
  BY <1>8 DEF Delete, TypeOK, world, recency, debris, call, Directories
<1>9. ASSUME NEW p \in Loaders, StartLoad(p) PROVE TypeOK'
  <2>1. /\ policy' \in [Loaders -> {"off", "read", "read_write"}]
        /\ pc' \in [Loaders -> Labels]
        /\ bytes' \in [Loaders -> Versions \cup {Nothing}]
        /\ window' \in [Loaders -> SUBSET Versions]
    BY <1>9 DEF StartLoad, Goto, TypeOK, Labels
  <2>2. loads' \in 0..MaxLoads
    BY <1>9 DEF StartLoad, TypeOK
  <2> QED
    BY <1>9, <2>1, <2>2 DEF StartLoad, TypeOK, world, store, recency, debris
<1>10. ASSUME NEW p \in Loaders, ReadBinding(p) PROVE TypeOK'
  <2>1. stamp' \in [Items -> Stamps] /\ clock' \in Stamps
    <3>1. CASE UNCHANGED recency
      BY <3>1 DEF TypeOK, recency
    <3>2. CASE Stamp(<<"source_binding", bytes[p]>>)
      BY <3>2, StampTypes
    <3> QED
      BY <1>10, <3>1, <3>2 DEF ReadBinding
  <2> QED
    BY <1>10, <2>1 DEF ReadBinding, Goto, TypeOK, world, debris, call, evict, Labels
<1>11. ASSUME NEW p \in Loaders, ReadArtifact(p) PROVE TypeOK'
  BY <1>11 DEF ReadArtifact, Take, Goto, TypeOK, world, recency, debris, call, evict, Labels
<1>12. ASSUME NEW p \in Loaders, Touch(p) PROVE TypeOK'
  BY <1>12 DEF Touch, Goto, TypeOK, world, recency, debris, call, evict, Labels, Directories
<1>13. ASSUME NEW p \in Loaders, Rewrite(p) PROVE TypeOK'
  <2>1. stamp' \in [Items -> Stamps] /\ clock' \in Stamps
    BY <1>13, StampTypes DEF Rewrite
  <2> QED
    BY <1>13, <2>1 DEF Rewrite, Verified, Drop, Goto, TypeOK, world, debris, call, evict, Labels, Directories
<1>14. ASSUME NEW p \in Loaders, Invalidate(p) PROVE TypeOK'
  BY <1>14 DEF Invalidate, Goto, TypeOK, world, recency, debris, call, evict, Labels
<1>15. ASSUME NEW p \in Loaders, Parse(p) PROVE TypeOK'
  BY <1>15 DEF Parse, Goto, TypeOK, world, store, recency, debris, call, evict, Labels
<1>16. ASSUME NEW p \in Loaders, Write(p) PROVE TypeOK'
  BY <1>16 DEF Write, Take, Goto, TypeOK, world, recency, debris, call, evict, Labels
<1>17. ASSUME NEW p \in Loaders, Remove(p) PROVE TypeOK'
  BY <1>17 DEF Remove, Goto, TypeOK, world, recency, debris, call, evict, Labels, Directories
<1>18. ASSUME NEW p \in Loaders, Stage(p) PROVE TypeOK'
  BY <1>18 DEF Stage, Goto, TypeOK, world, store, recency, debris, call, evict, Labels
<1>19. ASSUME NEW p \in Loaders, Publish(p) PROVE TypeOK'
  <2>1. stamp' \in [Items -> Stamps] /\ clock' \in Stamps
    BY <1>19, StampTypes DEF Publish
  <2> QED
    BY <1>19, <2>1 DEF Publish, Goto, TypeOK, world, debris, call, evict, Labels, Directories
<1>20. ASSUME NEW p \in Loaders, Bind(p) PROVE TypeOK'
  <2>1. stamp' \in [Items -> Stamps] /\ clock' \in Stamps
    BY <1>20, StampTypes DEF Bind
  <2> QED
    BY <1>20, <2>1 DEF Bind, Goto, TypeOK, world, debris, call, evict, Labels, Section
<1>21. ASSUME NEW p \in Loaders, Return(p) PROVE TypeOK'
  BY <1>21, ForgetTypes DEF Return, Forget, TypeOK, store, recency, debris, evict
<1>22. ASSUME NEW p \in Loaders, WriteFails(p) PROVE TypeOK'
  <2>1. lock' \in [Versions -> Loaders \cup {NoLoader}]
    BY <1>22 DEF WriteFails, Drop, TypeOK
  <2>2. faults' \in 0..MaxFaults
    BY <1>22 DEF WriteFails, TypeOK
  <2> QED
    BY <1>22, <2>1, <2>2, ForgetTypes DEF WriteFails, Forget, TypeOK, recency, debris, evict
<1>23. ASSUME NEW p \in Loaders, Crash(p) PROVE TypeOK'
  <2>1. /\ artifact' \in [Versions -> Directories]
        /\ binding' \in [Versions -> Versions \cup {Absent, Torn}]
    BY <1>23 DEF Crash, TypeOK, Directories
  <2>3. stamp' \in [Items -> Stamps]
    BY <1>23 DEF Crash, TypeOK, recency, Stamps
  <2>4. clock' \in Stamps /\ stray' \in [Versions -> Stamps]
    <3>1. clock + 1 \in Nat
      BY DEF TypeOK, Stamps
    <3> QED
      BY <1>23, <3>1 DEF Crash, TypeOK, recency, debris, Stamps
  <2>5. temps' \in SUBSET Versions
    BY <1>23 DEF Crash, TypeOK, debris, Section, Locked
  <2>2. lock' \in [Versions -> Loaders \cup {NoLoader}] /\ faults' \in 0..MaxFaults
    BY <1>23 DEF Crash, TypeOK
  <2> QED
    BY <1>23, <2>1, <2>2, <2>3, <2>4, <2>5, ForgetTypes DEF Crash, Forget, TypeOK, evict
<1>24. ASSUME NEW p \in Loaders, ReadBindingUncounted(p) PROVE TypeOK'
  <2>1. /\ binding' \in [Versions -> Versions \cup {Absent, Torn}]
        /\ data' \in [Loaders -> Versions \cup {Nothing}]
    BY <1>24 DEF ReadBindingUncounted, TypeOK
  <2>2. stamp' \in [Items -> Stamps]
    BY <1>24 DEF ReadBindingUncounted, TypeOK, Stamps
  <2>3. faults' \in 0..MaxFaults
    BY <1>24 DEF ReadBindingUncounted, TypeOK
  <2> QED
    BY <1>24, <2>1, <2>2, <2>3 DEF ReadBindingUncounted, Goto, TypeOK, debris, call, evict, Labels
<1>25. ASSUME NEW p \in Loaders, RewriteFails(p) PROVE TypeOK'
  <2>1. stamp' \in [Items -> Stamps]
    BY <1>25 DEF RewriteFails, TypeOK, Stamps
  <2>3. faults' \in 0..MaxFaults
    BY <1>25 DEF RewriteFails, TypeOK
  <2> QED
    BY <1>25, <2>1, <2>3 DEF RewriteFails, Verified, Drop, Goto, TypeOK, debris, call, evict, Labels
<1> QED
  BY <1>1, <1>2, <1>3, <1>4, <1>5, <1>6, <1>7, <1>8, <1>9, <1>10, <1>11, <1>12, <1>13,
     <1>14, <1>15, <1>16, <1>17, <1>18, <1>19, <1>20, <1>21, <1>22, <1>23, <1>24, <1>25
     DEF Next, Evict, Load, Fault

-----------------------------------------------------------------------------
(* Locks and what they protect *)

\* All of a step that the locks and the directories can tell.
Effect(p, free) ==
    /\ \A q \in Loaders \ {p} : pc'[q] = pc[q] /\ data'[q] = data[q]
    /\ \A v \in Versions : lock[v] \notin free => lock'[v] = lock[v] /\ artifact'[v] = artifact[v]
    /\ faults' >= faults

\* What a step leaves to those who read, whatever it does.
ReadersKeep ==
    \A v \in Versions : Readable(v) /\ ~Readable(v)' =>
        epc = "delete" \/ (Counted(v) /\ faults' > faults)

\* A step outside any lock.
LEMMA UnlockedStep ==
    ASSUME Protected, TypeOK', NEW p \in Loaders, Effect(p, {}),
           pc[p] \notin Locked, pc'[p] \notin Locked,
           pc'[p] \in {"artifact", "store", "bind"} => data'[p] \in Versions
    PROVE  DamageIsOwned' /\ (\A q \in Loaders : Section(q)') /\ ReadersKeep
<1> USE DEF Effect, Protected
<1>1. LocksAreReturned'
  BY DEF DamageIsOwned, LocksAreReturned, Locked
<1>2. ASSUME NEW q \in Loaders PROVE Section(q)'
  BY DEF Section, Locked
<1>3. ASSUME faults' = 0, NEW v \in Versions, artifact'[v] \notin {"whole", "absent"}
      PROVE  lock'[v] # NoLoader
  BY <1>3 DEF DamageIsOwned, TypeOK
<1>4. ReadersKeep
  BY DEF ReadersKeep, Readable, Counted, Locked
<1> QED
  BY <1>1, <1>2, <1>3, <1>4 DEF DamageIsOwned

\* A step of a locked section, its first and last among them.
LEMMA LockedStep ==
    ASSUME Protected, TypeOK', NEW p \in Loaders, NEW v \in Versions,
           data[p] = v, data'[p] = v, lock[v] \in {p, NoLoader},
           \A q \in Loaders \ {p} : pc'[q] = pc[q] /\ data'[q] = data[q],
           \A u \in Versions \ {v} : lock'[u] = lock[u] /\ artifact'[u] = artifact[u],
           lock'[v] = IF pc'[p] \in Locked THEN p ELSE NoLoader,
           Section(p)', faults' >= faults,
           artifact[v] = "whole" \/ pc[p] = "rewrite" =>
               \/ artifact'[v] = "whole" \/ pc'[p] = "rewrite"
               \/ pc[p] = "rewrite" /\ faults' > faults,
           pc'[p] \notin Locked => artifact'[v] \in {"whole", "absent"} \/ faults' > faults
    PROVE  DamageIsOwned' /\ (\A q \in Loaders : Section(q)') /\ ReadersKeep
<1> USE SentinelAssumption DEF Protected
<1>1. LocksAreReturned'
  <2> SUFFICES ASSUME NEW u \in Versions, NEW q \in Loaders
               PROVE  lock'[u] = q <=> data'[q] = u /\ pc'[q] \in Locked
    BY DEF LocksAreReturned, Locked
  <2>1. lock[u] = q <=> data[q] = u /\ pc[q] \in Locked
    BY DEF DamageIsOwned, LocksAreReturned, Locked
  <2> QED
    BY <2>1
<1>2. ASSUME NEW q \in Loaders PROVE Section(q)'
  <2>1. CASE q # p /\ data[q] = v
    <3>1. pc[q] \notin Locked
      BY <2>1 DEF DamageIsOwned, LocksAreReturned, Locked
    <3> QED
      BY <2>1, <3>1 DEF Section, Locked
  <2>2. CASE q # p /\ data[q] # v
    BY <2>2 DEF Section, Locked
  <2> QED
    BY <2>1, <2>2
<1>3. ASSUME faults' = 0, NEW u \in Versions, artifact'[u] \notin {"whole", "absent"}
      PROVE  lock'[u] # NoLoader
  BY <1>3 DEF DamageIsOwned, TypeOK
<1>4. ASSUME NEW u \in Versions, Readable(u)
      PROVE  Readable(u)' \/ (Counted(u) /\ faults' > faults)
  <2>1. CASE u # v
    <3>1. \A q \in Loaders : lock[u] = q /\ pc[q] = "rewrite" => q # p
      BY <2>1 DEF DamageIsOwned, LocksAreReturned
    <3> QED
      BY <1>4, <2>1, <3>1 DEF Readable, Counted
  <2>2. CASE u = v
    <3>1. pc[p] \in Locked <=> lock[v] = p
      BY DEF DamageIsOwned, LocksAreReturned, Locked
    <3>2. artifact[v] = "whole" \/ pc[p] = "rewrite"
      BY <1>4, <2>2 DEF Readable, Counted
    <3> QED
      BY <1>4, <2>2, <3>1, <3>2 DEF Readable, Counted, Locked
  <2> QED
    BY <2>1, <2>2
<1> QED
  BY <1>1, <1>2, <1>3, <1>4 DEF DamageIsOwned, ReadersKeep

\* A load that fails or dies, whatever it leaves behind under its own lock.
LEMMA FaultStep ==
    ASSUME Protected, TypeOK', NEW p \in Loaders, Effect(p, {p}),
           \A v \in Versions : lock[v] = p => lock'[v] = NoLoader,
           \A v \in Versions : artifact'[v] # artifact[v] => artifact[v] # "whole",
           pc'[p] = "idle", faults' > faults
    PROVE  DamageIsOwned' /\ (\A q \in Loaders : Section(q)') /\ ReadersKeep
<1> USE SentinelAssumption DEF Protected, Effect
<1>1. LocksAreReturned'
  <2> SUFFICES ASSUME NEW u \in Versions, NEW q \in Loaders
               PROVE  lock'[u] = q <=> data'[q] = u /\ pc'[q] \in Locked
    BY DEF LocksAreReturned, Locked
  <2>1. lock[u] = q <=> data[q] = u /\ pc[q] \in Locked
    BY DEF DamageIsOwned, LocksAreReturned, Locked
  <2>2. lock[u] = p <=> data[p] = u /\ pc[p] \in Locked
    BY DEF DamageIsOwned, LocksAreReturned, Locked
  <2> QED
    BY <2>1, <2>2 DEF Locked
<1>2. ASSUME NEW q \in Loaders PROVE Section(q)'
  <2>1. CASE q # p /\ pc[q] \in Locked
    <3>1. data[q] \in Versions /\ lock[data[q]] = q
      BY <2>1 DEF DamageIsOwned, LocksAreReturned, Locked, Section
    <3> QED
      BY <2>1, <3>1 DEF Section, Locked
  <2>2. CASE q # p /\ pc[q] \notin Locked
    BY <2>2 DEF Section, Locked
  <2> QED
    BY <2>1, <2>2 DEF Section, Locked
<1>3. ReadersKeep
  BY DEF ReadersKeep, Readable, Counted
<1> QED
  BY <1>1, <1>2, <1>3 DEF DamageIsOwned, TypeOK

\* The eviction takes a directory nobody has locked.
LEMMA EvictStep ==
    ASSUME Protected, TypeOK', NEW v, lock[v] = NoLoader, UNCHANGED <<pc, data, lock>>,
           \A u \in Versions \ {v} : artifact'[u] = artifact[u],
           epc = "delete", artifact'[v] = "absent" \/ faults' > faults, faults' >= faults
    PROVE  DamageIsOwned' /\ (\A q \in Loaders : Section(q)') /\ ReadersKeep
<1> USE SentinelAssumption DEF Protected
<1>1. LocksAreReturned'
  BY DEF DamageIsOwned, LocksAreReturned
<1>2. ASSUME NEW q \in Loaders PROVE Section(q)'
  <2>1. CASE pc[q] \in Locked
    <3>1. data[q] \in Versions /\ lock[data[q]] = q
      BY <2>1 DEF DamageIsOwned, LocksAreReturned, Locked, Section
    <3> QED
      BY <2>1, <3>1 DEF Section, Locked
  <2> QED
    BY <2>1 DEF Section, Locked
<1>3. ASSUME faults' = 0, NEW u \in Versions, artifact'[u] \notin {"whole", "absent"}
      PROVE  lock'[u] # NoLoader
  BY <1>3 DEF DamageIsOwned, TypeOK
<1> QED
  BY <1>1, <1>2, <1>3 DEF DamageIsOwned, ReadersKeep

LEMMA ProtectedInit == Init => Protected
<1> SUFFICES ASSUME Init PROVE Protected
  OBVIOUS
<1>1. TypeOK
  BY TypeInit
<1>2. DamageIsOwned
  BY SentinelAssumption DEF Init, DamageIsOwned, LocksAreReturned
<1>3. \A p \in Loaders : Section(p)
  BY DEF Init, Section, Locked
<1> QED
  BY <1>1, <1>2, <1>3 DEF Protected

LEMMA ProtectedStep == Protected /\ [Next]_vars => Protected' /\ ReadersKeep
<1> SUFFICES ASSUME Protected, [Next]_vars PROVE Protected' /\ ReadersKeep
  OBVIOUS
<1> USE SentinelAssumption
<1> DEFINE Goal == DamageIsOwned' /\ (\A q \in Loaders : Section(q)') /\ ReadersKeep
<1>0. TypeOK' /\ TypeOK /\ faults \in Nat
  BY TypeStep DEF Protected, TypeOK
<1>1. ASSUME UNCHANGED <<pc, data, lock, artifact, faults>> PROVE Goal
  <2>1. DamageIsOwned'
    BY <1>1 DEF Protected, DamageIsOwned, LocksAreReturned
  <2>2. \A q \in Loaders : Section(q)'
    BY <1>1 DEF Protected, Section
  <2>3. ReadersKeep
    BY <1>1 DEF ReadersKeep, Readable, Counted
  <2> QED
    BY <2>1, <2>2, <2>3
<1>2. ASSUME \/ Edit \/ StartEvict \/ SelectVictims \/ EndEvict
             \/ \E x \in Items : Inspect(x)
      PROVE  Goal
  <2>1. UNCHANGED <<pc, data, lock, artifact, faults>>
    BY <1>2 DEF Edit, StartEvict, SelectVictims, EndEvict, Inspect, FinishEvict, world, store
  <2> QED
    BY <2>1, <1>1
<1>3. ASSUME EvictFails PROVE Goal
  <2>1. PICK x \in victims, d \in {"partial", "headless"} :
            /\ lock[x.item[2]] = NoLoader
            /\ artifact' = [artifact EXCEPT ![x.item[2]] = d]
    BY <1>3 DEF EvictFails
  <2>2. UNCHANGED <<pc, data, lock>> /\ epc = "delete" /\ faults' > faults /\ faults' >= faults
    BY <1>0, <1>3 DEF EvictFails, FinishEvict
  <2>3. \A u \in Versions \ {x.item[2]} : artifact'[u] = artifact[u]
    BY <1>0, <2>1 DEF TypeOK
  <2>4. PICK v : v = x.item[2]
    OBVIOUS
  <2> QED
    BY <1>0, <2>1, <2>2, <2>3, <2>4, EvictStep
<1>4. ASSUME NEW x \in victims, Delete(x) PROVE Goal
  <2>1. UNCHANGED <<pc, data, lock, faults>>
    BY <1>4 DEF Delete, world
  <2> USE <1>4 DEF Delete
  <2>2. CASE x.item[1] = "data"
    <3>1. epc = "delete" /\ lock[x.item[2]] = NoLoader /\ artifact' = [artifact EXCEPT ![x.item[2]] = "absent"]
      BY <1>4, <2>2 DEF Delete
    <3>2. x.item[2] \in Versions
      BY <1>0, <1>4 DEF TypeOK, Records, Items
    <3>3. /\ artifact'[x.item[2]] = "absent"
          /\ \A u \in Versions \ {x.item[2]} : artifact'[u] = artifact[u]
      BY <1>0, <3>1, <3>2 DEF TypeOK
    <3> QED
      BY <1>0, <2>1, <3>1, <3>3, EvictStep
  <2>3. CASE x.item[1] # "data"
    BY <1>1, <1>4, <2>1, <2>3 DEF Delete
  <2> QED
    BY <2>2, <2>3
<1>5. ASSUME NEW p \in Loaders,
             \/ StartLoad(p) \/ ReadBinding(p) \/ Invalidate(p) \/ Parse(p) \/ Bind(p) \/ Return(p)
      PROVE  Goal
  <2>1. UNCHANGED <<lock, artifact, faults>>
    BY <1>5 DEF StartLoad, ReadBinding, Invalidate, Parse, Bind, Return, store, world
  <2>2. pc[p] \notin Locked /\ pc'[p] \notin Locked
    BY <1>0, <1>5 DEF StartLoad, ReadBinding, Invalidate, Parse, Bind, Return, Forget, Goto, Locked, TypeOK
  <2>3. \A q \in Loaders \ {p} : pc'[q] = pc[q] /\ data'[q] = data[q]
    BY <1>0, <1>5 DEF StartLoad, ReadBinding, Invalidate, Parse, Bind, Return, Forget, Goto, TypeOK
  <2>4. pc'[p] \in {"artifact", "store", "bind"} => data'[p] \in Versions
    BY <1>0, <1>5 DEF StartLoad, ReadBinding, Invalidate, Parse, Bind, Return, Forget, Goto, TypeOK
  <2> QED
    BY <1>0, <2>1, <2>2, <2>3, <2>4, UnlockedStep DEF Effect
<1>6. ASSUME NEW p \in Loaders,
             \/ ReadArtifact(p) \/ Touch(p) \/ Rewrite(p) \/ RewriteFails(p)
             \/ Write(p) \/ Remove(p) \/ Stage(p) \/ Publish(p)
      PROVE  Goal
  <2> USE DEF ReadArtifact, Touch, Rewrite, RewriteFails, Verified, Write, Remove, Stage, Publish
  <2>1. PICK v \in Versions : v = data[p]
    BY <1>6 DEF Protected, Section, Locked
  <2>2. data' = data /\ faults' >= faults /\ (RewriteFails(p) => faults' > faults)
    BY <1>0, <1>6 DEF world
  <2>3. lock[v] \in {p, NoLoader}
    BY <1>6, <2>1 DEF Take, Protected, DamageIsOwned, LocksAreReturned
  <2>4. \A q \in Loaders \ {p} : pc'[q] = pc[q]
    BY <1>0, <1>6 DEF Goto, TypeOK
  <2>5. \A u \in Versions \ {v} : lock'[u] = lock[u] /\ artifact'[u] = artifact[u]
    BY <1>0, <1>6, <2>1 DEF Take, Drop, store, TypeOK
  <2>6. ASSUME pc[p] # "artifact" \/ artifact[v] = "whole"
        PROVE  /\ lock'[v] = IF pc'[p] \in Locked THEN p ELSE NoLoader
               /\ Section(p)'
               /\ pc'[p] \notin Locked => artifact'[v] \in {"whole", "absent"} \/ faults' > faults
               /\ artifact[v] = "whole" \/ pc[p] = "rewrite" =>
                      \/ artifact'[v] = "whole" \/ pc'[p] = "rewrite"
                      \/ pc[p] = "rewrite" /\ faults' > faults
    <3>1. CASE ReadArtifact(p) \/ Write(p)
      BY <1>0, <2>1, <2>2, <2>6, <3>1 DEF Take, Goto, Section, Locked, TypeOK, Directories
    <3>2. CASE Touch(p) \/ Remove(p) \/ Stage(p) \/ Publish(p)
      BY <1>0, <2>1, <2>2, <3>2 DEF Goto, Section, Locked, TypeOK, Protected, DamageIsOwned, LocksAreReturned, store
    <3>3. CASE Rewrite(p) \/ RewriteFails(p)
      BY <1>0, <2>1, <2>2, <3>3 DEF Drop, Goto, Section, Locked, TypeOK
    <3> QED
      BY <1>6, <3>1, <3>2, <3>3
  <2>7. CASE pc[p] = "artifact" /\ artifact[v] # "whole"
    <3>1. UNCHANGED <<lock, artifact>> /\ pc'[p] = "invalidate"
      BY <1>0, <1>6, <2>1, <2>7 DEF Goto, TypeOK
    <3> QED
      BY <1>0, <2>2, <2>4, <2>7, <3>1, UnlockedStep DEF Effect, Locked
  <2> QED
    BY <1>0, <2>1, <2>2, <2>3, <2>4, <2>5, <2>6, <2>7, LockedStep
<1>7. ASSUME NEW p \in Loaders, WriteFails(p) \/ Crash(p) PROVE Goal
  <2>1. faults' > faults /\ faults' >= faults
    BY <1>0, <1>7 DEF WriteFails, Crash
  <2>2. pc'[p] = "idle" /\ \A q \in Loaders \ {p} : pc'[q] = pc[q] /\ data'[q] = data[q]
    BY <1>0, <1>7 DEF WriteFails, Crash, Forget, Goto, TypeOK
  <2>3. \A v \in Versions : lock'[v] = IF lock[v] = p THEN NoLoader ELSE lock[v]
    <3>1. CASE Crash(p)
      BY <3>1 DEF Crash
    <3>2. CASE WriteFails(p)
      BY <1>0, <3>2 DEF WriteFails, Drop, TypeOK, Protected, DamageIsOwned, LocksAreReturned
    <3> QED
      BY <1>7, <3>1, <3>2
  <2>4. \A v \in Versions : lock[v] # p => artifact'[v] = artifact[v]
    BY <1>0, <1>7 DEF WriteFails, Crash, TypeOK, Protected, DamageIsOwned, LocksAreReturned
  <2>5. \A v \in Versions : artifact'[v] # artifact[v] => artifact[v] # "whole"
    BY <1>0, <1>7 DEF WriteFails, Crash, TypeOK, Protected, Section
  <2> QED
    BY <1>0, <2>1, <2>2, <2>3, <2>4, <2>5, FaultStep DEF Effect
<1>8. ASSUME NEW p \in Loaders, ReadBindingUncounted(p) PROVE Goal
  <2>1. UNCHANGED <<lock, artifact>> /\ faults' >= faults
    BY <1>0, <1>8 DEF ReadBindingUncounted
  <2>2. pc[p] \notin Locked /\ pc'[p] = "artifact" /\ data'[p] \in Versions
    BY <1>0, <1>8 DEF ReadBindingUncounted, Goto, Locked, TypeOK
  <2>3. \A q \in Loaders \ {p} : pc'[q] = pc[q] /\ data'[q] = data[q]
    BY <1>0, <1>8 DEF ReadBindingUncounted, Goto, TypeOK
  <2> QED
    BY <1>0, <2>1, <2>2, <2>3, UnlockedStep DEF Effect, Locked
<1>9. ASSUME UNCHANGED vars PROVE Goal
  BY <1>1, <1>9 DEF vars, world, store
<1>10. Goal
  BY <1>1, <1>2, <1>3, <1>4, <1>5, <1>6, <1>7, <1>8, <1>9 DEF Next, Evict, Load, Fault
<1> QED
  BY <1>0, <1>10 DEF Protected

LEMMA ProtectedHolds == Spec => []Protected
<1> QED
  BY ProtectedInit, ProtectedStep, PTL DEF Spec

-----------------------------------------------------------------------------
(* Loads return what the file held *)

\* What a load has in hand, and what it goes by.
InHand(p) ==
    /\ pc[p] = "idle" <=> window[p] = {}
    /\ pc[p] # "idle" => source \in window[p]
    /\ got[p] # Nothing <=> pc[p] = "done"
    /\ got[p] # Nothing => got[p] \in window[p]
    /\ pc[p] = "binding" => bytes[p] \in window[p]
    /\ pc[p] \in {"artifact", "touch", "rewrite"} => data[p] \in window[p]
    /\ Storing(p) => data[p] = source

BindingsAreTrue == \A v \in Versions : binding[v] \in Versions => binding[v] = v

Honest == Protected /\ BindingsAreTrue /\ \A p \in Loaders : InHand(p)

LEMMA HonestInit == Init => Honest
<1> SUFFICES ASSUME Init PROVE Honest
  OBVIOUS
<1>1. BindingsAreTrue
  BY SentinelAssumption DEF Init, BindingsAreTrue
<1>2. \A p \in Loaders : InHand(p)
  BY DEF Init, InHand, Storing
<1> QED
  BY <1>1, <1>2, ProtectedInit DEF Honest

\* The step of one load, as its caller sees it.
LEMMA OneLoad ==
    ASSUME Honest, NEW p \in Loaders, source' = source,
           \A q \in Loaders \ {p} :
               /\ pc'[q] = pc[q] /\ data'[q] = data[q] /\ bytes'[q] = bytes[q]
               /\ onward'[q] = onward[q] /\ window'[q] = window[q] /\ got'[q] = got[q],
           InHand(p)'
    PROVE  \A q \in Loaders : InHand(q)'
<1> SUFFICES ASSUME NEW q \in Loaders \ {p} PROVE InHand(q)'
  OBVIOUS
<1>1. InHand(q)
  BY DEF Honest
<1> QED
  BY <1>1 DEF InHand, Storing

LEMMA HonestStep ==
    ASSUME ~EditMidLoad, Honest, [Next]_vars
    PROVE  Honest' /\ [Reads!Next]_Reads!vars
<1> USE SentinelAssumption
<1> DEFINE Goal == BindingsAreTrue' /\ (\A p \in Loaders : InHand(p)') /\ [Reads!Next]_Reads!vars
<1>0. Protected /\ Protected' /\ TypeOK /\ BindingsAreTrue
  BY ProtectedStep DEF Honest, Protected
<1>1. ASSUME UNCHANGED <<source, window, got, binding, pc, data, bytes, onward>> PROVE Goal
  <2>1. BindingsAreTrue'
    BY <1>0, <1>1 DEF BindingsAreTrue
  <2>2. \A p \in Loaders : InHand(p)'
    BY <1>1 DEF Honest, InHand, Storing
  <2> QED
    BY <1>1, <2>1, <2>2 DEF Reads!vars
<1>2. ASSUME Edit PROVE Goal
  <2>1. BindingsAreTrue'
    BY <1>0, <1>2 DEF Edit, store, BindingsAreTrue
  <2>2. ASSUME NEW p \in Loaders PROVE InHand(p)'
    <3>1. InHand(p) /\ ~Storing(p)
      BY <1>2 DEF Honest, Edit
    <3>2. window'[p] = IF window[p] = {} THEN {} ELSE window[p] \cup {source'}
      BY <1>2 DEF Edit
    <3> QED
      BY <1>2, <3>1, <3>2 DEF Edit, InHand, Storing
  <2>3. Reads!Edit
    BY <1>2 DEF Edit, Reads!Edit
  <2> QED
    BY <2>1, <2>2, <2>3 DEF Reads!Next
<1>3. ASSUME \/ StartEvict \/ SelectVictims \/ EndEvict \/ EvictFails
             \/ \E x \in Items : Inspect(x)
      PROVE  Goal
  <2>1. UNCHANGED <<source, window, got, binding, pc, data, bytes, onward>>
    BY <1>3 DEF StartEvict, SelectVictims, EndEvict, EvictFails, Inspect, FinishEvict, world, store, call
  <2> QED
    BY <1>1, <2>1
<1>4. ASSUME NEW x \in victims, Delete(x) PROVE Goal
  <2>1. UNCHANGED <<source, window, got, pc, data, bytes, onward>>
    BY <1>4 DEF Delete, world, call
  <2>2. BindingsAreTrue'
    BY <1>0, <1>4 DEF Delete, BindingsAreTrue, TypeOK
  <2>3. \A p \in Loaders : InHand(p)'
    BY <2>1 DEF Honest, InHand, Storing
  <2> QED
    BY <2>1, <2>2, <2>3 DEF Reads!vars
<1>5. ASSUME NEW p \in Loaders,
             \/ StartLoad(p) \/ Load(p) \/ Fault(p)
      PROVE  Goal
  <2> USE DEF Fault, ReadBindingUncounted, RewriteFails, Verified
  <2>0. InHand(p)
    BY DEF Honest
  <2>1. source' = source
    BY <1>5 DEF Load, StartLoad, ReadBinding, ReadArtifact, Touch, Rewrite, Invalidate, Parse, Write,
                Remove, Stage, Publish, Bind, Return, WriteFails, Crash, Forget, world
  <2>2. \A q \in Loaders \ {p} :
            /\ pc'[q] = pc[q] /\ data'[q] = data[q] /\ bytes'[q] = bytes[q]
            /\ onward'[q] = onward[q] /\ window'[q] = window[q] /\ got'[q] = got[q]
    BY <1>0, <1>5 DEF Load, StartLoad, ReadBinding, ReadArtifact, Touch, Rewrite, Invalidate, Parse,
                Write, Remove, Stage, Publish, Bind, Return, WriteFails, Crash, Forget, Goto, call, TypeOK
  <2>3. BindingsAreTrue'
    <3>1. CASE Bind(p)
      <4>1. data[p] = source
        BY <2>0, <3>1 DEF Bind, InHand, Storing
      <4> QED
        BY <1>0, <3>1, <4>1 DEF Bind, BindingsAreTrue, TypeOK
    <3>2. CASE Invalidate(p) \/ Crash(p) \/ ReadBindingUncounted(p)
      BY <1>0, <3>2 DEF Invalidate, Crash, BindingsAreTrue, TypeOK
    <3>3. CASE UNCHANGED binding
      BY <1>0, <3>3 DEF BindingsAreTrue
    <3> QED
      BY <1>5, <3>1, <3>2, <3>3 DEF Load, StartLoad, ReadBinding, ReadArtifact, Touch, Rewrite, Parse,
                Write, Remove, Stage, Publish, Return, WriteFails, store
  <2>4. InHand(p)' /\ [Reads!Next]_Reads!vars
    <3> USE <1>0, <2>0, <2>1
    <3>1. ASSUME StartLoad(p) PROVE InHand(p)' /\ Reads!Begin(p)
      <4>1. window[p] = {} /\ got[p] = Nothing /\ got' = got
        BY <3>1 DEF StartLoad, InHand
      <4>2. window' = [window EXCEPT ![p] = {source}] /\ window'[p] = {source}
        BY <3>1 DEF StartLoad, TypeOK
      <4>3. \/ pc'[p] = "parse"
            \/ pc'[p] = "binding" /\ bytes'[p] = source
        <5>1. PICK c \in {"off", "read", "read_write"} :
                  /\ pc' = [pc EXCEPT ![p] = IF c = "off" THEN "parse" ELSE "binding"]
                  /\ bytes' = [bytes EXCEPT ![p] = IF c = "off" THEN Nothing ELSE source]
          BY <3>1 DEF StartLoad, Goto
        <5> QED
          BY <5>1 DEF TypeOK
      <4> QED
        BY <4>1, <4>2, <4>3 DEF InHand, Storing, Reads!Begin
    <3>2. ASSUME \/ ReadBinding(p) \/ ReadBindingUncounted(p) \/ ReadArtifact(p) \/ Touch(p) \/ Invalidate(p) \/ Write(p)
                 \/ Remove(p) \/ Stage(p) \/ Publish(p)
          PROVE  InHand(p)' /\ UNCHANGED Reads!vars
      <4>1. UNCHANGED <<window, got, bytes>>
        BY <3>2 DEF ReadBinding, ReadArtifact, Touch, Invalidate, Write, Remove, Stage, Publish, call
      <4>2. InHand(p)'
        <5>1. CASE ReadBinding(p) \/ ReadBindingUncounted(p)
          BY <4>1, <5>1 DEF ReadBinding, Goto, InHand, Storing, BindingsAreTrue, TypeOK
        <5>2. CASE ReadArtifact(p)
          BY <4>1, <5>2 DEF ReadArtifact, Goto, InHand, Storing, TypeOK
        <5>3. CASE Touch(p) \/ Remove(p) \/ Stage(p) \/ Publish(p) \/ Write(p) \/ Invalidate(p)
          BY <4>1, <5>3 DEF Touch, Remove, Stage, Publish, Write, Invalidate, Goto, InHand, Storing, TypeOK
        <5> QED
          BY <3>2, <5>1, <5>2, <5>3
      <4> QED
        BY <4>1, <4>2 DEF Reads!vars
    <3>3. ASSUME Rewrite(p) \/ RewriteFails(p) \/ Parse(p) \/ Bind(p)
          PROVE  InHand(p)' /\ (Reads!Return(p) \/ UNCHANGED Reads!vars)
      <4>1. window' = window /\ window[p] # {} /\ got[p] = Nothing /\ source \in window[p]
        BY <3>3 DEF Rewrite, Parse, Bind, call, InHand
      <4>2. \/ /\ pc'[p] = "done"
               /\ \E v \in window[p] : got' = [got EXCEPT ![p] = v]
            \/ /\ pc'[p] \in {"store", "bind"} /\ data'[p] = source
               /\ got' = got
        BY <3>3, <4>1 DEF Rewrite, Parse, Bind, Goto, InHand, Storing, TypeOK
      <4>3. CASE pc'[p] = "done" /\ \E v \in window[p] : got' = [got EXCEPT ![p] = v]
        <5>1. PICK v \in window[p] : got' = [got EXCEPT ![p] = v]
          BY <4>3
        <5>2. v \in Versions /\ got'[p] = v
          BY <5>1 DEF TypeOK
        <5> QED
          BY <4>1, <4>3, <5>1, <5>2 DEF InHand, Storing, Reads!Return
      <4>4. CASE pc'[p] \in {"store", "bind"} /\ data'[p] = source /\ got' = got
        BY <4>1, <4>4 DEF InHand, Storing, Reads!vars
      <4> QED
        BY <4>2, <4>3, <4>4
    <3>4. ASSUME Return(p) \/ WriteFails(p) \/ Crash(p) PROVE InHand(p)' /\ Reads!Leave(p)
      <4>1. Forget(p) /\ window[p] # {}
        BY <3>4 DEF Return, WriteFails, Crash, InHand
      <4>2. /\ window' = [window EXCEPT ![p] = {}] /\ got' = [got EXCEPT ![p] = Nothing]
            /\ pc'[p] = "idle" /\ window'[p] = {} /\ got'[p] = Nothing
        BY <4>1 DEF Forget, Goto, TypeOK
      <4> QED
        BY <4>1, <4>2 DEF InHand, Storing, Reads!Leave
    <3> QED
      BY <1>5, <3>1, <3>2, <3>3, <3>4 DEF Load, Reads!Next
  <2>5. \A q \in Loaders : InHand(q)'
    BY <2>1, <2>2, <2>4, OneLoad
  <2> QED
    BY <2>3, <2>4, <2>5
<1>6. ASSUME UNCHANGED vars PROVE Goal
  BY <1>1, <1>6 DEF vars, world, store, call
<1>7. Goal
  BY <1>1, <1>2, <1>3, <1>4, <1>5, <1>6 DEF Next, Evict
<1> QED
  BY <1>0, <1>7 DEF Honest

-----------------------------------------------------------------------------
(* Eviction bounds what is stored *)

\* What a listing that nothing runs beside says of the store.
Inventory ==
    /\ \A p \in Loaders : pc[p] = "idle"
    /\ epc = "scan" => \A x \in Stored \ scan : \E r \in listed : r.item = x
    /\ epc = "delete" => /\ Cardinality(listed) <= MaxEntries
                        /\ \A x \in Stored : \E r \in listed \cup victims : r.item = x

Listed ==
    /\ TypeOK
    /\ IsFiniteSet(listed)
    /\ quiet /\ epc # "idle" => Inventory

LEMMA RecordsAreFinite ==
    ASSUME NEW v
    PROVE  IsFiniteSet(DataRecords(v)) /\ IsFiniteSet(BindingRecords(v))
<1> DEFINE A == IF binding[v] = Absent THEN {}
                ELSE {[item |-> <<"source_binding", v>>,
                       at   |-> stamp[<<"source_binding", v>>],
                       used |-> stamp[<<"source_binding", v>>]]}
           B == IF stray[v] = 0 THEN {}
                ELSE {[item |-> <<"stray", v>>, at |-> stray[v], used |-> stray[v]]}
<1>1. IsFiniteSet(DataRecords(v))
  BY FS_EmptySet, FS_Singleton DEF DataRecords
<1>2. IsFiniteSet(A) /\ IsFiniteSet(B)
  BY FS_EmptySet, FS_Singleton
<1>3. BindingRecords(v) = A \cup B
  BY DEF BindingRecords
<1>4. IsFiniteSet(A \cup B)
  BY <1>2, FS_Union
<1> QED
  BY <1>1, <1>3, <1>4

\* As many records as are listed are enough for what is stored.
LEMMA ListedBounds ==
    ASSUME IsFiniteSet(listed), \A x \in Stored : \E r \in listed : r.item = x
    PROVE  Cardinality(Stored) <= Cardinality(listed) /\ Cardinality(Stored) \in Nat
<1> DEFINE f == [x \in Stored |-> CHOOSE r \in listed : r.item = x]
<1>1. \A x \in Stored : f[x] \in listed /\ f[x].item = x
  OBVIOUS
<1>2. f \in Injection(Stored, listed)
  BY <1>1 DEF Injection, IsInjective
<1> QED
  BY <1>2, FS_Injection, FS_CardinalityType

LEMMA ListedInit == Init => Listed
<1> SUFFICES ASSUME Init PROVE Listed
  OBVIOUS
<1> QED
  BY TypeInit, FS_EmptySet DEF Init, Listed

LEMMA ListedStep ==
    ASSUME Listed, TypeOK', [Next]_vars
    PROVE  Listed'
<1> USE BoundsAssumption
<1> DEFINE Goal == IsFiniteSet(listed') /\ (quiet' /\ epc' # "idle" => Inventory')
<1>0. TypeOK /\ IsFiniteSet(listed) /\ (quiet /\ epc # "idle" => Inventory)
  BY DEF Listed
<1>1. ASSUME UNCHANGED <<artifact, binding, pc, epc, scan, listed, victims, quiet>> PROVE Goal
  BY <1>0, <1>1 DEF Inventory, Stored
<1>2. ASSUME UNCHANGED <<epc, scan, listed, victims>>, ~quiet' \/ epc' = "idle" PROVE Goal
  BY <1>0, <1>2
<1>3. ASSUME Edit PROVE Goal
  BY <1>1, <1>3 DEF Edit, store, evict
<1>4. ASSUME NEW p \in Loaders, StartLoad(p) PROVE Goal
  BY <1>2, <1>4 DEF StartLoad
<1>5. ASSUME NEW p \in Loaders, Load(p) \/ Fault(p) PROVE Goal
  <2> USE DEF Fault, ReadBindingUncounted, RewriteFails
  <2>1. pc[p] # "idle"
    BY <1>5 DEF Load, ReadBinding, ReadArtifact, Touch, Rewrite, Invalidate, Parse, Write, Remove,
                Stage, Publish, Bind, Return, WriteFails, Crash
  <2>2. UNCHANGED evict
    BY <1>5 DEF Load, ReadBinding, ReadArtifact, Touch, Rewrite, Invalidate, Parse, Write, Remove,
                Stage, Publish, Bind, Return, WriteFails, Crash, Forget
  <2>3. ~quiet \/ epc = "idle"
    BY <1>0, <2>1 DEF Inventory
  <2> QED
    BY <1>2, <2>2, <2>3 DEF evict
<1>6. ASSUME StartEvict PROVE Goal
  <2>1. Stored' = Stored /\ scan' = Items /\ pc' = pc /\ epc' = "scan" /\ listed' = listed
    BY <1>6 DEF StartEvict, Stored, store
  <2>2. Stored \ Items = {}
    BY DEF Stored
  <2> QED
    BY <1>0, <1>6, <2>1, <2>2 DEF StartEvict, Inventory
<1>7. ASSUME NEW x \in Items, Inspect(x) PROVE Goal
  <2>1. UNCHANGED <<pc, epc, victims, quiet>> /\ Stored' = Stored /\ epc = "scan" /\ scan' = scan \ {x}
    BY <1>7 DEF Inspect, Stored, store
  <2>2. PICK R : /\ listed' = listed \cup R
                 /\ R = IF x[1] = "data" THEN DataRecords(x[2]) ELSE BindingRecords(x[2])
    BY <1>7 DEF Inspect
  <2>3. IsFiniteSet(R)
    BY <2>2, RecordsAreFinite
  <2>4. IsFiniteSet(listed')
    BY <1>0, <2>2, <2>3, FS_Union
  <2>5. x \in Stored => \E r \in R : r.item = x
    <3> SUFFICES ASSUME x \in Stored PROVE \E r \in R : r.item = x
      OBVIOUS
    <3>1. CASE x[1] = "data"
      <4>1. artifact[x[2]] \notin {"absent", "headless"} /\ x = <<"data", x[2]>>
        BY <3>1 DEF Stored, Items
      <4>2. PICK a : a = IF artifact[x[2]] = "torn" THEN 0 ELSE stamp[x]
        OBVIOUS
      <4>3. [item |-> x, at |-> a, used |-> stamp[x]] \in R
        BY <2>2, <3>1, <4>1, <4>2 DEF DataRecords
      <4> QED
        BY <4>3
    <3>2. CASE x[1] = "source_binding"
      <4>1. binding[x[2]] # Absent /\ x = <<"source_binding", x[2]>>
        BY <3>2 DEF Stored, Items
      <4>2. [item |-> x, at |-> stamp[x], used |-> stamp[x]] \in R
        BY <2>2, <3>2, <4>1 DEF BindingRecords
      <4> QED
        BY <4>2
    <3> QED
      BY <3>1, <3>2 DEF Items
  <2> QED
    BY <1>0, <2>1, <2>2, <2>4, <2>5 DEF Inventory
<1>8. ASSUME SelectVictims PROVE Goal
  <2>1. PICK V \in SUBSET listed : /\ Cardinality(V) = Overflow(Cardinality(listed))
                                   /\ victims' = V /\ listed' = listed \ V
    BY <1>8 DEF SelectVictims, Oldest
  <2>2. UNCHANGED <<pc, quiet>> /\ Stored' = Stored /\ epc = "scan" /\ scan = {} /\ epc' = "delete"
    BY <1>8 DEF SelectVictims, Stored, store
  <2>3. IsFiniteSet(listed \ V) /\ Cardinality(listed \ V) = Cardinality(listed) - Cardinality(listed \cap V)
    BY <1>0, FS_Difference
  <2>4. listed \cap V = V
    OBVIOUS
  <2>5. Cardinality(listed) \in Nat
    BY <1>0, FS_CardinalityType
  <2>6. Cardinality(listed') <= MaxEntries
    BY <2>1, <2>3, <2>4, <2>5 DEF Overflow
  <2> QED
    BY <1>0, <2>1, <2>2, <2>3, <2>6 DEF Inventory
<1>9. ASSUME NEW x \in victims, Delete(x) PROVE Goal
  <2>1. UNCHANGED <<pc, epc, listed, quiet>> /\ epc = "delete" /\ victims' = victims \ {x}
    BY <1>9 DEF Delete
  <2>2. Stored' \subseteq Stored \ {x.item}
    <3>1. x.item[2] \in Versions /\ x.item = <<x.item[1], x.item[2]>>
      BY <1>0 DEF TypeOK, Records, Items
    <3>2. CASE x.item[1] = "data"
      BY <1>0, <1>9, <3>1, <3>2 DEF Delete, Stored, TypeOK, Items
    <3>3. CASE x.item[1] # "data"
      BY <1>0, <1>9, <3>1, <3>3 DEF Delete, Stored, TypeOK, Items
    <3> QED
      BY <3>2, <3>3
  <2> QED
    BY <1>0, <2>1, <2>2 DEF Inventory
<1>10. ASSUME EndEvict \/ EvictFails PROVE Goal
  BY <1>10, FS_EmptySet DEF EndEvict, EvictFails, FinishEvict
<1>11. ASSUME UNCHANGED vars PROVE Goal
  BY <1>1, <1>11 DEF vars, store, evict
<1>12. Goal
  BY <1>3, <1>4, <1>5, <1>6, <1>7, <1>8, <1>9, <1>10, <1>11 DEF Next, Evict
<1> QED
  BY <1>12 DEF Listed

-----------------------------------------------------------------------------
(* Theorems *)

\* Every variable keeps its type.
THEOREM TypeCorrect == Spec => []TypeOK
<1>1. Protected => TypeOK
  BY DEF Protected
<1> QED
  BY <1>1, ProtectedHolds, PTL

\* A flock is released by the load that took it, and a directory that is neither whole
\* nor absent is under one, unless there was a fault (write_data_artifact,
\* read_verified_data_artifact).
THEOREM DamageHasAnOwner == Spec => []DamageIsOwned
<1>1. Protected => DamageIsOwned
  BY DEF Protected
<1> QED
  BY <1>1, ProtectedHolds, PTL

\* No write of a key takes an artifact from those who read it (write_data_artifact
\* verifies under the lock before it removes anything), except that of its access count
\* when it is cut short.
THEOREM WritesLoseNothing == Spec => OnlyEvictionLoses
<1>1. Protected /\ [Next]_vars =>
          [\A v \in Versions : Readable(v) /\ ~Readable(v)' =>
               epc = "delete" \/ (Counted(v) /\ faults' > faults)]_vars
  BY ProtectedStep DEF ReadersKeep
<1> QED
  BY <1>1, ProtectedHolds, PTL DEF Spec, OnlyEvictionLoses

\* Unless the file changes between the parse of it and the binding of its hash, every
\* load returns the bars of bytes the file held while it ran, whatever was cached,
\* evicted, torn or written beside it (_load_experiment_data).
THEOREM LoadsKeepTheirPromise == ASSUME ~EditMidLoad PROVE Spec => KeepsItsPromise
<1>1. Init => Reads!Init
  BY DEF Init, Reads!Init
<1>2. Honest /\ [Next]_vars => Honest' /\ [Reads!Next]_Reads!vars
  BY HonestStep
<1> QED
  BY <1>1, <1>2, HonestInit, PTL DEF Spec, KeepsItsPromise, Reads!Spec

\* An eviction that no load ran beside, and that did not fail, leaves no more artifacts
\* and bindings than it was asked to (evict_execution_artifacts).
THEOREM EvictionKeepsTheBound == Spec => EvictionBounds
<1> DEFINE Bound == epc = "delete" /\ epc' = "idle" /\ faults' = faults /\ quiet
                       => Cardinality(Stored) <= MaxEntries
           Both == Protected /\ Listed
<1>1. Both /\ [Next]_vars => Both'
  BY ProtectedStep, ListedStep DEF Protected
<1>2. Init => Both
  BY ProtectedInit, ListedInit
<1>3. Both /\ [Next]_vars => [Bound]_vars
  <2> SUFFICES ASSUME Listed, Next, epc = "delete", epc' = "idle", faults' = faults, quiet
               PROVE  Cardinality(Stored) <= MaxEntries
    OBVIOUS
  <2>1. EndEvict
    BY DEF Next, Evict, Load, Edit, StartEvict, EvictFails, StartLoad, SelectVictims, Inspect, Delete,
           ReadBinding, ReadArtifact, Touch, Rewrite, Invalidate, Parse, Write, Remove, Stage, Publish,
           Bind, Return, Fault, ReadBindingUncounted, RewriteFails, WriteFails, Crash, Forget, evict,
           Listed, TypeOK
  <2>2. Inventory /\ victims = {} /\ IsFiniteSet(listed)
    BY <2>1 DEF EndEvict, Listed
  <2>3. /\ Cardinality(listed) \in Nat /\ Cardinality(Stored) \in Nat
        /\ Cardinality(Stored) <= Cardinality(listed)
    BY <2>2, ListedBounds, FS_CardinalityType DEF Inventory
  <2>4. Cardinality(listed) <= MaxEntries
    BY <2>2 DEF Inventory
  <2> QED
    BY <2>3, <2>4, BoundsAssumption
<1> HIDE DEF Bound, Both
<1>4. Spec => [][Bound]_vars
  BY <1>1, <1>2, <1>3, PTL DEF Spec
<1> QED
  BY <1>4 DEF Bound, EvictionBounds
=============================================================================
