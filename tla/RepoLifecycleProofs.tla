------------------------- MODULE RepoLifecycleProofs -------------------------
(***************************************************************************)
(* Proofs about RepoLifecycle, for any number of jobs of every kind in any *)
(* mixture, any number of readers and of faults.                           *)
(***************************************************************************)
EXTENDS RepoLifecycle, FiniteSetTheorems, TLAPS

------------------------------------------------------------------------------
(* The inductive invariant *)

Touching == Writers \cup {"read"}
Past == {"registry", "route", "listGit", "sweepGit", "listSnap", "sweepSnap", "rows", "keys"}

\* Where a job of each kind can stand, and what it can have left.
JobPlaced(j) ==
    /\ pc[j] \in {"leased", "opened", "writing", "cleanup", "reading", "gone"} =>
         kind[j] \in Touching
    /\ pc[j] = "opened" => kind[j] \in {"snapshot", "backfill"}
    /\ pc[j] = "writing" => kind[j] \in Writers
    /\ pc[j] = "cleanup" => kind[j] \in {"push", "compact"}
    /\ pc[j] = "reading" => kind[j] = "read" /\ view[j] \subseteq {o \in Jobs : pc[o] = "done"}
    /\ pc[j] \in {"fence"} \cup Past => kind[j] = "delete"
    /\ pc[j] = "idle" => age[j] = "live"
    /\ age[j] = "drained" => pc[j] \in {"done", "gone"} /\ j \notin inflight /\ kind[j] # "read"
    /\ j \in leases => kind[j] \in Touching /\ pc[j] # "idle"
    /\ j \in inflight => kind[j] \in Writers /\ pc[j] \in {"writing", "gone"}
    /\ j \in rows => pc[j] = "done"
    /\ j \in snaps => kind[j] = "snapshot" /\ pc[j] # "idle"
    /\ j \in git => kind[j] \in {"push", "compact", "backfill"} /\ pc[j] # "idle"
Placed ==
    /\ view \in [Jobs -> SUBSET (Jobs \cup 0 .. 2)]
    /\ found \in [Jobs -> SUBSET (Jobs \cup [id : 0 .. 2, public : BOOLEAN])]
    /\ alarmPc = "clearing" <=> victim # None
    /\ victim # None => kind[victim] = "push" /\ pc[victim] # "idle"
    /\ \A j \in Jobs : JobPlaced(j)

\* A job that may still write, or a reader within its lease, has its lease
\* record, unless the record went away undrained.
Loose == unfenced \cup lapsed
Active(j) ==
    \/ kind[j] \in Writers /\ (pc[j] \in {"leased", "opened", "writing"} \/ j \in inflight)
    \/ kind[j] = "read" /\ pc[j] \in {"leased", "reading"} /\ age[j] \in {"live", "old"}
LeasedOK == \A j \in Jobs : Active(j) => j \in leases \cup Loose

\* Nothing is active any more, and nothing will be.
Emptied == deleting /\ \A j \in Jobs : Active(j) => j \in Loose

\* How far a deletion has come.
DeletionAt(j) ==
    /\ pc[j] \in Past => Emptied
    /\ pc[j] = "sweepGit" => git \ found[j] \subseteq Loose
    /\ pc[j] \in {"listSnap", "sweepSnap", "rows", "keys"} => git \subseteq Loose
    /\ pc[j] \in {"registry", "route", "listGit", "sweepGit", "listSnap"} =>
         snaps \subseteq view[j] \cup Loose
    /\ pc[j] = "sweepSnap" => snaps \ found[j] \subseteq Loose
    /\ pc[j] \in {"rows", "keys"} => snaps \subseteq Loose
    /\ pc[j] = "keys" => rows = {}
DeletionOK ==
    /\ \A j \in Jobs : DeletionAt(j)
    /\ request = "acked" =>
         Emptied /\ rows = {} /\ prefixes = {} /\ git \cup snaps \subseteq Loose

\* The prefix of a snapshot is recorded until the deletion is over; before the
\* first row there is no snapshot.
PrefixesOK ==
    \A j \in Jobs : kind[j] = "snapshot" /\ pc[j] # "idle" =>
        /\ j \in prefixes \/ request = "acked"
        /\ deleting \/ rows # {}

\* No snapshot, and no backfill that writes, ever loses its lease record, since
\* idle cleanup finds no row and they, like a reader with a view, began at one.
JobLoose(j) ==
    /\ j \in lapsed => kind[j] \in {"push", "compact"}
    /\ j \in unfenced => kind[j] # "snapshot" /\ pc[j] # "idle"
    /\ j \in unfenced /\ kind[j] = "backfill" =>
         pc[j] # "writing" /\ j \notin leases \cup git \cup inflight
    /\ kind[j] = "backfill" /\ (pc[j] \in {"opened", "writing"} \/ j \in git \cup inflight) =>
         deleting \/ rows # {}
    /\ pc[j] = "reading" /\ view[j] # {} => deleting \/ rows # {}
LooseOK == \A j \in Jobs : JobLoose(j)

\* Until a deletion sweeps, rows, staged packs under a lease and the views of
\* readers are stored.
Staged(j) == Written(j) /\ kind[j] \in {"push", "compact"}
Reading(j) == pc[j] = "reading" /\ age[j] \in {"live", "old"} /\ j \notin unfenced
ServedOK ==
    \/ Emptied
    \/ /\ rows \subseteq git \cup during
       /\ \A j \in Jobs : Staged(j) /\ (j \in leases \/ j = victim) => j \in git \cup during
       /\ \A j \in Jobs : Reading(j) => view[j] \subseteq git \cup during

\* What a purge may find beside it was admitted during the purge.
PurgeOK ==
    alarmPc \in {"list", "purge"} =>
        /\ leases \subseteq during /\ rows \subseteq during
        /\ \A j \in Jobs : Reading(j) => view[j] \subseteq during

\* The route record agrees with the row, or a message about it is under way.
Agreed == kv = IF d1.public THEN d1.id ELSE 0
Pending == {"sync", "apply", "fence", "registry", "route"}
RoutesOK ==
    /\ crossed \in BOOLEAN
    /\ d1.id = 0 => d1 = NoRow
    /\ \A j \in Jobs : pc[j] \in {"sync", "apply"} =>
         kind[j] = "sync" /\ \E i \in {1, 2} : view[j] = {i}
    /\ \A j \in Jobs : pc[j] = "apply" => found[j] \subseteq [id : view[j], public : BOOLEAN]
    /\ \A j \in Jobs : pc[j] = "route" => d1.id # 1
    /\ crossed \/ Agreed \/ \E j \in Jobs : pc[j] \in Pending

\* The live readers are within the capacity.
ReadersOK ==
    /\ IsFiniteSet(Live(Held("read")))
    /\ Cardinality(Live(Held("read"))) <= MaxReaders

LifecycleInv ==
    /\ TypeOK
    /\ Placed
    /\ LeasedOK
    /\ DeletionOK
    /\ PrefixesOK
    /\ LooseOK
    /\ ServedOK
    /\ PurgeOK
    /\ RoutesOK
    /\ ReadersOK

------------------------------------------------------------------------------
(* Where jobs stand *)

\* Every variable keeps its type.
LEMMA TypesStep ==
  ASSUME TypeOK, Placed, RoutesOK, Next
  PROVE  TypeOK'
<1> USE LifecycleAssumption DEF TypeOK, Placed, Steps, JobPlaced, Touching, Past, Writers, Renewable
<1>1. ASSUME NEW j \in Jobs, BeginReceive(j) PROVE TypeOK'
  BY <1>1 DEF BeginReceive, Admit, Admitted, Dropping, Clearing, Busy, Draining, Live, Held,
     bucketVars, routeVars
<1>2. ASSUME NEW j \in Jobs, BeginCompaction(j) PROVE TypeOK'
  BY <1>2 DEF BeginCompaction, Admit, Admitted, Dropping, Clearing, Busy, Draining, Live, Held,
     bucketVars,
     routeVars
<1>3. ASSUME NEW j \in Jobs, BeginSnapshotMaterialization(j) PROVE TypeOK'
  BY <1>3 DEF BeginSnapshotMaterialization, Admit, Admitted, Draining, Held, bucketVars, routeVars
<1>4. ASSUME NEW j \in Jobs, BeginRepositoryMaintenance(j) PROVE TypeOK'
  BY <1>4 DEF BeginRepositoryMaintenance, Admit, Admitted, Draining, Held, bucketVars, routeVars
<1>5. ASSUME NEW j \in Jobs, BeginRepositoryRead(j) PROVE TypeOK'
  BY <1>5 DEF BeginRepositoryRead, Admit, Admitted, Live, Held, bucketVars, routeVars
<1>6. ASSUME NEW j \in Jobs, Renew(j) PROVE TypeOK'
  BY <1>6 DEF Renew, Renewed, Live, objectVars, bucketVars, routeVars, history
<1>7. ASSUME NEW j \in Jobs, Time(j) PROVE TypeOK'
  BY <1>7 DEF Time, GrowOld, Expire, Drain, Aging, objectVars, bucketVars, routeVars, history
<1>8. ASSUME NEW j \in Jobs, OpenCatalog(j) PROVE TypeOK'
  BY <1>8 DEF OpenCatalog, Goto, Release, NotLeases, Elsewhere, bucketVars, routeVars, history
<1>9. ASSUME NEW j \in Jobs, StartWrite(j) PROVE TypeOK'
  BY <1>9 DEF StartWrite, Goto, Release, NotLeases, routeVars, history
<1>10. ASSUME NEW j \in Jobs, Land(j) PROVE TypeOK'
  BY <1>10 DEF Land, jobVars, objectVars, routeVars, history
<1>11. ASSUME NEW j \in Jobs, Commit(j) PROVE TypeOK'
  BY <1>11 DEF Commit, Written, Goto, Release, Elsewhere, bucketVars, routeVars, history
<1>12. ASSUME NEW j \in Jobs, Cleanup(j) PROVE TypeOK'
  BY <1>12 DEF Cleanup, Goto, Release, NotLeases, Elsewhere, routeVars, history
<1>13. ASSUME NEW j \in Jobs, Finish(j) PROVE TypeOK'
  BY <1>13 DEF Finish, Written, Goto, Release, NotLeases, Elsewhere, bucketVars, routeVars, history
<1>14. ASSUME NEW j \in Jobs, Die(j) PROVE TypeOK'
  BY <1>14 DEF Die, Fault, Goto, objectVars, bucketVars, routeVars, history
<1>15. ASSUME NEW j \in Jobs, Deliver(j) PROVE TypeOK'
  BY <1>15 DEF Deliver, Goto, objectVars, bucketVars, routeVars, history
<1>16. ASSUME NEW j \in Jobs, Fence(j) PROVE TypeOK'
  BY <1>16 DEF Fence, Kept, Live, Draining, Goto, bucketVars, routeVars, history
<1>17. ASSUME NEW j \in Jobs, DeleteRow(j) PROVE TypeOK'
  BY <1>17 DEF DeleteRow, Consumer, Goto, NoRow, objectVars, bucketVars, history
<1>18. ASSUME NEW j \in Jobs, DeleteRoute(j) PROVE TypeOK'
  BY <1>18 DEF DeleteRoute, Consumer, Goto, objectVars, bucketVars, history
<1>19. ASSUME NEW j \in Jobs, ListPrefix(j) PROVE TypeOK'
  BY <1>19 DEF ListPrefix, Consumer, Goto, objectVars, bucketVars, routeVars, history
<1>20. ASSUME NEW j \in Jobs, DeleteBatch(j) PROVE TypeOK'
  BY <1>20 DEF DeleteBatch, Consumer, Goto, objectVars, routeVars, history
<1>21. ASSUME NEW j \in Jobs, ClearRows(j) PROVE TypeOK'
  BY <1>21 DEF ClearRows, Consumer, Goto, bucketVars, routeVars, history
<1>22. ASSUME NEW j \in Jobs, ClearKeys(j) PROVE TypeOK'
  BY <1>22 DEF ClearKeys, Consumer, Goto, bucketVars, routeVars, history
<1>23. ASSUME NEW j \in Jobs, RetryDeletion(j) PROVE TypeOK'
  BY <1>23 DEF RetryDeletion, Fault, Goto, objectVars, bucketVars, routeVars, history
<1>24. ASSUME NEW j \in Jobs, ChangeRow(j) PROVE TypeOK'
  <2>1. d1' \in [id : 0 .. 2, public : BOOLEAN]
    <3>1. CASE d1.id = 0
      BY <1>24, <3>1 DEF ChangeRow
    <3>2. CASE d1.id # 0
      <4>1. PICK b \in BOOLEAN : d1' = [d1 EXCEPT !.public = b]
        <5>1. d1' = [d1 EXCEPT !.public = ~d1.public]
          BY <1>24, <3>2 DEF ChangeRow
        <5>2. (~d1.public) \in BOOLEAN
          BY Zenon
        <5> QED BY <5>1, <5>2
      <4> QED BY <4>1
    <3> QED BY <3>1, <3>2
  <2> QED BY <1>24, <2>1 DEF ChangeRow, Goto, objectVars, bucketVars, history
<1>25. ASSUME NEW j \in Jobs, SyncRead(j) PROVE TypeOK'
  BY <1>25 DEF SyncRead, Goto, objectVars, bucketVars, routeVars, history
<1>26. ASSUME NEW j \in Jobs, SyncApply(j) PROVE TypeOK'
  <2>1. kv' \in 0 .. 2
    BY <1>26 DEF SyncApply, SyncedRecord, RoutesOK
  <2> QED BY <1>26, <2>1 DEF SyncApply, Goto, objectVars, bucketVars, history
<1>27. ASSUME NEW j \in Jobs, SyncRetry(j) PROVE TypeOK'
  BY <1>27 DEF SyncRetry, Fault, Goto, objectVars, bucketVars, routeVars, history
<1>28. CASE AlarmFires
  <2>1. leases' \subseteq Jobs /\ prefixes' \subseteq Jobs /\ victim' \in Jobs \cup {None}
    BY <1>28 DEF AlarmFires, IdleTail, ExpiredReceive, Live, Held
  <2>2. faults' \in 0 .. MaxFaults
    <3>1. faults' = faults \/ (faults < MaxFaults /\ faults' = faults + 1)
      BY <1>28 DEF AlarmFires, IdleTail, ExpiredReceive, Fault, history
    <3> QED BY <3>1
  <2>4. deleting' = deleting \/ deleting' = FALSE
    BY <1>28 DEF AlarmFires, IdleTail, ExpiredReceive
  <2>3. alarmPc' \in {"off", "clearing", "list", "purge"}
    BY <1>28 DEF AlarmFires, IdleTail, ExpiredReceive
  <2> QED BY <1>28, <2>1, <2>2, <2>3, <2>4 DEF AlarmFires, jobVars, bucketVars, routeVars
<1>29. CASE AlarmClears
  <2>1. leases' \subseteq Jobs /\ prefixes' \subseteq Jobs /\ victim' \in Jobs \cup {None}
    BY <1>29 DEF AlarmClears, IdleTail, Live, Held
  <2>2. faults' \in 0 .. MaxFaults
    <3>1. faults' = faults \/ (faults < MaxFaults /\ faults' = faults + 1)
      BY <1>29 DEF AlarmClears, IdleTail, Fault
    <3> QED BY <3>1
  <2>4. deleting' = deleting \/ deleting' = FALSE
    BY <1>29 DEF AlarmClears, IdleTail
  <2>3. alarmPc' \in {"off", "clearing", "list", "purge"}
    BY <1>29 DEF AlarmClears, IdleTail
  <2> QED BY <1>29, <2>1, <2>2, <2>3, <2>4 DEF AlarmClears, jobVars, bucketVars, routeVars
<1>30. CASE AlarmClearFails
  BY <1>30 DEF AlarmClearFails, Fault, Dropping, Clearing, Busy, Draining, Held, bucketVars,
     routeVars
<1>31. CASE PurgeList
  BY <1>31 DEF PurgeList, jobVars, bucketVars, routeVars, history
<1>32. CASE PurgeDelete
  BY <1>32 DEF PurgeDelete, jobVars, routeVars, history
<1>33. CASE Evict
  BY <1>33 DEF Evict, Fault, jobVars, bucketVars, routeVars, history
<1> QED BY <1>1, <1>2, <1>3, <1>4, <1>5, <1>6, <1>7, <1>8, <1>9, <1>10, <1>11, <1>12, <1>13, <1>14,
   <1>15, <1>16, <1>17, <1>18, <1>19, <1>20, <1>21, <1>22, <1>23, <1>24, <1>25, <1>26, <1>27,
   <1>28, <1>29, <1>30, <1>31, <1>32, <1>33 DEF Next, Worker, Deletion

\* Every job stays where a job of its kind can be.
LEMMA PlacedStep ==
  ASSUME TypeOK, Placed, Next
  PROVE  Placed'
<1> USE LifecycleAssumption DEF TypeOK, Placed, Steps, JobPlaced, Touching, Past, Writers, Renewable
<1>1. ASSUME NEW j \in Jobs, BeginReceive(j) PROVE Placed'
  BY <1>1 DEF BeginReceive, Admit, Admitted, Dropping, Clearing, Busy, Draining, Live, Held,
     bucketVars, routeVars
<1>2. ASSUME NEW j \in Jobs, BeginCompaction(j) PROVE Placed'
  BY <1>2 DEF BeginCompaction, Admit, Admitted, Dropping, Clearing, Busy, Draining, Live, Held,
     bucketVars,
     routeVars
<1>3. ASSUME NEW j \in Jobs, BeginSnapshotMaterialization(j) PROVE Placed'
  BY <1>3 DEF BeginSnapshotMaterialization, Admit, Admitted, Draining, Held, bucketVars, routeVars
<1>4. ASSUME NEW j \in Jobs, BeginRepositoryMaintenance(j) PROVE Placed'
  BY <1>4 DEF BeginRepositoryMaintenance, Admit, Admitted, Draining, Held, bucketVars, routeVars
<1>5. ASSUME NEW j \in Jobs, BeginRepositoryRead(j) PROVE Placed'
  BY <1>5 DEF BeginRepositoryRead, Admit, Admitted, Live, Held, bucketVars, routeVars
<1>6. ASSUME NEW j \in Jobs, Renew(j) PROVE Placed'
  BY <1>6 DEF Renew, Renewed, Live, objectVars, bucketVars, routeVars, history
<1>7. ASSUME NEW j \in Jobs, Time(j) PROVE Placed'
  BY <1>7 DEF Time, GrowOld, Expire, Drain, Aging, objectVars, bucketVars, routeVars, history
<1>8. ASSUME NEW j \in Jobs, OpenCatalog(j) PROVE Placed'
  BY <1>8 DEF OpenCatalog, Goto, Release, NotLeases, Elsewhere, bucketVars, routeVars, history
<1>9. ASSUME NEW j \in Jobs, StartWrite(j) PROVE Placed'
  BY <1>9 DEF StartWrite, Goto, Release, NotLeases, routeVars, history
<1>10. ASSUME NEW j \in Jobs, Land(j) PROVE Placed'
  BY <1>10 DEF Land, jobVars, objectVars, routeVars, history
<1>11. ASSUME NEW j \in Jobs, Commit(j) PROVE Placed'
  BY <1>11 DEF Commit, Written, Goto, Release, Elsewhere, bucketVars, routeVars, history
<1>12. ASSUME NEW j \in Jobs, Cleanup(j) PROVE Placed'
  BY <1>12 DEF Cleanup, Goto, Release, NotLeases, Elsewhere, routeVars, history
<1>13. ASSUME NEW j \in Jobs, Finish(j) PROVE Placed'
  BY <1>13 DEF Finish, Written, Goto, Release, NotLeases, Elsewhere, bucketVars, routeVars, history
<1>14. ASSUME NEW j \in Jobs, Die(j) PROVE Placed'
  BY <1>14 DEF Die, Fault, Goto, objectVars, bucketVars, routeVars, history
<1>15. ASSUME NEW j \in Jobs, Deliver(j) PROVE Placed'
  BY <1>15 DEF Deliver, Goto, objectVars, bucketVars, routeVars, history
<1>16. ASSUME NEW j \in Jobs, Fence(j) PROVE Placed'
  BY <1>16 DEF Fence, Kept, Live, Draining, Goto, bucketVars, routeVars, history
<1>17. ASSUME NEW j \in Jobs, DeleteRow(j) PROVE Placed'
  BY <1>17 DEF DeleteRow, Consumer, Goto, NoRow, objectVars, bucketVars, history
<1>18. ASSUME NEW j \in Jobs, DeleteRoute(j) PROVE Placed'
  BY <1>18 DEF DeleteRoute, Consumer, Goto, objectVars, bucketVars, history
<1>19. ASSUME NEW j \in Jobs, ListPrefix(j) PROVE Placed'
  BY <1>19 DEF ListPrefix, Consumer, Goto, objectVars, bucketVars, routeVars, history
<1>20. ASSUME NEW j \in Jobs, DeleteBatch(j) PROVE Placed'
  BY <1>20 DEF DeleteBatch, Consumer, Goto, objectVars, routeVars, history
<1>21. ASSUME NEW j \in Jobs, ClearRows(j) PROVE Placed'
  BY <1>21 DEF ClearRows, Consumer, Goto, bucketVars, routeVars, history
<1>22. ASSUME NEW j \in Jobs, ClearKeys(j) PROVE Placed'
  BY <1>22 DEF ClearKeys, Consumer, Goto, bucketVars, routeVars, history
<1>23. ASSUME NEW j \in Jobs, RetryDeletion(j) PROVE Placed'
  BY <1>23 DEF RetryDeletion, Fault, Goto, objectVars, bucketVars, routeVars, history
<1>24. ASSUME NEW j \in Jobs, ChangeRow(j) PROVE Placed'
  BY <1>24 DEF ChangeRow, Goto, objectVars, bucketVars, history
<1>25. ASSUME NEW j \in Jobs, SyncRead(j) PROVE Placed'
  BY <1>25 DEF SyncRead, Goto, objectVars, bucketVars, routeVars, history
<1>26. ASSUME NEW j \in Jobs, SyncApply(j) PROVE Placed'
  BY <1>26 DEF SyncApply, Goto, objectVars, bucketVars, history
<1>27. ASSUME NEW j \in Jobs, SyncRetry(j) PROVE Placed'
  BY <1>27 DEF SyncRetry, Fault, Goto, objectVars, bucketVars, routeVars, history
<1>28. CASE AlarmFires
  BY <1>28 DEF AlarmFires, IdleTail, Fault, history, ExpiredReceive, Dropping, Clearing, Busy,
     Draining, Live, Held, jobVars,
     bucketVars, routeVars
<1>29. CASE AlarmClears
  BY <1>29 DEF AlarmClears, IdleTail, Fault, Dropping, Clearing, Busy, Draining, Live, Held,
     jobVars, bucketVars, routeVars
<1>30. CASE AlarmClearFails
  BY <1>30 DEF AlarmClearFails, Fault, Dropping, Clearing, Busy, Draining, Held, bucketVars,
     routeVars
<1>31. CASE PurgeList
  BY <1>31 DEF PurgeList, jobVars, bucketVars, routeVars, history
<1>32. CASE PurgeDelete
  BY <1>32 DEF PurgeDelete, jobVars, routeVars, history
<1>33. CASE Evict
  BY <1>33 DEF Evict, Fault, jobVars, bucketVars, routeVars, history
<1> QED BY <1>1, <1>2, <1>3, <1>4, <1>5, <1>6, <1>7, <1>8, <1>9, <1>10, <1>11, <1>12, <1>13, <1>14,
   <1>15, <1>16, <1>17, <1>18, <1>19, <1>20, <1>21, <1>22, <1>23, <1>24, <1>25, <1>26, <1>27,
   <1>28, <1>29, <1>30, <1>31, <1>32, <1>33 DEF Next, Worker, Deletion

------------------------------------------------------------------------------
(* Leases and deletion *)

\* What no step undoes: the histories, the tombstone, and that under the
\* tombstone no job becomes active.
Closing ==
    /\ unfenced \subseteq unfenced' /\ lapsed \subseteq lapsed' /\ during \subseteq during'
    /\ deleting => deleting' /\ \A k \in Jobs : Active(k)' => Active(k)

\* Every step closes the repository further.
LEMMA ClosingStep ==
  ASSUME TypeOK, Placed, Next
  PROVE  Closing
<1> USE LifecycleAssumption DEF TypeOK, Placed, Active, Closing, JobPlaced, Touching, Past, Writers,
   Renewable
<1>1. ASSUME NEW j \in Jobs, BeginReceive(j) PROVE Closing
  BY <1>1 DEF BeginReceive, Admit, Admitted, Dropping, Clearing, Busy, Draining, Live, Held,
     bucketVars, routeVars
<1>2. ASSUME NEW j \in Jobs, BeginCompaction(j) PROVE Closing
  BY <1>2 DEF BeginCompaction, Admit, Admitted, Dropping, Clearing, Busy, Draining, Live, Held,
     bucketVars,
     routeVars
<1>3. ASSUME NEW j \in Jobs, BeginSnapshotMaterialization(j) PROVE Closing
  BY <1>3 DEF BeginSnapshotMaterialization, Admit, Admitted, Draining, Held, bucketVars, routeVars
<1>4. ASSUME NEW j \in Jobs, BeginRepositoryMaintenance(j) PROVE Closing
  BY <1>4 DEF BeginRepositoryMaintenance, Admit, Admitted, Draining, Held, bucketVars, routeVars
<1>5. ASSUME NEW j \in Jobs, BeginRepositoryRead(j) PROVE Closing
  BY <1>5 DEF BeginRepositoryRead, Admit, Admitted, Live, Held, bucketVars, routeVars
<1>6. ASSUME NEW j \in Jobs, Renew(j) PROVE Closing
  BY <1>6 DEF Renew, Renewed, Live, objectVars, bucketVars, routeVars, history
<1>7. ASSUME NEW j \in Jobs, Time(j) PROVE Closing
  BY <1>7 DEF Time, GrowOld, Expire, Drain, Aging, objectVars, bucketVars, routeVars, history
<1>8. ASSUME NEW j \in Jobs, OpenCatalog(j) PROVE Closing
  BY <1>8 DEF OpenCatalog, Goto, Release, NotLeases, Elsewhere, bucketVars, routeVars, history
<1>9. ASSUME NEW j \in Jobs, StartWrite(j) PROVE Closing
  BY <1>9 DEF StartWrite, Goto, Release, NotLeases, routeVars, history
<1>10. ASSUME NEW j \in Jobs, Land(j) PROVE Closing
  BY <1>10 DEF Land, jobVars, objectVars, routeVars, history
<1>11. ASSUME NEW j \in Jobs, Commit(j) PROVE Closing
  BY <1>11 DEF Commit, Written, Goto, Release, Elsewhere, bucketVars, routeVars, history
<1>12. ASSUME NEW j \in Jobs, Cleanup(j) PROVE Closing
  BY <1>12 DEF Cleanup, Goto, Release, NotLeases, Elsewhere, routeVars, history
<1>13. ASSUME NEW j \in Jobs, Finish(j) PROVE Closing
  BY <1>13 DEF Finish, Written, Goto, Release, NotLeases, Elsewhere, bucketVars, routeVars, history
<1>14. ASSUME NEW j \in Jobs, Die(j) PROVE Closing
  BY <1>14 DEF Die, Fault, Goto, objectVars, bucketVars, routeVars, history
<1>15. ASSUME NEW j \in Jobs, Deliver(j) PROVE Closing
  BY <1>15 DEF Deliver, Goto, objectVars, bucketVars, routeVars, history
<1>16. ASSUME NEW j \in Jobs, Fence(j) PROVE Closing
  BY <1>16 DEF Fence, Kept, Live, Draining, Goto, bucketVars, routeVars, history
<1>17. ASSUME NEW j \in Jobs, DeleteRow(j) PROVE Closing
  BY <1>17 DEF DeleteRow, Consumer, Goto, NoRow, objectVars, bucketVars, history
<1>18. ASSUME NEW j \in Jobs, DeleteRoute(j) PROVE Closing
  BY <1>18 DEF DeleteRoute, Consumer, Goto, objectVars, bucketVars, history
<1>19. ASSUME NEW j \in Jobs, ListPrefix(j) PROVE Closing
  BY <1>19 DEF ListPrefix, Consumer, Goto, objectVars, bucketVars, routeVars, history
<1>20. ASSUME NEW j \in Jobs, DeleteBatch(j) PROVE Closing
  BY <1>20 DEF DeleteBatch, Consumer, Goto, objectVars, routeVars, history
<1>21. ASSUME NEW j \in Jobs, ClearRows(j) PROVE Closing
  BY <1>21 DEF ClearRows, Consumer, Goto, bucketVars, routeVars, history
<1>22. ASSUME NEW j \in Jobs, ClearKeys(j) PROVE Closing
  BY <1>22 DEF ClearKeys, Consumer, Goto, bucketVars, routeVars, history
<1>23. ASSUME NEW j \in Jobs, RetryDeletion(j) PROVE Closing
  BY <1>23 DEF RetryDeletion, Fault, Goto, objectVars, bucketVars, routeVars, history
<1>24. ASSUME NEW j \in Jobs, ChangeRow(j) PROVE Closing
  BY <1>24 DEF ChangeRow, Goto, objectVars, bucketVars, history
<1>25. ASSUME NEW j \in Jobs, SyncRead(j) PROVE Closing
  BY <1>25 DEF SyncRead, Goto, objectVars, bucketVars, routeVars, history
<1>26. ASSUME NEW j \in Jobs, SyncApply(j) PROVE Closing
  BY <1>26 DEF SyncApply, Goto, objectVars, bucketVars, history
<1>27. ASSUME NEW j \in Jobs, SyncRetry(j) PROVE Closing
  BY <1>27 DEF SyncRetry, Fault, Goto, objectVars, bucketVars, routeVars, history
<1>28. CASE AlarmFires
  BY <1>28 DEF AlarmFires, IdleTail, Fault, history, ExpiredReceive, Dropping, Clearing, Busy,
     Draining, Live, Held, jobVars,
     bucketVars, routeVars
<1>29. CASE AlarmClears
  BY <1>29 DEF AlarmClears, IdleTail, Fault, Dropping, Clearing, Busy, Draining, Live, Held,
     jobVars, bucketVars, routeVars
<1>30. CASE AlarmClearFails
  BY <1>30 DEF AlarmClearFails, Fault, Dropping, Clearing, Busy, Draining, Held, bucketVars,
     routeVars
<1>31. CASE PurgeList
  BY <1>31 DEF PurgeList, jobVars, bucketVars, routeVars, history
<1>32. CASE PurgeDelete
  BY <1>32 DEF PurgeDelete, jobVars, routeVars, history
<1>33. CASE Evict
  BY <1>33 DEF Evict, Fault, jobVars, bucketVars, routeVars, history
<1> QED BY <1>1, <1>2, <1>3, <1>4, <1>5, <1>6, <1>7, <1>8, <1>9, <1>10, <1>11, <1>12, <1>13, <1>14,
   <1>15, <1>16, <1>17, <1>18, <1>19, <1>20, <1>21, <1>22, <1>23, <1>24, <1>25, <1>26, <1>27,
   <1>28, <1>29, <1>30, <1>31, <1>32, <1>33 DEF Next, Worker, Deletion

\* A repository in which nothing is active stays so.
LEMMA EmptiedStep ==
  ASSUME TypeOK, Placed, Next, Emptied
  PROVE  Emptied'
BY ClosingStep DEF Closing, Emptied, Loose

\* An active job keeps its lease record, or is counted as unfenced.
LEMMA LeasedStep ==
  ASSUME TypeOK, Placed, LeasedOK, DeletionOK, Next
  PROVE  LeasedOK'
<1> USE LifecycleAssumption DEF TypeOK, Placed, Active, Loose, LeasedOK, JobPlaced, Touching, Past,
   Writers, Renewable
<1>1. ASSUME NEW j \in Jobs, BeginReceive(j) PROVE LeasedOK'
  BY <1>1 DEF BeginReceive, Admit, Admitted, Dropping, Clearing, Busy, Draining, Live, Held,
     bucketVars, routeVars
<1>2. ASSUME NEW j \in Jobs, BeginCompaction(j) PROVE LeasedOK'
  BY <1>2 DEF BeginCompaction, Admit, Admitted, Dropping, Clearing, Busy, Draining, Live, Held,
     bucketVars,
     routeVars
<1>3. ASSUME NEW j \in Jobs, BeginSnapshotMaterialization(j) PROVE LeasedOK'
  BY <1>3 DEF BeginSnapshotMaterialization, Admit, Admitted, Draining, Held, bucketVars, routeVars
<1>4. ASSUME NEW j \in Jobs, BeginRepositoryMaintenance(j) PROVE LeasedOK'
  BY <1>4 DEF BeginRepositoryMaintenance, Admit, Admitted, Draining, Held, bucketVars, routeVars
<1>5. ASSUME NEW j \in Jobs, BeginRepositoryRead(j) PROVE LeasedOK'
  BY <1>5 DEF BeginRepositoryRead, Admit, Admitted, Live, Held, bucketVars, routeVars
<1>6. ASSUME NEW j \in Jobs, Renew(j) PROVE LeasedOK'
  BY <1>6 DEF Renew, Renewed, Live, objectVars, bucketVars, routeVars, history
<1>7. ASSUME NEW j \in Jobs, Time(j) PROVE LeasedOK'
  BY <1>7 DEF Time, GrowOld, Expire, Drain, Aging, objectVars, bucketVars, routeVars, history
<1>8. ASSUME NEW j \in Jobs, OpenCatalog(j) PROVE LeasedOK'
  BY <1>8 DEF OpenCatalog, Goto, Release, NotLeases, Elsewhere, bucketVars, routeVars, history
<1>9. ASSUME NEW j \in Jobs, StartWrite(j) PROVE LeasedOK'
  BY <1>9 DEF StartWrite, Goto, Release, NotLeases, routeVars, history
<1>10. ASSUME NEW j \in Jobs, Land(j) PROVE LeasedOK'
  BY <1>10 DEF Land, jobVars, objectVars, routeVars, history
<1>11. ASSUME NEW j \in Jobs, Commit(j) PROVE LeasedOK'
  BY <1>11 DEF Commit, Written, Goto, Release, Elsewhere, bucketVars, routeVars, history
<1>12. ASSUME NEW j \in Jobs, Cleanup(j) PROVE LeasedOK'
  BY <1>12 DEF Cleanup, Goto, Release, NotLeases, Elsewhere, routeVars, history
<1>13. ASSUME NEW j \in Jobs, Finish(j) PROVE LeasedOK'
  BY <1>13 DEF Finish, Written, Goto, Release, NotLeases, Elsewhere, bucketVars, routeVars, history
<1>14. ASSUME NEW j \in Jobs, Die(j) PROVE LeasedOK'
  BY <1>14 DEF Die, Fault, Goto, objectVars, bucketVars, routeVars, history
<1>15. ASSUME NEW j \in Jobs, Deliver(j) PROVE LeasedOK'
  BY <1>15 DEF Deliver, Goto, objectVars, bucketVars, routeVars, history
<1>16. ASSUME NEW j \in Jobs, Fence(j) PROVE LeasedOK'
  BY <1>16 DEF Fence, Kept, Live, Draining, Goto, bucketVars, routeVars, history
<1>17. ASSUME NEW j \in Jobs, DeleteRow(j) PROVE LeasedOK'
  BY <1>17 DEF DeleteRow, Consumer, Goto, NoRow, objectVars, bucketVars, history
<1>18. ASSUME NEW j \in Jobs, DeleteRoute(j) PROVE LeasedOK'
  BY <1>18 DEF DeleteRoute, Consumer, Goto, objectVars, bucketVars, history
<1>19. ASSUME NEW j \in Jobs, ListPrefix(j) PROVE LeasedOK'
  BY <1>19 DEF ListPrefix, Consumer, Goto, objectVars, bucketVars, routeVars, history
<1>20. ASSUME NEW j \in Jobs, DeleteBatch(j) PROVE LeasedOK'
  BY <1>20 DEF DeleteBatch, Consumer, Goto, objectVars, routeVars, history
<1>21. ASSUME NEW j \in Jobs, ClearRows(j) PROVE LeasedOK'
  BY <1>21 DEF ClearRows, Consumer, Goto, bucketVars, routeVars, history
<1>22. ASSUME NEW j \in Jobs, ClearKeys(j) PROVE LeasedOK'
  BY <1>22 DEF ClearKeys, Consumer, Goto, bucketVars, routeVars, history,
     DeletionOK, DeletionAt, Emptied
<1>23. ASSUME NEW j \in Jobs, RetryDeletion(j) PROVE LeasedOK'
  BY <1>23 DEF RetryDeletion, Fault, Goto, objectVars, bucketVars, routeVars, history
<1>24. ASSUME NEW j \in Jobs, ChangeRow(j) PROVE LeasedOK'
  BY <1>24 DEF ChangeRow, Goto, objectVars, bucketVars, history
<1>25. ASSUME NEW j \in Jobs, SyncRead(j) PROVE LeasedOK'
  BY <1>25 DEF SyncRead, Goto, objectVars, bucketVars, routeVars, history
<1>26. ASSUME NEW j \in Jobs, SyncApply(j) PROVE LeasedOK'
  BY <1>26 DEF SyncApply, Goto, objectVars, bucketVars, history
<1>27. ASSUME NEW j \in Jobs, SyncRetry(j) PROVE LeasedOK'
  BY <1>27 DEF SyncRetry, Fault, Goto, objectVars, bucketVars, routeVars, history
<1>28. CASE AlarmFires
  BY <1>28 DEF AlarmFires, IdleTail, Fault, history, ExpiredReceive, Dropping, Clearing, Busy,
     Draining, Live, Held, jobVars,
     bucketVars, routeVars
<1>29. CASE AlarmClears
  BY <1>29 DEF AlarmClears, IdleTail, Fault, Dropping, Clearing, Busy, Draining, Live, Held,
     jobVars, bucketVars, routeVars
<1>30. CASE AlarmClearFails
  BY <1>30 DEF AlarmClearFails, Fault, Dropping, Clearing, Busy, Draining, Held, bucketVars,
     routeVars
<1>31. CASE PurgeList
  BY <1>31 DEF PurgeList, jobVars, bucketVars, routeVars, history
<1>32. CASE PurgeDelete
  BY <1>32 DEF PurgeDelete, jobVars, routeVars, history
<1>33. CASE Evict
  BY <1>33 DEF Evict, Fault, jobVars, bucketVars, routeVars, history
<1> QED BY <1>1, <1>2, <1>3, <1>4, <1>5, <1>6, <1>7, <1>8, <1>9, <1>10, <1>11, <1>12, <1>13, <1>14,
   <1>15, <1>16, <1>17, <1>18, <1>19, <1>20, <1>21, <1>22, <1>23, <1>24, <1>25, <1>26, <1>27,
   <1>28, <1>29, <1>30, <1>31, <1>32, <1>33 DEF Next, Worker, Deletion

\* Prefixes stay recorded.
LEMMA PrefixesStep ==
  ASSUME TypeOK, Placed, PrefixesOK, Next
  PROVE  PrefixesOK'
<1> USE LifecycleAssumption DEF TypeOK, Placed, PrefixesOK, JobPlaced, Touching, Past, Writers,
   Renewable
<1>1. ASSUME NEW j \in Jobs, BeginReceive(j) PROVE PrefixesOK'
  BY <1>1 DEF BeginReceive, Admit, Admitted, Dropping, Clearing, Busy, Draining, Live, Held,
     bucketVars, routeVars
<1>2. ASSUME NEW j \in Jobs, BeginCompaction(j) PROVE PrefixesOK'
  BY <1>2 DEF BeginCompaction, Admit, Admitted, Dropping, Clearing, Busy, Draining, Live, Held,
     bucketVars,
     routeVars
<1>3. ASSUME NEW j \in Jobs, BeginSnapshotMaterialization(j) PROVE PrefixesOK'
  BY <1>3 DEF BeginSnapshotMaterialization, Admit, Admitted, Draining, Held, bucketVars, routeVars
<1>4. ASSUME NEW j \in Jobs, BeginRepositoryMaintenance(j) PROVE PrefixesOK'
  BY <1>4 DEF BeginRepositoryMaintenance, Admit, Admitted, Draining, Held, bucketVars, routeVars
<1>5. ASSUME NEW j \in Jobs, BeginRepositoryRead(j) PROVE PrefixesOK'
  BY <1>5 DEF BeginRepositoryRead, Admit, Admitted, Live, Held, bucketVars, routeVars
<1>6. ASSUME NEW j \in Jobs, Renew(j) PROVE PrefixesOK'
  BY <1>6 DEF Renew, Renewed, Live, objectVars, bucketVars, routeVars, history
<1>7. ASSUME NEW j \in Jobs, Time(j) PROVE PrefixesOK'
  BY <1>7 DEF Time, GrowOld, Expire, Drain, Aging, objectVars, bucketVars, routeVars, history
<1>8. ASSUME NEW j \in Jobs, OpenCatalog(j) PROVE PrefixesOK'
  BY <1>8 DEF OpenCatalog, Goto, Release, NotLeases, Elsewhere, bucketVars, routeVars, history
<1>9. ASSUME NEW j \in Jobs, StartWrite(j) PROVE PrefixesOK'
  BY <1>9 DEF StartWrite, Goto, Release, NotLeases, routeVars, history
<1>10. ASSUME NEW j \in Jobs, Land(j) PROVE PrefixesOK'
  BY <1>10 DEF Land, jobVars, objectVars, routeVars, history
<1>11. ASSUME NEW j \in Jobs, Commit(j) PROVE PrefixesOK'
  <2>1. (rows # {} => rows' # {}) /\ \A k \in Jobs : pc'[k] # "idle" <=> pc[k] # "idle"
    BY <1>11 DEF Commit, Written, Goto
  <2> QED BY <1>11, <2>1 DEF Commit, Elsewhere
<1>12. ASSUME NEW j \in Jobs, Cleanup(j) PROVE PrefixesOK'
  BY <1>12 DEF Cleanup, Goto, Release, NotLeases, Elsewhere, routeVars, history
<1>13. ASSUME NEW j \in Jobs, Finish(j) PROVE PrefixesOK'
  BY <1>13 DEF Finish, Written, Goto, Release, NotLeases, Elsewhere, bucketVars, routeVars, history
<1>14. ASSUME NEW j \in Jobs, Die(j) PROVE PrefixesOK'
  BY <1>14 DEF Die, Fault, Goto, objectVars, bucketVars, routeVars, history
<1>15. ASSUME NEW j \in Jobs, Deliver(j) PROVE PrefixesOK'
  BY <1>15 DEF Deliver, Goto, objectVars, bucketVars, routeVars, history
<1>16. ASSUME NEW j \in Jobs, Fence(j) PROVE PrefixesOK'
  BY <1>16 DEF Fence, Kept, Live, Draining, Goto, bucketVars, routeVars, history
<1>17. ASSUME NEW j \in Jobs, DeleteRow(j) PROVE PrefixesOK'
  BY <1>17 DEF DeleteRow, Consumer, Goto, NoRow, objectVars, bucketVars, history
<1>18. ASSUME NEW j \in Jobs, DeleteRoute(j) PROVE PrefixesOK'
  BY <1>18 DEF DeleteRoute, Consumer, Goto, objectVars, bucketVars, history
<1>19. ASSUME NEW j \in Jobs, ListPrefix(j) PROVE PrefixesOK'
  BY <1>19 DEF ListPrefix, Consumer, Goto, objectVars, bucketVars, routeVars, history
<1>20. ASSUME NEW j \in Jobs, DeleteBatch(j) PROVE PrefixesOK'
  BY <1>20 DEF DeleteBatch, Consumer, Goto, objectVars, routeVars, history
<1>21. ASSUME NEW j \in Jobs, ClearRows(j) PROVE PrefixesOK'
  BY <1>21 DEF ClearRows, Consumer, Goto, bucketVars, routeVars, history
<1>22. ASSUME NEW j \in Jobs, ClearKeys(j) PROVE PrefixesOK'
  BY <1>22 DEF ClearKeys, Consumer, Goto, bucketVars, routeVars, history
<1>23. ASSUME NEW j \in Jobs, RetryDeletion(j) PROVE PrefixesOK'
  BY <1>23 DEF RetryDeletion, Fault, Goto, objectVars, bucketVars, routeVars, history
<1>24. ASSUME NEW j \in Jobs, ChangeRow(j) PROVE PrefixesOK'
  BY <1>24 DEF ChangeRow, Goto, objectVars, bucketVars, history
<1>25. ASSUME NEW j \in Jobs, SyncRead(j) PROVE PrefixesOK'
  BY <1>25 DEF SyncRead, Goto, objectVars, bucketVars, routeVars, history
<1>26. ASSUME NEW j \in Jobs, SyncApply(j) PROVE PrefixesOK'
  BY <1>26 DEF SyncApply, Goto, objectVars, bucketVars, history
<1>27. ASSUME NEW j \in Jobs, SyncRetry(j) PROVE PrefixesOK'
  BY <1>27 DEF SyncRetry, Fault, Goto, objectVars, bucketVars, routeVars, history
<1>28. CASE AlarmFires
  BY <1>28 DEF AlarmFires, IdleTail, Fault, history, ExpiredReceive, Dropping, Clearing, Busy,
     Draining, Live, Held, jobVars,
     bucketVars, routeVars
<1>29. CASE AlarmClears
  BY <1>29 DEF AlarmClears, IdleTail, Fault, Dropping, Clearing, Busy, Draining, Live, Held,
     jobVars, bucketVars, routeVars
<1>30. CASE AlarmClearFails
  BY <1>30 DEF AlarmClearFails, Fault, Dropping, Clearing, Busy, Draining, Held, bucketVars,
     routeVars
<1>31. CASE PurgeList
  BY <1>31 DEF PurgeList, jobVars, bucketVars, routeVars, history
<1>32. CASE PurgeDelete
  BY <1>32 DEF PurgeDelete, jobVars, routeVars, history
<1>33. CASE Evict
  BY <1>33 DEF Evict, Fault, jobVars, bucketVars, routeVars, history
<1> QED BY <1>1, <1>2, <1>3, <1>4, <1>5, <1>6, <1>7, <1>8, <1>9, <1>10, <1>11, <1>12, <1>13, <1>14,
   <1>15, <1>16, <1>17, <1>18, <1>19, <1>20, <1>21, <1>22, <1>23, <1>24, <1>25, <1>26, <1>27,
   <1>28, <1>29, <1>30, <1>31, <1>32, <1>33 DEF Next, Worker, Deletion

\* What went away undrained stays of the writers it was of.
LEMMA LooseStep ==
  ASSUME TypeOK, Placed, PrefixesOK, LooseOK, Next
  PROVE  LooseOK'
<1> USE LifecycleAssumption DEF TypeOK, Placed, PrefixesOK, LooseOK, JobLoose, Renewed, JobPlaced,
   Touching, Past, Writers, Renewable
<1>1. ASSUME NEW j \in Jobs, BeginReceive(j) PROVE LooseOK'
  BY <1>1 DEF BeginReceive, Admit, Admitted, Dropping, Clearing, Busy, Draining, Live, Held,
     bucketVars, routeVars
<1>2. ASSUME NEW j \in Jobs, BeginCompaction(j) PROVE LooseOK'
  BY <1>2 DEF BeginCompaction, Admit, Admitted, Dropping, Clearing, Busy, Draining, Live, Held,
     bucketVars,
     routeVars
<1>3. ASSUME NEW j \in Jobs, BeginSnapshotMaterialization(j) PROVE LooseOK'
  BY <1>3 DEF BeginSnapshotMaterialization, Admit, Admitted, Draining, Held, bucketVars, routeVars
<1>4. ASSUME NEW j \in Jobs, BeginRepositoryMaintenance(j) PROVE LooseOK'
  BY <1>4 DEF BeginRepositoryMaintenance, Admit, Admitted, Draining, Held, bucketVars, routeVars
<1>5. ASSUME NEW j \in Jobs, BeginRepositoryRead(j) PROVE LooseOK'
  BY <1>5 DEF BeginRepositoryRead, Admit, Admitted, Live, Held, bucketVars, routeVars
<1>6. ASSUME NEW j \in Jobs, Renew(j) PROVE LooseOK'
  BY <1>6 DEF Renew, Renewed, Live, objectVars, bucketVars, routeVars, history
<1>7. ASSUME NEW j \in Jobs, Time(j) PROVE LooseOK'
  BY <1>7 DEF Time, GrowOld, Expire, Drain, Aging, objectVars, bucketVars, routeVars, history
<1>8. ASSUME NEW j \in Jobs, OpenCatalog(j) PROVE LooseOK'
  BY <1>8 DEF OpenCatalog, Goto, Release, NotLeases, Elsewhere, bucketVars, routeVars, history
<1>9. ASSUME NEW j \in Jobs, StartWrite(j) PROVE LooseOK'
  BY <1>9 DEF StartWrite, Live, Goto, Release, NotLeases, routeVars, history
<1>10. ASSUME NEW j \in Jobs, Land(j) PROVE LooseOK'
  BY <1>10 DEF Land, jobVars, objectVars, routeVars, history
<1>11. ASSUME NEW j \in Jobs, Commit(j) PROVE LooseOK'
  BY <1>11 DEF Commit, Written, Goto, Release, Elsewhere, bucketVars, routeVars, history
<1>12. ASSUME NEW j \in Jobs, Cleanup(j) PROVE LooseOK'
  BY <1>12 DEF Cleanup, Goto, Release, NotLeases, Elsewhere, routeVars, history
<1>13. ASSUME NEW j \in Jobs, Finish(j) PROVE LooseOK'
  BY <1>13 DEF Finish, Written, Goto, Release, NotLeases, Elsewhere, bucketVars, routeVars, history
<1>14. ASSUME NEW j \in Jobs, Die(j) PROVE LooseOK'
  BY <1>14 DEF Die, Fault, Goto, objectVars, bucketVars, routeVars, history
<1>15. ASSUME NEW j \in Jobs, Deliver(j) PROVE LooseOK'
  BY <1>15 DEF Deliver, Goto, objectVars, bucketVars, routeVars, history
<1>16. ASSUME NEW j \in Jobs, Fence(j) PROVE LooseOK'
  BY <1>16 DEF Fence, Kept, Live, Draining, Goto, bucketVars, routeVars, history
<1>17. ASSUME NEW j \in Jobs, DeleteRow(j) PROVE LooseOK'
  BY <1>17 DEF DeleteRow, Consumer, Goto, NoRow, objectVars, bucketVars, history
<1>18. ASSUME NEW j \in Jobs, DeleteRoute(j) PROVE LooseOK'
  BY <1>18 DEF DeleteRoute, Consumer, Goto, objectVars, bucketVars, history
<1>19. ASSUME NEW j \in Jobs, ListPrefix(j) PROVE LooseOK'
  BY <1>19 DEF ListPrefix, Consumer, Goto, objectVars, bucketVars, routeVars, history
<1>20. ASSUME NEW j \in Jobs, DeleteBatch(j) PROVE LooseOK'
  BY <1>20 DEF DeleteBatch, Consumer, Goto, objectVars, routeVars, history
<1>21. ASSUME NEW j \in Jobs, ClearRows(j) PROVE LooseOK'
  BY <1>21 DEF ClearRows, Consumer, Goto, bucketVars, routeVars, history
<1>22. ASSUME NEW j \in Jobs, ClearKeys(j) PROVE LooseOK'
  BY <1>22 DEF ClearKeys, Consumer, Goto, bucketVars, routeVars, history
<1>23. ASSUME NEW j \in Jobs, RetryDeletion(j) PROVE LooseOK'
  BY <1>23 DEF RetryDeletion, Fault, Goto, objectVars, bucketVars, routeVars, history
<1>24. ASSUME NEW j \in Jobs, ChangeRow(j) PROVE LooseOK'
  BY <1>24 DEF ChangeRow, Goto, objectVars, bucketVars, history
<1>25. ASSUME NEW j \in Jobs, SyncRead(j) PROVE LooseOK'
  BY <1>25 DEF SyncRead, Goto, objectVars, bucketVars, routeVars, history
<1>26. ASSUME NEW j \in Jobs, SyncApply(j) PROVE LooseOK'
  BY <1>26 DEF SyncApply, Goto, objectVars, bucketVars, history
<1>27. ASSUME NEW j \in Jobs, SyncRetry(j) PROVE LooseOK'
  BY <1>27 DEF SyncRetry, Fault, Goto, objectVars, bucketVars, routeVars, history
<1>28. CASE AlarmFires
  BY <1>28 DEF AlarmFires, IdleTail, Fault, history, ExpiredReceive, Dropping, Clearing, Busy,
     Draining, Live, Held, jobVars,
     bucketVars, routeVars
<1>29. CASE AlarmClears
  BY <1>29 DEF AlarmClears, IdleTail, Fault, Dropping, Clearing, Busy, Draining, Live, Held,
     jobVars, bucketVars, routeVars
<1>30. CASE AlarmClearFails
  BY <1>30 DEF AlarmClearFails, Fault, Dropping, Clearing, Busy, Draining, Held, bucketVars,
     routeVars
<1>31. CASE PurgeList
  BY <1>31 DEF PurgeList, jobVars, bucketVars, routeVars, history
<1>32. CASE PurgeDelete
  BY <1>32 DEF PurgeDelete, jobVars, routeVars, history
<1>33. CASE Evict
  BY <1>33 DEF Evict, Fault, jobVars, bucketVars, routeVars, history
<1> QED BY <1>1, <1>2, <1>3, <1>4, <1>5, <1>6, <1>7, <1>8, <1>9, <1>10, <1>11, <1>12, <1>13, <1>14,
   <1>15, <1>16, <1>17, <1>18, <1>19, <1>20, <1>21, <1>22, <1>23, <1>24, <1>25, <1>26, <1>27,
   <1>28, <1>29, <1>30, <1>31, <1>32, <1>33 DEF Next, Worker, Deletion

\* A deletion advances only over an emptied repository, and what it swept stays
\* away.
LEMMA DeletionStep ==
  ASSUME TypeOK, Placed, LeasedOK, PrefixesOK, DeletionOK, Next
  PROVE  DeletionOK'
<1> USE LifecycleAssumption DEF TypeOK, Placed, Loose, Closing, DeletionOK, DeletionAt, JobPlaced,
   Touching, Past,
   Writers, Renewable
<1>1. ASSUME NEW j \in Jobs, BeginReceive(j) PROVE DeletionOK'
  BY EmptiedStep, ClosingStep, <1>1 DEF BeginReceive, Admit, Admitted, Dropping, Clearing, Busy,
     Draining, Live,
     Held, bucketVars, routeVars
<1>2. ASSUME NEW j \in Jobs, BeginCompaction(j) PROVE DeletionOK'
  BY EmptiedStep, ClosingStep, <1>2 DEF BeginCompaction, Admit, Admitted, Dropping, Clearing, Busy,
     Draining, Live,
     Held, bucketVars, routeVars
<1>3. ASSUME NEW j \in Jobs, BeginSnapshotMaterialization(j) PROVE DeletionOK'
  BY EmptiedStep, ClosingStep, <1>3 DEF BeginSnapshotMaterialization, Admit, Admitted, Draining,
     Held, bucketVars, routeVars
<1>4. ASSUME NEW j \in Jobs, BeginRepositoryMaintenance(j) PROVE DeletionOK'
  BY EmptiedStep, ClosingStep, <1>4 DEF BeginRepositoryMaintenance, Admit, Admitted, Draining, Held,
     bucketVars, routeVars
<1>5. ASSUME NEW j \in Jobs, BeginRepositoryRead(j) PROVE DeletionOK'
  BY EmptiedStep, ClosingStep, <1>5 DEF BeginRepositoryRead, Admit, Admitted, Live, Held,
     bucketVars, routeVars
<1>6. ASSUME NEW j \in Jobs, Renew(j) PROVE DeletionOK'
  BY EmptiedStep, ClosingStep, <1>6 DEF Renew, Renewed, Live, objectVars, bucketVars, routeVars,
     history
<1>7. ASSUME NEW j \in Jobs, Time(j) PROVE DeletionOK'
  BY EmptiedStep, ClosingStep, <1>7 DEF Time, GrowOld, Expire, Drain, Aging, objectVars, bucketVars,
     routeVars, history
<1>8. ASSUME NEW j \in Jobs, OpenCatalog(j) PROVE DeletionOK'
  BY EmptiedStep, ClosingStep, <1>8 DEF OpenCatalog, Goto, Release, NotLeases, Elsewhere,
     bucketVars, routeVars, history
<1>9. ASSUME NEW j \in Jobs, StartWrite(j) PROVE DeletionOK'
  BY EmptiedStep, ClosingStep, <1>9 DEF StartWrite, Goto, Release, NotLeases, routeVars, history
<1>10. ASSUME NEW j \in Jobs, Land(j) PROVE DeletionOK'
  BY EmptiedStep, ClosingStep, <1>10 DEF Closing, Emptied, Land, jobVars, objectVars, routeVars,
     history, Active
<1>11. ASSUME NEW j \in Jobs, Commit(j) PROVE DeletionOK'
  BY EmptiedStep, ClosingStep, <1>11 DEF Closing, Emptied, Commit, Written, Goto, Release,
     Elsewhere,
     bucketVars, routeVars, history, CommitAllowed
<1>12. ASSUME NEW j \in Jobs, Cleanup(j) PROVE DeletionOK'
  BY EmptiedStep, ClosingStep, <1>12 DEF Cleanup, Goto, Release, NotLeases, Elsewhere, routeVars,
     history
<1>13. ASSUME NEW j \in Jobs, Finish(j) PROVE DeletionOK'
  BY EmptiedStep, ClosingStep, <1>13 DEF Finish, Written, Goto, Release, NotLeases, Elsewhere,
     bucketVars, routeVars, history
<1>14. ASSUME NEW j \in Jobs, Die(j) PROVE DeletionOK'
  BY EmptiedStep, ClosingStep, <1>14 DEF Die, Fault, Goto, objectVars, bucketVars, routeVars,
     history
<1>15. ASSUME NEW j \in Jobs, Deliver(j) PROVE DeletionOK'
  BY EmptiedStep, ClosingStep, <1>15 DEF Deliver, Goto, objectVars, bucketVars, routeVars, history
<1>16. ASSUME NEW j \in Jobs, Fence(j) PROVE DeletionOK'
  BY EmptiedStep, ClosingStep, <1>16 DEF Closing, Emptied, Fence, Kept, Live, Draining, Goto,
     bucketVars, routeVars, history, Active, LeasedOK, PrefixesOK
<1>17. ASSUME NEW j \in Jobs, DeleteRow(j) PROVE DeletionOK'
  BY EmptiedStep, ClosingStep, <1>17 DEF DeleteRow, Consumer, Goto, NoRow, objectVars, bucketVars,
     history
<1>18. ASSUME NEW j \in Jobs, DeleteRoute(j) PROVE DeletionOK'
  BY EmptiedStep, ClosingStep, <1>18 DEF DeleteRoute, Consumer, Goto, objectVars, bucketVars,
     history
<1>19. ASSUME NEW j \in Jobs, ListPrefix(j) PROVE DeletionOK'
  BY EmptiedStep, ClosingStep, <1>19 DEF ListPrefix, Consumer, Goto, objectVars, bucketVars,
     routeVars, history
<1>20. ASSUME NEW j \in Jobs, DeleteBatch(j) PROVE DeletionOK'
  BY EmptiedStep, ClosingStep, <1>20 DEF DeleteBatch, Consumer, Goto, objectVars, routeVars, history
<1>21. ASSUME NEW j \in Jobs, ClearRows(j) PROVE DeletionOK'
  BY EmptiedStep, ClosingStep, <1>21 DEF ClearRows, Consumer, Goto, bucketVars, routeVars, history
<1>22. ASSUME NEW j \in Jobs, ClearKeys(j) PROVE DeletionOK'
  BY EmptiedStep, ClosingStep, <1>22 DEF ClearKeys, Consumer, Goto, bucketVars, routeVars, history
<1>23. ASSUME NEW j \in Jobs, RetryDeletion(j) PROVE DeletionOK'
  BY EmptiedStep, ClosingStep, <1>23 DEF RetryDeletion, Fault, Goto, objectVars, bucketVars,
     routeVars, history
<1>24. ASSUME NEW j \in Jobs, ChangeRow(j) PROVE DeletionOK'
  BY EmptiedStep, ClosingStep, <1>24 DEF ChangeRow, Goto, objectVars, bucketVars, history
<1>25. ASSUME NEW j \in Jobs, SyncRead(j) PROVE DeletionOK'
  BY EmptiedStep, ClosingStep, <1>25 DEF SyncRead, Goto, objectVars, bucketVars, routeVars, history
<1>26. ASSUME NEW j \in Jobs, SyncApply(j) PROVE DeletionOK'
  BY EmptiedStep, ClosingStep, <1>26 DEF SyncApply, Goto, objectVars, bucketVars, history
<1>27. ASSUME NEW j \in Jobs, SyncRetry(j) PROVE DeletionOK'
  BY EmptiedStep, ClosingStep, <1>27 DEF SyncRetry, Fault, Goto, objectVars, bucketVars, routeVars,
     history
<1>28. CASE AlarmFires
  BY EmptiedStep, ClosingStep, <1>28 DEF AlarmFires, IdleTail, Fault, history, ExpiredReceive,
     Dropping, Clearing, Busy, Draining,
     Live, Held, jobVars, bucketVars, routeVars
<1>29. CASE AlarmClears
  BY EmptiedStep, ClosingStep, <1>29 DEF AlarmClears, IdleTail, Fault, Dropping, Clearing, Busy,
     Draining, Live, Held,
     jobVars, bucketVars, routeVars
<1>30. CASE AlarmClearFails
  BY EmptiedStep, ClosingStep, <1>30 DEF AlarmClearFails, Fault, Dropping, Clearing, Busy,
     Draining, Held,
     bucketVars, routeVars
<1>31. CASE PurgeList
  BY EmptiedStep, ClosingStep, <1>31 DEF PurgeList, jobVars, bucketVars, routeVars, history
<1>32. CASE PurgeDelete
  BY EmptiedStep, ClosingStep, <1>32 DEF PurgeDelete, jobVars, routeVars, history
<1>33. CASE Evict
  BY EmptiedStep, ClosingStep, <1>33 DEF Evict, Fault, jobVars, bucketVars, routeVars, history
<1> QED BY <1>1, <1>2, <1>3, <1>4, <1>5, <1>6, <1>7, <1>8, <1>9, <1>10, <1>11, <1>12, <1>13, <1>14,
   <1>15, <1>16, <1>17, <1>18, <1>19, <1>20, <1>21, <1>22, <1>23, <1>24, <1>25, <1>26, <1>27,
   <1>28, <1>29, <1>30, <1>31, <1>32, <1>33 DEF Next, Worker, Deletion

------------------------------------------------------------------------------
(* Readers, rows and purges *)

\* Until a deletion sweeps, what is served stays stored.
LEMMA ServedStep ==
  ASSUME TypeOK, Placed, LeasedOK, LooseOK, DeletionOK, PurgeOK, ServedOK, ~Emptied, Next
  PROVE  ServedOK'
<1> USE LifecycleAssumption DEF TypeOK, Placed, ServedOK, Reading, Staged, Written, JobPlaced,
   Touching, Past, Writers, Renewable, Active, Loose, LeasedOK, LooseOK, JobLoose, DeletionOK, DeletionAt, PurgeOK, Emptied,
   CommitAllowed, Live
<1>1. ASSUME NEW j \in Jobs, BeginReceive(j) PROVE ServedOK'
  BY <1>1 DEF BeginReceive, Admit, Admitted, Dropping, Clearing, Busy, Draining, Live, Held,
     bucketVars, routeVars
<1>2. ASSUME NEW j \in Jobs, BeginCompaction(j) PROVE ServedOK'
  BY <1>2 DEF BeginCompaction, Admit, Admitted, Dropping, Clearing, Busy, Draining, Live, Held,
     bucketVars,
     routeVars
<1>3. ASSUME NEW j \in Jobs, BeginSnapshotMaterialization(j) PROVE ServedOK'
  BY <1>3 DEF BeginSnapshotMaterialization, Admit, Admitted, Draining, Held, bucketVars, routeVars
<1>4. ASSUME NEW j \in Jobs, BeginRepositoryMaintenance(j) PROVE ServedOK'
  BY <1>4 DEF BeginRepositoryMaintenance, Admit, Admitted, Draining, Held, bucketVars, routeVars
<1>5. ASSUME NEW j \in Jobs, BeginRepositoryRead(j) PROVE ServedOK'
  BY <1>5 DEF BeginRepositoryRead, Admit, Admitted, Live, Held, bucketVars, routeVars
<1>6. ASSUME NEW j \in Jobs, Renew(j) PROVE ServedOK'
  BY <1>6 DEF Renew, Renewed, Live, objectVars, bucketVars, routeVars, history
<1>7. ASSUME NEW j \in Jobs, Time(j) PROVE ServedOK'
  BY <1>7 DEF Time, GrowOld, Expire, Drain, Aging, objectVars, bucketVars, routeVars, history
<1>8. ASSUME NEW j \in Jobs, OpenCatalog(j) PROVE ServedOK'
  BY <1>8 DEF OpenCatalog, Goto, Release, NotLeases, Elsewhere, bucketVars, routeVars, history
<1>9. ASSUME NEW j \in Jobs, StartWrite(j) PROVE ServedOK'
  BY <1>9 DEF StartWrite, Goto, Release, NotLeases, routeVars, history
<1>10. ASSUME NEW j \in Jobs, Land(j) PROVE ServedOK'
  BY <1>10 DEF Land, jobVars, objectVars, routeVars, history
<1>11. ASSUME NEW j \in Jobs, Commit(j) PROVE ServedOK'
  BY <1>11 DEF Commit, Written, Goto, Release, Elsewhere, bucketVars, routeVars, history
<1>12. ASSUME NEW j \in Jobs, Cleanup(j) PROVE ServedOK'
  BY <1>12 DEF Cleanup, Goto, Release, NotLeases, Elsewhere, routeVars, history
<1>13. ASSUME NEW j \in Jobs, Finish(j) PROVE ServedOK'
  BY <1>13 DEF Finish, Written, Goto, Release, NotLeases, Elsewhere, bucketVars, routeVars, history
<1>14. ASSUME NEW j \in Jobs, Die(j) PROVE ServedOK'
  BY <1>14 DEF Die, Fault, Goto, objectVars, bucketVars, routeVars, history
<1>15. ASSUME NEW j \in Jobs, Deliver(j) PROVE ServedOK'
  BY <1>15 DEF Deliver, Goto, objectVars, bucketVars, routeVars, history
<1>16. ASSUME NEW j \in Jobs, Fence(j) PROVE ServedOK'
  BY <1>16 DEF Fence, Kept, Live, Draining, Goto, bucketVars, routeVars, history
<1>17. ASSUME NEW j \in Jobs, DeleteRow(j) PROVE ServedOK'
  BY <1>17 DEF DeleteRow, Consumer, Goto, NoRow, objectVars, bucketVars, history
<1>18. ASSUME NEW j \in Jobs, DeleteRoute(j) PROVE ServedOK'
  BY <1>18 DEF DeleteRoute, Consumer, Goto, objectVars, bucketVars, history
<1>19. ASSUME NEW j \in Jobs, ListPrefix(j) PROVE ServedOK'
  BY <1>19 DEF ListPrefix, Consumer, Goto, objectVars, bucketVars, routeVars, history
<1>20. ASSUME NEW j \in Jobs, DeleteBatch(j) PROVE ServedOK'
  BY <1>20 DEF DeleteBatch, Consumer, Goto, objectVars, routeVars, history
<1>21. ASSUME NEW j \in Jobs, ClearRows(j) PROVE ServedOK'
  BY <1>21 DEF ClearRows, Consumer, Goto, bucketVars, routeVars, history
<1>22. ASSUME NEW j \in Jobs, ClearKeys(j) PROVE ServedOK'
  BY <1>22 DEF ClearKeys, Consumer, Goto, bucketVars, routeVars, history
<1>23. ASSUME NEW j \in Jobs, RetryDeletion(j) PROVE ServedOK'
  BY <1>23 DEF RetryDeletion, Fault, Goto, objectVars, bucketVars, routeVars, history
<1>24. ASSUME NEW j \in Jobs, ChangeRow(j) PROVE ServedOK'
  BY <1>24 DEF ChangeRow, Goto, objectVars, bucketVars, history
<1>25. ASSUME NEW j \in Jobs, SyncRead(j) PROVE ServedOK'
  BY <1>25 DEF SyncRead, Goto, objectVars, bucketVars, routeVars, history
<1>26. ASSUME NEW j \in Jobs, SyncApply(j) PROVE ServedOK'
  BY <1>26 DEF SyncApply, Goto, objectVars, bucketVars, history
<1>27. ASSUME NEW j \in Jobs, SyncRetry(j) PROVE ServedOK'
  BY <1>27 DEF SyncRetry, Fault, Goto, objectVars, bucketVars, routeVars, history
<1>28. CASE AlarmFires
  BY <1>28 DEF AlarmFires, IdleTail, Fault, history, ExpiredReceive, Dropping, Clearing, Busy,
     Draining, Live, Held, jobVars,
     bucketVars, routeVars
<1>29. CASE AlarmClears
  BY <1>29 DEF AlarmClears, IdleTail, Fault, Dropping, Clearing, Busy, Draining, Live, Held,
     jobVars, bucketVars, routeVars
<1>30. CASE AlarmClearFails
  BY <1>30 DEF AlarmClearFails, Fault, Dropping, Clearing, Busy, Draining, Held, bucketVars,
     routeVars
<1>31. CASE PurgeList
  BY <1>31 DEF PurgeList, jobVars, bucketVars, routeVars, history
<1>32. CASE PurgeDelete
  BY <1>32 DEF PurgeDelete, jobVars, routeVars, history
<1>33. CASE Evict
  BY <1>33 DEF Evict, Fault, jobVars, bucketVars, routeVars, history
<1> QED BY <1>1, <1>2, <1>3, <1>4, <1>5, <1>6, <1>7, <1>8, <1>9, <1>10, <1>11, <1>12, <1>13, <1>14,
   <1>15, <1>16, <1>17, <1>18, <1>19, <1>20, <1>21, <1>22, <1>23, <1>24, <1>25, <1>26, <1>27,
   <1>28, <1>29, <1>30, <1>31, <1>32, <1>33 DEF Next, Worker, Deletion

\* What a purge finds beside it was admitted during the purge.
LEMMA PurgeStep ==
  ASSUME TypeOK, Placed, LeasedOK, LooseOK, PurgeOK, Next
  PROVE  PurgeOK'
<1> USE LifecycleAssumption DEF TypeOK, Placed, PurgeOK, Reading, Active, Loose, LeasedOK, LooseOK,
   JobLoose, CommitAllowed,
   Live, JobPlaced, Touching, Past, Writers, Renewable
<1>1. ASSUME NEW j \in Jobs, BeginReceive(j) PROVE PurgeOK'
  BY <1>1 DEF BeginReceive, Admit, Admitted, Dropping, Clearing, Busy, Draining, Live, Held,
     bucketVars, routeVars
<1>2. ASSUME NEW j \in Jobs, BeginCompaction(j) PROVE PurgeOK'
  BY <1>2 DEF BeginCompaction, Admit, Admitted, Dropping, Clearing, Busy, Draining, Live, Held,
     bucketVars,
     routeVars
<1>3. ASSUME NEW j \in Jobs, BeginSnapshotMaterialization(j) PROVE PurgeOK'
  BY <1>3 DEF BeginSnapshotMaterialization, Admit, Admitted, Draining, Held, bucketVars, routeVars
<1>4. ASSUME NEW j \in Jobs, BeginRepositoryMaintenance(j) PROVE PurgeOK'
  BY <1>4 DEF BeginRepositoryMaintenance, Admit, Admitted, Draining, Held, bucketVars, routeVars
<1>5. ASSUME NEW j \in Jobs, BeginRepositoryRead(j) PROVE PurgeOK'
  BY <1>5 DEF BeginRepositoryRead, Admit, Admitted, Live, Held, bucketVars, routeVars
<1>6. ASSUME NEW j \in Jobs, Renew(j) PROVE PurgeOK'
  BY <1>6 DEF Renew, Renewed, Live, objectVars, bucketVars, routeVars, history
<1>7. ASSUME NEW j \in Jobs, Time(j) PROVE PurgeOK'
  BY <1>7 DEF Time, GrowOld, Expire, Drain, Aging, objectVars, bucketVars, routeVars, history
<1>8. ASSUME NEW j \in Jobs, OpenCatalog(j) PROVE PurgeOK'
  BY <1>8 DEF OpenCatalog, Goto, Release, NotLeases, Elsewhere, bucketVars, routeVars, history
<1>9. ASSUME NEW j \in Jobs, StartWrite(j) PROVE PurgeOK'
  BY <1>9 DEF StartWrite, Goto, Release, NotLeases, routeVars, history
<1>10. ASSUME NEW j \in Jobs, Land(j) PROVE PurgeOK'
  BY <1>10 DEF Land, jobVars, objectVars, routeVars, history
<1>11. ASSUME NEW j \in Jobs, Commit(j) PROVE PurgeOK'
  BY <1>11 DEF Commit, Written, Goto, Release, Elsewhere, bucketVars, routeVars, history
<1>12. ASSUME NEW j \in Jobs, Cleanup(j) PROVE PurgeOK'
  BY <1>12 DEF Cleanup, Goto, Release, NotLeases, Elsewhere, routeVars, history
<1>13. ASSUME NEW j \in Jobs, Finish(j) PROVE PurgeOK'
  BY <1>13 DEF Finish, Written, Goto, Release, NotLeases, Elsewhere, bucketVars, routeVars, history
<1>14. ASSUME NEW j \in Jobs, Die(j) PROVE PurgeOK'
  BY <1>14 DEF Die, Fault, Goto, objectVars, bucketVars, routeVars, history
<1>15. ASSUME NEW j \in Jobs, Deliver(j) PROVE PurgeOK'
  BY <1>15 DEF Deliver, Goto, objectVars, bucketVars, routeVars, history
<1>16. ASSUME NEW j \in Jobs, Fence(j) PROVE PurgeOK'
  BY <1>16 DEF Fence, Kept, Live, Draining, Goto, bucketVars, routeVars, history
<1>17. ASSUME NEW j \in Jobs, DeleteRow(j) PROVE PurgeOK'
  BY <1>17 DEF DeleteRow, Consumer, Goto, NoRow, objectVars, bucketVars, history
<1>18. ASSUME NEW j \in Jobs, DeleteRoute(j) PROVE PurgeOK'
  BY <1>18 DEF DeleteRoute, Consumer, Goto, objectVars, bucketVars, history
<1>19. ASSUME NEW j \in Jobs, ListPrefix(j) PROVE PurgeOK'
  BY <1>19 DEF ListPrefix, Consumer, Goto, objectVars, bucketVars, routeVars, history
<1>20. ASSUME NEW j \in Jobs, DeleteBatch(j) PROVE PurgeOK'
  BY <1>20 DEF DeleteBatch, Consumer, Goto, objectVars, routeVars, history
<1>21. ASSUME NEW j \in Jobs, ClearRows(j) PROVE PurgeOK'
  BY <1>21 DEF ClearRows, Consumer, Goto, bucketVars, routeVars, history
<1>22. ASSUME NEW j \in Jobs, ClearKeys(j) PROVE PurgeOK'
  BY <1>22 DEF ClearKeys, Consumer, Goto, bucketVars, routeVars, history
<1>23. ASSUME NEW j \in Jobs, RetryDeletion(j) PROVE PurgeOK'
  BY <1>23 DEF RetryDeletion, Fault, Goto, objectVars, bucketVars, routeVars, history
<1>24. ASSUME NEW j \in Jobs, ChangeRow(j) PROVE PurgeOK'
  BY <1>24 DEF ChangeRow, Goto, objectVars, bucketVars, history
<1>25. ASSUME NEW j \in Jobs, SyncRead(j) PROVE PurgeOK'
  BY <1>25 DEF SyncRead, Goto, objectVars, bucketVars, routeVars, history
<1>26. ASSUME NEW j \in Jobs, SyncApply(j) PROVE PurgeOK'
  BY <1>26 DEF SyncApply, Goto, objectVars, bucketVars, history
<1>27. ASSUME NEW j \in Jobs, SyncRetry(j) PROVE PurgeOK'
  BY <1>27 DEF SyncRetry, Fault, Goto, objectVars, bucketVars, routeVars, history
<1>28. CASE AlarmFires
  BY <1>28 DEF AlarmFires, IdleTail, Fault, history, ExpiredReceive, Dropping, Clearing, Busy,
     Draining, Live, Held, jobVars,
     bucketVars, routeVars
<1>29. CASE AlarmClears
  BY <1>29 DEF AlarmClears, IdleTail, Fault, Dropping, Clearing, Busy, Draining, Live, Held,
     jobVars, bucketVars, routeVars
<1>30. CASE AlarmClearFails
  BY <1>30 DEF AlarmClearFails, Fault, Dropping, Clearing, Busy, Draining, Held, bucketVars,
     routeVars
<1>31. CASE PurgeList
  BY <1>31 DEF PurgeList, jobVars, bucketVars, routeVars, history
<1>32. CASE PurgeDelete
  BY <1>32 DEF PurgeDelete, jobVars, routeVars, history
<1>33. CASE Evict
  BY <1>33 DEF Evict, Fault, jobVars, bucketVars, routeVars, history
<1> QED BY <1>1, <1>2, <1>3, <1>4, <1>5, <1>6, <1>7, <1>8, <1>9, <1>10, <1>11, <1>12, <1>13, <1>14,
   <1>15, <1>16, <1>17, <1>18, <1>19, <1>20, <1>21, <1>22, <1>23, <1>24, <1>25, <1>26, <1>27,
   <1>28, <1>29, <1>30, <1>31, <1>32, <1>33 DEF Next, Worker, Deletion

------------------------------------------------------------------------------
(* Routes *)

\* The route record agrees with the row once its messages are handled.
LEMMA RoutesStep ==
  ASSUME TypeOK, Placed, RoutesOK, Next
  PROVE  RoutesOK'
<1> USE LifecycleAssumption DEF TypeOK, Placed, JobPlaced, Past, RoutesOK, Agreed, Pending, NoRow
<1>1. ASSUME NEW j \in Jobs, BeginReceive(j) PROVE RoutesOK'
  BY <1>1 DEF BeginReceive, Admit, Admitted, routeVars
<1>2. ASSUME NEW j \in Jobs, BeginCompaction(j) PROVE RoutesOK'
  BY <1>2 DEF BeginCompaction, Admit, Admitted, routeVars
<1>3. ASSUME NEW j \in Jobs, BeginSnapshotMaterialization(j) PROVE RoutesOK'
  BY <1>3 DEF BeginSnapshotMaterialization, Admit, Admitted, Draining, Held, bucketVars, routeVars
<1>4. ASSUME NEW j \in Jobs, BeginRepositoryMaintenance(j) PROVE RoutesOK'
  BY <1>4 DEF BeginRepositoryMaintenance, Admit, Admitted, routeVars
<1>5. ASSUME NEW j \in Jobs, BeginRepositoryRead(j) PROVE RoutesOK'
  BY <1>5 DEF BeginRepositoryRead, Admit, Admitted, Live, Held, bucketVars, routeVars
<1>6. ASSUME NEW j \in Jobs, Renew(j) PROVE RoutesOK'
  BY <1>6 DEF Renew, Renewed, Live, objectVars, bucketVars, routeVars, history
<1>7. ASSUME NEW j \in Jobs, Time(j) PROVE RoutesOK'
  <2>1. \A k \in Jobs : pc'[k] = pc[k] \/ (pc[k] \notin Pending /\ pc'[k] \in {"done", "gone"})
    BY <1>7 DEF Time, GrowOld, Expire, Drain, Aging, Writers
  <2>2. UNCHANGED <<kind, view, found, d1, kv, crossed>>
    BY <1>7 DEF Time, routeVars
  <2> QED BY <2>1, <2>2
<1>8. ASSUME NEW j \in Jobs, OpenCatalog(j) PROVE RoutesOK'
  BY <1>8 DEF OpenCatalog, Goto, Elsewhere, routeVars
<1>9. ASSUME NEW j \in Jobs, StartWrite(j) PROVE RoutesOK'
  BY <1>9 DEF StartWrite, Goto, Release, NotLeases, routeVars, history
<1>10. ASSUME NEW j \in Jobs, Land(j) PROVE RoutesOK'
  BY <1>10 DEF Land, jobVars, objectVars, routeVars, history
<1>11. ASSUME NEW j \in Jobs, Commit(j) PROVE RoutesOK'
  BY <1>11 DEF Commit, Written, Goto, Release, Elsewhere, bucketVars, routeVars, history
<1>12. ASSUME NEW j \in Jobs, Cleanup(j) PROVE RoutesOK'
  BY <1>12 DEF Cleanup, Goto, Release, NotLeases, Elsewhere, routeVars, history
<1>13. ASSUME NEW j \in Jobs, Finish(j) PROVE RoutesOK'
  BY <1>13 DEF Finish, Written, Goto, JobPlaced, Elsewhere, routeVars
<1>14. ASSUME NEW j \in Jobs, Die(j) PROVE RoutesOK'
  BY <1>14 DEF Die, Goto, Writers, routeVars
<1>15. ASSUME NEW j \in Jobs, Deliver(j) PROVE RoutesOK'
  BY <1>15 DEF Deliver, Goto, objectVars, bucketVars, routeVars, history
<1>16. ASSUME NEW j \in Jobs, Fence(j) PROVE RoutesOK'
  BY <1>16 DEF Fence, Kept, Live, Draining, Goto, bucketVars, routeVars, history
<1>17. ASSUME NEW j \in Jobs, DeleteRow(j) PROVE RoutesOK'
  BY <1>17 DEF DeleteRow, Consumer, Goto, NoRow, objectVars, bucketVars, history
<1>18. ASSUME NEW j \in Jobs, DeleteRoute(j) PROVE RoutesOK'
  BY <1>18 DEF DeleteRoute, Consumer, Goto, objectVars, bucketVars, history
<1>19. ASSUME NEW j \in Jobs, ListPrefix(j) PROVE RoutesOK'
  BY <1>19 DEF ListPrefix, Consumer, Goto, objectVars, bucketVars, routeVars, history
<1>20. ASSUME NEW j \in Jobs, DeleteBatch(j) PROVE RoutesOK'
  BY <1>20 DEF DeleteBatch, Consumer, Goto, objectVars, routeVars, history
<1>21. ASSUME NEW j \in Jobs, ClearRows(j) PROVE RoutesOK'
  BY <1>21 DEF ClearRows, Consumer, Goto, bucketVars, routeVars, history
<1>22. ASSUME NEW j \in Jobs, ClearKeys(j) PROVE RoutesOK'
  BY <1>22 DEF ClearKeys, Consumer, Goto, bucketVars, routeVars, history
<1>23. ASSUME NEW j \in Jobs, RetryDeletion(j) PROVE RoutesOK'
  BY <1>23 DEF RetryDeletion, Fault, Goto, objectVars, bucketVars, routeVars, history
<1>24. ASSUME NEW j \in Jobs, ChangeRow(j) PROVE RoutesOK'
  <2>1. d1'.id \in {1, 2} /\ d1'.id = IF d1.id = 0 THEN 2 ELSE d1.id
    <3>1. CASE d1.id = 0
      BY <1>24, <3>1 DEF ChangeRow
    <3>2. CASE d1.id # 0
      BY <1>24, <3>2 DEF ChangeRow
    <3> QED BY <3>1, <3>2
  <2>2. /\ pc' = [pc EXCEPT ![j] = "sync"] /\ view' = [view EXCEPT ![j] = {d1'.id}]
        /\ kind' = kind /\ found' = found /\ crossed' = crossed /\ kind[j] = "sync" /\ pc[j] = "idle"
    BY <1>24 DEF ChangeRow, Goto
  <2>3. PICK i \in {1, 2} : i = d1'.id
    BY <2>1
  <2>4. pc'[j] = "sync" /\ view'[j] = {i}
        /\ \A k \in Jobs \ {j} : pc'[k] = pc[k] /\ view'[k] = view[k]
    BY <2>2, <2>3
  <2>5. \A k \in Jobs : pc'[k] = "route" => d1'.id # 1
    BY <2>1, <2>4
  <2>6. ASSUME NEW k \in Jobs, pc'[k] \in {"sync", "apply"}
        PROVE  /\ kind'[k] = "sync" /\ \E n \in {1, 2} : view'[k] = {n}
               /\ pc'[k] = "apply" => found'[k] \subseteq [id : view'[k], public : BOOLEAN]
    <3>1. CASE k = j
      BY <2>2, <2>4, <3>1
    <3>2. CASE k # j
      BY <2>2, <2>4, <2>6, <3>2
    <3> QED BY <3>1, <3>2
  <2> QED BY <2>1, <2>2, <2>4, <2>5, <2>6
<1>25. ASSUME NEW j \in Jobs, SyncRead(j) PROVE RoutesOK'
  BY <1>25 DEF SyncRead, Goto, objectVars, bucketVars, routeVars, history
<1>26. ASSUME NEW j \in Jobs, SyncApply(j) PROVE RoutesOK'
  BY <1>26 DEF SyncApply, SyncedRecord, Goto, objectVars, bucketVars, history
<1>27. ASSUME NEW j \in Jobs, SyncRetry(j) PROVE RoutesOK'
  BY <1>27 DEF SyncRetry, Fault, Goto, objectVars, bucketVars, routeVars, history
<1>28. CASE AlarmFires
  BY <1>28 DEF AlarmFires, IdleTail, Fault, history, ExpiredReceive, Dropping, Clearing, Busy,
     Draining, Live, Held, jobVars,
     bucketVars, routeVars
<1>29. CASE AlarmClears
  BY <1>29 DEF AlarmClears, IdleTail, Fault, Dropping, Clearing, Busy, Draining, Live, Held,
     jobVars, bucketVars, routeVars
<1>30. CASE AlarmClearFails
  BY <1>30 DEF AlarmClearFails, Fault, Dropping, Clearing, Busy, Draining, Held, bucketVars,
     routeVars
<1>31. CASE PurgeList
  BY <1>31 DEF PurgeList, jobVars, bucketVars, routeVars, history
<1>32. CASE PurgeDelete
  BY <1>32 DEF PurgeDelete, jobVars, routeVars, history
<1>33. CASE Evict
  BY <1>33 DEF Evict, Fault, jobVars, bucketVars, routeVars, history
<1> QED BY <1>1, <1>2, <1>3, <1>4, <1>5, <1>6, <1>7, <1>8, <1>9, <1>10, <1>11, <1>12, <1>13, <1>14,
   <1>15, <1>16, <1>17, <1>18, <1>19, <1>20, <1>21, <1>22, <1>23, <1>24, <1>25, <1>26, <1>27,
   <1>28, <1>29, <1>30, <1>31, <1>32, <1>33 DEF Next, Worker, Deletion

------------------------------------------------------------------------------
(* The number of readers *)

Readers == Live(Held("read"))

\* Only a reader that is admitted adds to the live ones.
LEMMA ReadersShrink ==
  ASSUME TypeOK, Placed, Next, \A j \in Jobs : ~BeginRepositoryRead(j)
  PROVE  Readers' \subseteq Readers
<1> USE LifecycleAssumption DEF TypeOK, Placed, Readers, Live, Held, JobPlaced, Touching, Past,
   Writers, Renewable
<1>1. ASSUME NEW j \in Jobs, BeginReceive(j) PROVE Readers' \subseteq Readers
  BY <1>1 DEF BeginReceive, Admit, Admitted, Dropping, Clearing, Busy, Draining, Live, Held,
     bucketVars, routeVars
<1>2. ASSUME NEW j \in Jobs, BeginCompaction(j) PROVE Readers' \subseteq Readers
  BY <1>2 DEF BeginCompaction, Admit, Admitted, Dropping, Clearing, Busy, Draining, Live, Held,
     bucketVars,
     routeVars
<1>3. ASSUME NEW j \in Jobs, BeginSnapshotMaterialization(j) PROVE Readers' \subseteq Readers
  BY <1>3 DEF BeginSnapshotMaterialization, Admit, Admitted, Draining, Held, bucketVars, routeVars
<1>4. ASSUME NEW j \in Jobs, BeginRepositoryMaintenance(j) PROVE Readers' \subseteq Readers
  BY <1>4 DEF BeginRepositoryMaintenance, Admit, Admitted, Draining, Held, bucketVars, routeVars
<1>5. ASSUME NEW j \in Jobs, Renew(j) PROVE Readers' \subseteq Readers
  BY <1>5 DEF Renew, Renewed, Live, objectVars, bucketVars, routeVars, history
<1>6. ASSUME NEW j \in Jobs, Time(j) PROVE Readers' \subseteq Readers
  BY <1>6 DEF Time, GrowOld, Expire, Drain, Aging, objectVars, bucketVars, routeVars, history
<1>7. ASSUME NEW j \in Jobs, OpenCatalog(j) PROVE Readers' \subseteq Readers
  BY <1>7 DEF OpenCatalog, Goto, Release, NotLeases, Elsewhere, bucketVars, routeVars, history
<1>8. ASSUME NEW j \in Jobs, StartWrite(j) PROVE Readers' \subseteq Readers
  BY <1>8 DEF StartWrite, Goto, Release, NotLeases, routeVars, history
<1>9. ASSUME NEW j \in Jobs, Land(j) PROVE Readers' \subseteq Readers
  BY <1>9 DEF Land, jobVars, objectVars, routeVars, history
<1>10. ASSUME NEW j \in Jobs, Commit(j) PROVE Readers' \subseteq Readers
  BY <1>10 DEF Commit, Written, Goto, Release, Elsewhere, bucketVars, routeVars, history
<1>11. ASSUME NEW j \in Jobs, Cleanup(j) PROVE Readers' \subseteq Readers
  BY <1>11 DEF Cleanup, Goto, Release, NotLeases, Elsewhere, routeVars, history
<1>12. ASSUME NEW j \in Jobs, Finish(j) PROVE Readers' \subseteq Readers
  BY <1>12 DEF Finish, Written, Goto, Release, NotLeases, Elsewhere, bucketVars, routeVars, history
<1>13. ASSUME NEW j \in Jobs, Die(j) PROVE Readers' \subseteq Readers
  BY <1>13 DEF Die, Fault, Goto, objectVars, bucketVars, routeVars, history
<1>14. ASSUME NEW j \in Jobs, Deliver(j) PROVE Readers' \subseteq Readers
  BY <1>14 DEF Deliver, Goto, objectVars, bucketVars, routeVars, history
<1>15. ASSUME NEW j \in Jobs, Fence(j) PROVE Readers' \subseteq Readers
  BY <1>15 DEF Fence, Kept, Live, Draining, Goto, bucketVars, routeVars, history
<1>16. ASSUME NEW j \in Jobs, DeleteRow(j) PROVE Readers' \subseteq Readers
  BY <1>16 DEF DeleteRow, Consumer, Goto, NoRow, objectVars, bucketVars, history
<1>17. ASSUME NEW j \in Jobs, DeleteRoute(j) PROVE Readers' \subseteq Readers
  BY <1>17 DEF DeleteRoute, Consumer, Goto, objectVars, bucketVars, history
<1>18. ASSUME NEW j \in Jobs, ListPrefix(j) PROVE Readers' \subseteq Readers
  BY <1>18 DEF ListPrefix, Consumer, Goto, objectVars, bucketVars, routeVars, history
<1>19. ASSUME NEW j \in Jobs, DeleteBatch(j) PROVE Readers' \subseteq Readers
  BY <1>19 DEF DeleteBatch, Consumer, Goto, objectVars, routeVars, history
<1>20. ASSUME NEW j \in Jobs, ClearRows(j) PROVE Readers' \subseteq Readers
  BY <1>20 DEF ClearRows, Consumer, Goto, bucketVars, routeVars, history
<1>21. ASSUME NEW j \in Jobs, ClearKeys(j) PROVE Readers' \subseteq Readers
  BY <1>21 DEF ClearKeys, Consumer, Goto, bucketVars, routeVars, history
<1>22. ASSUME NEW j \in Jobs, RetryDeletion(j) PROVE Readers' \subseteq Readers
  BY <1>22 DEF RetryDeletion, Fault, Goto, objectVars, bucketVars, routeVars, history
<1>23. ASSUME NEW j \in Jobs, ChangeRow(j) PROVE Readers' \subseteq Readers
  BY <1>23 DEF ChangeRow, Goto, objectVars, bucketVars, history
<1>24. ASSUME NEW j \in Jobs, SyncRead(j) PROVE Readers' \subseteq Readers
  BY <1>24 DEF SyncRead, Goto, objectVars, bucketVars, routeVars, history
<1>25. ASSUME NEW j \in Jobs, SyncApply(j) PROVE Readers' \subseteq Readers
  BY <1>25 DEF SyncApply, Goto, objectVars, bucketVars, history
<1>26. ASSUME NEW j \in Jobs, SyncRetry(j) PROVE Readers' \subseteq Readers
  BY <1>26 DEF SyncRetry, Fault, Goto, objectVars, bucketVars, routeVars, history
<1>27. CASE AlarmFires
  BY <1>27 DEF AlarmFires, IdleTail, Fault, history, ExpiredReceive, Dropping, Clearing, Busy,
     Draining, Live, Held, jobVars,
     bucketVars, routeVars
<1>28. CASE AlarmClears
  BY <1>28 DEF AlarmClears, IdleTail, Fault, Dropping, Clearing, Busy, Draining, Live, Held,
     jobVars, bucketVars, routeVars
<1>29. CASE AlarmClearFails
  BY <1>29 DEF AlarmClearFails, Fault, Dropping, Clearing, Busy, Draining, Held, bucketVars,
     routeVars
<1>30. CASE PurgeList
  BY <1>30 DEF PurgeList, jobVars, bucketVars, routeVars, history
<1>31. CASE PurgeDelete
  BY <1>31 DEF PurgeDelete, jobVars, routeVars, history
<1>32. CASE Evict
  BY <1>32 DEF Evict, Fault, jobVars, bucketVars, routeVars, history
<1> QED BY <1>1, <1>2, <1>3, <1>4, <1>5, <1>6, <1>7, <1>8, <1>9, <1>10, <1>11, <1>12, <1>13, <1>14,
   <1>15, <1>16, <1>17, <1>18, <1>19, <1>20, <1>21, <1>22, <1>23, <1>24, <1>25, <1>26, <1>27,
   <1>28, <1>29, <1>30, <1>31, <1>32 DEF Next, Worker, Deletion

\* The number of live readers stays within the capacity.
LEMMA ReadersStep ==
  ASSUME TypeOK, Placed, ReadersOK, Next
  PROVE  ReadersOK'
<1>1. CASE \A j \in Jobs : ~BeginRepositoryRead(j)
  <2>1. Readers' \subseteq Readers
    BY <1>1, ReadersShrink
  <2>2. IsFiniteSet(Readers') /\ Cardinality(Readers') <= Cardinality(Readers)
    BY <2>1, FS_Subset DEF ReadersOK, Readers
  <2>3. Cardinality(Readers) \in Nat /\ Cardinality(Readers') \in Nat
    BY <2>2, FS_CardinalityType DEF ReadersOK, Readers
  <2> QED BY <2>2, <2>3, LifecycleAssumption DEF ReadersOK, Readers
<1>2. ASSUME NEW j \in Jobs, BeginRepositoryRead(j) PROVE ReadersOK'
  <2>1. Readers' = Readers \cup {j} /\ j \notin Readers
    BY <1>2 DEF TypeOK, Placed, JobPlaced, Readers, Live, Held, BeginRepositoryRead, Admit, Admitted
  <2>2. IsFiniteSet(Readers') /\ Cardinality(Readers') = Cardinality(Readers) + 1
    BY <2>1, FS_AddElement DEF ReadersOK, Readers
  <2>3. Cardinality(Readers) \in Nat /\ Cardinality(Readers) < MaxReaders
    BY <1>2, FS_CardinalityType DEF ReadersOK, Readers, BeginRepositoryRead, ReadCapacity
  <2> QED BY <2>2, <2>3, LifecycleAssumption DEF ReadersOK, Readers
<1> QED BY <1>1, <1>2

------------------------------------------------------------------------------
(* The theorems *)

\* The invariant holds of a repository without jobs.
LEMMA LifecycleInit == Init => LifecycleInv
<1> SUFFICES ASSUME Init PROVE LifecycleInv
  OBVIOUS
<1> USE LifecycleAssumption DEF Init
<1>0. d1.id = 1 /\ d1.public /\ d1 \in [id : 0 .. 2, public : BOOLEAN] /\ kv = 1
  OBVIOUS
<1>1. TypeOK
  <2>1. kind \in Mixes /\ pc \in [Jobs -> Steps] /\ faults \in 0 .. MaxFaults
    BY DEF Steps
  <2>2. deleting \in BOOLEAN
    OBVIOUS
  <2> QED BY <1>0, <2>1, <2>2 DEF TypeOK
<1>2. Placed
  BY DEF Placed, JobPlaced, Past
<1>3. LeasedOK /\ DeletionOK /\ PrefixesOK
  BY DEF LeasedOK, Active, DeletionOK, DeletionAt, Past, PrefixesOK
<1>4. ServedOK /\ PurgeOK /\ LooseOK
  BY DEF LooseOK, JobLoose, ServedOK, Staged, Written, Reading, PurgeOK
<1>5. RoutesOK
  <2>1. crossed \in BOOLEAN /\ \A j \in Jobs : pc[j] = "idle"
    OBVIOUS
  <2>2. Agreed /\ d1.id # 0
    BY <1>0 DEF Agreed
  <2> QED BY <2>1, <2>2 DEF RoutesOK
<1>6. ReadersOK
  <2>1. Readers = {}
    BY DEF Readers, Live, Held
  <2>2. IsFiniteSet({}) /\ Cardinality({}) = 0 /\ 0 <= MaxReaders
    BY FS_EmptySet
  <2> QED BY <2>1, <2>2, Zenon DEF ReadersOK, Readers
<1> QED BY <1>1, <1>2, <1>3, <1>4, <1>5, <1>6 DEF LifecycleInv

\* Every step preserves the invariant.
LEMMA LifecycleStep == LifecycleInv /\ [Next]_vars => LifecycleInv'
<1> SUFFICES ASSUME LifecycleInv, [Next]_vars PROVE LifecycleInv'
  OBVIOUS
<1>1. CASE Next
  <2>1. TypeOK' /\ Placed' /\ LeasedOK' /\ PrefixesOK' /\ LooseOK'
    BY <1>1, TypesStep, PlacedStep, LeasedStep, PrefixesStep, LooseStep DEF LifecycleInv
  <2>2. DeletionOK' /\ PurgeOK' /\ RoutesOK' /\ ReadersOK'
    BY <1>1, DeletionStep, PurgeStep, RoutesStep, ReadersStep DEF LifecycleInv
  <2>3. ServedOK'
    <3>1. CASE Emptied
      BY <1>1, <3>1, EmptiedStep DEF LifecycleInv, ServedOK
    <3>2. CASE ~Emptied
      BY <1>1, <3>2, ServedStep DEF LifecycleInv
    <3> QED BY <3>1, <3>2
  <2> QED BY <2>1, <2>2, <2>3 DEF LifecycleInv
<1>2. CASE UNCHANGED vars
  <2> USE <1>2 DEF LifecycleInv, vars, jobVars, objectVars, bucketVars, routeVars, history
  <2>1. TypeOK' /\ Placed'
    BY DEF TypeOK, Placed, JobPlaced
  <2>2. LeasedOK' /\ DeletionOK' /\ PrefixesOK'
    BY DEF LeasedOK, Active, DeletionOK, DeletionAt, Emptied, PrefixesOK, Loose
  <2>3. ServedOK' /\ PurgeOK' /\ LooseOK'
    BY DEF ServedOK, Emptied, Active, Loose, LooseOK, JobLoose, Staged, Written, Reading, PurgeOK
  <2>4. RoutesOK' /\ ReadersOK'
    BY DEF RoutesOK, Agreed, ReadersOK, Live, Held
  <2> QED BY <2>1, <2>2, <2>3, <2>4
<1> QED BY <1>1, <1>2

\* The invariant holds in every behaviour, for any mixture of jobs.
THEOREM LifecycleInvariant == Spec => []LifecycleInv
BY LifecycleInit, LifecycleStep, PTL DEF Spec

\* Whatever deletions and idle cleanups run beside them, active rows have their
\* packs, readers within their lease find what they opened, and there are never
\* more live readers than the capacity.
THEOREM RepositoryIsServed == Spec => []RepositoryServed
<1>1. LifecycleInv => RepositoryServed
  <2> SUFFICES ASSUME LifecycleInv PROVE RepositoryServed
    OBVIOUS
  <2>1. ActiveStored
    BY DEF LifecycleInv, ServedOK, Emptied, ActiveStored
  <2>2. ReadersUndisturbed
    BY DEF LifecycleInv, Placed, JobPlaced, Loose, LooseOK, JobLoose, ServedOK, Emptied, Active,
       Reading,
       ReadersUndisturbed, Live
  <2>3. ReadersBounded
    BY DEF LifecycleInv, ReadersOK, ReadersBounded
  <2> QED BY <2>1, <2>2, <2>3 DEF LifecycleInv, RepositoryServed
<1> QED BY <1>1, LifecycleInvariant, PTL

\* Once a deletion is acknowledged nothing of the repository is left, whatever
\* was in flight when it began: no row, no recorded prefix, no snapshot, no
\* sidecar.  Only the pack of a push or compaction whose lease record went away
\* while it was uploading may be.
THEOREM DeletionIsComplete == Spec => []NothingLeftBehind
<1>1. LifecycleInv => NothingLeftBehind
  BY DEF LifecycleInv, TypeOK, Placed, JobPlaced, LooseOK, JobLoose, Loose, DeletionOK, Emptied,
     NothingLeftBehind
<1> QED BY <1>1, LifecycleInvariant, PTL

\* When the messages about a slug have been handled, deletions included, and the
\* last write of the record was not about a row that had changed meanwhile, the
\* record is that of the public repository at the slug, or there is none.
THEOREM RoutesDoConverge == Spec => []RoutesConverge
<1>1. LifecycleInv => RoutesConverge
  BY DEF LifecycleInv, TypeOK, RoutesOK, Agreed, Pending, RoutesConverge, Resolve, NoRow
<1> QED BY <1>1, LifecycleInvariant, PTL

\* No handler clears the tombstone.
THEOREM TombstoneIsFinal == Spec => TombstoneStays
<1>1. LifecycleInv /\ [Next]_vars => [deleting => deleting']_vars
  BY ClosingStep DEF LifecycleInv, Closing
<1> QED BY <1>1, LifecycleInvariant, PTL DEF Spec, TombstoneStays

=============================================================================
