--------------------------- MODULE RepoLifecycle ---------------------------
(***************************************************************************)
(* The life of one repository: the leases under which Workers touch its    *)
(* storage, the deletion fence and the queue consumer behind it, the idle  *)
(* cleanup of the alarm, and the route record that makes it reachable.     *)
(*                                                                         *)
(* Sources: do/repo/repositoryLifecycle.ts, do/repo/maintenance.ts,        *)
(* do/repo/packOperations.ts, the alarm of do/repo/repoDO.ts,              *)
(* clearExpiredLeases of do/repo/catalog/leases.ts,                        *)
(* tasks/repositoryDelete.ts, tasks/refBackfill.ts,                        *)
(* tasks/routeCacheSync.ts, repositories/route.ts and routeCache.ts.       *)
(*                                                                         *)
(* A job is one request or one delivery of a queue message.  Every job     *)
(* that stores something stores one object, named after the job: a push    *)
(* its pack, a compaction its result, a backfill its sidecar, all under    *)
(* the Git prefix, a snapshot its files under the prefix it recorded.      *)
(* What a push or a compaction does inside its lease is RepoReceive and    *)
(* PackCompaction; here a commit is one step.                              *)
(***************************************************************************)
EXTENDS Naturals, FiniteSets

CONSTANTS
    Jobs,        \* requests and deliveries, each used once
    Mixes,       \* which jobs meet: a set of functions from Jobs to Kinds
    Faulty,      \* the mixes in which steps fail
    None,        \* no lease
    MaxReaders,  \* MAX_REPOSITORY_READ_LEASES
    MaxFaults    \* bound: Workers that vanish, steps that fail

Kinds == {"push", "compact", "snapshot", "backfill", "read", "delete", "sync"}
Writers == {"push", "compact", "snapshot", "backfill"}
Renewable == {"snapshot", "backfill", "read"}

ASSUME LifecycleAssumption ==
    /\ Mixes \subseteq [Jobs -> Kinds] /\ Faulty \subseteq Mixes
    /\ None \notin Jobs
    /\ MaxReaders \in Nat \ {0}
    /\ MaxFaults \in Nat

VARIABLES
    kind, pc,    \* what each job is, and where it stands
    age,         \* of its lease: "live", "old" (renewable), "expired",
                 \* "drained" (its Worker and its last write are over)
    view,        \* what it read first: catalog rows, prefixes, row identity
    found,       \* what it listed or looked up after that
    leases,      \* jobs with a lease record in the object's storage
    prefixes,    \* snapshotPrefixes: snapshot jobs whose prefix is recorded
    rows,        \* active catalog rows (the refs name their packs)
    deleting,    \* the tombstone
    alarmPc,     \* the running alarm handler: "off", "clearing", "list", "purge"
    victim,      \* the receive lease the handler found expired
    listed,      \* the objects its purge has listed and not yet deleted
    git, snaps,  \* objects in the bucket, under the two prefixes
    inflight,    \* writes accepted by R2 that have not finished
    request,     \* the deletion message: "none", "sent", "acked"
    d1, kv,      \* the registry row [id, public] and the route record
    faults,      \* steps that failed so far
    unfenced,    \* history: jobs whose lease an idle cleanup dropped under them
    lapsed,      \* history: writers whose lease the alarm cleared, or a later
                 \* writer replaced, while they still wrote
    during,      \* history: jobs with a lease while a purge was running
    crossed      \* history: the last write of the route record was about a row
                 \* that had changed by then

objectVars == <<leases, prefixes, rows, deleting, alarmPc, victim, listed>>
bucketVars == <<git, snaps, inflight>>
routeVars == <<d1, kv, crossed>>
jobVars == <<kind, pc, age, view, found>>
history == <<unfenced, lapsed, during>>
vars == <<jobVars, objectVars, bucketVars, request, routeVars, faults, history>>

Steps == {"idle", "leased", "opened", "writing", "cleanup", "reading",
          "fence", "registry", "route", "listGit", "sweepGit", "listSnap",
          "sweepSnap", "rows", "keys",
          "sync", "apply", "done", "gone"}
NoRow == [id |-> 0, public |-> FALSE]

TypeOK ==
    /\ kind \in Mixes
    /\ pc \in [Jobs -> Steps]
    /\ age \in [Jobs -> {"live", "old", "expired", "drained"}]
    /\ leases \subseteq Jobs /\ prefixes \subseteq Jobs /\ rows \subseteq Jobs
    /\ deleting \in BOOLEAN
    /\ alarmPc \in {"off", "clearing", "list", "purge"} /\ victim \in Jobs \cup {None}
    /\ listed \subseteq Jobs
    /\ git \subseteq Jobs /\ snaps \subseteq Jobs /\ inflight \subseteq Jobs
    /\ request \in {"none", "sent", "acked"}
    /\ d1 \in [id : 0 .. 2, public : BOOLEAN] /\ kv \in 0 .. 2
    /\ faults \in 0 .. MaxFaults

Init ==
    /\ kind \in Mixes /\ pc = [j \in Jobs |-> "idle"]
    /\ age = [j \in Jobs |-> "live"] /\ view = [j \in Jobs |-> {}]
    /\ found = [j \in Jobs |-> {}] /\ listed = {}
    /\ leases = {} /\ prefixes = {} /\ rows = {} /\ deleting = FALSE
    /\ alarmPc = "off" /\ victim = None
    /\ git = {} /\ snaps = {} /\ inflight = {} /\ request = "none"
    /\ d1 = [id |-> 1, public |-> TRUE] /\ kv = 1 /\ faults = 0
    /\ unfenced = {} /\ lapsed = {} /\ during = {} /\ crossed = FALSE

-----------------------------------------------------------------------------
(* Leases.                                                                 *)

Held(k) == {j \in leases : kind[j] = k}

\* expiresAt > now
Live(S) == {j \in S : age[j] \in {"live", "old"}}

\* writerMayStillBeDraining: expiresAt + EXPIRED_WRITER_DRAIN_MS > now
Draining(S) == {j \in S : age[j] # "drained"}

\* Jobs that still use the bucket.
Busy(S) == {j \in S : pc[j] \in {"leased", "opened", "writing", "reading"} \/ j \in inflight}

\* A lease record that goes away under a busy job: with all storage, or alone.
Dropping(S) == unfenced' = unfenced \cup Busy(S)
Clearing(S) == lapsed' = lapsed \cup Busy(S)

\* A lease is named by its token, a random UUID: which of the waiting jobs of a
\* kind comes first makes no difference.
First(k) == CHOOSE j \in Jobs : pc[j] = "idle" /\ kind[j] = k

Admit(j, k, remaining) ==
    /\ pc[j] = "idle" /\ ~deleting
    /\ kind[j] = k /\ j = First(k) /\ pc' = [pc EXCEPT ![j] = "leased"]
    /\ leases' = remaining \cup {j}
    /\ during' = IF alarmPc \in {"list", "purge"} THEN during \cup {j} ELSE during

Admitted == <<kind, age, view, found, rows, deleting, alarmPc, victim,
              listed, bucketVars, request, routeVars, faults>>

\* beginReceiveLease: an expired lease is replaced, whatever it still writes.
BeginReceive(j) ==
    /\ Live(Held("push")) = {}
    /\ Admit(j, "push", leases \ Held("push"))
    /\ Clearing(Held("push"))
    /\ UNCHANGED <<prefixes, unfenced, Admitted>>

\* beginCompactionLease.
BeginCompaction(j) ==
    /\ rows # {} /\ Live(Held("push") \cup Held("compact")) = {}
    /\ Admit(j, "compact", leases \ Held("compact"))
    /\ Clearing(Held("compact"))
    /\ UNCHANGED <<prefixes, unfenced, Admitted>>

BeginSnapshotMaterialization(j) ==
    /\ rows # {} /\ Draining(Held("compact")) = {}
    /\ Admit(j, "snapshot", leases \ (Held("snapshot") \ Draining(leases)))
    /\ prefixes' = prefixes \cup {j}
    /\ UNCHANGED <<unfenced, lapsed, Admitted>>

BeginRepositoryMaintenance(j) ==
    /\ Admit(j, "backfill", leases \ (Held("backfill") \ Draining(leases)))
    /\ UNCHANGED <<prefixes, unfenced, lapsed, Admitted>>

\* Expired readers are pruned before the capacity is counted.
ReadCapacity == Cardinality(Live(Held("read"))) < MaxReaders

BeginRepositoryRead(j) ==
    /\ ReadCapacity
    /\ Admit(j, "read", leases \ (Held("read") \ Live(leases)))
    /\ UNCHANGED <<prefixes, unfenced, lapsed, Admitted>>

\* Mutant of Renewed: the tombstone does not refuse renewals.
RenewedUnfenced(j) == j \in Live(leases)

Renewed(j) == ~deleting /\ j \in Live(leases)

Renew(j) ==
    /\ kind[j] \in Renewable /\ age[j] = "old" /\ pc[j] \notin {"idle", "done", "gone"}
    /\ Renewed(j)
    /\ age' = [age EXCEPT ![j] = "live"]
    /\ UNCHANGED <<kind, pc, view, found, objectVars, bucketVars, request,
                   routeVars, faults, history>>

\* Time.  A write that R2 accepted is over before the drain is.
Aging(j) == kind[j] \in Writers \cup {"read"} /\ pc[j] # "idle"
            /\ (j \in leases \/ pc[j] \notin {"done", "gone"})

GrowOld(j) ==
    /\ Aging(j) /\ kind[j] \in Renewable /\ age[j] = "live"
    /\ age' = [age EXCEPT ![j] = "old"] /\ UNCHANGED pc

Expire(j) ==
    /\ Aging(j) /\ age[j] = IF kind[j] \in Renewable THEN "old" ELSE "live"
    /\ age' = [age EXCEPT ![j] = "expired"] /\ UNCHANGED pc

Drain(j) ==
    /\ Aging(j) /\ kind[j] # "read" /\ age[j] = "expired" /\ j \notin inflight
    /\ age' = [age EXCEPT ![j] = "drained"]
    /\ pc' = [pc EXCEPT ![j] = IF @ = "done" THEN "done" ELSE "gone"]

Time(j) ==
    /\ GrowOld(j) \/ Expire(j) \/ Drain(j)
    /\ UNCHANGED <<kind, view, found, objectVars, bucketVars, request,
                   routeVars, faults, history>>

-----------------------------------------------------------------------------
(* The Workers behind the leases.                                          *)

Goto(j, s) == pc' = [pc EXCEPT ![j] = s]
Release(j) == leases' = leases \ {j} /\ age' = [age EXCEPT ![j] = "live"]
NotLeases == <<prefixes, rows, deleting, alarmPc, victim, listed>>
Elsewhere == <<kind, request, routeVars, faults, history>>

\* getActivePackCatalog under a lease.  A backfill whose pack is not active
\* ends; a reader keeps what it opened.
OpenCatalog(j) ==
    /\ pc[j] = "leased" /\ kind[j] \in Renewable
    /\ view' = [view EXCEPT ![j] = IF kind[j] = "read" THEN rows ELSE {}]
    /\ IF kind[j] = "backfill" /\ rows = {}
          THEN Goto(j, "done") /\ Release(j)
          ELSE /\ Goto(j, IF kind[j] = "read" THEN "reading" ELSE "opened")
               /\ UNCHANGED <<leases, age>>
    /\ UNCHANGED <<found, NotLeases, bucketVars, Elsewhere>>

\* Derived artifacts are written only after a renewal; without it the task ends.
StartWrite(j) ==
    /\ pc[j] = IF kind[j] \in Renewable THEN "opened" ELSE "leased"
    /\ kind[j] \in Writers
    /\ IF kind[j] \in Renewable /\ ~Renewed(j)
          THEN Goto(j, "done") /\ Release(j) /\ UNCHANGED inflight
          ELSE /\ Goto(j, "writing") /\ inflight' = inflight \cup {j}
               /\ age' = IF kind[j] \in Renewable
                            THEN [age EXCEPT ![j] = "live"] ELSE age
               /\ UNCHANGED leases
    /\ UNCHANGED <<kind, view, found, NotLeases, git, snaps, request, routeVars,
                   faults, history>>

Land(j) ==
    /\ j \in inflight /\ inflight' = inflight \ {j}
    /\ IF kind[j] = "snapshot"
          THEN snaps' = snaps \cup {j} /\ UNCHANGED git
          ELSE git' = git \cup {j} /\ UNCHANGED snaps
    /\ UNCHANGED <<jobVars, objectVars, request, routeVars, faults, history>>

Written(j) == pc[j] = "writing" /\ j \notin inflight

\* Mutant of CommitAllowed: the lease is not looked up at the commit.
CommitAllowedUnleased(j) == ~deleting

\* finalizeReceive and commitCompaction, as one step.
CommitAllowed(j) == j \in Live(leases) /\ ~deleting

Commit(j) ==
    /\ Written(j) /\ kind[j] \in {"push", "compact"}
    /\ IF CommitAllowed(j)
          THEN /\ rows' = IF kind[j] = "push" THEN rows \cup {j} ELSE {j}
               /\ Release(j) /\ Goto(j, "done")
          ELSE Goto(j, "cleanup") /\ UNCHANGED <<rows, leases, age>>
    /\ UNCHANGED <<view, found, prefixes, deleting, alarmPc, victim,
                   listed, bucketVars, Elsewhere>>

\* A refused writer removes what it staged and gives its lease up.
Cleanup(j) ==
    /\ pc[j] = "cleanup" /\ git' = git \ {j}
    /\ Release(j) /\ Goto(j, "done")
    /\ UNCHANGED <<view, found, NotLeases, snaps, inflight, Elsewhere>>

Finish(j) ==
    /\ \/ pc[j] = "reading"
       \/ Written(j) /\ kind[j] \in {"snapshot", "backfill"}
    /\ Release(j) /\ Goto(j, "done") /\ view' = [view EXCEPT ![j] = {}]
    /\ UNCHANGED <<found, NotLeases, bucketVars, Elsewhere>>

Fault == kind \in Faulty /\ faults < MaxFaults /\ faults' = faults + 1

\* A Worker vanishes; a write that R2 accepted still finishes.
Die(j) ==
    /\ kind[j] \in Writers \cup {"read"} /\ pc[j] \notin {"idle", "done", "gone"}
    /\ Fault /\ Goto(j, "gone") /\ view' = [view EXCEPT ![j] = {}]
    /\ UNCHANGED <<kind, age, found, objectVars, bucketVars, request,
                   routeVars, history>>

-----------------------------------------------------------------------------
(* Deletion.                                                               *)

\* The request put a message into the queue some time before its delivery.
Deliver(j) ==
    /\ kind[j] = "delete" /\ pc[j] = "idle" /\ j = First("delete")
    /\ Goto(j, "fence") /\ request' = IF request = "none" THEN "sent" ELSE request
    /\ UNCHANGED <<kind, age, view, found, objectVars, bucketVars, routeVars,
                   faults, history>>

\* Mutant of Kept: expired writers are not waited for.
KeptLive == Live(leases)

\* pruneRepositoryActivityLeases
Kept == {j \in leases : IF kind[j] = "read" THEN j \in Live(leases)
                                            ELSE j \in Draining(leases)}

\* beginRepositoryDeletion: prune, set the tombstone, answer whether every
\* lease has drained.  The consumer asks again after a delay.
Fence(j) ==
    /\ pc[j] = "fence"
    /\ leases' = Kept /\ deleting' = TRUE
    /\ view' = [view EXCEPT ![j] = prefixes]
    /\ Goto(j, IF Kept = {} THEN "registry" ELSE "fence")
    /\ UNCHANGED <<kind, age, found, prefixes, rows, alarmPc, victim,
                   listed, bucketVars, request, routeVars, faults, history>>

Consumer(j, at, next) ==
    /\ kind[j] = "delete" /\ pc[j] = at /\ Goto(j, next)
    /\ UNCHANGED <<kind, age, view, faults, history>>

\* deleteRepositoryById: nothing on replay.
DeleteRow(j) ==
    /\ Consumer(j, "registry", "route")
    /\ d1' = IF d1.id = 1 THEN NoRow ELSE d1
    /\ UNCHANGED <<found, objectVars, bucketVars, request, kv, crossed>>

\* The record at the captured slugs, whoever put it there.
DeleteRoute(j) ==
    /\ Consumer(j, "route", "listGit")
    /\ kv' = 0 /\ crossed' = (d1 # NoRow)
    /\ UNCHANGED <<found, objectVars, bucketVars, request, d1>>

\* One listed page per prefix, deleted as a batch: first the Git objects,
\* then the files under every prefix the fence returned.
ListPrefix(j) ==
    /\ \/ Consumer(j, "listGit", "sweepGit") /\ found' = [found EXCEPT ![j] = git]
       \/ /\ Consumer(j, "listSnap", "sweepSnap")
          /\ found' = [found EXCEPT ![j] = snaps \cap view[j]]
    /\ UNCHANGED <<objectVars, bucketVars, request, routeVars>>

DeleteBatch(j) ==
    /\ \/ Consumer(j, "sweepGit", "listSnap") \/ Consumer(j, "sweepSnap", "rows")
    /\ git' = git \ found[j] /\ snaps' = snaps \ found[j]
    /\ found' = [found EXCEPT ![j] = {}]
    /\ UNCHANGED <<inflight, objectVars, request, routeVars>>

\* clearRepositoryStorage: the SQL rows, then in one transaction every key but
\* the tombstone.  The message is acknowledged after that.
ClearRows(j) ==
    /\ Consumer(j, "rows", "keys") /\ deleting /\ rows' = {}
    /\ UNCHANGED <<found, leases, prefixes, deleting, alarmPc, victim,
                   listed, bucketVars, request, routeVars>>

ClearKeys(j) ==
    /\ Consumer(j, "keys", "done")
    /\ leases' = {} /\ prefixes' = {}
    /\ request' = "acked"
    /\ UNCHANGED <<found, rows, deleting, alarmPc, victim, listed, bucketVars,
                   routeVars>>

\* A step fails, the budget runs out or the consumer dies: the message is
\* delivered again and starts over.
RetryDeletion(j) ==
    /\ kind[j] = "delete"
    /\ pc[j] \in {"registry", "route", "listGit", "sweepGit", "listSnap",
                  "sweepSnap", "rows", "keys"}
    /\ Fault /\ Goto(j, "fence") /\ found' = [found EXCEPT ![j] = {}]
    /\ UNCHANGED <<kind, age, view, objectVars, bucketVars, request,
                   routeVars, history>>

-----------------------------------------------------------------------------
(* The alarm: expired leases, then idle cleanup.                           *)

\* handleIdleAndMaintenance over the leases that clearExpiredLeases left.  Only
\* an idle and empty repository loses its storage, leases included; when the
\* last access was is left open, and so is when an alarm is due.  A deleteAll
\* that throws is logged, and the bucket is purged nevertheless.
IdleTail(left) ==
    LET kept == left \ (Held("compact") \ Live(leases)) IN
    /\ Clearing(leases \ kept)
    /\ \/ /\ alarmPc' = "off" /\ leases' = kept
          /\ UNCHANGED <<prefixes, deleting, unfenced, during, faults>>
       \/ /\ ~deleting /\ rows = {}                 \* storage.deleteAll()
          /\ alarmPc' = "list" /\ leases' = {} /\ deleting' = FALSE
          /\ Dropping(kept) /\ prefixes' = {}
          /\ UNCHANGED <<during, faults>>
       \/ /\ ~deleting /\ rows = {} /\ Fault        \* ... fails
          /\ alarmPc' = "list" /\ leases' = kept
          /\ during' = during \cup kept
          /\ UNCHANGED <<prefixes, deleting, unfenced>>

ExpiredReceive == Held("push") \ Live(leases)

AlarmFires ==
    /\ ~deleting /\ alarmPc = "off"
    /\ \/ /\ ExpiredReceive # {}
          /\ alarmPc' = "clearing" /\ victim' \in ExpiredReceive
          /\ UNCHANGED <<leases, prefixes, deleting, faults, history>>
       \/ ExpiredReceive = {} /\ IdleTail(leases) /\ UNCHANGED victim
    /\ UNCHANGED <<jobVars, rows, listed, bucketVars, request, routeVars>>

\* While the inputs of the expired lease are deleted from R2 other calls run;
\* the receiveLease key is then deleted whatever it holds by now, or put back
\* with a new deadline when the deletion failed.
AlarmClears ==
    /\ alarmPc = "clearing" /\ IdleTail(leases \ Held("push"))
    /\ victim' = None
    /\ UNCHANGED <<jobVars, rows, listed, bucketVars, request, routeVars>>

AlarmClearFails ==
    /\ alarmPc = "clearing" /\ Fault
    /\ leases' = (leases \ Held("push")) \cup {victim}
    /\ age' = [age EXCEPT ![victim] = "live"]
    /\ Clearing(Held("push") \ {victim})
    /\ alarmPc' = "off" /\ victim' = None
    /\ UNCHANGED <<kind, pc, view, found, prefixes, rows, deleting, listed,
                   bucketVars, request, routeVars, unfenced, during>>

\* purgeR2Mirror: list, then delete one by one.
PurgeList ==
    /\ alarmPc = "list" /\ alarmPc' = "purge" /\ listed' = git
    /\ UNCHANGED <<jobVars, leases, prefixes, rows, deleting, victim,
                   bucketVars, request, routeVars, faults, history>>

PurgeDelete ==
    /\ alarmPc = "purge"
    /\ \/ \E o \in listed : listed' = listed \ {o} /\ git' = git \ {o}
                             /\ UNCHANGED alarmPc
       \/ listed = {} /\ alarmPc' = "off" /\ UNCHANGED <<listed, git>>
    /\ UNCHANGED <<jobVars, leases, prefixes, rows, deleting, victim,
                   snaps, inflight, request, routeVars, faults, history>>

\* The object is evicted: the handler is gone, the alarm it ran for is retried.
Evict ==
    /\ alarmPc # "off" /\ Fault
    /\ alarmPc' = "off" /\ victim' = None /\ listed' = {}
    /\ UNCHANGED <<jobVars, leases, prefixes, rows, deleting,
                   bucketVars, request, routeVars, history>>

-----------------------------------------------------------------------------
(* The route record.                                                       *)

\* A repository is created at the free slug, or changes its visibility; both
\* send a route-cache-sync message for the row.
ChangeRow(j) ==
    /\ kind[j] = "sync" /\ pc[j] = "idle" /\ Goto(j, "sync")
    /\ d1' \in IF d1.id = 0 THEN {[id |-> 2, public |-> b] : b \in BOOLEAN}
                             ELSE {[d1 EXCEPT !.public = ~@]}
    /\ view' = [view EXCEPT ![j] = {d1'.id}]
    /\ UNCHANGED <<kind, age, found, objectVars, bucketVars, request, kv, crossed,
                   faults, history>>

SyncRead(j) ==
    /\ pc[j] = "sync" /\ Goto(j, "apply")
    /\ found' = [found EXCEPT ![j] = {d1} \cap [id : view[j], public : BOOLEAN]]
    /\ UNCHANGED <<kind, age, view, objectVars, bucketVars, request, routeVars,
                   faults, history>>

\* Mutant of SyncedRecord: the record of a private repository is put as well.
SyncedRecordAny(j) == IF found[j] # {} THEN CHOOSE i \in view[j] : TRUE ELSE 0

\* Missing or private: the key is deleted; public: the record is put.
SyncedRecord(j) == IF \E r \in found[j] : r.public THEN CHOOSE i \in view[j] : TRUE ELSE 0

SyncApply(j) ==
    /\ pc[j] = "apply" /\ Goto(j, "done")
    /\ kv' = SyncedRecord(j) /\ found' = [found EXCEPT ![j] = {}]
    /\ crossed' = (found[j] # {d1} \ {NoRow})
    /\ UNCHANGED <<kind, age, view, objectVars, bucketVars, request, d1, faults,
                   history>>

SyncRetry(j) ==
    /\ pc[j] = "apply" /\ Fault /\ Goto(j, "sync")
    /\ UNCHANGED <<kind, age, view, found, objectVars, bucketVars, request,
                   routeVars, history>>

\* resolveRepositoryRoute: the record is a hint that D1 must confirm.
Resolve(mode) ==
    IF kv # 0 /\ kv = d1.id THEN d1
    ELSE IF mode = "route-cache-only" THEN NoRow ELSE d1

-----------------------------------------------------------------------------
Deletion(j) ==
    \/ Fence(j) \/ DeleteRow(j) \/ DeleteRoute(j) \/ ListPrefix(j)
    \/ DeleteBatch(j) \/ ClearRows(j) \/ ClearKeys(j)

Worker(j) ==
    \/ OpenCatalog(j) \/ StartWrite(j) \/ Commit(j) \/ Cleanup(j) \/ Finish(j)
    \/ Renew(j) \/ Die(j)

Next ==
    \/ \E j \in Jobs :
         \/ BeginReceive(j) \/ BeginCompaction(j) \/ BeginRepositoryRead(j)
         \/ BeginSnapshotMaterialization(j) \/ BeginRepositoryMaintenance(j)
         \/ Worker(j) \/ Land(j) \/ Time(j)
         \/ Deliver(j) \/ Deletion(j) \/ RetryDeletion(j)
         \/ ChangeRow(j) \/ SyncRead(j) \/ SyncApply(j) \/ SyncRetry(j)
    \/ AlarmFires \/ AlarmClears \/ AlarmClearFails
    \/ PurgeList \/ PurgeDelete \/ Evict

\* A consumer that was started goes on, leases run out, writes end.
Fairness ==
    \A j \in Jobs : WF_vars(Deletion(j) \/ Land(j) \/ Time(j))

Spec == Init /\ [][Next]_vars /\ Fairness

-----------------------------------------------------------------------------
(* Properties.                                                             *)

\* Once a deletion is acknowledged, and from then on, nothing of the repository
\* is left: no row or recorded prefix, no object in the bucket, whatever was in
\* flight when it began; the tombstone stays.  What may be left is the pack of a
\* push or compaction that was still uploading when its lease record went away:
\* with an idle cleanup, or expired, inside its drain window.  A snapshot or a
\* sidecar is never left.
NothingLeftBehind ==
    request = "acked" =>
        /\ deleting /\ rows = {} /\ prefixes = {} /\ snaps = {}
        /\ git \subseteq {j \in unfenced \cup lapsed : kind[j] \in {"push", "compact"}}

\* Outside deletion an active row names a stored pack: a push that was admitted
\* before an idle cleanup cannot commit after it.  Exceptions: pushes admitted
\* while the cleanup is still purging the bucket, and pushes whose lease was
\* left to them by a deleteAll that failed before the purge.
ActiveStored == ~deleting => rows \subseteq git \cup during

\* A reader within the time of its lease finds the packs it opened, although a
\* deletion or an idle cleanup has begun; an idle cleanup that drops the lease
\* itself is the exception.
ReadersUndisturbed ==
    \A j \in Live(Jobs) \ unfenced :
        pc[j] = "reading" => view[j] \subseteq git \cup during

\* Never more live readers than the capacity, however leases expire, are
\* renewed and are pruned.
ReadersBounded == Cardinality(Live(Held("read"))) <= MaxReaders

\* No handler clears the tombstone: neither an alarm that was already running
\* nor the clearing of storage reopens a deleted repository to writers.
TombstoneStays == [][deleting => deleting']_vars

\* When every message about the slug has been handled, the route record is the
\* one of the public repository that has the slug, and an anonymous reader
\* resolves the slug to it; the record of a repository that became private or
\* was deleted is gone.  Exception: the last write of the record was made by a
\* consumer that had been overtaken, its row having changed since it was read,
\* or its captured slug having passed to another repository.
RoutesConverge ==
    /\ \A j \in Jobs : pc[j] \notin {"sync", "apply", "fence", "registry", "route"}
    /\ ~crossed
    => /\ kv = IF d1.public THEN d1.id ELSE 0
       /\ Resolve("route-cache-only") = IF d1.public THEN d1 ELSE NoRow

\* A deletion that a consumer has taken up is completed, although writers and
\* readers held leases, Workers vanished and steps failed.
DeletionCompletes ==
    (\E j \in Jobs : kind[j] = "delete" /\ pc[j] # "idle") ~> (request = "acked")

\* Whatever deletion and idle cleanup do beside them: rows have their packs,
\* and at most MaxReaders readers find theirs.
RepositoryServed ==
  /\ TypeOK
  /\ ActiveStored
  /\ ReadersUndisturbed
  /\ ReadersBounded

\* A deletion gets to its end and is not undone.
DeletionFinal ==
  /\ TombstoneStays
  /\ DeletionCompletes
=============================================================================
