# TLA+ models of git-on-cloudflare

git-on-cloudflare serves Git repositories from Cloudflare Workers. A repository
is one Durable Object (refs, leases, the pack catalog in SQLite) plus immutable
packs, sidecars and generation manifests in R2. Pushes and fetches are handled by
Workers; compaction, garbage collection, index backfill, snapshots, route caching
and deletion by queue consumers; a Container runs stock Git for native and stock
receives. None of these actors shares memory, any of them may vanish, every call
between them may be lost or arrive late, and the Durable Object may be evicted
between two of its own writes. The models are about what survives that.

Sources are given relative to `src/worker/` unless they begin with `docs/`,
`test/` or `container/`.

## Inventory

| Component | State it keeps | Operations | Interacts with |
|---|---|---|---|
| Request parsing and upload (`git/receive/pktSectionStream.ts`, `r2Upload.ts`, `pipeline.ts`, `streamReceivePack.ts`) | the staged object, a multipart upload | cut the command section, refuse early, stage in one PUT, in parts, as a stock request, or durably | receive lease, indexer, finalize |
| Receive (`do/repo/catalog/receive.ts`, `leases.ts`, `git/receive/pipeline.ts`) | `receiveLease`, `receiveFinalizeIntent:<token>`, outcome index, `refs`, `head`, `refsVersion`, `packsetVersion`, `nextPackSeq`, `pack_catalog` | begin, abort, finalize, reconcile, alarm resume, clear expired leases | Worker to object by RPC; packs in R2; alarm; compaction request |
| Refs and HEAD (`do/repo/refs.ts`) | `refs`, `head`, `refsVersion` | setRefs, setHead, resolveHead | fenced by the receive lease or its intent |
| Compaction (`do/repo/catalog/compaction/*`, `tasks/compaction.ts`) | `compactLease`, `compactionWantedAt`, rows, staged packs | request, clear, begin, commit, abort, sweep, delayed delete | queue, generations, read leases |
| Generations (`do/repo/catalog/generation.ts`, `git/generation/publish.ts`) | `generationPublicationPending`; manifests and index in R2 | ensure, publish (put-if-absent, then index CAS), complete | compaction, GC, deletion of superseded packs |
| Reads (`do/repo/repositoryLifecycle.ts`, `git/object-store/catalog.ts`) | `repositoryReadLeases`, a catalog snapshot per request | begin, renew, finish | deletion fence, fetch |
| Reachability GC (`do/repo/catalog/gc*.ts`, `reachabilityGc.ts`, `git/maintenance/*`) | the GC operation (queued, rewrite, index, publish, reclaim, complete; or discard, blocked), claims, coordination | claim, checkpoint, prepare, commit, reclaim | receives protect objects; publication marker; snapshot pins |
| Lifecycle (`do/repo/repositoryLifecycle.ts`, `tasks/repositoryDelete.ts`, `do/repo/maintenance.ts`, `repoDO.ts`) | activity leases, `repositoryDeleting` tombstone, alarm | begin deletion, drain, clear storage, idle cleanup | every other component |
| Route cache (`tasks/routeCacheSync.ts`, `repositories/route.ts`) | route records in KV | sync, read through, delete | registry row, deletion |
| Stock receive (`do/repo/stockReceiveAuthority.ts`, `git/receive/nativePipeline.ts`) | preparation pool, operation records and ledger, publication and recovery leases | admit, prepare, promote, publish, confirm, recover, clean up | receive lease, alarm, queue |
| Stock planner (`git/nativeReceive/*`, `container/cmd/repository-git/stock_receive.go`) | keys of one attempt in R2 | plan dependencies, publish prerequisites, run, prove | active packs, Container |
| Native receive (`do/repo/nativeReceive.ts`, `nativeExecution.ts`, `do/nativeProcessorSlot.ts`) | operations, claims, execution record, slot, reader lease | enqueue, run, stop, finalize, clean up | queue, alarm, Container, bridge |
| Accepted writes, ingestion, snapshots (`do/repo/acceptedWrites.ts`, `tasks/snapshotMaterialize.ts`, `routes/ingestion.ts`) | journal, heads, pointers, pins, receipts | project, release, reset, ingest | receive, GC |
| Fetch (`git/operations/fetch/*`, `uploadStream/*`) | none across requests | negotiate, close over references, plan, stream | read lease, rewrite, backfill |
| Pack rewrite (`git/pack/rewrite*`) | the selection table | select, deduplicate, order, lay out | fetch, compaction, GC |
| Pack indexer, backfill (`git/pack/indexer/*`, `tasks/refBackfill.ts`) | `.idx` and `.refs` beside a pack | scan, resolve, check connectivity, write | receive, fetch |
| Authentication, D1 registry, routes and UI, browser client, request caches | – | – | – |

`PROJECT.json` lists the hazards at their lines. In short: a push is seven durable
writes with a possible eviction after each; leases and claims run out under owners
that still write; queue messages are lost, repeated and overlap; deletions must wait
for readers nobody can see; a Worker that lost an answer must not undo what was
done; and three algorithms (indexer, rewrite, planner) have to be independent of
chunking, entry order and schedule.

## Modules

| Module | Run | What it is |
|---|---|---|
| `PushUpload` | `upload` | one push request, from its body to its answer, and the durable upload of the GC |
| `RepoReceive`, `AtomicPush` | `receive` | the receive path; what a push promises, which it implements |
| `RepoReceiveProofs` | – | types, stored packs and resolvable refs of `RepoReceive`; recovery, single publication, the refinement of `AtomicPush`, proved |
| `PackCompaction` | `compaction`, `compaction_lost_answer` | compaction, generation publication, delayed deletion, readers |
| `PackCompactionProofs` | – | all four properties of `PackCompaction`, proved |
| `ReachabilityGc` | `gc` | the durable GC operation, its Workers and Container, the receives beside it |
| `ReachabilityGcProofs` | – | the record of a collection, and what the catalog serves beside it, proved |
| `RepoLifecycle` | `lifecycle` | leases of every kind of job, deletion, idle cleanup, route records |
| `StockReceive` | `stock` | the preparation pool and the publication protocol of stock receives |
| `StockClaimsProofs`, `StockReceiveProofs` | – | the inductive invariant of `StockReceive` and its clients' steps; the other steps and the theorems: pool, outcomes and artifacts, proved |
| `StockPlan` | `plan` | one attempt's data plane: planner, Container, proof, cleanup |
| `NativeReceive` | `native` | native operations, their claims, executions and outputs |
| `NativeReceiveProofs` | – | executions and outcomes of `NativeReceive`, proved |
| `AcceptedWrites` | `writes` | journal, snapshots, pins, ingestion receipts |
| `AcceptedWritesProofs` | – | faithful snapshots, single ingestion and final release, proved |
| `RepoLifecycleProofs` | – | served repository, complete deletion and converging routes, proved |
| `PackRewrite`, `UploadPack` | `fetch` | the rewriter, and the fetch that drives and streams it |
| `PackIndexer` | `index` | indexing of a pack, its sidecars, connectivity, backfill |

`MC…` modules give each its instance. Where the interesting cases need different
worlds, `Mixes`, `Jobs` or `Requests` is a set of them and `Init` chooses one, so
that one run covers all; the faults a world allows are part of it.

The modules meet at leases. `RepoReceive` has the steps inside a finalize call;
`ReachabilityGc`, `NativeReceive`, `AcceptedWrites`, `RepoLifecycle` and
`PushUpload` use it as one step or as the few steps they can tell apart.
`StockPlan` is what `StockReceive` does between admission and the call of finalize.
`UploadPack` extends `PackRewrite` and asks for the backfill that `PackIndexer` runs.

A property named in a `.cfg` is often a conjunction of named parts; the parts are
what is explained below. A definition marked "Mutant of X" replaces X in a check
that the property is able to fail.

### PushUpload

`req` is one request: way of staging (`push` with or without a length, `stock`,
`durable`), command section, pack, announced length, verdict of the later steps,
faults. Bytes are units; the SHA-1 of a sequence of units is the sequence itself,
so a checksum matches exactly if the content does. `SectionRead`/`SectionMore` cut
the section off a stream of chunks of any size; `StartPut`, `PutChunk`, `AwaitPut`
feed a PUT that runs beside them (`PutCompletes`, `PutFails`); `PartChunk`,
`UploadPart`, `LastPart` are the multipart upload; `Identify` records the identity
of a durable pack before its trailer is released. Any call may fail, the client may
leave, the Worker may be killed.

Properties: `StagedWhole`, `VerdictExact` (the verdict depends on the bytes, never
on the chunks), `ServedKept`, `NothingLeft`, `OwnedBeforeVisible`, `Ends`.
A PUT may complete as soon as it has all units it announced. `VerdictExact` leaves
out sections so long that a chunk carries the buffer over its limit: the limit is
checked before parsing, so such a request may be refused although its section
fits. `missed` records the cleanup calls that failed or are tried only once
(staging's own delete, the abort of the lease and the deletion of the input in the
native pipeline) and what nobody can abort (a multipart upload whose creation
was not answered). What a killed Worker left is removed by lease expiry
(`RepoLifecycle`).

### RepoReceive and AtomicPush

The variables are the Durable Object's keys, the bucket, the Workers, the calls in
flight and the handler that runs in the object (`h`: who called it, for which
token, which write is next). The object runs one handler at a time (input gates); a
handler is a chain of actions, one for each durable write of
`finalizeReceiveState`. `Crash` may fall between any two. `FinalizeReceive`,
`ReconcileReceive` and `ResumeFinalize` are the entries; `Diverged` and
`MisplacedRow` the two internal-consistency exceptions. `LoseCall` drops a call
before or after it ran, which is the same thing for the Worker.

A push is its token, its pack and the one commit it brings; an outcome is present
or not, with the bit its answer carries on. `AtomicPush` has `Ask`, `Land` (all
commands at once), `Tell` and the administrator's `Overwrite`. A client is told
committed only if the push landed, and refused only if it never lands. The third
answer, `unclear`, promises nothing: it is what the side-band path sends when a
session ends without an outcome, or with one that contradicts its request. Its text
is that of a failure, and the push may land afterwards (finding 14).

The administrator's ref writes do not test that the refs resolve (`refs.ts:51-66`);
the model lets them write only commits that do, which is a precondition on the
administrator.

One timing assumption, in `LeaseExpires`: a session that has durable progress but
no longer owns the lease has no call in flight for a whole lease lifetime (30
minutes). Without it `holdReceiveCompletionFence` lets a late call take over an
expired lease that protects another token's intent, and the alarm, which follows
the lease, no longer finds that intent.

### PackCompaction

The content of a stored pack is the set of pushes whose objects it holds, so a
rewrite is a union and losing data is visible. A delivery of the compaction message
is an element of `Cmp`; its steps are those of `handleCompactionMessage`.
`commitCompactionState` is one action per write, which the bounded fault
`CommitCallFails` may cut anywhere; `CatchRuns` says whether the consumer outlives
that and runs its catch block. Publication is four steps that overlap between
consumers. Deletion messages stay queued until acknowledged and may be delivered
again after every step.

`rlease = None` stands for no unexpired receive lease, which is what `lease.ts:147`
and `:292` ask for. That a lease expires between the activation of its pack and the
replay of its intent is excluded by the timing assumption of `RepoReceive`.

`ActiveDisjoint` is stated for behaviours without an interrupted commit (finding 2).
`PublishedStored` is stated for moments without a pending publication: otherwise
three consumers can make it fail for a while (a blocked consumer's sweep is stamped
with the old index, and a late index write follows). The history variable `torn`
records that a commit broke off after its supersede and before its marker while an
older marker waited; that marker still names the sources, so `PublishedStored`
excuses the time until the next marker (finding 13). `NeedRecorded` excuses a
request that a consumer found impossible or an administrator withdrew.

### ReachabilityGc

The collection is the record `op`, the source lease, the pending output, and one
Worker per claim, which runs one phase of `runDurableReachabilityGc`. The Container
is a job that stores its output and then its receipt and may outlive the Worker. A
publication is one transaction, entered by its Worker or by the next receive, which
helps a prepared publication first. Receives are at the grain the collection sees:
protection, intent, row, pack version, ref transaction.

Objects are commits; a thin push is encoded against another commit. `Readable` is
the largest set of commits each with an active, stored copy whose base is in the
set. Time is in the ages of leases and claims: live, expired, drained.
`ReachableReadable` excludes mixes with packs that were thin before the collection
and mixes in which the recovery alarm comes later than the receive lease; `BothEnd`
excludes the latter (findings 3 and 4).

### RepoLifecycle

A job is one request or delivery: push, compaction, snapshot, backfill, read, route
sync, deletion. Each that stores something stores one object, named after itself.
`Land` lets a write that R2 accepted finish after its Worker is gone. Ages go from
live over old and expired to drained, which is the drain window of the deletion
fence. The deletion consumer is one action per step with retries; the alarm handler
reads, awaits R2 and writes in separate steps.

Exceptions kept in history variables. `unfenced`: jobs whose lease an idle cleanup's
`deleteAll` dropped under them (finding 6). `lapsed`: writers whose lease had expired
and was cleared by the alarm, or replaced by the next writer's, while they still wrote
(finding 15). After a deletion only packs of pushes and compactions in one of these
two sets may be left; a snapshot or a sidecar never is. `during`: jobs that held a
lease while the idle cleanup purged the bucket, admitted meanwhile or left with their
lease by a `deleteAll` that threw (finding 17). `crossed`: the last write of the route
record was made by a consumer that had been overtaken; as soon as another consumer
writes it, the exception is over. A deletion counts like any other change of the row.
`clearExpiredLeases` deletes the receive lease it
read before an await without comparing the token; the input gate keeps others out.
`DeletionCompletes` assumes redelivery of the message, which the queue configuration
limits by its default number of retries. Faults happen in the mixes of `Faulty`: not in
those of a push with another push, a backfill or a read. Tokens are taken in a fixed order (`First`), since they
are interchangeable.

### StockReceive

The records of operations, the pool of preparation leases, the receive, publication
and recovery leases, the write-ahead intent, one finalization per request and one
for the alarm, the queue task. Input gates make the writes from the WAL over the row
to the commit contiguous; `EvictPublishing` is the eviction between them.
Exceptions: `forgotten` (the ledger evicted an operation whose Worker still waits,
finding 9) and `late` (an attempt that outlived its claim wrote an output after the
cleanup, or somebody whose claim was over declared the cleanup of a later attempt
complete, since that call names the operation and not the attempt:
`stockReceiveAuthority.ts:1484-1508`). A publication handler is assumed not to outlast its 30-minute lease.

### StockPlan

One attempt over explicit small packs: several workers materialize dependency
chains, share nodes, retry reads; the plan is finalized, prerequisites or (on the
direct path) outputs are published, the Container validates, the proof is checked.
`Acceptable` is the reference definition of what may be accepted: by the object
graph and by the limits. The numbers of closure objects and edges are counted against
`MaxObjects` and `MaxEdges`; a job says which of the limits on bytes it exceeds
(`over`: metadata, payload, prerequisite pack, manifest, the Container's bundle, its
outputs). The limit on captured bytes refuses nothing, it keeps a push off the direct
path. What is put before a later put fails is removed by the cleanup, by name; the
rollback inside the failing call is not asserted on its own. Deliberate refusals are part of it: an overlap of thin and semantic
bases (`container/…/stock_receive_test.go:171`), twin roots, a cycle of
by-name bases across packs even if a full copy exists, and the depth limit, which a
shared node can bypass.

### NativeReceive

Two runners, the queue and the alarm, over one record; the execution identity with
its drain window; the slot in the container's host; pack and index outputs as two
halves stamped with the generation that wrote them. Exceptions: `robbed` (the receive
lease went to another push while the claim outlasted its finalization, finding 5),
`outrun` (a run that had lost its claim deleted the outputs of the commit that
overtook it, finding 16) and `late` (a write of a revoked execution arrived after the
cleanup). Who deletes what is decided by the caller, as in the code: a run that
settles an operation as failed deletes its outputs whatever the record then says, and
the limit of attempts is tested on the run's own copy of the record. An operation
whose message was lost and whose object was evicted before an alarm was set waits
for the next request (`Stranded`). `finalizeReceiveState` is one step. Assumption: the
Container answers after its uploads ended. It waits for them
(`container/cmd/repository-git/main.go:826-852`), but an upload whose connection broke
could leave R2 still completing it (`nativeReceive.ts:1394-1398`).

### AcceptedWrites

Accepted heads, journal, pointers, pins, receipts; consumers of snapshot messages
with their read leases; a collection that publishes only if versions match and no
projection is in progress. Commits have no parents (the epoch history mode).
Exceptions: `rewound` (an administrator set a ref back to a released commit), `gap`
(the message was lost or used up its deliveries; an ingestion sends none), one key
for two contents (finding 8), and `unfit`: a commit whose tree the projection refuses
for good is acknowledged with nothing projected (`snapshotMaterialize.ts:39-46`), so
its ref's pointer stays behind. The event probe may deliver an old journal entry again
after a release. A reset drops tombstones too (`acceptedWrites.ts:376-380`);
`ReleasedStays` therefore does not speak of them alone but of pins: one appears only
with a ref that holds its commit. Assumed: snapshots are enabled, the repository is
not being deleted, the qualification mode does not change (a reset is possible in the
mixes that have it). A read lease left by a failed `finishRepositoryRead` only delays
collections and is left out.

### UploadPack and PackRewrite

Every graph over three objects, placement in two packs, wants and haves; every
encoding of two packs; requests over five objects that meet the limits; and faulty
requests in which leases, clients and sidecars are lost. A range read may fail at any
chunk, which ends the stream in a fatal packet. A release may fail, and the lease runs
out by itself. A backfill may not be sent, or its consumer may acknowledge it without
rebuilding anything (`dropped`, the exception of `SidecarsRebuilt`). The rewrite
refuses a synthetic object, a sum of synthetic payloads or an output that is too large;
`Oversized` is the exception for those, stated on the selection. The rewriter is stepped as the code does it: selection, headers, ownership and
redirects, retained bases, compaction of the table, order, header lengths until they
are stable. Packs do not change during a fetch, no pack lists an object twice, bases
inside one pack do not lead back. `Crossed` exempts opposed redirects (finding 7).

### PackIndexer

Packs of up to four entries in every mixture of full objects, deltas by place and
by name, in every order, thin or not, with duplicates and bad trailers, through
windows shorter and longer than an entry, with a payload cache that is too small.
Applying a delta to anything but its base gives `Garbage`, so a wrong name shows.
`Knotted` exempts packs in which a duplicate object is its own ancestor: the resolver
gives up although another copy would serve (`resolve/index.ts`). The connectivity
check is one level deep, as in the code. Its catch answers any failed read with
"missing objects" (`connectivity.ts:186-189`): an accepted push is connected whatever
fails, and a connected one is accepted unless a read failed.

## Runs

| Run | States | Bounds | Properties and what they show |
|---|---|---|---|
| `receive` | 0.85 M | 1 ref, 2 pushes, 2 evictions, outcome index of 1, fan-in 1, administrator at ref version 0 | `TypeOK`, `ActivePacksStored`, `RefsResolvable`; `RecoverySound` (replays do not diverge, an intent owns the lease, sequences distinct, compaction need kept); `PublishedOnce` (HEAD, version and intent move together, once); `ImplementsAtomicPush`; `WritersUnblocked` |
| `upload` | 25 k | 33 requests, chunks up to 4 units, parts of 3, up to 3 faults | `StagedExactly`, `ArtifactsOwned`, `Ends` |
| `compaction` | 0.73 M | 3 pushes, 2 deliveries, 1 reader, fan-in 2, 1 interrupted commit | `NothingLost`, `ActiveStored`, `StillReadable`, `NeedRecorded` |
| `compaction_lost_answer` | – | as above, the consumer lives on | `ActiveStored` violated: finding 1 |
| `gc` | 0.30 M | 5 mixes of up to 3 commits, 2 collections, 3 faults | `RefsReadable`, `OperationSound`, `BothEnd` |
| `lifecycle` | 0.48 M | 8 mixes of 3 jobs, 1 reader slot, 1 fault in 5 of them | `RepositoryServed`, `NothingLeftBehind`, `RoutesConverge`, `DeletionFinal` |
| `stock` | 0.52 M | 5 mixes of 2 operations and 3 requests, pool of 1 or 2, ledger of 1 or 2, 2 attempts | `ArtifactsKept`, `OutcomesTrue`, `PoolFenced`, `Settles` |
| `native` | 0.51 M | 9 mixes of 1 or 2 operations, up to 2 faults of given kinds, 2 attempts | `OutcomesKept`, `ExecutionsFenced`, `Settles` |
| `writes` | 0.26 M | 10 mixes of 3 requests, 2 refs, 2 commits, 2 keys, 1 receipt | `SnapshotsFaithful`, `IngestionOnce`, `Converges` |
| `fetch` | 0.22 M | 5 objects, 2 packs, 2 requests, caps of 1, a limit on synthetic payloads and on the output | `ResponseExact`, `PackSound`, `FetchEnds` |
| `index` | 32 k | packs of at most 4 entries, 3 window sizes, cache budget 3, tag depth 2, 1 failed read | `RecordsTrue`, `VerdictsExact`, `Settles` |
| `plan` | 0.20 M | 3 workers, at most 4 packs, 5 nodes, 6 closure objects, 5 edges, depth 2, 3 faults | `PlanExact`, `OutputsClosed`, `Ends` |

Why the bounds are enough to be interesting. Two pushes give every conflict of a
lease holder with a late one; a fan-in of 1 makes the second push ask for
compaction and an outcome index of 1 makes it evict the first one's outcome; the
second eviction interrupts a replay. An administrator who writes before the first push
lands meets both pushes at every stage of theirs. One ref leaves the atomicity of several commands
to the one storage transaction that writes them. Three pushes over a fan-in of 2 make a
pass over part of the catalog with receives before and after it. In `gc` one earlier
commit that the refs may or may not reach is the garbage, and a push may resurrect
it, build on it or replace it. A third job in `lifecycle` is always a deletion, so
every kind of work meets it, and every pair of kinds that share something meets
beside it. Pools, ledgers, receipts, caches, nodes and reader slots are bounded so
low that their limits are reached. Rewriter, indexer and planner need three objects
for a chain to be redirected in the middle, and two packs for a chain to leave one
and come back.

Symmetry is used only in `compaction`, which checks no liveness. Deadlock is checked
in `receive` and `compaction`; in the others requests and jobs are finite and the
system then rests.

## Fairness

* `receive`: weak fairness of the running handler (the runtime runs an admitted event
  to its end or evicts it) and of the alarm that is set (alarms are retried). Nothing
  is assumed of Workers, clients or the network; evictions are bounded.
* `upload`: the Worker goes on, and R2 answers a PUT that has its bytes.
* `gc`: storage and R2 answer the Worker that runs; the alarm finds an operation that
  has not ended; leases and claims that nobody renews run out; the deletion of
  superseded packs is retried.
* `lifecycle`: a deletion consumer that was started goes on, writes in flight end and
  leases run out (`Deletion`, `Land`, `Time` of each job).
* `stock`: the alarm, running finalizations, tasks in the queue and Workers that
  are in a call go on; claims and leases run out. A Worker may still die.
* `native`: runners go on, the alarm and the queue enter them, heartbeats are sent,
  claims and leases run out, the drain window ends, the container's requests end.
* `writes`: a request that committed sends its message or fails to; deliveries are
  made up to the bound; an interrupted ingestion is resumed by the alarm.
* `fetch`, `index`, `plan`: the request or task goes on, the client repeats a request
  it was told to repeat, a backfill message is handled, leases that nobody renews run
  out. An eviction is never forced.

Faults are bounded everywhere, which is what makes "eventually" meaningful.

## Findings

1. **`compaction_lost_answer`** (the run). If `commitCompaction` fails for the
   consumer after the object wrote the target row, the consumer's catch block
   (`tasks/compaction.ts:576`) deletes the target, which the catalog serves. The
   receive pipeline, in the same position, reconciles first.

The others were met while modelling. Each is an exception written into a property, so
that the rest is checked; lifting the exception makes TLC show it.

2. `compaction/lease.ts:350,363`: the upsert of the target and the supersede of the
   sources are two statements of a function documented as atomic (`lease.ts:236`).
   An interruption leaves both active, against `docs/streaming-push.md:175` ("a
   disjoint cover"). No data is lost. Exception: `faults = 0` in `ActiveDisjoint`.
3. `git/maintenance/durableGc.ts:344`: a source pack whose index is exactly the
   closure is kept as it is and the other sources are superseded. A received pack may
   be thin, so its base may go with them; the rewriting path does refuse such a base
   (`docs/qualification.md:263`, `test/reachability-gc.worker.test.ts:479`).
   Exception: `mix.thin = {}` in `ReachableReadable`.
4. `do/repo/catalog/reachabilityGc.ts:159`: a snapshot is taken although an expired
   receive lease protects an intent; the replay then lands without protection
   (`docs/qualification.md:302`). The two may also block each other: if the intent had
   counted its pack before the snapshot, every replay throws on the accounted version
   and the publication waits for the intent. Exception: `~mix.late`.
5. `do/repo/nativeReceive.ts:1616-1634`: a runner whose claim lapsed while it was
   finalizing has its finalization refused, once another push holds the receive lease
   (`catalog/receive.ts:363-383`), although the first attempt landed; it records an
   abort and deletes outputs that are served. The code relies on "The durable
   operation and finalize intent contain everything needed for recovery" (`:1722`).
   Exception: `robbed`.
6. `do/repo/maintenance.ts:150`: `deleteAll` also drops the lease of a receive that is
   preparing, so a deletion that follows does not wait for its last upload, the
   purpose of the drain window (`repositoryLifecycle.ts:15-18`). Exception: `unfenced`,
   which is only this; expired leases are finding 15.
7. `git/pack/rewrite/selectionCompact.ts:110-130`: two chains that run through the
   same objects in opposite directions can leave redirects in a circle; the rewrite
   ends in "topology-incomplete" although every object can be read. The comment at
   `selection.ts:216` says such cases were repaired before. Exception: `Crossed`.
8. `do/repo/catalog/receive.ts:342`: two ingestions with one key and different
   contents, the second admitted before the first one's receipt was stored: the
   replay of the second throws each time and keeps its lease. Exception in
   `NeverWedged`.
9. `do/repo/stockReceiveAuthority.ts:151`: the ledger may evict a settled operation
   whose Worker still holds outputs to clean up or to confirm. Exception: `forgotten`.
10. `git/nativeReceive/stockPlanner.ts:2045` accepts incoming objects that the
    repository already has, which `container/…/stock_receive.go:1297-1380` and
    `stockProof.ts:531` count differently; such pushes are refused late
    (`docs/architecture.md:91`). `Acceptable` says they are refused.
11. `git/operations/uploadStream/index.ts`: when the heartbeat loses the lease while
    the pipe waits, a truncated pack may end with a plain flush instead of a fatal
    packet. `FlushMeansWhole` leaves out aborted streams.
12. `do/repo/catalog/generation.ts:26`: a consumer that read no index may ensure a
    marker after another one published generation 0; `publish.ts:126` then refuses it
    until another marker replaces it.
13. `do/repo/catalog/compaction/lease.ts:363-371`: a commit that is interrupted after
    it superseded its sources and before it wrote its marker leaves the marker of an
    earlier commit, which names those sources. A sweep that is stamped with the index
    of before that commit may delete them, and the earlier commit's consumer then
    publishes a generation whose packs are gone, until the next commit. It takes three
    consumers, which is more than the run has; the proof of `PublishedStored` failed
    there, and TLC confirmed it on a guided instance. Exception: `torn`.
14. `git/receive/streamReceivePack.ts:267-274`: the side-band path answers every error
    of the pipeline with `unpack <error>` and `ng <ref> unpack-failed`
    (`support.ts:44-60`), also the ones that mean the outcome is unknown
    (`pipeline.ts:422-429`, `453-476`), while the intent may be replayed and land. The
    native path closes without a report in that case (`:260-265`). In `AtomicPush` this
    is the answer `unclear`; counted as refused, `ImplementsAtomicPush` fails.
15. `do/repo/catalog/leases.ts:96,147,161-164`: an expired lease is cleared by the
    alarm, or replaced by the next writer's, even if its owner still uploads. The
    deletion fence then finds no record whose drain window it could wait for, although
    `repositoryLifecycle.ts:15-18` says that every writer is drained, and the pack may
    arrive after the sweep. Exception: `lapsed`.
16. `do/repo/nativeReceive.ts:1472-1476`: for a run that lost its claim, `markTerminal`
    returns the record as it is, possibly committed by a later attempt; its callers
    (`:1616-1632`, `:1766-1778`, `:1935-1949`) nevertheless go on to delete the
    outputs. The limit of attempts does not prevent it: it is tested on the run's own
    copy (`:1916`), and a claim has no limit (`:941-947`). Exception: `outrun`.
17. `do/repo/maintenance.ts:149-157`: when `deleteAll` throws, the error is logged and
    the bucket is purged nevertheless. A receive whose lease survived may then commit a
    row whose pack the purge removes. Exception: `during`.

## Proofs

Every theorem is for all sets of refs, pushes, consumers and readers and all bounds.
The assumptions are the named ones on the constants, and what is said below.

`RepoReceiveProofs` proves `TypeCorrect`, `PacksStored` (`ActivePacksStored`) and
`RefsAlwaysResolvable` (`RefsResolvable`) from `ReceiveInvariant`: `Spec =>
[]ReceiveInv`. None of the three is inductive alone. `TypeOK` is not because the
handler reads fields of an intent, which must exist; so `HandlerPlaced` says, for
each place of the handler, which intent, row and outcome are there.
`ActivePacksStored` is not because a replay may activate the pack of a Worker that
has just failed; so `SessionPlaced` says that a Worker which is about to delete its
pack, or has done so, has no intent and no active row. `RefsResolvable` then needs
that the handler reaches the ref transaction only after its row. The proof of the
step has one lemma per action.

Its second half adds `RecoveryInv` and proves `RecoveryIsSound`
(`RecoverySound`), the action property `PublishesOnce` and the refinement
`ImplementsAtomic` (`Spec => ImplementsAtomicPush`). The invariant says what an
intent may rely on: until its push landed, its lease keeps the refs and their version
as the intent found them; after it landed, the lease keeps them as it left them; and
an intent without its lease is one nobody calls for any more. The last part is where
the timing assumption of `LeaseExpires` enters. For the refinement, the ref
transaction of a push that did not land is `Land`, its repetition is a stutter, and
an answer is a `Tell` because an outcome says committed exactly for landed pushes,
and refused for those that have no intent left. What the theorem does not promise is
a meaning for the failure report of a session that does not know its outcome: that
is told as `unclear`.

`PackCompactionProofs` proves `CompactionLosesNothing` (`NothingLost`),
`ServedPacksStored` (`ActiveStored`), `DeletionRespectsReaders` (`StillReadable`) and
`NeedIsRecorded` (`NeedRecorded`). Hypothesis `NoCatch`: no commit call fails, or the
consumer is gone when one does; with a consumer that lives on, `ActiveStored` is
false (finding 1). The invariant has six layers, each preserved from the ones below:
types, handler and `Landed` (a pack that was in the catalog once; never undone);
what packs hold (a staged target holds what its sources hold, deletions name landed
packs that are not active and never will be again); readers (a deletion that passed
the fence names no pack of a snapshot); publication (what is above the index is the
pending generation or older than it, and the pending generation names active packs);
plans (as long as a consumer holds its lease and no receive came between, its sources
are what the policy would choose now, so the commit acts on a recorded need); order
(packs of higher tiers are older, so a target over a plan of the lowest overflowing
tier is disjoint from the rest).

`AcceptedWritesProofs` proves `SnapshotsAreFaithful` (`SnapshotsFaithful`),
`IngestionIsOnce` (`IngestionOnce`) and the action property `ReleaseIsFinal`
(`ReleasedStays`, a part of `Converges`: a commit without a pin gets one only with a
ref that holds it, also after a reset, and a tombstone goes only with a new pin or a
reset), for any requests of the kinds
`MixesAssumption` lists. The invariant ties every record of a ref (accepted head,
journal entry, pointer, plan of a consumer) to the history: it names what the ref was
at the sequence it carries. Two parts are less obvious. `GcOK`: a collection has
every ref among its roots, because each receive is accounted for, but its roots hold
every pin only as long as it accounted for the last pin version; a pin it missed
makes the publication fail its fence. `PointersOK`: a ref whose last accepted write
is older than the refs has an older pointer still, which is what a reset relies on
when it forgets the accepted heads. `IngestionOnce` speaks of requests that change
the ref: a push from a commit to itself is accepted and may be repeated.

`RepoLifecycleProofs` proves `RepositoryIsServed` (`RepositoryServed`),
`DeletionIsComplete` (`NothingLeftBehind`), `RoutesDoConverge` (`RoutesConverge`) and
the action property `TombstoneIsFinal` (`TombstoneStays`, a part of `DeletionFinal`).
The argument turns on the fence of the drain. Every active job has its lease record or
is counted as unfenced or lapsed, so a deletion that passed the fence has met a moment without
active jobs, and that moment lasts because the tombstone admits nobody; what its
sweep listed or removed then stays away. Before the fence, rows, packs staged under a
lease and readers' views are stored. What an idle purge meets was admitted while it
ran, or kept its lease through a failed `deleteAll`. Snapshots and
backfills need no exception for lapsed leases: theirs are pruned only when their drain
window is over. The route record agrees with the row, or a message that will make it so is under
way. Jobs need not be finite: only the set of live readers is counted.

`StockReceiveProofs` proves `PoolIsFenced` (`PoolFenced`), `OutcomesAreTrue`
(`OutcomesTrue`) and `ArtifactsAreKept` (`ArtifactsKept`) from `StockInvariant`. The
invariant `StockInv` and the lemmas for the clients' steps are in
`StockClaimsProofs`. `PoolFenced` rests on little: the pool is finite and counted
when a lease or a claim is added to it. The other two need the whole protocol.
Claims are the thread: a claim has one owner (`OwnersOK`), nobody names a request
that was not admitted (`TokensOK`), and a finalize run knows whether its claim is
still the record's (`FinsOK`). `LaneOK` says that of all the runs that may still
publish only one holds the receive lease, and what it read and planned is what is
stored. `WalOK` keeps the lane closed for a write-ahead record without a publisher:
its lease cannot be taken over, so versions and refs are still the planned ones when
the alarm goes on. From these two, `LandedOK` (an operation moved its ref exactly
once if its record is finalizing or committed) and `AnswersOK` follow. For the
artifacts `DismissedOK` says of everybody who is about to erase an output that its
claim is over without a row, `TidyOK` and `TasksOK` that an output without a row
belongs to the current claim of a record still to be cleaned. `LedgerOK` is about the
sequence: each record is in it once, also after an eviction from its middle.

`NativeReceiveProofs` proves `ExecutionsAreFenced` (`ExecutionsFenced`) and
`OutcomesAreKept` (`OutcomesKept`) from `NativeInvariant`, for any finite set of
operations: then there is always a claim that is not in use, as there is among random
identifiers. `NativeInv` follows an execution from its claim to its outputs.
`PlacesOK` says that no two runs share a claim, and what state a record is in while a
run at a given place still holds it. A run that lost its claim goes on, so most parts
speak of `Holds(r)` and claim nothing for the others. `PutsOK` and `BoxOK` say that
every write under way and the job in the container are of the last execution; if it
was revoked, its drain window or its stop is still to come, and the next execution
waits for both. So a finished execution is `Quiet`: `StoreOK` and `IntactOK` carry
the two outputs from the moment its result is awaited to the record's commit.
`WroteOK` is the link between them: what the job says it wrote is stored or on its way.
`GensOK` keeps the generations of runs apart, `LandedOK` ties landing to the record's
state, up to a lease that was `robbed`; outputs are kept up to those `outrun`.
`ReaderOK` keeps the catalog a live reader
lease protects. `KnownOK` (nobody knows of an operation before its record is written)
is what a dispatch that takes its record back relies on.

`ReachabilityGcProofs` proves `OperationIsSound` (`OperationSound`), `CatalogServes`
(`ActivePacksStored` and `ReachableReadable`, the two parts of `RefsReadable` that are
not about thin packs) and `RefsAreReadable` (`RefsReadable` in every behaviour whose
pushes bring self-contained packs) from `GcInvariant`, for any pushes, refs,
operations, claims and faults. The first part of `GcInv` is about who may still act:
`LeaseOK` (an intent has the receive lease, live unless the alarm is late),
`WorkersOK` and `NativeOK` (only the Worker of a claim that has not drained does
anything, and a Container job ends before its operation is discarded), `OutputsOK`
(what an operation may have stored in each phase), `AccountsOK` (which of the two
versions the intent under way has still to account). The second part is why a
publication loses nothing. `ServedOK`: the refs, and what a push that may still land
refers to, are served, and whatever is served has its ancestors served. `KeptOK` is
the same about the catalog as it will be after the publication: as long as the
sources are not retained, the refs and every push that passed
`prepareGcReceiveProtection` are in the closure of the snapshot or in a pack outside
the sources. It is this part that is not inductive without the others: `TargetOK`
(the output, or the source kept for it, is exactly that closure), `SourceOK` (a
source is the pack of a finished push, and no push is proved without regard to the
operation), `BegunOK` (a snapshot that can still be recorded is of the current refs
and packs) and `SeenOK` (nothing names a commit before it was pushed, so a new pack
changes no closure). Publication then makes `KeptOK` into `ServedOK`. An attempt with
a claim name used twice failed: an operation armed by an earlier claim looked armed
by the new one, which identifiers drawn at random exclude; `ClaimGc` now says so.

Only model-checked: liveness (`WritersUnblocked` and the other temporal properties
under fairness, out of the prover's reach), `LateBasesReadable` beside thin packs
(the run has one thin pack and one collection; with two of either, the cause of
finding 3 also reaches a pack that landed late), and the modules without a proof
module. `PushUpload` has no RECURSIVE operator, but `StagedExactly` and
`ArtifactsOwned` say what the parser's loop and the joining of multipart parts compute,
for every body: induction over data, which the prover cannot do.
`PackRewrite`, `UploadPack`, `PackIndexer` and `StockPlan` use RECURSIVE operators
and compute over data, so they stay with TLC.

## Plan

Every component listed as modelled or partly modelled has its module, its run and, where
the prover reaches, its theorems. What would come next: parameters of
`ReachabilityGc` with several thin packs once finding 3 is decided (then
`RefsReadable` should hold, and be provable, without its exception), and a proof of
`NothingLeft` of `PushUpload`, which is about control only.

## Not modelled

* Authentication, the D1 registry, HTTP routes and UI, the browser client, request
  caches: I/O, single SQL statements, encoding or presentation, without repository
  state of their own.
* Inflate, CRC, SHA-1 and the byte layout of `.idx`, `.refs` and manifests; the
  copying of pack bytes; the Go container beyond its validations and the order of its
  writes (it runs stock Git over files).
* The synchronous `runReachabilityGc`, qualification faults, `removePack` and the
  debug calls of `repoDO.ts`, evidence events, the quiet window of compaction
  (times), `previewCompactionState` (read only), `neededFast.ts` (unused).
* The maintenance lane of `nativeExecution.ts` beyond what `ReachabilityGc` has: it
  is the protocol of `NativeReceive` with another key. Eviction from the native
  ledger. The metadata bundle cache of the planner.
