--------------------------- MODULE ReachabilityGc ---------------------------
(***************************************************************************)
(* Reachability garbage collection beside live pushes: the durable GC       *)
(* operation of a repository (gcOperation), the queue Workers that advance  *)
(* it under expiring claims, the maintenance Container that indexes its     *)
(* output, and the receives that land while it owns its source packs.       *)
(*                                                                         *)
(* A collection snapshots refs and active packs under the compaction lease, *)
(* rewrites the objects reachable from that snapshot into one output pack,  *)
(* and replaces the source rows by it in one catalog transaction.  Receives *)
(* are not stopped meanwhile: each accounts its version changes to the      *)
(* operation, and one that reaches old source objects again makes the       *)
(* operation retain its sources.                                            *)
(*                                                                         *)
(* A commit stands for the objects it introduces; a push carries at most    *)
(* one commit in one pack.  The receive path is RepoReceive at a coarser    *)
(* grain; generation publication, reader leases and the delayed deletion    *)
(* queue are in PackCompaction, and one step here deletes a superseded pack.*)
(***************************************************************************)
EXTENDS Integers, FiniteSets

CONSTANTS
  Ref,             \* ref names
  Push,            \* pushes; a push is its lease token, its pack and its commit
  Base,            \* the pushes that landed before the model starts
  Op,              \* GC operation ids; an operation is also its output pack
  Claim,           \* execution claims (and source lease tokens) of Workers
  None,
  Mixes            \* the pushes, operations and faults considered, see Init

ASSUME NamesAssumption ==
  /\ Base \subseteq Push
  /\ Push \cap Op = {}
  /\ None \notin Push \cup Op \cup Claim
ASSUME MixesAssumption ==
  Mixes \subseteq
    [pushes : SUBSET Push,   \* the pushes clients may make
     thin : SUBSET Push,     \* those whose pack is encoded against an external base
     ops : SUBSET Op,        \* the operations that may be asked for
     late : BOOLEAN,         \* the recovery alarm may come after the lease ends
     edits : Nat,            \* administrators stop writing refs at this version
     faults : Nat]           \* lost invocations, evictions, late lease ends

VARIABLES
  \* the repository: refs, versions, pack catalog, bucket
  refs,            \* refs[r]: a commit, or None
  refsVersion,
  packset,         \* packsetVersion
  rows,            \* rows[k]: state of pack k's catalog row
  bucket,          \* packs whose objects are in R2
  staging,         \* <<kind, o>>: the input pack and native receipt of o in R2
  below,           \* below[p]: the ancestors of commit p
  base,            \* base[p]: the external encoding base of p's pack
  held,            \* held[o]: the commits rewritten into the packs of o
  \* receives
  rlease,          \* receiveLease: token and age
  push,            \* where each push is
  plan,            \* its command and the versions of its finalize intent
  handler,         \* the push whose finalizeReceive runs in the object
  \* the collection
  op,              \* gcOperation
  admitted,        \* gcAdmission:<id>
  clease,          \* compactLease: token and age
  pending,         \* reachabilityGcPending: the operation whose output it names
  worker,          \* worker[c]: the Worker that was issued claim c
  native,          \* the Container job that may still write: claim, operation
  mix              \* what may still happen, see Mixes

repository == <<refs, refsVersion, packset, rows>>
objects == <<below, base>>
receives == <<rlease, push, plan, handler>>
collection == <<op, admitted, clease, pending, worker, native>>
vars == <<refs, refsVersion, packset, rows, bucket, staging, below, base, held,
          rlease, push, plan, handler, op, admitted, clease, pending, worker,
          native, mix>>

------------------------------------------------------------------------------
(* Values *)

Pack == Push \cup Op
Oid == Push \cup {None}

Ages == {"none", "live", "expired", "drained"}
NoLease == [token |-> None, age |-> "none"]

PushStates == {"idle", "leased", "staged", "proved", "intent", "active",
               "counted", "moved", "done", "lost", "failed"}
NoPlan == [ref |-> None, old |-> None, new |-> None, expected |-> 0,
           packset |-> 0, proof |-> "none"]
Plans == [ref : Ref, old : Oid, new : Oid, expected : Nat, packset : Nat,
          proof : {"none", "clean", "retain"}]

NoSnapshot == [token |-> None, refs |-> [r \in Ref |-> None], sources |-> {},
               refsVersion |-> 0, packset |-> 0]
Snapshots == [token : Claim \cup {None}, refs : [Ref -> Oid],
              sources : SUBSET Pack, refsVersion : Nat, packset : Nat]

Phases == {"queued", "rewrite", "index", "publish", "reclaim", "discard",
           "complete", "blocked"}
Operation == [
  id : Op \cup {None}, phase : Phases,
  claim : Claim \cup {None}, age : Ages,  \* the claim and how old it is
  snapshot : Snapshots,
  refsVersion : Nat, packset : Nat,       \* coordination: accounted versions
  retained : BOOLEAN,                     \* coordination: sources retained
  armed : Claim \cup {None},              \* coordination: publicationClaimId
  planned : BOOLEAN,                      \* the closure is recorded
  target : Pack \cup {None},              \* retainedPackKey
  intent : BOOLEAN,                       \* rewriteIntent is recorded
  indexed : BOOLEAN,                      \* nativeResult is recorded
  superseded : SUBSET Pack,               \* commit: what it superseded
  waiting : BOOLEAN,                      \* discardAfter lies ahead
  overdue : BOOLEAN]                      \* the operation deadline has passed
NewOperation(o) ==
  [id |-> o, phase |-> "queued", claim |-> None, age |-> "none",
   snapshot |-> NoSnapshot, refsVersion |-> 0, packset |-> 0,
   retained |-> FALSE, armed |-> None, planned |-> FALSE, target |-> None,
   intent |-> FALSE, indexed |-> FALSE, superseded |-> {}, waiting |-> FALSE,
   overdue |-> FALSE]
NoOperation == [NewOperation(None) EXCEPT !.phase = "complete"]

WorkerSteps == {"gone", "queued", "begun", "rewrite", "upload", "uploading",
                "uploaded", "index", "native", "publish", "commit", "reclaim",
                "reclaimed", "discard", "deleting", "deleted"}
Gone == [op |-> None, pc |-> "gone", snapshot |-> NoSnapshot]
NoJob == [claim |-> None, op |-> None]
Workers == [op : Op, pc : WorkerSteps, snapshot : Snapshots] \cup {Gone}

TypeOK ==
  /\ refs \in [Ref -> Oid]
  /\ refsVersion \in Nat
  /\ packset \in Nat
  /\ rows \in [Pack -> {"none", "active", "superseded"}]
  /\ bucket \in SUBSET Pack
  /\ staging \in SUBSET ({"input", "receipt"} \X Op)
  /\ below \in [Push -> SUBSET Push]
  /\ base \in [Push -> Oid]
  /\ held \in [Op -> SUBSET Push]
  /\ rlease \in [token : Oid, age : Ages]
  /\ push \in [Push -> PushStates]
  /\ plan \in [Push -> Plans \cup {NoPlan}]
  /\ handler \in Oid
  /\ op \in Operation
  /\ admitted \in SUBSET Op
  /\ clease \in [token : Claim \cup {None}, age : Ages]
  /\ pending \in Op \cup {None}
  /\ worker \in [Claim -> Workers]
  /\ native \in [claim : Claim, op : Op] \cup {NoJob}
  /\ mix.faults \in Nat
  \* tokens and claims have an age exactly while they are there
  /\ rlease.token = None <=> rlease.age = "none"
  /\ clease.token = None <=> clease.age = "none"
  /\ op.claim = None <=> op.age = "none"

------------------------------------------------------------------------------
(* Objects and reachability *)

Active == {k \in Pack : rows[k] = "active"}

\* The commits indexed by pack k.
Holds(k) == IF k \in Op THEN held[k] ELSE {k}

\* The encoding base a reader of pack k needs from elsewhere; an output pack
\* is rewritten with every base inside it.
ExternalBase(k) == IF k \in Op THEN None ELSE base[k]

\* computeNeededFromPackRefs without haves: everything the wants reach.
Closure(wants) == wants \cup UNION {below[p] : p \in wants}

Wants(r) == {r[n] : n \in Ref} \ {None}

\* What a reader of the active catalog can materialize: the largest set of
\* commits each of which has an active, stored copy whose base is in the set.
Readable ==
  UNION {S \in SUBSET Push :
           \A p \in S : \E k \in Active \cap bucket :
             p \in Holds(k) /\ ExternalBase(k) \in S \cup {None}}

Init ==
  /\ refs \in [Ref -> Base \cup {None}]
  /\ refsVersion = 0
  /\ packset = 0
  /\ rows = [k \in Pack |-> IF k \in Base THEN "active" ELSE "none"]
  /\ bucket = Base
  /\ staging = {}
  /\ below = [p \in Push |-> {}]
  /\ base = [p \in Push |-> None]
  /\ held = [o \in Op |-> {}]
  /\ rlease = NoLease
  /\ mix \in Mixes
  /\ push = [p \in Push |-> IF p \in Base THEN "done"
                            ELSE IF p \in mix.pushes THEN "idle" ELSE "failed"]
  /\ plan = [p \in Push |-> NoPlan]
  /\ handler = None
  /\ op = NoOperation
  /\ admitted = {}
  /\ clease = NoLease
  /\ pending = None
  /\ worker = [c \in Claim |-> Gone]
  /\ native = NoJob

------------------------------------------------------------------------------
(* The operation record *)

Terminal == op.phase \in {"complete", "blocked"}
HasSnapshot == op.snapshot.token # None
Committed == op.phase \in {"reclaim", "complete"} /\ HasSnapshot

\* gcOwnsSource: the operation has a snapshot and has neither committed nor
\* ended.  A snapshot always comes with its coordination record.
OwnsSource == HasSnapshot /\ op.phase \notin {"reclaim", "complete", "blocked"}

\* The receive lease protects a durable finalize intent.
HasIntent(p) == p # None /\ push[p] \in {"intent", "active", "counted", "moved"}

\* The object handles one call at a time while a handler waits for storage;
\* only the reads from R2 before the intent let other calls in.
Gate == handler # None => push[handler] = "proved"

\* A fault happens; mix bounds how many.
Fault == mix.faults > 0 /\ mix' = [mix EXCEPT !.faults = @ - 1]

\* The Worker of claim c may still change the operation.
Owns(c) == op.id = worker[c].op /\ op.claim = c /\ op.age = "live"

\* The operation after it gave up its claim, or moved to another phase.
Unclaimed(o) == [o EXCEPT !.claim = None, !.age = "none"]
MoveTo(o, phase) == [Unclaimed(o) EXCEPT !.phase = phase]

Leaves(c) == worker' = [worker EXCEPT ![c] = Gone]
Step(c, step) == worker' = [worker EXCEPT ![c].pc = step]

\* An operation that ended no longer needs its working state.
Ended(o, phase) ==
  [NewOperation(o.id) EXCEPT !.phase = phase, !.snapshot = o.snapshot,
                             !.superseded = o.superseded]

\* The repository is at the versions the operation has accounted for.
VersionsMatch == refsVersion = op.refsVersion /\ packset = op.packset

------------------------------------------------------------------------------
(* Publication: commitCoordinatedGc *)

LeaseHeld(c) ==
  /\ op.phase = "publish" /\ op.planned
  /\ op.claim = c /\ op.age = "live"
  /\ op.armed = c
  /\ clease = [token |-> op.snapshot.token, age |-> "live"]

\* No receive is under way: the lease is gone, or drained without an intent.
ReceiveIdle ==
  rlease.token = None \/ (rlease.age = "drained" /\ ~HasIntent(rlease.token))

SourcesMatch == \A k \in op.snapshot.sources : rows[k] = "active"
PendingMatches == op.indexed => pending = op.id

CommitReady(c) ==
  /\ LeaseHeld(c) /\ ReceiveIdle
  /\ VersionsMatch /\ SourcesMatch /\ PendingMatches

\* The pack that replaces the sources.
Target == IF op.indexed THEN op.id ELSE op.target

Superseded ==
  IF op.retained THEN {} ELSE op.snapshot.sources \ {Target}

\* The catalog, the versions, the receipt and the leases change together.
Publish ==
  LET gone == Superseded
      changed == gone # {} \/ op.indexed
  IN /\ rows' = [k \in Pack |-> IF k \in gone THEN "superseded"
                                ELSE IF k = Target /\ op.indexed THEN "active"
                                ELSE rows[k]]
     /\ packset' = IF changed THEN packset + 1 ELSE packset
     /\ op' = [MoveTo(op, "reclaim") EXCEPT !.superseded = gone, !.armed = None]
     /\ clease' = NoLease
     /\ pending' = None

\* helpPreparedGcPublication finds an armed publication of a live claim.
Prepared == op.phase = "publish" /\ op.armed # None /\ op.armed = op.claim
            /\ op.age = "live"

------------------------------------------------------------------------------
(* Receives *)

\* beginReceiveLease: no unexpired lease, and none that protects an intent.
LeaseFree == rlease.age # "live" /\ ~HasIntent(rlease.token)

\* An unexpired GC source lease admits receives once its snapshot is durable.
GcAdmits == clease.age = "live" => HasSnapshot /\ clease.token = op.snapshot.token

\* The lease is granted; a prepared publication gets its turn first.
BeginReceive(p) ==
  /\ push[p] = "idle"
  /\ Gate
  /\ LeaseFree
  /\ GcAdmits
  /\ IF Prepared /\ CommitReady(op.armed)
     THEN Publish
     ELSE UNCHANGED <<rows, packset, op, clease, pending>>
  /\ rlease' = [token |-> p, age |-> "live"]
  /\ push' = [push EXCEPT ![p] = "leased"]
  /\ UNCHANGED <<refs, refsVersion, bucket, staging, objects, held, plan,
                 handler, admitted, worker, native, mix>>

\* A client asks for a lease: an expired one that protects an intent is renewed.
RenewIntentLease ==
  /\ Gate
  /\ rlease.age \in {"expired", "drained"} /\ HasIntent(rlease.token)
  /\ rlease' = [rlease EXCEPT !.age = "live"]
  /\ UNCHANGED <<repository, bucket, staging, objects, held, push, plan,
                 handler, collection, mix>>

\* The Worker checks the commands, stores the pack and checks connectivity
\* against the active catalog.  A push creates or moves a ref to its own new
\* commit or to one the repository already serves, or deletes it.
StagePack(p) ==
  /\ push[p] = "leased"
  /\ \E r \in Ref, new \in {p, None} \cup Readable :
       /\ new = None => refs[r] # None
       /\ plan' = [plan EXCEPT ![p] =
                     [NoPlan EXCEPT !.ref = r, !.old = refs[r], !.new = new]]
       /\ bucket' = IF new = p THEN bucket \cup {p} ELSE bucket
       /\ IF new = p
          THEN \E parents \in SUBSET Readable,
                  b \in IF p \in mix.thin THEN Readable ELSE {None} :
                 /\ below' = [below EXCEPT ![p] = Closure(parents)]
                 /\ base' = [base EXCEPT ![p] = b]
          ELSE UNCHANGED objects
  /\ push' = [push EXCEPT ![p] = "staged"]
  /\ UNCHANGED <<repository, staging, held, rlease, handler, collection, mix>>

Release(p) == rlease' = IF rlease.token = p THEN NoLease ELSE rlease

\* The push is given up, finalization found another ref value or another
\* lease, or reconciliation found no trace of a lost finalization; the staged
\* objects are deleted.
AbortReceive(p) ==
  /\ push[p] \in {"leased", "staged", "lost"}
  /\ Gate
  /\ Release(p)
  /\ push' = [push EXCEPT ![p] = "failed"]
  /\ bucket' = bucket \ {p}
  /\ UNCHANGED <<repository, staging, objects, held, plan, handler, collection,
                 mix>>

\* What the push reaches, or is encoded against, that the refs did not reach.
NewlyReached(p) ==
  Closure({plan[p].new, IF plan[p].new = p THEN base[p] ELSE None} \ {None})
    \ Closure(Wants(refs))

SourceObjects == UNION {Holds(k) : k \in op.snapshot.sources}

\* Mutant of Protection: an operation in its publish phase is not protected.
ProtectionBeforePublish(p) ==
  IF op.phase \notin {"rewrite", "index"} THEN {"none"}
  ELSE IF ~op.retained /\ NewlyReached(p) \cap SourceObjects # {}
       THEN {"retain"} ELSE {"clean", "retain"}

\* prepareGcReceiveProtection: missing metadata also retains the sources.
Protection(p) ==
  IF ~OwnsSource THEN {"none"}
  ELSE IF op.retained \/ plan[p].new = None THEN {"clean"}
  ELSE IF NewlyReached(p) \cap SourceObjects # {} THEN {"retain"}
  ELSE {"clean", "retain"}

\* finalizeReceiveState up to its transaction: the fence, the ref comparison
\* and the metadata that decides whether the sources must be retained.
Finalize(p) ==
  /\ push[p] = "staged"
  /\ handler = None
  /\ rlease = [token |-> p, age |-> "live"]
  /\ refs[plan[p].ref] = plan[p].old
  /\ \E proof \in Protection(p) :
       plan' = [plan EXCEPT ![p].expected = refsVersion,
                            ![p].packset = packset + 1, ![p].proof = proof]
  /\ push' = [push EXCEPT ![p] = "proved"]
  /\ handler' = p
  /\ UNCHANGED <<repository, bucket, staging, objects, held, rlease, collection,
                 mix>>

\* retainGcReceiveProtection holds: the operation the proof is about still
\* owns its sources, and so do the lease and the ref version.
ProofCurrent(p) ==
  plan[p].proof # "none" =>
    HasSnapshot /\ ~Committed /\ rlease.token = p /\ refsVersion = plan[p].expected

\* One transaction writes the finalize intent and the retention it needs.
WriteIntent(p) ==
  /\ handler = p /\ push[p] = "proved"
  /\ IF ProofCurrent(p)
     THEN /\ push' = [push EXCEPT ![p] = "intent"]
          /\ op' = [op EXCEPT !.retained = @ \/ plan[p].proof = "retain"]
          /\ UNCHANGED handler
     ELSE /\ push' = [push EXCEPT ![p] = "lost"]
          /\ handler' = None
          /\ UNCHANGED op
  /\ UNCHANGED <<repository, bucket, staging, objects, held, rlease, plan,
                 admitted, clease, pending, worker, native, mix>>

HasPack(p) == plan[p].new = p

\* The catalog row of the pushed pack becomes active.
ActivatePack(p) ==
  /\ handler = p /\ push[p] = "intent"
  /\ rows' = IF HasPack(p) THEN [rows EXCEPT ![p] = "active"] ELSE rows
  /\ push' = [push EXCEPT ![p] = IF HasPack(p) THEN "active" ELSE "counted"]
  /\ UNCHANGED <<refs, refsVersion, packset, bucket, staging, objects, held,
                 rlease, plan, handler, collection, mix>>

CountPack(p) ==
  /\ handler = p /\ push[p] = "active"
  /\ packset' = IF packset < plan[p].packset THEN plan[p].packset ELSE packset
  /\ push' = [push EXCEPT ![p] = "counted"]
  /\ UNCHANGED <<refs, refsVersion, rows, bucket, staging, objects, held,
                 rlease, plan, handler, collection, mix>>

\* advanceGcReceiveVersions does not throw.
Accountable(p) ==
  OwnsSource /\ op.refsVersion # plan[p].expected + 1 =>
    /\ op.refsVersion = plan[p].expected
    /\ HasPack(p) => op.packset + 1 = plan[p].packset

Account(p) ==
  [op EXCEPT !.refsVersion = plan[p].expected + 1,
             !.packset = IF HasPack(p) THEN plan[p].packset ELSE @]

\* The ref transaction, which also advances the accounted versions.  A replay
\* that finds the refs already moved changes nothing.
MoveRefs(p) ==
  /\ handler = p /\ push[p] = "counted"
  /\ refsVersion = plan[p].expected
  /\ Accountable(p)
  /\ refs' = [refs EXCEPT ![plan[p].ref] = plan[p].new]
  /\ refsVersion' = refsVersion + 1
  /\ op' = IF OwnsSource /\ op.refsVersion # plan[p].expected + 1
           THEN Account(p) ELSE op
  /\ push' = [push EXCEPT ![p] = "moved"]
  /\ UNCHANGED <<packset, rows, bucket, staging, objects, held, rlease, plan,
                 handler, admitted, clease, pending, worker, native, mix>>

\* The ref transaction throws: a collection began between the writes of the
\* intent and counts other versions.  The intent stays for the next replay.
FinalizeThrows(p) ==
  /\ handler = p /\ push[p] = "counted"
  /\ refsVersion # plan[p].expected \/ ~Accountable(p)
  /\ handler' = None
  /\ UNCHANGED <<repository, bucket, staging, objects, held, rlease, push, plan,
                 collection, mix>>

\* The outcome is stored, the intent and the lease are deleted.
FinishReceive(p) ==
  /\ handler = p /\ push[p] = "moved"
  /\ push' = [push EXCEPT ![p] = "done"]
  /\ handler' = None
  /\ Release(p)
  /\ UNCHANGED <<repository, bucket, staging, objects, held, plan, collection,
                 mix>>

\* Mutant of MayResume: a lease that is still live is left alone.
MayResumeOnceExpired(p) == HasIntent(p) /\ rlease.age # "live"

MayResume(p) == HasIntent(p) /\ (rlease.token \in {p, None} \/ rlease.age # "live")

\* The alarm (or a reconciling Worker) resumes a finalize intent: it takes the
\* lease again and replays.
ResumeFinalize(p) ==
  /\ handler = None
  /\ MayResume(p)
  /\ rlease' = [token |-> p, age |-> "live"]
  /\ handler' = p
  /\ UNCHANGED <<repository, bucket, staging, objects, held, push, plan,
                 collection, mix>>

\* The object is evicted: a finalization without an intent is lost.
Evict ==
  /\ handler # None
  /\ Fault
  /\ handler' = None
  /\ push' = [push EXCEPT ![handler] = IF @ = "proved" THEN "lost" ELSE @]
  /\ UNCHANGED <<repository, bucket, staging, objects, held, rlease, plan,
                 collection>>

\* setRefs: an administrator moves or deletes a ref, to a commit the
\* repository serves.  The check deletes an expired receive lease.
SetRefs(r) ==
  /\ Gate
  /\ refsVersion < mix.edits
  /\ ~OwnsSource
  /\ LeaseFree
  /\ clease.age # "live"
  /\ \E new \in {p \in Readable : below[p] \subseteq Readable} \cup {None} :
       refs' = [refs EXCEPT ![r] = new]
  /\ refsVersion' = refsVersion + 1
  /\ rlease' = NoLease
  /\ UNCHANGED <<packset, rows, bucket, staging, objects, held, push, plan,
                 handler, collection, mix>>

------------------------------------------------------------------------------
(* Time: leases and claims grow old *)

\* A receive lease ends.  The alarm renews the lease of an intent in time
\* unless it comes late; expired leases drain, and the Worker is gone by then.
ReceiveLeaseAges ==
  /\ rlease.token # None
  /\ handler # rlease.token
  /\ HasIntent(rlease.token) => mix.late
  /\ \/ /\ rlease.age = "live"
        /\ rlease' = [rlease EXCEPT !.age = "expired"]
        /\ UNCHANGED push
     \/ /\ rlease.age = "expired"
        /\ rlease' = [rlease EXCEPT !.age = "drained"]
        /\ push' = [push EXCEPT ![rlease.token] =
                      IF @ \in {"leased", "staged", "lost"} THEN "failed" ELSE @]
  /\ UNCHANGED <<repository, bucket, staging, objects, held, plan, handler,
                 collection, mix>>

\* clearExpiredLeases, which the alarm reaches when no collection is under way.
ClearExpiredLeases ==
  /\ Gate /\ Terminal
  /\ rlease.age \in {"expired", "drained"} \/ clease.age = "expired"
  /\ rlease' = IF rlease.age \notin {"expired", "drained"} THEN rlease
               ELSE IF HasIntent(rlease.token) THEN [rlease EXCEPT !.age = "live"]
               ELSE NoLease
  /\ clease' = IF clease.age = "expired" THEN NoLease ELSE clease
  /\ UNCHANGED <<repository, bucket, staging, objects, held, push, plan,
                 handler, op, admitted, pending, worker, native, mix>>

\* A claim expires while its Worker is gone or slow (a fault).
Abandoned == op.claim # None /\ worker[op.claim].pc = "gone"
ClaimExpires ==
  /\ op.age = "live"
  /\ \/ Abandoned /\ UNCHANGED mix
     \/ ~Abandoned /\ Fault
  /\ op' = [op EXCEPT !.age = "expired"]
  /\ UNCHANGED <<repository, bucket, staging, objects, held, receives,
                 admitted, clease, pending, worker, native>>

\* safeRetryAt passes: neither the Worker nor its Container writes any more.
ClaimDrains ==
  /\ op.age = "expired"
  /\ op' = [op EXCEPT !.age = "drained"]
  /\ Leaves(op.claim)
  /\ native' = IF native.claim = op.claim THEN NoJob ELSE native
  /\ UNCHANGED <<repository, bucket, staging, objects, held, receives,
                 admitted, clease, pending, mix>>

\* discardAfter passes: it was the drain of the claim that decided to discard.
DiscardDrains ==
  /\ op.waiting
  /\ op' = [op EXCEPT !.waiting = FALSE]
  /\ native' = NoJob
  /\ UNCHANGED <<repository, bucket, staging, objects, held, receives,
                 admitted, clease, pending, worker, mix>>

\* Nobody renews a source lease without a recorded snapshot: it ends after its
\* Worker.  Any other ends only if the alarm comes too late (a fault).
Orphaned ==
  /\ clease.token \notin {None, op.snapshot.token}
  /\ worker[clease.token].pc = "gone"
SourceLeaseExpires ==
  /\ clease.age = "live"
  /\ \/ Orphaned /\ UNCHANGED mix
     \/ ~Orphaned /\ Fault
  /\ clease' = [clease EXCEPT !.age = "expired"]
  /\ UNCHANGED <<repository, bucket, staging, objects, held, receives, op,
                 admitted, pending, worker, native>>

\* GC_UNPUBLISHED_LIFETIME_MS after admission.
DeadlinePasses ==
  /\ op.phase \in {"queued", "rewrite", "index"}
  /\ ~op.overdue
  /\ op' = [op EXCEPT !.overdue = TRUE]
  /\ UNCHANGED <<repository, bucket, staging, objects, held, receives,
                 admitted, clease, pending, worker, native, mix>>

\* An invocation ends early: it was cancelled, or an answer was lost.
WorkerDies(c) ==
  /\ worker[c].pc # "gone"
  /\ Fault
  /\ Leaves(c)
  /\ UNCHANGED <<repository, bucket, staging, objects, held, receives, op,
                 admitted, clease, pending, native>>

------------------------------------------------------------------------------
(* The object: admission, claims and the alarm *)

\* registerGcOperation
Register(o) ==
  /\ Gate
  /\ o \in mix.ops \ admitted
  /\ Terminal
  /\ op' = NewOperation(o)
  /\ admitted' = admitted \cup {o}
  /\ UNCHANGED <<repository, bucket, staging, objects, held, receives, clease,
                 pending, worker, native, mix>>

\* resumeGcFromAlarm renews the source lease and sends a queue message.
ResumeGc ==
  /\ Gate
  /\ ~Terminal /\ HasSnapshot
  /\ clease.token = op.snapshot.token /\ clease.age = "expired"
  /\ clease' = [clease EXCEPT !.age = "live"]
  /\ UNCHANGED <<repository, bucket, staging, objects, held, receives, op,
                 admitted, pending, worker, native, mix>>

\* Mutant of Claimable: an expired claim may be replaced at once.
ClaimableOnceExpired == op.age # "live" /\ ~op.waiting

\* claimGcOperation: the last claim and a decided discard have drained.
Claimable == op.age \in {"none", "drained"} /\ ~op.waiting

Overdue == op.overdue /\ op.phase \in {"queued", "rewrite", "index"}
SourceKept == rlease.token # None \/ VersionsMatch

\* Another maintenance writer holds the compaction lease.
OtherWriter ==
  HasSnapshot /\ ~Overdue /\ op.phase \in {"rewrite", "index", "publish"}
    /\ clease.token \notin {None, op.snapshot.token}

\* Where a claimed operation goes on.
PhaseAtClaim ==
  IF Overdue THEN "discard"
  ELSE IF op.phase \in {"rewrite", "index"} /\ ~SourceKept THEN "discard"
  ELSE op.phase

\* A claim is a fresh UUID: which of the names nobody uses makes no difference.
\* A publicationClaimId that names an earlier one matches nothing any more.
Free(c) ==
  /\ worker[c].pc = "gone" /\ native.claim # c
  /\ c \notin {op.snapshot.token, clease.token}

ClaimGc(c) ==
  /\ Gate
  /\ ~Terminal
  /\ Free(c) /\ c = CHOOSE d \in Claim : Free(d)
  /\ Claimable /\ ~OtherWriter
  /\ op' = [op EXCEPT !.claim = c, !.age = "live", !.phase = PhaseAtClaim, !.armed = None]
  /\ clease' = IF PhaseAtClaim \in {"rewrite", "index", "publish"} /\ SourceKept
               THEN [token |-> op.snapshot.token, age |-> "live"] ELSE clease
  /\ worker' = [worker EXCEPT ![c] = [op |-> op.id, pc |-> PhaseAtClaim,
                                      snapshot |-> NoSnapshot]]
  /\ UNCHANGED <<repository, bucket, staging, objects, held, receives,
                 admitted, pending, native, mix>>

\* A progress call of a Worker whose claim is gone is rejected: it throws.
ClaimRejected(c) ==
  /\ worker[c].pc \notin {"gone", "begun", "commit"}
  /\ ~Owns(c)
  /\ Leaves(c)
  /\ UNCHANGED <<repository, bucket, staging, objects, held, receives, op,
                 admitted, clease, pending, native, mix>>

------------------------------------------------------------------------------
(* The queue Worker: runDurableReachabilityGc, one phase per claim *)

Yields(c) == op' = Unclaimed(op) /\ Leaves(c)

\* reconcilePriorCleanup finds no superseded rows, and beginReachabilityGc no
\* unexpired receive or compaction lease and no pending output.
SourceQuiet ==
  /\ ~OwnsSource
  /\ pending = None
  /\ rlease.age # "live"
  /\ clease.age # "live"
  /\ \A k \in Pack : rows[k] # "superseded"

\* beginReachabilityGc takes the source lease and answers with refs, versions
\* and active packs.
BeginGc(c) ==
  /\ Gate
  /\ worker[c].pc = "queued"
  /\ SourceQuiet
  /\ clease' = [token |-> c, age |-> "live"]
  /\ worker' = [worker EXCEPT ![c].pc = "begun",
                  ![c].snapshot = [token |-> c, refs |-> refs, sources |-> Active,
                                   refsVersion |-> refsVersion,
                                   packset |-> packset]]
  /\ UNCHANGED <<repository, bucket, staging, objects, held, receives, op,
                 admitted, pending, native, mix>>

BeginRefused(c) ==
  /\ Gate
  /\ worker[c].pc = "queued"
  /\ Owns(c)
  /\ ~SourceQuiet
  /\ Yields(c)
  /\ UNCHANGED <<repository, bucket, staging, objects, held, receives,
                 admitted, clease, pending, native, mix>>

SnapshotCurrent(c) ==
  /\ Owns(c)
  /\ op.phase = "queued"
  /\ clease = [token |-> c, age |-> "live"]
  /\ refsVersion = worker[c].snapshot.refsVersion
  /\ packset = worker[c].snapshot.packset

\* The snapshot progress makes the snapshot and its coordination durable.
RecordSnapshot(c) ==
  /\ Gate
  /\ worker[c].pc = "begun"
  /\ SnapshotCurrent(c)
  /\ op' = [op EXCEPT !.phase = "rewrite", !.snapshot = worker[c].snapshot,
                      !.refsVersion = refsVersion, !.packset = packset]
  /\ worker' = [worker EXCEPT ![c].pc = "rewrite", ![c].snapshot = NoSnapshot]
  /\ UNCHANGED <<repository, bucket, staging, objects, held, receives,
                 admitted, clease, pending, native, mix>>

\* Otherwise the Worker releases its lease and yields.
AbortSnapshot(c) ==
  /\ Gate
  /\ worker[c].pc = "begun"
  /\ ~SnapshotCurrent(c)
  /\ clease' = IF clease.token = c THEN NoLease ELSE clease
  /\ op' = IF Owns(c) THEN Unclaimed(op) ELSE op
  /\ Leaves(c)
  /\ UNCHANGED <<repository, bucket, staging, objects, held, receives,
                 admitted, pending, native, mix>>

------------------------------------------------------------------------------
(* The rewrite phase *)

\* The objects reachable from the snapshot.
GcClosure == Closure(Wants(op.snapshot.refs))

Sources == op.snapshot.sources
Input(o) == <<"input", o>>
Receipt(o) == <<"receipt", o>>

\* Packs whose index is exactly the closure.
ExactPacks == {k \in Sources : GcClosure # {} /\ Holds(k) = GcClosure}

\* The decision to discard keeps the drain of the claim that took it.
Discards(o) == [MoveTo(o, "discard") EXCEPT !.waiting = TRUE]

\* Leaving the operation: blocked releases what the operation still holds.
BlockGc ==
  /\ op' = Ended(op, "blocked")
  /\ clease' = IF clease.token = op.snapshot.token THEN NoLease ELSE clease
  /\ pending' = IF pending = op.id THEN None ELSE pending

\* The closure is computed and recorded.  If a source is exactly the closure,
\* or nothing is reachable, there is nothing to rewrite; refs without any pack
\* block the operation.
PlanGc(c) ==
  /\ Gate
  /\ worker[c].pc = "rewrite"
  /\ Owns(c)
  /\ ~op.planned
  /\ Sources = {} \/ (Sources \subseteq bucket /\ GcClosure \subseteq SourceObjects)
  /\ IF Sources = {} /\ GcClosure # {}
     THEN BlockGc /\ Leaves(c)
     ELSE IF GcClosure = {} \/ ExactPacks # {}
     THEN /\ \E k \in IF GcClosure = {} THEN {None} ELSE ExactPacks :
               op' = [MoveTo(op, "publish") EXCEPT !.planned = TRUE, !.target = k]
          /\ Leaves(c)
          /\ UNCHANGED <<clease, pending>>
     ELSE /\ op' = [op EXCEPT !.planned = TRUE]
          /\ UNCHANGED <<worker, clease, pending>>
  /\ UNCHANGED <<repository, bucket, staging, objects, held, receives,
                 admitted, native, mix>>

Copies(p) == {k \in Sources : p \in Holds(k)}
SelfContained(k) == ExternalBase(k) \in GcClosure \cup {None}

\* rewritePackResult selects a copy of every object without adding a base.
SelectObjects(c) ==
  /\ worker[c].pc = "rewrite"
  /\ op.id = worker[c].op /\ op.planned
  /\ Input(op.id) \notin staging
  /\ \A p \in GcClosure : \E k \in Copies(p) : SelfContained(k)
  /\ Step(c, "upload")
  /\ UNCHANGED <<repository, bucket, staging, objects, held, receives, op,
                 admitted, clease, pending, native, mix>>

\* The rewrite is rejected: a base lies outside the closure, or the sources
\* cannot be read.  Only an operation that wrote no output ends at once.
RewriteRejected(c) ==
  /\ Gate
  /\ worker[c].pc = "rewrite"
  /\ Owns(c)
  /\ op.planned
  /\ Input(op.id) \notin staging
  /\ IF op.intent
     THEN /\ op' = Discards(op)
          /\ UNCHANGED <<clease, pending>>
     ELSE BlockGc
  /\ Leaves(c)
  /\ UNCHANGED <<repository, bucket, staging, objects, held, receives,
                 admitted, native, mix>>

\* The identity of the upload is durable before R2 completes it.
RewriteIntent(c) ==
  /\ Gate
  /\ worker[c].pc = "upload"
  /\ Owns(c)
  /\ op' = [op EXCEPT !.intent = TRUE]
  /\ held' = [held EXCEPT ![op.id] = GcClosure]
  /\ Step(c, "uploading")
  /\ UNCHANGED <<repository, bucket, staging, objects, receives, admitted,
                 clease, pending, native, mix>>

\* R2 stores the input pack; nothing checks the claim any more.
CompleteUpload(c) ==
  /\ worker[c].pc = "uploading"
  /\ staging' = staging \cup {Input(worker[c].op)}
  /\ Step(c, "uploaded")
  /\ UNCHANGED <<repository, bucket, objects, held, receives, op, admitted,
                 clease, pending, native, mix>>

\* The upload, or the one an earlier Worker left behind, is recorded.
RewriteComplete(c) ==
  /\ Gate
  /\ worker[c].pc \in {"rewrite", "uploaded"}
  /\ Owns(c)
  /\ op.intent /\ Input(op.id) \in staging
  /\ op' = MoveTo(op, "index")
  /\ Leaves(c)
  /\ UNCHANGED <<repository, bucket, staging, objects, held, receives,
                 admitted, clease, pending, native, mix>>

------------------------------------------------------------------------------
(* The index phase and the maintenance Container *)

\* runGcNative starts the Container once per claim.
RunGcNative(c) ==
  /\ Gate
  /\ worker[c].pc = "index"
  /\ Owns(c)
  /\ Receipt(op.id) \notin staging
  /\ native' = [claim |-> c, op |-> op.id]
  /\ Step(c, "native")
  /\ UNCHANGED <<repository, bucket, staging, objects, held, receives, op,
                 admitted, clease, pending, mix>>

\* The Container stores the pack with its sidecars, and then the receipt.
NativeOutput ==
  /\ native # NoJob
  /\ native.op \notin bucket
  /\ Input(native.op) \in staging
  /\ bucket' = bucket \cup {native.op}
  /\ UNCHANGED <<repository, staging, objects, held, receives, collection,
                 mix>>

NativeReceipt ==
  /\ native # NoJob
  /\ native.op \in bucket
  /\ staging' = staging \cup {Receipt(native.op)}
  /\ native' = NoJob
  /\ UNCHANGED <<repository, bucket, objects, held, receives, op, admitted,
                 clease, pending, worker, mix>>

\* The receipt is found and its artifacts are valid.
NativeComplete(c) ==
  /\ Gate
  /\ worker[c].pc \in {"index", "native"}
  /\ Owns(c)
  /\ Receipt(op.id) \in staging
  /\ op' = [MoveTo(op, "publish") EXCEPT !.indexed = TRUE]
  /\ Leaves(c)
  /\ UNCHANGED <<repository, bucket, staging, objects, held, receives,
                 admitted, clease, pending, native, mix>>

\* The Container rejects its input, or its artifacts are invalid.
NativeRejected(c) ==
  /\ Gate
  /\ worker[c].pc = "native" \/ (worker[c].pc = "index" /\ Receipt(op.id) \in staging)
  /\ Owns(c)
  /\ op' = Discards(op)
  /\ Leaves(c)
  /\ UNCHANGED <<repository, bucket, staging, objects, held, receives,
                 admitted, clease, pending, native, mix>>

------------------------------------------------------------------------------
(* The publish, reclaim and discard phases *)

\* commitGcOperation records the pending output and arms helping.
ArmPublication(c) ==
  /\ Gate
  /\ worker[c].pc = "publish"
  /\ Owns(c)
  /\ pending' = IF op.indexed /\ clease = [token |-> op.snapshot.token, age |-> "live"]
                THEN op.id ELSE pending
  /\ op' = [op EXCEPT !.armed = c]
  /\ Step(c, "commit")
  /\ UNCHANGED <<repository, bucket, staging, objects, held, receives,
                 admitted, clease, native, mix>>

SourceDiffers == ~VersionsMatch \/ ~SourcesMatch

\* The catalog transaction commits, unless a receive helped it to already or is
\* under way; a changed source makes the Worker discard the output.
CommitPublication(c) ==
  /\ Gate
  /\ worker[c].pc = "commit"
  /\ IF CommitReady(c)
     THEN Publish
     ELSE /\ op' = IF LeaseHeld(c) /\ ReceiveIdle /\ SourceDiffers
                   THEN Discards(op) ELSE op
          /\ UNCHANGED <<rows, packset, clease, pending>>
  /\ Leaves(c)
  /\ UNCHANGED <<refs, refsVersion, bucket, staging, objects, held, receives,
                 admitted, native, mix>>

\* The delayed deletion removes a superseded pack and its row.
DeleteSuperseded(k) ==
  /\ rows[k] = "superseded"
  /\ bucket' = bucket \ {k}
  /\ rows' = [rows EXCEPT ![k] = "none"]
  /\ UNCHANGED <<refs, refsVersion, packset, staging, objects, held, receives,
                 collection, mix>>

Remaining == {k \in op.superseded : k \in bucket \/ rows[k] = "superseded"}

\* Superseded packs are left: their deletion is scheduled.
ReclaimPending(c) ==
  /\ Gate
  /\ worker[c].pc = "reclaim"
  /\ Owns(c)
  /\ Remaining # {}
  /\ Yields(c)
  /\ UNCHANGED <<repository, bucket, staging, objects, held, receives,
                 admitted, clease, pending, native, mix>>

DeleteStaging(c) ==
  /\ worker[c].pc = "reclaim"
  /\ op.id = worker[c].op /\ Remaining = {}
  /\ staging' = staging \ {Input(worker[c].op), Receipt(worker[c].op)}
  /\ Step(c, "reclaimed")
  /\ UNCHANGED <<repository, bucket, objects, held, receives, op, admitted,
                 clease, pending, native, mix>>

Reclaimed(c) ==
  /\ Gate
  /\ worker[c].pc = "reclaimed"
  /\ Owns(c)
  /\ op.phase = "reclaim"
  /\ op' = Ended(op, "complete")
  /\ Leaves(c)
  /\ UNCHANGED <<repository, bucket, staging, objects, held, receives,
                 admitted, clease, pending, native, mix>>

\* gcDiscardKeys: the outputs were never published and every writer drained.
MayDiscard(c) ==
  Owns(c) /\ op.phase = "discard" /\ ~op.waiting /\ rows[op.id] = "none"

DiscardKeys(c) ==
  /\ Gate
  /\ worker[c].pc = "discard"
  /\ Owns(c)
  /\ IF MayDiscard(c) THEN Step(c, "deleting") /\ UNCHANGED op ELSE Yields(c)
  /\ UNCHANGED <<repository, bucket, staging, objects, held, receives,
                 admitted, clease, pending, native, mix>>

DeleteOutputs(c) ==
  /\ worker[c].pc = "deleting"
  /\ bucket' = bucket \ {worker[c].op}
  /\ staging' = staging \ {Input(worker[c].op), Receipt(worker[c].op)}
  /\ Step(c, "deleted")
  /\ UNCHANGED <<repository, objects, held, receives, op, admitted, clease,
                 pending, native, mix>>

Discarded(c) ==
  /\ Gate
  /\ worker[c].pc = "deleted"
  /\ Owns(c)
  /\ op.phase = "discard" /\ ~op.waiting
  /\ BlockGc
  /\ Leaves(c)
  /\ UNCHANGED <<repository, bucket, staging, objects, held, receives,
                 admitted, native, mix>>

------------------------------------------------------------------------------

WorkerStep(c) ==
  \/ BeginGc(c) \/ BeginRefused(c) \/ RecordSnapshot(c) \/ AbortSnapshot(c)
  \/ PlanGc(c) \/ SelectObjects(c) \/ RewriteIntent(c)
  \/ CompleteUpload(c) \/ RewriteComplete(c) \/ RunGcNative(c)
  \/ NativeComplete(c) \/ ArmPublication(c) \/ CommitPublication(c)
  \/ ReclaimPending(c) \/ DeleteStaging(c) \/ Reclaimed(c)
  \/ DiscardKeys(c) \/ DeleteOutputs(c) \/ Discarded(c) \/ ClaimRejected(c)

ReceiveStep(p) ==
  \/ WriteIntent(p) \/ ActivatePack(p) \/ CountPack(p) \/ MoveRefs(p)
  \/ FinalizeThrows(p) \/ FinishReceive(p)

Next ==
  \/ \E p \in Push :
       \/ BeginReceive(p) \/ StagePack(p) \/ AbortReceive(p) \/ Finalize(p)
       \/ ReceiveStep(p) \/ ResumeFinalize(p)
  \/ \E r \in Ref : SetRefs(r)
  \/ \E o \in Op : Register(o)
  \/ \E c \in Claim :
       \/ ClaimGc(c) \/ WorkerStep(c) \/ WorkerDies(c)
       \/ RewriteRejected(c) \/ NativeRejected(c)
  \/ \E k \in Pack : DeleteSuperseded(k)
  \/ NativeOutput \/ NativeReceipt
  \/ Evict \/ ReceiveLeaseAges \/ ClearExpiredLeases \/ RenewIntentLease \/ ResumeGc
  \/ ClaimExpires \/ ClaimDrains \/ DiscardDrains \/ SourceLeaseExpires
  \/ DeadlinePasses

Spec == Init /\ [][Next]_vars

\* Storage answers, queue messages are redelivered by the alarm until the
\* operation ends, and time passes; nothing obliges a client to go on.
Fairness ==
  /\ \A p \in Push : WF_vars(ReceiveStep(p)) /\ WF_vars(ResumeFinalize(p))
  /\ \A c \in Claim : WF_vars(WorkerStep(c) \/ RewriteRejected(c))
  /\ WF_vars(\E c \in Claim : ClaimGc(c))
  /\ \A k \in Pack : WF_vars(DeleteSuperseded(k))
  /\ WF_vars(NativeOutput) /\ WF_vars(NativeReceipt)
  /\ WF_vars(ReceiveLeaseAges) /\ WF_vars(ResumeGc)
  /\ WF_vars(Abandoned /\ ClaimExpires) /\ WF_vars(ClaimDrains)
  /\ WF_vars(DiscardDrains) /\ WF_vars(Orphaned /\ SourceLeaseExpires)

FairSpec == Spec /\ Fairness

------------------------------------------------------------------------------
(* Properties *)

\* Whatever is pushed, collected, retried or lost, every commit that the refs
\* reach can be read from the active catalog: its pack is listed and stored.
\* It does not hold beside thin packs, which the collection may keep because
\* they are exactly the closure (durableGc.ts), nor if a snapshot is taken
\* under an expired lease that protects an intent (beginReachabilityGcState).
ReachableReadable ==
  mix.thin = {} /\ ~mix.late => Closure(Wants(refs)) \subseteq Readable

\* The objects of every active catalog row are in the bucket: neither a late
\* discard nor a delayed deletion removes a pack that readers are sent to.
ActivePacksStored == Active \subseteq bucket

\* An operation that ended blocked left nothing behind, and no writer of an
\* earlier claim can still add to it: no output, no staging, no lease.
BlockedLeavesNothing ==
  op.phase = "blocked" =>
    /\ op.id \notin bucket
    /\ {Input(op.id), Receipt(op.id)} \cap staging = {}
    /\ clease.token = None \/ clease.token # op.snapshot.token
    /\ pending # op.id

\* While a collection owns its sources, whatever moved the ref or pack version
\* has been accounted to it, except for the receive that is about to.
ChangesAccounted ==
  OwnsSource /\ (\A p \in Push : ~HasIntent(p)) => VersionsMatch

\* The base of every reachable thin pack that landed beside a collection stays
\* readable: prepareGcReceiveProtection counts encoding bases as roots.
LateBasesReadable ==
  \A p \in Closure(Wants(refs)) \cap mix.thin :
    p \notin op.snapshot.sources => base[p] \in Readable \cup {None}

\* An admitted collection ends, complete or blocked, whatever is lost on the
\* way: the alarm and the drained claims always find a Worker to go on.
GcTerminates == ~Terminal /\ ~mix.late ~> Terminal

\* A push whose finalize intent is durable lands, a collection or not.
IntentLands ==
  \A p \in Push \ Base : HasIntent(p) /\ ~mix.late ~> push[p] = "done"

\* A collection takes away nothing that is still needed: served rows have
\* their packs, what the refs reach is served, with its encoding bases.
RefsReadable ==
  /\ ActivePacksStored
  /\ ReachableReadable
  /\ LateBasesReadable

\* The record of the operation is true: it knows of every change made beside
\* it, and a blocked one has nothing left anywhere.
OperationSound ==
  /\ TypeOK
  /\ BlockedLeavesNothing
  /\ ChangesAccounted

\* Neither side waits for good: the collection ends and the push lands.
BothEnd ==
  /\ GcTerminates
  /\ IntentLands
=============================================================================
