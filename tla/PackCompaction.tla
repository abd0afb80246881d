--------------------------- MODULE PackCompaction ---------------------------
(***************************************************************************)
(* Compaction of one repository's packs: the queue consumer that rewrites  *)
(* packs and commits the result in the repository Durable Object, the      *)
(* publication of catalog generations in R2, the delayed deletion of       *)
(* superseded packs, and the readers that must not lose the packs they     *)
(* read.  Receives are reduced to what compaction sees of them: the lease, *)
(* the catalog row and the packset version (RepoReceive has the rest).     *)
(*                                                                         *)
(* The Durable Object runs one handler at a time; everything else is an    *)
(* interleaving of independent Workers.  The commit handler performs one   *)
(* durable write per step and a commit call may fail for its caller, at    *)
(* any point, at most MaxFaults times.                                     *)
(***************************************************************************)
EXTENDS Integers, FiniteSets

CONSTANTS
  Push,        \* receive packs (pack-rx-<token>), one per push
  Cmp,         \* deliveries of the compaction message; a delivery is its
               \* lease token and its target pack (pack-cmp-<token>)
  Reader,      \* fetches
  None,
  FanIn,       \* COMPACTION_FAN_IN
  MaxFaults,   \* bound on commitCompaction calls that fail for the caller
  CatchRuns    \* whether the consumer survives such a failure, so that its
               \* catch block runs

ASSUME PackAssumption == Push \cap Cmp = {} /\ None \notin Push \cup Cmp
ASSUME SizeAssumption ==
  FanIn \in Nat \ {0} /\ MaxFaults \in Nat /\ CatchRuns \in BOOLEAN

VARIABLES
  \* Durable Object storage
  row,        \* pack_catalog
  nextSeq,    \* nextPackSeq
  packset,    \* packsetVersion
  wanted,     \* compactionWantedAt is recorded
  rlease,     \* receiveLease: its token
  clease,     \* compactLease: its token, and whether it is unexpired
  pending,    \* generationPublicationPending
  readLease,  \* repositoryReadLeases: the readers with an unexpired lease
  \* Durable Object memory
  h,          \* the running commitCompaction handler: token and next step
  \* R2
  data,       \* data[k]: the pushes whose objects pack k holds, {} if absent
  manifests,  \* generation manifests
  index,      \* the published generation, -1 when there is none
  \* Workers and queues
  job,        \* the compaction consumers
  deletes,    \* queued compaction-delete messages
  del,        \* the compaction-delete consumer
  snap,       \* the catalog snapshot of each reader
  \* history
  received,   \* pushes whose pack was activated
  withdrawn,  \* a consumer or an administrator withdrew the request
  torn,       \* a commit broke off after its supersede, before its marker,
              \* over an older marker that was not published yet
  faults

repo == <<row, nextSeq, packset, wanted, rlease, clease, pending, readLease>>
store == <<data, manifests, index>>
history == <<received, withdrawn, torn, faults>>
vars == <<row, nextSeq, packset, wanted, rlease, clease, pending, readLease, h,
          data, manifests, index, job, deletes, del, snap, received, withdrawn,
          torn, faults>>

Pack == Push \cup Cmp

NoRow == [state |-> "none", tier |-> 0, lo |-> 0, hi |-> 0]
Rows == [state : {"none", "active", "superseded"}, tier : Nat, lo : Nat, hi : Nat]

NoLease == [token |-> None, live |-> FALSE]
Leases == [token : Cmp, live : BOOLEAN] \cup {NoLease}

Generations == [gen : Nat, keys : SUBSET Pack]
NoGeneration == [gen |-> -1, keys |-> {}]

Idle == [token |-> None, pc |-> "idle"]
Handlers == [token : Cmp, pc : {"upsert", "supersede", "bump", "marker",
                                "schedule", "release"}] \cup {Idle}

\* A consumer: where it is, what follows the publication of the pending
\* generation, the plan it was given, the generation it publishes, and the
\* packset version its commit returned (-1: none).
Jobs == [pc : {"idle", "pending", "read", "ensure", "manifest", "index", "complete",
               "begin", "rewrite", "blocked", "clearing", "staged",
               "committing", "discard", "error", "abort", "sweep", "done"},
         next : {"begin", "sweep", "done"},
         src : SUBSET Pack, packset : Nat, tier : Nat,
         pub : Generations \cup {NoGeneration}, version : Nat \cup {-1}]
NewJob == [pc |-> "idle", next |-> "begin", src |-> {}, packset |-> 0,
           tier |-> 0, pub |-> NoGeneration, version |-> -1]

Deletes == [keys : SUBSET Pack, gen : Nat]
NoDelete == [pc |-> "idle", keys |-> {}]
DelStates == [pc : {"idle", "fence", "claim", "erase", "remove"}, keys : SUBSET Pack]

NotReading == [on |-> FALSE, keys |-> {}]
Snaps == [on : BOOLEAN, keys : SUBSET Pack]

TypeOK ==
  /\ row \in [Pack -> Rows]
  /\ nextSeq \in Nat \ {0}
  /\ packset \in Nat
  /\ wanted \in BOOLEAN
  /\ rlease \in Push \cup {None}
  /\ clease \in Leases
  /\ pending \in Generations \cup {NoGeneration}
  /\ readLease \in SUBSET Reader
  /\ h \in Handlers
  /\ data \in [Pack -> SUBSET Push]
  /\ manifests \in SUBSET Generations
  /\ index \in Nat \cup {-1}
  /\ job \in [Cmp -> Jobs]
  /\ deletes \in SUBSET Deletes
  /\ del \in DelStates
  /\ snap \in [Reader -> Snaps]
  /\ received \in SUBSET Push
  /\ withdrawn \in BOOLEAN
  /\ torn \in BOOLEAN
  /\ faults \in Nat

Init ==
  /\ row = [k \in Pack |-> NoRow]
  /\ nextSeq = 1
  /\ packset = 0
  /\ wanted = FALSE
  /\ rlease = None
  /\ clease = NoLease
  /\ pending = NoGeneration
  /\ readLease = {}
  /\ h = Idle
  /\ data = [k \in Pack |-> {}]
  /\ manifests = {}
  /\ index = -1
  /\ job = [c \in Cmp |-> NewJob]
  /\ deletes = {}
  /\ del = NoDelete
  /\ snap = [r \in Reader |-> NotReading]
  /\ received = {}
  /\ withdrawn = FALSE
  /\ torn = FALSE
  /\ faults = 0

------------------------------------------------------------------------------
(* The catalog *)

Active == {k \in Pack : row[k].state = "active"}
Superseded == {k \in Pack : row[k].state = "superseded"}
Stored == {k \in Pack : data[k] # {}}

TierOf(t) == {k \in Active : row[k].tier = t}
Overflowing == {t \in {row[k].tier : k \in Active} : Cardinality(TierOf(t)) > FanIn}

\* selectCompactionPlan: the FanIn oldest packs of the lowest overflowing tier.
IsPlan(S) ==
  \E t \in Overflowing :
    /\ \A u \in Overflowing : t <= u
    /\ S \subseteq TierOf(t)
    /\ Cardinality(S) = FanIn
    /\ \A k \in S, o \in TierOf(t) \ S : row[k].lo <= row[o].lo

\* catalogNeedsCompaction
NeedsCompaction == Overflowing # {}

------------------------------------------------------------------------------
(* Receives *)

BeginReceive(p) ==
  /\ h = Idle
  /\ rlease = None
  /\ row[p] = NoRow /\ p \notin received
  /\ rlease' = p
  /\ UNCHANGED <<row, nextSeq, packset, wanted, clease, pending, readLease, h,
                 store, job, deletes, del, snap, history>>

\* The receive is aborted, or its lease expires.
AbandonReceive(p) ==
  /\ h = Idle
  /\ rlease = p /\ p \notin received
  /\ rlease' = None
  /\ UNCHANGED <<row, nextSeq, packset, wanted, clease, pending, readLease, h,
                 store, job, deletes, del, snap, history>>

\* finalizeReceiveState activates the staged pack under the lease ...
ActivateReceived(p) ==
  /\ h = Idle
  /\ rlease = p /\ p \notin received
  /\ row' = [row EXCEPT ![p] = [state |-> "active", tier |-> 0,
                                lo |-> nextSeq, hi |-> nextSeq]]
  /\ data' = [data EXCEPT ![p] = {p}]
  /\ nextSeq' = nextSeq + 1
  /\ received' = received \cup {p}
  /\ UNCHANGED <<packset, wanted, rlease, clease, pending, readLease, h,
                 manifests, index, job, deletes, del, snap, withdrawn, torn, faults>>

\* ... and later, at the latest when the alarm replays its intent, advances
\* the packset version, records the need for compaction and gives the lease up.
FinishReceive(p) ==
  /\ h = Idle
  /\ rlease = p /\ p \in received
  /\ packset' = packset + 1
  /\ wanted' = (wanted \/ NeedsCompaction)
  /\ withdrawn' = (withdrawn /\ ~wanted')
  /\ rlease' = None
  /\ UNCHANGED <<row, nextSeq, clease, pending, readLease, h, store, job,
                 deletes, del, snap, received, torn, faults>>

\* requestCompaction of an administrator: recorded if there is work.
RequestCompaction ==
  /\ h = Idle
  /\ wanted' = NeedsCompaction
  /\ withdrawn' = (withdrawn /\ ~wanted')
  /\ UNCHANGED <<row, nextSeq, packset, rlease, clease, pending, readLease, h,
                 store, job, deletes, del, snap, received, torn, faults>>

\* clearCompactionRequest of an administrator.
ClearCompactionRequest ==
  /\ h = Idle
  /\ wanted' = FALSE
  /\ withdrawn' = TRUE
  /\ UNCHANGED <<row, nextSeq, packset, rlease, clease, pending, readLease, h,
                 store, job, deletes, del, snap, received, torn, faults>>

------------------------------------------------------------------------------
(* handleCompactionMessage: publication of the pending generation *)

\* A message is delivered: sent by a receive, by the alarm, by an earlier
\* pass, by an administrator, or a duplicate.
StartJob(c) ==
  /\ job[c].pc = "idle"
  /\ job' = [job EXCEPT ![c].pc = "pending"]
  /\ UNCHANGED <<repo, h, store, deletes, del, snap, history>>

\* publishPendingGeneration reads the marker ...
GetPending(c) ==
  /\ job[c].pc = "pending"
  /\ h = Idle
  /\ job' = [job EXCEPT ![c].pub = pending,
                        ![c].pc = IF pending # NoGeneration THEN "manifest" ELSE "read"]
  /\ UNCHANGED <<repo, h, store, deletes, del, snap, history>>

\* ... and without one the index in R2; if there is one, nothing is to be done.
ReadIndex(c) ==
  /\ job[c].pc = "read"
  /\ job' = [job EXCEPT ![c].pc = IF index # -1 THEN job[c].next ELSE "ensure"]
  /\ UNCHANGED <<repo, h, store, deletes, del, snap, history>>

\* ensureGenerationPublicationPending: the marker of the current catalog.
EnsurePending(c) ==
  /\ job[c].pc = "ensure"
  /\ h = Idle
  /\ pending' = IF pending # NoGeneration THEN pending
                ELSE [gen |-> packset, keys |-> Active]
  /\ job' = [job EXCEPT ![c].pub = pending', ![c].pc = "manifest"]
  /\ UNCHANGED <<row, nextSeq, packset, wanted, rlease, clease, readLease, h,
                 store, deletes, del, snap, history>>

Conflicting(g) == \E m \in manifests : m.gen = g.gen /\ m.keys # g.keys

\* Mutant of AfterFailure: the staged upload is not forgotten after the commit.
AfterFailureDiscard(c) == "error"

\* publishPendingGeneration throws: nothing is staged then and no lease held.
\* The message is delivered again (after a commit: as another delivery).
AfterFailure(c) == IF job[c].version = -1 THEN "idle" ELSE "done"

\* publishRepositoryGeneration: the manifest is written once per generation.
PutManifest(c) ==
  /\ job[c].pc = "manifest"
  /\ IF Conflicting(job[c].pub)
     THEN /\ job' = [job EXCEPT ![c].pc = AfterFailure(c), ![c].pub = NoGeneration]
          /\ UNCHANGED manifests
     ELSE /\ manifests' = manifests \cup {job[c].pub}
          /\ job' = [job EXCEPT ![c].pc = "index"]
  /\ UNCHANGED <<repo, h, data, index, deletes, del, snap, history>>

\* The index moves by compare-and-swap and never back.
Advance(g) == IF index > g THEN index ELSE g

CasIndex(c) ==
  /\ job[c].pc = "index"
  /\ index' = Advance(job[c].pub.gen)
  /\ job' = [job EXCEPT ![c].pc = "complete"]
  /\ UNCHANGED <<repo, h, data, manifests, deletes, del, snap, history>>

\* completeGenerationPublication removes the marker if it is still this
\* generation's; otherwise the newer one is published (or the job gives up).
CompletePublication(c) ==
  /\ job[c].pc = "complete"
  /\ h = Idle
  /\ IF pending.gen = job[c].pub.gen
     THEN /\ pending' = NoGeneration
          /\ job' = [job EXCEPT ![c].pc = job[c].next, ![c].pub = NoGeneration]
     ELSE /\ \E pc \in {"pending", AfterFailure(c)} :
               job' = [job EXCEPT ![c].pc = pc, ![c].pub = NoGeneration]
          /\ UNCHANGED pending
  /\ UNCHANGED <<row, nextSeq, packset, wanted, rlease, clease, readLease, h,
                 store, deletes, del, snap, history>>

------------------------------------------------------------------------------
(* handleCompactionMessage: begin, rewrite, stage, commit *)

\* Mutant of NoWork: the threshold is off by one.
NoWorkLate == ~wanted \/ \A t \in Overflowing : Cardinality(TierOf(t)) <= FanIn + 1

\* Nothing is requested, or the catalog is within the policy.
NoWork == ~wanted \/ ~NeedsCompaction

\* beginCompaction without work: a request is cleared, superseded packs swept.
BeginNoWork(c) ==
  /\ job[c].pc = "begin"
  /\ h = Idle
  /\ NoWork
  /\ wanted' = FALSE
  /\ job' = [job EXCEPT ![c].pc = IF wanted THEN "sweep" ELSE "done"]
  /\ UNCHANGED <<row, nextSeq, packset, rlease, clease, pending, readLease, h,
                 store, deletes, del, snap, history>>

\* beginCompaction is refused: a receive or another compaction is active, or
\* the quiet window is not over.  The message is delivered again later.
BeginBusy(c) ==
  /\ job[c].pc = "begin"
  /\ h = Idle
  /\ ~NoWork
  /\ job' = [job EXCEPT ![c].pc = "idle"]
  /\ UNCHANGED <<repo, h, store, deletes, del, snap, history>>

\* beginCompaction grants the lease and returns the plan.
BeginCompaction(c) ==
  /\ job[c].pc = "begin"
  /\ h = Idle
  /\ ~NoWork
  /\ rlease = None /\ ~clease.live
  /\ \E S \in SUBSET Active :
       /\ IsPlan(S)
       /\ job' = [job EXCEPT ![c].pc = "rewrite", ![c].src = S,
                             ![c].packset = packset,
                             ![c].tier = row[CHOOSE k \in S : TRUE].tier + 1]
  /\ clease' = [token |-> c, live |-> TRUE]
  /\ UNCHANGED <<row, nextSeq, packset, wanted, rlease, pending, readLease, h,
                 store, deletes, del, snap, history>>

\* rewritePackResult, stagePackToR2, scanPack, resolveDeltasAndWriteIdx: the
\* target holds the objects of its sources, which must be readable.
StageTarget(c) ==
  /\ job[c].pc = "rewrite"
  /\ job[c].src \subseteq Stored
  /\ data' = [data EXCEPT ![c] = UNION {data[k] : k \in job[c].src}]
  /\ job' = [job EXCEPT ![c].pc = "staged"]
  /\ UNCHANGED <<repo, h, manifests, index, deletes, del, snap, history>>

\* The snapshot or the rewrite is unavailable (abort and retry), the rewrite
\* is impossible (blocked), or staging or indexing throws.
RewriteFails(c) ==
  /\ job[c].pc \in {"rewrite", "staged"}
  /\ \E pc \in {"abort", "blocked", "error"} :
       /\ pc # "error" => job[c].pc = "rewrite"
       /\ job' = [job EXCEPT ![c].pc = pc]
  /\ UNCHANGED <<repo, h, store, deletes, del, snap, history>>

\* abortCompaction; the consumer goes on when the call fails.
AbortCompaction(c) ==
  /\ job[c].pc \in {"abort", "blocked"}
  /\ h = Idle
  /\ clease' \in {clease, IF clease.token = c THEN NoLease ELSE clease}
  /\ job' = [job EXCEPT ![c].pc = IF job[c].pc = "abort" THEN "done" ELSE "clearing"]
  /\ UNCHANGED <<row, nextSeq, packset, wanted, rlease, pending, readLease, h,
                 store, deletes, del, snap, history>>

\* clearCompactionRequestAfterBlocked; this call may fail, too.
ClearBlockedRequest(c) ==
  /\ job[c].pc = "clearing"
  /\ h = Idle
  /\ wanted' \in {wanted, FALSE}
  /\ withdrawn' = (withdrawn \/ ~wanted')
  /\ job' = [job EXCEPT ![c].pc = "sweep"]
  /\ UNCHANGED <<row, nextSeq, packset, rlease, clease, pending, readLease, h,
                 store, deletes, del, snap, received, torn, faults>>

\* The checks of commitCompactionState: the lease is still held, no receive
\* is active, the packset is the one the plan was made for and the source
\* rows are still active (rowsMatchForCommit).
CommitAllowed(c) ==
  /\ clease.token = c /\ clease.live
  /\ rlease = None
  /\ packset = job[c].packset
  /\ job[c].src \subseteq Active

\* commitCompaction is delivered: fence and checks.  A refused commit gives
\* its own lease up and the staged pack is discarded.
CommitCompaction(c) ==
  /\ job[c].pc = "staged"
  /\ h = Idle
  /\ IF CommitAllowed(c)
     THEN /\ h' = [token |-> c, pc |-> "upsert"]
          /\ job' = [job EXCEPT ![c].pc = "committing"]
          /\ UNCHANGED clease
     ELSE /\ clease' = IF clease.token = c THEN NoLease ELSE clease
          /\ job' = [job EXCEPT ![c].pc = "discard"]
          /\ UNCHANGED h
  /\ UNCHANGED <<row, nextSeq, packset, wanted, rlease, pending, readLease,
                 store, deletes, del, snap, history>>

Goto(step) == h' = [h EXCEPT !.pc = step]

MinLo(S) == CHOOSE n \in {row[k].lo : k \in S} : \A k \in S : n <= row[k].lo
MaxHi(S) == CHOOSE n \in {row[k].hi : k \in S} : \A k \in S : n >= row[k].hi

UpsertTarget ==
  /\ h.pc = "upsert"
  /\ LET c == h.token IN
       row' = [row EXCEPT ![c] = [state |-> "active", tier |-> job[c].tier,
                                  lo |-> MinLo(job[c].src), hi |-> MaxHi(job[c].src)]]
  /\ Goto("supersede")
  /\ UNCHANGED <<nextSeq, packset, wanted, rlease, clease, pending, readLease,
                 store, job, deletes, del, snap, history>>

\* Mutant of Sources: whatever is in the tier by now.
SourcesByTier(c) == {k \in Active : row[k].tier = job[c].tier - 1}

\* The rows supersedePackCatalogRows marks.
Sources(c) == job[c].src

SupersedeSources ==
  /\ h.pc = "supersede"
  /\ row' = [k \in Pack |-> IF k \in Sources(h.token)
                            THEN [row[k] EXCEPT !.state = "superseded"] ELSE row[k]]
  /\ Goto("bump")
  /\ UNCHANGED <<nextSeq, packset, wanted, rlease, clease, pending, readLease,
                 store, job, deletes, del, snap, history>>

BumpPackset ==
  /\ h.pc = "bump"
  /\ packset' = packset + 1
  /\ Goto("marker")
  /\ UNCHANGED <<row, nextSeq, wanted, rlease, clease, pending, readLease,
                 store, job, deletes, del, snap, history>>

WriteMarker ==
  /\ h.pc = "marker"
  /\ pending' = [gen |-> packset, keys |-> Active]
  /\ torn' = FALSE
  /\ Goto("schedule")
  /\ UNCHANGED <<row, nextSeq, packset, wanted, rlease, clease, readLease,
                 store, job, deletes, del, snap, received, withdrawn, faults>>

ScheduleNext ==
  /\ h.pc = "schedule"
  /\ wanted' = NeedsCompaction
  /\ withdrawn' = FALSE
  /\ Goto("release")
  /\ UNCHANGED <<row, nextSeq, packset, rlease, clease, pending, readLease,
                 store, job, deletes, del, snap, received, torn, faults>>

\* The compaction lease is deleted and the commit answered; the consumer
\* publishes the new generation, and sweeps unless another pass follows.
ReleaseCompaction ==
  /\ h.pc = "release"
  /\ clease' = NoLease
  /\ h' = Idle
  /\ job' = [job EXCEPT ![h.token] =
       IF job[h.token].pc = "committing"
       THEN [@ EXCEPT !.pc = "pending", !.version = packset,
                      !.next = IF NeedsCompaction THEN "done" ELSE "sweep"]
       ELSE @]
  /\ UNCHANGED <<row, nextSeq, packset, wanted, rlease, pending, readLease,
                 store, deletes, del, snap, history>>

\* cleanupStagedCompaction deletes the staged pack; it may fail.
CleanupStaged(c) ==
  /\ job[c].pc \in {"discard", "error"}
  /\ data' \in {data, [data EXCEPT ![c] = {}]}
  /\ job' = [job EXCEPT ![c].pc = IF job[c].pc = "error" THEN "abort" ELSE "done"]
  /\ UNCHANGED <<repo, h, manifests, index, deletes, del, snap, history>>

\* scheduleSupersededPackCleanup: one message for all superseded packs,
\* stamped with this commit's generation or with the published one.  Sending
\* it may fail.
Sweep(c) ==
  /\ job[c].pc = "sweep"
  /\ h = Idle
  /\ LET gen == IF job[c].version # -1 THEN job[c].version ELSE index IN
       deletes' \in {deletes, IF Superseded # {} /\ gen # -1
                              THEN deletes \cup {[keys |-> Superseded, gen |-> gen]}
                              ELSE deletes}
  /\ job' = [job EXCEPT ![c].pc = "done"]
  /\ UNCHANGED <<repo, h, store, del, snap, history>>

------------------------------------------------------------------------------
(* handleCompactionDeleteMessage *)

\* Mutant of Deletable: the manifest is not consulted.
DeletableByGeneration(m) == index # -1 /\ index >= m.gen

\* The published generation is recent enough and names none of the packs.
Deletable(m) ==
  /\ index # -1 /\ index >= m.gen
  /\ \A g \in manifests : g.gen = index => g.keys \cap m.keys = {}

DeliverDelete ==
  /\ del.pc = "idle"
  /\ \E m \in deletes : Deletable(m) /\ del' = [pc |-> "fence", keys |-> m.keys]
  /\ UNCHANGED <<repo, h, store, job, deletes, snap, history>>

\* canDeleteSupersededGeneration: no unexpired repository read lease.
NoReaders == readLease = {}

CheckReaders ==
  /\ del.pc = "fence"
  /\ h = Idle
  /\ del' = IF NoReaders THEN [del EXCEPT !.pc = "claim"] ELSE NoDelete
  /\ UNCHANGED <<repo, h, store, job, deletes, snap, history>>

\* claimSupersededGcPacks: an active row refuses the whole claim; rows that
\* are gone are skipped.
ClaimSuperseded ==
  /\ del.pc = "claim"
  /\ h = Idle
  /\ del' = IF del.keys \cap Active # {} \/ del.keys \cap Superseded = {}
            THEN NoDelete
            ELSE [pc |-> "erase", keys |-> del.keys \cap Superseded]
  /\ UNCHANGED <<repo, h, store, job, deletes, snap, history>>

\* The R2 objects are deleted, perhaps not all of them.
ErasePacks ==
  /\ del.pc = "erase"
  /\ \E S \in SUBSET del.keys :
       /\ data' = [k \in Pack |-> IF k \in S THEN {} ELSE data[k]]
       /\ del' = IF S = del.keys THEN [del EXCEPT !.pc = "remove"] ELSE NoDelete
  /\ UNCHANGED <<repo, h, manifests, index, job, deletes, snap, history>>

\* removeSupersededGcPacks
RemoveRows ==
  /\ del.pc = "remove"
  /\ h = Idle
  /\ row' = IF del.keys \cap Active # {} THEN row
            ELSE [k \in Pack |-> IF k \in del.keys THEN NoRow ELSE row[k]]
  /\ del' = NoDelete
  /\ UNCHANGED <<nextSeq, packset, wanted, rlease, clease, pending, readLease,
                 h, store, job, deletes, snap, history>>

------------------------------------------------------------------------------
(* Readers, time, failures *)

\* beginRepositoryRead
BeginRead(r) ==
  /\ h = Idle
  /\ ~snap[r].on /\ r \notin readLease
  /\ readLease' = readLease \cup {r}
  /\ UNCHANGED <<row, nextSeq, packset, wanted, rlease, clease, pending, h,
                 store, job, deletes, del, snap, history>>

\* loadActivePackCatalog, under the lease
LoadCatalog(r) ==
  /\ h = Idle
  /\ r \in readLease /\ ~snap[r].on
  /\ snap' = [snap EXCEPT ![r] = [on |-> TRUE, keys |-> Active]]
  /\ UNCHANGED <<repo, h, store, job, deletes, del, history>>

\* finishRepositoryRead, or the lease expires and the heartbeat aborts the read
EndRead(r) ==
  /\ r \in readLease
  /\ readLease' = readLease \ {r}
  /\ snap' = [snap EXCEPT ![r] = NotReading]
  /\ UNCHANGED <<row, nextSeq, packset, wanted, rlease, clease, pending, h,
                 store, job, deletes, del, history>>

\* COMPACT_LEASE_TTL_MS passes.
CompactLeaseExpires ==
  /\ clease.live
  /\ clease' = [clease EXCEPT !.live = FALSE]
  /\ UNCHANGED <<row, nextSeq, packset, wanted, rlease, pending, readLease, h,
                 store, job, deletes, del, snap, history>>

\* The commit call fails for the consumer: the object is evicted or its
\* storage throws in the middle of the handler, or the answer is lost.  The
\* consumer's catch block runs, or the consumer is gone as well.
CommitCallFails ==
  /\ h # Idle
  /\ faults < MaxFaults
  /\ faults' = faults + 1
  /\ h' \in {Idle, h}
  /\ torn' = (torn \/ (h' = Idle /\ h.pc \in {"bump", "marker"} /\ pending.gen > index))
  /\ job' = [job EXCEPT ![h.token].pc = IF CatchRuns THEN "error" ELSE "done"]
  /\ UNCHANGED <<repo, store, deletes, del, snap, received, withdrawn>>

JobStep(c) ==
  \/ StartJob(c) \/ GetPending(c) \/ ReadIndex(c) \/ EnsurePending(c)
  \/ PutManifest(c) \/ CasIndex(c) \/ CompletePublication(c) \/ BeginNoWork(c) \/ BeginBusy(c)
  \/ BeginCompaction(c) \/ StageTarget(c) \/ RewriteFails(c)
  \/ AbortCompaction(c) \/ ClearBlockedRequest(c) \/ CommitCompaction(c)
  \/ CleanupStaged(c) \/ Sweep(c)

CommitStep ==
  \/ UpsertTarget \/ SupersedeSources \/ BumpPackset \/ WriteMarker
  \/ ScheduleNext \/ ReleaseCompaction

DeleteStep ==
  \/ DeliverDelete \/ CheckReaders \/ ClaimSuperseded \/ ErasePacks \/ RemoveRows

Next ==
  \/ \E p \in Push : \/ BeginReceive(p) \/ AbandonReceive(p)
                     \/ ActivateReceived(p) \/ FinishReceive(p)
  \/ \E c \in Cmp : JobStep(c)
  \/ CommitStep
  \/ DeleteStep
  \/ \E r \in Reader : BeginRead(r) \/ LoadCatalog(r) \/ EndRead(r)
  \/ RequestCompaction
  \/ ClearCompactionRequest
  \/ CompactLeaseExpires
  \/ CommitCallFails

Spec == Init /\ [][Next]_vars

------------------------------------------------------------------------------
(* Properties *)

\* Compaction loses nothing: the objects of every received push are in a
\* stored pack that the catalog serves, through rewrites, retries, late and
\* duplicate deletions.
NoReceiveLost ==
  \A p \in received : \E k \in Active : p \in data[k]

\* Every pack the catalog serves is in the bucket.
ActiveStored == Active \subseteq Stored

\* Between handlers the active packs cover the receive sequence disjointly:
\* a commit replaces its sources by one pack over exactly their range.  Only a
\* commit interrupted between its writes (commitCompactionState has no
\* transaction around them) leaves the target and its sources active together.
ActiveDisjoint ==
  h = Idle /\ faults = 0 =>
    \A j, k \in Active : j # k => row[j].hi < row[k].lo \/ row[k].hi < row[j].lo

\* A reader whose lease is unexpired finds every pack of its catalog snapshot,
\* although compaction supersedes and deletes packs meanwhile.
ReadersUndisturbed ==
  \A r \in readLease : snap[r].keys \subseteq Stored

\* Once no publication is pending, the published generation names only stored
\* packs: deletion waits for a generation without them, and the index never
\* moves back to one that has them.  A commit that broke off between its
\* supersede and its marker leaves an older marker to be published: until the
\* next commit replaces it, the generation may name packs a sweep deleted.
PublishedStored ==
  pending = NoGeneration /\ ~torn =>
    \A m \in manifests : m.gen = index => m.keys \subseteq Stored

\* The need for compaction is not lost, whatever messages are lost or
\* duplicated: a catalog over the policy has its request recorded, unless a
\* receive is still to record it, a consumer found the work impossible or an
\* administrator withdrew it since.
NeedRecorded ==
  NeedsCompaction => wanted \/ withdrawn \/ rlease \in received

\* commitCompactionState replaces its sources by one pack that has all they
\* had: a stale plan, an interrupted commit or a second consumer neither lose
\* a push nor serve one twice.
NothingLost ==
  /\ TypeOK
  /\ NoReceiveLost
  /\ ActiveDisjoint

\* A deletion message takes no pack from those who may still look for it:
\* the reader under a lease and the published generation.
StillReadable ==
  /\ ReadersUndisturbed
  /\ PublishedStored
=============================================================================
