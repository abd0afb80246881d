------------------------ MODULE PackCompactionProofs ------------------------
(***************************************************************************)
(* Proofs about PackCompaction, for any pushes, deliveries and readers and  *)
(* any fan-in, provided that no commit call fails or, for any number of     *)
(* such failures, that the consumer is then gone and does not run its catch *)
(* block (with the catch block the properties are false).                   *)
(*                                                                         *)
(* The inductive invariant is built in layers, each of which is preserved   *)
(* by every step that starts in a state with the layers below it.           *)
(***************************************************************************)
EXTENDS PackCompaction, FiniteSetTheorems, WellFoundedInduction, TLAPS

PostCommit == {"pending", "read", "ensure", "manifest", "index", "complete",
               "sweep", "done"}
Publishing == {"manifest", "index", "complete"}

\* No commit call fails, or no consumer survives such a failure.
NoCatch == MaxFaults = 0 \/ CatchRuns = FALSE

------------------------------------------------------------------------------
(* The first layer: types, consumers and the commit handler *)

\* A consumer that publishes has a generation to publish; one whose commit was
\* answered goes on to sweep or is done; one that rewrites has sources; and the
\* handler works for the consumer that waits for it.
JobOK(c) ==
  /\ job[c].pc \in Publishing => job[c].pub # NoGeneration
  /\ job[c].version # -1 => job[c].next \in {"sweep", "done"} /\ job[c].pc \in PostCommit
  /\ job[c].version = -1 => job[c].next = "begin"
  /\ job[c].pc \in {"rewrite", "staged", "committing"} => job[c].src # {}
  /\ job[c].pc = "committing" => h.token = c
  /\ c \notin job[c].src

\* The handler runs under the compaction lease of its consumer and under no
\* receive; until it supersedes them, its sources are active.
HandlerOK ==
  h # Idle =>
    /\ clease.token = h.token
    /\ rlease = None
    /\ job[h.token].pc \in {"committing", "done"}
    /\ job[h.token].version = -1
    /\ job[h.token].src # {}
    /\ h.pc \in {"upsert", "supersede"} => job[h.token].src \subseteq Active

\* The receive ranges of the active packs are below the next sequence number.
RangesBounded ==
  \A k \in Active : row[k].lo <= row[k].hi /\ row[k].hi < nextSeq

\* Once the target is in the catalog, or the answer is back, the consumer has
\* landed; a push has when its pack was activated.  This never changes back.
Landed(k) ==
  IF k \in Push THEN k \in received
  ELSE /\ job[k].version # -1 \/ job[k].pc \in {"committing", "done"}
       /\ ~(h.token = k /\ h.pc = "upsert")

\* Only landed packs have rows, and only they are sources.
RowsLanded ==
  /\ \A k \in Pack : row[k].state # "none" => Landed(k)
  /\ \A c \in Cmp : \A k \in job[c].src : Landed(k)

BaseInv ==
  /\ TypeOK
  /\ \A c \in Cmp : JobOK(c)
  /\ HandlerOK
  /\ RangesBounded
  /\ RowsLanded

------------------------------------------------------------------------------
(* The second layer: what the packs hold *)

\* A staged or committed target holds what its sources hold, until they are
\* superseded, and is not empty.
TargetHolds(c) ==
  /\ data[c] # {}
  /\ \A k \in job[c].src : data[k] \subseteq data[c]

\* Deletion messages and the running deletion name landed packs that are not
\* active (and never will be again).
DeletesOK ==
  /\ \A m \in deletes : \A k \in m.keys : Landed(k) /\ k \notin Active
  /\ \A k \in del.keys : Landed(k) /\ k \notin Active

\* The sources of a running commit are stored and named by no deletion until
\* its marker is written.
SourcesKept ==
  h.pc \in {"upsert", "supersede", "bump", "marker"} =>
    \A k \in job[h.token].src :
      /\ data[k] # {}
      /\ k \notin del.keys
      /\ \A m \in deletes : k \notin m.keys

DataInv ==
  /\ NoReceiveLost
  /\ ActiveStored
  /\ \A c \in Cmp : job[c].pc = "staged" => TargetHolds(c)
  /\ h.pc \in {"upsert", "supersede"} => TargetHolds(h.token)
  /\ h.pc = "supersede" => h.token \in Active
  /\ DeletesOK
  /\ SourcesKept

------------------------------------------------------------------------------
(* The third layer: readers *)

\* A snapshot is held under a lease; its packs are stored, and a deletion that
\* found no readers names none of them.
ReaderOK(r) ==
  /\ snap[r].on => r \in readLease
  /\ ~snap[r].on => snap[r].keys = {}
  /\ \A k \in snap[r].keys :
       /\ Landed(k)
       /\ data[k] # {}
       /\ del.pc \in {"claim", "erase", "remove"} => k \notin del.keys

ReadersInv == \A r \in Reader : ReaderOK(r)

------------------------------------------------------------------------------
(* The fourth layer: publication *)

\* No generation is from the future; one that is about to get its marker is new.
GensBounded(n) ==
  /\ pending.gen <= n
  /\ index <= n
  /\ \A c \in Cmp : job[c].pub.gen <= n
  /\ \A m \in manifests : m.gen <= n

\* What is above the published generation is the pending one or older than it.
Superseding(g) == g.gen > index => g = pending \/ g.gen < pending.gen

\* Neither deleted nor about to be.
Safe(k) == data[k] # {} /\ k \notin del.keys

\* The packs of a marker that is not published yet are active, up to the sources
\* of the commit that is about to replace it.
PendingSafe ==
  pending.gen > index /\ ~torn =>
    \A k \in pending.keys :
      k \in Active \/ (h.pc \in {"bump", "marker"} /\ k \in job[h.token].src)

PublicationInv ==
  /\ GensBounded(packset)
  /\ h.pc = "marker" => GensBounded(packset - 1)
  /\ \A c \in Cmp : Superseding(job[c].pub)
  /\ \A c \in Cmp : \A k \in job[c].pub.keys : Landed(k)
  /\ \A m \in manifests : Superseding(m)
  /\ \A m \in manifests : \A k \in m.keys : Landed(k)
  /\ \A k \in pending.keys : Landed(k)
  /\ \A c \in Cmp : job[c].pc = "index" => job[c].pub \in manifests
  /\ \A c \in Cmp : job[c].pc = "complete" => job[c].pub.gen <= index
  /\ index # -1 => \E m \in manifests : m.gen = index
  /\ PendingSafe
  /\ pending.gen <= index /\ ~torn =>
       \A m \in manifests : m.gen = index => \A k \in m.keys : Safe(k)

------------------------------------------------------------------------------
(* The fifth layer: plans *)

\* S is what selectCompactionPlan picks from tier t.
PlanOf(S, t) ==
  /\ t \in Overflowing
  /\ S \subseteq TierOf(t)
  /\ \A k \in S, o \in TierOf(t) \ S : row[k].lo <= row[o].lo

\* As long as its lease was not given to another one and no receive came
\* between, the plan of a consumer is what it was.
PlanInv ==
  /\ \A c \in Cmp :
       /\ job[c].packset <= packset
       /\ job[c].pc \in {"rewrite", "staged"} /\ clease.token = c
            /\ packset = job[c].packset /\ rlease \notin received
          => PlanOf(job[c].src, job[c].tier - 1)
  /\ h.pc = "upsert" => PlanOf(job[h.token].src, job[h.token].tier - 1)
  /\ h.pc \in {"upsert", "supersede", "bump", "marker", "schedule"} => wanted \/ withdrawn
  /\ NeedRecorded

------------------------------------------------------------------------------
(* The sixth layer: the order of the packs *)

\* The active packs, without the sources that are about to be superseded.
Serving == IF h.pc = "supersede" THEN Active \ job[h.token].src ELSE Active

\* Without interrupted commits the packs served are disjoint, and those of a
\* higher tier are older.
OrderInv ==
  faults = 0 =>
    \A j, k \in Serving :
      /\ j # k => row[j].hi < row[k].lo \/ row[k].hi < row[j].lo
      /\ row[j].tier > row[k].tier => row[j].hi < row[k].lo

CompactionInv ==
  BaseInv /\ DataInv /\ ReadersInv /\ PublicationInv /\ PlanInv /\ OrderInv

------------------------------------------------------------------------------
(* Least and greatest numbers *)

\* A set of natural numbers that is not empty has a least element.
LEMMA LeastNat ==
  ASSUME NEW S \in SUBSET Nat, S # {}
  PROVE  \E n \in S : \A m \in S : n <= m
<1> DEFINE R == OpToRel(<, Nat)
<1>1. IsWellFoundedOn(R, Nat)
  BY NatLessThanWellFounded
<1> HIDE DEF R
<1>2. PICK n \in S : \A m \in S : <<m, n>> \notin R
  BY <1>1, WFMin, Zenon
<1>3. ASSUME NEW m \in S
      PROVE  n <= m
  <2>1. m < n => <<m, n>> \in R
    BY DEF R, OpToRel
  <2> QED BY <1>2, <2>1
<1> QED BY <1>3

\* A set of natural numbers below b that is not empty has a greatest element.
LEMMA GreatestNat ==
  ASSUME NEW S \in SUBSET Nat, S # {}, NEW b \in Nat, \A n \in S : n < b
  PROVE  \E n \in S : \A m \in S : m <= n
<1> DEFINE T == {b - n : n \in S}
<1>0. PICK s \in S : TRUE
  OBVIOUS
<1>1. b - s \in T /\ \A u \in T : u \in Nat
  BY <1>0
<1>2. PICK t \in T : \A u \in T : t <= u
  BY <1>1, LeastNat
<1>3. PICK n \in S : t = b - n
  BY <1>2
<1>4. \A m \in S : b - n <= b - m
  BY <1>2, <1>3
<1> QED BY <1>4

\* The range of a target is that of its sources: its ends are ends of theirs.
LEMMA RangeOfSources ==
  ASSUME TypeOK, RangesBounded, NEW S, S \subseteq Active, S # {}
  PROVE  /\ MinLo(S) \in Nat /\ MaxHi(S) \in Nat
         /\ \A k \in S : MinLo(S) <= row[k].lo /\ row[k].hi <= MaxHi(S)
         /\ \E k \in S : MinLo(S) = row[k].lo
         /\ \E k \in S : MaxHi(S) = row[k].hi
<1> DEFINE L == {row[k].lo : k \in S}
           H == {row[k].hi : k \in S}
<1>1. \A k \in S : row[k].lo \in Nat /\ row[k].hi \in Nat /\ row[k].hi < nextSeq /\ nextSeq \in Nat
  BY DEF TypeOK, Rows, RangesBounded, Active
<1>2. PICK n \in L : \A m \in L : n <= m
  <2>1. L \in SUBSET Nat /\ L # {}
    BY <1>1
  <2> QED BY <2>1, LeastNat
<1>3. PICK x \in H : \A m \in H : m <= x
  <2>1. H \in SUBSET Nat /\ H # {} /\ \A m \in H : m < nextSeq
    BY <1>1
  <2> QED BY <1>1, <2>1, GreatestNat
<1>4. MinLo(S) \in L /\ \A k \in S : MinLo(S) <= row[k].lo
  BY <1>2 DEF MinLo
<1>5. MaxHi(S) \in H /\ \A k \in S : MaxHi(S) >= row[k].hi
  BY <1>3 DEF MaxHi
<1> QED BY <1>1, <1>4, <1>5


------------------------------------------------------------------------------
(* Frames *)

\* The catalog alone decides what is active and what a plan is.
LEMMA SameRows ==
  ASSUME row' = row
  PROVE  /\ Active' = Active
         /\ Superseded' = Superseded
         /\ Overflowing' = Overflowing
         /\ NeedsCompaction' = NeedsCompaction
         /\ \A t : TierOf(t)' = TierOf(t)
BY DEF Active, Superseded, Overflowing, NeedsCompaction, TierOf

\* A commit call that fails leaves a consumer that is gone.
LEMMA CatchIdle ==
  ASSUME NoCatch, TypeOK, CommitCallFails
  PROVE  CatchRuns = FALSE
<1>1. faults \in Nat /\ faults < MaxFaults
  BY DEF TypeOK, CommitCallFails
<1> QED BY <1>1 DEF NoCatch

------------------------------------------------------------------------------
(* Types *)

\* The truth values: what is recorded, withdrawn or torn is so or not.
LEMMA FlagsStep ==
  ASSUME TypeOK, [Next]_vars
  PROVE  wanted' \in BOOLEAN /\ withdrawn' \in BOOLEAN /\ torn' \in BOOLEAN
<1> DEFINE Flags == wanted \in BOOLEAN /\ withdrawn \in BOOLEAN /\ torn \in BOOLEAN
<1>0. Flags
  BY DEF TypeOK
<1> SUFFICES Flags'
  OBVIOUS
<1>1. CASE UNCHANGED <<wanted, withdrawn, torn>>
  BY <1>0, <1>1
<1>2. ASSUME NEW p \in Push, FinishReceive(p)
      PROVE  Flags'
  BY <1>0, <1>2, Zenon DEF FinishReceive
<1>3. ASSUME NEW c \in Cmp, BeginNoWork(c) \/ ClearBlockedRequest(c)
      PROVE  Flags'
  <2>1. CASE BeginNoWork(c)
    BY <1>0, <2>1, Zenon DEF BeginNoWork, history
  <2>2. CASE ClearBlockedRequest(c)
    <3>1. wanted' \in BOOLEAN
      BY <1>0, <2>2, Zenon DEF ClearBlockedRequest
    <3>2. withdrawn' = (withdrawn \/ ~wanted') /\ torn' = torn
      BY <2>2, Zenon DEF ClearBlockedRequest
    <3> QED BY <1>0, <3>1, <3>2, Zenon
  <2> QED BY <1>3, <2>1, <2>2
<1>4. CASE RequestCompaction \/ ClearCompactionRequest
  <2>1. CASE RequestCompaction
    BY <1>0, <2>1, Zenon DEF RequestCompaction, NeedsCompaction
  <2>2. CASE ClearCompactionRequest
    BY <1>0, <2>2, Zenon DEF ClearCompactionRequest
  <2> QED BY <1>4, <2>1, <2>2
<1>5. CASE ScheduleNext
  BY <1>0, <1>5, Zenon DEF ScheduleNext, NeedsCompaction
<1>6. CASE WriteMarker
  BY <1>0, <1>6, Zenon DEF WriteMarker
<1>7. CASE CommitCallFails
  BY <1>0, <1>7, Zenon DEF CommitCallFails, repo
<1>8. ASSUME NEW p \in Push, BeginReceive(p) \/ AbandonReceive(p) \/ ActivateReceived(p)
      PROVE  UNCHANGED <<wanted, withdrawn, torn>>
  BY <1>8 DEF BeginReceive, AbandonReceive, ActivateReceived, history
<1>9. ASSUME NEW c \in Cmp, JobStep(c), ~BeginNoWork(c), ~ClearBlockedRequest(c)
      PROVE  UNCHANGED <<wanted, withdrawn, torn>>
  BY <1>9 DEF JobStep, StartJob, GetPending, ReadIndex, EnsurePending, PutManifest, CasIndex,
     CompletePublication, BeginBusy, BeginCompaction, StageTarget, RewriteFails, AbortCompaction,
     CommitCompaction, CleanupStaged, Sweep, repo, history
<1>10. ASSUME CommitStep, ~ScheduleNext, ~WriteMarker
       PROVE  UNCHANGED <<wanted, withdrawn, torn>>
  BY <1>10 DEF CommitStep, UpsertTarget, SupersedeSources, BumpPackset, ReleaseCompaction, history
<1>11. ASSUME DeleteStep
       PROVE  UNCHANGED <<wanted, withdrawn, torn>>
  BY <1>11 DEF DeleteStep, DeliverDelete, CheckReaders, ClaimSuperseded, ErasePacks, RemoveRows,
     repo, history
<1>12. ASSUME NEW r \in Reader, BeginRead(r) \/ LoadCatalog(r) \/ EndRead(r)
       PROVE  UNCHANGED <<wanted, withdrawn, torn>>
  BY <1>12 DEF BeginRead, LoadCatalog, EndRead, repo, history
<1>13. ASSUME CompactLeaseExpires \/ UNCHANGED vars
       PROVE  UNCHANGED <<wanted, withdrawn, torn>>
  BY <1>13 DEF CompactLeaseExpires, vars, history
<1> QED
  BY <1>1, <1>2, <1>3, <1>4, <1>5, <1>6, <1>7, <1>8, <1>9, <1>10, <1>11, <1>12, <1>13 DEF Next


\* Replacing a field by a value of its type keeps a consumer's record one.
LEMMA JobFields ==
  ASSUME NEW j \in Jobs
  PROVE  /\ \A x \in {"idle", "pending", "read", "ensure", "manifest", "index", "complete",
                     "begin", "rewrite", "blocked", "clearing", "staged",
                     "committing", "discard", "error", "abort", "sweep", "done"} :
              [j EXCEPT !.pc = x] \in Jobs
         /\ \A x \in {"begin", "sweep", "done"} : [j EXCEPT !.next = x] \in Jobs
         /\ \A x \in SUBSET Pack : [j EXCEPT !.src = x] \in Jobs
         /\ \A x \in Nat : [j EXCEPT !.packset = x] \in Jobs
         /\ \A x \in Nat : [j EXCEPT !.tier = x] \in Jobs
         /\ \A x \in Generations \cup {NoGeneration} : [j EXCEPT !.pub = x] \in Jobs
         /\ \A x \in Nat \cup {-1} : [j EXCEPT !.version = x] \in Jobs
<1>1. \A x \in {"idle", "pending", "read", "ensure", "manifest", "index", "complete",
                "begin", "rewrite", "blocked", "clearing", "staged",
                "committing", "discard", "error", "abort", "sweep", "done"} :
        [j EXCEPT !.pc = x] \in Jobs
  BY DEF Jobs
<1>2. \A x \in {"begin", "sweep", "done"} : [j EXCEPT !.next = x] \in Jobs
  BY DEF Jobs
<1>3. \A x \in SUBSET Pack : [j EXCEPT !.src = x] \in Jobs
  BY DEF Jobs
<1>4. \A x \in Nat : [j EXCEPT !.packset = x] \in Jobs
  BY DEF Jobs
<1>5. \A x \in Nat : [j EXCEPT !.tier = x] \in Jobs
  BY DEF Jobs
<1>6. \A x \in Generations \cup {NoGeneration} : [j EXCEPT !.pub = x] \in Jobs
  BY DEF Jobs
<1>7. \A x \in Nat \cup {-1} : [j EXCEPT !.version = x] \in Jobs
  BY DEF Jobs
<1> QED BY <1>1, <1>2, <1>3, <1>4, <1>5, <1>6, <1>7

\* A consumer's record stays one: a step changes fields of one consumer.
LEMMA JobTypesStep ==
  ASSUME BaseInv, [Next]_vars
  PROVE  job' \in [Cmp -> Jobs]
<1>0. job \in [Cmp -> Jobs]
  BY DEF BaseInv, TypeOK
<1> DEFINE PCs == {"idle", "pending", "read", "ensure", "manifest", "index", "complete",
                   "begin", "rewrite", "blocked", "clearing", "staged",
                   "committing", "discard", "error", "abort", "sweep", "done"}
<1>1. ASSUME NEW c \in Cmp, NEW x \in PCs, job' = [job EXCEPT ![c].pc = x]
      PROVE  job' \in [Cmp -> Jobs]
  BY <1>0, <1>1, JobFields
<1>2. ASSUME NEW c \in Cmp, NEW x \in PCs, NEW g \in Generations \cup {NoGeneration},
             job' = [job EXCEPT ![c].pub = g, ![c].pc = x]
      PROVE  job' \in [Cmp -> Jobs]
  <2>1. [job[c] EXCEPT !.pub = g] \in Jobs
    BY <1>0, JobFields
  <2>2. [[job[c] EXCEPT !.pub = g] EXCEPT !.pc = x] \in Jobs
    BY <2>1, JobFields
  <2> QED BY <1>0, <1>2, <2>2
<1>3. ASSUME NEW c \in Cmp, NEW x \in PCs, NEW g \in Generations \cup {NoGeneration},
             job' = [job EXCEPT ![c].pc = x, ![c].pub = g]
      PROVE  job' \in [Cmp -> Jobs]
  <2>1. [job[c] EXCEPT !.pc = x] \in Jobs
    BY <1>0, JobFields
  <2>2. [[job[c] EXCEPT !.pc = x] EXCEPT !.pub = g] \in Jobs
    BY <2>1, JobFields
  <2> QED BY <1>0, <1>3, <2>2
<1> HIDE DEF PCs
<1>4. \A c \in Cmp : AfterFailure(c) \in PCs /\ job[c].next \in PCs
  BY <1>0 DEF AfterFailure, Jobs, PCs
<1>5. ASSUME NEW c \in Cmp, StartJob(c) \/ ReadIndex(c) \/ CasIndex(c) \/ BeginNoWork(c)
             \/ BeginBusy(c) \/ StageTarget(c) \/ RewriteFails(c) \/ AbortCompaction(c)
             \/ ClearBlockedRequest(c) \/ CommitCompaction(c) \/ CleanupStaged(c) \/ Sweep(c)
      PROVE  job' \in [Cmp -> Jobs]
  <2>1. \E x \in PCs : job' = [job EXCEPT ![c].pc = x]
    BY <1>4, <1>5 DEF StartJob, ReadIndex, CasIndex, BeginNoWork, BeginBusy, StageTarget,
       RewriteFails, AbortCompaction, ClearBlockedRequest, CommitCompaction, CleanupStaged, Sweep, PCs
  <2> QED BY <1>1, <2>1
<1>6. ASSUME NEW c \in Cmp, GetPending(c) \/ EnsurePending(c)
      PROVE  job' \in [Cmp -> Jobs]
  <2>1. pending \in Generations \cup {NoGeneration} /\ packset \in Nat /\ Active \subseteq Pack
    BY DEF BaseInv, TypeOK, Active
  <2>2. \E x \in PCs, g \in Generations \cup {NoGeneration} :
          job' = [job EXCEPT ![c].pub = g, ![c].pc = x]
    <3>1. CASE GetPending(c)
      BY <2>1, <3>1 DEF GetPending, PCs
    <3>2. CASE EnsurePending(c)
      <4>1. pending' \in Generations \cup {NoGeneration}
        BY <2>1, <3>2 DEF EnsurePending, Generations
      <4> QED BY <3>2, <4>1 DEF EnsurePending, PCs
    <3> QED BY <1>6, <3>1, <3>2
  <2> QED BY <1>2, <2>2
<1>7. ASSUME NEW c \in Cmp, PutManifest(c) \/ CompletePublication(c)
      PROVE  job' \in [Cmp -> Jobs]
  <2>1. \/ \E x \in PCs : job' = [job EXCEPT ![c].pc = x]
        \/ \E x \in PCs : job' = [job EXCEPT ![c].pc = x, ![c].pub = NoGeneration]
    BY <1>4, <1>7 DEF PutManifest, CompletePublication, PCs
  <2> QED BY <1>1, <1>3, <2>1
<1>8. ASSUME NEW c \in Cmp, BeginCompaction(c)
       PROVE  job' \in [Cmp -> Jobs]
  <2>1. PICK S \in SUBSET Active :
          /\ IsPlan(S)
          /\ job' = [job EXCEPT ![c].pc = "rewrite", ![c].src = S,
                                ![c].packset = packset,
                                ![c].tier = row[CHOOSE k \in S : TRUE].tier + 1]
    BY <1>8 DEF BeginCompaction
  <2>2. S # {}
    BY <2>1, FS_EmptySet, SizeAssumption DEF IsPlan
  <2>3. row[CHOOSE k \in S : TRUE].tier \in Nat
    BY <2>2 DEF BaseInv, TypeOK, Rows, Active
  <2>4. S \subseteq Pack /\ packset \in Nat
    BY DEF Active, BaseInv, TypeOK
  <2> DEFINE t == row[CHOOSE k \in S : TRUE].tier + 1
  <2>5. t \in Nat
    BY <2>3
  <2>6. [job[c] EXCEPT !.pc = "rewrite"] \in Jobs
    BY <1>0, JobFields
  <2>7. [[job[c] EXCEPT !.pc = "rewrite"] EXCEPT !.src = S] \in Jobs
    BY <2>4, <2>6, JobFields
  <2>8. [[[job[c] EXCEPT !.pc = "rewrite"] EXCEPT !.src = S] EXCEPT !.packset = packset] \in Jobs
    BY <2>4, <2>7, JobFields
  <2> HIDE DEF t
  <2>9. [[[[job[c] EXCEPT !.pc = "rewrite"] EXCEPT !.src = S] EXCEPT !.packset = packset]
            EXCEPT !.tier = t] \in Jobs
    BY <2>5, <2>8, JobFields
  <2> QED BY <1>0, <2>1, <2>9 DEF t
<1>9. ASSUME ReleaseCompaction
      PROVE  job' \in [Cmp -> Jobs]
  <2>1. h.token \in Cmp /\ packset \in Nat
    BY <1>9 DEF BaseInv, TypeOK, ReleaseCompaction, Handlers, Idle
  <2>2. CASE job[h.token].pc = "committing"
    <3> DEFINE n == IF NeedsCompaction THEN "done" ELSE "sweep"
    <3>1. job' = [job EXCEPT ![h.token] = [[[job[h.token] EXCEPT !.pc = "pending"]
                     EXCEPT !.version = packset] EXCEPT !.next = n]]
      BY <1>0, <1>9, <2>1, <2>2 DEF ReleaseCompaction
    <3>2. n \in {"begin", "sweep", "done"}
      OBVIOUS
    <3> HIDE DEF n
    <3>3. [job[h.token] EXCEPT !.pc = "pending"] \in Jobs
      BY <1>0, <2>1, JobFields
    <3>4. [[job[h.token] EXCEPT !.pc = "pending"] EXCEPT !.version = packset] \in Jobs
      BY <2>1, <3>3, JobFields
    <3>5. [[[job[h.token] EXCEPT !.pc = "pending"] EXCEPT !.version = packset]
              EXCEPT !.next = n] \in Jobs
      BY <3>2, <3>4, JobFields
    <3> QED BY <1>0, <2>1, <3>1, <3>5
  <2>3. CASE job[h.token].pc # "committing"
    BY <1>0, <1>9, <2>1, <2>3 DEF ReleaseCompaction
  <2> QED BY <2>2, <2>3
<1>10. ASSUME CommitCallFails
       PROVE  job' \in [Cmp -> Jobs]
  BY <1>0, <1>1, <1>10 DEF CommitCallFails, PCs, BaseInv, TypeOK, Handlers, Idle
<1>11. CASE job' = job
  BY <1>0, <1>11
<1>12. ASSUME NEW p \in Push, BeginReceive(p) \/ AbandonReceive(p) \/ ActivateReceived(p)
              \/ FinishReceive(p)
       PROVE  job' = job
  BY <1>12 DEF BeginReceive, AbandonReceive, ActivateReceived, FinishReceive
<1>13. ASSUME CommitStep, ~ReleaseCompaction
       PROVE  job' = job
  BY <1>13 DEF CommitStep, UpsertTarget, SupersedeSources, BumpPackset, WriteMarker, ScheduleNext
<1>14. ASSUME DeleteStep
       PROVE  job' = job
  BY <1>14 DEF DeleteStep, DeliverDelete, CheckReaders, ClaimSuperseded, ErasePacks, RemoveRows
<1>15. ASSUME NEW r \in Reader, BeginRead(r) \/ LoadCatalog(r) \/ EndRead(r)
       PROVE  job' = job
  BY <1>15 DEF BeginRead, LoadCatalog, EndRead
<1>16. ASSUME RequestCompaction \/ ClearCompactionRequest \/ CompactLeaseExpires \/ UNCHANGED vars
       PROVE  job' = job
  BY <1>16 DEF RequestCompaction, ClearCompactionRequest, CompactLeaseExpires, vars
<1> QED
  BY <1>5, <1>6, <1>7, <1>8, <1>9, <1>10, <1>11, <1>12, <1>13, <1>14, <1>15, <1>16 DEF Next, JobStep


\* Every step keeps the types; the handler needs sources with a range to
\* compute that of its target, and a publishing consumer a generation.
LEMMA TypeStep ==
  ASSUME BaseInv, [Next]_vars
  PROVE  TypeOK'
<1> DEFINE Catalog == row \in [Pack -> Rows] /\ nextSeq \in Nat \ {0} /\ packset \in Nat
           Tokens == /\ rlease \in Push \cup {None} /\ clease \in Leases
                     /\ readLease \in SUBSET Reader /\ h \in Handlers
                     /\ snap \in [Reader -> Snaps] /\ faults \in Nat
           Bucket == /\ data \in [Pack -> SUBSET Push] /\ manifests \in SUBSET Generations
                     /\ index \in Nat \cup {-1} /\ received \in SUBSET Push
                     /\ pending \in Generations \cup {NoGeneration}
           Queue == deletes \in SUBSET Deletes /\ del \in DelStates
           Rest == Catalog /\ Tokens /\ Bucket /\ Queue
<1>0. TypeOK /\ (\A c \in Cmp : JobOK(c)) /\ HandlerOK /\ RangesBounded
  BY DEF BaseInv
<1>00. Rest
  BY <1>0 DEF TypeOK
<1> SUFFICES Rest'
  BY FlagsStep, JobTypesStep, <1>0 DEF TypeOK
<1>1. ASSUME NEW p \in Push, BeginReceive(p) \/ AbandonReceive(p) \/ FinishReceive(p)
      PROVE  Rest'
  BY <1>00, <1>1 DEF BeginReceive, AbandonReceive, FinishReceive, store, history
<1>2. ASSUME NEW p \in Push, ActivateReceived(p)
      PROVE  Rest'
  BY <1>00, <1>2 DEF ActivateReceived, Rows, Pack
<1>3. ASSUME RequestCompaction \/ ClearCompactionRequest
      PROVE  Rest'
  BY <1>00, <1>3 DEF RequestCompaction, ClearCompactionRequest, store, history
<1>4. ASSUME NEW c \in Cmp, StartJob(c) \/ GetPending(c) \/ ReadIndex(c) \/ BeginBusy(c)
             \/ BeginNoWork(c) \/ RewriteFails(c) \/ ClearBlockedRequest(c)
      PROVE  Rest'
  BY <1>00, <1>4 DEF StartJob, GetPending, ReadIndex, BeginBusy, BeginNoWork, RewriteFails,
     ClearBlockedRequest, repo, store, history
<1>5. ASSUME NEW c \in Cmp, EnsurePending(c)
      PROVE  Rest'
  <2>1. pending' \in Generations \cup {NoGeneration}
    BY <1>00, <1>5 DEF EnsurePending, Generations, Active
  <2> QED BY <1>00, <1>5, <2>1 DEF EnsurePending, store, history
<1>6. ASSUME NEW c \in Cmp, PutManifest(c) \/ CasIndex(c)
      PROVE  Rest'
  <2>1. job[c].pub \in Generations
    BY <1>0, <1>6 DEF TypeOK, Jobs, JobOK, Publishing, PutManifest, CasIndex
  <2>2. manifests' \in SUBSET Generations
    BY <1>00, <1>6, <2>1 DEF PutManifest, CasIndex
  <2>3. job[c].pub.gen \in Nat
    BY <2>1 DEF Generations
  <2>4. index' \in Nat \cup {-1}
    BY <1>00, <1>6, <2>3 DEF PutManifest, CasIndex, Advance
  <2> QED BY <1>00, <1>6, <2>2, <2>4 DEF PutManifest, CasIndex, repo, history
<1>7. ASSUME NEW c \in Cmp, CompletePublication(c)
      PROVE  Rest'
  BY <1>00, <1>7 DEF CompletePublication, store, history
<1>8. ASSUME NEW c \in Cmp, AbortCompaction(c) \/ CommitCompaction(c) \/ BeginCompaction(c)
      PROVE  Rest'
  <2>1. clease' \in Leases /\ h' \in Handlers
    <3>1. CASE AbortCompaction(c)
      BY <1>00, <3>1 DEF AbortCompaction, Leases
    <3>2. CASE CommitCompaction(c)
      BY <1>00, <3>2 DEF CommitCompaction, Leases, Handlers
    <3>3. CASE BeginCompaction(c)
      BY <1>00, <3>3 DEF BeginCompaction, Leases
    <3> QED BY <1>8, <3>1, <3>2, <3>3
  <2> QED BY <1>00, <1>8, <2>1 DEF AbortCompaction, CommitCompaction, BeginCompaction, store, history
<1>9. ASSUME NEW c \in Cmp, StageTarget(c) \/ CleanupStaged(c)
      PROVE  Rest'
  <2>1. job[c].src \subseteq Pack
    BY <1>0 DEF TypeOK, Jobs
  <2>2. data' \in [Pack -> SUBSET Push]
    BY <1>00, <1>9, <2>1 DEF StageTarget, CleanupStaged
  <2> QED BY <1>00, <1>9, <2>2 DEF StageTarget, CleanupStaged, repo, history
<1>10. ASSUME NEW c \in Cmp, Sweep(c)
       PROVE  Rest'
  <2>1. job[c].version \in Nat \cup {-1}
    BY <1>0 DEF TypeOK, Jobs
  <2>2. deletes' \in SUBSET Deletes
    BY <1>00, <1>10, <2>1 DEF Sweep, Deletes, Superseded
  <2> QED BY <1>00, <1>10, <2>2 DEF Sweep, repo, store, history
<1>11. ASSUME UpsertTarget
       PROVE  Rest'
  <2>1. h.token \in Cmp /\ job[h.token].src \subseteq Active /\ job[h.token].src # {}
    BY <1>0, <1>11 DEF UpsertTarget, HandlerOK, TypeOK, Handlers, Idle
  <2>2. MinLo(job[h.token].src) \in Nat /\ MaxHi(job[h.token].src) \in Nat
    BY <1>0, <2>1, RangeOfSources
  <2>3. job[h.token].tier \in Nat
    BY <1>0, <2>1 DEF TypeOK, Jobs
  <2>4. row' \in [Pack -> Rows]
    BY <1>00, <1>11, <2>1, <2>2, <2>3 DEF UpsertTarget, Rows, Pack
  <2>5. h' \in Handlers
    BY <1>00, <1>11, <2>1 DEF UpsertTarget, Goto, Handlers, Idle
  <2> QED BY <1>00, <1>11, <2>4, <2>5 DEF UpsertTarget, store, history
<1>12. ASSUME SupersedeSources
       PROVE  Rest'
  <2>1. h' \in Handlers
    BY <1>00, <1>12 DEF SupersedeSources, Goto, Handlers, Idle
  <2>2. row' \in [Pack -> Rows]
    BY <1>00, <1>12 DEF SupersedeSources, Rows
  <2> QED BY <1>00, <1>12, <2>1, <2>2 DEF SupersedeSources, store, history
<1>13. ASSUME BumpPackset \/ WriteMarker \/ ScheduleNext \/ ReleaseCompaction
       PROVE  Rest'
  <2>1. h' \in Handlers /\ clease' \in Leases
    BY <1>00, <1>13 DEF BumpPackset, WriteMarker, ScheduleNext, ReleaseCompaction, Goto, Handlers,
       Idle, Leases
  <2>2. pending' \in Generations \cup {NoGeneration}
    BY <1>00, <1>13 DEF BumpPackset, WriteMarker, ScheduleNext, ReleaseCompaction, Generations, Active
  <2> QED BY <1>00, <1>13, <2>1, <2>2 DEF BumpPackset, WriteMarker, ScheduleNext,
             ReleaseCompaction, store, history
<1>14. ASSUME DeleteStep
       PROVE  Rest'
  <2>1. CASE DeliverDelete \/ CheckReaders \/ ClaimSuperseded
    <3>1. del' \in DelStates
      BY <1>00, <2>1 DEF DeliverDelete, CheckReaders, ClaimSuperseded, DelStates, NoDelete, Deletes,
         Superseded
    <3> QED BY <1>00, <2>1, <3>1 DEF DeliverDelete, CheckReaders, ClaimSuperseded, repo, store, history
  <2>2. CASE ErasePacks
    BY <1>00, <2>2 DEF ErasePacks, DelStates, NoDelete, repo, history
  <2>3. CASE RemoveRows
    BY <1>00, <2>3 DEF RemoveRows, DelStates, NoDelete, Rows, NoRow, store, history
  <2> QED BY <1>14, <2>1, <2>2, <2>3 DEF DeleteStep
<1>15. ASSUME NEW r \in Reader, BeginRead(r) \/ LoadCatalog(r) \/ EndRead(r)
       PROVE  Rest'
  <2>1. snap' \in [Reader -> Snaps]
    <3>1. [on |-> TRUE, keys |-> Active] \in Snaps /\ NotReading \in Snaps
      BY DEF Snaps, NotReading, Active
    <3> QED BY <1>00, <1>15, <3>1 DEF BeginRead, LoadCatalog, EndRead
  <2> QED BY <1>00, <1>15, <2>1 DEF BeginRead, LoadCatalog, EndRead, repo, store, history
<1>16. ASSUME CommitCallFails
       PROVE  Rest'
  BY <1>00, <1>16 DEF CommitCallFails, Handlers, repo, store
<1>17. ASSUME CompactLeaseExpires
       PROVE  Rest'
  <2>1. clease' \in Leases
    <3>1. ~NoLease.live
      BY DEF NoLease
    <3>2. clease \in [token : Cmp, live : BOOLEAN]
      BY <1>00, <1>17, <3>1, Zenon DEF CompactLeaseExpires, Leases
    <3> QED BY <1>17, <3>2 DEF CompactLeaseExpires, Leases
  <2> QED BY <1>00, <1>17, <2>1 DEF CompactLeaseExpires, store, history
<1>18. ASSUME UNCHANGED vars
       PROVE  Rest'
  BY <1>00, <1>18 DEF vars
<1> QED
  BY <1>1, <1>2, <1>3, <1>4, <1>5, <1>6, <1>7, <1>8, <1>9, <1>10, <1>11, <1>12, <1>13, <1>14,
     <1>15, <1>16, <1>17, <1>18
     DEF Next, JobStep, CommitStep


------------------------------------------------------------------------------
(* Consumers and the handler *)

\* Every step keeps what is said of each consumer.
LEMMA JobsStep ==
  ASSUME NoCatch, BaseInv, [Next]_vars
  PROVE  \A c \in Cmp : JobOK(c)'
<1>0. TypeOK /\ (\A c \in Cmp : JobOK(c)) /\ HandlerOK
  BY DEF BaseInv
<1>a. job \in [Cmp -> Jobs] /\ h \in Handlers /\ None \notin Cmp
  BY <1>0, PackAssumption DEF TypeOK
<1>1. CASE job' = job /\ h'.token = h.token
  BY <1>0, <1>1 DEF JobOK
<1>2. ASSUME NEW c \in Cmp, StartJob(c) \/ ReadIndex(c) \/ BeginBusy(c) \/ BeginNoWork(c)
             \/ RewriteFails(c) \/ AbortCompaction(c) \/ ClearBlockedRequest(c)
             \/ CleanupStaged(c) \/ Sweep(c) \/ CasIndex(c) \/ StageTarget(c)
      PROVE  \A d \in Cmp : JobOK(d)'
  <2>1. PICK x : job' = [job EXCEPT ![c].pc = x]
    BY <1>2 DEF StartJob, ReadIndex, BeginBusy, BeginNoWork, RewriteFails, AbortCompaction,
       ClearBlockedRequest, CleanupStaged, Sweep, CasIndex, StageTarget
  <2>2. /\ job[c].pc # "committing" /\ x # "committing"
        /\ x \in Publishing => job[c].pc \in Publishing
        /\ x \in {"rewrite", "staged"} => job[c].pc \in {"rewrite", "staged"}
        /\ job[c].version # -1 => x \in PostCommit
        /\ h' = h
    <3> USE <1>0, <1>a, <2>1 DEF JobOK, Jobs, PostCommit, Publishing
    <3>0. job'[c].pc = x /\ job[c].next \in {"begin", "sweep", "done"}
      OBVIOUS
    <3>1. CASE StartJob(c) \/ ReadIndex(c)
      <4>1. CASE StartJob(c)
        BY <4>1 DEF StartJob
      <4>2. CASE ReadIndex(c)
        <5>1. job[c].pc = "read" /\ x \in {job[c].next, "ensure"} /\ h' = h
          BY <3>0, <4>2 DEF ReadIndex
        <5> QED BY <3>0, <5>1
      <4> QED BY <3>1, <4>1, <4>2
    <3>2. CASE BeginBusy(c) \/ BeginNoWork(c) \/ RewriteFails(c)
      BY <3>0, <3>2 DEF BeginBusy, BeginNoWork, RewriteFails
    <3>3. CASE AbortCompaction(c) \/ ClearBlockedRequest(c) \/ CleanupStaged(c)
      <4>1. /\ job[c].pc \in {"abort", "blocked", "clearing", "discard", "error"}
            /\ x \in {"done", "clearing", "sweep", "abort"} /\ h' = h
        <5>1. CASE AbortCompaction(c)
          BY <3>0, <5>1 DEF AbortCompaction
        <5>2. CASE ClearBlockedRequest(c)
          BY <3>0, <5>2 DEF ClearBlockedRequest
        <5>3. CASE CleanupStaged(c)
          BY <3>0, <5>3 DEF CleanupStaged
        <5> QED BY <3>3, <5>1, <5>2, <5>3
      <4> QED BY <4>1
    <3>4. CASE Sweep(c) \/ CasIndex(c) \/ StageTarget(c)
      BY <3>0, <3>4 DEF Sweep, CasIndex, StageTarget
    <3> QED BY <1>2, <3>1, <3>2, <3>3, <3>4
  <2> QED BY <1>0, <1>a, <2>1, <2>2 DEF JobOK, Jobs
<1>3. ASSUME NEW c \in Cmp, GetPending(c) \/ EnsurePending(c)
      PROVE  \A d \in Cmp : JobOK(d)'
  <2>1. pending'.gen \in Nat => pending' # NoGeneration
    BY DEF NoGeneration
  <2>2. packset \in Nat
    BY <1>0 DEF TypeOK
  <2> QED BY <1>0, <1>a, <1>3, <2>1, <2>2 DEF JobOK, GetPending, EnsurePending, Jobs,
             PostCommit, Publishing
<1>4. ASSUME NEW c \in Cmp, PutManifest(c) \/ CompletePublication(c)
      PROVE  \A d \in Cmp : JobOK(d)'
  BY <1>0, <1>a, <1>4 DEF JobOK, PutManifest, CompletePublication, AfterFailure, Jobs,
     PostCommit, Publishing
<1>5. ASSUME NEW c \in Cmp, BeginCompaction(c)
      PROVE  \A d \in Cmp : JobOK(d)'
  <2>1. PICK S \in SUBSET Active :
          /\ IsPlan(S)
          /\ job' = [job EXCEPT ![c].pc = "rewrite", ![c].src = S,
                                ![c].packset = packset,
                                ![c].tier = row[CHOOSE k \in S : TRUE].tier + 1]
    BY <1>5 DEF BeginCompaction
  <2>2. S # {}
    BY <2>1, FS_EmptySet, SizeAssumption DEF IsPlan
  <2>3. c \notin Active
    BY <1>5, PackAssumption DEF BaseInv, RowsLanded, Landed, Active, BeginCompaction, JobOK,
       PostCommit
  <2> QED BY <1>0, <1>a, <1>5, <2>1, <2>2, <2>3 DEF JobOK, BeginCompaction, Jobs, Publishing,
             PostCommit
<1>6. ASSUME NEW c \in Cmp, CommitCompaction(c)
      PROVE  \A d \in Cmp : JobOK(d)'
  BY <1>0, <1>a, <1>6 DEF JobOK, CommitCompaction, Jobs, PostCommit, Publishing, Idle
<1>7. ASSUME ReleaseCompaction
      PROVE  \A d \in Cmp : JobOK(d)'
  <2>1. h.token \in Cmp /\ packset \in Nat
    BY <1>0, <1>7 DEF TypeOK, ReleaseCompaction, Handlers, Idle
  <2>2. \A d \in Cmp : d # h.token => job'[d] = job[d] /\ job[d].pc # "committing"
    BY <1>0, <1>a, <1>7, <2>1 DEF ReleaseCompaction, JobOK
  <2>3. job[h.token] \in Jobs
    BY <1>a, <2>1
  <2>4. \/ job[h.token].pc # "committing" /\ job'[h.token] = job[h.token]
        \/ /\ job'[h.token].pc = "pending" /\ job'[h.token].version = packset
           /\ job'[h.token].next \in {"done", "sweep"}
           /\ job'[h.token].src = job[h.token].src
    BY <1>a, <1>7, <2>1, <2>3 DEF ReleaseCompaction, Jobs
  <2> QED BY <1>0, <2>1, <2>2, <2>4 DEF JobOK, Publishing, PostCommit
<1>8. ASSUME CommitCallFails
      PROVE  \A d \in Cmp : JobOK(d)'
  <2>1. h.token \in Cmp
    BY <1>0, <1>8 DEF TypeOK, CommitCallFails, Handlers
  <2> QED BY <1>0, <1>a, <1>8, <2>1 DEF JobOK, CommitCallFails, Jobs, HandlerOK, PostCommit,
             Publishing, Idle
<1>9. ASSUME NEW p \in Push, BeginReceive(p) \/ AbandonReceive(p) \/ ActivateReceived(p)
             \/ FinishReceive(p)
      PROVE  job' = job /\ h'.token = h.token
  BY <1>9 DEF BeginReceive, AbandonReceive, ActivateReceived, FinishReceive
<1>10. ASSUME CommitStep, ~ReleaseCompaction
       PROVE  job' = job /\ h'.token = h.token
  BY <1>a, <1>10 DEF CommitStep, UpsertTarget, SupersedeSources, BumpPackset, WriteMarker,
     ScheduleNext, Goto, Handlers, Idle
<1>11. ASSUME DeleteStep
       PROVE  job' = job /\ h'.token = h.token
  BY <1>11 DEF DeleteStep, DeliverDelete, CheckReaders, ClaimSuperseded, ErasePacks, RemoveRows
<1>12. ASSUME NEW r \in Reader, BeginRead(r) \/ LoadCatalog(r) \/ EndRead(r)
       PROVE  job' = job /\ h'.token = h.token
  BY <1>12 DEF BeginRead, LoadCatalog, EndRead
<1>13. ASSUME RequestCompaction \/ ClearCompactionRequest \/ CompactLeaseExpires \/ UNCHANGED vars
       PROVE  job' = job /\ h'.token = h.token
  BY <1>13 DEF RequestCompaction, ClearCompactionRequest, CompactLeaseExpires, vars
<1> QED
  BY <1>1, <1>2, <1>3, <1>4, <1>5, <1>6, <1>7, <1>8, <1>9, <1>10, <1>11, <1>12, <1>13
     DEF Next, JobStep


\* While the object runs no handler, the steps of others leave the handler alone;
\* while it runs one, they leave the catalog, the leases and the plan alone.
LEMMA HandlerAlone ==
  ASSUME BaseInv, [Next]_vars, ~CommitStep, ~CommitCallFails
  PROVE  \/ h' = h
         \/ /\ h = Idle
            /\ \E c \in Cmp : CommitCompaction(c) /\ CommitAllowed(c) /\ h' = [token |-> c, pc |-> "upsert"]
<1>1. ASSUME NEW c \in Cmp, JobStep(c), ~CommitCompaction(c)
      PROVE  h' = h
  BY <1>1 DEF JobStep, StartJob, GetPending, ReadIndex, EnsurePending, PutManifest, CasIndex,
     CompletePublication, BeginNoWork, BeginBusy, BeginCompaction, StageTarget, RewriteFails,
     AbortCompaction, ClearBlockedRequest, CleanupStaged, Sweep
<1>2. ASSUME NEW c \in Cmp, CommitCompaction(c)
      PROVE  h' = h \/ (h = Idle /\ CommitAllowed(c) /\ h' = [token |-> c, pc |-> "upsert"])
  BY <1>2 DEF CommitCompaction
<1>3. ASSUME NEW p \in Push, BeginReceive(p) \/ AbandonReceive(p) \/ ActivateReceived(p)
             \/ FinishReceive(p)
      PROVE  h' = h
  BY <1>3 DEF BeginReceive, AbandonReceive, ActivateReceived, FinishReceive
<1>4. ASSUME DeleteStep
      PROVE  h' = h
  BY <1>4 DEF DeleteStep, DeliverDelete, CheckReaders, ClaimSuperseded, ErasePacks, RemoveRows
<1>5. ASSUME NEW r \in Reader, BeginRead(r) \/ LoadCatalog(r) \/ EndRead(r)
      PROVE  h' = h
  BY <1>5 DEF BeginRead, LoadCatalog, EndRead
<1>6. ASSUME RequestCompaction \/ ClearCompactionRequest \/ CompactLeaseExpires \/ UNCHANGED vars
      PROVE  h' = h
  BY <1>6 DEF RequestCompaction, ClearCompactionRequest, CompactLeaseExpires, vars
<1> QED BY <1>1, <1>2, <1>3, <1>4, <1>5, <1>6 DEF Next

\* While a handler runs, the steps of others change neither the catalog nor the
\* leases' holders, neither the packset nor the request, and no marker.
LEMMA HandlerExclusive ==
  ASSUME BaseInv, [Next]_vars, ~CommitStep, ~CommitCallFails, h # Idle
  PROVE  /\ h' = h
         /\ UNCHANGED <<row, nextSeq, packset, rlease, pending, wanted, withdrawn, received>>
         /\ clease'.token = clease.token
         /\ deletes' = deletes
         /\ UNCHANGED <<job[h.token].src, job[h.token].tier, job[h.token].pc, job[h.token].version>>
<1>0. TypeOK /\ HandlerOK
  BY DEF BaseInv
<1>a. job \in [Cmp -> Jobs] /\ h.token \in Cmp /\ job[h.token].pc \in {"committing", "done"}
  BY <1>0 DEF TypeOK, Handlers, HandlerOK
<1> DEFINE Same ==
      /\ h' = h
      /\ UNCHANGED <<row, nextSeq, packset, rlease, pending, wanted, withdrawn, received>>
      /\ clease'.token = clease.token
      /\ deletes' = deletes
<1>1. ASSUME NEW c \in Cmp, JobStep(c)
      PROVE  Same /\ job'[h.token] = job[h.token]
  <2>1. CASE StartJob(c) \/ ReadIndex(c) \/ RewriteFails(c)
    BY <1>a, <2>1 DEF StartJob, ReadIndex, RewriteFails, repo, store, history
  <2>2. CASE PutManifest(c) \/ CasIndex(c) \/ StageTarget(c) \/ CleanupStaged(c)
    BY <1>a, <2>2 DEF PutManifest, CasIndex, StageTarget, CleanupStaged, repo, store, history
  <2> QED BY <1>1, <2>1, <2>2 DEF JobStep, GetPending, EnsurePending, CompletePublication,
             BeginNoWork, BeginBusy, BeginCompaction, AbortCompaction, ClearBlockedRequest,
             CommitCompaction, Sweep
<1>2. ASSUME DeleteStep
      PROVE  Same /\ job' = job
  BY <1>2 DEF DeleteStep, DeliverDelete, CheckReaders, ClaimSuperseded, ErasePacks, RemoveRows,
     repo, store, history
<1>3. ASSUME NEW r \in Reader, BeginRead(r) \/ LoadCatalog(r) \/ EndRead(r)
      PROVE  Same /\ job' = job
  BY <1>3 DEF BeginRead, LoadCatalog, EndRead, repo, store, history
<1>4. ASSUME CompactLeaseExpires
      PROVE  Same /\ job' = job
  BY <1>0, <1>4 DEF CompactLeaseExpires, store, history, TypeOK, Leases, NoLease
<1>5. ASSUME UNCHANGED vars
      PROVE  Same /\ job' = job
  BY <1>5 DEF vars
<1>6. ASSUME NEW p \in Push, BeginReceive(p) \/ AbandonReceive(p) \/ ActivateReceived(p)
             \/ FinishReceive(p)
      PROVE  FALSE
  BY <1>6 DEF BeginReceive, AbandonReceive, ActivateReceived, FinishReceive
<1>7. ASSUME RequestCompaction \/ ClearCompactionRequest
      PROVE  FALSE
  BY <1>7 DEF RequestCompaction, ClearCompactionRequest
<1> QED BY <1>1, <1>2, <1>3, <1>4, <1>5, <1>6, <1>7 DEF Next


\* The handler keeps its lease and its sources until it has superseded them.
LEMMA HandlerStep ==
  ASSUME NoCatch, BaseInv, [Next]_vars
  PROVE  HandlerOK'
<1>0. TypeOK /\ HandlerOK /\ (\A c \in Cmp : JobOK(c)) /\ RowsLanded
  BY DEF BaseInv
<1>a. job \in [Cmp -> Jobs] /\ h \in Handlers /\ None \notin Cmp
  BY <1>0, PackAssumption DEF TypeOK
<1>1. CASE CommitStep
  <2>1. h # Idle /\ h.token \in Cmp
    BY <1>a, <1>1 DEF CommitStep, UpsertTarget, SupersedeSources, BumpPackset, WriteMarker,
       ScheduleNext, ReleaseCompaction, Handlers, Idle
  <2>2. CASE UpsertTarget
    <3>1. h'.token = h.token /\ h'.pc = "supersede" /\ job' = job
      BY <1>a, <2>1, <2>2 DEF UpsertTarget, Goto, Handlers
    <3>2. Active \subseteq Active'
      BY <1>0, <2>1, <2>2 DEF UpsertTarget, Active, TypeOK, Pack
    <3> QED BY <1>0, <2>1, <2>2, <3>1, <3>2 DEF HandlerOK, UpsertTarget
  <2>3. CASE SupersedeSources \/ BumpPackset \/ WriteMarker \/ ScheduleNext
    <3>1. h'.token = h.token /\ h'.pc \notin {"upsert", "supersede"} /\ job' = job
      BY <1>a, <2>1, <2>3 DEF SupersedeSources, BumpPackset, WriteMarker, ScheduleNext, Goto, Handlers
    <3> QED BY <1>0, <2>1, <2>3, <3>1 DEF HandlerOK, SupersedeSources, BumpPackset, WriteMarker,
               ScheduleNext
  <2>4. CASE ReleaseCompaction
    BY <2>4 DEF ReleaseCompaction, HandlerOK
  <2> QED BY <1>1, <2>2, <2>3, <2>4 DEF CommitStep
<1>2. CASE CommitCallFails
  <2>1. h.token \in Cmp
    BY <1>a, <1>2 DEF CommitCallFails, Handlers
  <2>2. row' = row /\ Active' = Active
    BY <1>2, SameRows DEF CommitCallFails, repo
  <2>3. job'[h.token].pc = "done" /\ job'[h.token].src = job[h.token].src
        /\ job'[h.token].version = job[h.token].version
    <3>1. CatchRuns = FALSE
      BY <1>0, <1>2, CatchIdle
    <3>2. job' = [job EXCEPT ![h.token].pc = "done"]
      BY <1>2, <3>1 DEF CommitCallFails
    <3> QED BY <1>a, <2>1, <3>2 DEF Jobs
  <2> QED BY <1>0, <1>2, <2>1, <2>2, <2>3 DEF CommitCallFails, HandlerOK, repo
<1>3. CASE ~CommitStep /\ ~CommitCallFails /\ h # Idle
  <2>1. Active' = Active
    BY <1>3, HandlerExclusive, SameRows
  <2> QED BY <1>0, <1>3, <2>1, HandlerExclusive DEF HandlerOK
<1>4. CASE ~CommitStep /\ ~CommitCallFails /\ h = Idle /\ h' # Idle
  <2>1. PICK c \in Cmp : CommitCompaction(c) /\ CommitAllowed(c) /\ h' = [token |-> c, pc |-> "upsert"]
    BY <1>4, HandlerAlone
  <2>2. row' = row /\ Active' = Active
    BY <2>1, SameRows DEF CommitCompaction
  <2>3. job'[c].pc = "committing" /\ job'[c].src = job[c].src /\ job'[c].version = job[c].version
    BY <1>a, <2>1 DEF CommitCompaction, Jobs
  <2>4. job[c].version = -1 /\ job[c].src # {}
    BY <1>0, <2>1 DEF JobOK, CommitCompaction, PostCommit
  <2> QED BY <2>1, <2>2, <2>3, <2>4 DEF HandlerOK, CommitCompaction, CommitAllowed
<1> QED BY <1>1, <1>2, <1>3, <1>4 DEF HandlerOK

\* A consumer that rewrites, stages or discards has not landed; nor has a push
\* before its activation.
LEMMA NotLanded ==
  ASSUME BaseInv, NEW c \in Cmp,
         job[c].pc \in {"idle", "begin", "rewrite", "blocked", "clearing", "staged",
                        "discard", "error", "abort"}
  PROVE  ~Landed(c)
BY PackAssumption DEF BaseInv, JobOK, Landed, PostCommit

\* What has landed stays so.
LEMMA LandedStable ==
  ASSUME NoCatch, BaseInv, [Next]_vars, NEW k \in Pack, Landed(k)
  PROVE  Landed(k)'
<1>0. TypeOK /\ HandlerOK /\ (\A c \in Cmp : JobOK(c))
  BY DEF BaseInv
<1>a. job \in [Cmp -> Jobs] /\ h \in Handlers /\ None \notin Cmp
  BY <1>0, PackAssumption DEF TypeOK
<1>1. CASE k \in Push
  <2>1. received \subseteq received'
    <3>1. ASSUME NEW p \in Push, BeginReceive(p) \/ AbandonReceive(p) \/ ActivateReceived(p)
                 \/ FinishReceive(p)
          PROVE  received \subseteq received'
      BY <3>1 DEF BeginReceive, AbandonReceive, ActivateReceived, FinishReceive, history
    <3>2. ASSUME NEW c \in Cmp, JobStep(c)
          PROVE  received' = received
      BY <3>2 DEF JobStep, StartJob, GetPending, ReadIndex, EnsurePending, PutManifest, CasIndex,
         CompletePublication, BeginNoWork, BeginBusy, BeginCompaction, StageTarget, RewriteFails,
         AbortCompaction, ClearBlockedRequest, CommitCompaction, CleanupStaged, Sweep, history
    <3>3. ASSUME CommitStep \/ DeleteStep \/ RequestCompaction \/ ClearCompactionRequest
                 \/ CompactLeaseExpires \/ CommitCallFails \/ UNCHANGED vars
          PROVE  received' = received
      BY <3>3 DEF CommitStep, UpsertTarget, SupersedeSources, BumpPackset, WriteMarker,
         ScheduleNext, ReleaseCompaction, DeleteStep, DeliverDelete, CheckReaders,
         ClaimSuperseded, ErasePacks, RemoveRows, RequestCompaction, ClearCompactionRequest,
         CompactLeaseExpires, CommitCallFails, vars, history
    <3>4. ASSUME NEW r \in Reader, BeginRead(r) \/ LoadCatalog(r) \/ EndRead(r)
          PROVE  received' = received
      BY <3>4 DEF BeginRead, LoadCatalog, EndRead, history
    <3> QED BY <3>1, <3>2, <3>3, <3>4 DEF Next
  <2> QED BY <1>1, <2>1 DEF Landed
<1>2. CASE k \notin Push
  <2>0. k \in Cmp /\ (job[k].version # -1 \/ job[k].pc \in {"committing", "done"})
    BY <1>2 DEF Landed, Pack
  <2>1. ~(h.token = k /\ h.pc = "upsert")
    BY <1>2 DEF Landed
  <2>2. CASE CommitStep
    <3>1. h.token \in Cmp /\ h'.pc # "upsert"
      BY <1>a, <2>2 DEF CommitStep, UpsertTarget, SupersedeSources, BumpPackset, WriteMarker,
         ScheduleNext, ReleaseCompaction, Handlers, Idle, Goto
    <3>2. CASE ReleaseCompaction
      <4>1. CASE k = h.token /\ job[k].pc = "committing"
        <5>1. job'[k].version = packset /\ packset \in Nat
          BY <1>0, <1>a, <3>1, <3>2, <4>1 DEF ReleaseCompaction, TypeOK, Jobs
        <5> QED BY <1>2, <3>1, <5>1 DEF Landed
      <4>2. CASE ~(k = h.token /\ job[k].pc = "committing")
        <5>1. job'[k] = job[k]
          BY <1>a, <2>0, <3>1, <3>2, <4>2 DEF ReleaseCompaction
        <5> QED BY <1>2, <2>0, <3>1, <5>1 DEF Landed
      <4> QED BY <4>1, <4>2
    <3>3. CASE ~ReleaseCompaction
      <4>1. job' = job
        BY <2>2, <3>3 DEF CommitStep, UpsertTarget, SupersedeSources, BumpPackset, WriteMarker,
           ScheduleNext
      <4> QED BY <1>2, <2>0, <3>1, <4>1 DEF Landed
    <3> QED BY <3>2, <3>3
  <2>3. CASE CommitCallFails
    <3>1. h.token \in Cmp /\ h' \in {Idle, h}
      BY <1>a, <2>3 DEF CommitCallFails, Handlers
    <3>2. job'[k].version = job[k].version /\ job'[k].pc \in {job[k].pc, "done"}
      BY <1>a, <2>0, <2>3, <3>1, CatchIdle DEF CommitCallFails, Jobs, BaseInv
    <3> QED BY <1>2, <2>0, <2>1, <3>1, <3>2 DEF Landed, Idle
  <2>4. CASE ~CommitStep /\ ~CommitCallFails
    <3>1. ASSUME NEW c \in Cmp, JobStep(c)
          PROVE  job'[k].version = job[k].version
                 /\ (job[k].pc \in {"committing", "done"} => job'[k].pc = job[k].pc)
      <4>1. CASE StartJob(c) \/ GetPending(c) \/ ReadIndex(c) \/ EnsurePending(c)
        BY <1>a, <2>0, <4>1 DEF StartJob, GetPending, ReadIndex, EnsurePending, Jobs
      <4>2. CASE PutManifest(c) \/ CasIndex(c) \/ CompletePublication(c)
        BY <1>a, <2>0, <4>2 DEF PutManifest, CasIndex, CompletePublication, Jobs
      <4>3. CASE BeginNoWork(c) \/ BeginBusy(c) \/ BeginCompaction(c) \/ StageTarget(c)
        <5>1. CASE BeginCompaction(c)
          BY <1>a, <2>0, <5>1 DEF BeginCompaction, Jobs
        <5>2. CASE ~BeginCompaction(c)
          <6>1. \E x : job' = [job EXCEPT ![c].pc = x] /\ job[c].pc \notin {"committing", "done"}
            BY <4>3, <5>2 DEF BeginNoWork, BeginBusy, StageTarget
          <6> QED BY <1>a, <2>0, <6>1 DEF Jobs
        <5> QED BY <5>1, <5>2
      <4>4. CASE RewriteFails(c) \/ AbortCompaction(c) \/ ClearBlockedRequest(c)
        <5>1. \E x : job' = [job EXCEPT ![c].pc = x] /\ job[c].pc \notin {"committing", "done"}
          BY <4>4 DEF RewriteFails, AbortCompaction, ClearBlockedRequest
        <5> QED BY <1>a, <2>0, <5>1 DEF Jobs
      <4>5. CASE CommitCompaction(c) \/ CleanupStaged(c) \/ Sweep(c)
        <5>1. \E x : job' = [job EXCEPT ![c].pc = x] /\ job[c].pc \notin {"committing", "done"}
          BY <4>5 DEF CommitCompaction, CleanupStaged, Sweep
        <5> QED BY <1>a, <2>0, <5>1 DEF Jobs
      <4> QED BY <3>1, <4>1, <4>2, <4>3, <4>4, <4>5 DEF JobStep
    <3>2. ASSUME ~\E c \in Cmp : JobStep(c)
          PROVE  job' = job
      BY <2>4, <3>2 DEF Next, BeginReceive, AbandonReceive, ActivateReceived, FinishReceive,
         DeleteStep, DeliverDelete, CheckReaders, ClaimSuperseded, ErasePacks, RemoveRows,
         BeginRead, LoadCatalog, EndRead, RequestCompaction, ClearCompactionRequest,
         CompactLeaseExpires, vars
    <3>3. h' = h \/ \E c \in Cmp : CommitCompaction(c) /\ h' = [token |-> c, pc |-> "upsert"]
      BY <2>4, HandlerAlone
    <3>4. \A c \in Cmp : CommitCompaction(c) => ~Landed(c)
      BY NotLanded DEF CommitCompaction
    <3> QED BY <1>2, <2>0, <2>1, <3>1, <3>2, <3>3, <3>4 DEF Landed
  <2> QED BY <2>2, <2>3, <2>4
<1> QED BY <1>1, <1>2


\* Which steps change the catalog: an activation, the first two writes of a
\* commit, and the removal of superseded rows.
LEMMA RowsChange ==
  ASSUME [Next]_vars, row' # row
  PROVE  \/ \E p \in Push : ActivateReceived(p)
         \/ UpsertTarget \/ SupersedeSources \/ RemoveRows
<1>1. ASSUME NEW c \in Cmp, JobStep(c)
      PROVE  row' = row
  BY <1>1 DEF JobStep, StartJob, GetPending, ReadIndex, EnsurePending, PutManifest, CasIndex,
     CompletePublication, BeginNoWork, BeginBusy, BeginCompaction, StageTarget, RewriteFails,
     AbortCompaction, ClearBlockedRequest, CommitCompaction, CleanupStaged, Sweep, repo
<1>2. ASSUME NEW p \in Push, BeginReceive(p) \/ AbandonReceive(p) \/ FinishReceive(p)
      PROVE  row' = row
  BY <1>2 DEF BeginReceive, AbandonReceive, FinishReceive
<1>3. ASSUME BumpPackset \/ WriteMarker \/ ScheduleNext \/ ReleaseCompaction
      PROVE  row' = row
  BY <1>3 DEF BumpPackset, WriteMarker, ScheduleNext, ReleaseCompaction
<1>4. ASSUME DeliverDelete \/ CheckReaders \/ ClaimSuperseded \/ ErasePacks
      PROVE  row' = row
  BY <1>4 DEF DeliverDelete, CheckReaders, ClaimSuperseded, ErasePacks, repo
<1>5. ASSUME NEW r \in Reader, BeginRead(r) \/ LoadCatalog(r) \/ EndRead(r)
      PROVE  row' = row
  BY <1>5 DEF BeginRead, LoadCatalog, EndRead, repo
<1>6. ASSUME RequestCompaction \/ ClearCompactionRequest \/ CompactLeaseExpires
             \/ CommitCallFails \/ UNCHANGED vars
      PROVE  row' = row
  BY <1>6 DEF RequestCompaction, ClearCompactionRequest, CompactLeaseExpires, CommitCallFails,
     vars, repo
<1> QED BY <1>1, <1>2, <1>3, <1>4, <1>5, <1>6 DEF Next, CommitStep, DeleteStep

\* The sequence number moves only with an activation.
LEMMA SeqChange ==
  ASSUME TypeOK, [Next]_vars
  PROVE  nextSeq' \in {nextSeq, nextSeq + 1}
<1>1. ASSUME NEW c \in Cmp, JobStep(c)
      PROVE  nextSeq' = nextSeq
  BY <1>1 DEF JobStep, StartJob, GetPending, ReadIndex, EnsurePending, PutManifest, CasIndex,
     CompletePublication, BeginNoWork, BeginBusy, BeginCompaction, StageTarget, RewriteFails,
     AbortCompaction, ClearBlockedRequest, CommitCompaction, CleanupStaged, Sweep, repo
<1>2. ASSUME NEW p \in Push, BeginReceive(p) \/ AbandonReceive(p) \/ FinishReceive(p)
             \/ ActivateReceived(p)
      PROVE  nextSeq' \in {nextSeq, nextSeq + 1}
  BY <1>2 DEF BeginReceive, AbandonReceive, FinishReceive, ActivateReceived
<1>3. ASSUME CommitStep \/ DeleteStep \/ RequestCompaction \/ ClearCompactionRequest
             \/ CompactLeaseExpires \/ CommitCallFails \/ UNCHANGED vars
      PROVE  nextSeq' = nextSeq
  BY <1>3 DEF CommitStep, UpsertTarget, SupersedeSources, BumpPackset, WriteMarker,
     ScheduleNext, ReleaseCompaction, DeleteStep, DeliverDelete, CheckReaders,
     ClaimSuperseded, ErasePacks, RemoveRows, RequestCompaction, ClearCompactionRequest,
     CompactLeaseExpires, CommitCallFails, vars, repo
<1>4. ASSUME NEW r \in Reader, BeginRead(r) \/ LoadCatalog(r) \/ EndRead(r)
      PROVE  nextSeq' = nextSeq
  BY <1>4 DEF BeginRead, LoadCatalog, EndRead, repo
<1> QED BY <1>1, <1>2, <1>3, <1>4 DEF Next

\* What a commit's first write does to the catalog.
LEMMA UpsertRow ==
  ASSUME BaseInv, UpsertTarget, NEW c \in Cmp, c = h.token
  PROVE  /\ row'[c].state = "active" /\ row'[c].tier = job[c].tier
         /\ row'[c].lo = MinLo(job[c].src) /\ row'[c].hi = MaxHi(job[c].src)
         /\ \A k \in Pack : k # c => row'[k] = row[k]
         /\ Active' = Active \cup {c}
         /\ job[c].src # {} /\ job[c].src \subseteq Active
         /\ h'.token = c /\ h'.pc = "supersede" /\ job' = job
<1>1. row \in [Pack -> Rows] /\ c \in Pack /\ h \in Handlers
  BY DEF BaseInv, TypeOK, Pack
<1>2. row' = [row EXCEPT ![c] = [state |-> "active", tier |-> job[c].tier,
                                 lo |-> MinLo(job[c].src), hi |-> MaxHi(job[c].src)]]
  BY DEF UpsertTarget
<1>3. /\ row'[c].state = "active" /\ row'[c].tier = job[c].tier
      /\ row'[c].lo = MinLo(job[c].src) /\ row'[c].hi = MaxHi(job[c].src)
      /\ \A k \in Pack : k # c => row'[k] = row[k]
  BY <1>1, <1>2
<1>4. Active' = Active \cup {c}
  BY <1>1, <1>3 DEF Active
<1>5. job[c].src # {} /\ job[c].src \subseteq Active
  BY DEF BaseInv, HandlerOK, UpsertTarget, Idle
<1>6. h'.token = c /\ h'.pc = "supersede" /\ job' = job
  BY <1>1 DEF UpsertTarget, Goto, Handlers, Idle
<1> QED BY <1>3, <1>4, <1>5, <1>6

\* What its second write does.
LEMMA SupersedeRows ==
  ASSUME BaseInv, SupersedeSources, NEW c \in Cmp, c = h.token
  PROVE  /\ Active' = Active \ job[c].src
         /\ \A k \in Pack : k \notin job[c].src => row'[k] = row[k]
         /\ \A k \in job[c].src : k \in Active /\ row'[k].state = "superseded"
         /\ h'.token = c /\ h'.pc = "bump" /\ job' = job
<1>1. row \in [Pack -> Rows] /\ c \in Pack /\ h \in Handlers
  BY DEF BaseInv, TypeOK, Pack
<1>2. row' = [k \in Pack |-> IF k \in job[c].src
                            THEN [row[k] EXCEPT !.state = "superseded"] ELSE row[k]]
  BY DEF SupersedeSources, Sources
<1>3. job[c].src \subseteq Active
  BY DEF BaseInv, HandlerOK, SupersedeSources, Idle
<1>4. /\ \A k \in Pack : k \notin job[c].src => row'[k] = row[k]
      /\ \A k \in job[c].src : row'[k].state = "superseded"
  BY <1>1, <1>2, <1>3 DEF Active, Rows
<1>5. Active' = Active \ job[c].src
  BY <1>4 DEF Active
<1>6. h'.token = c /\ h'.pc = "bump" /\ job' = job
  BY <1>1 DEF SupersedeSources, Goto, Handlers, Idle
<1> QED BY <1>3, <1>4, <1>5, <1>6


\* An activation adds one pack, the newest.
LEMMA ActivateRow ==
  ASSUME BaseInv, NEW p \in Push, ActivateReceived(p)
  PROVE  /\ row'[p].state = "active" /\ row'[p].tier = 0
         /\ row'[p].lo = nextSeq /\ row'[p].hi = nextSeq
         /\ \A k \in Pack : k # p => row'[k] = row[k]
         /\ Active' = Active \cup {p}
         /\ p \notin Active /\ ~Landed(p)
         /\ data'[p] = {p} /\ \A k \in Pack : k # p => data'[k] = data[k]
<1>1. row \in [Pack -> Rows] /\ p \in Pack /\ data \in [Pack -> SUBSET Push]
  BY DEF BaseInv, TypeOK, Pack
<1>2. /\ row'[p].state = "active" /\ row'[p].tier = 0
      /\ row'[p].lo = nextSeq /\ row'[p].hi = nextSeq
      /\ \A k \in Pack : k # p => row'[k] = row[k]
      /\ data'[p] = {p} /\ \A k \in Pack : k # p => data'[k] = data[k]
  BY <1>1 DEF ActivateReceived
<1>3. Active' = Active \cup {p}
  BY <1>1, <1>2 DEF Active
<1>4. ~Landed(p)
  BY DEF ActivateReceived, Landed
<1>5. p \notin Active
  BY <1>4 DEF Active, BaseInv, RowsLanded
<1> QED BY <1>2, <1>3, <1>4, <1>5

\* The removal of rows concerns superseded ones only.
LEMMA RemoveInactive ==
  ASSUME TypeOK, RemoveRows
  PROVE  /\ Active' = Active
         /\ \A k \in Active : row'[k] = row[k]
         /\ \A k \in Pack : row'[k].state # "none" => row'[k] = row[k]
<1>1. \A k \in Pack : row'[k] = row[k] \/ (k \notin Active /\ row'[k] = NoRow)
  BY DEF RemoveRows, TypeOK
<1> QED BY <1>1 DEF Active, NoRow

\* Every step keeps the ranges below the next sequence number.
LEMMA RangesStep ==
  ASSUME BaseInv, [Next]_vars
  PROVE  RangesBounded'
<1>0. TypeOK /\ RangesBounded /\ nextSeq \in Nat
  BY DEF BaseInv, TypeOK
<1>a. \A k \in Pack : row[k].lo \in Nat /\ row[k].hi \in Nat
  BY <1>0 DEF TypeOK, Rows
<1>b. Active \subseteq Pack
  BY DEF Active
<1>1. CASE row' = row
  BY <1>0, <1>a, <1>b, <1>1, SeqChange, SameRows DEF RangesBounded
<1>2. ASSUME NEW p \in Push, ActivateReceived(p)
      PROVE  RangesBounded'
  <2>1. nextSeq' = nextSeq + 1
    BY <1>2 DEF ActivateReceived
  <2> QED BY <1>0, <1>a, <1>b, <1>2, <2>1, ActivateRow DEF RangesBounded
<1>3. CASE UpsertTarget
  <2>1. PICK c \in Cmp : c = h.token
    BY <1>0, <1>3 DEF UpsertTarget, TypeOK, Handlers, Idle
  <2>2. /\ row'[c].lo = MinLo(job[c].src) /\ row'[c].hi = MaxHi(job[c].src)
        /\ \A k \in Pack : k # c => row'[k] = row[k]
        /\ Active' = Active \cup {c}
        /\ job[c].src # {} /\ job[c].src \subseteq Active
    BY <1>3, <2>1, UpsertRow
  <2>3. /\ \A k \in job[c].src : MinLo(job[c].src) <= row[k].lo /\ row[k].hi <= MaxHi(job[c].src)
        /\ \E k \in job[c].src : MaxHi(job[c].src) = row[k].hi
        /\ MinLo(job[c].src) \in Nat /\ MaxHi(job[c].src) \in Nat
    BY <1>0, <2>2, RangeOfSources
  <2>4. row'[c].lo <= row'[c].hi /\ row'[c].hi < nextSeq
    BY <1>0, <1>a, <1>b, <2>2, <2>3 DEF RangesBounded
  <2>5. nextSeq' = nextSeq
    BY <1>3 DEF UpsertTarget
  <2> QED BY <1>0, <1>b, <2>2, <2>4, <2>5 DEF RangesBounded
<1>4. CASE SupersedeSources
  <2>1. PICK c \in Cmp : c = h.token
    BY <1>0, <1>4 DEF SupersedeSources, TypeOK, Handlers, Idle
  <2>2. nextSeq' = nextSeq
    BY <1>4 DEF SupersedeSources
  <2> QED BY <1>0, <1>b, <1>4, <2>1, <2>2, SupersedeRows DEF RangesBounded
<1>5. CASE RemoveRows
  <2>1. nextSeq' = nextSeq
    BY <1>5 DEF RemoveRows
  <2> QED BY <1>0, <1>5, <2>1, RemoveInactive DEF RangesBounded
<1> QED BY <1>1, <1>2, <1>3, <1>4, <1>5, RowsChange

\* Every step keeps rows and sources among the packs that have landed.
LEMMA LandedStep ==
  ASSUME NoCatch, BaseInv, [Next]_vars
  PROVE  RowsLanded'
<1>0. TypeOK /\ RowsLanded
  BY DEF BaseInv
<1>a. \A k \in Pack : Landed(k) => Landed(k)'
  BY LandedStable
<1>1. \A k \in Pack : row'[k].state # "none" => Landed(k)'
  <2>1. CASE row' = row
    BY <1>0, <1>a, <2>1 DEF RowsLanded
  <2>2. ASSUME NEW p \in Push, ActivateReceived(p)
        PROVE  \A k \in Pack : row'[k].state # "none" => Landed(k)'
    <3>1. Landed(p)'
      BY <2>2 DEF ActivateReceived, Landed
    <3> QED BY <1>0, <1>a, <2>2, <3>1, ActivateRow DEF RowsLanded
  <2>3. CASE UpsertTarget
    <3>1. PICK c \in Cmp : c = h.token
      BY <1>0, <2>3 DEF UpsertTarget, TypeOK, Handlers, Idle
    <3>2. c \notin Push /\ job[c].pc \in {"committing", "done"}
      BY <2>3, <3>1, PackAssumption DEF BaseInv, HandlerOK, UpsertTarget, Idle
    <3>3. h'.pc = "supersede" /\ job' = job /\ \A k \in Pack : k # c => row'[k] = row[k]
      BY <2>3, <3>1, UpsertRow
    <3>4. Landed(c)'
      BY <3>2, <3>3 DEF Landed
    <3> QED BY <1>0, <1>a, <3>3, <3>4 DEF RowsLanded
  <2>4. CASE SupersedeSources
    <3>1. PICK c \in Cmp : c = h.token
      BY <1>0, <2>4 DEF SupersedeSources, TypeOK, Handlers, Idle
    <3>2. \A k \in job[c].src : Landed(k)
      BY <1>0 DEF RowsLanded
    <3> QED BY <1>0, <1>a, <2>4, <3>1, <3>2, SupersedeRows DEF RowsLanded
  <2>5. CASE RemoveRows
    BY <1>0, <1>a, <2>5, RemoveInactive DEF RowsLanded
  <2> QED BY <2>1, <2>2, <2>3, <2>4, <2>5, RowsChange
<1>2. ASSUME NEW c \in Cmp, NEW k \in job'[c].src
      PROVE  Landed(k)'
  <2>0. job \in [Cmp -> Jobs] /\ job[c].src \subseteq Pack /\ h \in Handlers
    BY <1>0 DEF TypeOK, Jobs
  <2>1. CASE job'[c].src = job[c].src
    BY <1>0, <1>2, <1>a, <2>0, <2>1 DEF RowsLanded
  <2>2. ASSUME NEW d \in Cmp, BeginCompaction(d)
        PROVE  Landed(k)'
    <3>1. PICK S \in SUBSET Active :
            job' = [job EXCEPT ![d].pc = "rewrite", ![d].src = S,
                               ![d].packset = packset,
                               ![d].tier = row[CHOOSE x \in S : TRUE].tier + 1]
      BY <2>2 DEF BeginCompaction
    <3>2. job'[c].src \in {job[c].src, S}
      BY <2>0, <3>1 DEF Jobs
    <3>3. CASE k \in S
      BY <1>0, <1>a, <3>3 DEF RowsLanded, Active
    <3> QED BY <1>2, <2>1, <3>2, <3>3
  <2>3. ASSUME ~\E d \in Cmp : BeginCompaction(d)
        PROVE  job'[c].src = job[c].src
    <3>1. ASSUME NEW d \in Cmp, JobStep(d), ~BeginCompaction(d)
          PROVE  job'[c].src = job[c].src
      <4>1. CASE GetPending(d) \/ EnsurePending(d)
        BY <2>0, <4>1 DEF GetPending, EnsurePending, Jobs
      <4>2. CASE PutManifest(d) \/ CompletePublication(d)
        BY <2>0, <4>2 DEF PutManifest, CompletePublication, Jobs
      <4>3. CASE ~GetPending(d) /\ ~EnsurePending(d) /\ ~PutManifest(d) /\ ~CompletePublication(d)
        <5>1. \E x : job' = [job EXCEPT ![d].pc = x]
          BY <3>1, <4>3 DEF JobStep, StartJob, ReadIndex, CasIndex, BeginNoWork, BeginBusy,
             StageTarget, RewriteFails, AbortCompaction, ClearBlockedRequest, CommitCompaction,
             CleanupStaged, Sweep
        <5> QED BY <2>0, <5>1 DEF Jobs
      <4> QED BY <4>1, <4>2, <4>3
    <3>2. CASE ReleaseCompaction
      <4>1. h.token \in Cmp
        BY <2>0, <3>2 DEF ReleaseCompaction, Handlers, Idle
      <4> QED BY <2>0, <3>2, <4>1 DEF ReleaseCompaction, Jobs
    <3>3. CASE CommitCallFails
      <4>1. h.token \in Cmp
        BY <2>0, <3>3 DEF CommitCallFails, Handlers
      <4> QED BY <2>0, <3>3, <4>1 DEF CommitCallFails, Jobs
    <3>4. ASSUME ~ReleaseCompaction, ~CommitCallFails, ~\E d \in Cmp : JobStep(d)
          PROVE  job' = job
      BY <3>4 DEF Next, BeginReceive, AbandonReceive, ActivateReceived, FinishReceive,
         CommitStep, UpsertTarget, SupersedeSources, BumpPackset, WriteMarker, ScheduleNext,
         DeleteStep, DeliverDelete, CheckReaders, ClaimSuperseded, ErasePacks, RemoveRows,
         BeginRead, LoadCatalog, EndRead, RequestCompaction, ClearCompactionRequest,
         CompactLeaseExpires, vars
    <3> QED BY <2>3, <3>1, <3>2, <3>3, <3>4
  <2> QED BY <2>1, <2>2, <2>3
<1> QED BY <1>1, <1>2 DEF RowsLanded

\* The first layer is inductive.
LEMMA BaseInit ==
  ASSUME Init
  PROVE  BaseInv
<1>1. TypeOK
  <2>1. NewJob \in Jobs
    BY DEF NewJob, Jobs
  <2>2. wanted \in BOOLEAN /\ withdrawn \in BOOLEAN /\ torn \in BOOLEAN
    BY Zenon DEF Init
  <2>3. row \in [Pack -> Rows] /\ job \in [Cmp -> Jobs] /\ snap \in [Reader -> Snaps]
    BY <2>1 DEF Init, Rows, NoRow, Snaps, NotReading
  <2> QED BY <2>2, <2>3 DEF Init, TypeOK, Leases, Handlers, DelStates, NoDelete
<1>2. \A c \in Cmp : JobOK(c)
  BY DEF Init, JobOK, NewJob, Publishing
<1>3. HandlerOK /\ RangesBounded /\ RowsLanded
  BY DEF Init, HandlerOK, RangesBounded, RowsLanded, Active, NoRow, NewJob
<1> QED BY <1>1, <1>2, <1>3 DEF BaseInv

\* The first layer is kept by every step.
LEMMA BaseStep ==
  ASSUME NoCatch, BaseInv, [Next]_vars
  PROVE  BaseInv'
BY TypeStep, JobsStep, HandlerStep, RangesStep, LandedStep DEF BaseInv


------------------------------------------------------------------------------
(* What the packs hold *)

\* Only an activation receives a push.
LEMMA ReceivedChange ==
  ASSUME [Next]_vars, \A p \in Push : ~ActivateReceived(p)
  PROVE  received' = received
<1>1. ASSUME NEW p \in Push, BeginReceive(p) \/ AbandonReceive(p) \/ FinishReceive(p)
      PROVE  received' = received
  BY <1>1 DEF BeginReceive, AbandonReceive, FinishReceive, history
<1>2. ASSUME NEW c \in Cmp, JobStep(c)
      PROVE  received' = received
  BY <1>2 DEF JobStep, StartJob, GetPending, ReadIndex, EnsurePending, PutManifest, CasIndex,
     CompletePublication, BeginNoWork, BeginBusy, BeginCompaction, StageTarget, RewriteFails,
     AbortCompaction, ClearBlockedRequest, CommitCompaction, CleanupStaged, Sweep, history
<1>3. ASSUME CommitStep \/ DeleteStep \/ RequestCompaction \/ ClearCompactionRequest
             \/ CompactLeaseExpires \/ CommitCallFails \/ UNCHANGED vars
      PROVE  received' = received
  BY <1>3 DEF CommitStep, UpsertTarget, SupersedeSources, BumpPackset, WriteMarker,
     ScheduleNext, ReleaseCompaction, DeleteStep, DeliverDelete, CheckReaders,
     ClaimSuperseded, ErasePacks, RemoveRows, RequestCompaction, ClearCompactionRequest,
     CompactLeaseExpires, CommitCallFails, vars, history
<1>4. ASSUME NEW r \in Reader, BeginRead(r) \/ LoadCatalog(r) \/ EndRead(r)
      PROVE  received' = received
  BY <1>4 DEF BeginRead, LoadCatalog, EndRead, history
<1> QED BY <1>1, <1>2, <1>3, <1>4 DEF Next

\* Who writes to the bucket under the key of a pack: the receive of the push, the
\* consumer the pack is named after, and the deletion.
LEMMA DataChange ==
  ASSUME BaseInv, [Next]_vars, NEW k \in Pack, data'[k] # data[k]
  PROVE  \/ k \in Push /\ ActivateReceived(k)
         \/ k \in Cmp /\ (StageTarget(k) \/ CleanupStaged(k))
         \/ ErasePacks /\ k \in del.keys /\ data'[k] = {}
<1>0. data \in [Pack -> SUBSET Push]
  BY DEF BaseInv, TypeOK
<1>1. ASSUME NEW p \in Push, BeginReceive(p) \/ AbandonReceive(p) \/ FinishReceive(p)
      PROVE  data' = data
  BY <1>1 DEF BeginReceive, AbandonReceive, FinishReceive, store
<1>2. ASSUME NEW p \in Push, ActivateReceived(p)
      PROVE  p = k
  BY <1>2, ActivateRow
<1>3. ASSUME NEW c \in Cmp, JobStep(c), ~StageTarget(c), ~CleanupStaged(c)
      PROVE  data' = data
  BY <1>3 DEF JobStep, StartJob, GetPending, ReadIndex, EnsurePending, PutManifest, CasIndex,
     CompletePublication, BeginNoWork, BeginBusy, BeginCompaction, RewriteFails,
     AbortCompaction, ClearBlockedRequest, CommitCompaction, Sweep, store
<1>4. ASSUME NEW c \in Cmp, StageTarget(c) \/ CleanupStaged(c)
      PROVE  c = k
  BY <1>0, <1>4 DEF StageTarget, CleanupStaged, Pack
<1>5. ASSUME CommitStep \/ RequestCompaction \/ ClearCompactionRequest
             \/ CompactLeaseExpires \/ CommitCallFails \/ UNCHANGED vars
      PROVE  data' = data
  BY <1>5 DEF CommitStep, UpsertTarget, SupersedeSources, BumpPackset, WriteMarker,
     ScheduleNext, ReleaseCompaction, RequestCompaction, ClearCompactionRequest,
     CompactLeaseExpires, CommitCallFails, vars, store
<1>6. ASSUME DeleteStep, ~ErasePacks
      PROVE  data' = data
  BY <1>6 DEF DeleteStep, DeliverDelete, CheckReaders, ClaimSuperseded, RemoveRows, store
<1>7. ASSUME ErasePacks
      PROVE  k \in del.keys /\ data'[k] = {}
  BY <1>0, <1>7 DEF ErasePacks
<1>8. ASSUME NEW r \in Reader, BeginRead(r) \/ LoadCatalog(r) \/ EndRead(r)
      PROVE  data' = data
  BY <1>8 DEF BeginRead, LoadCatalog, EndRead, store
<1> QED BY <1>1, <1>2, <1>3, <1>4, <1>5, <1>6, <1>7, <1>8 DEF Next

\* A landed pack keeps its objects until a deletion that names it erases it.
LEMMA LandedData ==
  ASSUME BaseInv, [Next]_vars, NEW k \in Pack, Landed(k)
  PROVE  \/ data'[k] = data[k]
         \/ ErasePacks /\ k \in del.keys /\ data'[k] = {}
<1>1. k \in Push => ~ActivateReceived(k)
  BY DEF Landed, ActivateReceived
<1>2. k \in Cmp => ~StageTarget(k) /\ ~CleanupStaged(k)
  BY NotLanded DEF StageTarget, CleanupStaged
<1> QED BY <1>1, <1>2, DataChange

\* A pack that landed and is not active is never activated again.
LEMMA NotActiveAgain ==
  ASSUME BaseInv, [Next]_vars, NEW k \in Pack, Landed(k), k \notin Active
  PROVE  k \notin Active'
<1>1. CASE row' = row
  BY <1>1, SameRows
<1>2. ASSUME NEW p \in Push, ActivateReceived(p)
      PROVE  k \notin Active'
  BY <1>2, ActivateRow
<1>3. CASE UpsertTarget
  <2>1. PICK c \in Cmp : c = h.token
    BY <1>3 DEF UpsertTarget, BaseInv, TypeOK, Handlers, Idle
  <2>2. ~Landed(c)
    BY <1>3, <2>1, PackAssumption DEF Landed, UpsertTarget
  <2> QED BY <1>3, <2>1, <2>2, UpsertRow
<1>4. CASE SupersedeSources
  <2>1. PICK c \in Cmp : c = h.token
    BY <1>4 DEF SupersedeSources, BaseInv, TypeOK, Handlers, Idle
  <2> QED BY <1>4, <2>1, SupersedeRows
<1>5. CASE RemoveRows
  BY <1>5, RemoveInactive DEF BaseInv
<1> QED BY <1>1, <1>2, <1>3, <1>4, <1>5, RowsChange

\* A deletion message names the packs that are superseded when it is sent.
LEMMA DeletesChange ==
  ASSUME [Next]_vars, NEW m \in deletes'
  PROVE  m \in deletes \/ (m.keys = Superseded /\ h = Idle)
<1>1. ASSUME NEW p \in Push, BeginReceive(p) \/ AbandonReceive(p) \/ FinishReceive(p)
             \/ ActivateReceived(p)
      PROVE  deletes' = deletes
  BY <1>1 DEF BeginReceive, AbandonReceive, FinishReceive, ActivateReceived
<1>2. ASSUME NEW c \in Cmp, JobStep(c), ~Sweep(c)
      PROVE  deletes' = deletes
  BY <1>2 DEF JobStep, StartJob, GetPending, ReadIndex, EnsurePending, PutManifest, CasIndex,
     CompletePublication, BeginNoWork, BeginBusy, BeginCompaction, StageTarget, RewriteFails,
     AbortCompaction, ClearBlockedRequest, CommitCompaction, CleanupStaged
<1>3. ASSUME NEW c \in Cmp, Sweep(c)
      PROVE  m \in deletes \/ (m.keys = Superseded /\ h = Idle)
  BY <1>3 DEF Sweep
<1>4. ASSUME CommitStep \/ DeleteStep \/ RequestCompaction \/ ClearCompactionRequest
             \/ CompactLeaseExpires \/ CommitCallFails \/ UNCHANGED vars
      PROVE  deletes' = deletes
  BY <1>4 DEF CommitStep, UpsertTarget, SupersedeSources, BumpPackset, WriteMarker,
     ScheduleNext, ReleaseCompaction, DeleteStep, DeliverDelete, CheckReaders,
     ClaimSuperseded, ErasePacks, RemoveRows, RequestCompaction, ClearCompactionRequest,
     CompactLeaseExpires, CommitCallFails, vars
<1>5. ASSUME NEW r \in Reader, BeginRead(r) \/ LoadCatalog(r) \/ EndRead(r)
      PROVE  deletes' = deletes
  BY <1>5 DEF BeginRead, LoadCatalog, EndRead
<1> QED BY <1>1, <1>2, <1>3, <1>4, <1>5 DEF Next

\* The running deletion takes its packs from a message and loses some on the way;
\* the packs of a delivered message are in no published generation.
LEMMA DelChange ==
  ASSUME TypeOK, [Next]_vars
  PROVE  \/ del' = del
         \/ /\ DeleteStep
            /\ del'.keys \subseteq del.keys
            /\ del'.pc = "claim" => NoReaders
            /\ del'.pc \in {"erase", "remove"} => del.pc \in {"claim", "erase", "remove"}
         \/ /\ del'.pc = "fence"
            /\ \E m \in deletes : Deletable(m) /\ del'.keys = m.keys
            /\ UNCHANGED <<row, data, manifests, index, job, h, pending, torn, snap>>
<1>1. ASSUME NEW p \in Push, BeginReceive(p) \/ AbandonReceive(p) \/ FinishReceive(p)
             \/ ActivateReceived(p)
      PROVE  del' = del
  BY <1>1 DEF BeginReceive, AbandonReceive, FinishReceive, ActivateReceived
<1>2. ASSUME NEW c \in Cmp, JobStep(c)
      PROVE  del' = del
  BY <1>2 DEF JobStep, StartJob, GetPending, ReadIndex, EnsurePending, PutManifest, CasIndex,
     CompletePublication, BeginNoWork, BeginBusy, BeginCompaction, StageTarget, RewriteFails,
     AbortCompaction, ClearBlockedRequest, CommitCompaction, CleanupStaged, Sweep
<1>3. ASSUME CommitStep \/ RequestCompaction \/ ClearCompactionRequest
             \/ CompactLeaseExpires \/ CommitCallFails \/ UNCHANGED vars
      PROVE  del' = del
  BY <1>3 DEF CommitStep, UpsertTarget, SupersedeSources, BumpPackset, WriteMarker,
     ScheduleNext, ReleaseCompaction, RequestCompaction, ClearCompactionRequest,
     CompactLeaseExpires, CommitCallFails, vars
<1>4. ASSUME NEW r \in Reader, BeginRead(r) \/ LoadCatalog(r) \/ EndRead(r)
      PROVE  del' = del
  BY <1>4 DEF BeginRead, LoadCatalog, EndRead
<1>5. ASSUME DeliverDelete
      PROVE  /\ del'.pc = "fence"
             /\ \E m \in deletes : Deletable(m) /\ del'.keys = m.keys
             /\ UNCHANGED <<row, data, manifests, index, job, h, pending, torn, snap>>
  BY <1>5 DEF DeliverDelete, repo, store, history
<1>6. ASSUME CheckReaders \/ ClaimSuperseded \/ ErasePacks \/ RemoveRows
      PROVE  /\ del'.keys \subseteq del.keys
             /\ del'.pc = "claim" => NoReaders
             /\ del'.pc \in {"erase", "remove"} => del.pc \in {"claim", "erase", "remove"}
  BY <1>6 DEF TypeOK, DelStates, CheckReaders, ClaimSuperseded, ErasePacks, RemoveRows, NoDelete
<1> QED BY <1>1, <1>2, <1>3, <1>4, <1>5, <1>6 DEF Next, DeleteStep


\* Deletions keep naming packs that landed and are not active.
LEMMA DeletesStep ==
  ASSUME NoCatch, BaseInv, DataInv, [Next]_vars
  PROVE  DeletesOK'
<1>0. TypeOK /\ RowsLanded /\ DeletesOK
  BY DEF BaseInv, DataInv
<1>a. \A k \in Pack : Landed(k) /\ k \notin Active => Landed(k)' /\ k \notin Active'
  BY LandedStable, NotActiveAgain
<1>b. \A k \in Superseded : Landed(k) /\ k \notin Active /\ k \in Pack
  BY <1>0 DEF Superseded, Active, RowsLanded
<1>c. /\ \A m \in deletes : m.keys \subseteq Pack
      /\ del.keys \subseteq Pack
  BY <1>0 DEF TypeOK, Deletes, DelStates
<1>1. ASSUME NEW m \in deletes', NEW k \in m.keys
      PROVE  Landed(k)' /\ k \notin Active'
  <2>1. k \in Pack /\ Landed(k) /\ k \notin Active
    BY <1>0, <1>1, <1>b, <1>c, DeletesChange DEF DeletesOK
  <2> QED BY <1>a, <2>1
<1>2. ASSUME NEW k \in del'.keys
      PROVE  Landed(k)' /\ k \notin Active'
  <2>1. k \in Pack /\ Landed(k) /\ k \notin Active
    BY <1>0, <1>2, <1>c, DelChange DEF DeletesOK
  <2> QED BY <1>a, <2>1
<1> QED BY <1>1, <1>2 DEF DeletesOK

\* An active pack keeps its objects.
LEMMA ActiveData ==
  ASSUME BaseInv, DataInv, [Next]_vars, NEW k \in Active
  PROVE  data'[k] = data[k]
<1>1. k \in Pack /\ Landed(k) /\ k \notin del.keys
  BY DEF BaseInv, RowsLanded, Active, DataInv, DeletesOK
<1> QED BY <1>1, LandedData

\* The sources of a commit stay until its marker is written.
LEMMA SourcesStep ==
  ASSUME NoCatch, BaseInv, DataInv, [Next]_vars
  PROVE  SourcesKept'
<1>0. TypeOK /\ HandlerOK /\ RowsLanded /\ DeletesOK /\ SourcesKept
  BY DEF BaseInv, DataInv
<1>a. job \in [Cmp -> Jobs] /\ h \in Handlers
  BY <1>0 DEF TypeOK
<1>b. ASSUME NEW c \in Cmp, NEW k \in job[c].src,
             data[k] # {}, k \notin del.keys, \A m \in deletes : k \notin m.keys,
             deletes' = deletes
      PROVE  /\ data'[k] # {} /\ k \notin del'.keys /\ \A m \in deletes' : k \notin m.keys
  <2>1. k \in Pack /\ Landed(k)
    BY <1>0, <1>a DEF RowsLanded, Jobs
  <2>2. data'[k] = data[k]
    BY <1>b, <2>1, LandedData
  <2>3. k \notin del'.keys
    BY <1>0, <1>b, DelChange
  <2> QED BY <1>b, <2>2, <2>3
<1>1. CASE CommitStep
  <2>1. h.token \in Cmp
    BY <1>a, <1>1 DEF CommitStep, UpsertTarget, SupersedeSources, BumpPackset, WriteMarker,
       ScheduleNext, ReleaseCompaction, Handlers, Idle
  <2>2. CASE UpsertTarget \/ SupersedeSources \/ BumpPackset
    <3>1. h'.token = h.token /\ job' = job /\ deletes' = deletes
          /\ h.pc \in {"upsert", "supersede", "bump"}
      <4>1. CASE UpsertTarget
        BY <1>a, <2>1, <4>1 DEF UpsertTarget, Goto, Handlers
      <4>2. CASE SupersedeSources
        BY <1>a, <2>1, <4>2 DEF SupersedeSources, Goto, Handlers
      <4>3. CASE BumpPackset
        BY <1>a, <2>1, <4>3 DEF BumpPackset, Goto, Handlers
      <4> QED BY <2>2, <4>1, <4>2, <4>3
    <3> QED BY <1>0, <1>b, <2>1, <3>1 DEF SourcesKept
  <2>3. CASE WriteMarker \/ ScheduleNext \/ ReleaseCompaction
    <3>1. h'.pc \notin {"upsert", "supersede", "bump", "marker"}
      BY <1>a, <2>1, <2>3 DEF WriteMarker, ScheduleNext, ReleaseCompaction, Goto, Handlers, Idle
    <3> QED BY <3>1 DEF SourcesKept
  <2> QED BY <1>1, <2>2, <2>3 DEF CommitStep
<1>2. CASE CommitCallFails
  <2>1. h.token \in Cmp /\ deletes' = deletes /\ h' \in {Idle, h}
    BY <1>a, <1>2 DEF CommitCallFails, Handlers
  <2>2. job'[h.token].src = job[h.token].src
    BY <1>a, <1>2, <2>1 DEF CommitCallFails, Jobs
  <2> QED BY <1>0, <1>b, <2>1, <2>2 DEF SourcesKept, Idle
<1>3. CASE ~CommitStep /\ ~CommitCallFails /\ h # Idle
  <2>1. h.token \in Cmp /\ h' = h /\ deletes' = deletes /\ job'[h.token].src = job[h.token].src
    BY <1>a, <1>3, HandlerExclusive DEF Handlers
  <2> QED BY <1>0, <1>b, <2>1 DEF SourcesKept
<1>4. CASE ~CommitStep /\ ~CommitCallFails /\ h = Idle /\ h' # h
  <2>1. PICK c \in Cmp : CommitCompaction(c) /\ CommitAllowed(c) /\ h' = [token |-> c, pc |-> "upsert"]
    BY <1>4, HandlerAlone
  <2>2. deletes' = deletes /\ job'[c].src = job[c].src
    BY <1>a, <2>1 DEF CommitCompaction, Jobs
  <2>3. \A k \in job[c].src : data[k] # {} /\ k \notin del.keys /\ \A m \in deletes : k \notin m.keys
    BY <1>0, <2>1 DEF CommitAllowed, DeletesOK, DataInv, ActiveStored, Stored
  <2> QED BY <1>b, <2>1, <2>2, <2>3 DEF SourcesKept
<1>5. CASE h' = h /\ h = Idle
  BY <1>5 DEF SourcesKept, Idle
<1> QED BY <1>1, <1>2, <1>3, <1>4, <1>5

\* Only the staging of its target brings a consumer to where it may commit.
LEMMA StagedChange ==
  ASSUME BaseInv, [Next]_vars, NEW c \in Cmp, job'[c].pc = "staged", ~StageTarget(c)
  PROVE  job[c].pc = "staged" /\ job'[c].src = job[c].src
<1>0. TypeOK /\ JobOK(c)
  BY DEF BaseInv
<1>a. job \in [Cmp -> Jobs] /\ h \in Handlers /\ job[c] \in Jobs
  BY <1>0 DEF TypeOK
<1>1. ASSUME NEW d \in Cmp, d # c, JobStep(d)
      PROVE  job'[c] = job[c]
  BY <1>a, <1>1 DEF JobStep, StartJob, GetPending, ReadIndex, EnsurePending, PutManifest, CasIndex,
     CompletePublication, BeginNoWork, BeginBusy, BeginCompaction, StageTarget, RewriteFails,
     AbortCompaction, ClearBlockedRequest, CommitCompaction, CleanupStaged, Sweep
<1>2. CASE JobStep(c)
  <2>1. CASE StartJob(c) \/ GetPending(c) \/ ReadIndex(c) \/ EnsurePending(c)
    BY <1>a, <2>1 DEF StartJob, GetPending, ReadIndex, EnsurePending, Jobs
  <2>2. CASE PutManifest(c) \/ CasIndex(c) \/ CompletePublication(c)
    BY <1>a, <2>2 DEF PutManifest, CasIndex, CompletePublication, AfterFailure, Jobs
  <2>3. CASE BeginCompaction(c)
    BY <1>a, <2>3 DEF BeginCompaction, Jobs
  <2>4. CASE BeginNoWork(c) \/ BeginBusy(c) \/ RewriteFails(c)
    BY <1>a, <2>4 DEF BeginNoWork, BeginBusy, RewriteFails, Jobs
  <2>5. CASE AbortCompaction(c) \/ ClearBlockedRequest(c) \/ CommitCompaction(c)
        \/ CleanupStaged(c) \/ Sweep(c)
    <3>1. \E x \in {"done", "clearing", "sweep", "committing", "discard", "abort"} :
            job' = [job EXCEPT ![c].pc = x]
      BY <2>5 DEF AbortCompaction, ClearBlockedRequest, CommitCompaction, CleanupStaged, Sweep
    <3> QED BY <1>a, <3>1 DEF Jobs
  <2> QED BY <1>2, <2>1, <2>2, <2>3, <2>4, <2>5 DEF JobStep
<1>3. CASE ReleaseCompaction
  <2>1. h.token \in Cmp
    BY <1>a, <1>3 DEF ReleaseCompaction, Handlers, Idle
  <2> QED BY <1>a, <1>3, <2>1 DEF ReleaseCompaction, Jobs
<1>4. CASE CommitCallFails
  <2>1. h.token \in Cmp /\ job[h.token].pc \in {"committing", "done"}
    BY <1>a, <1>4 DEF CommitCallFails, Handlers, BaseInv, HandlerOK
  <2>2. CASE c = h.token
    <3>1. job'[c].pc \in {"error", "done"}
      BY <1>a, <1>4, <2>1, <2>2 DEF CommitCallFails, Jobs
    <3> QED BY <3>1
  <2>3. CASE c # h.token
    BY <1>a, <1>4, <2>1, <2>3 DEF CommitCallFails, Jobs
  <2> QED BY <2>2, <2>3
<1>5. ASSUME ~ReleaseCompaction, ~CommitCallFails, ~\E d \in Cmp : JobStep(d)
      PROVE  job' = job
  BY <1>5 DEF Next, BeginReceive, AbandonReceive, ActivateReceived, FinishReceive,
     CommitStep, UpsertTarget, SupersedeSources, BumpPackset, WriteMarker, ScheduleNext,
     DeleteStep, DeliverDelete, CheckReaders, ClaimSuperseded, ErasePacks, RemoveRows,
     BeginRead, LoadCatalog, EndRead, RequestCompaction, ClearCompactionRequest,
     CompactLeaseExpires, vars
<1> QED BY <1>1, <1>2, <1>3, <1>4, <1>5

\* A target keeps what it took over, until its sources are superseded.
LEMMA TargetsStep ==
  ASSUME NoCatch, BaseInv, DataInv, [Next]_vars
  PROVE  /\ \A c \in Cmp : job'[c].pc = "staged" => TargetHolds(c)'
         /\ h'.pc \in {"upsert", "supersede"} => TargetHolds(h.token)'
         /\ h'.pc = "supersede" => h'.token \in Active'
<1>0. TypeOK /\ HandlerOK /\ RowsLanded /\ DeletesOK /\ \A c \in Cmp : JobOK(c)
  BY DEF BaseInv, DataInv
<1>a. job \in [Cmp -> Jobs] /\ h \in Handlers /\ data \in [Pack -> SUBSET Push]
  BY <1>0 DEF TypeOK
<1>b. ASSUME NEW c \in Cmp, TargetHolds(c), data'[c] = data[c], job'[c].src = job[c].src
      PROVE  data'[c] # {} /\ \A k \in job'[c].src : data'[k] \subseteq data'[c]
  <2>1. \A k \in job[c].src : k \in Pack /\ Landed(k)
    BY <1>0, <1>a DEF RowsLanded, Jobs
  <2>2. \A k \in job[c].src : data'[k] \in {data[k], {}}
    BY <2>1, LandedData
  <2> QED BY <1>b, <2>2 DEF TargetHolds
<1>1. ASSUME NEW c \in Cmp, job'[c].pc = "staged"
      PROVE  TargetHolds(c)'
  <2>1. CASE StageTarget(c)
    <3>1. data' = [data EXCEPT ![c] = UNION {data[k] : k \in job[c].src}]
          /\ job[c].src \subseteq Stored /\ job'[c].src = job[c].src /\ job[c].src # {}
          /\ c \notin job[c].src
      BY <1>0, <1>a, <2>1 DEF StageTarget, JobOK, Jobs
    <3>2. c \in Pack /\ job[c].src \subseteq Pack
      BY <1>a DEF Pack, Jobs
    <3>3. data'[c] = UNION {data[k] : k \in job[c].src} /\ \A k \in job[c].src : data'[k] = data[k]
      BY <1>a, <3>1, <3>2
    <3>4. data'[c] # {}
      BY <3>1, <3>3 DEF Stored
    <3> QED BY <3>1, <3>3, <3>4 DEF TargetHolds
  <2>2. CASE ~StageTarget(c)
    <3>1. job[c].pc = "staged" /\ job'[c].src = job[c].src
      BY <1>1, <2>2, StagedChange
    <3>2. ~Landed(c) /\ ~CleanupStaged(c)
      BY <3>1, NotLanded DEF CleanupStaged
    <3>3. c \notin Push /\ c \in Pack
      BY PackAssumption DEF Pack
    <3>4. data'[c] = data[c]
      BY <1>0, <2>2, <3>2, <3>3, DataChange DEF DeletesOK
    <3>5. TargetHolds(c)
      BY <3>1 DEF DataInv
    <3> QED BY <1>b, <3>1, <3>4, <3>5 DEF TargetHolds
  <2> QED BY <2>1, <2>2
<1>2. ASSUME h.pc \in {"upsert", "supersede"}
      PROVE  data'[h.token] = data[h.token] /\ TargetHolds(h.token) /\ h.token \in Cmp
  <2>1. h.token \in Cmp /\ h # Idle
    BY <1>a, <1>2 DEF Handlers, Idle
  <2>2. h.token \notin Push /\ h.token \in Pack
    BY <2>1, PackAssumption DEF Pack
  <2>3. ~StageTarget(h.token) /\ ~CleanupStaged(h.token)
    BY <1>0, <2>1 DEF HandlerOK, StageTarget, CleanupStaged
  <2>4. h.token \notin del.keys
    BY <1>0, <1>2, <2>2 DEF DeletesOK, DataInv, Landed
  <2> QED BY <1>2, <2>1, <2>2, <2>3, <2>4, DataChange DEF DataInv
<1>3. h'.pc \in {"upsert", "supersede"} => TargetHolds(h.token)'
  <2>1. CASE h.pc \in {"upsert", "supersede"} /\ h'.token = h.token
             /\ job'[h.token].src = job[h.token].src
    BY <1>2, <1>b, <2>1 DEF TargetHolds
  <2>2. CASE CommitStep
    <3>1. CASE UpsertTarget
      <4>1. h.pc = "upsert" /\ h'.token = h.token /\ job' = job
        BY <1>a, <3>1 DEF UpsertTarget, Goto, Handlers, Idle
      <4> QED BY <2>1, <4>1
    <3>2. CASE ~UpsertTarget
      <4>1. h'.pc \notin {"upsert", "supersede"}
        BY <1>a, <2>2, <3>2 DEF CommitStep, SupersedeSources, BumpPackset, WriteMarker,
           ScheduleNext, ReleaseCompaction, Handlers, Idle, Goto
      <4> QED BY <4>1
    <3> QED BY <3>1, <3>2
  <2>3. CASE CommitCallFails
    <3>1. h.token \in Cmp /\ h' \in {Idle, h}
      BY <1>a, <2>3 DEF CommitCallFails, Handlers
    <3>2. job'[h.token].src = job[h.token].src
      BY <1>a, <2>3, <3>1 DEF CommitCallFails, Jobs
    <3> QED BY <2>1, <3>1, <3>2 DEF Idle
  <2>4. CASE ~CommitStep /\ ~CommitCallFails /\ h # Idle
    <3>1. h' = h /\ job'[h.token].src = job[h.token].src
      BY <2>4, HandlerExclusive
    <3> QED BY <2>1, <3>1
  <2>5. CASE ~CommitStep /\ ~CommitCallFails /\ h = Idle
    <3>1. CASE h' = h
      BY <2>5, <3>1 DEF Idle
    <3>2. CASE h' # h
      <4>1. PICK c \in Cmp : CommitCompaction(c) /\ CommitAllowed(c)
                             /\ h' = [token |-> c, pc |-> "upsert"]
        BY <2>5, <3>2, HandlerAlone
      <4>2. data' = data /\ job'[c].src = job[c].src /\ job[c].pc = "staged"
        BY <1>a, <4>1 DEF CommitCompaction, Jobs, store
      <4>3. TargetHolds(c)
        BY <4>2 DEF DataInv
      <4> QED BY <4>1, <4>2, <4>3 DEF TargetHolds
    <3> QED BY <3>1, <3>2
  <2> QED BY <2>2, <2>3, <2>4, <2>5
<1>4. h'.pc = "supersede" => h'.token \in Active'
  <2>1. CASE UpsertTarget
    <3>1. PICK c \in Cmp : c = h.token
      BY <1>a, <2>1 DEF UpsertTarget, Handlers, Idle
    <3> QED BY <2>1, <3>1, UpsertRow
  <2>2. CASE CommitStep /\ ~UpsertTarget
    BY <1>a, <2>2 DEF CommitStep, SupersedeSources, BumpPackset, WriteMarker,
       ScheduleNext, ReleaseCompaction, Handlers, Idle, Goto
  <2>3. CASE CommitCallFails
    <3>1. h' \in {Idle, h} /\ Active' = Active
      BY <2>3, SameRows DEF CommitCallFails, repo
    <3> QED BY <3>1 DEF DataInv, Idle
  <2>4. CASE ~CommitStep /\ ~CommitCallFails /\ h # Idle
    <3>1. h' = h /\ Active' = Active
      BY <2>4, HandlerExclusive, SameRows
    <3> QED BY <3>1 DEF DataInv
  <2>5. CASE ~CommitStep /\ ~CommitCallFails /\ h = Idle
    BY <2>5, HandlerAlone DEF Idle
  <2> QED BY <2>1, <2>2, <2>3, <2>4, <2>5
<1> QED BY <1>1, <1>3, <1>4


\* Nothing received is lost, and what is served is stored: the target takes over
\* from its sources, and nobody deletes an active pack.
LEMMA ServedStep ==
  ASSUME NoCatch, BaseInv, DataInv, [Next]_vars
  PROVE  NoReceiveLost' /\ ActiveStored'
<1>0. TypeOK /\ NoReceiveLost /\ ActiveStored
  BY DEF BaseInv, DataInv
<1>a. Active \subseteq Pack /\ Active' \subseteq Pack
  BY DEF Active
<1>b. \A k \in Active : data'[k] = data[k] /\ data[k] # {}
  BY <1>0, ActiveData DEF ActiveStored, Stored
<1>1. ASSUME NEW p \in Push, ActivateReceived(p)
      PROVE  NoReceiveLost' /\ ActiveStored'
  <2>1. Active' = Active \cup {p} /\ data'[p] = {p} /\ received' = received \cup {p}
    BY <1>1, ActivateRow DEF ActivateReceived
  <2> QED BY <1>0, <1>a, <1>b, <2>1 DEF NoReceiveLost, ActiveStored, Stored
<1>2. ASSUME \A p \in Push : ~ActivateReceived(p)
      PROVE  NoReceiveLost' /\ ActiveStored'
  <2>0. received' = received
    BY <1>2, ReceivedChange
  <2>1. CASE Active' = Active
    BY <1>0, <1>a, <1>b, <2>0, <2>1 DEF NoReceiveLost, ActiveStored, Stored
  <2>2. CASE UpsertTarget
    <3>1. PICK c \in Cmp : c = h.token
      BY <1>0, <2>2 DEF UpsertTarget, TypeOK, Handlers, Idle
    <3>2. Active' = Active \cup {c} /\ data' = data /\ data[c] # {}
      BY <2>2, <3>1, UpsertRow DEF UpsertTarget, DataInv, TargetHolds, store
    <3> QED BY <1>0, <1>a, <2>0, <3>2 DEF NoReceiveLost, ActiveStored, Stored
  <2>3. CASE SupersedeSources
    <3>1. PICK c \in Cmp : c = h.token
      BY <1>0, <2>3 DEF SupersedeSources, TypeOK, Handlers, Idle
    <3>2. Active' = Active \ job[c].src /\ data' = data
      BY <2>3, <3>1, SupersedeRows DEF SupersedeSources, store
    <3>3. c \in Active /\ TargetHolds(c) /\ c \notin job[c].src
      BY <2>3, <3>1 DEF SupersedeSources, DataInv, BaseInv, JobOK
    <3> QED BY <1>0, <1>a, <2>0, <3>2, <3>3 DEF NoReceiveLost, ActiveStored, Stored, TargetHolds
  <2> QED BY <1>0, <1>2, <2>1, <2>2, <2>3, RowsChange, SameRows, RemoveInactive
<1> QED BY <1>1, <1>2

\* The second layer is inductive.
LEMMA DataInit ==
  ASSUME Init
  PROVE  DataInv
BY DEF Init, DataInv, NoReceiveLost, ActiveStored, Active, NoRow, NewJob, Idle, DeletesOK,
   SourcesKept, NoDelete

\* The second layer is kept by every step.
LEMMA DataStep ==
  ASSUME NoCatch, BaseInv, DataInv, [Next]_vars
  PROVE  DataInv'
BY DeletesStep, SourcesStep, TargetsStep, ServedStep DEF DataInv

------------------------------------------------------------------------------
(* Readers *)

\* Every step keeps what a snapshot relies on: a deletion gets past the fence only
\* when nobody reads, and a later snapshot has active packs only.
LEMMA ReadersStep ==
  ASSUME NoCatch, BaseInv, DataInv, ReadersInv, [Next]_vars
  PROVE  ReadersInv'
<1>0. TypeOK /\ DeletesOK /\ RowsLanded /\ ActiveStored
  BY DEF BaseInv, DataInv
<1>a. snap \in [Reader -> Snaps] /\ Active \subseteq Pack
  BY <1>0 DEF TypeOK, Active
<1> SUFFICES ASSUME NEW r \in Reader
             PROVE  ReaderOK(r)'
  BY DEF ReadersInv
<1>1. ReaderOK(r)
  BY DEF ReadersInv
<1>2. ASSUME NEW q \in Reader, BeginRead(q) \/ LoadCatalog(q) \/ EndRead(q)
      PROVE  ReaderOK(r)'
  <2>0. \A k \in Pack : Landed(k) => Landed(k)'
    BY LandedStable
  <2>1. \A k \in snap[r].keys : Landed(k)' /\ data[k] # {}
    BY <1>a, <1>1, <2>0 DEF ReaderOK, Snaps
  <2>2. data' = data /\ del' = del
    BY <1>2 DEF BeginRead, LoadCatalog, EndRead, store
  <2>3. CASE BeginRead(q)
    BY <1>1, <2>1, <2>2, <2>3 DEF BeginRead, ReaderOK
  <2>4. CASE LoadCatalog(q)
    <3>1. CASE r = q
      <4>1. snap'[r].on /\ snap'[r].keys = Active /\ r \in readLease'
        BY <1>a, <2>4, <3>1 DEF LoadCatalog, repo
      <4>2. \A k \in Active : Landed(k)' /\ data[k] # {} /\ k \notin del.keys
        BY <1>0, <1>a, <2>0 DEF RowsLanded, Active, ActiveStored, Stored, DeletesOK
      <4> QED BY <2>2, <4>1, <4>2 DEF ReaderOK
    <3>2. CASE r # q
      <4>1. snap'[r] = snap[r] /\ readLease' = readLease
        BY <1>a, <2>4, <3>2 DEF LoadCatalog, repo
      <4> QED BY <1>1, <2>1, <2>2, <4>1 DEF ReaderOK
    <3> QED BY <3>1, <3>2
  <2>5. CASE EndRead(q)
    <3>1. CASE r = q
      <4>1. snap'[r] = NotReading
        BY <1>a, <2>5, <3>1 DEF EndRead
      <4> QED BY <4>1 DEF ReaderOK, NotReading
    <3>2. CASE r # q
      <4>1. snap'[r] = snap[r] /\ (r \in readLease => r \in readLease')
        BY <1>a, <2>5, <3>2 DEF EndRead
      <4> QED BY <1>1, <2>1, <2>2, <4>1 DEF ReaderOK
    <3> QED BY <3>1, <3>2
  <2> QED BY <1>2, <2>3, <2>4, <2>5
<1>3. ASSUME snap' = snap, readLease' = readLease
      PROVE  ReaderOK(r)'
  <2>1. ASSUME NEW k \in snap[r].keys
        PROVE  /\ Landed(k)' /\ data'[k] # {}
               /\ del'.pc \in {"claim", "erase", "remove"} => k \notin del'.keys
    <3>1. k \in Pack /\ Landed(k) /\ data[k] # {}
      BY <1>a, <1>1, <2>1 DEF ReaderOK, Snaps
    <3>2. del.pc \in {"claim", "erase", "remove"} => k \notin del.keys
      BY <1>1, <2>1 DEF ReaderOK
    <3>3. data'[k] = data[k]
      BY <3>1, <3>2, LandedData DEF ErasePacks
    <3>4. readLease # {}
      BY <1>1, <2>1 DEF ReaderOK
    <3>5. del'.pc \in {"claim", "erase", "remove"} => k \notin del'.keys
      BY <1>0, <3>2, <3>4, DelChange DEF NoReaders
    <3> QED BY <3>1, <3>3, <3>5, LandedStable
  <2> QED BY <1>1, <1>3, <2>1 DEF ReaderOK
<1>4. ASSUME \A q \in Reader : ~BeginRead(q) /\ ~LoadCatalog(q) /\ ~EndRead(q)
      PROVE  snap' = snap /\ readLease' = readLease
  <2>1. ASSUME NEW p \in Push, BeginReceive(p) \/ AbandonReceive(p) \/ FinishReceive(p)
               \/ ActivateReceived(p)
        PROVE  snap' = snap /\ readLease' = readLease
    BY <2>1 DEF BeginReceive, AbandonReceive, FinishReceive, ActivateReceived
  <2>2. ASSUME NEW c \in Cmp, JobStep(c)
        PROVE  snap' = snap /\ readLease' = readLease
    BY <2>2 DEF JobStep, StartJob, GetPending, ReadIndex, EnsurePending, PutManifest, CasIndex,
       CompletePublication, BeginNoWork, BeginBusy, BeginCompaction, StageTarget, RewriteFails,
       AbortCompaction, ClearBlockedRequest, CommitCompaction, CleanupStaged, Sweep, repo
  <2>3. ASSUME CommitStep \/ DeleteStep \/ RequestCompaction \/ ClearCompactionRequest
               \/ CompactLeaseExpires \/ CommitCallFails \/ UNCHANGED vars
        PROVE  snap' = snap /\ readLease' = readLease
    BY <2>3 DEF CommitStep, UpsertTarget, SupersedeSources, BumpPackset, WriteMarker,
       ScheduleNext, ReleaseCompaction, DeleteStep, DeliverDelete, CheckReaders,
       ClaimSuperseded, ErasePacks, RemoveRows, RequestCompaction, ClearCompactionRequest,
       CompactLeaseExpires, CommitCallFails, vars, repo
  <2> QED BY <1>4, <2>1, <2>2, <2>3 DEF Next
<1> QED BY <1>2, <1>3, <1>4


------------------------------------------------------------------------------
(* Publication *)

\* A consumer publishes the marker it reads or writes, and reaches the index only
\* with its manifest in the bucket, and the end only with the index moved.
LEMMA PubChange ==
  ASSUME BaseInv, [Next]_vars, NEW c \in Cmp
  PROVE  /\ job'[c].pub \in {job[c].pub, NoGeneration, pending'}
         /\ job'[c].pc = "index" =>
              job'[c].pub = job[c].pub /\ (job[c].pc = "index" \/ job[c].pub \in manifests')
         /\ job'[c].pc = "complete" =>
              job'[c].pub = job[c].pub /\ (job[c].pc = "complete" \/ job[c].pub.gen <= index')
<1> DEFINE Goal(x) ==
      /\ x.pub \in {job[c].pub, NoGeneration, pending'}
      /\ x.pc = "index" => x.pub = job[c].pub /\ (job[c].pc = "index" \/ job[c].pub \in manifests')
      /\ x.pc = "complete" =>
           x.pub = job[c].pub /\ (job[c].pc = "complete" \/ job[c].pub.gen <= index')
<1> SUFFICES Goal(job'[c])
  OBVIOUS
<1>0. job \in [Cmp -> Jobs] /\ h \in Handlers /\ job[c] \in Jobs /\ index \in Nat \cup {-1}
  BY DEF BaseInv, TypeOK
<1>a. job[c].next \in {"begin", "sweep", "done"} /\ AfterFailure(c) \in {"idle", "done"}
  BY <1>0 DEF Jobs, AfterFailure
<1>1. CASE job'[c] = job[c]
  BY <1>1
<1>2. ASSUME NEW d \in Cmp, d # c, JobStep(d)
      PROVE  job'[c] = job[c]
  BY <1>0, <1>2 DEF JobStep, StartJob, GetPending, ReadIndex, EnsurePending, PutManifest, CasIndex,
     CompletePublication, BeginNoWork, BeginBusy, BeginCompaction, StageTarget, RewriteFails,
     AbortCompaction, ClearBlockedRequest, CommitCompaction, CleanupStaged, Sweep
<1>3. CASE JobStep(c)
  <2>1. CASE GetPending(c)
    <3>1. job'[c].pub = pending /\ job'[c].pc \in {"manifest", "read"} /\ pending' = pending
      BY <1>0, <2>1 DEF GetPending, Jobs, repo
    <3> QED BY <3>1
  <2>2. CASE EnsurePending(c)
    <3>1. job'[c].pub = pending' /\ job'[c].pc = "manifest"
      BY <1>0, <2>2 DEF EnsurePending, Jobs
    <3> QED BY <3>1
  <2>3. CASE PutManifest(c)
    <3>1. \/ job'[c].pub = NoGeneration /\ job'[c].pc = AfterFailure(c)
          \/ /\ job'[c].pub = job[c].pub /\ job'[c].pc = "index"
             /\ job[c].pub \in manifests'
      BY <1>0, <2>3 DEF PutManifest, Jobs
    <3> QED BY <1>a, <3>1
  <2>4. CASE CasIndex(c)
    <3>1. job'[c].pub = job[c].pub /\ job'[c].pc = "complete" /\ index' = Advance(job[c].pub.gen)
      BY <1>0, <2>4 DEF CasIndex, Jobs
    <3>2. job[c].pub.gen \in Int
      BY <1>0 DEF Jobs, Generations, NoGeneration
    <3>3. job[c].pub.gen <= index'
      BY <1>0, <3>1, <3>2 DEF Advance
    <3> QED BY <3>1, <3>3
  <2>5. CASE CompletePublication(c)
    <3>1. job'[c].pub = NoGeneration /\ job'[c].pc \in {job[c].next, "pending", AfterFailure(c)}
      BY <1>0, <2>5 DEF CompletePublication, Jobs
    <3> QED BY <1>a, <3>1
  <2>6. CASE BeginCompaction(c)
    <3>1. job'[c].pub = job[c].pub /\ job'[c].pc = "rewrite"
      BY <1>0, <2>6 DEF BeginCompaction, Jobs
    <3> QED BY <3>1
  <2>7. CASE StartJob(c) \/ ReadIndex(c) \/ BeginNoWork(c) \/ BeginBusy(c) \/ StageTarget(c)
             \/ RewriteFails(c) \/ AbortCompaction(c) \/ ClearBlockedRequest(c)
             \/ CommitCompaction(c) \/ CleanupStaged(c) \/ Sweep(c)
    <3>1. PICK x : job' = [job EXCEPT ![c].pc = x] /\ x \notin {"index", "complete"}
      <4>1. CASE StartJob(c) \/ ReadIndex(c)
        BY <1>a, <4>1 DEF StartJob, ReadIndex
      <4>2. CASE BeginNoWork(c) \/ BeginBusy(c) \/ StageTarget(c) \/ RewriteFails(c)
        BY <4>2 DEF BeginNoWork, BeginBusy, StageTarget, RewriteFails
      <4>3. CASE AbortCompaction(c) \/ ClearBlockedRequest(c) \/ CommitCompaction(c)
                 \/ CleanupStaged(c) \/ Sweep(c)
        <5>1. \E x \in {"done", "clearing", "sweep", "committing", "discard", "abort"} :
                job' = [job EXCEPT ![c].pc = x]
          BY <4>3 DEF AbortCompaction, ClearBlockedRequest, CommitCompaction, CleanupStaged, Sweep
        <5> QED BY <5>1
      <4> QED BY <2>7, <4>1, <4>2, <4>3
    <3>2. job'[c].pub = job[c].pub /\ job'[c].pc = x
      BY <1>0, <3>1 DEF Jobs
    <3> QED BY <3>1, <3>2
  <2> QED BY <1>3, <2>1, <2>2, <2>3, <2>4, <2>5, <2>6, <2>7 DEF JobStep
<1>4. CASE ReleaseCompaction
  <2>1. h.token \in Cmp
    BY <1>0, <1>4 DEF ReleaseCompaction, Handlers, Idle
  <2>2. job'[c] = job[c] \/ (job'[c].pub = job[c].pub /\ job'[c].pc = "pending")
    BY <1>0, <1>4, <2>1 DEF ReleaseCompaction, Jobs
  <2> QED BY <2>2
<1>5. CASE CommitCallFails
  <2>1. h.token \in Cmp
    BY <1>0, <1>5 DEF CommitCallFails, Handlers
  <2>2. job'[c] = job[c] \/ (job'[c].pub = job[c].pub /\ job'[c].pc \in {"error", "done"})
    BY <1>0, <1>5, <2>1 DEF CommitCallFails, Jobs
  <2> QED BY <2>2
<1>6. ASSUME ~ReleaseCompaction, ~CommitCallFails, ~\E d \in Cmp : JobStep(d)
      PROVE  job' = job
  BY <1>6 DEF Next, BeginReceive, AbandonReceive, ActivateReceived, FinishReceive,
     CommitStep, UpsertTarget, SupersedeSources, BumpPackset, WriteMarker, ScheduleNext,
     DeleteStep, DeliverDelete, CheckReaders, ClaimSuperseded, ErasePacks, RemoveRows,
     BeginRead, LoadCatalog, EndRead, RequestCompaction, ClearCompactionRequest,
     CompactLeaseExpires, vars
<1> QED BY <1>1, <1>2, <1>3, <1>4, <1>5, <1>6

\* The markers, the manifests, the index and the packset version: who changes them.
LEMMA StoreChange ==
  ASSUME BaseInv, [Next]_vars
  PROVE  \/ UNCHANGED <<pending, manifests, index, packset>>
         \/ \E c \in Cmp : EnsurePending(c) \/ PutManifest(c) \/ CasIndex(c) \/ CompletePublication(c)
         \/ \E p \in Push : FinishReceive(p)
         \/ BumpPackset \/ WriteMarker
<1>1. ASSUME NEW p \in Push, BeginReceive(p) \/ AbandonReceive(p) \/ ActivateReceived(p)
      PROVE  UNCHANGED <<pending, manifests, index, packset>>
  BY <1>1 DEF BeginReceive, AbandonReceive, ActivateReceived, store
<1>2. ASSUME NEW c \in Cmp, JobStep(c), ~EnsurePending(c), ~PutManifest(c), ~CasIndex(c),
             ~CompletePublication(c)
      PROVE  UNCHANGED <<pending, manifests, index, packset>>
  BY <1>2 DEF JobStep, StartJob, GetPending, ReadIndex, BeginNoWork, BeginBusy, BeginCompaction,
     StageTarget, RewriteFails, AbortCompaction, ClearBlockedRequest, CommitCompaction,
     CleanupStaged, Sweep, repo, store
<1>3. ASSUME UpsertTarget \/ SupersedeSources \/ ScheduleNext \/ ReleaseCompaction
      PROVE  UNCHANGED <<pending, manifests, index, packset>>
  BY <1>3 DEF UpsertTarget, SupersedeSources, ScheduleNext, ReleaseCompaction, store
<1>4. ASSUME DeleteStep
      PROVE  UNCHANGED <<pending, manifests, index, packset>>
  BY <1>4 DEF DeleteStep, DeliverDelete, CheckReaders, ClaimSuperseded, ErasePacks, RemoveRows,
     repo, store
<1>5. ASSUME NEW r \in Reader, BeginRead(r) \/ LoadCatalog(r) \/ EndRead(r)
      PROVE  UNCHANGED <<pending, manifests, index, packset>>
  BY <1>5 DEF BeginRead, LoadCatalog, EndRead, repo, store
<1>6. ASSUME RequestCompaction \/ ClearCompactionRequest \/ CompactLeaseExpires
             \/ CommitCallFails \/ UNCHANGED vars
      PROVE  UNCHANGED <<pending, manifests, index, packset>>
  BY <1>6 DEF RequestCompaction, ClearCompactionRequest, CompactLeaseExpires, CommitCallFails,
     vars, repo, store
<1> QED BY <1>1, <1>2, <1>3, <1>4, <1>5, <1>6 DEF Next, CommitStep

\* Generations are natural numbers, or -1 for none.
LEMMA GenTypes ==
  ASSUME TypeOK
  PROVE  /\ pending.gen \in Int /\ pending.gen >= -1 /\ index \in Int /\ index >= -1
         /\ \A c \in Cmp : job[c].pub.gen \in Int /\ job[c].pub.gen >= -1
         /\ \A m \in manifests : m.gen \in Nat
         /\ packset \in Nat
         /\ NoGeneration.gen = -1 /\ NoGeneration.keys = {}
<1>1. \A g \in Generations \cup {NoGeneration} : g.gen \in Int /\ g.gen >= -1
  BY DEF Generations, NoGeneration
<1>2. \A c \in Cmp : job[c].pub \in Generations \cup {NoGeneration}
  BY DEF TypeOK, Jobs
<1> QED BY <1>1, <1>2 DEF TypeOK, Generations, NoGeneration


\* No generation comes from the future.
LEMMA GensStep ==
  ASSUME NoCatch, BaseInv, PublicationInv, [Next]_vars
  PROVE  /\ GensBounded(packset)'
         /\ h'.pc = "marker" => GensBounded(packset - 1)'
<1>0. TypeOK /\ GensBounded(packset) /\ (h.pc = "marker" => GensBounded(packset - 1))
  BY DEF BaseInv, PublicationInv
<1>a. h \in Handlers
  BY <1>0 DEF TypeOK
<1>t. TypeOK'
  BY TypeStep
<1> DEFINE Below(n) == /\ pending'.gen <= n
                       /\ index' <= n
                       /\ \A c \in Cmp : job'[c].pub.gen <= n
                       /\ \A m \in manifests' : m.gen <= n
<1>b. ASSUME NEW n \in Int, n >= -1, GensBounded(n), pending'.gen <= n
      PROVE  Below(n)
  <2>1. index' <= n
    <3>1. \A c \in Cmp : CasIndex(c) => index' \in {index, job[c].pub.gen}
      BY DEF CasIndex, Advance
    <3>2. index' = index \/ \E c \in Cmp : CasIndex(c)
      BY StoreChange DEF EnsurePending, PutManifest, CompletePublication, FinishReceive,
         BumpPackset, WriteMarker, store
    <3> QED BY <1>b, <3>1, <3>2 DEF GensBounded
  <2>2. \A c \in Cmp : job'[c].pub.gen <= n
    BY <1>0, <1>b, PubChange, GenTypes DEF GensBounded
  <2>3. \A m \in manifests' : m.gen <= n
    <3>1. \A c \in Cmp : PutManifest(c) => manifests' \subseteq manifests \cup {job[c].pub}
      BY DEF PutManifest
    <3>2. manifests' = manifests \/ \E c \in Cmp : PutManifest(c)
      BY StoreChange DEF EnsurePending, CasIndex, CompletePublication, FinishReceive,
         BumpPackset, WriteMarker, store
    <3> QED BY <1>b, <3>1, <3>2 DEF GensBounded
  <2> QED BY <1>b, <2>1, <2>2, <2>3
<1>c. pending'.gen <= packset'
  <2>1. CASE pending' = pending /\ packset' \in {packset, packset + 1}
    BY <1>0, <2>1, GenTypes DEF GensBounded
  <2>2. ASSUME NEW c \in Cmp, EnsurePending(c) \/ CompletePublication(c)
        PROVE  pending'.gen <= packset'
    <3>1. packset' = packset /\ pending' \in {pending, NoGeneration, [gen |-> packset, keys |-> Active]}
      BY <2>2 DEF EnsurePending, CompletePublication
    <3> QED BY <1>0, <3>1, GenTypes DEF GensBounded
  <2>3. CASE WriteMarker
    BY <1>0, <2>3, GenTypes DEF WriteMarker
  <2>4. ASSUME NEW c \in Cmp, PutManifest(c) \/ CasIndex(c)
        PROVE  pending' = pending /\ packset' \in {packset, packset + 1}
    BY <2>4 DEF PutManifest, CasIndex, repo
  <2>5. ASSUME NEW p \in Push, FinishReceive(p)
        PROVE  pending' = pending /\ packset' \in {packset, packset + 1}
    BY <2>5 DEF FinishReceive
  <2>6. ASSUME BumpPackset
        PROVE  pending' = pending /\ packset' \in {packset, packset + 1}
    BY <2>6 DEF BumpPackset
  <2> QED BY <2>1, <2>2, <2>3, <2>4, <2>5, <2>6, StoreChange
<1>d. packset' \in {packset, packset + 1}
  BY StoreChange DEF EnsurePending, PutManifest, CasIndex, CompletePublication, FinishReceive,
     BumpPackset, WriteMarker, repo
<1>1. GensBounded(packset)'
  <2>1. GensBounded(packset')
    BY <1>0, <1>d, GenTypes DEF GensBounded
  <2>2. Below(packset')
    BY <1>b, <1>c, <1>d, <1>0, <2>1, GenTypes
  <2> QED BY <2>2 DEF GensBounded
<1>2. ASSUME h'.pc = "marker"
      PROVE  GensBounded(packset - 1)'
  <2>1. \/ BumpPackset
        \/ h.pc = "marker" /\ pending' = pending /\ packset' = packset
    <3>1. CASE CommitStep
      BY <1>a, <1>2, <3>1 DEF CommitStep, UpsertTarget, SupersedeSources, WriteMarker,
         ScheduleNext, ReleaseCompaction, Handlers, Idle, Goto
    <3>2. CASE CommitCallFails
      BY <1>2, <3>2 DEF CommitCallFails, Idle, repo
    <3>3. CASE ~CommitStep /\ ~CommitCallFails /\ h # Idle
      BY <1>2, <3>3, HandlerExclusive
    <3>4. CASE ~CommitStep /\ ~CommitCallFails /\ h = Idle
      BY <1>2, <3>4, HandlerAlone DEF Idle
    <3> QED BY <3>1, <3>2, <3>3, <3>4
  <2>2. CASE BumpPackset
    <3>1. packset' - 1 = packset /\ pending' = pending
      BY <1>0, <2>2, GenTypes DEF BumpPackset
    <3>2. Below(packset)
      BY <1>0, <1>b, <3>1, GenTypes DEF GensBounded
    <3> QED BY <3>1, <3>2 DEF GensBounded
  <2>3. CASE h.pc = "marker" /\ pending' = pending /\ packset' = packset
    <3>1. GensBounded(packset - 1) /\ pending'.gen <= packset - 1 /\ packset - 1 >= -1
      BY <1>0, <2>3, GenTypes DEF GensBounded
    <3>2. Below(packset - 1)
      BY <1>0, <1>b, <3>1, GenTypes
    <3> QED BY <2>3, <3>2 DEF GensBounded
  <2> QED BY <2>1, <2>2, <2>3
<1> QED BY <1>1, <1>2

\* What is above the published generation stays the pending one or older.
LEMMA SupersedingStep ==
  ASSUME BaseInv, PublicationInv, [Next]_vars, NEW g, g.gen \in Int, Superseding(g),
         h.pc = "marker" => g.gen <= packset - 1
  PROVE  Superseding(g)'
<1>0. TypeOK
  BY DEF BaseInv
<1>a. /\ pending.gen \in Int /\ pending.gen >= -1 /\ index \in Int /\ index >= -1
      /\ packset \in Nat /\ NoGeneration.gen = -1
      /\ \A c \in Cmp : job[c].pub.gen \in Int
  BY <1>0, GenTypes
<1>1. CASE UNCHANGED <<pending, index>>
  BY <1>1 DEF Superseding
<1>2. ASSUME NEW c \in Cmp, EnsurePending(c)
      PROVE  Superseding(g)'
  <2>1. index' = index /\ (pending = NoGeneration \/ pending' = pending)
    BY <1>2 DEF EnsurePending, store
  <2> QED BY <1>1, <1>a, <2>1 DEF Superseding
<1>3. ASSUME NEW c \in Cmp, CasIndex(c)
      PROVE  Superseding(g)'
  <2>1. pending' = pending /\ index' >= index /\ index' \in Int
    BY <1>3, <1>a DEF CasIndex, Advance, repo
  <2> QED BY <1>a, <2>1 DEF Superseding
<1>4. ASSUME NEW c \in Cmp, CompletePublication(c)
      PROVE  Superseding(g)'
  <2>1. index' = index /\ (pending' = pending \/ (pending' = NoGeneration /\ pending.gen = job[c].pub.gen))
    BY <1>4 DEF CompletePublication, store
  <2>2. job[c].pub.gen <= index
    BY <1>4 DEF CompletePublication, PublicationInv
  <2> QED BY <1>a, <2>1, <2>2 DEF Superseding
<1>5. CASE WriteMarker
  <2>1. index' = index /\ pending'.gen = packset /\ g.gen <= packset - 1
    BY <1>5 DEF WriteMarker, store
  <2> QED BY <1>a, <2>1 DEF Superseding
<1>6. ASSUME NEW c \in Cmp, PutManifest(c)
      PROVE  UNCHANGED <<pending, index>>
  BY <1>6 DEF PutManifest, repo
<1>7. ASSUME NEW p \in Push, FinishReceive(p)
      PROVE  UNCHANGED <<pending, index>>
  BY <1>7 DEF FinishReceive, store
<1>8. ASSUME BumpPackset
      PROVE  UNCHANGED <<pending, index>>
  BY <1>8 DEF BumpPackset, store
<1> QED BY <1>1, <1>2, <1>3, <1>4, <1>5, <1>6, <1>7, <1>8, StoreChange


\* A commit that breaks off before its marker tears; only a marker mends.
LEMMA TornChange ==
  ASSUME [Next]_vars, ~WriteMarker, ~torn'
  PROVE  /\ ~torn
         /\ CommitCallFails =>
              ~(h' = Idle /\ h.pc \in {"bump", "marker"} /\ pending.gen > index)
<1>1. ASSUME NEW p \in Push, BeginReceive(p) \/ AbandonReceive(p) \/ ActivateReceived(p)
             \/ FinishReceive(p)
      PROVE  torn' = torn
  BY <1>1 DEF BeginReceive, AbandonReceive, ActivateReceived, FinishReceive, history
<1>2. ASSUME NEW c \in Cmp, JobStep(c)
      PROVE  torn' = torn
  BY <1>2 DEF JobStep, StartJob, GetPending, ReadIndex, EnsurePending, PutManifest, CasIndex,
     CompletePublication, BeginNoWork, BeginBusy, BeginCompaction, StageTarget, RewriteFails,
     AbortCompaction, ClearBlockedRequest, CommitCompaction, CleanupStaged, Sweep, history
<1>3. ASSUME CommitStep
      PROVE  torn' = torn
  BY <1>3 DEF CommitStep, UpsertTarget, SupersedeSources, BumpPackset, ScheduleNext,
     ReleaseCompaction, history
<1>4. ASSUME DeleteStep \/ RequestCompaction \/ ClearCompactionRequest \/ CompactLeaseExpires
             \/ UNCHANGED vars
      PROVE  torn' = torn
  BY <1>4 DEF DeleteStep, DeliverDelete, CheckReaders, ClaimSuperseded, ErasePacks, RemoveRows,
     RequestCompaction, ClearCompactionRequest, CompactLeaseExpires, vars, history
<1>5. ASSUME NEW r \in Reader, BeginRead(r) \/ LoadCatalog(r) \/ EndRead(r)
      PROVE  torn' = torn
  BY <1>5 DEF BeginRead, LoadCatalog, EndRead, history
<1>6. ASSUME CommitCallFails
      PROVE  torn' = (torn \/ (h' = Idle /\ h.pc \in {"bump", "marker"} /\ pending.gen > index))
  BY <1>6 DEF CommitCallFails
<1>7. CASE CommitCallFails
  <2>1. ~torn /\ ~(h' = Idle /\ h.pc \in {"bump", "marker"} /\ pending.gen > index)
    BY <1>6, <1>7, Zenon
  <2> QED BY <2>1, Zenon
<1>8. CASE ~CommitCallFails
  <2>1. torn' = torn
    BY <1>1, <1>2, <1>3, <1>4, <1>5, <1>8 DEF Next
  <2> QED BY <1>8, <2>1, Zenon
<1> QED BY <1>7, <1>8

\* The packs of the pending marker stay active, or are about to be replaced by the
\* next marker.
LEMMA PendingSafeStep ==
  ASSUME NoCatch, BaseInv, DataInv, PublicationInv, [Next]_vars
  PROVE  PendingSafe'
<1>0. TypeOK /\ PendingSafe /\ h \in Handlers /\ job \in [Cmp -> Jobs]
  BY DEF BaseInv, PublicationInv, TypeOK
<1>a. /\ pending.gen \in Int /\ index \in Int /\ index >= -1 /\ NoGeneration.gen = -1
      /\ \A c \in Cmp : job[c].pub.gen \in Int
  BY <1>0, GenTypes
<1>1. CASE WriteMarker
  <2>1. pending'.keys = Active /\ Active' = Active
    BY <1>1, SameRows DEF WriteMarker
  <2> QED BY <2>1 DEF PendingSafe
<1>2. ASSUME NEW c \in Cmp, EnsurePending(c), pending = NoGeneration
      PROVE  PendingSafe'
  <2>1. pending'.keys = Active /\ Active' = Active
    BY <1>2, SameRows DEF EnsurePending
  <2> QED BY <2>1 DEF PendingSafe
<1>3. ASSUME ~WriteMarker, pending' = pending, index' \in Int, index' >= index
      PROVE  PendingSafe'
  <2> SUFFICES ASSUME pending.gen > index', ~torn', NEW k \in pending.keys
               PROVE  k \in Active' \/ (h'.pc \in {"bump", "marker"} /\ k \in job'[h'.token].src)
    BY <1>3 DEF PendingSafe
  <2>1. ~torn /\ pending.gen > index
    BY <1>3, <1>a, TornChange
  <2>2. k \in Active \/ (h.pc \in {"bump", "marker"} /\ k \in job[h.token].src)
    BY <1>0, <2>1 DEF PendingSafe
  <2>3. CASE SupersedeSources
    <3>1. PICK c \in Cmp : c = h.token
      BY <1>0, <2>3 DEF SupersedeSources, Handlers, Idle
    <3> QED BY <2>2, <2>3, <3>1, SupersedeRows DEF SupersedeSources
  <2>4. CASE ~SupersedeSources /\ k \in Active
    <3>1. k \in Active'
      <4>1. CASE UpsertTarget
        <5>1. PICK c \in Cmp : c = h.token
          BY <1>0, <4>1 DEF UpsertTarget, Handlers, Idle
        <5> QED BY <2>4, <4>1, <5>1, UpsertRow
      <4> QED BY <1>0, <2>4, <4>1, RowsChange, SameRows, ActivateRow, RemoveInactive
    <3> QED BY <3>1
  <2>5. CASE h.pc \in {"bump", "marker"} /\ k \in job[h.token].src
    <3>0. h # Idle /\ h.token \in Cmp
      BY <1>0, <2>5 DEF Handlers, Idle
    <3>1. CASE CommitStep
      <4>1. BumpPackset
        BY <1>3, <2>5, <3>1 DEF CommitStep, UpsertTarget, SupersedeSources, ScheduleNext,
           ReleaseCompaction
      <4>2. h'.pc = "marker" /\ h'.token = h.token /\ job' = job
        BY <1>0, <3>0, <4>1 DEF BumpPackset, Goto, Handlers
      <4> QED BY <2>5, <4>2
    <3>2. CASE CommitCallFails
      <4>1. h' = h
        BY <1>3, <2>1, <2>5, <3>2, TornChange DEF CommitCallFails
      <4>2. job'[h.token].src = job[h.token].src
        BY <1>0, <3>0, <3>2 DEF CommitCallFails, Jobs
      <4> QED BY <2>5, <4>1, <4>2
    <3>3. CASE ~CommitStep /\ ~CommitCallFails
      <4>1. h' = h /\ job'[h.token].src = job[h.token].src
        BY <3>0, <3>3, HandlerExclusive
      <4> QED BY <2>5, <4>1
    <3> QED BY <3>1, <3>2, <3>3
  <2> QED BY <2>2, <2>3, <2>4, <2>5
<1>4. CASE pending' = NoGeneration /\ index' = index
  BY <1>4, <1>a DEF PendingSafe
<1>5. CASE UNCHANGED <<pending, manifests, index, packset>>
  BY <1>1, <1>3, <1>5, <1>a
<1>6. ASSUME NEW c \in Cmp, EnsurePending(c) \/ PutManifest(c) \/ CompletePublication(c)
      PROVE  \/ EnsurePending(c) /\ pending = NoGeneration
             \/ pending' = pending /\ index' = index
             \/ pending' = NoGeneration /\ index' = index
  BY <1>6 DEF EnsurePending, PutManifest, CompletePublication, repo, store
<1>7. ASSUME NEW c \in Cmp, CasIndex(c)
      PROVE  pending' = pending /\ index' \in Int /\ index' >= index
  BY <1>7, <1>a DEF CasIndex, Advance, repo
<1>8. ASSUME NEW p \in Push, FinishReceive(p)
      PROVE  pending' = pending /\ index' = index
  BY <1>8 DEF FinishReceive, store
<1>9. ASSUME BumpPackset
      PROVE  pending' = pending /\ index' = index
  BY <1>9 DEF BumpPackset, store
<1>10. CASE pending' = pending /\ index' \in Int /\ index' >= index
  BY <1>1, <1>3, <1>10
<1> QED
  BY <1>1, <1>2, <1>4, <1>5, <1>6, <1>7, <1>8, <1>9, <1>10, <1>a, StoreChange


\* The packs of the published generation, unless a newer marker waits.
PublishedSafe ==
  pending.gen <= index /\ ~torn =>
    \A m \in manifests : m.gen = index => \A k \in m.keys : Safe(k)

\* No deletion takes a pack of the published generation: a message is delivered
\* only if that generation does not name its packs, and the index moves only to a
\* marker whose packs are still served.
LEMMA PublishedSafeStep ==
  ASSUME NoCatch, BaseInv, DataInv, PublicationInv, [Next]_vars
  PROVE  PublishedSafe'
<1>0. TypeOK /\ PublishedSafe /\ PendingSafe /\ DeletesOK /\ SourcesKept /\ ActiveStored
  BY DEF BaseInv, PublicationInv, PublishedSafe, DataInv
<1>a. /\ pending.gen \in Int /\ pending.gen >= -1 /\ index \in Int /\ index >= -1
      /\ NoGeneration.gen = -1 /\ packset \in Nat
      /\ \A c \in Cmp : job[c].pub.gen \in Int
      /\ \A m \in manifests : m.gen \in Nat
  BY <1>0, GenTypes
<1>b. \A m \in manifests : \A k \in m.keys : k \in Pack /\ Landed(k)
  BY <1>0 DEF PublicationInv, TypeOK, Generations
<1>c. ASSUME NEW k \in Pack, Landed(k), Safe(k),
             del' = del \/ (DeleteStep /\ del'.keys \subseteq del.keys)
      PROVE  Safe(k)'
  BY <1>c, LandedData DEF Safe
<1>1. ASSUME UNCHANGED <<pending, manifests, index>>, ~WriteMarker
      PROVE  PublishedSafe'
  <2> SUFFICES ASSUME pending.gen <= index, ~torn', NEW m \in manifests, m.gen = index,
                      NEW k \in m.keys
               PROVE  Safe(k)'
    BY <1>1 DEF PublishedSafe
  <2>1. Safe(k) /\ k \in Pack /\ Landed(k)
    BY <1>0, <1>1, <1>b, TornChange DEF PublishedSafe
  <2>2. ASSUME NEW d \in deletes, Deletable(d), del'.keys = d.keys, data' = data
        PROVE  Safe(k)'
    <3>1. k \notin d.keys
      BY <2>2 DEF Deletable
    <3> QED BY <2>1, <2>2, <3>1 DEF Safe
  <2> QED BY <1>0, <1>c, <2>1, <2>2, DelChange
<1>2. ASSUME NEW c \in Cmp, EnsurePending(c)
      PROVE  PublishedSafe'
  <2>1. /\ UNCHANGED <<manifests, index, data, del, torn>>
        /\ pending = NoGeneration \/ pending' = pending
    BY <1>2 DEF EnsurePending, store, history
  <2>2. pending'.gen <= index' => pending.gen <= index
    BY <1>a, <2>1
  <2> QED BY <1>0, <2>1, <2>2 DEF PublishedSafe, Safe
<1>3. ASSUME NEW c \in Cmp, CompletePublication(c)
      PROVE  PublishedSafe'
  <2>1. /\ UNCHANGED <<manifests, index, data, del, torn>>
        /\ pending' = pending \/ pending.gen = job[c].pub.gen
    BY <1>3 DEF CompletePublication, store, history
  <2>2. job[c].pub.gen <= index
    BY <1>3 DEF CompletePublication, PublicationInv
  <2>3. pending'.gen <= index' => pending.gen <= index
    BY <1>a, <2>1, <2>2
  <2> QED BY <1>0, <2>1, <2>3 DEF PublishedSafe, Safe
<1>4. ASSUME NEW c \in Cmp, PutManifest(c)
      PROVE  PublishedSafe'
  <2>1. UNCHANGED <<pending, index, data, del, torn>>
    BY <1>4 DEF PutManifest, repo, history
  <2>2. CASE Conflicting(job[c].pub)
    <3>1. manifests' = manifests
      BY <1>4, <2>2 DEF PutManifest
    <3> QED BY <1>0, <2>1, <3>1 DEF PublishedSafe, Safe
  <2>3. CASE ~Conflicting(job[c].pub)
    <3>1. manifests' = manifests \cup {job[c].pub}
      BY <1>4, <2>3 DEF PutManifest
    <3>2. job[c].pub # NoGeneration /\ job[c].pub \in Generations
      BY <1>0, <1>4 DEF PutManifest, BaseInv, JobOK, Publishing, TypeOK, Jobs
    <3>3. job[c].pub.gen \in Nat
      BY <3>2 DEF Generations
    <3>4. ASSUME job[c].pub.gen = index
          PROVE  \E m \in manifests : m.gen = index /\ m.keys = job[c].pub.keys
      <4>1. PICK m \in manifests : m.gen = index
        BY <3>3, <3>4 DEF PublicationInv
      <4>2. m.keys = job[c].pub.keys
        BY <2>3, <3>4, <4>1 DEF Conflicting
      <4> QED BY <4>1, <4>2
    <3> QED BY <1>0, <2>1, <3>1, <3>4 DEF PublishedSafe, Safe
  <2> QED BY <2>2, <2>3
<1>5. ASSUME NEW c \in Cmp, CasIndex(c)
      PROVE  PublishedSafe'
  <2>1. UNCHANGED <<pending, manifests, data, del, torn>>
    BY <1>5 DEF CasIndex, repo, history
  <2>2. CASE index' = index
    BY <1>0, <2>1, <2>2 DEF PublishedSafe, Safe
  <2>3. CASE index' # index
    <3>1. index' > index
      BY <1>5, <2>3, <1>a DEF CasIndex, Advance
    <3> SUFFICES ASSUME pending.gen <= index', ~torn, NEW m \in manifests, m.gen = index',
                        NEW k \in m.keys
                 PROVE  Safe(k)
      BY <2>1 DEF PublishedSafe, Safe
    <3>2. Superseding(m)
      BY DEF PublicationInv
    <3>3. m = pending /\ pending.gen > index
      BY <1>a, <3>1, <3>2 DEF Superseding
    <3>4. k \in Active \/ (h.pc \in {"bump", "marker"} /\ k \in job[h.token].src)
      BY <1>0, <3>3 DEF PendingSafe
    <3> QED BY <1>0, <3>4 DEF Safe, ActiveStored, Stored, DeletesOK, SourcesKept
  <2> QED BY <2>2, <2>3
<1>6. CASE WriteMarker
  <2>1. index <= packset - 1
    BY <1>6 DEF WriteMarker, PublicationInv, GensBounded
  <2>2. pending'.gen = packset /\ index' = index
    BY <1>6 DEF WriteMarker, store
  <2> QED BY <1>a, <2>1, <2>2 DEF PublishedSafe
<1>7. ASSUME NEW p \in Push, FinishReceive(p)
      PROVE  UNCHANGED <<pending, manifests, index>>
  BY <1>7 DEF FinishReceive, store
<1>8. ASSUME BumpPackset
      PROVE  UNCHANGED <<pending, manifests, index>>
  BY <1>8 DEF BumpPackset, store
<1> QED
  BY <1>1, <1>2, <1>3, <1>4, <1>5, <1>6, <1>7, <1>8, StoreChange

\* Markers, manifests and what consumers publish name landed packs.
LEMMA NamedStep ==
  ASSUME NoCatch, BaseInv, PublicationInv, [Next]_vars
  PROVE  /\ \A k \in pending'.keys : Landed(k)'
         /\ \A c \in Cmp : \A k \in job'[c].pub.keys : Landed(k)'
         /\ \A m \in manifests' : \A k \in m.keys : Landed(k)'
<1>0. TypeOK /\ RowsLanded
  BY DEF BaseInv
<1>a. \A k \in Pack : Landed(k) => Landed(k)'
  BY LandedStable
<1>b. \A g \in Generations \cup {NoGeneration} : g.keys \subseteq Pack
  BY DEF Generations, NoGeneration
<1>c. /\ \A k \in pending.keys : k \in Pack /\ Landed(k)
      /\ \A c \in Cmp : \A k \in job[c].pub.keys : k \in Pack /\ Landed(k)
      /\ \A m \in manifests : \A k \in m.keys : k \in Pack /\ Landed(k)
      /\ \A k \in Active : k \in Pack /\ Landed(k)
  BY <1>0, <1>b DEF PublicationInv, TypeOK, Jobs, RowsLanded, Active
<1>1. \A k \in pending'.keys : Landed(k)'
  <2>1. ASSUME NEW c \in Cmp, EnsurePending(c) \/ CompletePublication(c)
        PROVE  pending' \in {pending, NoGeneration, [gen |-> packset, keys |-> Active]}
    BY <2>1 DEF EnsurePending, CompletePublication
  <2>2. WriteMarker => pending' = [gen |-> packset, keys |-> Active]
    BY DEF WriteMarker
  <2>3. \/ pending' = pending
        \/ WriteMarker
        \/ \E c \in Cmp : EnsurePending(c) \/ CompletePublication(c)
    BY StoreChange DEF PutManifest, CasIndex, FinishReceive, BumpPackset, repo
  <2>4. pending'.keys \in {pending.keys, {}, Active}
    BY <2>1, <2>2, <2>3 DEF NoGeneration
  <2> QED BY <1>a, <1>c, <2>4
<1>2. \A c \in Cmp : \A k \in job'[c].pub.keys : Landed(k)'
  BY <1>0, <1>1, <1>a, <1>c, PubChange, GenTypes
<1>3. \A m \in manifests' : \A k \in m.keys : Landed(k)'
  <2>1. \A c \in Cmp : PutManifest(c) => manifests' \subseteq manifests \cup {job[c].pub}
    BY DEF PutManifest
  <2>2. manifests' = manifests \/ \E c \in Cmp : PutManifest(c)
    BY StoreChange DEF EnsurePending, CasIndex, CompletePublication, FinishReceive,
       BumpPackset, WriteMarker, store
  <2> QED BY <1>a, <1>c, <2>1, <2>2
<1> QED BY <1>1, <1>2, <1>3

\* The index is that of a manifest.
LEMMA IndexStep ==
  ASSUME BaseInv, PublicationInv, [Next]_vars
  PROVE  /\ index' # -1 => \E m \in manifests' : m.gen = index'
         /\ index' >= index
         /\ manifests \subseteq manifests'
<1>1. manifests \subseteq manifests'
  BY StoreChange DEF EnsurePending, PutManifest, CasIndex, CompletePublication, FinishReceive,
     BumpPackset, WriteMarker, store
<1>2. index' = index \/ \E c \in Cmp : CasIndex(c)
  BY StoreChange DEF EnsurePending, PutManifest, CompletePublication, FinishReceive,
     BumpPackset, WriteMarker, store
<1>3. index \in Int /\ \A c \in Cmp : job[c].pub.gen \in Int
  BY GenTypes DEF BaseInv
<1>4. ASSUME NEW c \in Cmp, CasIndex(c)
      PROVE  index' >= index /\ (index' = index \/ \E m \in manifests : m.gen = index')
  <2>1. job[c].pub \in manifests /\ index' = Advance(job[c].pub.gen)
    BY <1>4 DEF CasIndex, PublicationInv
  <2> QED BY <1>3, <2>1 DEF Advance
<1> QED BY <1>1, <1>2, <1>3, <1>4 DEF PublicationInv

\* The fourth layer is inductive.
LEMMA PublicationInit ==
  ASSUME Init
  PROVE  PublicationInv
<1>1. /\ packset = 0 /\ index = -1 /\ manifests = {} /\ h.pc = "idle"
      /\ pending.gen = -1 /\ pending.keys = {}
      /\ \A c \in Cmp : job[c].pub.gen = -1 /\ job[c].pub.keys = {} /\ job[c].pc = "idle"
  BY DEF Init, NoGeneration, NewJob, Idle
<1>2. GensBounded(packset) /\ PendingSafe /\ \A c \in Cmp : Superseding(job[c].pub)
  BY <1>1 DEF GensBounded, PendingSafe, Superseding
<1> QED BY <1>1, <1>2 DEF PublicationInv

\* The fourth layer is kept by every step.
LEMMA PublicationStep ==
  ASSUME NoCatch, BaseInv, DataInv, PublicationInv, [Next]_vars
  PROVE  PublicationInv'
<1>0. TypeOK /\ TypeOK'
  BY TypeStep DEF BaseInv
<1>a. /\ pending.gen \in Int /\ index \in Int /\ packset \in Nat /\ index >= -1
      /\ NoGeneration.gen = -1
      /\ \A c \in Cmp : job[c].pub.gen \in Int
      /\ \A m \in manifests : m.gen \in Nat
      /\ index' \in Int /\ index' >= -1
  <2>1. index \in Nat \cup {-1} /\ index' \in Nat \cup {-1}
    BY <1>0 DEF TypeOK
  <2> QED BY <1>0, <2>1, GenTypes
<1>1. GensBounded(packset)' /\ (h'.pc = "marker" => GensBounded(packset - 1)')
  BY GensStep
<1>2. \A c \in Cmp : Superseding(job[c].pub)'
  <2> SUFFICES ASSUME NEW c \in Cmp
               PROVE  Superseding(job[c].pub)'
    OBVIOUS
  <2>1. ASSUME NEW g, g = job[c].pub
        PROVE  Superseding(g)'
    <3>1. g.gen \in Int /\ Superseding(g) /\ (h.pc = "marker" => g.gen <= packset - 1)
      BY <1>a, <2>1 DEF PublicationInv, GensBounded
    <3> QED BY <3>1, SupersedingStep
  <2>2. job[c].pub.gen > index' => job[c].pub = pending' \/ job[c].pub.gen < pending'.gen
    BY <2>1 DEF Superseding
  <2>3. job'[c].pub \in {job[c].pub, NoGeneration, pending'}
    BY PubChange
  <2> QED BY <1>a, <2>2, <2>3 DEF Superseding
<1>3. \A m \in manifests' : Superseding(m)'
  <2> SUFFICES ASSUME NEW m \in manifests'
               PROVE  Superseding(m)'
    OBVIOUS
  <2>1. CASE m \in manifests
    <3>1. m.gen \in Int /\ Superseding(m) /\ (h.pc = "marker" => m.gen <= packset - 1)
      BY <1>a, <2>1 DEF PublicationInv, GensBounded
    <3> QED BY <3>1, SupersedingStep
  <2>2. CASE m \notin manifests
    <3>1. PICK c \in Cmp : PutManifest(c)
      BY <2>2, StoreChange DEF EnsurePending, CasIndex, CompletePublication, FinishReceive,
         BumpPackset, WriteMarker, store
    <3>2. m = job[c].pub /\ UNCHANGED <<pending, index>>
      BY <2>2, <3>1 DEF PutManifest, repo
    <3>3. Superseding(m)
      BY <3>2 DEF PublicationInv
    <3> QED BY <3>2, <3>3 DEF Superseding
  <2> QED BY <2>1, <2>2
<1>4. ASSUME NEW c \in Cmp, job'[c].pc = "index"
      PROVE  job'[c].pub \in manifests'
  BY <1>4, PubChange, IndexStep DEF PublicationInv
<1>5. ASSUME NEW c \in Cmp, job'[c].pc = "complete"
      PROVE  job'[c].pub.gen <= index'
  BY <1>5, <1>a, PubChange, IndexStep DEF PublicationInv
<1>6. index' # -1 => \E m \in manifests' : m.gen = index'
  BY IndexStep
<1>7. PublishedSafe' /\ PendingSafe'
  BY PublishedSafeStep, PendingSafeStep
<1> QED BY <1>1, <1>2, <1>3, <1>4, <1>5, <1>6, <1>7, NamedStep DEF PublicationInv, PublishedSafe


\* There is no reader at the start.
LEMMA ReadersInit ==
  ASSUME Init
  PROVE  ReadersInv
<1>1. \A r \in Reader : snap[r].on = FALSE /\ snap[r].keys = {}
  BY DEF Init, NotReading
<1> QED BY <1>1, Zenon DEF ReadersInv, ReaderOK

------------------------------------------------------------------------------
(* Plans *)

\* Only the active rows matter for a plan.
LEMMA SameActive ==
  ASSUME Active' = Active, \A k \in Active : row'[k] = row[k]
  PROVE  /\ Overflowing' = Overflowing
         /\ NeedsCompaction' = NeedsCompaction
         /\ \A t : TierOf(t)' = TierOf(t)
         /\ \A S, t : PlanOf(S, t) => PlanOf(S, t)'
<1>1. \A t : TierOf(t)' = TierOf(t)
  BY DEF TierOf
<1>2. Overflowing' = Overflowing
  <2>1. {row'[k].tier : k \in Active} = {row[k].tier : k \in Active}
    OBVIOUS
  <2> QED BY <1>1, <2>1 DEF Overflowing
<1>3. NeedsCompaction' = NeedsCompaction
  BY <1>2 DEF NeedsCompaction
<1>4. ASSUME NEW S, NEW t, PlanOf(S, t)
      PROVE  PlanOf(S, t)'
  BY <1>1, <1>2, <1>4 DEF PlanOf, TierOf
<1> QED BY <1>1, <1>2, <1>3, <1>4

\* A plan is a need.
LEMMA PlanIsNeed ==
  ASSUME NEW S, NEW t, PlanOf(S, t)
  PROVE  NeedsCompaction
BY DEF PlanOf, NeedsCompaction

\* Outside its handler the catalog changes only by a receive, or not at all as
\* far as plans can tell.
LEMMA ActiveKept ==
  ASSUME BaseInv, [Next]_vars, ~UpsertTarget, ~SupersedeSources,
         \A p \in Push : ~ActivateReceived(p)
  PROVE  Active' = Active /\ \A k \in Active : row'[k] = row[k]
<1>1. CASE row' = row
  BY <1>1, SameRows
<1>2. CASE RemoveRows
  BY <1>2, RemoveInactive DEF BaseInv
<1> QED BY <1>1, <1>2, RowsChange

\* What beginCompaction hands out is a plan of its tier.
LEMMA BeginPlan ==
  ASSUME BaseInv, NEW c \in Cmp, BeginCompaction(c)
  PROVE  /\ PlanOf(job'[c].src, job'[c].tier - 1)
         /\ job'[c].packset = packset
<1>1. job \in [Cmp -> Jobs] /\ row \in [Pack -> Rows]
  BY DEF BaseInv, TypeOK
<1>2. PICK S \in SUBSET Active :
        /\ IsPlan(S)
        /\ job' = [job EXCEPT ![c].pc = "rewrite", ![c].src = S,
                              ![c].packset = packset,
                              ![c].tier = row[CHOOSE k \in S : TRUE].tier + 1]
  BY DEF BeginCompaction
<1>3. job'[c].src = S /\ job'[c].packset = packset /\ job'[c].tier = row[CHOOSE k \in S : TRUE].tier + 1
  BY <1>1, <1>2 DEF Jobs
<1>4. PICK t \in Overflowing :
        /\ S \subseteq TierOf(t) /\ Cardinality(S) = FanIn
        /\ \A k \in S, o \in TierOf(t) \ S : row[k].lo <= row[o].lo
  BY <1>2 DEF IsPlan
<1>5. S # {}
  BY <1>4, FS_EmptySet, SizeAssumption
<1>6. (CHOOSE k \in S : TRUE) \in S
  BY <1>5
<1>7. t = row[CHOOSE k \in S : TRUE].tier /\ t \in Nat
  BY <1>1, <1>4, <1>6 DEF TierOf, Active, Rows
<1>8. job'[c].tier - 1 = t
  BY <1>3, <1>7
<1>9. PlanOf(S, t)
  BY <1>4 DEF PlanOf
<1> QED BY <1>3, <1>8, <1>9


\* A consumer's plan is the one beginCompaction gave it.
LEMMA PlanKept ==
  ASSUME BaseInv, [Next]_vars, NEW c \in Cmp, ~BeginCompaction(c)
  PROVE  /\ UNCHANGED <<job[c].src, job[c].packset, job[c].tier>>
         /\ job'[c].pc \in {"rewrite", "staged"} => job[c].pc \in {"rewrite", "staged"}
<1> DEFINE Goal(x) ==
      /\ x.src = job[c].src /\ x.packset = job[c].packset /\ x.tier = job[c].tier
      /\ x.pc \in {"rewrite", "staged"} => job[c].pc \in {"rewrite", "staged"}
<1> SUFFICES Goal(job'[c])
  OBVIOUS
<1>0. job \in [Cmp -> Jobs] /\ h \in Handlers /\ job[c] \in Jobs
  BY DEF BaseInv, TypeOK
<1>a. job[c].next \in {"begin", "sweep", "done"} /\ AfterFailure(c) \in {"idle", "done"}
  BY <1>0 DEF Jobs, AfterFailure
<1>1. CASE job'[c] = job[c]
  BY <1>1
<1>2. ASSUME NEW d \in Cmp, d # c, JobStep(d)
      PROVE  job'[c] = job[c]
  BY <1>0, <1>2 DEF JobStep, StartJob, GetPending, ReadIndex, EnsurePending, PutManifest, CasIndex,
     CompletePublication, BeginNoWork, BeginBusy, BeginCompaction, StageTarget, RewriteFails,
     AbortCompaction, ClearBlockedRequest, CommitCompaction, CleanupStaged, Sweep
<1>3. CASE JobStep(c)
  <2>1. CASE StartJob(c) \/ GetPending(c) \/ EnsurePending(c)
    BY <1>0, <2>1 DEF StartJob, GetPending, EnsurePending, Jobs
  <2>2. CASE ReadIndex(c)
    <3>1. PICK x \in {"begin", "sweep", "done", "ensure"} : job' = [job EXCEPT ![c].pc = x]
      BY <1>a, <2>2 DEF ReadIndex
    <3> QED BY <1>0, <3>1 DEF Jobs
  <2>3. CASE PutManifest(c) \/ CasIndex(c)
    BY <1>0, <1>a, <2>3 DEF PutManifest, CasIndex, Jobs
  <2>4. CASE CompletePublication(c)
    BY <1>0, <1>a, <2>4 DEF CompletePublication, Jobs
  <2>5. CASE BeginNoWork(c) \/ BeginBusy(c) \/ StageTarget(c) \/ RewriteFails(c)
    BY <1>0, <2>5 DEF BeginNoWork, BeginBusy, StageTarget, RewriteFails, Jobs
  <2>6. CASE AbortCompaction(c) \/ ClearBlockedRequest(c) \/ CommitCompaction(c)
        \/ CleanupStaged(c) \/ Sweep(c)
    <3>1. \E x \in {"done", "clearing", "sweep", "committing", "discard", "abort"} :
            job' = [job EXCEPT ![c].pc = x]
      BY <2>6 DEF AbortCompaction, ClearBlockedRequest, CommitCompaction, CleanupStaged, Sweep
    <3> QED BY <1>0, <3>1 DEF Jobs
  <2> QED BY <1>3, <2>1, <2>2, <2>3, <2>4, <2>5, <2>6 DEF JobStep
<1>4. CASE ReleaseCompaction
  <2>1. h.token \in Cmp
    BY <1>0, <1>4 DEF ReleaseCompaction, Handlers, Idle
  <2> QED BY <1>0, <1>4, <2>1 DEF ReleaseCompaction, Jobs
<1>5. CASE CommitCallFails
  <2>1. h.token \in Cmp
    BY <1>0, <1>5 DEF CommitCallFails, Handlers
  <2>2. CASE c = h.token
    BY <1>0, <1>5, <2>1, <2>2 DEF CommitCallFails, Jobs
  <2>3. CASE c # h.token
    BY <1>0, <1>5, <2>1, <2>3 DEF CommitCallFails, Jobs
  <2> QED BY <2>2, <2>3
<1>6. ASSUME ~ReleaseCompaction, ~CommitCallFails, ~\E d \in Cmp : JobStep(d)
      PROVE  job' = job
  BY <1>6 DEF Next, BeginReceive, AbandonReceive, ActivateReceived, FinishReceive,
     CommitStep, UpsertTarget, SupersedeSources, BumpPackset, WriteMarker, ScheduleNext,
     DeleteStep, DeliverDelete, CheckReaders, ClaimSuperseded, ErasePacks, RemoveRows,
     BeginRead, LoadCatalog, EndRead, RequestCompaction, ClearCompactionRequest,
     CompactLeaseExpires, vars
<1> QED BY <1>1, <1>2, <1>3, <1>4, <1>5, <1>6

\* The compaction lease is granted by beginCompaction only.
LEMMA LeaseGranted ==
  ASSUME BaseInv, [Next]_vars, NEW c \in Cmp, clease'.token = c, clease.token # c
  PROVE  BeginCompaction(c)
<1>0. clease \in Leases /\ NoLease.token # c
  BY PackAssumption DEF BaseInv, TypeOK, NoLease
<1>1. ASSUME NEW p \in Push, BeginReceive(p) \/ AbandonReceive(p) \/ ActivateReceived(p)
             \/ FinishReceive(p)
      PROVE  clease' = clease
  BY <1>1 DEF BeginReceive, AbandonReceive, ActivateReceived, FinishReceive
<1>2. ASSUME NEW d \in Cmp, JobStep(d), ~BeginCompaction(d)
      PROVE  clease' \in {clease, NoLease}
  BY <1>2 DEF JobStep, StartJob, GetPending, ReadIndex, EnsurePending, PutManifest, CasIndex,
     CompletePublication, BeginNoWork, BeginBusy, StageTarget, RewriteFails,
     AbortCompaction, ClearBlockedRequest, CommitCompaction, CleanupStaged, Sweep, repo
<1>3. ASSUME NEW d \in Cmp, BeginCompaction(d)
      PROVE  clease'.token = d
  BY <1>3 DEF BeginCompaction
<1>4. CASE CommitStep
  <2>1. clease' \in {clease, NoLease}
    BY <1>4 DEF CommitStep, UpsertTarget, SupersedeSources, BumpPackset, WriteMarker, ScheduleNext,
       ReleaseCompaction
  <2> QED BY <1>0, <2>1
<1>5. CASE CompactLeaseExpires
  <2>1. clease'.token = clease.token
    BY <1>0, <1>5 DEF CompactLeaseExpires, Leases, NoLease
  <2> QED BY <2>1
<1>6. ASSUME DeleteStep \/ (\E r \in Reader : BeginRead(r) \/ LoadCatalog(r) \/ EndRead(r))
             \/ RequestCompaction \/ ClearCompactionRequest \/ CommitCallFails \/ UNCHANGED vars
      PROVE  clease' = clease
  BY <1>6 DEF DeleteStep, DeliverDelete, CheckReaders, ClaimSuperseded, ErasePacks, RemoveRows,
     BeginRead, LoadCatalog, EndRead, RequestCompaction, ClearCompactionRequest, CommitCallFails,
     repo, vars
<1> QED BY <1>0, <1>1, <1>2, <1>3, <1>4, <1>5, <1>6 DEF Next

\* The packset version counts up, and a receive that activated its pack bumps it
\* before it gives its lease up.
LEMMA PacksetChange ==
  ASSUME BaseInv, [Next]_vars
  PROVE  /\ packset \in Nat
         /\ packset' = packset \/ packset' = packset + 1
         /\ rlease \in received => rlease' \in received' \/ packset' = packset + 1
<1>0. packset \in Nat /\ received \in SUBSET Push /\ None \notin Push
  BY PackAssumption DEF BaseInv, TypeOK
<1>1. ASSUME NEW p \in Push, BeginReceive(p) \/ AbandonReceive(p) \/ ActivateReceived(p)
             \/ FinishReceive(p)
      PROVE  /\ packset' = packset \/ packset' = packset + 1
             /\ rlease \in received => rlease' \in received' \/ packset' = packset + 1
  <2>1. CASE BeginReceive(p)
    BY <1>0, <2>1 DEF BeginReceive
  <2>2. CASE AbandonReceive(p)
    BY <2>2 DEF AbandonReceive
  <2>3. CASE ActivateReceived(p)
    BY <2>3 DEF ActivateReceived
  <2>4. CASE FinishReceive(p)
    BY <2>4 DEF FinishReceive
  <2> QED BY <1>1, <2>1, <2>2, <2>3, <2>4
<1>2. CASE BumpPackset
  BY <1>0, <1>2 DEF BumpPackset
<1>3. ASSUME ~BumpPackset, \A p \in Push : ~(BeginReceive(p) \/ AbandonReceive(p)
                               \/ ActivateReceived(p) \/ FinishReceive(p))
      PROVE  packset' = packset /\ rlease' = rlease /\ received' = received
  <2>1. ASSUME NEW d \in Cmp, JobStep(d)
        PROVE  packset' = packset /\ rlease' = rlease /\ received' = received
    BY <2>1 DEF JobStep, StartJob, GetPending, ReadIndex, EnsurePending, PutManifest, CasIndex,
       CompletePublication, BeginNoWork, BeginBusy, BeginCompaction, StageTarget, RewriteFails,
       AbortCompaction, ClearBlockedRequest, CommitCompaction, CleanupStaged, Sweep, repo, history
  <2>2. ASSUME UpsertTarget \/ SupersedeSources \/ WriteMarker \/ ScheduleNext \/ ReleaseCompaction
        PROVE  packset' = packset /\ rlease' = rlease /\ received' = received
    BY <2>2 DEF UpsertTarget, SupersedeSources, WriteMarker, ScheduleNext, ReleaseCompaction, history
  <2>3. ASSUME DeleteStep \/ (\E r \in Reader : BeginRead(r) \/ LoadCatalog(r) \/ EndRead(r))
               \/ RequestCompaction \/ ClearCompactionRequest \/ CompactLeaseExpires
               \/ CommitCallFails \/ UNCHANGED vars
        PROVE  packset' = packset /\ rlease' = rlease /\ received' = received
    BY <2>3 DEF DeleteStep, DeliverDelete, CheckReaders, ClaimSuperseded, ErasePacks, RemoveRows,
       BeginRead, LoadCatalog, EndRead, RequestCompaction, ClearCompactionRequest, CommitCallFails,
       CompactLeaseExpires, repo, history, vars
  <2> QED BY <1>3, <2>1, <2>2, <2>3 DEF Next, CommitStep
<1> QED BY <1>0, <1>1, <1>2, <1>3


\* The plan of a consumer that still holds its lease survives every step, unless
\* a receive comes between.
LEMMA PlansStep ==
  ASSUME BaseInv, PlanInv, [Next]_vars, NEW c \in Cmp
  PROVE  /\ job'[c].packset <= packset'
         /\ job'[c].pc \in {"rewrite", "staged"} /\ clease'.token = c
              /\ packset' = job'[c].packset /\ rlease' \notin received'
            => PlanOf(job[c].src, job[c].tier - 1)'
<1>0. /\ job \in [Cmp -> Jobs] /\ job[c].packset \in Nat /\ packset \in Nat
      /\ packset' = packset \/ packset' = packset + 1
      /\ job[c].packset <= packset
  BY PacksetChange DEF BaseInv, TypeOK, Jobs, PlanInv
<1>1. CASE BeginCompaction(c)
  <2>1. row' = row /\ packset' = packset
    BY <1>1 DEF BeginCompaction
  <2>2. PICK S, t : S = job'[c].src /\ t = job'[c].tier - 1
    OBVIOUS
  <2>3. PlanOf(S, t) /\ job'[c].packset = packset
    BY <1>1, <2>2, BeginPlan
  <2>4. PlanOf(S, t)'
    BY <2>1, <2>3, SameRows, SameActive
  <2>5. PlanOf(job[c].src, job[c].tier - 1)'
    BY <2>2, <2>4 DEF PlanOf
  <2> QED BY <1>0, <2>1, <2>3, <2>5
<1>2. CASE ~BeginCompaction(c)
  <2>1. /\ job'[c].src = job[c].src /\ job'[c].packset = job[c].packset /\ job'[c].tier = job[c].tier
        /\ job'[c].pc \in {"rewrite", "staged"} => job[c].pc \in {"rewrite", "staged"}
    BY <1>2, PlanKept
  <2>2. job'[c].packset <= packset'
    BY <1>0, <2>1
  <2>3. ASSUME job'[c].pc \in {"rewrite", "staged"}, clease'.token = c,
               packset' = job'[c].packset, rlease' \notin received'
        PROVE  PlanOf(job[c].src, job[c].tier - 1)'
    <3>1. packset' = packset /\ packset = job[c].packset
      BY <1>0, <2>1, <2>3
    <3>2. clease.token = c
      BY <1>2, <2>3, LeaseGranted
    <3>3. rlease \notin received
      BY <1>0, <2>3, <3>1, PacksetChange
    <3>4. PlanOf(job[c].src, job[c].tier - 1)
      BY <2>1, <2>3, <3>1, <3>2, <3>3 DEF PlanInv
    <3>5. h = Idle
      BY <2>1, <2>3, <3>2 DEF BaseInv, HandlerOK
    <3>6. \A p \in Push : ~ActivateReceived(p)
      BY <2>3 DEF ActivateReceived
    <3>7. ~UpsertTarget /\ ~SupersedeSources
      BY <3>5 DEF Idle, UpsertTarget, SupersedeSources
    <3>8. PICK S, t : S = job[c].src /\ t = job[c].tier - 1
      OBVIOUS
    <3>9. PlanOf(S, t)'
      BY <3>4, <3>6, <3>7, <3>8, ActiveKept, SameActive
    <3> QED BY <2>1, <3>8, <3>9 DEF PlanOf
  <2> QED BY <2>2, <2>3
<1> QED BY <1>1, <1>2

\* The commit that starts has a valid plan, and keeps it until it writes.
LEMMA CommitPlan ==
  ASSUME BaseInv, PlanInv, [Next]_vars, h'.pc = "upsert"
  PROVE  PlanOf(job[h.token].src, job[h.token].tier - 1)'
<1>0. TypeOK /\ TypeOK'
  BY TypeStep DEF BaseInv
<1>a. ~CommitStep
  BY <1>0 DEF CommitStep, UpsertTarget, SupersedeSources, BumpPackset, WriteMarker, ScheduleNext,
     ReleaseCompaction, Goto, TypeOK, Handlers, Idle
<1>b. \A p \in Push : ActivateReceived(p) => h' = Idle
  BY DEF ActivateReceived
<1>c. Active' = Active /\ \A k \in Active : row'[k] = row[k]
  BY <1>a, <1>b, ActiveKept DEF CommitStep, Idle
<1>1. CASE h.pc = "upsert"
  <2>1. h # Idle /\ h' = h /\ h.token \in Cmp
    <3>1. h # Idle /\ h.token \in Cmp
      BY <1>0, <1>1 DEF Idle, TypeOK, Handlers
    <3>2. CASE CommitCallFails
      BY <3>1, <3>2 DEF CommitCallFails, Idle
    <3>3. CASE ~CommitCallFails
      BY <1>a, <3>1, <3>3, HandlerExclusive
    <3> QED BY <3>1, <3>2, <3>3
  <2>2. ~BeginCompaction(h.token)
    BY <2>1 DEF BeginCompaction
  <2>3. job'[h.token].src = job[h.token].src /\ job'[h.token].tier = job[h.token].tier
    BY <2>1, <2>2, PlanKept
  <2>4. PICK S, t : S = job[h.token].src /\ t = job[h.token].tier - 1
    OBVIOUS
  <2>5. PlanOf(S, t)'
    BY <1>1, <1>c, <2>4, SameActive DEF PlanInv
  <2> QED BY <2>1, <2>3, <2>4, <2>5 DEF PlanOf
<1>2. CASE h.pc # "upsert"
  <2>1. PICK c \in Cmp : CommitCompaction(c) /\ CommitAllowed(c) /\ h' = [token |-> c, pc |-> "upsert"]
    <3>1. h' # h
      BY <1>2
    <3>2. ~CommitCallFails
      BY <3>1 DEF CommitCallFails, Idle
    <3> QED BY <1>a, <3>1, <3>2, HandlerAlone
  <2>2. job[c].pc = "staged" /\ clease.token = c /\ packset = job[c].packset /\ rlease = None
    BY <2>1 DEF CommitCompaction, CommitAllowed
  <2>3. rlease \notin received
    BY <1>0, <2>2, PackAssumption DEF TypeOK
  <2>4. PlanOf(job[c].src, job[c].tier - 1)
    BY <2>2, <2>3 DEF PlanInv
  <2>5. ~BeginCompaction(c)
    BY <2>2 DEF BeginCompaction
  <2>6. job'[c].src = job[c].src /\ job'[c].tier = job[c].tier
    BY <2>5, PlanKept
  <2>7. PICK S, t : S = job[c].src /\ t = job[c].tier - 1
    OBVIOUS
  <2>8. PlanOf(S, t)'
    BY <1>c, <2>4, <2>7, SameActive
  <2> QED BY <2>1, <2>6, <2>7, <2>8 DEF PlanOf
<1> QED BY <1>1, <1>2

\* Who changes the record of the need.
LEMMA NeedChange ==
  ASSUME [Next]_vars
  PROVE  \/ UNCHANGED <<wanted, withdrawn>>
         \/ \E p \in Push : FinishReceive(p)
         \/ \E c \in Cmp : BeginNoWork(c) \/ ClearBlockedRequest(c)
         \/ RequestCompaction \/ ClearCompactionRequest \/ ScheduleNext
<1>1. ASSUME NEW p \in Push, BeginReceive(p) \/ AbandonReceive(p) \/ ActivateReceived(p)
      PROVE  UNCHANGED <<wanted, withdrawn>>
  BY <1>1 DEF BeginReceive, AbandonReceive, ActivateReceived, history
<1>2. ASSUME NEW c \in Cmp, JobStep(c), ~BeginNoWork(c), ~ClearBlockedRequest(c)
      PROVE  UNCHANGED <<wanted, withdrawn>>
  BY <1>2 DEF JobStep, StartJob, GetPending, ReadIndex, EnsurePending, PutManifest, CasIndex,
     CompletePublication, BeginBusy, BeginCompaction, StageTarget, RewriteFails, AbortCompaction,
     CommitCompaction, CleanupStaged, Sweep, repo, history
<1>3. ASSUME CommitStep, ~ScheduleNext
      PROVE  UNCHANGED <<wanted, withdrawn>>
  BY <1>3 DEF CommitStep, UpsertTarget, SupersedeSources, BumpPackset, WriteMarker,
     ReleaseCompaction, history
<1>4. ASSUME DeleteStep \/ (\E r \in Reader : BeginRead(r) \/ LoadCatalog(r) \/ EndRead(r))
             \/ CompactLeaseExpires \/ CommitCallFails \/ UNCHANGED vars
      PROVE  UNCHANGED <<wanted, withdrawn>>
  BY <1>4 DEF DeleteStep, DeliverDelete, CheckReaders, ClaimSuperseded, ErasePacks, RemoveRows,
     BeginRead, LoadCatalog, EndRead, CompactLeaseExpires, CommitCallFails, repo, history, vars
<1> QED BY <1>1, <1>2, <1>3, <1>4 DEF Next


\* The need stays recorded.
LEMMA NeedStep ==
  ASSUME BaseInv, PlanInv, [Next]_vars
  PROVE  NeedRecorded'
<1>0. TypeOK /\ NeedRecorded /\ None \notin received
  BY PackAssumption DEF BaseInv, PlanInv, TypeOK
<1>1. ASSUME NEW p \in Push, FinishReceive(p)
      PROVE  NeedRecorded'
  <2>1. NeedsCompaction' = NeedsCompaction
    BY <1>1, SameRows DEF FinishReceive
  <2>2. NeedsCompaction => wanted'
    BY <1>1, Zenon DEF FinishReceive
  <2> QED BY <2>1, <2>2, Zenon DEF NeedRecorded
<1>2. ASSUME NEW c \in Cmp, BeginNoWork(c)
      PROVE  NeedRecorded'
  <2>1. NeedsCompaction' = NeedsCompaction /\ rlease' = rlease /\ received' = received
    BY <1>2, SameRows DEF BeginNoWork, history
  <2>2. NeedsCompaction => ~wanted /\ withdrawn' = withdrawn
    BY <1>2, Zenon DEF BeginNoWork, NoWork, history
  <2> QED BY <1>0, <2>1, <2>2, Zenon DEF NeedRecorded
<1>3. ASSUME NEW c \in Cmp, ClearBlockedRequest(c)
      PROVE  NeedRecorded'
  <2>1. wanted' \/ withdrawn'
    BY <1>3, Zenon DEF ClearBlockedRequest
  <2> QED BY <2>1, Zenon DEF NeedRecorded
<1>4. CASE RequestCompaction \/ ScheduleNext
  <2>1. row' = row /\ wanted' = NeedsCompaction
    BY <1>4, Zenon DEF RequestCompaction, ScheduleNext
  <2>2. NeedsCompaction' = NeedsCompaction
    BY <2>1, SameRows
  <2> QED BY <2>1, <2>2, Zenon DEF NeedRecorded
<1>5. CASE ClearCompactionRequest
  BY <1>5, Zenon DEF ClearCompactionRequest, NeedRecorded
<1>6. CASE UNCHANGED <<wanted, withdrawn>> /\ \A p \in Push : ~FinishReceive(p)
  <2>1. CASE UpsertTarget \/ SupersedeSources
    <3>1. h.pc \in {"upsert", "supersede"}
      BY <2>1 DEF UpsertTarget, SupersedeSources
    <3>2. wanted \/ withdrawn
      BY <3>1, Zenon DEF PlanInv
    <3> QED BY <1>6, <3>2, Zenon DEF NeedRecorded
  <2>2. ASSUME NEW p \in Push, ActivateReceived(p)
        PROVE  NeedRecorded'
    BY <2>2, Zenon DEF ActivateReceived, NeedRecorded
  <2>3. CASE /\ ~UpsertTarget /\ ~SupersedeSources
             /\ \A p \in Push : ~ActivateReceived(p)
    <3>1. NeedsCompaction' = NeedsCompaction
      BY <2>3, ActiveKept, SameActive
    <3>2. rlease \in received => rlease' \in received'
      <4>1. ASSUME NEW p \in Push, BeginReceive(p) \/ AbandonReceive(p)
            PROVE  rlease \notin received
        BY <1>0, <4>1 DEF BeginReceive, AbandonReceive
      <4>2. \/ \E p \in Push : BeginReceive(p) \/ AbandonReceive(p)
            \/ UNCHANGED <<rlease, received>>
        <5>1. ASSUME NEW d \in Cmp, JobStep(d)
              PROVE  UNCHANGED <<rlease, received>>
          BY <5>1 DEF JobStep, StartJob, GetPending, ReadIndex, EnsurePending, PutManifest, CasIndex,
             CompletePublication, BeginNoWork, BeginBusy, BeginCompaction, StageTarget, RewriteFails,
             AbortCompaction, ClearBlockedRequest, CommitCompaction, CleanupStaged, Sweep, repo,
             history
        <5>2. ASSUME CommitStep
              PROVE  UNCHANGED <<rlease, received>>
          BY <5>2 DEF CommitStep, UpsertTarget, SupersedeSources, BumpPackset, WriteMarker,
             ScheduleNext, ReleaseCompaction, history
        <5>3. ASSUME DeleteStep \/ (\E r \in Reader : BeginRead(r) \/ LoadCatalog(r) \/ EndRead(r))
                     \/ RequestCompaction \/ ClearCompactionRequest \/ CompactLeaseExpires
                     \/ CommitCallFails \/ UNCHANGED vars
              PROVE  UNCHANGED <<rlease, received>>
          BY <5>3 DEF DeleteStep, DeliverDelete, CheckReaders, ClaimSuperseded, ErasePacks,
             RemoveRows, BeginRead, LoadCatalog, EndRead, RequestCompaction, ClearCompactionRequest,
             CommitCallFails, CompactLeaseExpires, repo, history, vars
        <5> QED BY <1>6, <2>3, <5>1, <5>2, <5>3 DEF Next
      <4> QED BY <4>1, <4>2
    <3> QED BY <1>0, <1>6, <3>1, <3>2, Zenon DEF NeedRecorded
  <2> QED BY <2>1, <2>2, <2>3
<1> QED BY <1>1, <1>2, <1>3, <1>4, <1>5, <1>6, NeedChange

\* While the handler runs, the need it works on is recorded.
LEMMA HandlerNeed ==
  ASSUME BaseInv, PlanInv, [Next]_vars,
         h'.pc \in {"upsert", "supersede", "bump", "marker", "schedule"}
  PROVE  wanted' \/ withdrawn'
<1>0. TypeOK /\ NeedRecorded /\ None \notin received
  BY PackAssumption DEF BaseInv, PlanInv, TypeOK
<1>a. h.pc \in {"upsert", "supersede", "bump", "marker", "schedule"} => wanted \/ withdrawn
  BY Zenon DEF PlanInv
<1>1. CASE CommitStep
  <2>1. ~ScheduleNext /\ ~ReleaseCompaction
    BY <1>0 DEF ScheduleNext, ReleaseCompaction, Goto, Idle, TypeOK, Handlers
  <2>2. UNCHANGED <<wanted, withdrawn>> /\ h.pc \in {"upsert", "supersede", "bump", "marker"}
    BY <1>1, <2>1 DEF CommitStep, UpsertTarget, SupersedeSources, BumpPackset, WriteMarker, history
  <2> QED BY <1>a, <2>2, Zenon
<1>2. CASE CommitCallFails
  <2>1. UNCHANGED <<wanted, withdrawn>> /\ h' = h
    BY <1>2 DEF CommitCallFails, repo, Idle
  <2> QED BY <1>a, <2>1, Zenon
<1>3. CASE ~CommitStep /\ ~CommitCallFails
  <2>1. CASE h' = h
    <3>1. h # Idle
      BY <2>1 DEF Idle
    <3>2. UNCHANGED <<wanted, withdrawn>>
      BY <1>3, <3>1, HandlerExclusive
    <3> QED BY <1>a, <2>1, <3>2, Zenon
  <2>2. ASSUME NEW c \in Cmp, CommitCompaction(c), CommitAllowed(c), h = Idle
        PROVE  wanted' \/ withdrawn'
    <3>1. job[c].pc = "staged" /\ clease.token = c /\ packset = job[c].packset /\ rlease = None
      BY <2>2 DEF CommitCompaction, CommitAllowed
    <3>2. PlanOf(job[c].src, job[c].tier - 1)
      BY <1>0, <3>1 DEF PlanInv
    <3>3. NeedsCompaction
      BY <3>2, PlanIsNeed
    <3>4. UNCHANGED <<wanted, withdrawn>>
      BY <2>2 DEF CommitCompaction, history
    <3> QED BY <1>0, <3>1, <3>3, <3>4, Zenon DEF NeedRecorded
  <2> QED BY <1>3, <2>1, <2>2, HandlerAlone
<1> QED BY <1>1, <1>2, <1>3

\* There is no plan and no need at the start.
LEMMA PlanInit ==
  ASSUME Init
  PROVE  PlanInv
<1>1. /\ h.pc = "idle" /\ packset = 0 /\ Active = {}
      /\ \A c \in Cmp : job[c].pc = "idle" /\ job[c].packset = 0
  BY DEF Init, Idle, NewJob, Active, NoRow
<1>2. ~NeedsCompaction
  BY <1>1 DEF NeedsCompaction, Overflowing
<1>3. NeedRecorded
  BY <1>2, Zenon DEF NeedRecorded
<1> QED BY <1>1, <1>3 DEF PlanInv

\* The fifth layer is kept by every step.
LEMMA PlanStep ==
  ASSUME BaseInv, PlanInv, [Next]_vars
  PROVE  PlanInv'
<1>1. \A c \in Cmp :
        /\ job'[c].packset <= packset'
        /\ job'[c].pc \in {"rewrite", "staged"} /\ clease'.token = c
             /\ packset' = job'[c].packset /\ rlease' \notin received'
           => PlanOf(job[c].src, job[c].tier - 1)'
  BY PlansStep
<1>2. h'.pc = "upsert" => PlanOf(job[h.token].src, job[h.token].tier - 1)'
  BY CommitPlan
<1>3. h'.pc \in {"upsert", "supersede", "bump", "marker", "schedule"} => wanted' \/ withdrawn'
  BY HandlerNeed
<1>4. NeedRecorded'
  BY NeedStep
<1> QED BY <1>1, <1>2, <1>3, <1>4, Zenon DEF PlanInv


------------------------------------------------------------------------------
(* The order of the packs *)

\* Two packs in order: disjoint, and the one of the higher tier older.
InOrder(j, k) ==
  /\ j # k => row[j].hi < row[k].lo \/ row[k].hi < row[j].lo
  /\ row[j].tier > row[k].tier => row[j].hi < row[k].lo

\* The ranges of the served packs are numbers, in order from their ends.
LEMMA ServingRanges ==
  ASSUME BaseInv
  PROVE  /\ Serving \subseteq Active /\ Active \subseteq Pack
         /\ \A k \in Active : /\ row[k].lo \in Nat /\ row[k].hi \in Nat /\ row[k].tier \in Nat
                              /\ row[k].lo <= row[k].hi /\ row[k].hi < nextSeq
         /\ nextSeq \in Nat
BY DEF BaseInv, TypeOK, RangesBounded, Rows, Serving, Active

\* Without an interruption a step changes what is served only by a receive and
\* by putting a target in the place of its sources.
LEMMA ServingChange ==
  ASSUME BaseInv, [Next]_vars, ~CommitCallFails, ~UpsertTarget,
         \A p \in Push : ~ActivateReceived(p)
  PROVE  Serving' = Serving /\ \A k \in Serving : row'[k] = row[k]
<1>0. TypeOK /\ h \in Handlers
  BY DEF BaseInv, TypeOK
<1>1. CASE SupersedeSources
  <2>1. PICK c \in Cmp : c = h.token
    BY <1>0, <1>1 DEF SupersedeSources, Handlers, Idle
  <2>2. h.pc = "supersede"
    BY <1>1 DEF SupersedeSources
  <2> QED BY <1>1, <2>1, <2>2, SupersedeRows DEF Serving, Active
<1>2. CASE ~SupersedeSources
  <2>1. Active' = Active /\ \A k \in Active : row'[k] = row[k]
    BY <1>2, ActiveKept
  <2>2. CASE h.pc = "supersede"
    <3>1. h # Idle /\ ~CommitStep
      BY <1>2, <2>2 DEF Idle, CommitStep, UpsertTarget, BumpPackset, WriteMarker, ScheduleNext,
         ReleaseCompaction
    <3>2. h' = h /\ job'[h.token].src = job[h.token].src
      BY <3>1, HandlerExclusive
    <3> QED BY <2>1, <2>2, <3>2 DEF Serving
  <2>3. CASE h.pc # "supersede"
    <3>1. h'.pc # "supersede"
      <4>1. CASE CommitStep
        BY <1>0, <1>2, <4>1 DEF CommitStep, BumpPackset, WriteMarker, ScheduleNext,
           ReleaseCompaction, Goto, Idle, Handlers
      <4>2. CASE ~CommitStep
        BY <2>3, <4>2, HandlerAlone
      <4> QED BY <4>1, <4>2
    <3> QED BY <2>1, <2>3, <3>1 DEF Serving
  <2> QED BY <2>1, <2>2, <2>3 DEF Serving
<1> QED BY <1>1, <1>2

\* A target takes the place of its sources: it is younger than all packs of
\* higher tiers and older than the rest.
LEMMA TargetInOrder ==
  ASSUME BaseInv, UpsertTarget, NEW c \in Cmp, c = h.token,
         PlanOf(job[c].src, job[c].tier - 1),
         \A j, k \in Active : InOrder(j, k),
         NEW o \in Active \ job[c].src, o # c
  PROVE  InOrder(o, c)' /\ InOrder(c, o)'
<1>0. /\ TypeOK /\ RangesBounded /\ c \in Pack /\ o \in Pack
      /\ job[c].tier \in Nat
  BY DEF BaseInv, TypeOK, Jobs, Pack, Active
<1> DEFINE S == job[c].src
           T == job[c].tier
<1>1. /\ row'[c].tier = T /\ row'[c].lo = MinLo(S) /\ row'[c].hi = MaxHi(S)
      /\ row'[o] = row[o]
      /\ S # {} /\ S \subseteq Active
  BY <1>0, UpsertRow
<1>2. PICK a \in S : MinLo(S) = row[a].lo
  BY <1>0, <1>1, RangeOfSources
<1>3. PICK b \in S : MaxHi(S) = row[b].hi
  BY <1>0, <1>1, RangeOfSources
<1>4. /\ row[o].lo \in Nat /\ row[o].hi \in Nat /\ row[o].tier \in Nat /\ row[o].lo <= row[o].hi
      /\ \A s \in S : /\ row[s].lo \in Nat /\ row[s].hi \in Nat /\ row[s].lo <= row[s].hi
                      /\ row[s].tier = T - 1
  BY <1>1, ServingRanges DEF PlanOf, TierOf
<1>5. \A s \in S : InOrder(s, o) /\ InOrder(o, s) /\ s # o
  BY <1>1
<1>6. CASE row[o].tier <= T - 1
  <2>1. row[b].hi < row[o].lo
    <3>1. CASE row[o].tier = T - 1
      <4>1. row[b].lo <= row[o].lo
        BY <3>1 DEF PlanOf, TierOf
      <4> QED BY <1>4, <1>5, <4>1 DEF InOrder
    <3>2. CASE row[o].tier < T - 1
      BY <1>4, <1>5, <3>2 DEF InOrder
    <3> QED BY <1>0, <1>4, <1>6, <3>1, <3>2
  <2> QED BY <1>0, <1>1, <1>3, <1>4, <1>6, <2>1 DEF InOrder
<1>7. CASE row[o].tier > T - 1
  <2>1. row[o].hi < row[a].lo
    BY <1>4, <1>5, <1>7 DEF InOrder
  <2> QED BY <1>0, <1>1, <1>2, <1>4, <1>7, <2>1 DEF InOrder
<1> QED BY <1>0, <1>4, <1>6, <1>7

\* Nothing is served at the start.
LEMMA OrderInit ==
  ASSUME Init
  PROVE  OrderInv
BY DEF Init, OrderInv, Serving, Active, NoRow, Idle

\* The sixth layer is kept by every step.
LEMMA OrderStep ==
  ASSUME BaseInv, PlanInv, OrderInv, [Next]_vars
  PROVE  OrderInv'
<1> SUFFICES ASSUME faults' = 0
             PROVE  \A j, k \in Serving' : InOrder(j, k)'
  BY DEF OrderInv, InOrder
<1>0. faults = 0 /\ ~CommitCallFails
  <2>1. faults \in Nat
    BY DEF BaseInv, TypeOK
  <2>2. ~CommitCallFails
    BY <2>1 DEF CommitCallFails
  <2>3. faults' = faults
    <3>1. ASSUME NEW p \in Push, BeginReceive(p) \/ AbandonReceive(p) \/ ActivateReceived(p)
                 \/ FinishReceive(p)
          PROVE  faults' = faults
      BY <3>1 DEF BeginReceive, AbandonReceive, ActivateReceived, FinishReceive, history
    <3>2. ASSUME NEW d \in Cmp, JobStep(d)
          PROVE  faults' = faults
      BY <3>2 DEF JobStep, StartJob, GetPending, ReadIndex, EnsurePending, PutManifest, CasIndex,
         CompletePublication, BeginNoWork, BeginBusy, BeginCompaction, StageTarget, RewriteFails,
         AbortCompaction, ClearBlockedRequest, CommitCompaction, CleanupStaged, Sweep, history
    <3>3. ASSUME CommitStep
          PROVE  faults' = faults
      BY <3>3 DEF CommitStep, UpsertTarget, SupersedeSources, BumpPackset, WriteMarker,
         ScheduleNext, ReleaseCompaction, history
    <3>4. ASSUME DeleteStep \/ (\E r \in Reader : BeginRead(r) \/ LoadCatalog(r) \/ EndRead(r))
                 \/ RequestCompaction \/ ClearCompactionRequest \/ CompactLeaseExpires
                 \/ UNCHANGED vars
          PROVE  faults' = faults
      BY <3>4 DEF DeleteStep, DeliverDelete, CheckReaders, ClaimSuperseded, ErasePacks,
         RemoveRows, BeginRead, LoadCatalog, EndRead, RequestCompaction, ClearCompactionRequest,
         CompactLeaseExpires, history, vars
    <3> QED BY <2>2, <3>1, <3>2, <3>3, <3>4 DEF Next
  <2> QED BY <2>2, <2>3
<1>a. \A j, k \in Serving : InOrder(j, k)
  BY <1>0 DEF OrderInv, InOrder
<1>1. ASSUME NEW p \in Push, ActivateReceived(p)
      PROVE  \A j, k \in Serving' : InOrder(j, k)'
  <2>1. Serving = Active /\ Serving' = Active' /\ Active' = Active \cup {p} /\ p \notin Active
    BY <1>1, ActivateRow DEF ActivateReceived, Idle, Serving
  <2>2. \A k \in Active : row'[k] = row[k] /\ k # p
    BY <1>1, <2>1, ActivateRow, ServingRanges
  <2>3. row'[p].tier = 0 /\ row'[p].lo = nextSeq /\ row'[p].hi = nextSeq
    BY <1>1, ActivateRow
  <2>4. \A k \in Active : InOrder(k, p)' /\ InOrder(p, k)'
    BY <2>2, <2>3, ServingRanges DEF InOrder
  <2>5. \A j, k \in Active : InOrder(j, k)'
    BY <1>a, <2>1, <2>2 DEF InOrder
  <2>6. InOrder(p, p)'
    BY <2>3 DEF InOrder
  <2> QED BY <2>1, <2>4, <2>5, <2>6
<1>2. CASE UpsertTarget
  <2>1. PICK c \in Cmp : c = h.token
    BY <1>2 DEF UpsertTarget, BaseInv, TypeOK, Handlers, Idle
  <2>2. h.pc = "upsert" /\ PlanOf(job[c].src, job[c].tier - 1)
    BY <1>2, <2>1 DEF UpsertTarget, PlanInv
  <2>3. /\ Serving = Active /\ Serving' = (Active \cup {c}) \ job[c].src
        /\ \A k \in Pack : k # c => row'[k] = row[k]
    BY <1>2, <2>1, <2>2, UpsertRow DEF Serving
  <2>4. \A j, k \in Active : InOrder(j, k)
    BY <1>a, <2>3
  <2>5. \A o \in Active \ job[c].src : o # c => InOrder(o, c)' /\ InOrder(c, o)'
    BY <1>2, <2>1, <2>2, <2>4, TargetInOrder
  <2>6. \A j, k \in Active \ {c} : InOrder(j, k)'
    BY <2>3, <2>4 DEF InOrder, Active
  <2>7. InOrder(c, c)'
    <3>1. row'[c].tier \in Nat
      BY <1>2, <2>1, UpsertRow DEF BaseInv, TypeOK, Jobs
    <3> QED BY <3>1 DEF InOrder
  <2> QED BY <2>3, <2>5, <2>6, <2>7
<1>3. CASE ~UpsertTarget /\ \A p \in Push : ~ActivateReceived(p)
  <2>1. Serving' = Serving /\ \A k \in Serving : row'[k] = row[k]
    BY <1>0, <1>3, ServingChange
  <2> QED BY <1>a, <2>1 DEF InOrder
<1> QED BY <1>1, <1>2, <1>3


------------------------------------------------------------------------------
(* The theorems *)

\* The layers together are an inductive invariant of receives, consumers,
\* commits, deletions and readers in every interleaving, with any number of
\* commit calls that fail after which the consumer is gone.
THEOREM CompactionInvariant ==
  ASSUME NoCatch
  PROVE  Spec => []CompactionInv
<1>1. Init => CompactionInv
  BY BaseInit, DataInit, ReadersInit, PublicationInit, PlanInit, OrderInit DEF CompactionInv
<1>2. CompactionInv /\ [Next]_vars => CompactionInv'
  BY BaseStep, DataStep, ReadersStep, PublicationStep, PlanStep, OrderStep DEF CompactionInv
<1> QED BY <1>1, <1>2, PTL DEF Spec

\* Compaction loses nothing and serves nothing twice: every received push stays
\* in a stored pack that the catalog serves, and the packs served are disjoint
\* unless a commit was interrupted.
THEOREM CompactionLosesNothing ==
  ASSUME NoCatch
  PROVE  Spec => []NothingLost
<1>1. CompactionInv => NothingLost
  <2> SUFFICES ASSUME CompactionInv
               PROVE  NothingLost
    OBVIOUS
  <2>1. TypeOK /\ NoReceiveLost
    BY DEF CompactionInv, BaseInv, DataInv
  <2>2. ActiveDisjoint
    <3>1. h = Idle => Serving = Active
      BY DEF Serving, Idle
    <3> QED BY <3>1 DEF ActiveDisjoint, CompactionInv, OrderInv
  <2> QED BY <2>1, <2>2 DEF NothingLost
<1> QED BY <1>1, CompactionInvariant, PTL

\* Every pack the catalog serves is in the bucket, whatever deletion messages
\* are late, duplicated or overtaken by a commit.
THEOREM ServedPacksStored ==
  ASSUME NoCatch
  PROVE  Spec => []ActiveStored
<1>1. CompactionInv => ActiveStored
  BY DEF CompactionInv, DataInv
<1> QED BY <1>1, CompactionInvariant, PTL

\* A reader under its lease finds the packs of its snapshot, and the published
\* generation names stored packs once nothing is pending and no commit broke
\* off between its supersede and its marker.
THEOREM DeletionRespectsReaders ==
  ASSUME NoCatch
  PROVE  Spec => []StillReadable
<1>1. CompactionInv => StillReadable
  <2> SUFFICES ASSUME CompactionInv
               PROVE  StillReadable
    OBVIOUS
  <2>0. TypeOK /\ index \in Nat \cup {-1} /\ NoGeneration.gen = -1
    BY DEF CompactionInv, BaseInv, TypeOK, NoGeneration
  <2>1. ReadersUndisturbed
    <3>1. \A r \in Reader : snap[r].keys \subseteq Pack
      BY <2>0 DEF TypeOK, Snaps
    <3>2. \A r \in Reader : \A k \in snap[r].keys : data[k] # {}
      BY DEF CompactionInv, ReadersInv, ReaderOK
    <3> QED BY <2>0, <3>1, <3>2 DEF ReadersUndisturbed, Stored, TypeOK
  <2>2. PublishedStored
    <3> SUFFICES ASSUME pending = NoGeneration, ~torn,
                        NEW m \in manifests, m.gen = index, NEW k \in m.keys
                 PROVE  k \in Stored
      BY DEF PublishedStored
    <3>1. pending.gen <= index
      BY <2>0
    <3>2. Safe(k)
      BY <3>1 DEF CompactionInv, PublicationInv
    <3>3. k \in Pack
      BY <2>0 DEF TypeOK, Generations
    <3> QED BY <3>2, <3>3 DEF Safe, Stored
  <2> QED BY <2>1, <2>2 DEF StillReadable
<1> QED BY <1>1, CompactionInvariant, PTL

\* The need for compaction is never forgotten.
THEOREM NeedIsRecorded ==
  ASSUME NoCatch
  PROVE  Spec => []NeedRecorded
<1>1. CompactionInv => NeedRecorded
  BY DEF CompactionInv, PlanInv
<1> QED BY <1>1, CompactionInvariant, PTL

=============================================================================
