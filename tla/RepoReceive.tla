----------------------------- MODULE RepoReceive -----------------------------
(***************************************************************************)
(* The streaming push path of one repository: the Worker that serves a     *)
(* `git push`, the repository Durable Object (RepoDO) that owns refs, the   *)
(* receive lease, the finalize write-ahead intent and the pack catalog, and *)
(* the R2 bucket that holds the pushed packs.                              *)
(*                                                                         *)
(* The Durable Object runs one handler at a time (its input gate is closed *)
(* while a handler waits for storage) but it may be evicted or throw       *)
(* between any two durable writes, so every action below that writes       *)
(* storage performs exactly one durable write (one put, one SQL statement  *)
(* or one storage.transaction).  A call from the Worker may be delivered   *)
(* after the Worker stopped waiting for it, and its answer may be lost.     *)
(***************************************************************************)
EXTENDS Integers, FiniteSets

CONSTANTS
  Ref,             \* ref names
  Push,            \* push sessions; a session is its lease token, its pack
                   \* key (pack-rx-<token>) and the commit it pushes
  None,            \* no lease, no commit (the zero oid)
  FanIn,           \* COMPACTION_FAN_IN
  MaxOutcomes,     \* MAX_RECEIVE_OUTCOMES
  MaxRefsVersion,  \* bound: administrators stop writing refs at this version
  MaxCrash         \* bound on evictions of the Durable Object

ASSUME NoneAssumption == None \notin Push
ASSUME BoundAssumption ==
  /\ FanIn \in Nat
  /\ MaxOutcomes \in Nat \ {0}
  /\ MaxRefsVersion \in Nat
  /\ MaxCrash \in Nat

VARIABLES
  \* Durable Object storage
  refs,            \* refs[r]: the oid, None when the ref does not exist
  head,            \* head.target, head.oid (None when unborn)
  refsVersion,
  packsetVersion,
  nextPackSeq,
  catalog,         \* catalog[p]: sequence number of p's active row, 0 if none
  lease,           \* receiveLease: token, and whether it is unexpired
  intents,         \* receiveFinalizeIntent:<token>
  outcomes,        \* receiveOutcome:<token>: "none", or whether it asks for
                   \* compaction (shouldQueueCompaction)
  wanted,          \* compactionWantedAt is recorded
  alarm,           \* an alarm is due (the recovery alarm of the intent)
  \* Durable Object memory
  h,               \* the running handler: what started it, token, next step
  \* the bucket
  bucket,          \* packs whose objects are in R2
  \* the Workers and their calls in flight
  worker,          \* where each push session is
  cmds,            \* the ref commands of each push
  begRefs,         \* the refs beginReceive returned
  calls,           \* undelivered finalizeReceive / reconcileReceive calls
  \* history
  landed,          \* pushes whose commands were published
  crashes

durable == <<refs, head, refsVersion, packsetVersion, nextPackSeq, catalog,
             lease, intents, outcomes, wanted, alarm>>
session == <<worker, cmds, begRefs>>
vars == <<refs, head, refsVersion, packsetVersion, nextPackSeq, catalog,
          lease, intents, outcomes, wanted, alarm, h, bucket, worker, cmds,
          begRefs, calls, landed, crashes>>

------------------------------------------------------------------------------
(* Values *)

Oid == Push \cup {None}
Refs == [Ref -> Oid]
Heads == [target : Ref, oid : Oid]

\* A push's commands: at most one per ref.  A command creates or moves a ref
\* to the pushed commit, or deletes it (new = None).
Commands(p) == UNION {[D -> [old : Oid, new : {p, None}]] : D \in SUBSET Ref}
AllCommands == UNION {[D -> [old : Oid, new : Oid]] : D \in SUBSET Ref}

NoLease == [token |-> None, live |-> FALSE]
Leases == [token : Push, live : BOOLEAN] \cup {NoLease}

NoIntent == [expected |-> -1]
Intents == [expected : Nat, seq : Nat, packset : Nat, head : Heads]

Idle == [by |-> "idle", token |-> None, pc |-> "idle"]
Handlers == [by : {"finalize", "reconcile", "alarm"}, token : Push,
             pc : {"prior", "priorMark", "validate", "upsert", "sequence",
                   "packset", "cas", "store", "mark", "clear", "release",
                   "recStore", "recMark", "recRelease", "infer"}]
             \cup {Idle}

WorkerStates == {"idle", "leased", "staging", "staged", "aborting", "cleanup",
                 "finalizing", "reconciling", "committed", "failed",
                 "conflict", "mismatch", "unknown"}
Calls == {"finalize", "reconcile"} \X Push

NoCommands == [r \in {} |-> [old |-> None, new |-> None]]

HasPack(c) == \E r \in DOMAIN c : c[r].new # None

\* Mutant of Valid: a deletion does not compare its old oid.
ValidAnyDelete(cur, c) ==
  \A r \in DOMAIN c : IF c[r].new = None THEN cur[r] # None ELSE cur[r] = c[r].old

\* validateReceiveCommands: every command's old oid is the current value, and
\* a deletion needs an existing ref.
Valid(cur, c) ==
  \A r \in DOMAIN c : cur[r] = c[r].old /\ (c[r].new = None => cur[r] # None)

\* applyReceiveCommands
Apply(cur, c) ==
  [r \in Ref |-> IF r \in DOMAIN c THEN c[r].new ELSE cur[r]]

\* resolveHeadAfterReceive, resolveHead: the target stays, the oid is looked up
ResolveHead(target, cur) == [target |-> target, oid |-> cur[target]]

Active == {p \in Push : catalog[p] # 0}

\* catalogNeedsCompaction for a catalog of tier-0 receive packs
NeedsCompaction == Cardinality(Active) > FanIn

TypeOK ==
  /\ refs \in Refs
  /\ head \in Heads
  /\ refsVersion \in Nat
  /\ packsetVersion \in Nat
  /\ nextPackSeq \in Nat \ {0}
  /\ catalog \in [Push -> Nat]
  /\ lease \in Leases
  /\ intents \in [Push -> Intents \cup {NoIntent}]
  /\ outcomes \in [Push -> {"none", "quiet", "queue"}]
  /\ wanted \in BOOLEAN
  /\ alarm \in BOOLEAN
  /\ h \in Handlers
  /\ bucket \in SUBSET Push
  /\ worker \in [Push -> WorkerStates]
  /\ cmds \in [Push -> AllCommands]
  /\ begRefs \in [Push -> Refs]
  /\ calls \in SUBSET Calls
  /\ landed \in SUBSET Push
  /\ crashes \in Nat

Init ==
  /\ refs = [r \in Ref |-> None]
  /\ head \in [target : Ref, oid : {None}]
  /\ refsVersion = 0
  /\ packsetVersion = 0
  /\ nextPackSeq = 1
  /\ catalog = [p \in Push |-> 0]
  /\ lease = NoLease
  /\ intents = [p \in Push |-> NoIntent]
  /\ outcomes = [p \in Push |-> "none"]
  /\ wanted = FALSE
  /\ alarm = FALSE
  /\ h = Idle
  /\ bucket = {}
  /\ worker = [p \in Push |-> "idle"]
  /\ cmds = [p \in Push |-> NoCommands]
  /\ begRefs = [p \in Push |-> [r \in Ref |-> None]]
  /\ calls = {}
  /\ landed = {}
  /\ crashes = 0

------------------------------------------------------------------------------
(* The Worker *)

HasIntent(t) == t # None /\ intents[t] # NoIntent
HasOutcome(t) == outcomes[t] # "none"

\* Mutant of Protected: an expired lease protects nothing.
ProtectedWhileLive == lease.token # None /\ lease.live

\* The receive lease excludes other writers: it is unexpired, or it still
\* protects a finalize intent.
Protected == lease.token # None /\ (lease.live \/ HasIntent(lease.token))

\* A push is named by its lease token, a random UUID: which of the unused names
\* the next one takes makes no difference.
FreshToken == CHOOSE p \in Push : worker[p] = "idle"

\* beginReceive grants the lease: none exists, or an expired one protects
\* nothing.  The answer carries the refs; it may be lost.
BeginReceive(p) ==
  /\ worker[p] = "idle" /\ p = FreshToken
  /\ h = Idle
  /\ ~Protected
  /\ lease' = [token |-> p, live |-> TRUE]
  /\ begRefs' = [begRefs EXCEPT ![p] = refs]
  /\ worker' = [worker EXCEPT ![p] = "leased"]
  /\ UNCHANGED <<refs, head, refsVersion, packsetVersion, nextPackSeq, catalog,
                 intents, outcomes, wanted, alarm, h, bucket, cmds, calls,
                 landed, crashes>>

\* beginReceive is refused, and renews the expired lease it found because a
\* finalize intent still needs it.
BeginRefused(p) ==
  /\ worker[p] = "idle"
  /\ h = Idle
  /\ lease.token # None /\ ~lease.live /\ HasIntent(lease.token)
  /\ lease' = [lease EXCEPT !.live = TRUE]
  /\ UNCHANGED <<refs, head, refsVersion, packsetVersion, nextPackSeq, catalog,
                 intents, outcomes, wanted, alarm, h, bucket, session, calls,
                 landed, crashes>>

\* The Worker parses the commands and checks them against the refs that
\* beginReceive returned; a stale expectation aborts the receive.
Preflight(p) ==
  /\ worker[p] = "leased"
  /\ \E c \in Commands(p) :
       /\ cmds' = [cmds EXCEPT ![p] = c]
       /\ worker' = [worker EXCEPT ![p] =
                       IF Valid(begRefs[p], c) THEN "staging" ELSE "aborting"]
  /\ UNCHANGED <<durable, h, bucket, begRefs, calls, landed, crashes>>

\* stagePackToR2, scanPack and resolveDeltasAndWriteIdx store the pack, its
\* idx and its refs sidecar; a push of deletions stores nothing.
StagePack(p) ==
  /\ worker[p] = "staging"
  /\ bucket' = IF HasPack(cmds[p]) THEN bucket \cup {p} ELSE bucket
  /\ worker' = [worker EXCEPT ![p] = "staged"]
  /\ UNCHANGED <<durable, h, cmds, begRefs, calls, landed, crashes>>

\* Indexing fails, connectivity is rejected or the client goes away before
\* finalization was attempted.
GiveUp(p) ==
  /\ worker[p] \in {"staging", "staged"}
  /\ worker' = [worker EXCEPT ![p] = "aborting"]
  /\ UNCHANGED <<durable, h, bucket, cmds, begRefs, calls, landed, crashes>>

\* cleanupFailedReceive: abortReceive reports whether it released this lease.
\* Only then are the staged objects deleted.  A lost answer is retried once
\* (the session may abort again) or leaves the staged pack behind.
AbortReceive(p) ==
  /\ worker[p] = "aborting"
  /\ h = Idle
  /\ lease' = IF lease.token = p THEN NoLease ELSE lease
  /\ \/ /\ lease.token = p
        /\ worker' = [worker EXCEPT ![p] = "cleanup"]
     \/ worker' = [worker EXCEPT ![p] = "failed"]
     \/ /\ lease.token = p
        /\ UNCHANGED worker
  /\ UNCHANGED <<refs, head, refsVersion, packsetVersion, nextPackSeq, catalog,
                 intents, outcomes, wanted, alarm, h, bucket, cmds, begRefs,
                 calls, landed, crashes>>

\* Mutant of Refusals: a lease mismatch and an unknown outcome are cleaned up.
RefusalsAndUnknown == {"cleanup", "conflict", "mismatch", "unknown"}

\* Sessions whose push the object reported as not committed.
Refusals == {"cleanup", "conflict"}

\* cleanupStagedPack, which may fail; a receive that ended in a ref conflict
\* also cleans up.
CleanupStagedPack(p) ==
  /\ worker[p] \in Refusals
  /\ bucket' \in {bucket, bucket \ {p}}
  /\ worker' = [worker EXCEPT ![p] = "failed"]
  /\ UNCHANGED <<durable, h, cmds, begRefs, calls, landed, crashes>>

\* executeReceivePipeline calls finalizeReceive; from here on it never aborts.
CallFinalize(p) ==
  /\ worker[p] = "staged"
  /\ calls' = calls \cup {<<"finalize", p>>}
  /\ worker' = [worker EXCEPT ![p] = "finalizing"]
  /\ UNCHANGED <<durable, h, bucket, cmds, begRefs, landed, crashes>>

\* The finalizeReceive call fails for the Worker (the object was evicted, the
\* connection broke); the Worker asks what happened.
FinalizeFails(p) ==
  /\ worker[p] = "finalizing"
  /\ calls' = calls \cup {<<"reconcile", p>>}
  /\ worker' = [worker EXCEPT ![p] = "reconciling"]
  /\ UNCHANGED <<durable, h, bucket, cmds, begRefs, landed, crashes>>

\* The reconcileReceive call fails too: receive:finalize-outcome-unknown.  The
\* client reads a failed unpack.
ReconcileFails(p) ==
  /\ worker[p] = "reconciling"
  /\ worker' = [worker EXCEPT ![p] = "unknown"]
  /\ UNCHANGED <<durable, h, bucket, cmds, begRefs, calls, landed, crashes>>

------------------------------------------------------------------------------
(* The Durable Object: finalizeReceive, reconcileReceive and the alarm *)

\* What the Worker does with an answer, if it still waits for this call.
Answer(by, t, result) ==
  worker' = [worker EXCEPT ![t] =
    IF \/ by = "finalize" /\ worker[t] = "finalizing"
       \/ by = "reconcile" /\ worker[t] = "reconciling"
    THEN result ELSE @]

\* Mutant of Goto: the handler forgets whom it serves.
GotoForgetting(step) == h' = [Idle EXCEPT !.pc = step]

Goto(step) == h' = [h EXCEPT !.pc = step]

\* holdReceiveCompletionFence: nobody else holds an unexpired lease, and this
\* token either holds an unexpired one or has durable progress to recover.
FenceHeld(t) ==
  /\ ~(lease.token \notin {None, t} /\ lease.live)
  /\ HasIntent(t) \/ HasOutcome(t) \/ (lease.token = t /\ lease.live)

TakeFence(t) == lease' = [token |-> t, live |-> TRUE]

\* Mutant of FinalizeFrom: a replay trusts that the catalog was written.
FinalizeFromRefs(t) ==
  IF HasOutcome(t) THEN "prior" ELSE IF HasIntent(t) THEN "cas" ELSE "validate"

\* Where finalizeReceiveState goes on once it holds the fence.
FinalizeFrom(t) ==
  IF HasOutcome(t) THEN "prior" ELSE IF HasIntent(t) THEN "upsert" ELSE "validate"

\* finalizeReceiveState up to and including its completion fence.
FinalizeReceive(p) ==
  /\ h = Idle
  /\ <<"finalize", p>> \in calls
  /\ calls' = calls \ {<<"finalize", p>>}
  /\ \/ /\ ~FenceHeld(p)
        /\ Answer("finalize", p, "mismatch")
        /\ UNCHANGED <<lease, h>>
     \/ /\ FenceHeld(p)
        /\ TakeFence(p)
        /\ h' = [by |-> "finalize", token |-> p, pc |-> FinalizeFrom(p)]
        /\ UNCHANGED worker
  /\ UNCHANGED <<refs, head, refsVersion, packsetVersion, nextPackSeq, catalog,
                 intents, outcomes, wanted, alarm, bucket, cmds, begRefs,
                 landed, crashes>>

\* reconcileReceiveState up to and including its completion fence; an intent
\* is replayed through finalizeReceiveState.
ReconcileReceive(p) ==
  /\ h = Idle
  /\ <<"reconcile", p>> \in calls
  /\ calls' = calls \ {<<"reconcile", p>>}
  /\ \/ /\ ~FenceHeld(p)
        /\ Answer("reconcile", p, "unknown")
        /\ UNCHANGED <<lease, h>>
     \/ /\ FenceHeld(p)
        /\ TakeFence(p)
        /\ h' = [by |-> "reconcile", token |-> p,
                 pc |-> IF HasOutcome(p) THEN "recStore"
                        ELSE IF HasIntent(p) THEN FinalizeFrom(p) ELSE "infer"]
        /\ UNCHANGED worker
  /\ UNCHANGED <<refs, head, refsVersion, packsetVersion, nextPackSeq, catalog,
                 intents, outcomes, wanted, alarm, bucket, cmds, begRefs,
                 landed, crashes>>

\* resumeReceiveFinalizeFromAlarm: the alarm replays the intent of the lease.
ResumeFinalize ==
  /\ h = Idle
  /\ alarm
  /\ HasIntent(lease.token)
  /\ TakeFence(lease.token)
  /\ h' = [by |-> "alarm", token |-> lease.token,
           pc |-> FinalizeFrom(lease.token)]
  /\ alarm' = FALSE
  /\ UNCHANGED <<refs, head, refsVersion, packsetVersion, nextPackSeq, catalog,
                 intents, outcomes, wanted, bucket, session, calls, landed,
                 crashes>>

\* The alarm with no intent to resume: clearExpiredLeases deletes an expired
\* lease, or renews it when the cleanup of its R2 input fails.
ClearExpiredLease ==
  /\ h = Idle
  /\ ~HasIntent(lease.token)
  /\ \/ /\ lease.token # None /\ ~lease.live
        /\ \/ lease' = NoLease /\ alarm' = FALSE
           \/ lease' = [lease EXCEPT !.live = TRUE] /\ alarm' = TRUE
     \/ /\ alarm
        /\ lease = NoLease \/ lease.live
        /\ alarm' = FALSE
        /\ UNCHANGED lease
  /\ UNCHANGED <<refs, head, refsVersion, packsetVersion, nextPackSeq, catalog,
                 intents, outcomes, wanted, h, bucket, session, calls, landed,
                 crashes>>

\* storeReceiveOutcome: a bounded index; the abstraction lets any other
\* retained outcome be the evicted one.
StoreOutcome(t, queue) ==
  LET others == {p \in Push \ {t} : HasOutcome(p)}
      stored == [outcomes EXCEPT ![t] = queue]
  IN IF Cardinality(others) < MaxOutcomes
     THEN outcomes' = stored
     ELSE \E old \in others : outcomes' = [stored EXCEPT ![old] = "none"]

\* shouldQueueCompaction
QueueFlag(t) == IF HasPack(cmds[t]) /\ NeedsCompaction THEN "queue" ELSE "quiet"

\* A retained outcome answers a repeated finalize: the outcome is stored
\* again, the compaction request recorded, intent and lease removed.
PriorOutcome ==
  /\ h.pc \in {"prior", "recStore"}
  /\ StoreOutcome(h.token, outcomes[h.token])
  /\ Goto(IF h.pc = "prior" THEN "priorMark" ELSE "recMark")
  /\ UNCHANGED <<refs, head, refsVersion, packsetVersion, nextPackSeq, catalog,
                 lease, intents, wanted, alarm, bucket, session, calls, landed,
                 crashes>>

ScheduleRecovery == alarm' = TRUE

\* No intent and no outcome: the lease is re-read, the commands are validated
\* against the current refs, and the intent is stored with its recovery alarm.
WriteIntent ==
  /\ h.pc = "validate"
  /\ LET t == h.token
         c == cmds[t]
         owned == lease.token = t /\ lease.live
     IN \/ /\ ~owned \/ ~Valid(refs, c)
           /\ lease' = IF lease.token = t THEN NoLease ELSE lease
           /\ Answer(h.by, t, IF owned THEN "conflict" ELSE "mismatch")
           /\ h' = Idle
           /\ UNCHANGED <<intents, alarm>>
        \/ /\ owned /\ Valid(refs, c)
           /\ intents' = [intents EXCEPT ![t] =
                [expected |-> refsVersion,
                 seq |-> IF HasPack(c) THEN nextPackSeq ELSE 0,
                 packset |-> IF HasPack(c) THEN packsetVersion + 1 ELSE 0,
                 head |-> ResolveHead(head.target, Apply(refs, c))]]
           /\ ScheduleRecovery
           /\ Goto("upsert")
           /\ UNCHANGED <<lease, worker>>
  /\ UNCHANGED <<refs, head, refsVersion, packsetVersion, nextPackSeq, catalog,
                 outcomes, wanted, bucket, cmds, begRefs, calls, landed,
                 crashes>>

\* Mutant of Throw: the alarm handler does not schedule itself again.
ThrowForGood == h' = Idle /\ UNCHANGED alarm

\* An exception ends the handler; the alarm handler catches it, counts the
\* attempt and schedules itself again.
Throw ==
  /\ h' = Idle
  /\ alarm' = (alarm \/ h.by = "alarm")

\* upsertPackCatalogRow unless the row is active already; an active row with
\* another sequence number is the first FUBAR of finalizeReceiveState.
MisplacedRow(t) == catalog[t] \notin {0, intents[t].seq}

ActivatePack ==
  /\ h.pc = "upsert"
  /\ LET t == h.token IN
     IF HasPack(cmds[t]) /\ MisplacedRow(t)
     THEN Throw /\ UNCHANGED catalog
     ELSE /\ catalog' = IF HasPack(cmds[t])
                        THEN [catalog EXCEPT ![t] = intents[t].seq]
                        ELSE catalog
          /\ Goto(IF HasPack(cmds[t]) THEN "sequence" ELSE "cas")
          /\ UNCHANGED alarm
  /\ UNCHANGED <<refs, head, refsVersion, packsetVersion, nextPackSeq, lease,
                 intents, outcomes, wanted, bucket, session, calls, landed,
                 crashes>>

SequenceAfter(seq) == IF nextPackSeq <= seq THEN seq + 1 ELSE nextPackSeq

AdvanceSequence ==
  /\ h.pc = "sequence"
  /\ nextPackSeq' = SequenceAfter(intents[h.token].seq)
  /\ Goto("packset")
  /\ UNCHANGED <<refs, head, refsVersion, packsetVersion, catalog, lease,
                 intents, outcomes, wanted, alarm, bucket, session, calls,
                 landed, crashes>>

AdvancePackset ==
  /\ h.pc = "packset"
  /\ packsetVersion' = IF packsetVersion < intents[h.token].packset
                       THEN intents[h.token].packset ELSE packsetVersion
  /\ Goto("cas")
  /\ UNCHANGED <<refs, head, refsVersion, nextPackSeq, catalog, lease,
                 intents, outcomes, wanted, alarm, bucket, session, calls,
                 landed, crashes>>

\* The refs a replay finds are neither the ones the intent was written for nor
\* the ones it publishes: "receive refs diverged from durable finalize intent".
Diverged(t) ==
  /\ refsVersion # intents[t].expected
  /\ ~(refsVersion = intents[t].expected + 1 /\ Apply(refs, cmds[t]) = refs)

\* Mutant of PublishedVersion: computed anew instead of taken from the intent.
PublishedVersionAnew(t) == refsVersion + 1

\* nextRefsVersion of the intent
PublishedVersion(t) == intents[t].expected + 1

\* The ref transaction: refs, HEAD and refsVersion together.
PublishRefs ==
  /\ h.pc = "cas"
  /\ LET t == h.token IN
     IF Diverged(t)
     THEN Throw /\ UNCHANGED <<refs, head, refsVersion, landed>>
     ELSE /\ refs' = Apply(refs, cmds[t])
          /\ head' = intents[t].head
          /\ refsVersion' = PublishedVersion(t)
          /\ landed' = landed \cup {t}
          /\ Goto("store")
          /\ UNCHANGED alarm
  /\ UNCHANGED <<packsetVersion, nextPackSeq, catalog, lease, intents,
                 outcomes, wanted, bucket, session, calls, crashes>>

RecordOutcome ==
  /\ h.pc = "store"
  /\ StoreOutcome(h.token, QueueFlag(h.token))
  /\ Goto("mark")
  /\ UNCHANGED <<refs, head, refsVersion, packsetVersion, nextPackSeq, catalog,
                 lease, intents, wanted, alarm, bucket, session, calls, landed,
                 crashes>>

\* markCompactionActivity when the stored outcome asks for compaction.
RequestCompaction ==
  /\ h.pc \in {"mark", "priorMark", "recMark"}
  /\ wanted' = (wanted \/ outcomes[h.token] = "queue")
  /\ Goto(IF h.pc = "recMark" THEN "recRelease" ELSE "clear")
  /\ UNCHANGED <<refs, head, refsVersion, packsetVersion, nextPackSeq, catalog,
                 lease, intents, outcomes, alarm, bucket, session, calls,
                 landed, crashes>>

DeleteIntent ==
  /\ h.pc = "clear"
  /\ intents' = [intents EXCEPT ![h.token] = NoIntent]
  /\ Goto("release")
  /\ UNCHANGED <<refs, head, refsVersion, packsetVersion, nextPackSeq, catalog,
                 lease, outcomes, wanted, alarm, bucket, session, calls,
                 landed, crashes>>

\* The lease is deleted and the call answered; reconcileReceive leaves an
\* intent behind when it found the outcome.
ReleaseLease ==
  /\ h.pc \in {"release", "recRelease"}
  /\ lease' = NoLease
  /\ Answer(h.by, h.token, "committed")
  /\ h' = Idle
  /\ UNCHANGED <<refs, head, refsVersion, packsetVersion, nextPackSeq, catalog,
                 intents, outcomes, wanted, alarm, bucket, cmds, begRefs,
                 calls, landed, crashes>>

\* reconcileReceive without intent or outcome infers what happened from refs
\* and catalog: committed, partial (keep everything), or aborted.
InferOutcome ==
  /\ h.pc = "infer"
  /\ LET t == h.token
         c == cmds[t]
         refsMatch == \A r \in DOMAIN c : refs[r] = c[r].new
         packActive == HasPack(c) => catalog[t] # 0
         partial == HasPack(c) /\ packActive
     IN \/ /\ refsMatch /\ packActive
           /\ StoreOutcome(t, IF NeedsCompaction THEN "queue" ELSE "quiet")
           /\ landed' = landed \cup {t}
           /\ Goto("recRelease")
           /\ UNCHANGED <<lease, worker>>
        \/ /\ ~(refsMatch /\ packActive)
           /\ lease' = IF partial THEN lease ELSE NoLease
           /\ Answer(h.by, t, IF partial THEN "unknown" ELSE "cleanup")
           /\ h' = Idle
           /\ UNCHANGED <<outcomes, landed>>
  /\ UNCHANGED <<refs, head, refsVersion, packsetVersion, nextPackSeq, catalog,
                 intents, wanted, alarm, bucket, cmds, begRefs, calls,
                 crashes>>

------------------------------------------------------------------------------
(* Time, failures and administrators *)

\* A session waits for an answer, or one of its calls is undelivered.
InFlight(p) ==
  worker[p] \in {"finalizing", "reconciling"} \/ \E call \in calls : call[2] = p

\* RECEIVE_LEASE_TTL_MS (30 minutes) passes; nothing bounds how long a Worker
\* or an outage of the object takes, so this may happen between any two steps.
\* The one timing assumption: a session that made durable progress did so
\* before this lease was granted, and its calls do not stay in flight for the
\* lease's whole lifetime.
LeaseExpires ==
  /\ lease.token # None /\ lease.live
  /\ \A p \in Push \ {lease.token} : HasIntent(p) \/ HasOutcome(p) => ~InFlight(p)
  /\ lease' = [lease EXCEPT !.live = FALSE]
  /\ UNCHANGED <<refs, head, refsVersion, packsetVersion, nextPackSeq, catalog,
                 intents, outcomes, wanted, alarm, h, bucket, session, calls,
                 landed, crashes>>

\* A call never reaches the object.
LoseCall ==
  /\ \E call \in calls : calls' = calls \ {call}
  /\ UNCHANGED <<durable, h, bucket, session, landed, crashes>>

\* The object is evicted, or a storage call throws, between two writes of a
\* handler.  The platform delivers an interrupted alarm again.
Crash ==
  /\ h # Idle
  /\ crashes < MaxCrash
  /\ crashes' = crashes + 1
  /\ Throw
  /\ UNCHANGED <<refs, head, refsVersion, packsetVersion, nextPackSeq, catalog,
                 lease, intents, outcomes, wanted, bucket, session, calls,
                 landed>>

\* PUT admin/refs: setRefs replaces all refs unless a receive may be mutating
\* them; an expired lease that protects nothing is removed.  HEAD is untouched.
\* setRefs does not look the commits up: the administrator is taken to name
\* commits of active packs.
AdminSetRefs ==
  /\ h = Idle
  /\ refsVersion < MaxRefsVersion
  /\ ~Protected
  /\ \E new \in [Ref -> Active \cup {None}] : refs' = new
  /\ refsVersion' = refsVersion + 1
  /\ lease' = NoLease
  /\ UNCHANGED <<head, packsetVersion, nextPackSeq, catalog, intents, outcomes,
                 wanted, alarm, h, bucket, session, calls, landed, crashes>>

\* PUT admin/head: setHead under the same exclusion.
AdminSetHead ==
  /\ h = Idle
  /\ ~Protected
  /\ head' \in Heads
  /\ lease' = NoLease
  /\ UNCHANGED <<refs, refsVersion, packsetVersion, nextPackSeq, catalog,
                 intents, outcomes, wanted, alarm, h, bucket, session, calls,
                 landed, crashes>>

\* getHead, getHeadAndRefs: resolveHead stores the head it resolved.
GetHead ==
  /\ h = Idle
  /\ head' = ResolveHead(head.target, refs)
  /\ UNCHANGED <<refs, refsVersion, packsetVersion, nextPackSeq, catalog,
                 lease, intents, outcomes, wanted, alarm, h, bucket, session,
                 calls, landed, crashes>>

WorkerStep(p) ==
  \/ BeginReceive(p) \/ BeginRefused(p) \/ Preflight(p) \/ StagePack(p)
  \/ GiveUp(p) \/ AbortReceive(p) \/ CleanupStagedPack(p) \/ CallFinalize(p)
  \/ FinalizeFails(p) \/ ReconcileFails(p)

HandlerStep ==
  \/ PriorOutcome \/ WriteIntent \/ ActivatePack \/ AdvanceSequence
  \/ AdvancePackset \/ PublishRefs \/ RecordOutcome \/ RequestCompaction
  \/ DeleteIntent \/ ReleaseLease \/ InferOutcome

AlarmStep == ResumeFinalize \/ ClearExpiredLease

Next ==
  \/ \E p \in Push : WorkerStep(p) \/ FinalizeReceive(p) \/ ReconcileReceive(p)
  \/ HandlerStep
  \/ AlarmStep
  \/ LeaseExpires \/ LoseCall \/ Crash
  \/ AdminSetRefs \/ AdminSetHead \/ GetHead

\* The platform runs a started handler and delivers alarms at least once;
\* nothing is assumed of Workers, clients or the network.
Fairness == WF_vars(HandlerStep) /\ WF_vars(ResumeFinalize)

Spec == Init /\ [][Next]_vars
FairSpec == Spec /\ Fairness

------------------------------------------------------------------------------
(* Properties *)

\* Whatever crashes, expires or arrives late, a pack the catalog serves is in
\* the bucket: the Worker deletes a staged pack (cleanupStagedPack) only when
\* its push can no longer be activated by a replay.
ActivePacksStored == Active \subseteq bucket

\* A ref never names a commit whose pack is not active: finalizeReceiveState
\* activates the catalog row before the ref transaction, also on replay.
RefsResolvable == \A r \in Ref : refs[r] # None => refs[r] \in Active

\* The FUBAR exceptions of finalizeReceiveState are unreachable: a replay of
\* an intent always finds the catalog row and the refs it was written for.
ReplayNeverDiverges ==
  /\ h.pc = "upsert" /\ HasPack(cmds[h.token]) => ~MisplacedRow(h.token)
  /\ h.pc = "cas" => ~Diverged(h.token)

\* An unpublished intent owns the receive lease, so no second writer starts
\* and the alarm, which looks only at the lease's token, finds it.
PendingIntentOwnsLease ==
  \A p \in Push : HasIntent(p) /\ p \notin landed => lease.token = p

\* Active packs have distinct sequence numbers, below the next one handed out
\* except while the intent that took the number is still being replayed.
SequencesDistinct ==
  \A p, q \in Active :
    /\ p # q => catalog[p] # catalog[q]
    /\ catalog[p] >= nextPackSeq => HasIntent(p) /\ lease.token = p

\* The need for compaction is not lost: a catalog over the threshold has its
\* request recorded, or the receive that will record it is still pending.
CompactionNeedRecorded ==
  NeedsCompaction => wanted \/ HasIntent(lease.token)

\* A published push leaves HEAD agreeing with the refs it published, although
\* the new HEAD was computed when the intent was written.
HeadFollowsRefs ==
  [][landed' # landed /\ refs' # refs => head'.oid = refs'[head'.target]]_vars

\* refsVersion counts the ref changes, each one exactly once: it moves by one,
\* with the first publication of a push or while no receive is protected (an
\* administrator's write), and never again for a replay.
RefChangesCounted ==
  [][refsVersion' # refsVersion \/ refs' # refs =>
       refsVersion' = refsVersion + 1 /\ (landed' # landed \/ ~Protected)]_vars

\* What the client was told, as AtomicPush speaks of it.  A session that ends
\* without knowing its outcome throws, and its client reads "unpack <error>"
\* and "ng <ref> unpack-failed" although the intent may still be replayed: the
\* same report as after a confirmed abort, but one that promises nothing.
Told == [p \in Push |->
  CASE worker[p] = "committed" -> "committed"
    [] worker[p] \in {"cleanup", "conflict", "failed"} -> "refused"
    [] worker[p] \in {"mismatch", "unknown"} -> "unclear"
    [] OTHER -> "nothing"]

Abstract == INSTANCE AtomicPush WITH asked <- cmds, told <- Told

\* The receive path implements the atomic push: lease, intent, catalog row,
\* ref transaction, outcome, replay and reconciliation together publish a push
\* once, at one instant, and answer truthfully: "ok" only for a push that
\* landed, a ref conflict or a confirmed abort only for one that never lands.
ImplementsAtomicPush == Abstract!ASpec

\* A durable intent is removed only after its push was published, and a push
\* that was published stays so: together with WritersUnblocked, every intent
\* lands, however often the object is evicted and whatever the Worker does.
IntentsKept ==
  [][/\ \A p \in Push : HasIntent(p) /\ ~HasIntent(p)' => p \in landed
     /\ landed \subseteq landed']_vars

\* A lease that protects an intent is eventually given up, so that other
\* writers are admitted again.
WritersUnblocked ==
  HasIntent(lease.token) ~> ~HasIntent(lease.token)

\* What a replay relies on, between any two durable writes and whatever is
\* evicted or expires in between: the intent that waits owns the lease, finds
\* the catalog row and the refs it was written for, and loses neither its
\* sequence number nor the request for compaction.
RecoverySound ==
  /\ ReplayNeverDiverges
  /\ PendingIntentOwnsLease
  /\ SequencesDistinct
  /\ CompactionNeedRecorded

\* A push moves the refs, HEAD and the version once, in one step, and its
\* intent is not dropped before.
PublishedOnce ==
  /\ HeadFollowsRefs
  /\ RefChangesCounted
  /\ IntentsKept
=============================================================================
