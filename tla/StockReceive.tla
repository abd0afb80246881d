---------------------------- MODULE StockReceive ----------------------------
(***************************************************************************)
(* Stock receives: a push whose pack is checked by stock Git.  Pushes are  *)
(* prepared in parallel by Workers, each under a preparation lease of a    *)
(* bounded pool; the repository's Durable Object then publishes them one   *)
(* at a time.  For every operation it keeps a record                       *)
(*                                                                         *)
(*    processing -> ready -> finalizing -> committed                       *)
(*         \-----------\--> aborted, failed                                *)
(*                                                                         *)
(* and the claim (execution token) of the attempt that owns it.  Workers   *)
(* die, the object is evicted in the middle of a publication, claims and   *)
(* leases run out under a live owner, an identical request is retried, and *)
(* an alarm and a queue consumer finish what nobody else does.             *)
(***************************************************************************)
EXTENDS Integers, FiniteSets, Sequences, SequencesExt, TLC

CONSTANTS
  Op,          \* operation ids
  Ref,
  Request,     \* client requests; the request is also its lease token
  None,
  Mixes,       \* the client requests and deployment limits considered
  MaxClaims    \* bound: claims issued for an operation

Alarm == "alarm"
Idle == "idle"
Said == {"busy", "conflict", "cleanup", "rejected", "replayed", "pending"}
NoRecovery == [op |-> None, tok |-> None, live |-> FALSE]

ASSUME StockAssumption ==
  /\ None \notin Op \cup Request \cup Said /\ Op \cap Request = {} /\ Ref # {}
  /\ Alarm \notin Request /\ Idle \notin Op
  /\ MaxClaims \in Nat \ {0}

\* Every mixture names real operations; a recovery that is there from the start
\* has run out.
ASSUME MixesAssumption ==
  \A m \in Mixes :
    /\ m.opOf \in [Request -> Op \cup {None, Idle}] /\ m.refOf \in [Op -> Ref]
    /\ m.expect \in [Op -> Op \cup Request \cup {None}] /\ m.refOnly \subseteq Op
    /\ m.pool \in Nat /\ m.retained \in Nat /\ m.faults \in Nat /\ m.edits \in Nat
    /\ m.recovery = NoRecovery \/ m.recovery \in [op : Op, tok : Request, live : {FALSE}]

VARIABLES
  \* what the clients ask, and the deployment's limits
  opOf,        \* the operation a request carries, None: not eligible for stock,
               \* Idle: the request is never made
  refOf,       \* the ref an operation moves
  expect,      \* ... and the old value its command names
  refOnly,     \* operations whose objects are all in the repository already
  pool,        \* STOCK_RECEIVE_PREPARATION_CONCURRENCY
  retained,    \* MAX_RETAINED_OPERATIONS
  \* storage of the Durable Object
  op,          \* nativeReceiveOperation:<id>
  ledger,      \* nativeReceiveOperationIndex
  refs,        \* the operation or request that set each ref
  version,     \* refsVersion
  seq,         \* nextPackSeq; packsetVersion moves with it
  row,         \* row[k]: sequence number of the active catalog row, 0: none
  rlease,      \* receiveLease
  prep,        \* stockReceivePreparationLeases
  please,      \* stockReceivePublicationLease
  reclease,    \* stockReceiveRecoveryLease
  intent,      \* receiveFinalizeIntent:<token>
  alarm,       \* an alarm is set
  \* memory of the Durable Object
  fin,         \* finalizeStockReceive, run for a request or for the alarm
  \* outside
  bucket,      \* output packs in R2
  queued,      \* operations named by native-receive messages
  task,        \* the consumer of the message about an operation
  w,           \* the Worker that serves a request
  \* history
  issued,      \* claims issued for an operation
  landed,      \* times the retained record of an operation moved its ref
  moved,       \* operations that ever moved their ref
  last,        \* the last value published to each ref
  late,        \* operations cleaned up, or written for, by a superseded attempt
  forgotten,   \* operations whose record was evicted under a Worker at work on it
  faults,      \* bound: deaths, evictions and lost leases of a live owner left
  edits        \* bound: ref updates by an administrator left

inputs == <<opOf, refOf, expect, refOnly, pool, retained>>
leases == <<rlease, prep, please, reclease>>
history == <<issued, landed, moved, last, late, forgotten, faults, edits>>
vars == <<inputs, op, ledger, refs, version, seq, row, leases, intent, alarm, fin,
          bucket, queued, task, w, history>>

------------------------------------------------------------------------------
(* State *)

Key == Op \X (1 .. MaxClaims)      \* the output pack of a claim

Terminal == {"committed", "aborted", "failed"}
NoOp == [st |-> "none", claim |-> 0, lease |-> None, lapsed |-> FALSE,
         pend |-> FALSE, retry |-> FALSE, plan |-> FALSE]
Ops == [st : {"none", "processing", "ready", "finalizing"} \cup Terminal,
        claim : 0 .. MaxClaims, lease : Request \cup {None}, lapsed : BOOLEAN,
        pend : BOOLEAN, retry : BOOLEAN, plan : BOOLEAN]

NoLease == [tok |-> None, live |-> FALSE]
Leases == [tok : Request \cup Key \cup {None}, live : BOOLEAN]
NoIntent == [ver |-> -1, seq |-> -1]

Answers == Said \cup {None}
NoFin == [pc |-> "idle", op |-> None, claim |-> 0, ver |-> 0, seq |-> 0,
          refs |-> [r \in Ref |-> None], tok |-> None, says |-> None]

NoTask == [pc |-> "idle", claim |-> 0, outputs |-> FALSE]
NewWorker == [pc |-> "idle", claim |-> 0, own |-> FALSE, outputs |-> FALSE,
              close |-> FALSE, again |-> FALSE, acked |-> FALSE, says |-> None]

TypeOK ==
  /\ op \in [Op -> Ops] /\ refs \in [Ref -> Op \cup Request \cup {None}]
  /\ version \in Nat /\ seq \in Nat \ {0} /\ row \in [Key -> Nat]
  /\ {rlease, please} \cup prep \subseteq Leases
  /\ Range(ledger) = {o \in Op : op[o].st # "none"}
  /\ Len(ledger) = Cardinality(Range(ledger)) /\ Len(ledger) <= retained
  /\ \A x \in Request \cup {Alarm} :
       /\ fin[x].pc \in {"idle", "acquire", "read", "plan", "publish", "release"}
       /\ fin[x].says \in Answers /\ (fin[x].pc = "idle") = (fin[x] = NoFin)
  /\ \A q \in Request : w[q].pc \in {"idle", "reserved", "exclusive", "recovering",
       "execute", "reject", "finalize", "called", "refused", "publish",
       "erase", "complete", "done"}
  /\ bucket \subseteq Key /\ queued \subseteq Op

Stock(q) == opOf[q] \in Op
Unfinished(tok) == IF tok = None THEN FALSE ELSE intent[tok] # NoIntent
ActiveOps == {o \in Op : op[o].st \in {"processing", "ready", "finalizing"}}
Prepared == {l \in prep : l.live}
Valid(o, R) == R[refOf[o]] = expect[o]        \* validateReceiveCommands

\* listActiveNativeReceiveOperations: only processing operations may overlap.
Overlappable == \A o \in ActiveOps : op[o].st = "processing"

Init ==
  /\ \E m \in Mixes :
       /\ opOf = m.opOf /\ refOf = m.refOf /\ expect = m.expect
       /\ refOnly = m.refOnly /\ pool = m.pool /\ retained = m.retained
       /\ faults = m.faults /\ edits = m.edits
       /\ reclease = m.recovery      \* perhaps left by a Worker that died long ago
  /\ op = [o \in Op |-> NoOp] /\ ledger = <<>>
  /\ refs = [r \in Ref |-> None] /\ version = 0 /\ seq = 1 /\ row = [k \in Key |-> 0]
  /\ rlease = NoLease /\ prep = {} /\ please = NoLease
  /\ intent = [q \in Request |-> NoIntent] /\ alarm = FALSE
  /\ fin = [x \in Request \cup {Alarm} |-> NoFin]
  /\ bucket = {} /\ queued = {} /\ task = [o \in Op |-> NoTask]
  /\ w = [q \in Request |-> NewWorker]
  /\ issued = [o \in Op |-> 0]
  /\ landed = [o \in Op |-> 0] /\ moved = {} /\ last = refs /\ late = {} /\ forgotten = {}

------------------------------------------------------------------------------
(* Admission to the preparation pool *)

Worker(q, step) == w' = [w EXCEPT ![q].pc = step]
Leave(q, told) == w' = [w EXCEPT ![q] = [NewWorker EXCEPT !.pc = "done", !.acked = told]]
Dropped(tok) == IF rlease.tok = tok THEN NoLease ELSE rlease
Unreserved(tok) == {l \in prep : l.tok # tok}
Recovered(tok) == IF reclease.tok = tok THEN NoRecovery ELSE reclease

\* The capacity checks of beginReceiveLease and of its handoff.
PoolOpen ==
  LET busy == Cardinality(ActiveOps) + Cardinality(Prepared) IN
  busy < pool /\ (busy > 0 => Overlappable)

\* beginReceive with stockPreparation: the receive lease is taken and handed
\* into the pool.  A request that turns out not to be eligible is sent away
\* if others are preparing, and so is one whose command names the wrong old
\* value, unless its operation may have committed before.
BeginReceive(q) ==
  /\ w[q].pc = "idle" /\ opOf[q] # Idle
  /\ Stock(q) => LET o == opOf[q] IN
       /\ op[o].st \notin {"ready", "finalizing"}
       /\ Valid(o, refs) \/ refs[refOf[o]] = o
  /\ ~Stock(q) => ActiveOps = {} /\ Prepared = {}
  /\ PoolOpen
  /\ ~rlease.live /\ ~Unfinished(rlease.tok)
  /\ rlease' = NoLease
  /\ prep' = prep \cup {[tok |-> q, live |-> TRUE]}
  /\ alarm' = TRUE
  /\ Worker(q, "reserved")
  /\ UNCHANGED <<inputs, op, ledger, refs, version, seq, row, please, reclease,
                 intent, fin, bucket, queued, task, history>>

\* beginStockReceiveRecovery: a retry of a ready or finalizing operation.
BeginRecovery(q) ==
  /\ w[q].pc = "idle" /\ Stock(q)
  /\ op[opOf[q]].st \in {"ready", "finalizing"}
  /\ reclease = NoRecovery
  /\ reclease' = [op |-> opOf[q], tok |-> q, live |-> TRUE]
  /\ Worker(q, "recovering")
  /\ UNCHANGED <<inputs, op, ledger, refs, version, seq, row, rlease, prep, please,
                 intent, alarm, fin, bucket, queued, task, history>>

\* ... which first closes an expired recovery, whoever it belonged to.
CloseStaleRecovery(q) ==
  /\ w[q].pc = "idle" /\ Stock(q)
  /\ op[opOf[q]].st \in {"ready", "finalizing"}
  /\ reclease # NoRecovery /\ ~reclease.live
  /\ reclease' = NoRecovery
  /\ UNCHANGED <<inputs, op, ledger, refs, version, seq, row, rlease, prep, please,
                 intent, alarm, fin, bucket, queued, task, w, history>>

\* Mutant of MayPromote: other preparations are not looked at.
MayPromoteBeside(q) == rlease = NoLease /\ [tok |-> q, live |-> TRUE] \in prep /\ ActiveOps = {}

\* promoteStockPreparationLease: from the pool to the exclusive receive lease.
MayPromote(q) == rlease = NoLease /\ prep = {[tok |-> q, live |-> TRUE]} /\ ActiveOps = {}

Promote(q) ==
  /\ w[q].pc = "reserved" /\ ~Stock(q)
  /\ IF MayPromote(q)
     THEN /\ prep' = Unreserved(q) /\ rlease' = [tok |-> q, live |-> TRUE]
          /\ Worker(q, "exclusive")
     ELSE /\ prep' = Unreserved(q) /\ rlease' = Dropped(q)    \* abortReceive
          /\ Leave(q, FALSE)
  /\ UNCHANGED <<inputs, op, ledger, refs, version, seq, row, please, reclease,
                 intent, alarm, fin, bucket, queued, task, history>>

\* The exclusive receive finishes (see RepoReceive): published or refused.
FinishExclusive(q) ==
  /\ w[q].pc = "exclusive"
  /\ Leave(q, FALSE)
  /\ IF rlease = [tok |-> q, live |-> TRUE]
     THEN \E r \in Ref :
            /\ refs' = [refs EXCEPT ![r] = q] /\ last' = [last EXCEPT ![r] = q]
            /\ version' = version + 1 /\ seq' = seq + 1
            /\ rlease' = NoLease
     ELSE UNCHANGED <<refs, last, version, seq, rlease>>
  /\ UNCHANGED <<inputs, op, ledger, row, prep, please, reclease, intent, alarm, fin,
                 bucket, queued, task, issued, landed, moved, late, forgotten, faults, edits>>

\* The upload of the request fails: its lease is given back.
StageFails(q) ==
  /\ w[q].pc \in {"reserved", "recovering"} /\ ~w[q].again
  /\ prep' = Unreserved(q) /\ rlease' = Dropped(q) /\ reclease' = Recovered(q)
  /\ Leave(q, FALSE)
  /\ UNCHANGED <<inputs, op, ledger, refs, version, seq, row, please, intent, alarm,
                 fin, bucket, queued, task, history>>

------------------------------------------------------------------------------
(* admitStockReceive *)

InRecovery(q) == reclease = [op |-> opOf[q], tok |-> q, live |-> TRUE]
HoldsLease(q) == [tok |-> q, live |-> TRUE] \in prep \cup {rlease}

Evictable(o) == op[o].st \in Terminal /\ ~op[o].pend
Others(o) == RemoveFirst(ledger, o)      \* no id is in the ledger twice
Victim(o) == IF Len(Others(o)) < retained THEN 0 ELSE SelectInSeq(Others(o), Evictable)
Evicted(o) == IF Victim(o) = 0 THEN {} ELSE {Others(o)[Victim(o)]}
Spared(o) == IF Victim(o) = 0 THEN Others(o) ELSE RemoveAt(Others(o), Victim(o))
LedgerFull(o) == Len(Spared(o)) >= retained

\* What admission answers, in the order of its checks.
Admission(q) ==
  LET o == opOf[q] e == op[o] IN
  IF e.st = "committed" THEN "replayed"
  ELSE IF e.st = "finalizing" THEN IF InRecovery(q) THEN "pending" ELSE "rejected"
  ELSE IF e.st = "ready" THEN IF InRecovery(q) THEN "finalize" ELSE "rejected"
  ELSE IF e.st \in Terminal /\ e.pend THEN "cleanup"
  ELSE IF \/ e.st # "none" /\ ~e.retry
          \/ \E p \in Op \ {o} : op[p].st \in {"ready", "finalizing"}
          \/ ~HoldsLease(q)
          \/ LedgerFull(o)
  THEN "rejected" ELSE "admitted"

Admitting(q) == w[q].pc \in {"reserved", "recovering"} /\ Stock(q)

\* A new attempt: its claim also names the keys its outputs are written to.
\* The receive lease is dropped, whoever holds it.
Admit(q) ==
  /\ Admitting(q) /\ Admission(q) = "admitted"
  /\ LET o == opOf[q] c == issued[o] + 1 IN
       /\ c <= MaxClaims
       /\ op' = [p \in Op |->
            IF p = o THEN [NoOp EXCEPT !.st = "processing", !.claim = c, !.lease = q]
            ELSE IF p \in Evicted(o) THEN NoOp ELSE op[p]]
       /\ ledger' = Append(Spared(o), o)
       /\ landed' = [p \in Op |-> IF p \in Evicted(o) THEN 0 ELSE landed[p]]
       /\ issued' = [issued EXCEPT ![o] = c]
       /\ forgotten' = forgotten \cup
            {p \in Evicted(o) : \E b \in Request \ {q} : opOf[b] = p /\ w[b].claim # 0}
       /\ w' = [w EXCEPT ![q].pc = "execute", ![q].claim = c, ![q].own = TRUE]
  /\ prep' = Unreserved(q) /\ rlease' = NoLease
  /\ alarm' = TRUE
  /\ UNCHANGED <<inputs, refs, version, seq, row, please, reclease, intent, fin, bucket,
                 queued, task, moved, last, late, faults, edits>>

\* The retained operation answers for an identical request.
AdmitRetained(q) ==
  /\ Admitting(q)
  /\ LET c == op[opOf[q]].claim IN
     \/ /\ Admission(q) = "pending"
        /\ w' = [w EXCEPT ![q].pc = "publish", ![q].claim = c]
        /\ UNCHANGED <<rlease, prep, reclease>>
     \/ /\ Admission(q) = "finalize"
        /\ w' = [w EXCEPT ![q].pc = "finalize", ![q].claim = c]
        /\ UNCHANGED <<rlease, prep, reclease>>
     \/ /\ Admission(q) = "replayed"
        /\ rlease' = Dropped(q) /\ prep' = Unreserved(q) /\ reclease' = Recovered(q)
        /\ w' = [w EXCEPT ![q].pc = "erase", ![q].claim = c, ![q].close = TRUE,
                          ![q].acked = TRUE]
     \/ /\ Admission(q) = "cleanup"
        /\ w' = IF w[q].again THEN [w EXCEPT ![q] = [NewWorker EXCEPT !.pc = "done"]]
                ELSE [w EXCEPT ![q].pc = "erase", ![q].claim = c, ![q].outputs = TRUE,
                               ![q].close = TRUE, ![q].again = TRUE]
        /\ UNCHANGED <<rlease, prep, reclease>>
  /\ UNCHANGED <<inputs, op, ledger, refs, version, seq, row, please, intent, alarm, fin,
                 bucket, queued, task, history>>

\* A refused request gives its lease back only if no record of its operation
\* exists; else the lease is left to run out.
AdmitRejected(q) ==
  /\ Admitting(q) /\ Admission(q) = "rejected"
  /\ Leave(q, FALSE)
  /\ reclease' = Recovered(q)
  /\ IF op[opOf[q]].st = "none"
     THEN prep' = Unreserved(q) /\ rlease' = Dropped(q)
     ELSE UNCHANGED <<prep, rlease>>
  /\ UNCHANGED <<inputs, op, ledger, refs, version, seq, row, please, intent, alarm, fin,
                 bucket, queued, task, history>>

------------------------------------------------------------------------------
(* The Worker's attempt *)

Mine(q) == <<opOf[q], w[q].claim>>
Owned(o, c) == op[o].claim = c
Superseded(q) == op[opOf[q]].st # "processing" \/ ~Owned(opOf[q], w[q].claim)
LateFor(q) == IF Superseded(q) THEN {opOf[q]} ELSE {}

\* executeStockReceiveWorkerDataPlane writes and verifies the outputs.
Execute(q) ==
  /\ w[q].pc = "execute"
  /\ IF opOf[q] \in refOnly THEN UNCHANGED <<bucket, late>>
     ELSE bucket' = bucket \cup {Mine(q)} /\ late' = late \cup LateFor(q)
  /\ Worker(q, "finalize")
  /\ UNCHANGED <<inputs, op, ledger, refs, version, seq, row, leases, intent, alarm,
                 fin, queued, task, issued, landed, moved, last, forgotten, faults, edits>>

\* ... or fails, before or after the outputs were written.
ExecuteFails(q) ==
  /\ w[q].pc = "execute"
  /\ \/ UNCHANGED <<bucket, late>>
     \/ /\ opOf[q] \notin refOnly
        /\ bucket' = bucket \cup {Mine(q)} /\ late' = late \cup LateFor(q)
  /\ Worker(q, "reject")
  /\ UNCHANGED <<inputs, op, ledger, refs, version, seq, row, leases, intent, alarm,
                 fin, queued, task, issued, landed, moved, last, forgotten, faults, edits>>

RejectsClaim(o, c) == op[o].st = "processing" /\ Owned(o, c)

\* rejectStockReceiveExecution after a failed attempt, with a code that
\* allows a retry (r2-transient) or with one that does not.
RejectExecution(q) ==
  /\ w[q].pc = "reject"
  /\ LET o == opOf[q] IN
     IF RejectsClaim(o, w[q].claim)
     THEN \E again \in BOOLEAN :
            /\ op' = [op EXCEPT ![o].st = "failed", ![o].pend = TRUE, ![o].retry = again]
            /\ rlease' = Dropped(op[o].lease)
     ELSE UNCHANGED <<op, rlease>>
  /\ IF Owned(opOf[q], w[q].claim) /\ op[opOf[q]].st \in Terminal \cup {"processing"}
     THEN w' = [w EXCEPT ![q].pc = "erase", ![q].outputs = TRUE, ![q].close = TRUE]
     ELSE Leave(q, FALSE)
  /\ UNCHANGED <<inputs, ledger, refs, version, seq, row, prep, please, reclease, intent,
                 alarm, fin, bucket, queued, task, history>>

\* finalizeStockReceive arrives; retainPreparedStockReceiveState makes the
\* outcome of a matching claim durable before publication is waited for.
CallFinalize(q) ==
  /\ w[q].pc = "finalize" /\ fin[q] = NoFin
  /\ LET o == opOf[q] c == w[q].claim IN
       /\ IF op[o].st = "processing" /\ Owned(o, c)
          THEN /\ op' = [op EXCEPT ![o].st = "ready", ![o].pend = TRUE]
               /\ alarm' = TRUE
          ELSE UNCHANGED <<op, alarm>>
       /\ fin' = [fin EXCEPT ![q] = [NoFin EXCEPT !.pc = "acquire", !.op = o, !.claim = c]]
  /\ Worker(q, "called")
  /\ UNCHANGED <<inputs, ledger, refs, version, seq, row, leases, intent, bucket,
                 queued, task, history>>

------------------------------------------------------------------------------
(* finalizeStockReceive, for a request or for the alarm *)

Step(x, step) == fin' = [fin EXCEPT ![x].pc = step]
Says(x, answer) == fin' = [fin EXCEPT ![x].pc = "release", ![x].says = answer]
Claimed(x) == Owned(fin[x].op, fin[x].claim)
Ready(x) == Claimed(x) /\ op[fin[x].op].st = "ready"
OutKey(x) == <<fin[x].op, fin[x].claim>>
Token(x) == op[fin[x].op].lease

\* Mutant of Disposition: a publication under way is taken for a failure.
DispositionStale(x) == IF Claimed(x) /\ op[fin[x].op].st = "committed" THEN "replayed" ELSE "rejected"

\* What a settled record answers (finalizedDisposition).
Disposition(x) ==
  LET e == op[fin[x].op] IN
  IF ~Claimed(x) THEN "rejected"
  ELSE IF e.st = "finalizing" THEN "pending"
  ELSE IF e.st = "committed" THEN "replayed"
  ELSE IF e.st \in Terminal THEN "cleanup" ELSE "rejected"

\* The same where the record is only looked at for a publication.
Settled(x) == IF Disposition(x) = "cleanup" THEN "rejected" ELSE Disposition(x)

\* rejectReadyStockAuthority, on a record that is still ready.
Abort(x) ==
  /\ op' = [op EXCEPT ![fin[x].op].st = "aborted", ![fin[x].op].pend = TRUE]
  /\ rlease' = Dropped(Token(x))

\* Mutant of LaneBusy: the receive lease of another operation is not respected.
LaneBusyPublicationOnly(tok) == please.live

LaneBusy(tok) ==
  \/ please.live
  \/ rlease.tok \notin {None, tok} /\ (rlease.live \/ Unfinished(rlease.tok))

FinAcquire(x) ==
  /\ fin[x].pc = "acquire"
  /\ LET e == op[fin[x].op] IN
     IF ~Claimed(x) \/ e.st \in {"committed", "finalizing"}
     THEN Says(x, Disposition(x)) /\ UNCHANGED <<rlease, please>>
     ELSE IF LaneBusy(e.lease)
     THEN Says(x, "busy") /\ UNCHANGED <<rlease, please>>
     ELSE /\ rlease' = [tok |-> e.lease, live |-> TRUE]
          /\ please' = [tok |-> OutKey(x), live |-> TRUE]
          /\ fin' = [fin EXCEPT ![x].pc = "read", ![x].tok = e.lease]
  /\ UNCHANGED <<inputs, op, ledger, refs, version, seq, row, prep, reclease, intent,
                 alarm, bucket, queued, task, w, history>>

\* The refs are read, then the retained proof is digested again: other
\* handlers run in between.
FinRead(x) ==
  /\ fin[x].pc = "read"
  /\ IF Ready(x) THEN fin' = [fin EXCEPT ![x].pc = "plan", ![x].refs = refs]
     ELSE Says(x, Settled(x))
  /\ UNCHANGED <<inputs, op, ledger, refs, version, seq, row, leases, intent, alarm,
                 bucket, queued, task, w, history>>

\* A command that names the wrong old value aborts the operation.  Else the
\* versions are read and the authority plan is digested.
FinPlan(x) ==
  /\ fin[x].pc = "plan"
  /\ IF Valid(fin[x].op, fin[x].refs)
     THEN /\ fin' = [fin EXCEPT ![x].pc = "publish", ![x].ver = version, ![x].seq = seq]
          /\ UNCHANGED <<op, rlease>>
     ELSE IF Ready(x) THEN Abort(x) /\ Says(x, "conflict")
     ELSE Says(x, Settled(x)) /\ UNCHANGED <<op, rlease>>
  /\ UNCHANGED <<inputs, ledger, refs, version, seq, row, prep, please, reclease, intent,
                 alarm, bucket, queued, task, w, history>>

Foreseen(x) == [ver |-> fin[x].ver, seq |-> fin[x].seq]
Planned(x) == op[fin[x].op].plan /\ intent[Token(x)] # NoIntent

\* The first transaction: intent and plan are written once, if nothing moved.
WalHolds(x) == Ready(x) /\ (Planned(x) \/ version = fin[x].ver)
Wal(x) == [intent EXCEPT ![Token(x)] = IF Planned(x) THEN @ ELSE Foreseen(x)]

\* The versions the WAL foresaw are no longer the ones just read.
Drifted(x) ==
  \/ Wal(x)[Token(x)].ver # fin[x].ver
  \/ fin[x].op \notin refOnly /\ Wal(x)[Token(x)].seq # fin[x].seq
  \/ row[OutKey(x)] \notin {0, fin[x].seq}

\* The catalog row becomes active ahead of the transaction that moves the ref.
Upserted(x) == IF fin[x].op \in refOnly THEN row ELSE [row EXCEPT ![OutKey(x)] = fin[x].seq]

\* The exact-old compare-and-set of the second transaction.
CasHolds(x) == Ready(x) /\ version = fin[x].ver /\ Valid(fin[x].op, refs)

\* Both transactions and the row between them: nothing but storage is waited
\* for, so no other handler runs until the end.
FinPublish(x) ==
  /\ fin[x].pc = "publish"
  /\ LET o == fin[x].op IN
     IF WalHolds(x)
     THEN /\ intent' = Wal(x) /\ alarm' = TRUE
          /\ row' = IF Drifted(x) THEN row ELSE Upserted(x)
          /\ IF ~Drifted(x) /\ CasHolds(x)
             THEN /\ refs' = [fin[x].refs EXCEPT ![refOf[o]] = o]
                  /\ last' = [last EXCEPT ![refOf[o]] = o]
                  /\ landed' = [landed EXCEPT ![o] = @ + 1] /\ moved' = moved \cup {o}
                  /\ version' = fin[x].ver + 1
                  /\ seq' = IF o \in refOnly THEN seq ELSE fin[x].seq + 1
                  /\ op' = [op EXCEPT ![o].st = "finalizing", ![o].plan = TRUE]
                  /\ rlease' = Dropped(op[o].lease)
                  /\ Says(x, "pending")
             ELSE /\ op' = [op EXCEPT ![o].st = "aborted", ![o].pend = TRUE, ![o].plan = TRUE]
                  /\ rlease' = Dropped(op[o].lease)
                  /\ Says(x, "cleanup")
                  /\ UNCHANGED <<refs, last, landed, moved, version, seq>>
     ELSE /\ Says(x, Disposition(x))
          /\ UNCHANGED <<op, refs, last, landed, moved, version, seq, row, rlease, intent, alarm>>
  /\ UNCHANGED <<inputs, ledger, prep, please, reclease, bucket, queued, task, w, issued,
                 late, forgotten, faults, edits>>

\* Both leases are released; the caller gets the answer.
FinRelease(x) ==
  /\ fin[x].pc = "release"
  /\ IF fin[x].tok = None THEN UNCHANGED <<please, rlease>>
     ELSE /\ please' = IF please.tok = OutKey(x) THEN NoLease ELSE please
          /\ rlease' = Dropped(fin[x].tok)
  /\ fin' = [fin EXCEPT ![x] = NoFin]
  /\ IF x = Alarm
     THEN /\ alarm' = TRUE
          /\ op' = IF fin[x].says \in {"rejected", "cleanup"} /\ op[fin[x].op].st = "ready"
                   THEN [op EXCEPT ![fin[x].op].st = "aborted", ![fin[x].op].pend = TRUE]
                   ELSE op
          /\ UNCHANGED w
     ELSE /\ w' = IF w[x].pc = "called"
                  THEN [w EXCEPT ![x].pc = "refused", ![x].says = fin[x].says] ELSE w
          /\ UNCHANGED <<op, alarm>>
  /\ UNCHANGED <<inputs, ledger, refs, version, seq, row, prep, reclease, intent,
                 bucket, queued, task, history>>

\* The Worker reads the answer of finalizeStockReceive.  "rejected" is
\* reported back once more (finalize-rejected) and, like a conflict, followed
\* by the deletion of the attempt's own outputs.
HandleAnswer(q) ==
  /\ w[q].pc = "refused"
  /\ LET o == opOf[q] answer == w[q].says IN
     \/ /\ answer = "busy"
        /\ w' = [w EXCEPT ![q].pc = "finalize", ![q].says = None]
        /\ UNCHANGED <<op, rlease, reclease>>
     \/ /\ answer = "pending"
        /\ w' = [w EXCEPT ![q].pc = "publish", ![q].says = None]
        /\ UNCHANGED <<op, rlease, reclease>>
     \/ /\ answer = "replayed"
        /\ w' = [w EXCEPT ![q].pc = "erase", ![q].close = TRUE, ![q].acked = TRUE,
                          ![q].says = None]
        /\ reclease' = Recovered(q) /\ UNCHANGED <<op, rlease>>
     \/ /\ answer \in {"conflict", "cleanup", "rejected"}
        /\ w' = [w EXCEPT ![q].pc = "erase", ![q].close = answer # "rejected",
                          ![q].outputs = w[q].own \/ answer # "rejected",
                          ![q].says = None]
        /\ reclease' = Recovered(q)
        /\ IF answer # "conflict" /\ RejectsClaim(o, w[q].claim)
           THEN /\ op' = [op EXCEPT ![o].st = "failed", ![o].pend = TRUE]
                /\ rlease' = Dropped(op[o].lease)
           ELSE UNCHANGED <<op, rlease>>
  /\ UNCHANGED <<inputs, ledger, refs, version, seq, row, prep, please, intent, alarm,
                 fin, bucket, queued, task, history>>

\* The immutable authority objects are put (putting them again changes
\* nothing); confirmStockReceivePublication finds the operation by its plan.
Confirmed(o, c) == Owned(o, c) /\ op[o].plan /\ op[o].st \in {"finalizing", "committed"}
Commits(o, c) == IF Confirmed(o, c) THEN [op EXCEPT ![o].st = "committed"] ELSE op

Confirm(q) ==
  /\ w[q].pc = "publish"
  /\ op' = Commits(opOf[q], w[q].claim)
  /\ Leave(q, Confirmed(opOf[q], w[q].claim))
  /\ reclease' = Recovered(q)
  /\ UNCHANGED <<inputs, ledger, refs, version, seq, row, rlease, prep, please, intent,
                 alarm, fin, bucket, queued, task, history>>

\* cleanupStockReceiveWorkerDataPlane
Erase(q) ==
  /\ w[q].pc = "erase"
  /\ bucket' = IF w[q].outputs THEN bucket \ {Mine(q)} ELSE bucket
  /\ IF w[q].close THEN Worker(q, "complete") ELSE Leave(q, w[q].acked)
  /\ UNCHANGED <<inputs, op, ledger, refs, version, seq, row, leases, intent, alarm,
                 fin, queued, task, history>>

\* completeStockReceiveCleanup names the operation, not the attempt.
Closes(o) == op[o].st \in Terminal
Closed(o) == IF Closes(o) THEN [op EXCEPT ![o].pend = FALSE] ELSE op
ClosedLate(o, c) == IF Closes(o) /\ op[o].pend /\ ~Owned(o, c) THEN {o} ELSE {}

Complete(q) ==
  /\ w[q].pc = "complete"
  /\ op' = Closed(opOf[q])
  /\ late' = late \cup ClosedLate(opOf[q], w[q].claim)
  /\ alarm' = (alarm \/ Closes(opOf[q]))
  /\ IF w[q].again /\ Closes(opOf[q]) /\ ~w[q].own
     THEN w' = [w EXCEPT ![q].pc = "reserved", ![q].outputs = FALSE, ![q].close = FALSE]
     ELSE Leave(q, w[q].acked)
  /\ UNCHANGED <<inputs, ledger, refs, version, seq, row, leases, intent, fin, bucket,
                 queued, task, issued, landed, moved, last, forgotten, faults, edits>>

------------------------------------------------------------------------------
(* Recovery: the alarm and the queue *)

\* Mutant of NeedsWorker: only publications are handed to the queue.
NeedsWorkerPublication(o) == op[o].st = "finalizing" /\ op[o].plan

\* stockReceiveWorkerRecoveryOperationId: what only a Worker can finish.
NeedsWorker(o) == (op[o].st = "finalizing" /\ op[o].plan) \/ (op[o].st \in Terminal /\ op[o].pend)
ToRecover == SelectInSeq(Reverse(ledger), NeedsWorker)

IsReady(o) == op[o].st = "ready"
FirstReady == SelectInSeq(ledger, IsReady)

IsProcessing(o) == op[o].st = "processing"
FirstProcessing == SelectInSeq(ledger, IsProcessing)

\* A publisher that disappeared left its receive lease: its operation first.
LeftBehind(o) == IsReady(o) /\ op[o].lease = rlease.tok
ToResume ==
  LET i == SelectInSeq(ledger, LeftBehind) IN
  ledger[IF i # 0 THEN i ELSE FirstReady]

AlarmQueues ==
  /\ alarm /\ fin[Alarm] = NoFin /\ ToRecover # 0
  /\ queued' = queued \cup {Reverse(ledger)[ToRecover]}
  /\ alarm' = FALSE
  /\ UNCHANGED <<inputs, op, ledger, refs, version, seq, row, leases, intent, fin,
                 bucket, task, w, history>>

AlarmResumes ==
  /\ alarm /\ fin[Alarm] = NoFin /\ ToRecover = 0 /\ FirstReady # 0
  /\ alarm' = FALSE
  /\ fin' = [fin EXCEPT ![Alarm] = [NoFin EXCEPT !.pc = "acquire", !.op = ToResume,
                                                 !.claim = op[ToResume].claim]]
  /\ UNCHANGED <<inputs, op, ledger, refs, version, seq, row, leases, intent,
                 bucket, queued, task, w, history>>

Overdue(o) == op[o].lapsed

AlarmAborts ==
  /\ alarm /\ fin[Alarm] = NoFin /\ ToRecover = 0 /\ FirstReady = 0
  /\ FirstProcessing # 0
  /\ LET o == ledger[FirstProcessing] IN
       /\ Overdue(o)
       /\ op' = [op EXCEPT ![o].st = "aborted", ![o].pend = TRUE, ![o].retry = TRUE]
       /\ rlease' = Dropped(op[o].lease)
  /\ UNCHANGED <<inputs, ledger, refs, version, seq, row, prep, please, reclease, intent,
                 alarm, fin, bucket, queued, task, w, history>>

\* clearExpiredLeases, reached when no operation is left to recover.
AlarmClears ==
  /\ alarm /\ fin[Alarm] = NoFin /\ ToRecover = 0 /\ ActiveOps = {}
  /\ prep' = Prepared
  /\ rlease' = IF rlease.live THEN rlease ELSE NoLease
  /\ please' = IF please.live THEN please ELSE NoLease
  /\ alarm' = (Prepared # {} \/ rlease' # NoLease)
  /\ UNCHANGED <<inputs, op, ledger, refs, version, seq, row, reclease, intent, fin,
                 bucket, queued, task, w, history>>

Task(o, step) == task' = [task EXCEPT ![o].pc = step]

\* handleNativeReceiveMessage asks what is left to do (recoverStockReceivePublication).
Deliver(o) ==
  /\ o \in queued /\ task[o] = NoTask
  /\ IF op[o].st = "finalizing" /\ op[o].plan
     THEN /\ task' = [task EXCEPT ![o] = [pc |-> "publish", claim |-> op[o].claim,
                                          outputs |-> FALSE]]
          /\ UNCHANGED queued
     ELSE IF op[o].st \in Terminal /\ op[o].pend
     THEN /\ task' = [task EXCEPT ![o] = [pc |-> "erase", claim |-> op[o].claim,
                                          outputs |-> op[o].st # "committed"]]
          /\ UNCHANGED queued
     ELSE /\ op[o].st \in Terminal \cup {"none"}
          /\ queued' = queued \ {o} /\ UNCHANGED task
  /\ UNCHANGED <<inputs, op, ledger, refs, version, seq, row, leases, intent, alarm,
                 fin, bucket, w, history>>

TaskConfirms(o) ==
  /\ task[o].pc = "publish"
  /\ op' = Commits(o, task[o].claim)
  /\ IF Confirmed(o, task[o].claim) THEN Task(o, "erase")
     ELSE task' = [task EXCEPT ![o] = NoTask]
  /\ UNCHANGED <<inputs, ledger, refs, version, seq, row, leases, intent, alarm, fin,
                 bucket, queued, w, history>>

TaskErases(o) ==
  /\ task[o].pc = "erase"
  /\ bucket' = IF task[o].outputs THEN bucket \ {<<o, task[o].claim>>} ELSE bucket
  /\ Task(o, "complete")
  /\ UNCHANGED <<inputs, op, ledger, refs, version, seq, row, leases, intent, alarm,
                 fin, queued, w, history>>

TaskCompletes(o) ==
  /\ task[o].pc = "complete"
  /\ op' = Closed(o)
  /\ late' = late \cup ClosedLate(o, task[o].claim)
  /\ alarm' = (alarm \/ Closes(o))
  /\ queued' = IF Closes(o) THEN queued \ {o} ELSE queued
  /\ task' = [task EXCEPT ![o] = NoTask]
  /\ UNCHANGED <<inputs, ledger, refs, version, seq, row, leases, intent, fin, bucket,
                 w, issued, landed, moved, last, forgotten, faults, edits>>

------------------------------------------------------------------------------
(* Time, faults and the administrator *)

Fault(free) ==
  /\ free \/ faults > 0
  /\ faults' = IF free THEN faults ELSE faults - 1

Gone(q) == w[q].pc \in {"idle", "done"}

\* The Worker is gone, or gives up: nothing it holds is released.
WorkerDies(q) ==
  /\ w[q].pc \notin {"idle", "done"}
  /\ Fault(FALSE)
  /\ Leave(q, FALSE)
  /\ UNCHANGED <<inputs, op, ledger, refs, version, seq, row, leases, intent, alarm,
                 fin, bucket, queued, task, issued, landed, moved, last, late, forgotten, edits>>

\* The claim runs out (15 minutes); a live Worker may still be at work.
ClaimLapses(o) ==
  /\ op[o].st = "processing" /\ ~op[o].lapsed
  /\ Fault(Gone(op[o].lease))
  /\ op' = [op EXCEPT ![o].lapsed = TRUE]
  /\ UNCHANGED <<inputs, ledger, refs, version, seq, row, leases, intent, alarm, fin,
                 bucket, queued, task, w, issued, landed, moved, last, late, forgotten, edits>>

PreparationLapses(q) ==
  /\ [tok |-> q, live |-> TRUE] \in prep
  /\ Fault(Gone(q))
  /\ prep' = Unreserved(q) \cup {[tok |-> q, live |-> FALSE]}
  /\ UNCHANGED <<inputs, op, ledger, refs, version, seq, row, rlease, please, reclease,
                 intent, alarm, fin, bucket, queued, task, w, issued, landed, moved, last, late,
                 forgotten, edits>>

\* The publication lease (30 seconds) may run out under a publication that
\* waits for a digest; the receive lease (30 minutes) outlasts it.
Publishing == \E x \in Request \cup {Alarm} : fin[x].tok # None

PublicationLapses ==
  /\ please.live
  /\ Fault(~Publishing)
  /\ please' = [please EXCEPT !.live = FALSE]
  /\ UNCHANGED <<inputs, op, ledger, refs, version, seq, row, rlease, prep, reclease,
                 intent, alarm, fin, bucket, queued, task, w, issued, landed, moved, last, late,
                 forgotten, edits>>

ReceiveLeaseLapses ==
  /\ rlease.live
  /\ \A x \in Request \cup {Alarm} : fin[x].tok # rlease.tok
  /\ Fault(Gone(rlease.tok))
  /\ rlease' = [rlease EXCEPT !.live = FALSE]
  /\ UNCHANGED <<inputs, op, ledger, refs, version, seq, row, please, prep, reclease,
                 intent, alarm, fin, bucket, queued, task, w, issued, landed, moved, last, late,
                 forgotten, edits>>

RecoveryLapses ==
  /\ reclease.live
  /\ Fault(Gone(reclease.tok))
  /\ reclease' = [reclease EXCEPT !.live = FALSE]
  /\ UNCHANGED <<inputs, op, ledger, refs, version, seq, row, rlease, please, prep,
                 intent, alarm, fin, bucket, queued, task, w, issued, landed, moved, last, late,
                 forgotten, edits>>

\* The Durable Object is evicted: the publications in progress stop where
\* they are, and their callers see an error.
Stopped ==
  /\ Fault(FALSE)
  /\ fin' = [x \in Request \cup {Alarm} |-> NoFin]
  /\ w' = [q \in Request |-> IF w[q].pc = "called" THEN [NewWorker EXCEPT !.pc = "done"]
                           ELSE w[q]]
  /\ UNCHANGED <<inputs, ledger, refs, version, seq, leases, bucket, queued, task,
                 issued, landed, moved, last, late, forgotten, edits>>

Evict ==
  /\ \E x \in Request \cup {Alarm} : fin[x] # NoFin
  /\ Stopped
  /\ alarm' = (alarm \/ fin[Alarm] # NoFin)       \* a failed alarm is retried
  /\ UNCHANGED <<op, row, intent>>

\* ... in FinPublish, after the first transaction and perhaps the row.
EvictPublishing(x) ==
  /\ fin[x].pc = "publish" /\ WalHolds(x)
  /\ Stopped
  /\ intent' = Wal(x) /\ op' = [op EXCEPT ![fin[x].op].plan = TRUE] /\ alarm' = TRUE
  /\ row' = row \/ (~Drifted(x) /\ row' = Upserted(x))

\* The consumer fails; the message is delivered again.
TaskFails(o) ==
  /\ task[o] # NoTask
  /\ Fault(FALSE)
  /\ task' = [task EXCEPT ![o] = NoTask]
  /\ UNCHANGED <<inputs, op, ledger, refs, version, seq, row, leases, intent, alarm,
                 fin, bucket, queued, w, issued, landed, moved, last, late, forgotten, edits>>

\* setRefs, refused while a receive is active (hasActiveReceiveMutation).
SetRefs ==
  /\ edits > 0
  /\ ~rlease.live /\ ~Unfinished(rlease.tok)
  /\ Prepared = {} /\ ActiveOps = {}
  /\ rlease' = NoLease
  /\ \E r \in Ref : refs' = [refs EXCEPT ![r] = None]
  /\ last' = refs'
  /\ version' = version + 1 /\ edits' = edits - 1
  /\ UNCHANGED <<inputs, op, ledger, seq, row, please, prep, reclease, intent, alarm,
                 fin, bucket, queued, task, w, issued, landed, moved, late, forgotten, faults>>

------------------------------------------------------------------------------
ClientStep(q) ==
  \/ BeginReceive(q) \/ BeginRecovery(q) \/ CloseStaleRecovery(q)
  \/ Promote(q) \/ FinishExclusive(q) \/ StageFails(q)
  \/ Admit(q) \/ AdmitRetained(q) \/ AdmitRejected(q)
  \/ Execute(q) \/ ExecuteFails(q) \/ RejectExecution(q) \/ CallFinalize(q)
  \/ HandleAnswer(q) \/ Confirm(q) \/ Erase(q) \/ Complete(q)
  \/ WorkerDies(q)

\* The steps of a Worker that is at work; only the client decides to start.
Busy(q) ==
  \/ Promote(q) \/ FinishExclusive(q) \/ Admit(q) \/ AdmitRetained(q) \/ AdmitRejected(q)
  \/ Execute(q) \/ RejectExecution(q) \/ CallFinalize(q) \/ HandleAnswer(q)
  \/ Confirm(q) \/ Erase(q) \/ Complete(q) \/ WorkerDies(q)

FinStep(x) ==
  FinAcquire(x) \/ FinRead(x) \/ FinPlan(x) \/ FinPublish(x) \/ FinRelease(x)

AlarmStep == AlarmQueues \/ AlarmResumes \/ AlarmAborts \/ AlarmClears

TaskStep(o) ==
  Deliver(o) \/ TaskConfirms(o) \/ TaskErases(o) \/ TaskCompletes(o)

Expiry == PublicationLapses \/ ReceiveLeaseLapses \/ RecoveryLapses

Next ==
  \/ \E q \in Request : ClientStep(q) \/ PreparationLapses(q)
  \/ \E x \in Request \cup {Alarm} : FinStep(x) \/ EvictPublishing(x)
  \/ AlarmStep \/ Expiry \/ Evict \/ SetRefs
  \/ \E o \in Op : TaskStep(o) \/ ClaimLapses(o) \/ TaskFails(o)

Spec == Init /\ [][Next]_vars

\* The runtime finishes a handler it started, fires alarms, delivers messages
\* again and lets leases run out; the owner of a claim may be gone for good.
LiveSpec ==
  /\ Spec
  /\ WF_vars(AlarmStep)
  /\ \A x \in Request \cup {Alarm} : WF_vars(FinStep(x))
  /\ \A q \in Request : WF_vars(Busy(q)) /\ WF_vars(PreparationLapses(q))
  /\ \A o \in Op : WF_vars(TaskStep(o)) /\ WF_vars(ClaimLapses(o))
  /\ WF_vars(PublicationLapses) /\ WF_vars(ReceiveLeaseLapses) /\ WF_vars(RecoveryLapses)

------------------------------------------------------------------------------
(* Properties *)

\* Every catalog row that is served has its pack in R2, whatever dies between
\* the row's upsert and the commit transaction, whoever cleans up beside it.
ActiveStored == \A k \in Key : row[k] # 0 /\ k[1] \notin forgotten => k \in bucket

\* A ref holds the value published last: a publication neither undoes nor
\* loses a concurrent one (the refs are written back from an earlier read).
NothingLost == refs = last

\* One operation, however often it is retried, resumed by the alarm or
\* answered late, moves its ref exactly once and is then served; an operation
\* that was given up never moved it.
VisibleIffLanded ==
  \A o \in Op :
    /\ op[o].st \in {"finalizing", "committed"} =>
         landed[o] = 1 /\ (o \in refOnly \/ row[<<o, op[o].claim>>] # 0)
    /\ op[o].st \in {"processing", "aborted", "failed"} => landed[o] = 0

\* A client is told its push succeeded only when the ref was moved.
AckedLanded ==
  \A q \in Request : w[q].acked => opOf[q] \in moved

\* The pool is never overcommitted, counting the operations past admission.
PoolBounded == Cardinality(Prepared) + Cardinality(ActiveOps) <= pool

\* The exclusive lease that a promoted preparation holds excludes stock work.
PromotionExclusive ==
  \A q \in Request : w[q].pc = "exclusive" /\ rlease = [tok |-> q, live |-> TRUE] =>
    Prepared = {} /\ ActiveOps = {}

\* Once an operation is cleaned up none of its attempts left an output that
\* nothing refers to, unless an attempt outlived its claim.
CleanedUp ==
  \A o \in Op \ late : op[o].st \in Terminal /\ ~op[o].pend =>
    \A c \in 1 .. MaxClaims : <<o, c>> \in bucket => row[<<o, c>>] # 0

\* Once the clients stop, every operation is settled and cleaned up for good,
\* although Workers die and the object is evicted.
Settles == <>[](\A o \in Op : op[o].st \in Terminal \cup {"none"} /\ ~op[o].pend)

\* Outputs are kept exactly as long as a row names them, or someone is still
\* to clean them up.
ArtifactsKept ==
  /\ TypeOK
  /\ ActiveStored
  /\ CleanedUp

\* The refs, the records of the operations and the answers agree, however
\* publications, retries and recoveries of several operations interleave.
OutcomesTrue ==
  /\ NothingLost
  /\ VisibleIffLanded
  /\ AckedLanded

\* Preparations share the pool within its bound, and the promoted one is
\* alone (beginReceiveLease, promoteStockPreparationLease).
PoolFenced ==
  /\ PoolBounded
  /\ PromotionExclusive
=============================================================================
