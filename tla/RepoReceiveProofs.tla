------------------------- MODULE RepoReceiveProofs -------------------------
(***************************************************************************)
(* Proofs about RepoReceive for any sets of refs and pushes, any fan-in    *)
(* and any number of crashes: the types, that the catalog never serves a   *)
(* pack that is not in the bucket, and that every ref names a commit of an *)
(* active pack; then what a replay of a receive may rely on:               *)
(* RecoverySound, the action property PublishedOnce, and that the receive  *)
(* path implements AtomicPush.                                             *)
(***************************************************************************)
EXTENDS RepoReceive, FiniteSetTheorems, TLAPS

------------------------------------------------------------------------------
(* The inductive invariant *)

\* The sessions before their finalizeReceive call, the ones whose push was
\* refused, and the ones in between.
Early == {"idle", "leased", "staging", "staged", "aborting"}
Refused == {"cleanup", "conflict", "failed"}
Lost == {"mismatch", "unknown"}
Sent == {"finalizing", "reconciling", "committed", "mismatch", "unknown"}

\* The object knows nothing of the push.
Untouched(p) ==
  /\ catalog[p] = 0
  /\ intents[p] = NoIntent
  /\ outcomes[p] = "none"
  /\ h.token # p

\* Where a handler is says what is durable of the push it serves.
HandlerPlaced ==
  /\ h # Idle => lease.token = h.token
  /\ h.pc \in {"validate", "infer"} =>
       intents[h.token] = NoIntent /\ outcomes[h.token] = "none"
  /\ h.pc \in {"upsert", "sequence", "packset", "cas", "store"} =>
       intents[h.token] # NoIntent
  /\ h.pc \in {"prior", "priorMark", "mark", "clear", "release",
               "recStore", "recMark", "recRelease"} =>
       outcomes[h.token] # "none"
  /\ h.pc \in {"sequence", "packset", "cas"} /\ HasPack(cmds[h.token]) =>
       catalog[h.token] # 0

\* What is durable of a push agrees with where its session is; in particular a
\* session that may delete its pack has lost the lease for good.
SessionAt(p) ==
  /\ cmds[p] \in Commands(p)
  /\ worker[p] \in Early \cup Refused => Untouched(p)
  /\ worker[p] \in Early => <<"finalize", p>> \notin calls /\ <<"reconcile", p>> \notin calls
  /\ worker[p] \in Refused => lease.token # p
  /\ worker[p] \in Sent \cup {"staged"} => (HasPack(cmds[p]) => p \in bucket)
  /\ lease.token = p /\ catalog[p] # 0 => intents[p] # NoIntent \/ outcomes[p] # "none"
  /\ intents[p] # NoIntent /\ HasPack(cmds[p]) => intents[p].seq # 0

SessionPlaced == \A p \in Push : SessionAt(p)

ReceiveInv ==
  TypeOK /\ HandlerPlaced /\ SessionPlaced /\ ActivePacksStored /\ RefsResolvable

------------------------------------------------------------------------------
(* The operators the model is built from *)

\* What a push may ask for are commands.
LEMMA CommandsTyped ==
  ASSUME NEW p \in Push
  PROVE  Commands(p) \subseteq AllCommands
BY DEF Commands, AllCommands, Oid

\* A session that sent no commands yet.
LEMMA NoCommandsTyped ==
  ASSUME NEW p \in Push
  PROVE  NoCommands \in Commands(p)
<1>1. NoCommands \in [{} -> [old : Oid, new : {p, None}]]
  BY DEF NoCommands, Oid
<1> QED BY <1>1 DEF Commands

\* applyReceiveCommands yields refs.
LEMMA ApplyTyped ==
  ASSUME NEW cur \in Refs, NEW c \in AllCommands
  PROVE  Apply(cur, c) \in Refs
<1>1. PICK D \in SUBSET Ref : c \in [D -> [old : Oid, new : Oid]]
  BY DEF AllCommands
<1> QED BY <1>1 DEF Apply, Refs

\* A resolved HEAD is a HEAD.
LEMMA ResolveHeadTyped ==
  ASSUME NEW t \in Ref, NEW cur \in Refs
  PROVE  ResolveHead(t, cur) \in Heads
BY DEF ResolveHead, Heads, Refs

\* An intent that exists has all its fields.
LEMMA IntentFields ==
  ASSUME TypeOK, NEW p \in Push, intents[p] # NoIntent
  PROVE  intents[p] \in Intents
BY DEF TypeOK

\* A lease keeps its token when it is renewed or expires.
LEMMA LeaseTyped ==
  ASSUME TypeOK, lease.token # None, NEW b \in BOOLEAN
  PROVE  /\ [lease EXCEPT !.live = b] \in Leases
         /\ [lease EXCEPT !.live = b].token = lease.token
<1>1. lease \in [token : Push, live : BOOLEAN]
  BY DEF TypeOK, Leases, NoLease
<1>2. [lease EXCEPT !.live = b] \in [token : Push, live : BOOLEAN]
  BY <1>1, Zenon
<1>3. [lease EXCEPT !.live = b].token = lease.token
  BY <1>1
<1> QED BY <1>2, <1>3 DEF Leases

------------------------------------------------------------------------------
(* Types *)

\* The initial state is typed.
LEMMA TypeInit == Init => TypeOK
<1> SUFFICES ASSUME Init PROVE TypeOK
  OBVIOUS
<1>1. cmds \in [Push -> AllCommands]
  BY NoCommandsTyped, CommandsTyped DEF Init
<1>2. intents \in [Push -> Intents \cup {NoIntent}]
  BY DEF Init
<1>3. lease \in Leases /\ h \in Handlers
  BY DEF Init, Leases, Handlers
<1>4. refs \in Refs /\ head \in Heads /\ begRefs \in [Push -> Refs]
  BY DEF Init, Refs, Heads, Oid
<1>5. worker \in [Push -> WorkerStates]
  BY DEF Init, WorkerStates
<1>6. wanted \in BOOLEAN /\ alarm \in BOOLEAN
  BY Zenon DEF Init
<1>7. /\ refsVersion \in Nat /\ packsetVersion \in Nat /\ nextPackSeq \in Nat \ {0}
      /\ catalog \in [Push -> Nat] /\ crashes \in Nat
      /\ outcomes \in [Push -> {"none", "quiet", "queue"}]
      /\ bucket \in SUBSET Push /\ calls \in SUBSET Calls /\ landed \in SUBSET Push
  BY DEF Init
<1> QED BY <1>1, <1>2, <1>3, <1>4, <1>5, <1>6, <1>7, Zenon DEF TypeOK

\* A handler that moves on keeps serving the token it was started for.
LEMMA GotoTyped ==
  ASSUME TypeOK, h # Idle, NEW s, Goto(s),
         s \in {"priorMark", "upsert", "sequence", "packset", "cas", "store",
                "mark", "clear", "release", "recMark", "recRelease"}
  PROVE  h' \in Handlers
BY DEF TypeOK, Goto, Handlers

\* The Worker's answer is one of its states.
LEMMA AnswerTyped ==
  ASSUME TypeOK, NEW by, NEW t \in Push, NEW s \in WorkerStates, Answer(by, t, s)
  PROVE  worker' \in [Push -> WorkerStates]
BY DEF TypeOK, Answer

\* storeReceiveOutcome keeps the outcomes outcomes.
LEMMA StoreOutcomeTyped ==
  ASSUME TypeOK, NEW t \in Push, NEW q \in {"none", "quiet", "queue"}, StoreOutcome(t, q)
  PROVE  outcomes' \in [Push -> {"none", "quiet", "queue"}]
BY DEF TypeOK, StoreOutcome

\* Every step of a Worker keeps the types.
LEMMA TypeWorker ==
  ASSUME TypeOK, NEW p \in Push, WorkerStep(p)
  PROVE  TypeOK'
<1>1. CASE BeginReceive(p)
  <2>1. lease' \in Leases
    BY <1>1 DEF BeginReceive, Leases
  <2>2. begRefs' \in [Push -> Refs] /\ worker' \in [Push -> WorkerStates]
    BY <1>1 DEF BeginReceive, TypeOK, WorkerStates
  <2> QED BY <1>1, <2>1, <2>2 DEF BeginReceive, TypeOK
<1>2. CASE BeginRefused(p)
  <2>1. lease' \in Leases
    BY <1>2, LeaseTyped DEF BeginRefused
  <2> QED BY <1>2, <2>1 DEF BeginRefused, TypeOK, session
<1>3. CASE Preflight(p)
  <2>1. cmds' \in [Push -> AllCommands]
    BY <1>3, CommandsTyped DEF Preflight, TypeOK
  <2>2. worker' \in [Push -> WorkerStates]
    BY <1>3 DEF Preflight, TypeOK, WorkerStates
  <2> QED BY <1>3, <2>1, <2>2 DEF Preflight, TypeOK, durable
<1>4. CASE StagePack(p)
  BY <1>4 DEF StagePack, TypeOK, durable, WorkerStates
<1>5. CASE GiveUp(p)
  BY <1>5 DEF GiveUp, TypeOK, durable, WorkerStates
<1>6. CASE AbortReceive(p)
  <2>1. lease' \in Leases
    BY <1>6 DEF AbortReceive, TypeOK, Leases
  <2>2. worker' \in [Push -> WorkerStates]
    BY <1>6 DEF AbortReceive, TypeOK, WorkerStates
  <2> QED BY <1>6, <2>1, <2>2 DEF AbortReceive, TypeOK
<1>7. CASE CleanupStagedPack(p)
  BY <1>7 DEF CleanupStagedPack, TypeOK, durable, WorkerStates
<1>8. CASE CallFinalize(p)
  BY <1>8 DEF CallFinalize, TypeOK, durable, WorkerStates, Calls
<1>9. CASE FinalizeFails(p)
  BY <1>9 DEF FinalizeFails, TypeOK, durable, WorkerStates, Calls
<1>10. CASE ReconcileFails(p)
  BY <1>10 DEF ReconcileFails, TypeOK, durable, WorkerStates
<1> QED BY <1>1, <1>2, <1>3, <1>4, <1>5, <1>6, <1>7, <1>8, <1>9, <1>10
        DEF WorkerStep

\* A running handler serves a push.
LEMMA HandlerToken ==
  ASSUME TypeOK, h.pc # "idle"
  PROVE  h # Idle /\ h.token \in Push
BY DEF TypeOK, Handlers, Idle

\* Every step of a handler keeps the types.
LEMMA TypeHandler ==
  ASSUME TypeOK, HandlerPlaced, HandlerStep
  PROVE  TypeOK'
<1>1. CASE PriorOutcome
  <2>1. h # Idle /\ h.token \in Push
    BY <1>1, HandlerToken DEF PriorOutcome
  <2>2. outcomes' \in [Push -> {"none", "quiet", "queue"}]
    BY <1>1, <2>1, StoreOutcomeTyped DEF PriorOutcome, TypeOK
  <2>3. h' \in Handlers
    BY <1>1, <2>1, GotoTyped DEF PriorOutcome
  <2> QED BY <1>1, <2>2, <2>3 DEF PriorOutcome, TypeOK, session
<1>2. CASE WriteIntent
  <2>1. h # Idle /\ h.token \in Push /\ cmds[h.token] \in AllCommands
    BY <1>2, HandlerToken DEF WriteIntent, TypeOK
  <2> DEFINE t == h.token
             new == [expected |-> refsVersion,
                     seq |-> IF HasPack(cmds[t]) THEN nextPackSeq ELSE 0,
                     packset |-> IF HasPack(cmds[t]) THEN packsetVersion + 1 ELSE 0,
                     head |-> ResolveHead(head.target, Apply(refs, cmds[t]))]
  <2>2. CASE lease' = (IF lease.token = t THEN NoLease ELSE lease)
             /\ (Answer(h.by, t, "conflict") \/ Answer(h.by, t, "mismatch"))
             /\ h' = Idle /\ UNCHANGED <<intents, alarm>>
    <3>1. lease' \in Leases
      BY <2>2 DEF TypeOK, Leases
    <3>2. worker' \in [Push -> WorkerStates]
      BY <2>1, <2>2, AnswerTyped DEF WorkerStates
    <3>3. h' \in Handlers
      BY <2>2 DEF Handlers
    <3> QED BY <1>2, <2>2, <3>1, <3>2, <3>3 DEF WriteIntent, TypeOK
  <2>3. CASE intents' = [intents EXCEPT ![t] = new] /\ ScheduleRecovery
             /\ Goto("upsert") /\ UNCHANGED <<lease, worker>>
    <3>1. ResolveHead(head.target, Apply(refs, cmds[t])) \in Heads
      BY <2>1, ApplyTyped, ResolveHeadTyped DEF TypeOK, Heads
    <3>2. new \in Intents
      BY <3>1 DEF TypeOK, Intents
    <3>3. intents' \in [Push -> Intents \cup {NoIntent}]
      BY <2>1, <2>3, <3>2 DEF TypeOK
    <3>4. h' \in Handlers
      BY <2>1, <2>3, GotoTyped
    <3>5. alarm' \in BOOLEAN
      BY <2>3, Zenon DEF ScheduleRecovery
    <3> HIDE DEF new
    <3> QED BY <1>2, <2>3, <3>3, <3>4, <3>5 DEF WriteIntent, TypeOK
  <2> QED BY <1>2, <2>2, <2>3 DEF WriteIntent
<1>3. CASE ActivatePack
  <2>1. h # Idle /\ h.token \in Push
    BY <1>3, HandlerToken DEF ActivatePack
  <2>2. CASE Throw /\ UNCHANGED catalog
    <3>1. h' \in Handlers
      BY <2>2 DEF Throw, Handlers
    <3>2. alarm' \in BOOLEAN
      BY <2>2, Zenon DEF Throw, TypeOK
    <3> QED BY <1>3, <2>2, <3>1, <3>2 DEF ActivatePack, TypeOK, session
  <2>3. CASE /\ catalog' = IF HasPack(cmds[h.token])
                           THEN [catalog EXCEPT ![h.token] = intents[h.token].seq]
                           ELSE catalog
             /\ Goto(IF HasPack(cmds[h.token]) THEN "sequence" ELSE "cas")
             /\ UNCHANGED alarm
    <3>1. h' \in Handlers
      BY <2>1, <2>3, GotoTyped
    <3>2. intents[h.token].seq \in Nat
      BY <1>3, <2>1, IntentFields DEF ActivatePack, HandlerPlaced, Intents
    <3>3. catalog' \in [Push -> Nat]
      BY <2>1, <2>3, <3>2 DEF TypeOK
    <3> QED BY <1>3, <2>3, <3>1, <3>3 DEF ActivatePack, TypeOK, session
  <2> QED BY <1>3, <2>2, <2>3 DEF ActivatePack
<1>4. CASE AdvanceSequence
  <2>1. h # Idle /\ h.token \in Push
    BY <1>4, HandlerToken DEF AdvanceSequence
  <2>2. h' \in Handlers
    BY <1>4, <2>1, GotoTyped DEF AdvanceSequence
  <2>3. intents[h.token].seq \in Nat
    BY <1>4, <2>1, IntentFields DEF AdvanceSequence, HandlerPlaced, Intents
  <2>4. nextPackSeq' \in Nat \ {0}
    BY <1>4, <2>3 DEF AdvanceSequence, SequenceAfter, TypeOK
  <2> QED BY <1>4, <2>2, <2>4 DEF AdvanceSequence, TypeOK, session
<1>5. CASE AdvancePackset
  <2>1. h # Idle /\ h.token \in Push
    BY <1>5, HandlerToken DEF AdvancePackset
  <2>2. h' \in Handlers
    BY <1>5, <2>1, GotoTyped DEF AdvancePackset
  <2>3. intents[h.token].packset \in Nat
    BY <1>5, <2>1, IntentFields DEF AdvancePackset, HandlerPlaced, Intents
  <2>4. packsetVersion' \in Nat
    BY <1>5, <2>3 DEF AdvancePackset, TypeOK
  <2> QED BY <1>5, <2>2, <2>4 DEF AdvancePackset, TypeOK, session
<1>6. CASE PublishRefs
  <2>1. h # Idle /\ h.token \in Push /\ cmds[h.token] \in AllCommands
    BY <1>6, HandlerToken DEF PublishRefs, TypeOK
  <2>2. CASE Throw /\ UNCHANGED <<refs, head, refsVersion, landed>>
    <3>1. h' \in Handlers
      BY <2>2 DEF Throw, Handlers
    <3>2. alarm' \in BOOLEAN
      BY <2>2, Zenon DEF Throw, TypeOK
    <3> QED BY <1>6, <2>2, <3>1, <3>2 DEF PublishRefs, TypeOK, session
  <2>3. CASE /\ refs' = Apply(refs, cmds[h.token])
             /\ head' = intents[h.token].head
             /\ refsVersion' = PublishedVersion(h.token)
             /\ landed' = landed \cup {h.token}
             /\ Goto("store")
             /\ UNCHANGED alarm
    <3>1. h' \in Handlers
      BY <2>1, <2>3, GotoTyped
    <3>2. intents[h.token] \in Intents
      BY <1>6, <2>1, IntentFields DEF PublishRefs, HandlerPlaced
    <3>3. head' \in Heads /\ refsVersion' \in Nat
      BY <2>3, <3>2 DEF Intents, PublishedVersion
    <3>4. refs' \in Refs
      BY <2>1, <2>3, ApplyTyped DEF TypeOK
    <3> QED BY <1>6, <2>1, <2>3, <3>1, <3>3, <3>4 DEF PublishRefs, TypeOK, session
  <2> QED BY <1>6, <2>2, <2>3 DEF PublishRefs
<1>7. CASE RecordOutcome
  <2>1. h # Idle /\ h.token \in Push
    BY <1>7, HandlerToken DEF RecordOutcome
  <2>2. outcomes' \in [Push -> {"none", "quiet", "queue"}]
    BY <1>7, <2>1, StoreOutcomeTyped DEF RecordOutcome, QueueFlag
  <2>3. h' \in Handlers
    BY <1>7, <2>1, GotoTyped DEF RecordOutcome
  <2> QED BY <1>7, <2>2, <2>3 DEF RecordOutcome, TypeOK, session
<1>8. CASE RequestCompaction
  <2>1. h # Idle /\ h.token \in Push
    BY <1>8, HandlerToken DEF RequestCompaction
  <2>2. h' \in Handlers
    BY <1>8, <2>1, GotoTyped DEF RequestCompaction
  <2>3. wanted' \in BOOLEAN
    BY <1>8, Zenon DEF RequestCompaction, TypeOK
  <2> QED BY <1>8, <2>2, <2>3 DEF RequestCompaction, TypeOK, session
<1>9. CASE DeleteIntent
  <2>1. h # Idle /\ h.token \in Push
    BY <1>9, HandlerToken DEF DeleteIntent
  <2>2. h' \in Handlers
    BY <1>9, <2>1, GotoTyped DEF DeleteIntent
  <2>3. intents' \in [Push -> Intents \cup {NoIntent}]
    BY <1>9, <2>1 DEF DeleteIntent, TypeOK
  <2> QED BY <1>9, <2>2, <2>3 DEF DeleteIntent, TypeOK, session
<1>10. CASE ReleaseLease
  <2>1. h # Idle /\ h.token \in Push
    BY <1>10, HandlerToken DEF ReleaseLease
  <2>2. worker' \in [Push -> WorkerStates]
    BY <1>10, <2>1, AnswerTyped DEF ReleaseLease, WorkerStates
  <2>3. h' \in Handlers /\ lease' \in Leases
    BY <1>10 DEF ReleaseLease, Handlers, Leases
  <2> QED BY <1>10, <2>2, <2>3 DEF ReleaseLease, TypeOK
<1>11. CASE InferOutcome
  <2>1. h # Idle /\ h.token \in Push
    BY <1>11, HandlerToken DEF InferOutcome
  <2>2. CASE /\ \E q \in {"queue", "quiet"} : StoreOutcome(h.token, q)
             /\ landed' = landed \cup {h.token}
             /\ Goto("recRelease")
             /\ UNCHANGED <<lease, worker>>
    <3>1. outcomes' \in [Push -> {"none", "quiet", "queue"}]
      BY <2>1, <2>2, StoreOutcomeTyped
    <3>2. h' \in Handlers
      BY <2>1, <2>2, GotoTyped
    <3> QED BY <1>11, <2>1, <2>2, <3>1, <3>2 DEF InferOutcome, TypeOK
  <2>3. CASE /\ lease' \in {lease, NoLease}
             /\ \E s \in {"unknown", "cleanup"} : Answer(h.by, h.token, s)
             /\ h' = Idle
             /\ UNCHANGED <<outcomes, landed>>
    <3>1. worker' \in [Push -> WorkerStates]
      BY <2>1, <2>3, AnswerTyped DEF WorkerStates
    <3>2. h' \in Handlers /\ lease' \in Leases
      BY <2>3 DEF Handlers, Leases, TypeOK
    <3> QED BY <1>11, <2>3, <3>1, <3>2 DEF InferOutcome, TypeOK
  <2> QED BY <1>11, <2>2, <2>3 DEF InferOutcome
<1> QED BY <1>1, <1>2, <1>3, <1>4, <1>5, <1>6, <1>7, <1>8, <1>9, <1>10, <1>11
        DEF HandlerStep

\* The fence is a lease of the push.
LEMMA FenceTyped ==
  ASSUME NEW p \in Push, TakeFence(p)
  PROVE  lease' \in Leases /\ lease'.token = p
BY DEF TakeFence, Leases

\* finalizeReceive and reconcileReceive start a handler or answer at once.
LEMMA TypeCall ==
  ASSUME TypeOK, NEW p \in Push, FinalizeReceive(p) \/ ReconcileReceive(p)
  PROVE  TypeOK'
<1>1. CASE FinalizeReceive(p)
  <2>1. lease' \in Leases
    BY <1>1, FenceTyped DEF FinalizeReceive, TypeOK
  <2>2. h' \in Handlers
    BY <1>1 DEF FinalizeReceive, FinalizeFrom, Handlers, TypeOK
  <2>3. worker' \in [Push -> WorkerStates]
    BY <1>1, AnswerTyped DEF FinalizeReceive, TypeOK, WorkerStates
  <2> QED BY <1>1, <2>1, <2>2, <2>3 DEF FinalizeReceive, TypeOK
<1>2. CASE ReconcileReceive(p)
  <2>1. lease' \in Leases
    BY <1>2, FenceTyped DEF ReconcileReceive, TypeOK
  <2>2. h' \in Handlers
    BY <1>2 DEF ReconcileReceive, FinalizeFrom, Handlers, TypeOK
  <2>3. worker' \in [Push -> WorkerStates]
    BY <1>2, AnswerTyped DEF ReconcileReceive, TypeOK, WorkerStates
  <2> QED BY <1>2, <2>1, <2>2, <2>3 DEF ReconcileReceive, TypeOK
<1> QED BY <1>1, <1>2

\* The alarm, time, failures and administrators keep the types.
LEMMA TypeOther ==
  ASSUME TypeOK,
         \/ AlarmStep \/ LeaseExpires \/ LoseCall \/ Crash
         \/ AdminSetRefs \/ AdminSetHead \/ GetHead
  PROVE  TypeOK'
<1>1. CASE ResumeFinalize
  <2>1. lease.token \in Push
    BY <1>1 DEF ResumeFinalize, HasIntent, TypeOK, Leases, NoLease
  <2>2. lease' \in Leases /\ h' \in Handlers
    BY <1>1, <2>1 DEF ResumeFinalize, TakeFence, FinalizeFrom, Leases, Handlers
  <2>3. alarm' \in BOOLEAN
    BY <1>1, Zenon DEF ResumeFinalize
  <2> QED BY <1>1, <2>2, <2>3 DEF ResumeFinalize, TypeOK, session
<1>2. CASE ClearExpiredLease
  <2>1. lease' \in Leases
    BY <1>2, LeaseTyped DEF ClearExpiredLease, TypeOK, Leases
  <2>2. alarm' \in BOOLEAN
    BY <1>2, Zenon DEF ClearExpiredLease, TypeOK
  <2> QED BY <1>2, <2>1, <2>2 DEF ClearExpiredLease, TypeOK, session
<1>3. CASE LeaseExpires
  <2>1. lease' \in Leases
    BY <1>3, LeaseTyped DEF LeaseExpires
  <2> QED BY <1>3, <2>1 DEF LeaseExpires, TypeOK, session
<1>4. CASE LoseCall
  BY <1>4 DEF LoseCall, TypeOK, durable, session
<1>5. CASE Crash
  <2>1. h' \in Handlers /\ crashes' \in Nat
    BY <1>5 DEF Crash, Throw, Handlers, TypeOK
  <2>2. alarm' \in BOOLEAN
    BY <1>5, Zenon DEF Crash, Throw, TypeOK
  <2> QED BY <1>5, <2>1, <2>2 DEF Crash, TypeOK, session
<1>6. CASE AdminSetRefs
  <2>1. refs' \in Refs /\ lease' \in Leases
    BY <1>6 DEF AdminSetRefs, Refs, Oid, Active, Leases
  <2> QED BY <1>6, <2>1 DEF AdminSetRefs, TypeOK, session
<1>7. CASE AdminSetHead
  BY <1>7 DEF AdminSetHead, TypeOK, session, Leases
<1>8. CASE GetHead
  <2>1. head' \in Heads
    BY <1>8, ResolveHeadTyped DEF GetHead, TypeOK, Heads
  <2> QED BY <1>8, <2>1 DEF GetHead, TypeOK, session
<1> QED BY <1>1, <1>2, <1>3, <1>4, <1>5, <1>6, <1>7, <1>8 DEF AlarmStep

\* Every step keeps the types.  The handlers read fields of the intent they
\* replay, so that typing rests on HandlerPlaced.
LEMMA TypeStep ==
  ASSUME TypeOK, HandlerPlaced, [Next]_vars
  PROVE  TypeOK'
<1>1. CASE UNCHANGED vars
  BY <1>1 DEF vars, TypeOK
<1> QED BY <1>1, TypeWorker, TypeCall, TypeHandler, TypeOther DEF Next

------------------------------------------------------------------------------
(* Handlers *)

\* storeReceiveOutcome records the outcome and may forget another one.
LEMMA StoreOutcomeEffect ==
  ASSUME TypeOK, NEW t \in Push, NEW q, StoreOutcome(t, q)
  PROVE  /\ outcomes'[t] = q
         /\ \A p \in Push \ {t} : outcomes'[p] \in {outcomes[p], "none"}
BY DEF StoreOutcome, TypeOK

\* An object that runs no handler satisfies HandlerPlaced.
LEMMA IdlePlaced == ASSUME h' = Idle PROVE HandlerPlaced'
BY DEF HandlerPlaced, Idle

\* A step that leaves the handler and what is durable of its push alone.
LEMMA SameHandler ==
  ASSUME TypeOK, HandlerPlaced, h' = h,
         h # Idle => /\ lease'.token = lease.token
                     /\ intents'[h.token] = intents[h.token]
                     /\ outcomes'[h.token] = outcomes[h.token]
                     /\ catalog'[h.token] = catalog[h.token]
                     /\ cmds'[h.token] = cmds[h.token]
  PROVE  HandlerPlaced'
<1>1. CASE h = Idle
  BY <1>1, IdlePlaced
<1>2. CASE h # Idle
  BY <1>2 DEF HandlerPlaced, HasPack
<1> QED BY <1>1, <1>2

\* Worker steps do not disturb a running handler.
LEMMA HandlerWorker ==
  ASSUME TypeOK, HandlerPlaced, SessionPlaced, NEW p \in Push, WorkerStep(p)
  PROVE  HandlerPlaced'
<1>1. CASE BeginReceive(p) \/ BeginRefused(p) \/ AbortReceive(p)
  BY <1>1, SameHandler DEF BeginReceive, BeginRefused, AbortReceive
<1>2. CASE Preflight(p)
  <2>1. h.token # p
    BY <1>2 DEF Preflight, SessionPlaced, SessionAt, Early, Untouched
  <2>2. h # Idle => cmds'[h.token] = cmds[h.token]
    BY <1>2, <2>1 DEF Preflight, TypeOK, Handlers
  <2> QED BY <1>2, <2>2, SameHandler DEF Preflight, durable
<1>3. CASE \/ StagePack(p) \/ GiveUp(p) \/ CleanupStagedPack(p)
           \/ CallFinalize(p) \/ FinalizeFails(p) \/ ReconcileFails(p)
  BY <1>3, SameHandler DEF StagePack, GiveUp, CleanupStagedPack, CallFinalize,
     FinalizeFails, ReconcileFails, durable
<1> QED BY <1>1, <1>2, <1>3 DEF WorkerStep

\* A handler starts where the durable state of its push tells it to.
LEMMA HandlerStarts ==
  ASSUME TypeOK, NEW p \in Push, lease'.token = p,
         UNCHANGED <<intents, outcomes, catalog, cmds>>,
         h'.token = p,
         \/ h'.pc = FinalizeFrom(p)
         \/ h'.pc = "recStore" /\ HasOutcome(p)
         \/ h'.pc = "infer" /\ ~HasOutcome(p) /\ ~HasIntent(p)
  PROVE  HandlerPlaced'
BY NoneAssumption DEF HandlerPlaced, FinalizeFrom, HasOutcome, HasIntent, Idle

\* finalizeReceive and reconcileReceive start a handler only when none runs.
LEMMA HandlerCall ==
  ASSUME TypeOK, HandlerPlaced, NEW p \in Push, FinalizeReceive(p) \/ ReconcileReceive(p)
  PROVE  HandlerPlaced'
<1>1. CASE UNCHANGED <<lease, h>>
  BY <1>1, SameHandler DEF FinalizeReceive, ReconcileReceive
<1>2. CASE FinalizeReceive(p) /\ TakeFence(p)
           /\ h' = [by |-> "finalize", token |-> p, pc |-> FinalizeFrom(p)]
  BY <1>2, FenceTyped, HandlerStarts DEF FinalizeReceive
<1>3. CASE ReconcileReceive(p) /\ TakeFence(p)
           /\ h' = [by |-> "reconcile", token |-> p,
                    pc |-> IF HasOutcome(p) THEN "recStore"
                           ELSE IF HasIntent(p) THEN FinalizeFrom(p) ELSE "infer"]
  BY <1>3, FenceTyped, HandlerStarts DEF ReconcileReceive
<1> QED BY <1>1, <1>2, <1>3 DEF FinalizeReceive, ReconcileReceive

\* The alarm, time, failures and administrators respect the handler.
LEMMA HandlerOther ==
  ASSUME TypeOK, HandlerPlaced,
         \/ AlarmStep \/ LeaseExpires \/ LoseCall \/ Crash
         \/ AdminSetRefs \/ AdminSetHead \/ GetHead
  PROVE  HandlerPlaced'
<1>1. CASE ResumeFinalize
  <2>1. lease.token \in Push
    BY <1>1 DEF ResumeFinalize, HasIntent, TypeOK, Leases, NoLease
  <2> QED BY <1>1, <2>1, FenceTyped, HandlerStarts DEF ResumeFinalize, session
<1>2. CASE ClearExpiredLease \/ AdminSetRefs \/ AdminSetHead \/ GetHead
  BY <1>2, SameHandler DEF ClearExpiredLease, AdminSetRefs, AdminSetHead, GetHead
<1>3. CASE LeaseExpires
  <2>1. lease'.token = lease.token
    BY <1>3, LeaseTyped DEF LeaseExpires
  <2> QED BY <1>3, <2>1, SameHandler DEF LeaseExpires, session
<1>4. CASE LoseCall
  BY <1>4, SameHandler DEF LoseCall, durable, session
<1>5. CASE Crash
  BY <1>5, IdlePlaced DEF Crash, Throw
<1> QED BY <1>1, <1>2, <1>3, <1>4, <1>5 DEF AlarmStep

\* A handler that moves on has made durable what its next step relies on.
LEMMA HandlerMoves ==
  ASSUME TypeOK, HandlerPlaced, SessionPlaced, HandlerStep
  PROVE  HandlerPlaced'
<1>0. h # Idle /\ h.token \in Push /\ lease.token = h.token
  BY HandlerToken DEF HandlerStep, HandlerPlaced, PriorOutcome, WriteIntent,
     ActivatePack, AdvanceSequence, AdvancePackset, PublishRefs, RecordOutcome,
     RequestCompaction, DeleteIntent, ReleaseLease, InferOutcome
<1>a. ASSUME NEW s, Goto(s) PROVE h'.pc = s /\ h'.token = h.token
  BY <1>0, <1>a DEF Goto, TypeOK, Handlers
<1>1. CASE PriorOutcome
  <2>1. outcomes'[h.token] # "none"
    BY <1>0, <1>1, StoreOutcomeEffect DEF PriorOutcome, HandlerPlaced
  <2> QED BY <1>0, <1>1, <1>a, <2>1 DEF PriorOutcome, HandlerPlaced
<1>2. CASE WriteIntent
  <2>1. CASE h' = Idle
    BY <2>1, IdlePlaced
  <2>2. CASE h' # Idle
    <3>1. Goto("upsert") /\ intents'[h.token].expected = refsVersion /\ lease' = lease
      BY <1>0, <1>2, <2>2 DEF WriteIntent, TypeOK
    <3>2. intents'[h.token] # NoIntent
      BY <3>1 DEF NoIntent, TypeOK
    <3> QED BY <1>0, <1>a, <3>1, <3>2 DEF HandlerPlaced
  <2> QED BY <2>1, <2>2
<1>3. CASE ActivatePack
  <2>1. CASE h' = Idle
    BY <2>1, IdlePlaced
  <2>2. CASE h' # Idle
    <3>1. /\ h'.token = h.token
          /\ h'.pc = IF HasPack(cmds[h.token]) THEN "sequence" ELSE "cas"
      BY <1>3, <1>a, <2>2 DEF ActivatePack, Throw
    <3>2. HasPack(cmds[h.token]) => catalog'[h.token] # 0
      BY <1>0, <1>3, <2>2 DEF ActivatePack, Throw, SessionPlaced, SessionAt,
         HandlerPlaced, TypeOK
    <3> QED BY <1>0, <1>3, <3>1, <3>2 DEF ActivatePack, HandlerPlaced, session
  <2> QED BY <2>1, <2>2
<1>4. CASE AdvanceSequence \/ AdvancePackset
  BY <1>0, <1>4, <1>a DEF AdvanceSequence, AdvancePackset, HandlerPlaced, session
<1>5. CASE PublishRefs
  <2>1. CASE h' = Idle
    BY <2>1, IdlePlaced
  <2>2. CASE h' # Idle
    BY <1>0, <1>5, <1>a, <2>2 DEF PublishRefs, Throw, HandlerPlaced, session
  <2> QED BY <2>1, <2>2
<1>6. CASE RecordOutcome
  <2>1. outcomes'[h.token] # "none"
    BY <1>0, <1>6, StoreOutcomeEffect DEF RecordOutcome, QueueFlag
  <2> QED BY <1>0, <1>6, <1>a, <2>1 DEF RecordOutcome, HandlerPlaced, session
<1>7. CASE RequestCompaction
  BY <1>0, <1>7, <1>a DEF RequestCompaction, HandlerPlaced, session
<1>8. CASE DeleteIntent
  BY <1>0, <1>8, <1>a DEF DeleteIntent, HandlerPlaced, session
<1>9. CASE ReleaseLease
  BY <1>9, IdlePlaced DEF ReleaseLease
<1>10. CASE InferOutcome
  <2>1. CASE h' = Idle
    BY <2>1, IdlePlaced
  <2>2. CASE h' # Idle
    <3>1. Goto("recRelease") /\ lease' = lease
          /\ \E q \in {"queue", "quiet"} : StoreOutcome(h.token, q)
      BY <1>10, <2>2 DEF InferOutcome
    <3>2. outcomes'[h.token] # "none"
      BY <1>0, <3>1, StoreOutcomeEffect
    <3> QED BY <1>0, <1>a, <3>1, <3>2 DEF HandlerPlaced
  <2> QED BY <2>1, <2>2
<1> QED BY <1>1, <1>2, <1>3, <1>4, <1>5, <1>6, <1>7, <1>8, <1>9, <1>10
        DEF HandlerStep

\* Every step keeps HandlerPlaced.
LEMMA HandlerStepPlaced ==
  ASSUME TypeOK, HandlerPlaced, SessionPlaced, [Next]_vars
  PROVE  HandlerPlaced'
<1>1. CASE UNCHANGED vars
  BY <1>1, SameHandler DEF vars
<1> QED BY <1>1, HandlerWorker, HandlerCall, HandlerMoves, HandlerOther DEF Next

------------------------------------------------------------------------------
(* Sessions *)

\* A step that concerns another push: it may take this one's lease or forget
\* its outcome.
LEMMA SameSession ==
  ASSUME NEW q \in Push, SessionAt(q),
         UNCHANGED <<worker[q], cmds[q], catalog[q], intents[q]>>,
         h'.token # q \/ h' = h,
         lease'.token # q \/ lease' = lease,
         outcomes'[q] = outcomes[q] \/ (outcomes'[q] = "none" /\ lease'.token # q),
         q \in bucket => q \in bucket',
         \A k \in {"finalize", "reconcile"} : <<k, q>> \in calls' => <<k, q>> \in calls
  PROVE  SessionAt(q)'
BY DEF SessionAt, Untouched, HasPack

\* An answer moves only a Worker that waits for it.
LEMMA AnswerEffect ==
  ASSUME TypeOK, NEW by, NEW t \in Push, NEW s, Answer(by, t, s)
  PROVE  /\ worker'[t] \in {worker[t], s}
         /\ worker'[t] # worker[t] => worker[t] \in {"finalizing", "reconciling"}
         /\ \A q \in Push \ {t} : worker'[q] = worker[q]
BY DEF Answer, TypeOK

\* Worker steps keep SessionAt: the session that moves and all others.
LEMMA SessionWorker ==
  ASSUME TypeOK, HandlerPlaced, SessionPlaced, NEW p \in Push, WorkerStep(p), NEW q \in Push
  PROVE  SessionAt(q)'
<1>0. SessionAt(q) /\ SessionAt(p)
  BY DEF SessionPlaced
<1> USE DEF Early, Refused, Sent
<1>1. CASE BeginReceive(p)
  <2>1. CASE q = p
    BY <1>0, <1>1, <2>1 DEF BeginReceive, SessionAt, Untouched, TypeOK
  <2>2. CASE q # p
    BY <1>0, <1>1, <2>2, SameSession DEF BeginReceive, TypeOK
  <2> QED BY <2>1, <2>2
<1>2. CASE BeginRefused(p)
  <2>1. lease'.token = lease.token
    BY <1>2, LeaseTyped DEF BeginRefused
  <2> QED BY <1>0, <1>2, <2>1 DEF BeginRefused, session, SessionAt, Untouched, HasPack
<1>3. CASE Preflight(p)
  <2>1. CASE q = p
    BY <1>0, <1>3, <2>1 DEF Preflight, durable, SessionAt, Untouched, TypeOK
  <2>2. CASE q # p
    BY <1>0, <1>3, <2>2, SameSession DEF Preflight, durable, TypeOK
  <2> QED BY <2>1, <2>2
<1>4. CASE StagePack(p)
  <2>1. CASE q = p
    BY <1>0, <1>4, <2>1 DEF StagePack, durable, SessionAt, Untouched, TypeOK
  <2>2. CASE q # p
    BY <1>0, <1>4, <2>2, SameSession DEF StagePack, durable, TypeOK
  <2> QED BY <2>1, <2>2
<1>5. CASE GiveUp(p)
  <2>1. CASE q = p
    BY <1>0, <1>5, <2>1 DEF GiveUp, durable, SessionAt, Untouched, TypeOK
  <2>2. CASE q # p
    BY <1>0, <1>5, <2>2, SameSession DEF GiveUp, durable, TypeOK
  <2> QED BY <2>1, <2>2
<1>6. CASE AbortReceive(p)
  <2>1. CASE q = p
    <3>1. lease'.token # p
      BY <1>6, NoneAssumption DEF AbortReceive, NoLease
    <3>2. worker'[p] \in {"cleanup", "failed", "aborting"}
      BY <1>6 DEF AbortReceive, TypeOK
    <3> QED BY <1>0, <1>6, <2>1, <3>1, <3>2 DEF AbortReceive, SessionAt, Untouched
  <2>2. CASE q # p
    BY <1>0, <1>6, <2>2, SameSession, NoneAssumption DEF AbortReceive, TypeOK, NoLease
  <2> QED BY <2>1, <2>2
<1>7. CASE CleanupStagedPack(p)
  <2>1. CASE q = p
    BY <1>0, <1>7, <2>1 DEF CleanupStagedPack, Refusals, durable, SessionAt, Untouched, TypeOK
  <2>2. CASE q # p
    BY <1>0, <1>7, <2>2, SameSession DEF CleanupStagedPack, durable, TypeOK
  <2> QED BY <2>1, <2>2
<1>8. CASE CallFinalize(p) \/ FinalizeFails(p) \/ ReconcileFails(p)
  <2>1. CASE q = p
    BY <1>0, <1>8, <2>1 DEF CallFinalize, FinalizeFails, ReconcileFails, durable,
       SessionAt, Untouched, TypeOK
  <2>2. CASE q # p
    BY <1>0, <1>8, <2>2, SameSession DEF CallFinalize, FinalizeFails,
       ReconcileFails, durable, TypeOK
  <2> QED BY <2>1, <2>2
<1> QED BY <1>1, <1>2, <1>3, <1>4, <1>5, <1>6, <1>7, <1>8 DEF WorkerStep

\* A late finalizeReceive or reconcileReceive of a refused session finds
\* neither lease nor intent nor outcome, and starts nothing.
LEMMA SessionCall ==
  ASSUME TypeOK, SessionPlaced, NEW p \in Push,
         FinalizeReceive(p) \/ ReconcileReceive(p), NEW q \in Push
  PROVE  SessionAt(q)'
<1>0. SessionAt(q) /\ SessionAt(p)
  BY DEF SessionPlaced
<1> USE DEF Early, Refused, Sent
<1>1. /\ calls' \subseteq calls
      /\ <<"finalize", p>> \in calls \/ <<"reconcile", p>> \in calls
      /\ UNCHANGED <<catalog, intents, outcomes, bucket, cmds>>
  BY DEF FinalizeReceive, ReconcileReceive
<1>2. worker[p] \notin Early
  BY <1>0, <1>1 DEF SessionAt
<1>3. CASE \E by, s : s \in {"mismatch", "unknown"} /\ Answer(by, p, s) /\ UNCHANGED <<lease, h>>
  <2>1. /\ worker'[p] \in {worker[p], "mismatch", "unknown"}
        /\ worker'[p] # worker[p] => worker[p] \in Sent
        /\ q # p => worker'[q] = worker[q]
    BY <1>3, AnswerEffect
  <2>2. CASE q = p
    BY <1>0, <1>1, <1>2, <1>3, <2>1, <2>2 DEF SessionAt, Untouched, HasPack
  <2>3. CASE q # p
    BY <1>0, <1>1, <1>3, <2>1, <2>3, SameSession
  <2> QED BY <2>2, <2>3
<1>4. CASE FenceHeld(p) /\ TakeFence(p) /\ h'.token = p /\ UNCHANGED worker
  <2>1. lease'.token = p
    BY <1>4, FenceTyped
  <2>2. worker[p] \in Sent
    BY <1>0, <1>2, <1>4 DEF SessionAt, Untouched, FenceHeld, HasIntent, HasOutcome,
       TypeOK, WorkerStates
  <2>3. catalog[p] # 0 => intents[p] # NoIntent \/ outcomes[p] # "none"
    BY <1>0, <1>4 DEF SessionAt, FenceHeld, HasIntent, HasOutcome
  <2>4. CASE q = p
    BY <1>0, <1>1, <1>4, <2>2, <2>3, <2>4 DEF SessionAt, HasPack
  <2>5. CASE q # p
    BY <1>0, <1>1, <1>4, <2>1, <2>5, SameSession
  <2> QED BY <2>4, <2>5
<1> QED BY <1>3, <1>4 DEF FinalizeReceive, ReconcileReceive

\* Handler steps keep SessionAt: only the push they serve changes, and it is
\* refused only while nothing of it is durable.
LEMMA SessionHandler ==
  ASSUME TypeOK, HandlerPlaced, SessionPlaced, HandlerStep, NEW q \in Push
  PROVE  SessionAt(q)'
<1> DEFINE t == h.token
<1>0. h # Idle /\ t \in Push /\ lease.token = t
  BY HandlerToken DEF HandlerStep, HandlerPlaced, PriorOutcome, WriteIntent,
     ActivatePack, AdvanceSequence, AdvancePackset, PublishRefs, RecordOutcome,
     RequestCompaction, DeleteIntent, ReleaseLease, InferOutcome
<1>1. SessionAt(q) /\ SessionAt(t)
  BY <1>0 DEF SessionPlaced
<1> USE DEF Early, Refused, Sent
<1>2. worker[t] \in Sent
  BY <1>0, <1>1 DEF SessionAt, Untouched, TypeOK, WorkerStates
<1>3. h'.token \in {t, None}
  BY <1>0 DEF HandlerStep, PriorOutcome, WriteIntent, ActivatePack, AdvanceSequence,
     AdvancePackset, PublishRefs, RecordOutcome, RequestCompaction, DeleteIntent,
     ReleaseLease, InferOutcome, Goto, Throw, Idle, TypeOK, Handlers
<1>4. lease' \in {lease, NoLease}
  BY DEF HandlerStep, PriorOutcome, WriteIntent, ActivatePack, AdvanceSequence,
     AdvancePackset, PublishRefs, RecordOutcome, RequestCompaction, DeleteIntent,
     ReleaseLease, InferOutcome
<1>5. UNCHANGED <<bucket, cmds, calls>>
  BY DEF HandlerStep, PriorOutcome, WriteIntent, ActivatePack, AdvanceSequence,
     AdvancePackset, PublishRefs, RecordOutcome, RequestCompaction, DeleteIntent,
     ReleaseLease, InferOutcome, session
<1>6. CASE q # t
  <2>1. lease'.token # q /\ h'.token # q
    BY <1>0, <1>3, <1>4, <1>6, NoneAssumption DEF NoLease
  <2>2. UNCHANGED <<catalog[q], intents[q]>>
    BY <1>0, <1>6 DEF HandlerStep, PriorOutcome, WriteIntent, ActivatePack,
       AdvanceSequence, AdvancePackset, PublishRefs, RecordOutcome,
       RequestCompaction, DeleteIntent, ReleaseLease, InferOutcome, TypeOK
  <2>3. outcomes'[q] \in {outcomes[q], "none"}
    BY <1>0, <1>6, StoreOutcomeEffect DEF HandlerStep, PriorOutcome, WriteIntent,
       ActivatePack, AdvanceSequence, AdvancePackset, PublishRefs, RecordOutcome,
       RequestCompaction, DeleteIntent, ReleaseLease, InferOutcome
  <2>4. worker'[q] = worker[q]
    BY <1>0, <1>6, AnswerEffect DEF HandlerStep, PriorOutcome, WriteIntent,
       ActivatePack, AdvanceSequence, AdvancePackset, PublishRefs, RecordOutcome,
       RequestCompaction, DeleteIntent, ReleaseLease, InferOutcome, session
  <2> QED BY <1>1, <1>5, <2>1, <2>2, <2>3, <2>4, SameSession
<1>7. ASSUME q = t,
             worker'[q] \in Sent,
             lease'.token = q /\ catalog'[q] # 0 => intents'[q] # NoIntent \/ outcomes'[q] # "none",
             intents'[q] # NoIntent /\ HasPack(cmds[q]) => intents'[q].seq # 0
      PROVE  SessionAt(q)'
  BY <1>1, <1>2, <1>5, <1>7 DEF SessionAt, HasPack
<1>8. CASE q = t
  <2>1. CASE PriorOutcome
    <3>1. outcomes'[q] # "none"
      BY <1>0, <1>8, <2>1, StoreOutcomeEffect DEF PriorOutcome, HandlerPlaced
    <3> QED BY <1>1, <1>2, <1>7, <1>8, <2>1, <3>1 DEF PriorOutcome, session, SessionAt
  <2>2. CASE WriteIntent
    <3>0. intents[q] = NoIntent /\ outcomes[q] = "none" /\ catalog[q] = 0
      BY <1>0, <1>8, <1>1, <2>2 DEF WriteIntent, HandlerPlaced, SessionAt
    <3>1. CASE h' = Idle
      <4>1. lease' = NoLease /\ UNCHANGED <<intents, catalog, outcomes>>
        BY <1>0, <1>8, <2>2, <3>1 DEF WriteIntent, Goto, Idle, TypeOK, Handlers
      <4>2. worker'[q] \in Sent \cup {"conflict"}
        BY <1>0, <1>8, <1>2, <2>2, <3>1, AnswerEffect DEF WriteIntent
      <4> QED BY <1>1, <1>2, <1>5, <1>8, <3>0, <3>1, <4>1, <4>2, NoneAssumption
              DEF SessionAt, Untouched, HasPack, NoLease, Idle
    <3>2. CASE h' # Idle
      <4>1. /\ HasPack(cmds[q]) => intents'[q].seq = nextPackSeq
            /\ UNCHANGED <<worker, catalog, outcomes>>
        BY <1>0, <1>8, <2>2, <3>2 DEF WriteIntent, TypeOK
      <4> QED BY <1>2, <1>7, <1>8, <3>0, <4>1 DEF TypeOK
    <3> QED BY <3>1, <3>2
  <2>3. CASE ActivatePack
    BY <1>1, <1>2, <1>7, <1>8, <2>3 DEF ActivatePack, HandlerPlaced, session, SessionAt
  <2>4. CASE AdvanceSequence \/ AdvancePackset \/ PublishRefs \/ RequestCompaction
    BY <1>0, <1>1, <1>2, <1>7, <1>8, <2>4 DEF AdvanceSequence, AdvancePackset,
       PublishRefs, RequestCompaction, session, SessionAt
  <2>5. CASE RecordOutcome
    <3>1. outcomes'[q] # "none"
      BY <1>0, <1>8, <2>5, StoreOutcomeEffect DEF RecordOutcome, QueueFlag
    <3> QED BY <1>1, <1>2, <1>7, <1>8, <2>5, <3>1 DEF RecordOutcome, session, SessionAt
  <2>6. CASE DeleteIntent
    BY <1>0, <1>2, <1>7, <1>8, <2>6 DEF DeleteIntent, HandlerPlaced, session, TypeOK
  <2>7. CASE ReleaseLease
    <3>1. worker'[q] \in Sent
      BY <1>0, <1>8, <1>2, <2>7, AnswerEffect DEF ReleaseLease
    <3> QED BY <1>0, <1>1, <1>7, <1>8, <2>7, <3>1, NoneAssumption
            DEF ReleaseLease, NoLease, SessionAt
  <2>8. CASE InferOutcome
    <3>0. intents[q] = NoIntent /\ outcomes[q] = "none" /\ catalog[q] = 0
      BY <1>0, <1>8, <1>1, <2>8 DEF InferOutcome, HandlerPlaced, SessionAt
    <3>1. CASE h' = Idle
      <4>1. worker'[q] \in Sent \cup {"cleanup"}
        BY <1>0, <1>8, <1>2, <2>8, <3>1, AnswerEffect DEF InferOutcome, Goto, Idle, TypeOK, Handlers
      <4>2. lease' = NoLease /\ UNCHANGED <<intents, catalog, outcomes>>
        BY <1>0, <1>8, <2>8, <3>0, <3>1 DEF InferOutcome, Goto, Idle, TypeOK, Handlers
      <4> QED BY <1>1, <1>2, <1>5, <1>8, <3>0, <3>1, <4>1, <4>2, NoneAssumption
              DEF SessionAt, Untouched, HasPack, NoLease, Idle
    <3>2. CASE h' # Idle
      BY <1>2, <1>7, <1>8, <2>8, <3>0, <3>2 DEF InferOutcome
    <3> QED BY <3>1, <3>2
  <2> QED BY <2>1, <2>2, <2>3, <2>4, <2>5, <2>6, <2>7, <2>8 DEF HandlerStep
<1> QED BY <1>6, <1>8

\* The alarm resumes only a push with an intent; the rest keeps SessionAt.
LEMMA SessionOther ==
  ASSUME TypeOK, SessionPlaced, NEW q \in Push,
         \/ AlarmStep \/ LeaseExpires \/ LoseCall \/ Crash
         \/ AdminSetRefs \/ AdminSetHead \/ GetHead
  PROVE  SessionAt(q)'
<1>0. SessionAt(q)
  BY DEF SessionPlaced
<1>1. CASE ResumeFinalize
  <2> DEFINE t == lease.token
  <2>1. t \in Push /\ intents[t] # NoIntent
    BY <1>1 DEF ResumeFinalize, HasIntent, TypeOK, Leases, NoLease
  <2>2. h'.token = t /\ lease'.token = t
    BY <1>1, <2>1, FenceTyped DEF ResumeFinalize
  <2>3. CASE q = t
    BY <1>0, <1>1, <2>1, <2>2, <2>3 DEF ResumeFinalize, session, SessionAt,
       Untouched, HasPack, Early, Refused
  <2>4. CASE q # t
    BY <1>0, <1>1, <2>2, <2>4, SameSession DEF ResumeFinalize, session
  <2> QED BY <2>3, <2>4
<1>2. CASE ClearExpiredLease \/ LeaseExpires
  <2>1. \/ lease' = NoLease \/ lease' = lease
        \/ \E b \in BOOLEAN : lease.token # None /\ lease' = [lease EXCEPT !.live = b]
    BY <1>2, Zenon DEF ClearExpiredLease, LeaseExpires
  <2>2. lease'.token \in {lease.token, None}
    <3>1. CASE lease' = NoLease \/ lease' = lease
      BY <3>1 DEF NoLease
    <3>2. ASSUME NEW b \in BOOLEAN, lease.token # None, lease' = [lease EXCEPT !.live = b]
          PROVE  lease'.token = lease.token
      BY <3>2, LeaseTyped
    <3> QED BY <2>1, <3>1, <3>2
  <2> QED BY <1>0, <1>2, <2>2, NoneAssumption DEF ClearExpiredLease, LeaseExpires,
          session, SessionAt, Untouched, HasPack
<1>3. CASE LoseCall
  BY <1>0, <1>3, SameSession DEF LoseCall, durable, session
<1>4. CASE Crash
  BY <1>0, <1>4, SameSession, NoneAssumption DEF Crash, Throw, Idle, session
<1>5. CASE AdminSetRefs \/ AdminSetHead
  <2>1. lease'.token # q
    BY <1>5, NoneAssumption DEF AdminSetRefs, AdminSetHead, NoLease
  <2> QED BY <1>0, <1>5, <2>1, SameSession DEF AdminSetRefs, AdminSetHead, session
<1>6. CASE GetHead
  BY <1>0, <1>6, SameSession DEF GetHead, session
<1> QED BY <1>1, <1>2, <1>3, <1>4, <1>5, <1>6 DEF AlarmStep

\* Every step keeps SessionPlaced.
LEMMA SessionStepPlaced ==
  ASSUME TypeOK, HandlerPlaced, SessionPlaced, [Next]_vars
  PROVE  SessionPlaced'
<1> SUFFICES ASSUME NEW q \in Push PROVE SessionAt(q)'
  BY DEF SessionPlaced
<1>1. CASE UNCHANGED vars
  BY <1>1, SameSession DEF vars, SessionPlaced
<1> QED BY <1>1, SessionWorker, SessionCall, SessionHandler, SessionOther DEF Next

------------------------------------------------------------------------------
(* Packs and refs *)

\* The catalog changes only where a handler activates the pack of its push.
LEMMA CatalogStep ==
  ASSUME TypeOK, HandlerPlaced, SessionPlaced, [Next]_vars
  PROVE  \/ UNCHANGED catalog
         \/ /\ UNCHANGED <<bucket, refs>>
            /\ h.token \in Push
            /\ HasPack(cmds[h.token])
            /\ h.token \in bucket
            /\ catalog' = [catalog EXCEPT ![h.token] = intents[h.token].seq]
            /\ intents[h.token].seq # 0
<1>1. CASE ActivatePack
  <2>1. h.token \in Push /\ intents[h.token] # NoIntent
    BY <1>1, HandlerToken DEF ActivatePack, HandlerPlaced
  <2>2. worker[h.token] \in Sent
    BY <2>1 DEF SessionPlaced, SessionAt, Untouched, Early, Refused, Sent, TypeOK, WorkerStates
  <2> QED BY <1>1, <2>1, <2>2 DEF ActivatePack, SessionPlaced, SessionAt
<1>2. CASE ~ActivatePack
  BY <1>2 DEF Next, vars, WorkerStep, BeginReceive, BeginRefused, Preflight, StagePack,
     GiveUp, AbortReceive, CleanupStagedPack, CallFinalize, FinalizeFails,
     ReconcileFails, FinalizeReceive, ReconcileReceive, HandlerStep, PriorOutcome,
     WriteIntent, AdvanceSequence, AdvancePackset, PublishRefs, RecordOutcome,
     RequestCompaction, DeleteIntent, ReleaseLease, InferOutcome, AlarmStep,
     ResumeFinalize, ClearExpiredLease, LeaseExpires, LoseCall, Crash,
     AdminSetRefs, AdminSetHead, GetHead, durable
<1> QED BY <1>1, <1>2

\* A pack leaves the bucket only when its session was refused.
LEMMA BucketStep ==
  ASSUME TypeOK, SessionPlaced, [Next]_vars, NEW p \in bucket, p \notin bucket'
  PROVE  catalog[p] = 0 /\ UNCHANGED catalog
<1>1. PICK q \in Push : CleanupStagedPack(q)
  BY DEF Next, vars, WorkerStep, BeginReceive, BeginRefused, Preflight, StagePack,
     GiveUp, AbortReceive, CallFinalize, FinalizeFails,
     ReconcileFails, FinalizeReceive, ReconcileReceive, HandlerStep, PriorOutcome,
     WriteIntent, ActivatePack, AdvanceSequence, AdvancePackset, PublishRefs,
     RecordOutcome, RequestCompaction, DeleteIntent, ReleaseLease, InferOutcome,
     AlarmStep, ResumeFinalize, ClearExpiredLease, LeaseExpires, LoseCall, Crash,
     AdminSetRefs, AdminSetHead, GetHead
<1>2. p = q /\ worker[q] \in Refused
  BY <1>1 DEF CleanupStagedPack, Refusals, Refused
<1> QED BY <1>1, <1>2 DEF CleanupStagedPack, durable, SessionPlaced, SessionAt, Untouched

\* Every step keeps ActivePacksStored.
LEMMA StoredStep ==
  ASSUME TypeOK, HandlerPlaced, SessionPlaced, ActivePacksStored, [Next]_vars
  PROVE  ActivePacksStored'
<1> SUFFICES ASSUME NEW p \in Push, catalog'[p] # 0 PROVE p \in bucket'
  BY DEF ActivePacksStored, Active
<1>1. CASE UNCHANGED catalog
  BY <1>1, BucketStep DEF ActivePacksStored, Active
<1>2. CASE ~UNCHANGED catalog
  BY <1>2, CatalogStep DEF ActivePacksStored, Active, TypeOK
<1> QED BY <1>1, <1>2

\* No step takes a row out of the catalog.
LEMMA ActiveGrows ==
  ASSUME TypeOK, HandlerPlaced, SessionPlaced, [Next]_vars
  PROVE  Active \subseteq Active'
BY CatalogStep DEF Active, TypeOK

\* Every step keeps RefsResolvable: the ref transaction publishes only commits
\* whose pack its handler activated before.
LEMMA ResolvableStep ==
  ASSUME TypeOK, HandlerPlaced, SessionPlaced, RefsResolvable, [Next]_vars
  PROVE  RefsResolvable'
<1> SUFFICES ASSUME NEW r \in Ref, refs'[r] # None PROVE refs'[r] \in Active'
  BY DEF RefsResolvable
<1>1. CASE UNCHANGED refs
  BY <1>1, ActiveGrows DEF RefsResolvable
<1>2. CASE PublishRefs /\ refs' = Apply(refs, cmds[h.token])
  <2>1. h.token \in Push /\ cmds[h.token] \in Commands(h.token)
    BY <1>2, HandlerToken DEF PublishRefs, SessionPlaced, SessionAt
  <2>2. CASE r \in DOMAIN cmds[h.token]
    <3>1. refs'[r] = cmds[h.token][r].new
      BY <1>2, <2>2 DEF Apply
    <3>2. cmds[h.token][r].new \in {h.token, None}
      BY <2>1, <2>2 DEF Commands
    <3>3. HasPack(cmds[h.token])
      BY <2>2, <3>1 DEF HasPack
    <3>4. h.token \in Active
      BY <1>2, <2>1, <3>3 DEF PublishRefs, HandlerPlaced, Active
    <3> QED BY <3>1, <3>2, <3>4, ActiveGrows
  <2>3. CASE r \notin DOMAIN cmds[h.token]
    <3>1. refs'[r] = refs[r]
      BY <1>2, <2>3 DEF Apply
    <3> QED BY <3>1, ActiveGrows DEF RefsResolvable
  <2> QED BY <2>2, <2>3
<1>3. CASE AdminSetRefs
  BY <1>3, ActiveGrows DEF AdminSetRefs
<1>4. CASE ~UNCHANGED refs /\ ~PublishRefs /\ ~AdminSetRefs
  BY <1>4 DEF Next, vars, WorkerStep, BeginReceive, BeginRefused, Preflight, StagePack,
     GiveUp, AbortReceive, CleanupStagedPack, CallFinalize, FinalizeFails,
     ReconcileFails, FinalizeReceive, ReconcileReceive, HandlerStep, PriorOutcome,
     WriteIntent, ActivatePack, AdvanceSequence, AdvancePackset, RecordOutcome,
     RequestCompaction, DeleteIntent, ReleaseLease, InferOutcome, AlarmStep,
     ResumeFinalize, ClearExpiredLease, LeaseExpires, LoseCall, Crash,
     AdminSetHead, GetHead, durable
<1> QED BY <1>1, <1>2, <1>3, <1>4 DEF PublishRefs

------------------------------------------------------------------------------
(* The theorems *)

\* The inductive invariant holds initially ...
LEMMA InvInit == Init => ReceiveInv
<1> SUFFICES ASSUME Init PROVE ReceiveInv
  OBVIOUS
<1>1. TypeOK
  BY TypeInit
<1>2. HandlerPlaced
  BY DEF Init, HandlerPlaced, Idle
<1>3. SessionPlaced
  <2> SUFFICES ASSUME NEW p \in Push PROVE SessionAt(p)
    BY DEF SessionPlaced
  <2>1. Untouched(p)
    BY NoneAssumption DEF Init, Untouched, Idle
  <2>2. cmds[p] \in Commands(p)
    BY NoCommandsTyped DEF Init
  <2>3. lease.token # p /\ calls = {} /\ worker[p] = "idle"
    BY NoneAssumption DEF Init, NoLease
  <2> QED BY <2>1, <2>2, <2>3 DEF SessionAt, Untouched, Refused, Sent
<1>4. ActivePacksStored /\ RefsResolvable
  BY DEF Init, ActivePacksStored, RefsResolvable, Active
<1> QED BY <1>1, <1>2, <1>3, <1>4 DEF ReceiveInv

\* ... and every step preserves it.
LEMMA InvStep == ReceiveInv /\ [Next]_vars => ReceiveInv'
BY TypeStep, HandlerStepPlaced, SessionStepPlaced, StoredStep, ResolvableStep
   DEF ReceiveInv

\* ReceiveInv is an invariant: it is what the theorems below rest on.
THEOREM ReceiveInvariant == Spec => []ReceiveInv
BY InvInit, InvStep, PTL DEF Spec

\* Type correctness of the receive path.
THEOREM TypeCorrect == Spec => []TypeOK
<1>1. ReceiveInv => TypeOK
  BY DEF ReceiveInv
<1> QED BY <1>1, ReceiveInvariant, PTL

\* Whatever crashes, expires or arrives late: a pack the catalog serves is in
\* the bucket.  A Worker deletes a staged pack only when no replay of its
\* finalize call can activate it any more.
THEOREM PacksStored == Spec => []ActivePacksStored
<1>1. ReceiveInv => ActivePacksStored
  BY DEF ReceiveInv
<1> QED BY <1>1, ReceiveInvariant, PTL

\* Every ref names a commit whose pack is active, between any two durable
\* writes of finalizeReceive and of its replays.
THEOREM RefsAlwaysResolvable == Spec => []RefsResolvable
<1>1. ReceiveInv => RefsResolvable
  BY DEF ReceiveInv
<1> QED BY <1>1, ReceiveInvariant, PTL


------------------------------------------------------------------------------
(* The inductive invariant, on top of ReceiveInv *)

\* The Worker of the push waits for nothing and none of its calls is under way.
Quiet(p) ==
  /\ worker[p] \notin {"finalizing", "reconciling"}
  /\ <<"finalize", p>> \notin calls
  /\ <<"reconcile", p>> \notin calls

\* An intent is the only one whose push may still publish.  Until it did, its
\* lease keeps the refs as the intent found them; after it did, its lease keeps
\* them as it left them; without its lease, nobody asks for it any more.
IntentAt(p) ==
  intents[p] # NoIntent =>
    /\ <<"finalize", p>> \notin calls
    /\ catalog[p] \in {0, intents[p].seq}
    /\ ~HasPack(cmds[p]) => intents[p].seq = 0
    /\ HasPack(cmds[p]) /\ catalog[p] = 0 => intents[p].seq = nextPackSeq
    /\ p \notin landed =>
         /\ lease.token = p
         /\ intents[p].expected = refsVersion
         /\ Valid(refs, cmds[p])
         /\ intents[p].head.oid = Apply(refs, cmds[p])[intents[p].head.target]
    /\ p \in landed /\ lease.token = p =>
         /\ refsVersion = intents[p].expected + 1
         /\ Apply(refs, cmds[p]) = refs
    /\ lease.token # p => Quiet(p)

\* What is known of a push that was published, and of one that was not.
LandedAt(p) ==
  /\ outcomes[p] # "none" => p \in landed
  /\ worker[p] = "committed" => p \in landed
  /\ catalog[p] # 0 => intents[p] # NoIntent \/ p \in landed
  /\ p \in landed =>
       /\ HasPack(cmds[p]) => catalog[p] # 0
       /\ catalog[p] < nextPackSeq
       /\ worker[p] \in Sent
       /\ lease.token = p => intents[p] # NoIntent \/ outcomes[p] # "none"
  /\ lease.token = p /\ p \notin landed => begRefs[p] = refs
  /\ worker[p] \in Sent \cup {"staging", "staged"} => Valid(begRefs[p], cmds[p])

\* A Worker asks for reconciliation once, after its finalize call failed.
CallsAt(p) ==
  worker[p] \in Early \cup {"finalizing"} => <<"reconcile", p>> \notin calls

\* What the steps of a handler achieved so far.
HandlerDone ==
  /\ h.pc \in {"upsert", "sequence", "packset", "cas", "store"} => outcomes[h.token] = "none"
  /\ h.pc \in {"packset", "cas"} => catalog[h.token] < nextPackSeq
  /\ h.pc = "store" => h.token \in landed
  /\ h.pc = "validate" => h.by = "finalize"
  /\ h.by = "finalize" => <<"finalize", h.token>> \notin calls
  /\ h.pc \in {"recStore", "recMark", "recRelease", "infer"} => h.by = "reconcile"
  /\ h.by = "reconcile" => <<"reconcile", h.token>> \notin calls /\ worker[h.token] # "finalizing"
  /\ h.pc \in {"clear", "release", "recRelease"} => (NeedsCompaction => wanted)
  /\ h.pc = "release" => intents[h.token] = NoIntent

\* An expired lease of one push meets no call of another that could take it.
ExpiredUncontested ==
  lease.token # None /\ ~lease.live =>
    \A p \in Push \ {lease.token} :
      intents[p] # NoIntent \/ outcomes[p] # "none" => Quiet(p)

\* The need for compaction is recorded, or the receive that holds the lease has
\* not yet decided, or has decided to ask for it.
NeedPending ==
  NeedsCompaction =>
    \/ wanted
    \/ /\ HasIntent(lease.token)
       /\ HasPack(cmds[lease.token])
       /\ outcomes[lease.token] # "quiet"

\* Active rows have different sequence numbers.
RowsDistinct == \A p, q \in Active : p # q => catalog[p] # catalog[q]

PushAt(p) == IntentAt(p) /\ LandedAt(p) /\ CallsAt(p)

RecoveryInv ==
  /\ \A p \in Push : PushAt(p)
  /\ HandlerDone
  /\ ExpiredUncontested
  /\ NeedPending
  /\ RowsDistinct

------------------------------------------------------------------------------
(* Frames *)

\* A session that is not in flight is quiet.
LEMMA QuietMeans ==
  ASSUME TypeOK, NEW p \in Push
  PROVE  Quiet(p) <=> ~InFlight(p)
<1>1. ASSUME NEW call \in calls, call[2] = p
      PROVE  <<"finalize", p>> \in calls \/ <<"reconcile", p>> \in calls
  BY <1>1 DEF TypeOK, Calls
<1> QED BY <1>1 DEF Quiet, InFlight

\* The catalog alone decides whether compaction is needed.
LEMMA SameCatalog ==
  ASSUME catalog' = catalog
  PROVE  NeedsCompaction' = NeedsCompaction /\ Active' = Active
BY DEF NeedsCompaction, Active

\* A step that concerns another push: it may take this one's lease when nothing
\* depends on it, or forget its outcome.
LEMMA SamePush ==
  ASSUME NEW q \in Push, PushAt(q), TypeOK, TypeOK',
         UNCHANGED <<worker[q], cmds[q], begRefs[q], catalog[q], intents[q]>>,
         q \in landed' <=> q \in landed,
         nextPackSeq' = nextPackSeq \/ (nextPackSeq' > nextPackSeq /\ lease.token # q),
         \/ UNCHANGED <<refs, refsVersion>>
         \/ lease'.token # q /\ (intents[q] # NoIntent => lease.token # q),
         \/ lease'.token = lease.token
         \/ lease'.token # q /\ (intents[q] # NoIntent => lease.token # q),
         outcomes'[q] = outcomes[q] \/ (outcomes'[q] = "none" /\ lease'.token # q),
         \A k \in {"finalize", "reconcile"} : <<k, q>> \in calls' => <<k, q>> \in calls
  PROVE  PushAt(q)'
<1>1. IntentAt(q)'
  BY DEF PushAt, IntentAt, Quiet, LandedAt
<1>2. LandedAt(q)'
  BY DEF PushAt, LandedAt, TypeOK
<1>3. CallsAt(q)'
  BY DEF PushAt, CallsAt
<1> QED BY <1>1, <1>2, <1>3 DEF PushAt

------------------------------------------------------------------------------
(* Pushes *)

\* Nothing is known to the object of a session that did not call it yet.
LEMMA EarlyPush ==
  ASSUME SessionPlaced, NEW p \in Push, PushAt(p), worker[p] \in Early \cup Refused
  PROVE  Untouched(p) /\ p \notin landed
BY DEF SessionPlaced, SessionAt, PushAt, LandedAt, Early, Refused, Sent

\* A push without intent, outcome and row: what is left to show of it.
LEMMA FreshPush ==
  ASSUME NEW p \in Push, Untouched(p)', p \notin landed', worker'[p] # "committed",
         lease'.token = p => begRefs'[p] = refs',
         worker'[p] \in Sent \cup {"staging", "staged"} => Valid(begRefs'[p], cmds'[p]),
         CallsAt(p)'
  PROVE  PushAt(p)'
BY DEF PushAt, IntentAt, LandedAt, Untouched

\* Worker steps keep PushAt.
LEMMA PushWorker ==
  ASSUME ReceiveInv, ReceiveInv', RecoveryInv, NEW p \in Push, WorkerStep(p), NEW q \in Push
  PROVE  PushAt(q)'
<1>0. PushAt(p) /\ PushAt(q) /\ TypeOK /\ TypeOK' /\ SessionPlaced
  BY DEF RecoveryInv, ReceiveInv
<1>1. CASE BeginReceive(p)
  <2>1. CASE q = p
    <3>1. Untouched(p)' /\ p \notin landed'
      BY <1>0, <1>1, EarlyPush DEF BeginReceive, Untouched, Early
    <3>2. worker'[p] = "leased" /\ begRefs'[p] = refs' /\ CallsAt(p)'
      BY <1>0, <1>1 DEF BeginReceive, TypeOK, PushAt, CallsAt, Early
    <3> QED BY <2>1, <3>1, <3>2, FreshPush DEF Sent
  <2>2. CASE q # p
    <3>1. intents[q] # NoIntent => lease.token # q
      BY <1>1, NoneAssumption DEF BeginReceive, Protected, HasIntent
    <3> QED BY <1>0, <1>1, <2>2, <3>1, SamePush DEF BeginReceive, TypeOK
  <2> QED BY <2>1, <2>2
<1>2. CASE BeginRefused(p)
  <2>1. lease'.token = lease.token
    BY <1>0, <1>2, LeaseTyped DEF BeginRefused
  <2> QED BY <1>0, <1>2, <2>1, SamePush DEF BeginRefused, session
<1>3. CASE Preflight(p)
  <2>1. CASE q = p
    <3>1. Untouched(p)' /\ p \notin landed'
      BY <1>0, <1>3, EarlyPush DEF Preflight, durable, Untouched, Early
    <3>2. /\ worker'[p] \in {"staging", "aborting"}
          /\ worker'[p] = "staging" => Valid(begRefs[p], cmds'[p])
      BY <1>0, <1>3 DEF Preflight, TypeOK
    <3>3. CallsAt(p)' /\ (lease'.token = p => begRefs'[p] = refs')
      BY <1>0, <1>3, <3>1 DEF Preflight, durable, PushAt, CallsAt, LandedAt, Early
    <3> QED BY <1>3, <2>1, <3>1, <3>2, <3>3, FreshPush DEF Preflight, Sent
  <2>2. CASE q # p
    BY <1>0, <1>3, <2>2, SamePush DEF Preflight, durable, TypeOK
  <2> QED BY <2>1, <2>2
<1>4. CASE StagePack(p) \/ GiveUp(p)
  <2>1. CASE q = p
    <3>1. Untouched(p)' /\ p \notin landed'
      BY <1>0, <1>4, EarlyPush DEF StagePack, GiveUp, durable, Untouched, Early
    <3>2. /\ worker'[p] \in {"staged", "aborting"}
          /\ Valid(begRefs'[p], cmds'[p])
      BY <1>0, <1>4 DEF StagePack, GiveUp, TypeOK, PushAt, LandedAt, Sent
    <3>3. CallsAt(p)' /\ (lease'.token = p => begRefs'[p] = refs')
      BY <1>0, <1>4, <3>1 DEF StagePack, GiveUp, durable, PushAt, CallsAt, LandedAt, Early
    <3> QED BY <2>1, <3>1, <3>2, <3>3, FreshPush
  <2>2. CASE q # p
    BY <1>0, <1>4, <2>2, SamePush DEF StagePack, GiveUp, durable, TypeOK
  <2> QED BY <2>1, <2>2
<1>5. CASE AbortReceive(p)
  <2>1. CASE q = p
    <3>1. Untouched(p)' /\ p \notin landed'
      BY <1>0, <1>5, EarlyPush DEF AbortReceive, Untouched, Early
    <3>2. lease'.token # p /\ worker'[p] \in {"cleanup", "failed", "aborting"}
      BY <1>0, <1>5, NoneAssumption DEF AbortReceive, NoLease, TypeOK
    <3>3. CallsAt(p)'
      BY <1>0, <1>5 DEF AbortReceive, PushAt, CallsAt, Early
    <3> QED BY <2>1, <3>1, <3>2, <3>3, FreshPush DEF Sent
  <2>2. CASE q # p
    <3>1. lease'.token = lease.token \/ (lease'.token # q /\ lease.token # q)
      BY <1>5, <2>2, NoneAssumption DEF AbortReceive, NoLease
    <3> QED BY <1>0, <1>5, <2>2, <3>1, SamePush DEF AbortReceive, TypeOK
  <2> QED BY <2>1, <2>2
<1>6. CASE CleanupStagedPack(p)
  <2>1. CASE q = p
    <3>1. Untouched(p)' /\ p \notin landed'
      BY <1>0, <1>6, EarlyPush DEF CleanupStagedPack, Refusals, durable, Untouched, Refused
    <3>2. worker'[p] = "failed" /\ CallsAt(p)'
      BY <1>0, <1>6 DEF CleanupStagedPack, TypeOK, CallsAt, Early
    <3>3. lease'.token = p => begRefs'[p] = refs'
      BY <1>0, <1>6, <3>1 DEF CleanupStagedPack, durable, PushAt, LandedAt
    <3> QED BY <2>1, <3>1, <3>2, <3>3, FreshPush DEF Sent
  <2>2. CASE q # p
    BY <1>0, <1>6, <2>2, SamePush DEF CleanupStagedPack, durable, TypeOK
  <2> QED BY <2>1, <2>2
<1>7. CASE CallFinalize(p)
  <2>1. CASE q = p
    <3>1. Untouched(p)' /\ p \notin landed'
      BY <1>0, <1>7, EarlyPush DEF CallFinalize, durable, Untouched, Early
    <3>2. worker'[p] = "finalizing" /\ CallsAt(p)' /\ Valid(begRefs'[p], cmds'[p])
      BY <1>0, <1>7 DEF CallFinalize, TypeOK, PushAt, CallsAt, LandedAt, Early
    <3>3. lease'.token = p => begRefs'[p] = refs'
      BY <1>0, <1>7, <3>1 DEF CallFinalize, durable, PushAt, LandedAt
    <3> QED BY <2>1, <3>1, <3>2, <3>3, FreshPush
  <2>2. CASE q # p
    BY <1>0, <1>7, <2>2, SamePush DEF CallFinalize, durable, TypeOK
  <2> QED BY <2>1, <2>2
<1>8. CASE FinalizeFails(p) \/ ReconcileFails(p)
  <2>1. CASE q = p
    BY <1>0, <1>8, <2>1 DEF FinalizeFails, ReconcileFails, durable, TypeOK, PushAt,
       IntentAt, Quiet, LandedAt, CallsAt, Early, Sent
  <2>2. CASE q # p
    BY <1>0, <1>8, <2>2, SamePush DEF FinalizeFails, ReconcileFails, durable, TypeOK
  <2> QED BY <2>1, <2>2
<1> QED BY <1>1, <1>2, <1>3, <1>4, <1>5, <1>6, <1>7, <1>8 DEF WorkerStep


\* A call that is let through the completion fence takes the lease from nobody:
\* its push holds it already, or was published and has no intent.
LEMMA FenceFree ==
  ASSUME ReceiveInv, RecoveryInv, NEW p \in Push, FenceHeld(p),
         <<"finalize", p>> \in calls \/ <<"reconcile", p>> \in calls
  PROVE  \/ lease.token = p
         \/ lease.token = None /\ intents[p] = NoIntent /\ outcomes[p] # "none"
<1>1. ~Quiet(p) /\ IntentAt(p) /\ ExpiredUncontested
  BY DEF Quiet, RecoveryInv, PushAt
<1>2. intents[p] # NoIntent => lease.token = p
  BY <1>1 DEF IntentAt
<1>3. lease.token = p \/ intents[p] # NoIntent \/ outcomes[p] # "none"
  BY DEF FenceHeld, HasIntent, HasOutcome
<1>4. lease.token \in {p, None}
  BY <1>1, <1>3 DEF FenceHeld, ExpiredUncontested
<1> QED BY <1>2, <1>3, <1>4

\* finalizeReceive and reconcileReceive keep PushAt.
LEMMA PushCall ==
  ASSUME ReceiveInv, ReceiveInv', RecoveryInv, NEW p \in Push,
         FinalizeReceive(p) \/ ReconcileReceive(p), NEW q \in Push
  PROVE  PushAt(q)'
<1>0. PushAt(p) /\ PushAt(q) /\ TypeOK /\ TypeOK' /\ SessionPlaced
  BY DEF RecoveryInv, ReceiveInv
<1>1. /\ calls' \subseteq calls
      /\ <<"finalize", p>> \in calls \/ <<"reconcile", p>> \in calls
      /\ UNCHANGED <<refs, refsVersion, catalog, nextPackSeq, intents, outcomes,
                     cmds, begRefs, landed>>
  BY DEF FinalizeReceive, ReconcileReceive
<1>2. CASE \E by, s : s \in {"mismatch", "unknown"} /\ Answer(by, p, s) /\ UNCHANGED <<lease, h>>
  <2>1. /\ worker'[p] \in {worker[p], "mismatch", "unknown"}
        /\ worker'[p] # worker[p] => worker[p] \in {"finalizing", "reconciling"}
        /\ q # p => worker'[q] = worker[q]
    BY <1>0, <1>2, AnswerEffect
  <2>2. CASE q = p
    <3>1. IntentAt(p)' /\ CallsAt(p)'
      BY <1>0, <1>1, <1>2, <2>1 DEF PushAt, IntentAt, Quiet, CallsAt, Early
    <3>2. LandedAt(p)'
      BY <1>0, <1>1, <1>2, <2>1 DEF PushAt, LandedAt, Sent
    <3> QED BY <2>2, <3>1, <3>2 DEF PushAt
  <2>3. CASE q # p
    BY <1>0, <1>1, <1>2, <2>1, <2>3, SamePush
  <2> QED BY <2>2, <2>3
<1>3. CASE FenceHeld(p) /\ TakeFence(p) /\ UNCHANGED worker
  <2>1. lease'.token = p
    BY <1>3, FenceTyped
  <2>2. \/ lease.token = p
        \/ lease.token = None /\ intents[p] = NoIntent /\ outcomes[p] # "none"
    BY <1>1, <1>3, FenceFree
  <2>3. CASE q = p
    BY <1>0, <1>1, <1>3, <2>1, <2>2, <2>3 DEF PushAt, IntentAt, LandedAt, CallsAt, Early
  <2>4. CASE q # p
    BY <1>0, <1>1, <1>3, <2>1, <2>2, <2>4, SamePush, NoneAssumption
  <2> QED BY <2>3, <2>4
<1> QED BY <1>2, <1>3 DEF FinalizeReceive, ReconcileReceive

\* A handler serves the push that holds the lease.
LEMMA HandlerServes ==
  ASSUME TypeOK, HandlerPlaced, HandlerStep
  PROVE  h # Idle /\ h.token \in Push /\ lease.token = h.token
BY HandlerToken DEF HandlerStep, HandlerPlaced, PriorOutcome, WriteIntent,
   ActivatePack, AdvanceSequence, AdvancePackset, PublishRefs, RecordOutcome,
   RequestCompaction, DeleteIntent, ReleaseLease, InferOutcome

\* Handler steps leave every other push as it is.
LEMMA PushOthers ==
  ASSUME ReceiveInv, ReceiveInv', RecoveryInv, HandlerStep, NEW q \in Push, q # h.token
  PROVE  PushAt(q)'
<1> DEFINE t == h.token
<1>0. PushAt(q) /\ TypeOK /\ TypeOK' /\ t \in Push /\ lease.token = t
  BY HandlerServes DEF RecoveryInv, ReceiveInv
<1>1. lease' \in {lease, NoLease}
  BY DEF HandlerStep, PriorOutcome, WriteIntent, ActivatePack, AdvanceSequence,
     AdvancePackset, PublishRefs, RecordOutcome, RequestCompaction, DeleteIntent,
     ReleaseLease, InferOutcome
<1>2. lease.token # q /\ lease'.token # q
  BY <1>0, <1>1, NoneAssumption DEF NoLease
<1>3. UNCHANGED <<cmds, begRefs, calls>>
  BY DEF HandlerStep, PriorOutcome, WriteIntent, ActivatePack, AdvanceSequence,
     AdvancePackset, PublishRefs, RecordOutcome, RequestCompaction, DeleteIntent,
     ReleaseLease, InferOutcome, session
<1>4. UNCHANGED <<catalog[q], intents[q]>> /\ (q \in landed' <=> q \in landed)
  BY <1>0 DEF HandlerStep, PriorOutcome, WriteIntent, ActivatePack,
     AdvanceSequence, AdvancePackset, PublishRefs, RecordOutcome,
     RequestCompaction, DeleteIntent, ReleaseLease, InferOutcome, TypeOK
<1>5. outcomes'[q] \in {outcomes[q], "none"}
  BY <1>0, StoreOutcomeEffect DEF HandlerStep, PriorOutcome, WriteIntent,
     ActivatePack, AdvanceSequence, AdvancePackset, PublishRefs, RecordOutcome,
     RequestCompaction, DeleteIntent, ReleaseLease, InferOutcome
<1>6. worker'[q] = worker[q]
  BY <1>0, AnswerEffect DEF HandlerStep, PriorOutcome, WriteIntent,
     ActivatePack, AdvanceSequence, AdvancePackset, PublishRefs, RecordOutcome,
     RequestCompaction, DeleteIntent, ReleaseLease, InferOutcome, session
<1>7. nextPackSeq' = nextPackSeq \/ nextPackSeq' > nextPackSeq
  <2>1. CASE AdvanceSequence
    <3>1. intents[t].seq \in Nat
      BY <1>0, <2>1, IntentFields DEF AdvanceSequence, ReceiveInv, HandlerPlaced, Intents
    <3> QED BY <1>0, <2>1, <3>1 DEF AdvanceSequence, SequenceAfter, TypeOK
  <2>2. CASE ~AdvanceSequence
    BY <2>2 DEF HandlerStep, PriorOutcome, WriteIntent,
       ActivatePack, AdvancePackset, PublishRefs, RecordOutcome,
       RequestCompaction, DeleteIntent, ReleaseLease, InferOutcome
  <2> QED BY <2>1, <2>2
<1> QED BY <1>0, <1>2, <1>3, <1>4, <1>5, <1>6, <1>7, SamePush


\* Applying the commands a second time changes nothing.
LEMMA ApplyTwice ==
  ASSUME NEW cur \in Refs, NEW c \in AllCommands
  PROVE  Apply(Apply(cur, c), c) = Apply(cur, c)
BY DEF Apply

\* Handler steps keep PushAt of the push they serve.
LEMMA PushServed ==
  ASSUME ReceiveInv, ReceiveInv', RecoveryInv, HandlerStep, NEW t \in Push, t = h.token
  PROVE  PushAt(t)'
<1>0. /\ TypeOK /\ TypeOK' /\ HandlerPlaced /\ HandlerDone /\ h # Idle /\ lease.token = t
      /\ SessionAt(t) /\ IntentAt(t) /\ LandedAt(t) /\ CallsAt(t)
  BY HandlerServes DEF RecoveryInv, ReceiveInv, SessionPlaced, PushAt
<1>1. worker[t] \in Sent
  BY <1>0 DEF SessionAt, Untouched, TypeOK, WorkerStates, Early, Refused, Sent
<1>2. CASE PriorOutcome
  <2>1. outcomes'[t] = outcomes[t]
    BY <1>0, <1>2, StoreOutcomeEffect DEF PriorOutcome
  <2> QED BY <1>0, <1>2, <2>1 DEF PriorOutcome, session, PushAt, IntentAt, Quiet,
             LandedAt, CallsAt
<1>3. CASE WriteIntent
  <2>0. /\ intents[t] = NoIntent /\ outcomes[t] = "none" /\ catalog[t] = 0
        /\ t \notin landed /\ <<"finalize", t>> \notin calls
    BY <1>0, <1>3 DEF WriteIntent, HandlerPlaced, SessionAt, LandedAt, HandlerDone
  <2>1. CASE h' = Idle
    <3>1. lease' = NoLease /\ UNCHANGED <<intents, catalog, outcomes, landed, cmds, begRefs, calls>>
      BY <1>0, <1>3, <2>1 DEF WriteIntent, Goto, Idle, TypeOK, Handlers
    <3>2. worker'[t] \in {worker[t], "conflict", "mismatch"}
      BY <1>0, <1>3, <2>1, AnswerEffect DEF WriteIntent
    <3>3. lease'.token # t
      BY <3>1, NoneAssumption DEF NoLease
    <3> QED BY <1>0, <1>1, <2>0, <3>1, <3>2, <3>3 DEF PushAt, IntentAt, LandedAt, CallsAt,
               Sent, Early
  <2>2. CASE h' # Idle
    <3>1. /\ UNCHANGED <<lease, worker, refs, refsVersion, catalog, outcomes, landed, cmds,
                         begRefs, calls, nextPackSeq>>
          /\ Valid(refs, cmds[t])
          /\ intents' = [intents EXCEPT ![t] =
                [expected |-> refsVersion,
                 seq |-> IF HasPack(cmds[t]) THEN nextPackSeq ELSE 0,
                 packset |-> IF HasPack(cmds[t]) THEN packsetVersion + 1 ELSE 0,
                 head |-> ResolveHead(head.target, Apply(refs, cmds[t]))]]
      BY <1>0, <1>3, <2>2 DEF WriteIntent
    <3>2. /\ intents'[t].expected = refsVersion
          /\ intents'[t].seq = IF HasPack(cmds[t]) THEN nextPackSeq ELSE 0
          /\ intents'[t].head = ResolveHead(head.target, Apply(refs, cmds[t]))
      BY <1>0, <3>1 DEF TypeOK
    <3>3. intents'[t].head.oid = Apply(refs, cmds[t])[intents'[t].head.target]
      BY <3>2 DEF ResolveHead
    <3>4. IntentAt(t)'
      BY <1>0, <2>0, <3>1, <3>2, <3>3 DEF IntentAt
    <3>5. LandedAt(t)' /\ CallsAt(t)'
      BY <1>0, <2>0, <3>1 DEF LandedAt, CallsAt
    <3> QED BY <3>4, <3>5 DEF PushAt
  <2> QED BY <2>1, <2>2
<1>4. CASE ActivatePack
  <2>1. CASE UNCHANGED catalog
    BY <1>0, <1>4, <2>1 DEF ActivatePack, session, PushAt, IntentAt, Quiet, LandedAt, CallsAt
  <2>2. CASE ~UNCHANGED catalog
    <3>1. HasPack(cmds[t]) /\ catalog' = [catalog EXCEPT ![t] = intents[t].seq]
      BY <1>0, <1>4, <2>2 DEF ActivatePack
    <3>2. catalog'[t] = intents[t].seq /\ intents[t] # NoIntent /\ intents[t].seq # 0
      BY <1>0, <1>4, <3>1 DEF ActivatePack, HandlerPlaced, SessionAt, TypeOK
    <3>3. t \in landed => catalog'[t] = catalog[t]
      BY <1>0, <3>1, <3>2 DEF IntentAt, LandedAt
    <3> QED BY <1>0, <1>4, <3>1, <3>2, <3>3 DEF ActivatePack, session, PushAt, IntentAt,
               Quiet, LandedAt, CallsAt
  <2> QED BY <2>1, <2>2
<1>5. CASE AdvanceSequence
  <2>1. intents[t] # NoIntent /\ intents[t].seq \in Nat
    BY <1>0, <1>5, IntentFields DEF AdvanceSequence, HandlerPlaced, Intents
  <2>2. nextPackSeq' >= nextPackSeq
    BY <1>0, <1>5, <2>1 DEF AdvanceSequence, SequenceAfter, TypeOK
  <2>3. HasPack(cmds[t]) => catalog[t] # 0
    BY <1>0, <1>5 DEF AdvanceSequence, HandlerPlaced
  <2>4. IntentAt(t)' /\ CallsAt(t)'
    BY <1>0, <1>5, <2>3 DEF AdvanceSequence, session, IntentAt, Quiet, CallsAt
  <2>5. LandedAt(t)'
    BY <1>0, <1>5, <2>2 DEF AdvanceSequence, session, LandedAt, TypeOK
  <2> QED BY <2>4, <2>5 DEF PushAt
<1>6. CASE AdvancePackset \/ RequestCompaction
  BY <1>0, <1>6 DEF AdvancePackset, RequestCompaction, session, PushAt, IntentAt, Quiet,
     LandedAt, CallsAt
<1>7. CASE PublishRefs
  <2>1. CASE Diverged(t)
    BY <1>0, <1>7, <2>1 DEF PublishRefs, session, PushAt, IntentAt, Quiet, LandedAt, CallsAt
  <2>2. CASE ~Diverged(t)
    <3>1. /\ refs' = Apply(refs, cmds[t]) /\ refsVersion' = intents[t].expected + 1
          /\ t \in landed'
          /\ UNCHANGED <<lease, worker, intents, catalog, outcomes, cmds,
                         begRefs, calls, nextPackSeq>>
      BY <1>0, <1>7, <2>2 DEF PublishRefs, PublishedVersion, session
    <3>2. Apply(refs', cmds[t]) = refs'
      BY <1>0, <3>1, ApplyTwice DEF TypeOK
    <3>3. /\ intents[t] # NoIntent /\ catalog[t] < nextPackSeq
          /\ HasPack(cmds[t]) => catalog[t] # 0
      BY <1>0, <1>7 DEF PublishRefs, HandlerPlaced, HandlerDone
    <3>4. IntentAt(t)'
      BY <1>0, <3>1, <3>2 DEF IntentAt
    <3>5. LandedAt(t)' /\ CallsAt(t)'
      BY <1>0, <1>1, <3>1, <3>3 DEF LandedAt, CallsAt
    <3> QED BY <3>4, <3>5 DEF PushAt
  <2> QED BY <2>1, <2>2
<1>8. CASE RecordOutcome
  <2>1. outcomes'[t] # "none" /\ t \in landed
    BY <1>0, <1>8, StoreOutcomeEffect DEF RecordOutcome, QueueFlag, HandlerDone
  <2> QED BY <1>0, <1>8, <2>1 DEF RecordOutcome, session, PushAt, IntentAt, Quiet, LandedAt,
             CallsAt
<1>9. CASE DeleteIntent
  <2>1. intents'[t] = NoIntent /\ outcomes[t] # "none"
    BY <1>0, <1>9 DEF DeleteIntent, HandlerPlaced, TypeOK
  <2> QED BY <1>0, <1>9, <2>1 DEF DeleteIntent, session, PushAt, IntentAt, LandedAt, CallsAt
<1>10. CASE ReleaseLease
  <2>1. t \in landed /\ lease'.token # t
    BY <1>0, <1>10, NoneAssumption DEF ReleaseLease, HandlerPlaced, LandedAt, NoLease
  <2>2. worker'[t] \in {worker[t], "committed"}
    BY <1>0, <1>10, AnswerEffect DEF ReleaseLease
  <2>3. intents[t] # NoIntent => Quiet(t)'
    <3> SUFFICES ASSUME intents[t] # NoIntent PROVE Quiet(t)'
      OBVIOUS
    <3>1. h.by = "reconcile"
      BY <1>0, <1>10 DEF ReleaseLease, HandlerDone
    <3>2. worker[t] # "finalizing" /\ <<"reconcile", t>> \notin calls /\ <<"finalize", t>> \notin calls
      BY <1>0, <3>1 DEF HandlerDone, IntentAt
    <3>3. worker'[t] \notin {"finalizing", "reconciling"}
      BY <1>0, <1>10, <2>2, <3>1, <3>2 DEF ReleaseLease, Answer, TypeOK
    <3> QED BY <1>10, <3>2, <3>3 DEF ReleaseLease, Quiet
  <2> QED BY <1>0, <1>1, <1>10, <2>1, <2>2, <2>3 DEF ReleaseLease, PushAt, IntentAt,
             LandedAt, CallsAt, Sent, Early
<1>11. CASE InferOutcome
  <2>0. /\ intents[t] = NoIntent /\ outcomes[t] = "none" /\ catalog[t] = 0
        /\ t \notin landed
    BY <1>0, <1>11 DEF InferOutcome, HandlerPlaced, SessionAt, LandedAt
  <2>1. CASE h' = Idle
    <3>1. /\ lease' \in {lease, NoLease}
          /\ UNCHANGED <<intents, catalog, outcomes, landed, cmds, begRefs, calls, refs>>
      BY <1>0, <1>11, <2>1 DEF InferOutcome, Goto, Idle, TypeOK, Handlers
    <3>2. worker'[t] \in {worker[t], "cleanup", "unknown"}
      BY <1>0, <1>11, <2>1, AnswerEffect DEF InferOutcome, Goto, Idle, TypeOK, Handlers
    <3> QED BY <1>0, <1>1, <2>0, <3>1, <3>2 DEF PushAt, IntentAt, LandedAt, CallsAt,
               Sent, Early
  <2>2. CASE h' # Idle
    <3>1. /\ t \in landed'
          /\ HasPack(cmds[t]) => catalog[t] # 0
          /\ UNCHANGED <<lease, worker, intents, catalog, cmds, begRefs, calls, nextPackSeq, refs>>
          /\ \E k \in {"queue", "quiet"} : StoreOutcome(t, k)
      BY <1>0, <1>11, <2>2 DEF InferOutcome
    <3>2. outcomes'[t] # "none"
      BY <1>0, <3>1, StoreOutcomeEffect
    <3> QED BY <1>0, <1>1, <2>0, <3>1, <3>2 DEF PushAt, IntentAt, LandedAt, CallsAt, TypeOK
  <2> QED BY <2>1, <2>2
<1> QED BY <1>2, <1>3, <1>4, <1>5, <1>6, <1>7, <1>8, <1>9, <1>10, <1>11 DEF HandlerStep


\* The alarm, time, failures and administrators keep PushAt: what they take a
\* lease from has no intent.
LEMMA PushOther ==
  ASSUME ReceiveInv, ReceiveInv', RecoveryInv, NEW q \in Push,
         \/ AlarmStep \/ LeaseExpires \/ LoseCall \/ Crash
         \/ AdminSetRefs \/ AdminSetHead \/ GetHead
  PROVE  PushAt(q)'
<1>0. PushAt(q) /\ TypeOK /\ TypeOK'
  BY DEF RecoveryInv, ReceiveInv
<1>1. CASE ResumeFinalize
  <2>1. lease.token \in Push
    BY <1>0, <1>1 DEF ResumeFinalize, HasIntent, TypeOK, Leases, NoLease
  <2>2. lease'.token = lease.token
    BY <1>1, <2>1, FenceTyped DEF ResumeFinalize
  <2> QED BY <1>0, <1>1, <2>2, SamePush DEF ResumeFinalize, session
<1>2. CASE ClearExpiredLease
  <2>1. CASE lease' = NoLease
    <3>1. lease'.token # q /\ (intents[q] # NoIntent => lease.token # q)
      BY <1>2, <2>1, NoneAssumption DEF ClearExpiredLease, HasIntent, NoLease
    <3> QED BY <1>0, <1>2, <3>1, SamePush DEF ClearExpiredLease, session
  <2>2. CASE lease' # NoLease
    <3>1. lease'.token = lease.token
      BY <1>0, <1>2, <2>2, LeaseTyped DEF ClearExpiredLease
    <3> QED BY <1>0, <1>2, <3>1, SamePush DEF ClearExpiredLease, session
  <2> QED BY <2>1, <2>2
<1>3. CASE LeaseExpires
  <2>1. lease'.token = lease.token
    BY <1>0, <1>3, LeaseTyped DEF LeaseExpires
  <2> QED BY <1>0, <1>3, <2>1, SamePush DEF LeaseExpires, session
<1>4. CASE LoseCall
  BY <1>0, <1>4, SamePush DEF LoseCall, durable, session
<1>5. CASE Crash
  BY <1>0, <1>5, SamePush DEF Crash, session
<1>6. CASE AdminSetRefs \/ AdminSetHead
  <2>1. lease'.token # q /\ (intents[q] # NoIntent => lease.token # q)
    BY <1>6, NoneAssumption DEF AdminSetRefs, AdminSetHead, Protected, HasIntent, NoLease
  <2> QED BY <1>0, <1>6, <2>1, SamePush DEF AdminSetRefs, AdminSetHead, session
<1>7. CASE GetHead
  BY <1>0, <1>7, SamePush DEF GetHead, session
<1> QED BY <1>1, <1>2, <1>3, <1>4, <1>5, <1>6, <1>7 DEF AlarmStep

\* Every step keeps PushAt.
LEMMA PushStep ==
  ASSUME ReceiveInv, ReceiveInv', RecoveryInv, [Next]_vars, NEW q \in Push
  PROVE  PushAt(q)'
<1>1. CASE UNCHANGED vars
  BY <1>1, SamePush DEF vars, RecoveryInv, ReceiveInv
<1>2. CASE HandlerStep
  BY <1>2, PushOthers, PushServed
<1> QED BY <1>1, <1>2, PushWorker, PushCall, PushOther DEF Next

------------------------------------------------------------------------------
(* Handlers *)

\* An object that runs no handler satisfies HandlerDone.
LEMMA IdleDone == ASSUME h' = Idle PROVE HandlerDone'
BY DEF HandlerDone, Idle

\* A step that leaves the handler and what it achieved alone.
LEMMA SameDone ==
  ASSUME HandlerDone,
         UNCHANGED <<h, outcomes, catalog, nextPackSeq, wanted, intents, landed>>,
         h.by = "finalize" /\ <<"finalize", h.token>> \in calls'
           => <<"finalize", h.token>> \in calls,
         h.by = "reconcile" => /\ <<"reconcile", h.token>> \in calls'
                                   => <<"reconcile", h.token>> \in calls
                               /\ worker'[h.token] = "finalizing"
                                   => worker[h.token] = "finalizing"
  PROVE  HandlerDone'
BY SameCatalog DEF HandlerDone

\* Worker steps leave a running handler alone.
LEMMA DoneWorker ==
  ASSUME ReceiveInv, ReceiveInv', RecoveryInv, NEW p \in Push, WorkerStep(p)
  PROVE  HandlerDone'
<1>0. HandlerDone /\ TypeOK /\ SessionPlaced
  BY DEF RecoveryInv, ReceiveInv
<1>1. CASE BeginReceive(p) \/ AbortReceive(p)
  BY <1>1, IdleDone DEF BeginReceive, AbortReceive
<1>2. CASE BeginRefused(p)
  BY <1>2, IdleDone DEF BeginRefused
<1>3. CASE Preflight(p) \/ StagePack(p) \/ GiveUp(p) \/ CleanupStagedPack(p) \/ ReconcileFails(p)
  <2>1. \A q \in Push : worker'[q] = "finalizing" => worker[q] = "finalizing"
    BY <1>0, <1>3 DEF Preflight, StagePack, GiveUp, CleanupStagedPack, ReconcileFails, TypeOK
  <2>2. h.by = "reconcile" => h.token \in Push
    BY <1>0 DEF TypeOK, Handlers, Idle
  <2> QED BY <1>0, <1>3, <2>1, <2>2, SameDone DEF Preflight, StagePack, GiveUp,
             CleanupStagedPack, ReconcileFails, durable
<1>4. CASE CallFinalize(p)
  <2>1. h.token # p
    BY <1>0, <1>4 DEF CallFinalize, SessionPlaced, SessionAt, Untouched, Early
  <2>2. h.by \in {"finalize", "reconcile"} => h.token \in Push
    BY <1>0 DEF TypeOK, Handlers, Idle
  <2> QED BY <1>0, <1>4, <2>1, <2>2, SameDone DEF CallFinalize, durable, TypeOK
<1>5. CASE FinalizeFails(p)
  <2>1. h.by = "reconcile" => h.token # p /\ h.token \in Push
    BY <1>0, <1>5 DEF FinalizeFails, HandlerDone, TypeOK, Handlers, Idle
  <2> QED BY <1>0, <1>5, <2>1, SameDone DEF FinalizeFails, durable, TypeOK
<1> QED BY <1>1, <1>2, <1>3, <1>4, <1>5 DEF WorkerStep

\* finalizeReceive, reconcileReceive and the alarm start a handler in a place
\* that fits what is durable.
LEMMA DoneCall ==
  ASSUME ReceiveInv, ReceiveInv', RecoveryInv, NEW p \in Push,
         FinalizeReceive(p) \/ ReconcileReceive(p)
  PROVE  HandlerDone'
<1>0. HandlerDone /\ TypeOK /\ CallsAt(p)
  BY DEF RecoveryInv, ReceiveInv, PushAt
<1>1. CASE UNCHANGED h
  BY <1>1, IdleDone DEF FinalizeReceive, ReconcileReceive
<1>2. CASE FinalizeReceive(p) /\ h' = [by |-> "finalize", token |-> p, pc |-> FinalizeFrom(p)]
  BY <1>2 DEF FinalizeReceive, FinalizeFrom, HasOutcome, HandlerDone
<1>3. CASE /\ ReconcileReceive(p) /\ UNCHANGED worker
           /\ h' = [by |-> "reconcile", token |-> p,
                    pc |-> IF HasOutcome(p) THEN "recStore"
                           ELSE IF HasIntent(p) THEN FinalizeFrom(p) ELSE "infer"]
  <2>1. worker[p] # "finalizing"
    BY <1>0, <1>3 DEF ReconcileReceive, CallsAt
  <2> QED BY <1>3, <2>1 DEF ReconcileReceive, FinalizeFrom, HasOutcome, HasIntent, HandlerDone
<1> QED BY <1>1, <1>2, <1>3 DEF FinalizeReceive, ReconcileReceive

\* The alarm, time, failures and administrators.
LEMMA DoneOther ==
  ASSUME ReceiveInv, ReceiveInv', RecoveryInv,
         \/ AlarmStep \/ LeaseExpires \/ LoseCall \/ Crash
         \/ AdminSetRefs \/ AdminSetHead \/ GetHead
  PROVE  HandlerDone'
<1>0. HandlerDone
  BY DEF RecoveryInv
<1>1. CASE ResumeFinalize
  BY <1>1 DEF ResumeFinalize, FinalizeFrom, HasOutcome, HandlerDone
<1>2. CASE ClearExpiredLease \/ AdminSetRefs \/ AdminSetHead \/ GetHead
  BY <1>2, IdleDone DEF ClearExpiredLease, AdminSetRefs, AdminSetHead, GetHead
<1>3. CASE LeaseExpires
  BY <1>0, <1>3, SameDone DEF LeaseExpires, session
<1>4. CASE LoseCall
  BY <1>0, <1>4, SameDone DEF LoseCall, durable, session
<1>5. CASE Crash
  BY <1>5, IdleDone DEF Crash, Throw
<1> QED BY <1>1, <1>2, <1>3, <1>4, <1>5 DEF AlarmStep


\* A handler that moves on serves the same push for the same caller.
LEMMA GotoEffect ==
  ASSUME TypeOK, h # Idle, NEW s, Goto(s)
  PROVE  h'.pc = s /\ h'.token = h.token /\ h'.by = h.by
BY DEF Goto, TypeOK, Handlers

\* A handler that moves on has achieved what its next place says.
LEMMA DoneHandler ==
  ASSUME ReceiveInv, ReceiveInv', RecoveryInv, HandlerStep, NEW t \in Push, t = h.token
  PROVE  HandlerDone'
<1>0. /\ TypeOK /\ TypeOK' /\ HandlerPlaced /\ HandlerDone /\ h # Idle /\ lease.token = t
      /\ IntentAt(t) /\ LandedAt(t) /\ NeedPending
  BY HandlerServes DEF RecoveryInv, ReceiveInv, PushAt
<1>a. CASE h' = Idle
  BY <1>a, IdleDone
<1>b. ASSUME h' # Idle PROVE UNCHANGED <<calls, cmds, worker>>
  BY <1>b DEF HandlerStep, PriorOutcome, WriteIntent, ActivatePack, AdvanceSequence,
     AdvancePackset, PublishRefs, RecordOutcome, RequestCompaction, DeleteIntent,
     ReleaseLease, InferOutcome, session
<1>1. CASE PriorOutcome
  <2>1. CASE h.pc = "prior"
    BY <1>0, <1>1, <1>a, <1>b, <2>1, GotoEffect DEF PriorOutcome, HandlerDone
  <2>2. CASE h.pc = "recStore"
    BY <1>0, <1>1, <1>a, <1>b, <2>2, GotoEffect DEF PriorOutcome, HandlerDone
  <2> QED BY <1>1, <2>1, <2>2 DEF PriorOutcome
<1>2. CASE WriteIntent /\ h' # Idle
  <2>1. Goto("upsert") /\ outcomes[t] = "none" /\ UNCHANGED outcomes
    BY <1>0, <1>2 DEF WriteIntent, HandlerPlaced
  <2> QED BY <1>0, <1>2, <1>b, <2>1, GotoEffect DEF HandlerDone
<1>3. CASE ActivatePack /\ h' # Idle
  <2>1. /\ Goto(IF HasPack(cmds[t]) THEN "sequence" ELSE "cas")
        /\ ~HasPack(cmds[t]) => UNCHANGED catalog
        /\ UNCHANGED <<outcomes, nextPackSeq>>
    BY <1>0, <1>3 DEF ActivatePack, Throw
  <2>2. outcomes[t] = "none" /\ intents[t] # NoIntent
    BY <1>0, <1>3 DEF ActivatePack, HandlerDone, HandlerPlaced
  <2>3. CASE HasPack(cmds[t])
    BY <1>0, <1>3, <1>b, <2>1, <2>2, <2>3, GotoEffect DEF HandlerDone
  <2>4. CASE ~HasPack(cmds[t])
    <3>1. catalog[t] = 0
      BY <1>0, <2>2, <2>4 DEF IntentAt
    <3>2. catalog'[t] < nextPackSeq'
      BY <1>0, <2>1, <2>4, <3>1 DEF TypeOK
    <3> QED BY <1>0, <1>3, <1>b, <2>1, <2>2, <2>4, <3>2, GotoEffect DEF HandlerDone
  <2> QED BY <2>3, <2>4
<1>4. CASE AdvanceSequence
  <2>1. /\ Goto("packset") /\ UNCHANGED <<outcomes, catalog, worker, calls>>
        /\ nextPackSeq' = SequenceAfter(intents[t].seq)
    BY <1>0, <1>4 DEF AdvanceSequence, session
  <2>2. outcomes[t] = "none" /\ intents[t] # NoIntent
    BY <1>0, <1>4 DEF AdvanceSequence, HandlerDone, HandlerPlaced
  <2>3. catalog[t] \in {0, intents[t].seq} /\ intents[t].seq \in Nat
    BY <1>0, <2>2, IntentFields DEF IntentAt, Intents
  <2>4. catalog'[t] < nextPackSeq'
    BY <1>0, <2>1, <2>3 DEF SequenceAfter, TypeOK
  <2> QED BY <1>0, <2>1, <2>2, <2>4, GotoEffect DEF HandlerDone
<1>5. CASE AdvancePackset
  BY <1>0, <1>5, GotoEffect DEF AdvancePackset, HandlerDone, session
<1>6. CASE PublishRefs /\ h' # Idle
  <2>1. Goto("store") /\ t \in landed' /\ UNCHANGED outcomes
    BY <1>0, <1>6 DEF PublishRefs, Throw
  <2>2. outcomes[t] = "none"
    BY <1>0, <1>6 DEF PublishRefs, HandlerDone
  <2> QED BY <1>0, <1>6, <1>b, <2>1, <2>2, GotoEffect DEF HandlerDone
<1>7. CASE RecordOutcome
  BY <1>0, <1>7, GotoEffect DEF RecordOutcome, HandlerDone, session
<1>8. CASE RequestCompaction
  <2>1. outcomes[t] \in {"quiet", "queue"}
    BY <1>0, <1>8 DEF RequestCompaction, HandlerPlaced, TypeOK
  <2>2. NeedsCompaction' = NeedsCompaction
    BY <1>8, SameCatalog DEF RequestCompaction
  <2>3. NeedsCompaction => wanted \/ outcomes[t] = "queue"
    BY <1>0, <2>1 DEF NeedPending
  <2>4. NeedsCompaction' => wanted'
    BY <1>0, <1>8, <2>2, <2>3, Zenon DEF RequestCompaction
  <2>5. h'.pc \in {"recRelease", "clear"} /\ (h'.pc = "recRelease" => h.pc = "recMark")
    BY <1>0, <1>8, GotoEffect DEF RequestCompaction
  <2> QED BY <1>0, <1>8, <2>4, <2>5, GotoEffect DEF RequestCompaction, HandlerDone, session
<1>9. CASE DeleteIntent
  <2>1. NeedsCompaction' = NeedsCompaction
    BY <1>9, SameCatalog DEF DeleteIntent
  <2>2. intents'[t] = NoIntent
    BY <1>0, <1>9 DEF DeleteIntent, TypeOK
  <2> QED BY <1>0, <1>9, <2>1, <2>2, GotoEffect DEF DeleteIntent, HandlerDone, session
<1>10. CASE ReleaseLease
  BY <1>10, <1>a DEF ReleaseLease
<1>11. CASE InferOutcome /\ h' # Idle
  <2>1. Goto("recRelease") /\ UNCHANGED <<catalog, wanted>>
    BY <1>0, <1>11 DEF InferOutcome
  <2>2. NeedsCompaction' = NeedsCompaction
    BY <2>1, SameCatalog
  <2>3. intents[t] = NoIntent
    BY <1>0, <1>11 DEF InferOutcome, HandlerPlaced
  <2>4. NeedsCompaction => wanted
    BY <1>0, <2>3 DEF NeedPending, HasIntent
  <2>5. h.by = "reconcile"
    BY <1>0, <1>11 DEF InferOutcome, HandlerDone
  <2> QED BY <1>0, <1>11, <1>b, <2>1, <2>2, <2>4, <2>5, GotoEffect DEF HandlerDone
<1> QED BY <1>1, <1>2, <1>3, <1>4, <1>5, <1>6, <1>7, <1>8, <1>9, <1>10, <1>11, <1>a
        DEF HandlerStep

\* Every step keeps HandlerDone.
LEMMA DoneStep ==
  ASSUME ReceiveInv, ReceiveInv', RecoveryInv, [Next]_vars
  PROVE  HandlerDone'
<1>1. CASE UNCHANGED vars
  BY <1>1, SameDone DEF vars, RecoveryInv
<1>2. CASE HandlerStep
  BY <1>2, DoneHandler, HandlerServes DEF ReceiveInv
<1> QED BY <1>1, <1>2, DoneWorker, DoneCall, DoneOther DEF Next

------------------------------------------------------------------------------
(* Expired leases *)

\* A step that renews, drops or keeps the lease, and does not put a push with an
\* intent or an outcome in flight.
LEMMA SameExpired ==
  ASSUME ExpiredUncontested,
         lease'.token = None \/ lease'.live \/ lease' = lease,
         \A q \in Push \ {lease.token} :
           intents'[q] # NoIntent \/ outcomes'[q] # "none" =>
             /\ intents[q] # NoIntent \/ outcomes[q] # "none"
             /\ Quiet(q) => Quiet(q)'
  PROVE  ExpiredUncontested'
BY DEF ExpiredUncontested

\* Every step keeps ExpiredUncontested: a lease runs out only when no call of
\* another push that made progress is under way, and none starts afterwards.
LEMMA ExpiredStep ==
  ASSUME ReceiveInv, ReceiveInv', RecoveryInv, [Next]_vars
  PROVE  ExpiredUncontested'
<1>0. /\ ExpiredUncontested /\ TypeOK /\ TypeOK' /\ SessionPlaced
      /\ \A q \in Push : PushAt(q)
  BY DEF RecoveryInv, ReceiveInv
<1>1. CASE UNCHANGED vars
  BY <1>0, <1>1, SameExpired DEF vars, Quiet
<1>2. ASSUME NEW p \in Push, WorkerStep(p) PROVE ExpiredUncontested'
  <2>1. CASE BeginReceive(p)
    BY <1>0, <2>1 DEF BeginReceive, ExpiredUncontested
  <2>2. CASE BeginRefused(p)
    <3>1. lease \in [token : Push, live : BOOLEAN]
      BY <1>0, <2>2 DEF BeginRefused, TypeOK, Leases, NoLease
    <3>2. lease'.live
      BY <2>2, <3>1 DEF BeginRefused
    <3> QED BY <3>2 DEF ExpiredUncontested
  <2>3. CASE AbortReceive(p)
    <3>1. \A q \in Push : Quiet(q) => Quiet(q)'
      BY <1>0, <2>3 DEF AbortReceive, Quiet, TypeOK
    <3> QED BY <1>0, <2>3, <3>1, SameExpired DEF AbortReceive, NoLease
  <2>4. CASE \/ Preflight(p) \/ StagePack(p) \/ GiveUp(p) \/ CleanupStagedPack(p)
             \/ CallFinalize(p) \/ FinalizeFails(p) \/ ReconcileFails(p)
    <3>1. UNCHANGED <<lease, intents, outcomes>>
      BY <2>4 DEF Preflight, StagePack, GiveUp, CleanupStagedPack, CallFinalize,
         FinalizeFails, ReconcileFails, durable
    <3>2. CASE CallFinalize(p)
      <4>1. Untouched(p)
        BY <1>0, <3>2, EarlyPush DEF CallFinalize, Early
      <4>2. \A q \in Push \ {p} : Quiet(q) => Quiet(q)'
        BY <1>0, <3>2 DEF CallFinalize, Quiet, TypeOK
      <4> QED BY <1>0, <3>1, <4>1, <4>2, SameExpired DEF Untouched
    <3>3. CASE ~CallFinalize(p)
      <4>1. \A q \in Push : Quiet(q) => Quiet(q)'
        BY <1>0, <2>4, <3>3 DEF Preflight, StagePack, GiveUp, CleanupStagedPack,
           FinalizeFails, ReconcileFails, Quiet, TypeOK
      <4> QED BY <1>0, <3>1, <4>1, SameExpired
    <3> QED BY <3>2, <3>3
  <2> QED BY <1>2, <2>1, <2>2, <2>3, <2>4 DEF WorkerStep
<1>3. ASSUME NEW p \in Push, FinalizeReceive(p) \/ ReconcileReceive(p)
      PROVE  ExpiredUncontested'
  <2>1. CASE TakeFence(p)
    BY <2>1 DEF TakeFence, ExpiredUncontested
  <2>2. CASE ~TakeFence(p)
    <3>1. \E by, s : s \in {"mismatch", "unknown"} /\ Answer(by, p, s)
      BY <1>3, <2>2 DEF FinalizeReceive, ReconcileReceive
    <3>2. UNCHANGED <<lease, intents, outcomes>> /\ calls' \subseteq calls
      BY <1>3, <2>2 DEF FinalizeReceive, ReconcileReceive
    <3>3. \A q \in Push : worker'[q] \in {worker[q], "mismatch", "unknown"}
      BY <1>0, <3>1, AnswerEffect
    <3>4. \A q \in Push : Quiet(q) => Quiet(q)'
      BY <3>2, <3>3 DEF Quiet
    <3> QED BY <1>0, <3>2, <3>4, SameExpired
  <2> QED BY <2>1, <2>2
<1>4. CASE HandlerStep
  <2>0. h.token \in Push /\ lease.token = h.token
    BY <1>0, <1>4, HandlerServes DEF ReceiveInv
  <2>1. lease' \in {lease, NoLease} /\ UNCHANGED calls
    BY <1>4 DEF HandlerStep, PriorOutcome, WriteIntent, ActivatePack, AdvanceSequence,
       AdvancePackset, PublishRefs, RecordOutcome, RequestCompaction, DeleteIntent,
       ReleaseLease, InferOutcome
  <2>2. \A q \in Push \ {h.token} : intents'[q] = intents[q]
    BY <1>0, <1>4, <2>0 DEF HandlerStep, PriorOutcome, WriteIntent, ActivatePack,
       AdvanceSequence, AdvancePackset, PublishRefs, RecordOutcome,
       RequestCompaction, DeleteIntent, ReleaseLease, InferOutcome, TypeOK
  <2>3. \A q \in Push \ {h.token} : outcomes'[q] \in {outcomes[q], "none"}
    BY <1>0, <1>4, <2>0, StoreOutcomeEffect DEF HandlerStep, PriorOutcome, WriteIntent,
       ActivatePack, AdvanceSequence, AdvancePackset, PublishRefs, RecordOutcome,
       RequestCompaction, DeleteIntent, ReleaseLease, InferOutcome
  <2>4. \A q \in Push \ {h.token} : worker'[q] = worker[q]
    BY <1>0, <1>4, <2>0, AnswerEffect DEF HandlerStep, PriorOutcome, WriteIntent,
       ActivatePack, AdvanceSequence, AdvancePackset, PublishRefs, RecordOutcome,
       RequestCompaction, DeleteIntent, ReleaseLease, InferOutcome, session
  <2>5. \A q \in Push \ {lease.token} : Quiet(q) => Quiet(q)'
    BY <2>0, <2>1, <2>4 DEF Quiet
  <2> QED BY <1>0, <2>0, <2>1, <2>2, <2>3, <2>5, SameExpired DEF NoLease
<1>5. CASE AlarmStep
  <2>1. CASE ResumeFinalize
    BY <2>1 DEF ResumeFinalize, TakeFence, ExpiredUncontested
  <2>2. CASE ClearExpiredLease
    <3>1. \A q \in Push : Quiet(q)' = Quiet(q)
      BY <2>2 DEF ClearExpiredLease, session, Quiet
    <3>2. lease' = NoLease \/ lease' = lease \/ lease'.live
      <4>1. CASE lease.token # None /\ lease' = [lease EXCEPT !.live = TRUE]
        <5>1. lease \in [token : Push, live : BOOLEAN]
          BY <1>0, <4>1 DEF TypeOK, Leases, NoLease
        <5> QED BY <4>1, <5>1
      <4> QED BY <2>2, <4>1 DEF ClearExpiredLease
    <3> QED BY <1>0, <2>2, <3>1, <3>2, SameExpired DEF ClearExpiredLease, NoLease
  <2> QED BY <1>5, <2>1, <2>2 DEF AlarmStep
<1>6. CASE LeaseExpires
  <2>1. lease'.token = lease.token
    BY <1>0, <1>6, LeaseTyped DEF LeaseExpires
  <2>2. \A q \in Push \ {lease.token} :
          intents[q] # NoIntent \/ outcomes[q] # "none" => Quiet(q)
    BY <1>0, <1>6, QuietMeans, NoneAssumption DEF LeaseExpires, HasIntent, HasOutcome
  <2> QED BY <1>6, <2>1, <2>2 DEF LeaseExpires, session, ExpiredUncontested, Quiet
<1>7. CASE LoseCall
  <2>1. \A q \in Push : Quiet(q) => Quiet(q)'
    BY <1>7 DEF LoseCall, session, Quiet
  <2> QED BY <1>0, <1>7, <2>1, SameExpired DEF LoseCall, durable
<1>8. CASE Crash \/ AdminSetRefs \/ AdminSetHead \/ GetHead
  <2>1. \A q \in Push : Quiet(q)' = Quiet(q)
    BY <1>8 DEF Crash, AdminSetRefs, AdminSetHead, GetHead, session, Quiet
  <2> QED BY <1>0, <1>8, <2>1, SameExpired DEF Crash, AdminSetRefs, AdminSetHead, GetHead, NoLease
<1> QED BY <1>1, <1>2, <1>3, <1>4, <1>5, <1>6, <1>7, <1>8 DEF Next


------------------------------------------------------------------------------
(* The need for compaction *)

\* The receive that holds the lease still has to decide or to ask.
Undecided ==
  /\ HasIntent(lease.token)
  /\ HasPack(cmds[lease.token])
  /\ outcomes[lease.token] # "quiet"

\* A step that does not concern the holder of the lease.
LEMMA SameUndecided ==
  ASSUME Undecided, lease'.token = lease.token,
         UNCHANGED <<intents[lease.token], cmds[lease.token], outcomes[lease.token]>>
  PROVE  Undecided'
BY DEF Undecided, HasIntent

\* The need that waits for the holder of the lease is not lost.
LEMMA UndecidedStep ==
  ASSUME ReceiveInv, ReceiveInv', RecoveryInv, [Next]_vars,
         NeedsCompaction, ~wanted, Undecided
  PROVE  wanted' \/ Undecided'
<1> DEFINE t == lease.token
<1>0. /\ TypeOK /\ TypeOK' /\ SessionPlaced /\ HandlerPlaced /\ HandlerDone
      /\ \A q \in Push : PushAt(q)
  BY DEF RecoveryInv, ReceiveInv
<1>1. t \in Push /\ intents[t] # NoIntent /\ Protected
  BY <1>0 DEF Undecided, HasIntent, Protected, TypeOK, Leases, NoLease
<1>2. ~Untouched(t)
  BY <1>1 DEF Untouched
<1>3. CASE UNCHANGED vars
  BY <1>3, SameUndecided DEF vars
<1>4. ASSUME NEW p \in Push, WorkerStep(p) PROVE Undecided'
  <2>1. CASE BeginReceive(p)
    BY <1>1, <2>1 DEF BeginReceive
  <2>2. CASE BeginRefused(p)
    <3>1. lease'.token = t
      BY <1>0, <2>2, LeaseTyped DEF BeginRefused
    <3> QED BY <2>2, <3>1, SameUndecided DEF BeginRefused, session
  <2>3. CASE AbortReceive(p)
    <3>1. p # t
      BY <1>0, <1>2, <2>3, EarlyPush DEF AbortReceive, Early
    <3> QED BY <2>3, <3>1, SameUndecided DEF AbortReceive
  <2>4. CASE Preflight(p)
    <3>1. p # t
      BY <1>0, <1>2, <2>4, EarlyPush DEF Preflight, Early
    <3> QED BY <1>0, <1>1, <2>4, <3>1, SameUndecided DEF Preflight, durable, TypeOK
  <2>5. CASE \/ StagePack(p) \/ GiveUp(p) \/ CleanupStagedPack(p)
             \/ CallFinalize(p) \/ FinalizeFails(p) \/ ReconcileFails(p)
    BY <2>5, SameUndecided DEF StagePack, GiveUp, CleanupStagedPack, CallFinalize,
       FinalizeFails, ReconcileFails, durable
  <2> QED BY <1>4, <2>1, <2>2, <2>3, <2>4, <2>5 DEF WorkerStep
<1>5. ASSUME NEW p \in Push, FinalizeReceive(p) \/ ReconcileReceive(p) PROVE Undecided'
  <2>1. lease'.token = t
    <3>1. CASE UNCHANGED lease
      BY <3>1
    <3>2. CASE ~UNCHANGED lease
      <4>1. TakeFence(p) /\ FenceHeld(p)
        BY <1>5, <3>2 DEF FinalizeReceive, ReconcileReceive
      <4>2. lease.token = p
        BY <1>1, <1>5, <4>1, FenceFree, NoneAssumption DEF FinalizeReceive, ReconcileReceive
      <4> QED BY <4>1, <4>2, FenceTyped
    <3> QED BY <3>1, <3>2
  <2> QED BY <1>5, <2>1, SameUndecided DEF FinalizeReceive, ReconcileReceive
<1>6. CASE HandlerStep
  <2>0. h.token = t /\ h # Idle
    BY <1>0, <1>6, HandlerServes
  <2>1. CASE PriorOutcome
    <3>1. outcomes'[t] = outcomes[t]
      BY <1>0, <1>1, <2>0, <2>1, StoreOutcomeEffect DEF PriorOutcome
    <3> QED BY <2>1, <3>1, SameUndecided DEF PriorOutcome, session
  <2>2. CASE WriteIntent \/ InferOutcome
    BY <1>0, <1>1, <2>0, <2>2 DEF WriteIntent, InferOutcome, HandlerPlaced
  <2>3. CASE \/ ActivatePack \/ AdvanceSequence \/ AdvancePackset \/ PublishRefs
             \/ RequestCompaction
    BY <2>3, SameUndecided DEF ActivatePack, AdvanceSequence, AdvancePackset,
       PublishRefs, RequestCompaction, session
  <2>4. CASE RecordOutcome
    <3>1. QueueFlag(t) = "queue"
      BY DEF QueueFlag, Undecided
    <3>2. outcomes'[t] = "queue"
      BY <1>0, <1>1, <2>0, <2>4, <3>1, StoreOutcomeEffect DEF RecordOutcome
    <3> QED BY <2>4, <3>2 DEF RecordOutcome, session, Undecided, HasIntent
  <2>5. CASE DeleteIntent \/ ReleaseLease
    BY <1>0, <2>5 DEF DeleteIntent, ReleaseLease, HandlerDone
  <2> QED BY <1>6, <2>1, <2>2, <2>3, <2>4, <2>5 DEF HandlerStep
<1>7. CASE ResumeFinalize
  <2>1. lease'.token = t
    BY <1>1, <1>7, FenceTyped DEF ResumeFinalize
  <2> QED BY <1>7, <2>1, SameUndecided DEF ResumeFinalize, session
<1>8. CASE ClearExpiredLease \/ AdminSetRefs \/ AdminSetHead
  BY <1>1, <1>8 DEF ClearExpiredLease, AdminSetRefs, AdminSetHead, Undecided
<1>9. CASE LeaseExpires
  <2>1. lease'.token = t
    BY <1>0, <1>9, LeaseTyped DEF LeaseExpires
  <2> QED BY <1>9, <2>1, SameUndecided DEF LeaseExpires, session
<1>10. CASE LoseCall \/ Crash \/ GetHead
  BY <1>10, SameUndecided DEF LoseCall, Crash, GetHead, durable, session
<1> QED BY <1>3, <1>4, <1>5, <1>6, <1>7, <1>8, <1>9, <1>10 DEF Next, AlarmStep

\* A request for compaction that was recorded stays; the receive path only
\* records them.
LEMMA WantedStays ==
  ASSUME wanted, [Next]_vars
  PROVE  wanted'
<1>1. CASE RequestCompaction
  BY <1>1, Zenon DEF RequestCompaction
<1>2. CASE ~RequestCompaction
  <2>1. UNCHANGED wanted
    BY <1>2 DEF Next, vars, WorkerStep, BeginReceive, BeginRefused, Preflight, StagePack,
     GiveUp, AbortReceive, CleanupStagedPack, CallFinalize, FinalizeFails,
     ReconcileFails, FinalizeReceive, ReconcileReceive, HandlerStep, PriorOutcome,
     WriteIntent, ActivatePack, AdvanceSequence, AdvancePackset, PublishRefs, RecordOutcome,
     DeleteIntent, ReleaseLease, InferOutcome, AlarmStep,
     ResumeFinalize, ClearExpiredLease, LeaseExpires, LoseCall, Crash,
     AdminSetRefs, AdminSetHead, GetHead, durable
  <2> QED BY <2>1
<1> QED BY <1>1, <1>2

\* Every step keeps NeedPending.
LEMMA NeedStep ==
  ASSUME ReceiveInv, ReceiveInv', RecoveryInv, [Next]_vars
  PROVE  NeedPending'
<1>0. NeedPending /\ TypeOK /\ TypeOK' /\ HandlerPlaced /\ HandlerDone /\ SessionPlaced
  BY DEF RecoveryInv, ReceiveInv
<1> SUFFICES ASSUME NeedsCompaction', ~wanted' PROVE Undecided'
  BY DEF NeedPending, Undecided
<1>1. ~wanted
  BY WantedStays
<1>2. CASE UNCHANGED catalog
  <2>1. NeedsCompaction /\ Undecided
    BY <1>0, <1>1, <1>2, SameCatalog DEF NeedPending, Undecided
  <2> QED BY <1>1, <2>1, UndecidedStep
<1>3. CASE ~UNCHANGED catalog
  <2>1. ActivatePack
    BY <1>3 DEF Next, vars, WorkerStep, BeginReceive, BeginRefused, Preflight, StagePack,
     GiveUp, AbortReceive, CleanupStagedPack, CallFinalize, FinalizeFails,
     ReconcileFails, FinalizeReceive, ReconcileReceive, HandlerStep, PriorOutcome,
     WriteIntent, AdvanceSequence, AdvancePackset, PublishRefs, RecordOutcome,
     RequestCompaction, DeleteIntent, ReleaseLease, InferOutcome, AlarmStep,
     ResumeFinalize, ClearExpiredLease, LeaseExpires, LoseCall, Crash,
     AdminSetRefs, AdminSetHead, GetHead, durable
  <2>2. h.token \in Push /\ lease.token = h.token
    BY <1>0, <2>1, HandlerServes DEF HandlerStep
  <2>3. HasPack(cmds[h.token]) /\ intents[h.token] # NoIntent /\ outcomes[h.token] = "none"
    BY <1>0, <1>3, <2>1 DEF ActivatePack, HandlerPlaced, HandlerDone
  <2> QED BY <2>1, <2>2, <2>3, NoneAssumption DEF ActivatePack, session, Undecided, HasIntent
<1> QED BY <1>2, <1>3

------------------------------------------------------------------------------
(* Sequence numbers *)

\* An active row at or above the next number belongs to the intent that holds
\* the lease.
LEMMA RowsBelow ==
  ASSUME TypeOK, NEW p \in Push, PushAt(p), catalog[p] # 0, catalog[p] >= nextPackSeq
  PROVE  HasIntent(p) /\ lease.token = p
BY NoneAssumption DEF PushAt, IntentAt, LandedAt, HasIntent, TypeOK

\* Every step keeps RowsDistinct.
LEMMA RowsStep ==
  ASSUME ReceiveInv, ReceiveInv', RecoveryInv, [Next]_vars
  PROVE  RowsDistinct'
<1>0. /\ TypeOK /\ TypeOK' /\ HandlerPlaced /\ SessionPlaced /\ RowsDistinct
      /\ \A q \in Push : PushAt(q)
  BY DEF RecoveryInv, ReceiveInv
<1>1. CASE UNCHANGED catalog
  BY <1>0, <1>1 DEF RowsDistinct, Active
<1>2. CASE ~UNCHANGED catalog
  <2> DEFINE t == h.token
             s == intents[h.token].seq
  <2>1. /\ t \in Push /\ HasPack(cmds[t]) /\ s # 0
        /\ catalog' = [catalog EXCEPT ![t] = s]
    BY <1>0, <1>2, CatalogStep
  <2>2. ActivatePack
    BY <1>2 DEF Next, vars, WorkerStep, BeginReceive, BeginRefused, Preflight, StagePack,
     GiveUp, AbortReceive, CleanupStagedPack, CallFinalize, FinalizeFails,
     ReconcileFails, FinalizeReceive, ReconcileReceive, HandlerStep, PriorOutcome,
     WriteIntent, AdvanceSequence, AdvancePackset, PublishRefs, RecordOutcome,
     RequestCompaction, DeleteIntent, ReleaseLease, InferOutcome, AlarmStep,
     ResumeFinalize, ClearExpiredLease, LeaseExpires, LoseCall, Crash,
     AdminSetRefs, AdminSetHead, GetHead, durable
  <2>3. intents[t] # NoIntent /\ lease.token = t
    BY <1>0, <2>2, HandlerServes DEF ActivatePack, HandlerPlaced, HandlerStep
  <2>4. catalog[t] = 0 /\ s = nextPackSeq
    <3>1. catalog[t] \in {0, s}
      BY <1>0, <2>1, <2>3 DEF PushAt, IntentAt
    <3>2. catalog[t] # s
      BY <1>0, <1>2, <2>1 DEF TypeOK
    <3> QED BY <1>0, <2>1, <2>3, <3>1, <3>2 DEF PushAt, IntentAt
  <2>5. \A q \in Push \ {t} : catalog[q] # 0 => catalog[q] # s
    <3> SUFFICES ASSUME NEW q \in Push \ {t}, catalog[q] # 0 PROVE catalog[q] # s
      OBVIOUS
    <3>1. catalog[q] < nextPackSeq
      BY <1>0, <2>3, RowsBelow DEF TypeOK
    <3> QED BY <1>0, <2>4, <3>1 DEF TypeOK
  <2> HIDE DEF s
  <2> QED BY <1>0, <2>1, <2>5 DEF RowsDistinct, Active, TypeOK
<1> QED BY <1>1, <1>2


------------------------------------------------------------------------------
(* Recovery *)

\* RecoveryInv holds initially ...
LEMMA RecoveryInit == Init => RecoveryInv
<1> SUFFICES ASSUME Init PROVE RecoveryInv
  OBVIOUS
<1>1. ASSUME NEW p \in Push PROVE PushAt(p)
  BY NoneAssumption DEF Init, PushAt, IntentAt, LandedAt, CallsAt, NoLease, Sent
<1>2. HandlerDone
  BY DEF Init, HandlerDone, Idle
<1>3. ExpiredUncontested
  BY DEF Init, ExpiredUncontested, NoLease
<1>4. Active = {}
  BY DEF Init, Active
<1>5. NeedPending
  BY <1>4, FS_EmptySet, BoundAssumption DEF NeedPending, NeedsCompaction
<1> QED BY <1>1, <1>2, <1>3, <1>4, <1>5 DEF RecoveryInv, RowsDistinct

\* ... and every step preserves it.
LEMMA RecoveryStep ==
  ReceiveInv /\ ReceiveInv' /\ RecoveryInv /\ [Next]_vars => RecoveryInv'
<1> SUFFICES ASSUME ReceiveInv, ReceiveInv', RecoveryInv, [Next]_vars
             PROVE  RecoveryInv'
  OBVIOUS
<1>1. \A p \in Push : PushAt(p)'
  BY PushStep
<1>2. HandlerDone' /\ ExpiredUncontested'
  BY DoneStep, ExpiredStep
<1>3. NeedPending' /\ RowsDistinct'
  BY NeedStep, RowsStep
<1> QED BY <1>1, <1>2, <1>3 DEF RecoveryInv

\* RecoveryInv is an invariant.
THEOREM RecoveryInvariant == Spec => []RecoveryInv
BY ReceiveInvariant, RecoveryInit, RecoveryStep, PTL DEF Spec

\* The invariant implies what a replay relies on.
LEMMA RecoveryImplied == ReceiveInv /\ RecoveryInv => RecoverySound
<1> SUFFICES ASSUME ReceiveInv, RecoveryInv PROVE RecoverySound
  OBVIOUS
<1>0. /\ TypeOK /\ HandlerPlaced /\ NeedPending /\ RowsDistinct
      /\ \A q \in Push : PushAt(q)
  BY DEF RecoveryInv, ReceiveInv
<1>1. ReplayNeverDiverges
  <2>1. ASSUME h.pc = "upsert" PROVE ~MisplacedRow(h.token)
    BY <1>0, <2>1, HandlerToken DEF HandlerPlaced, PushAt, IntentAt, MisplacedRow
  <2>2. ASSUME h.pc = "cas" PROVE ~Diverged(h.token)
    BY <1>0, <2>2, HandlerToken DEF HandlerPlaced, PushAt, IntentAt, Diverged
  <2> QED BY <2>1, <2>2 DEF ReplayNeverDiverges
<1>2. PendingIntentOwnsLease
  BY <1>0 DEF PendingIntentOwnsLease, HasIntent, PushAt, IntentAt
<1>3. SequencesDistinct
  BY <1>0, RowsBelow DEF SequencesDistinct, RowsDistinct, Active
<1>4. CompactionNeedRecorded
  BY <1>0 DEF CompactionNeedRecorded, NeedPending
<1> QED BY <1>1, <1>2, <1>3, <1>4 DEF RecoverySound

\* Between any two durable writes of finalizeReceive, and whatever is evicted or
\* runs out in between: a replay finds the row and the refs its intent was
\* written for (neither FUBAR is reachable), an unpublished intent owns the
\* lease, sequence numbers stay distinct and the compaction request is kept.
THEOREM RecoveryIsSound == Spec => []RecoverySound
BY ReceiveInvariant, RecoveryInvariant, RecoveryImplied, PTL

------------------------------------------------------------------------------
(* Publication *)

\* Only the ref transaction and an administrator write refs, and only the ref
\* transaction and reconciliation publish.
LEMMA RefsWritten ==
  ASSUME [Next]_vars, ~PublishRefs
  PROVE  /\ UNCHANGED <<refs, refsVersion>> \/ AdminSetRefs
         /\ UNCHANGED landed \/ InferOutcome
BY DEF Next, vars, WorkerStep, BeginReceive, BeginRefused, Preflight, StagePack,
   GiveUp, AbortReceive, CleanupStagedPack, CallFinalize, FinalizeFails,
   ReconcileFails, FinalizeReceive, ReconcileReceive, HandlerStep, PriorOutcome,
   WriteIntent, ActivatePack, AdvanceSequence, AdvancePackset, RecordOutcome,
   RequestCompaction, DeleteIntent, ReleaseLease, InferOutcome, AlarmStep,
   ResumeFinalize, ClearExpiredLease, LeaseExpires, LoseCall, Crash,
   AdminSetRefs, AdminSetHead, GetHead, durable

\* The ref transaction of a handler publishes a push that was not published, on
\* the refs its intent was written for, or repeats itself without effect.
LEMMA PublishOnce ==
  ASSUME ReceiveInv, RecoveryInv, PublishRefs, NEW t \in Push, t = h.token
  PROVE  \/ /\ t \notin landed
            /\ Valid(refs, cmds[t])
            /\ refs' = Apply(refs, cmds[t])
            /\ head'.oid = refs'[head'.target]
            /\ refsVersion' = refsVersion + 1
            /\ landed' = landed \cup {t}
         \/ t \in landed /\ UNCHANGED <<refs, refsVersion, landed>>
<1>0. TypeOK /\ HandlerPlaced /\ IntentAt(t) /\ lease.token = t /\ intents[t] # NoIntent
  BY HandlerServes DEF ReceiveInv, RecoveryInv, PushAt, HandlerStep, PublishRefs, HandlerPlaced
<1>1. ~Diverged(t)
  BY <1>0 DEF IntentAt, Diverged
<1>2. /\ refs' = Apply(refs, cmds[t]) /\ refsVersion' = intents[t].expected + 1
      /\ head' = intents[t].head /\ landed' = landed \cup {t}
  BY <1>1 DEF PublishRefs, PublishedVersion
<1>3. CASE t \in landed
  BY <1>0, <1>2, <1>3 DEF IntentAt
<1>4. CASE t \notin landed
  BY <1>0, <1>2, <1>4 DEF IntentAt
<1> QED BY <1>3, <1>4

\* A step publishes as the three parts of PublishedOnce say.
LEMMA PublishStep ==
  ASSUME ReceiveInv, RecoveryInv, [Next]_vars
  PROVE  /\ landed' # landed /\ refs' # refs => head'.oid = refs'[head'.target]
         /\ refsVersion' # refsVersion \/ refs' # refs =>
              refsVersion' = refsVersion + 1 /\ (landed' # landed \/ ~Protected)
         /\ \A p \in Push : HasIntent(p) /\ ~HasIntent(p)' => p \in landed
         /\ landed \subseteq landed'
<1>0. /\ TypeOK /\ HandlerPlaced /\ SessionPlaced /\ HandlerDone
      /\ \A q \in Push : PushAt(q)
  BY DEF RecoveryInv, ReceiveInv
<1>1. /\ landed' # landed /\ refs' # refs => head'.oid = refs'[head'.target]
      /\ refsVersion' # refsVersion \/ refs' # refs =>
           refsVersion' = refsVersion + 1 /\ (landed' # landed \/ ~Protected)
      /\ landed \subseteq landed'
  <2>1. CASE PublishRefs
    BY <1>0, <2>1, HandlerToken, PublishOnce DEF PublishRefs
  <2>2. CASE ~PublishRefs
    <3>1. CASE AdminSetRefs
      BY <3>1 DEF AdminSetRefs
    <3>2. CASE ~AdminSetRefs
      BY <2>2, <3>2, RefsWritten DEF InferOutcome
    <3> QED BY <3>1, <3>2
  <2> QED BY <2>1, <2>2
<1>2. ASSUME NEW p \in Push, HasIntent(p), ~HasIntent(p)' PROVE p \in landed
  <2>1. intents'[p] # intents[p]
    BY <1>2 DEF HasIntent
  <2>2. CASE WriteIntent
    <3>1. h.token \in Push /\ intents[h.token] = NoIntent
      BY <1>0, <2>2, HandlerToken DEF WriteIntent, HandlerPlaced
    <3> QED BY <1>0, <1>2, <2>1, <2>2, <3>1 DEF WriteIntent, HasIntent, TypeOK
  <2>3. CASE ~WriteIntent
    <3>1. DeleteIntent
      BY <2>1, <2>3 DEF Next, vars, WorkerStep, BeginReceive, BeginRefused, Preflight, StagePack,
         GiveUp, AbortReceive, CleanupStagedPack, CallFinalize, FinalizeFails,
         ReconcileFails, FinalizeReceive, ReconcileReceive, HandlerStep, PriorOutcome,
         ActivatePack, AdvanceSequence, AdvancePackset, PublishRefs, RecordOutcome,
         RequestCompaction, ReleaseLease, InferOutcome, AlarmStep,
         ResumeFinalize, ClearExpiredLease, LeaseExpires, LoseCall, Crash,
         AdminSetRefs, AdminSetHead, GetHead, durable
    <3>2. p = h.token
      BY <1>0, <2>1, <3>1, HandlerToken DEF DeleteIntent, TypeOK
    <3> QED BY <1>0, <3>1, <3>2 DEF DeleteIntent, HandlerPlaced, PushAt, LandedAt
  <2> QED BY <2>2, <2>3
<1> QED BY <1>1, <1>2

\* A push moves refs, HEAD and refsVersion once and together, however often the
\* object is evicted between its writes, and the intent is not dropped before.
THEOREM PublishesOnce == Spec => PublishedOnce
<1>1. ReceiveInv /\ RecoveryInv /\ [Next]_vars =>
        [landed' # landed /\ refs' # refs => head'.oid = refs'[head'.target]]_vars
  BY PublishStep
<1>2. ReceiveInv /\ RecoveryInv /\ [Next]_vars =>
        [refsVersion' # refsVersion \/ refs' # refs =>
           refsVersion' = refsVersion + 1 /\ (landed' # landed \/ ~Protected)]_vars
  BY PublishStep
<1>3. ReceiveInv /\ RecoveryInv /\ [Next]_vars =>
        [/\ \A p \in Push : HasIntent(p) /\ ~HasIntent(p)' => p \in landed
         /\ landed \subseteq landed']_vars
  BY PublishStep
<1> QED BY <1>1, <1>2, <1>3, ReceiveInvariant, RecoveryInvariant, PTL
        DEF Spec, PublishedOnce, HeadFollowsRefs, RefChangesCounted, IntentsKept


------------------------------------------------------------------------------
(* The receive path implements AtomicPush *)

\* What the client of a session was told.
LEMMA ToldAt ==
  ASSUME NEW p \in Push
  PROVE  Told[p] = IF worker[p] = "committed" THEN "committed"
                   ELSE IF worker[p] \in Refused THEN "refused"
                   ELSE IF worker[p] \in Lost THEN "unclear" ELSE "nothing"
BY DEF Told, Refused, Lost

\* ... and is told after the step.
LEMMA ToldNext ==
  ASSUME NEW p \in Push
  PROVE  Told'[p] = IF worker'[p] = "committed" THEN "committed"
                    ELSE IF worker'[p] \in Refused THEN "refused"
                    ELSE IF worker'[p] \in Lost THEN "unclear" ELSE "nothing"
BY DEF Told, Refused, Lost

\* No client learns anything.
LEMMA ToldSame ==
  ASSUME \A p \in Push : \/ worker'[p] = worker[p]
                         \/ worker[p] \in Refused /\ worker'[p] \in Refused
                         \/ /\ worker[p] \notin Refused \cup Lost \cup {"committed"}
                            /\ worker'[p] \notin Refused \cup Lost \cup {"committed"}
  PROVE  Told' = Told
<1>1. \A p \in Push : Told'[p] = Told[p]
  BY ToldAt, ToldNext DEF Refused, Lost
<1> QED BY <1>1 DEF Told

\* One client is told what happened.
LEMMA TellStep ==
  ASSUME NEW p \in Push, UNCHANGED <<refs, cmds, landed>>,
         \A q \in Push \ {p} : worker'[q] = worker[q],
         worker[p] \notin Refused \cup Lost \cup {"committed"},
         \/ worker'[p] = "committed" /\ p \in landed
         \/ worker'[p] \in Refused /\ p \notin landed
         \/ worker'[p] \in Lost
  PROVE  Abstract!Tell(p)
<1> DEFINE s == IF p \in landed THEN "committed" ELSE "refused"
           r == IF worker'[p] \in Lost THEN "unclear" ELSE s
<1>1. Told[p] = "nothing" /\ Told'[p] = r
  BY ToldAt, ToldNext DEF Refused, Lost
<1>2. \A q \in Push \ {p} : Told'[q] = Told[q]
  BY ToldAt, ToldNext
<1>3. Told' = [Told EXCEPT ![p] = r]
  BY <1>1, <1>2 DEF Told
<1> QED BY <1>1, <1>3 DEF Abstract!Tell

\* An answer tells the truth or nothing new.
LEMMA AnswerRefines ==
  ASSUME TypeOK, NEW by, NEW t \in Push, NEW s, Answer(by, t, s),
         UNCHANGED <<refs, cmds, landed>>,
         \/ s \in Lost
         \/ s = "committed" /\ t \in landed
         \/ s \in Refused /\ t \notin landed
  PROVE  [Abstract!ANext]_(Abstract!avars)
<1>1. /\ worker'[t] \in {worker[t], s}
      /\ worker'[t] # worker[t] => worker[t] \in {"finalizing", "reconciling"}
      /\ \A q \in Push \ {t} : worker'[q] = worker[q]
  BY AnswerEffect
<1>2. CASE worker'[t] = worker[t]
  <2>1. Told' = Told
    BY <1>1, <1>2, ToldSame
  <2> QED BY <2>1 DEF Abstract!avars
<1>3. CASE worker'[t] # worker[t]
  <2>1. Abstract!Tell(t)
    BY <1>1, <1>3, TellStep DEF Refused, Lost
  <2> QED BY <2>1 DEF Abstract!ANext
<1> QED BY <1>2, <1>3

\* Worker steps.
LEMMA WorkerRefines ==
  ASSUME ReceiveInv, RecoveryInv, NEW p \in Push, WorkerStep(p)
  PROVE  [Abstract!ANext]_(Abstract!avars)
<1>0. TypeOK /\ SessionPlaced /\ PushAt(p)
  BY DEF ReceiveInv, RecoveryInv
<1>1. CASE Preflight(p)
  <2>1. p \notin landed
    BY <1>0, <1>1, EarlyPush DEF Preflight, Early
  <2>2. Told[p] = "nothing"
    BY <1>1, ToldAt DEF Preflight, Refused, Lost
  <2>3. Told' = Told
    <3>1. worker'[p] \in {"staging", "aborting"} /\ \A q \in Push \ {p} : worker'[q] = worker[q]
      BY <1>0, <1>1 DEF Preflight, TypeOK
    <3> QED BY <1>1, <3>1, ToldSame DEF Preflight, Refused, Lost
  <2>4. PICK c \in Commands(p) : cmds' = [cmds EXCEPT ![p] = c]
    BY <1>1 DEF Preflight
  <2>5. c \in Abstract!AnyCommands
    BY CommandsTyped DEF Abstract!AnyCommands, AllCommands, Oid
  <2>6. Abstract!Ask(p)
    BY <1>1, <2>1, <2>2, <2>3, <2>4, <2>5 DEF Preflight, durable, Abstract!Ask
  <2> QED BY <2>6 DEF Abstract!ANext
<1>2. CASE AbortReceive(p)
  <2>1. p \notin landed
    BY <1>0, <1>2, EarlyPush DEF AbortReceive, Early
  <2>2. \A q \in Push \ {p} : worker'[q] = worker[q]
    BY <1>0, <1>2 DEF AbortReceive, TypeOK
  <2>3. CASE worker' = worker
    BY <1>2, <2>3, ToldSame DEF AbortReceive, Abstract!avars
  <2>4. CASE worker' # worker
    <3>1. worker'[p] \in {"cleanup", "failed"}
      BY <1>0, <1>2, <2>4 DEF AbortReceive, TypeOK
    <3>2. Abstract!Tell(p)
      BY <1>2, <2>1, <2>2, <3>1, TellStep DEF AbortReceive, Refused, Lost
    <3> QED BY <3>2 DEF Abstract!ANext
  <2> QED BY <2>3, <2>4
<1>3. CASE ReconcileFails(p)
  <2>1. /\ UNCHANGED <<refs, cmds, landed>> /\ worker[p] = "reconciling"
        /\ worker'[p] = "unknown" /\ \A q \in Push \ {p} : worker'[q] = worker[q]
    BY <1>0, <1>3 DEF ReconcileFails, durable, TypeOK
  <2>2. Abstract!Tell(p)
    BY <2>1, TellStep DEF Refused, Lost
  <2> QED BY <2>2 DEF Abstract!ANext
<1>4. CASE ~Preflight(p) /\ ~AbortReceive(p) /\ ~ReconcileFails(p)
  <2>1. UNCHANGED <<refs, cmds, landed>>
    BY <1>4 DEF WorkerStep, BeginReceive, BeginRefused, StagePack, GiveUp,
       CleanupStagedPack, CallFinalize, FinalizeFails, durable, session
  <2>2. \A q \in Push : \/ worker'[q] = worker[q]
                        \/ worker[q] \in Refused /\ worker'[q] \in Refused
                        \/ /\ worker[q] \notin Refused \cup Lost \cup {"committed"}
                           /\ worker'[q] \notin Refused \cup Lost \cup {"committed"}
    BY <1>0, <1>4 DEF WorkerStep, BeginReceive, BeginRefused, StagePack, GiveUp,
       CleanupStagedPack, Refusals, CallFinalize, FinalizeFails, session,
       TypeOK, Refused, Lost
  <2> QED BY <2>1, <2>2, ToldSame DEF Abstract!avars
<1> QED BY <1>1, <1>2, <1>3, <1>4

\* Publishing a push that is not published is the abstract publication.
LEMMA LandStep ==
  ASSUME ReceiveInv, RecoveryInv, NEW t \in Push, t \notin landed,
         intents[t] # NoIntent \/ lease.token = t,
         worker[t] \in Sent, Valid(refs, cmds[t]),
         refs' = Apply(refs, cmds[t]), landed' = landed \cup {t},
         UNCHANGED <<worker, cmds>>
  PROVE  Abstract!Land(t)
<1>1. LandedAt(t)
  BY DEF RecoveryInv, PushAt
<1>2. Told[t] \in {"nothing", "unclear"}
  BY <1>1, ToldAt DEF LandedAt, Sent, Refused, Lost
<1>3. Told' = Told
  BY ToldSame
<1>4. Abstract!Holds(cmds[t])
  BY DEF Valid, Abstract!Holds
<1>5. refs' = Abstract!Published(cmds[t])
  BY DEF Apply, Abstract!Published
<1> QED BY <1>2, <1>3, <1>4, <1>5 DEF Abstract!Land

\* Handler steps.
LEMMA HandlerRefines ==
  ASSUME ReceiveInv, ReceiveInv', RecoveryInv, HandlerStep, NEW t \in Push, t = h.token
  PROVE  [Abstract!ANext]_(Abstract!avars)
<1>0. /\ TypeOK /\ TypeOK' /\ HandlerPlaced /\ HandlerDone /\ h # Idle /\ lease.token = t
      /\ SessionAt(t) /\ IntentAt(t) /\ LandedAt(t)
  BY HandlerServes DEF RecoveryInv, ReceiveInv, SessionPlaced, PushAt
<1>1. worker[t] \in Sent
  BY <1>0 DEF SessionAt, Untouched, TypeOK, WorkerStates, Early, Refused, Sent
<1>2. CASE PublishRefs
  <2>1. UNCHANGED <<worker, cmds>> /\ Told' = Told
    BY <1>2, ToldSame DEF PublishRefs, session
  <2>2. CASE t \in landed
    BY <1>2, <2>1, <2>2, PublishOnce DEF Abstract!avars
  <2>3. CASE t \notin landed
    <3>1. Abstract!Land(t)
      BY <1>0, <1>1, <1>2, <2>1, <2>3, PublishOnce, LandStep
    <3> QED BY <3>1 DEF Abstract!ANext
  <2> QED BY <2>2, <2>3
<1>3. CASE WriteIntent
  <2>0. t \notin landed /\ UNCHANGED <<refs, cmds, landed>>
    BY <1>0, <1>3 DEF WriteIntent, HandlerPlaced, LandedAt
  <2>1. CASE UNCHANGED worker
    BY <2>0, <2>1, ToldSame DEF Abstract!avars
  <2>2. CASE ~UNCHANGED worker
    <3>1. Answer(h.by, t, "conflict") \/ Answer(h.by, t, "mismatch")
      BY <1>0, <1>3, <2>2 DEF WriteIntent
    <3> QED BY <1>0, <2>0, <3>1, AnswerRefines DEF Refused, Lost
  <2> QED BY <2>1, <2>2
<1>4. CASE ReleaseLease
  <2>1. t \in landed
    BY <1>0, <1>4 DEF ReleaseLease, HandlerPlaced, LandedAt
  <2> QED BY <1>0, <1>4, <2>1, AnswerRefines DEF ReleaseLease
<1>5. CASE InferOutcome
  <2>0. /\ intents[t] = NoIntent /\ outcomes[t] = "none" /\ catalog[t] = 0
        /\ t \notin landed /\ UNCHANGED <<refs, cmds>>
    BY <1>0, <1>5 DEF InferOutcome, HandlerPlaced, SessionAt, LandedAt
  <2>1. CASE UNCHANGED landed
    <3>1. CASE UNCHANGED worker
      BY <2>0, <2>1, <3>1, ToldSame DEF Abstract!avars
    <3>2. CASE ~UNCHANGED worker
      <4>1. Answer(h.by, t, "unknown") \/ Answer(h.by, t, "cleanup")
        BY <1>0, <1>5, <3>2 DEF InferOutcome
      <4> QED BY <1>0, <2>0, <2>1, <4>1, AnswerRefines DEF Refused, Lost
    <3> QED BY <3>1, <3>2
  <2>2. CASE ~UNCHANGED landed
    <3>1. /\ \A r \in DOMAIN cmds[t] : refs[r] = cmds[t][r].new
          /\ HasPack(cmds[t]) => catalog[t] # 0
          /\ landed' = landed \cup {t} /\ UNCHANGED worker
      BY <1>0, <1>5, <2>2 DEF InferOutcome
    <3>2. begRefs[t] = refs /\ Valid(begRefs[t], cmds[t])
      BY <1>0, <1>1, <2>0 DEF LandedAt
    <3>3. DOMAIN cmds[t] = {}
      BY <2>0, <3>1, <3>2 DEF Valid, HasPack
    <3>4. refs' = Apply(refs, cmds[t]) /\ Valid(refs, cmds[t])
      BY <1>0, <2>0, <3>2, <3>3 DEF Apply, TypeOK, Refs
    <3>5. Abstract!Land(t)
      BY <1>0, <1>1, <2>0, <3>1, <3>4, LandStep
    <3> QED BY <3>5 DEF Abstract!ANext
  <2> QED BY <2>1, <2>2
<1>6. CASE ~PublishRefs /\ ~WriteIntent /\ ~ReleaseLease /\ ~InferOutcome
  <2>1. UNCHANGED <<refs, cmds, landed, worker>>
    BY <1>6 DEF HandlerStep, PriorOutcome, ActivatePack, AdvanceSequence, AdvancePackset,
       RecordOutcome, RequestCompaction, DeleteIntent, session
  <2> QED BY <2>1, ToldSame DEF Abstract!avars
<1> QED BY <1>2, <1>3, <1>4, <1>5, <1>6

\* Every step is a step of AtomicPush or changes nothing that it speaks of.
LEMMA StepRefines ==
  ReceiveInv /\ ReceiveInv' /\ RecoveryInv /\ [Next]_vars => [Abstract!ANext]_(Abstract!avars)
<1> SUFFICES ASSUME ReceiveInv, ReceiveInv', RecoveryInv, [Next]_vars
             PROVE  [Abstract!ANext]_(Abstract!avars)
  OBVIOUS
<1>0. TypeOK /\ TypeOK' /\ HandlerPlaced
  BY DEF ReceiveInv
<1>1. CASE UNCHANGED vars
  BY <1>1, ToldSame DEF vars, Abstract!avars
<1>2. ASSUME NEW p \in Push, WorkerStep(p) PROVE [Abstract!ANext]_(Abstract!avars)
  BY <1>2, WorkerRefines
<1>3. ASSUME NEW p \in Push, FinalizeReceive(p) \/ ReconcileReceive(p)
      PROVE  [Abstract!ANext]_(Abstract!avars)
  <2>0. UNCHANGED <<refs, cmds, landed>>
    BY <1>3 DEF FinalizeReceive, ReconcileReceive
  <2>1. CASE UNCHANGED worker
    BY <2>0, <2>1, ToldSame DEF Abstract!avars
  <2>2. CASE ~UNCHANGED worker
    <3>1. \E by, s : s \in {"mismatch", "unknown"} /\ Answer(by, p, s)
      BY <1>3, <2>2 DEF FinalizeReceive, ReconcileReceive
    <3> QED BY <1>0, <2>0, <3>1, AnswerRefines DEF Lost
  <2> QED BY <2>1, <2>2
<1>4. CASE HandlerStep
  BY <1>0, <1>4, HandlerServes, HandlerRefines
<1>5. CASE AdminSetRefs
  <2>1. Told' = Told
    BY <1>5, ToldSame DEF AdminSetRefs, session
  <2>2. refs' \in [Ref -> Push \cup {None}]
    BY <1>0 DEF TypeOK, Refs, Oid
  <2>3. Abstract!Overwrite
    BY <1>5, <2>1, <2>2 DEF AdminSetRefs, session, Abstract!Overwrite
  <2> QED BY <2>3 DEF Abstract!ANext
<1>6. CASE AlarmStep \/ LeaseExpires \/ LoseCall \/ Crash \/ AdminSetHead \/ GetHead
  <2>1. UNCHANGED <<refs, cmds, landed, worker>>
    BY <1>6 DEF AlarmStep, ResumeFinalize, ClearExpiredLease, LeaseExpires, LoseCall,
       Crash, AdminSetHead, GetHead, durable, session
  <2> QED BY <2>1, ToldSame DEF Abstract!avars
<1> QED BY <1>1, <1>2, <1>3, <1>4, <1>5, <1>6 DEF Next

\* The receive path implements AtomicPush: every push is published at most once,
\* at one instant, against the old values it names; "ok" is answered only if it
\* landed, a conflict or a confirmed abort only if it never does - whatever is
\* evicted, lost, late or repeated.  The report of an unknown outcome
\* (streamReceivePack.ts:267) is outside the promise.
THEOREM ImplementsAtomic == Spec => ImplementsAtomicPush
<1>1. Init => Abstract!AInit
  <2> SUFFICES ASSUME Init PROVE Abstract!AInit
    OBVIOUS
  <2>1. Told = [p \in Push |-> "nothing"]
    BY DEF Init, Told
  <2> QED BY <2>1 DEF Init, NoCommands, Abstract!AInit
<1> QED BY <1>1, StepRefines, ReceiveInvariant, RecoveryInvariant, PTL
        DEF Spec, ImplementsAtomicPush, Abstract!ASpec


=============================================================================
