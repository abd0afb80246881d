------------------------- MODULE ReachabilityGcProofs -------------------------
(***************************************************************************)
(* ReachabilityGc, for any pushes, refs, operations and faults: the record *)
(* of a collection is true, and the catalog keeps what the refs reach.     *)
(***************************************************************************)
EXTENDS ReachabilityGc, TLAPS

------------------------------------------------------------------------------
(* The inductive invariant                                                   *)

Mixed == [pushes : SUBSET Push, thin : SUBSET Push, ops : SUBSET Op, late : BOOLEAN,
          edits : Nat, faults : Nat]

StoreTypes ==
  /\ refs \in [Ref -> Oid] /\ refsVersion \in Nat /\ packset \in Nat
  /\ rows \in [Pack -> {"none", "active", "superseded"}]
  /\ bucket \subseteq Pack /\ staging \subseteq {"input", "receipt"} \X Op
  /\ below \in [Push -> SUBSET Push] /\ base \in [Push -> Oid]
  /\ held \in [Op -> SUBSET Push] /\ mix \in Mixed

ReceiveTypes ==
  /\ rlease \in [token : Oid, age : Ages] /\ push \in [Push -> PushStates]
  /\ plan \in [Push -> Plans \cup {NoPlan}] /\ handler \in Oid
  /\ rlease.token = None <=> rlease.age = "none"

GcTypes ==
  /\ op \in Operation /\ admitted \subseteq Op
  /\ clease \in [token : Claim \cup {None}, age : Ages]
  /\ pending \in Op \cup {None} /\ worker \in [Claim -> Workers]
  /\ native \in [claim : Claim, op : Op] \cup {NoJob}
  /\ clease.token = None <=> clease.age = "none"
  /\ op.claim = None <=> op.age = "none"

\* An intent has the receive lease, live unless the alarm comes late, and so has
\* the push whose finalization runs.
LeaseOK ==
  \A p \in Push :
    /\ HasIntent(p) => rlease.token = p /\ (~mix.late => rlease.age = "live")
    /\ push[p] = "proved" => handler = p
    /\ handler = p => /\ push[p] = "proved" \/ HasIntent(p)
                      /\ rlease.token = p /\ rlease.age = "live"

\* What a finalization planned is still so.
PlanOK ==
  \A p \in Push :
    /\ push[p] \in {"staged", "proved"} \/ HasIntent(p) => plan[p] \in Plans
    /\ push[p] \in {"proved", "intent", "active", "counted"} => plan[p].expected = refsVersion
    /\ push[p] \in {"proved", "intent", "active"} => plan[p].packset = packset + 1
    /\ push[p] = "active" => HasPack(p)
    /\ push[p] = "counted" /\ HasPack(p) => plan[p].packset = packset

\* The catalog lists only packs that landed, and what it lists is stored.
RowsOK ==
  /\ \A p \in Push :
       /\ rows[p] # "none" => push[p] \in {"active", "counted", "moved", "done"}
       /\ push[p] \in {"active", "counted", "moved"} /\ HasPack(p) => rows[p] = "active"
       /\ push[p] \in {"staged", "proved", "intent"} /\ HasPack(p) => p \in bucket
  /\ \A k \in Pack : rows[k] = "active" => k \in bucket

OperationOK ==
  /\ op.id = None \/ op.id \in admitted
  /\ op.phase # "complete" => op.id \in Op
  /\ op.phase = "queued" => op.snapshot.token = None /\ ~op.planned
  /\ op.phase \in {"rewrite", "index", "publish", "reclaim"} => op.snapshot.token # None
  /\ op.intent => op.planned
  /\ op.phase \in {"queued", "rewrite", "index"} => ~op.indexed
  /\ op.phase = "index" \/ (op.phase = "publish" /\ op.indexed) => op.intent
  /\ op.phase \in {"complete", "blocked"} => op.claim = None /\ ~op.intent
  /\ op.waiting => op.phase = "discard" /\ op.claim = None

\* An operation has stored nothing.
Clean(o) == o \notin bucket /\ Input(o) \notin staging /\ Receipt(o) \notin staging

\* The phase in which a Worker takes a step.
PhaseAt(pc) ==
  IF pc \in {"queued", "begun"} THEN "queued"
  ELSE IF pc \in {"rewrite", "upload", "uploading", "uploaded"} THEN "rewrite"
  ELSE IF pc \in {"index", "native"} THEN "index"
  ELSE IF pc = "publish" THEN "publish"
  ELSE IF pc \in {"reclaim", "reclaimed"} THEN "reclaim"
  ELSE "discard"

\* Only the Worker of a claim that has not drained does anything, but for one
\* whose publication was helped.
WorkersOK ==
  \A c \in Claim :
    worker[c].pc \notin {"gone", "commit"} =>
      /\ op.claim = c /\ op.age \in {"live", "expired"} /\ op.id = worker[c].op
      /\ op.phase = PhaseAt(worker[c].pc)
      /\ worker[c].pc \in {"upload", "uploading", "uploaded"} => op.planned
      /\ worker[c].pc \in {"uploading", "uploaded"} => op.intent
      /\ worker[c].pc = "begun" => worker[c].snapshot.token = c
      /\ worker[c].pc = "publish" => op.armed # c
      /\ worker[c].pc = "deleted" => Clean(op.id)

\* So does the job of its Container, unless the discard waits for it.
NativeOK ==
  native # NoJob =>
    /\ native.op = op.id /\ op.intent /\ Receipt(op.id) \notin staging
    /\ \/ op.phase = "index" /\ op.claim = native.claim /\ op.age \in {"live", "expired"}
       \/ op.phase = "discard" /\ op.waiting

\* What an operation may have stored.
OutputsOK ==
  /\ \A o \in Op \ admitted : Clean(o) /\ rows[o] = "none"
  /\ op.phase # "complete" /\ ~op.intent => Clean(op.id)
  /\ op.phase \notin {"reclaim", "complete"} =>
       /\ rows[op.id] = "none"
       /\ Receipt(op.id) \in staging => op.id \in bucket
  /\ op.phase = "publish" /\ op.indexed => op.id \in bucket

BlockedOK ==
  op.phase = "blocked" =>
    (clease.token = None \/ clease.token # op.snapshot.token) /\ pending # op.id

\* The versions a collection has accounted for.
AccountsOK ==
  OwnsSource =>
    /\ (\A p \in Push : ~HasIntent(p)) => VersionsMatch
    /\ \A p \in Push :
         /\ push[p] \in {"intent", "active", "counted"} => op.refsVersion = refsVersion
         /\ push[p] \in {"intent", "active"} => op.packset = packset
         /\ push[p] = "counted" /\ ~HasPack(p) => op.packset = packset
         /\ push[p] = "moved" => VersionsMatch

\* A commit that anything names was pushed.
Seen(p) == push[p] \notin {"idle", "leased"}

SeenOK ==
  /\ \A n \in Ref : /\ refs[n] # None => Seen(refs[n])
                    /\ op.snapshot.refs[n] # None => Seen(op.snapshot.refs[n])
                    /\ \A c \in Claim : worker[c].snapshot.refs[n] # None =>
                         Seen(worker[c].snapshot.refs[n])
  /\ \A p \in Push : /\ \A q \in below[p] : Seen(q)
                     /\ plan[p].new # None => Seen(plan[p].new)
  /\ \A o \in Op : \A q \in held[o] : Seen(q)

HistoryOK ==
  /\ \A p \in Push : \A q \in below[p] : below[q] \subseteq below[p]
  /\ mix.thin = {} => \A p \in Push : base[p] = None

\* The output, or the source that is kept for it, is the closure.
TargetOK ==
  /\ op.intent /\ op.phase \in {"rewrite", "index", "publish"} => held[op.id] = GcClosure
  /\ op.phase = "publish" /\ ~op.indexed =>
       \/ op.target = None /\ GcClosure = {}
       \/ op.target \in op.snapshot.sources /\ Holds(op.target) = GcClosure

\* The packs are self-contained and no intent meets a snapshot.
Calm == mix.thin = {} /\ ~mix.late

\* The Worker of c has a snapshot that it can still record.
Begun(c) == worker[c].pc = "begun" /\ clease.token = c /\ clease.age = "live"

BegunOK ==
  Calm => \A c \in Claim : Begun(c) =>
    /\ worker[c].snapshot.refs = refs /\ worker[c].snapshot.sources = Active
    /\ rlease.age # "live"

SourceOK ==
  Calm /\ OwnsSource => \A p \in Push : /\ p \in op.snapshot.sources => push[p] = "done"
                                        /\ push[p] = "proved" => plan[p].proof # "none"

IsServed(x) == \E k \in Pack : rows[k] = "active" /\ x \in Holds(k)

\* Push p may still land.
MayLand(p) ==
  /\ push[p] \in {"staged", "proved", "intent", "active", "counted"}
  /\ rlease.token = p /\ rlease.age = "live"

\* The catalog is closed, with the refs and with a push that may land.
ServedOK ==
  Calm =>
    /\ \A n \in Ref : refs[n] # None => IsServed(refs[n])
    /\ \A x \in Push : IsServed(x) => \A y \in below[x] : IsServed(y)
    /\ \A p \in Push : MayLand(p) =>
            /\ HasPack(p) => \A y \in below[p] : IsServed(y)
            /\ plan[p].new \notin {p, None} => IsServed(plan[p].new)

IsOutside(x) ==
  \E k \in Pack : rows[k] = "active" /\ k \notin op.snapshot.sources /\ x \in Holds(k)

IsKept(x) == x \in GcClosure \/ IsOutside(x)

\* The collection is about to drop its sources, and push p has passed it.
Collects == Calm /\ OwnsSource /\ ~op.retained

Passed(p) ==
  push[p] \in {"intent", "active", "counted"} \/ (push[p] = "proved" /\ plan[p].proof = "clean")

\* So is what is left when the closure replaces the sources, unless they are
\* retained.
KeptOK ==
  Collects =>
    /\ \A n \in Ref : refs[n] # None => IsKept(refs[n])
    /\ \A x \in Push : IsOutside(x) => \A y \in below[x] : IsKept(y)
    /\ \A p \in Push : Passed(p) =>
            /\ HasPack(p) => \A y \in below[p] : IsKept(y)
            /\ plan[p].new \notin {p, None} => IsKept(plan[p].new)

GcInv ==
  /\ StoreTypes /\ ReceiveTypes /\ GcTypes /\ LeaseOK /\ PlanOK /\ RowsOK /\ OperationOK
  /\ WorkersOK /\ NativeOK /\ OutputsOK /\ BlockedOK /\ AccountsOK /\ SeenOK /\ HistoryOK
  /\ TargetOK /\ BegunOK /\ SourceOK /\ ServedOK /\ KeptOK
------------------------------------------------------------------------------
(* Values                                                                    *)

\* Names of different kinds differ.
LEMMA Names ==
  /\ None \notin Push /\ None \notin Op /\ None \notin Claim
  /\ \A p \in Push : p \notin Op
BY NamesAssumption

\* What nothing is.
LEMMA Nothings ==
  /\ NoLease \in [token : Oid, age : Ages] /\ NoLease \in [token : Claim \cup {None}, age : Ages]
  /\ NoLease.token = None /\ NoLease.age = "none"
  /\ NoJob.claim = None /\ NoJob.op = None
  /\ NoSnapshot \in Snapshots /\ NoSnapshot.token = None /\ NoSnapshot.sources = {}
  /\ \A n \in Ref : NoSnapshot.refs[n] = None
  /\ Gone.pc = "gone" /\ Gone.op = None /\ Gone.snapshot = NoSnapshot /\ Gone \in Workers
  /\ NoPlan.new = None /\ NoPlan.proof = "none" /\ NoPlan.ref = None
BY DEF NoLease, Ages, Oid, NoJob, NoSnapshot, Snapshots, Gone, Workers, NoPlan

\* A new operation has neither claim nor snapshot.
LEMMA NewFields ==
  ASSUME NEW o \in Op \cup {None}
  PROVE  /\ NewOperation(o) \in Operation /\ NewOperation(o).id = o
         /\ NewOperation(o).phase = "queued" /\ NewOperation(o).claim = None
         /\ NewOperation(o).age = "none" /\ NewOperation(o).snapshot = NoSnapshot
         /\ ~NewOperation(o).retained /\ ~NewOperation(o).planned /\ ~NewOperation(o).intent
         /\ ~NewOperation(o).indexed /\ ~NewOperation(o).waiting
<1>1. NewOperation(o).retained = FALSE /\ NewOperation(o).planned = FALSE
  BY Zenon DEF NewOperation
<1>2. NewOperation(o).intent = FALSE /\ NewOperation(o).indexed = FALSE
  BY Zenon DEF NewOperation
<1>3. NewOperation(o).waiting = FALSE
  BY Zenon DEF NewOperation
<1> QED BY <1>1, <1>2, <1>3, Nothings DEF NewOperation, Operation, Phases, Ages

\* An operation without its claim is the same otherwise.
LEMMA UnclaimedFields ==
  ASSUME NEW o \in Operation
  PROVE  /\ Unclaimed(o) \in Operation /\ Unclaimed(o).claim = None /\ Unclaimed(o).age = "none"
         /\ Unclaimed(o).id = o.id /\ Unclaimed(o).phase = o.phase
         /\ Unclaimed(o).snapshot = o.snapshot /\ Unclaimed(o).refsVersion = o.refsVersion
         /\ Unclaimed(o).packset = o.packset /\ (Unclaimed(o).retained <=> o.retained)
         /\ (Unclaimed(o).planned <=> o.planned) /\ Unclaimed(o).target = o.target
         /\ (Unclaimed(o).intent <=> o.intent) /\ (Unclaimed(o).indexed <=> o.indexed)
         /\ (Unclaimed(o).waiting <=> o.waiting) /\ Unclaimed(o).armed = o.armed
BY DEF Unclaimed, Operation, Ages

\* So is one in another phase.
LEMMA MoveToFields ==
  ASSUME NEW o \in Operation, NEW ph \in Phases
  PROVE  /\ MoveTo(o, ph) \in Operation /\ MoveTo(o, ph).claim = None
         /\ MoveTo(o, ph).age = "none" /\ MoveTo(o, ph).phase = ph
         /\ MoveTo(o, ph).id = o.id /\ MoveTo(o, ph).snapshot = o.snapshot
         /\ MoveTo(o, ph).refsVersion = o.refsVersion /\ MoveTo(o, ph).packset = o.packset
         /\ (MoveTo(o, ph).retained <=> o.retained) /\ (MoveTo(o, ph).planned <=> o.planned)
         /\ MoveTo(o, ph).target = o.target /\ (MoveTo(o, ph).intent <=> o.intent)
         /\ (MoveTo(o, ph).indexed <=> o.indexed) /\ (MoveTo(o, ph).waiting <=> o.waiting)
         /\ MoveTo(o, ph).armed = o.armed
<1>1. Unclaimed(o) \in Operation /\ MoveTo(o, ph) = [Unclaimed(o) EXCEPT !.phase = ph]
  BY UnclaimedFields DEF MoveTo
<1>2. /\ [Unclaimed(o) EXCEPT !.phase = ph] \in Operation
      /\ [Unclaimed(o) EXCEPT !.phase = ph].phase = ph
      /\ [Unclaimed(o) EXCEPT !.phase = ph].id = Unclaimed(o).id
      /\ [Unclaimed(o) EXCEPT !.phase = ph].claim = Unclaimed(o).claim
      /\ [Unclaimed(o) EXCEPT !.phase = ph].age = Unclaimed(o).age
      /\ [Unclaimed(o) EXCEPT !.phase = ph].snapshot = Unclaimed(o).snapshot
      /\ [Unclaimed(o) EXCEPT !.phase = ph].refsVersion = Unclaimed(o).refsVersion
      /\ [Unclaimed(o) EXCEPT !.phase = ph].packset = Unclaimed(o).packset
      /\ ([Unclaimed(o) EXCEPT !.phase = ph].retained <=> Unclaimed(o).retained)
      /\ ([Unclaimed(o) EXCEPT !.phase = ph].planned <=> Unclaimed(o).planned)
      /\ [Unclaimed(o) EXCEPT !.phase = ph].target = Unclaimed(o).target
      /\ ([Unclaimed(o) EXCEPT !.phase = ph].intent <=> Unclaimed(o).intent)
      /\ ([Unclaimed(o) EXCEPT !.phase = ph].indexed <=> Unclaimed(o).indexed)
      /\ ([Unclaimed(o) EXCEPT !.phase = ph].waiting <=> Unclaimed(o).waiting)
      /\ [Unclaimed(o) EXCEPT !.phase = ph].armed = Unclaimed(o).armed
      /\ [Unclaimed(o) EXCEPT !.phase = ph].claim = Unclaimed(o).claim
      /\ [Unclaimed(o) EXCEPT !.phase = ph].age = Unclaimed(o).age
  BY <1>1 DEF Operation
<1> QED BY <1>1, <1>2, UnclaimedFields

\* A discard waits for the claim that decided it.
LEMMA DiscardsFields ==
  ASSUME NEW o \in Operation
  PROVE  /\ Discards(o) \in Operation /\ Discards(o).claim = None /\ Discards(o).age = "none"
         /\ Discards(o).phase = "discard" /\ Discards(o).waiting
         /\ Discards(o).id = o.id /\ Discards(o).snapshot = o.snapshot
         /\ Discards(o).refsVersion = o.refsVersion /\ Discards(o).packset = o.packset
         /\ (Discards(o).retained <=> o.retained) /\ (Discards(o).planned <=> o.planned)
         /\ Discards(o).target = o.target /\ (Discards(o).intent <=> o.intent)
         /\ (Discards(o).indexed <=> o.indexed) /\ Discards(o).armed = o.armed
<1> DEFINE m == MoveTo(o, "discard")
<1>1. /\ m \in Operation /\ m.claim = None /\ m.age = "none" /\ m.phase = "discard"
      /\ m.id = o.id /\ m.snapshot = o.snapshot /\ m.refsVersion = o.refsVersion
      /\ m.packset = o.packset /\ (m.retained <=> o.retained) /\ (m.planned <=> o.planned)
      /\ m.target = o.target /\ (m.intent <=> o.intent) /\ (m.indexed <=> o.indexed)
      /\ (m.waiting <=> o.waiting) /\ m.armed = o.armed
  BY MoveToFields DEF Phases
<1>2. Discards(o) = [m EXCEPT !.waiting = TRUE]
  BY DEF Discards
<1> HIDE DEF m
<1>3. Discards(o).waiting = TRUE
  BY <1>1, <1>2 DEF Operation
<1>4. Discards(o) \in Operation
  BY <1>1, <1>2 DEF Operation
<1>5. /\ Discards(o).claim = m.claim /\ Discards(o).age = m.age /\ Discards(o).phase = m.phase
      /\ Discards(o).id = m.id /\ Discards(o).snapshot = m.snapshot
      /\ Discards(o).refsVersion = m.refsVersion /\ Discards(o).packset = m.packset
      /\ (Discards(o).retained <=> m.retained) /\ (Discards(o).planned <=> m.planned)
      /\ Discards(o).target = m.target /\ (Discards(o).intent <=> m.intent)
      /\ (Discards(o).indexed <=> m.indexed) /\ Discards(o).armed = m.armed
  BY <1>1, <1>2 DEF Operation
<1> QED BY <1>1, <1>3, <1>4, <1>5

\* An ended operation keeps its name and its snapshot.
LEMMA EndedFields ==
  ASSUME NEW o \in Operation, NEW ph \in Phases
  PROVE  /\ Ended(o, ph) \in Operation /\ Ended(o, ph).id = o.id /\ Ended(o, ph).phase = ph
         /\ Ended(o, ph).claim = None /\ Ended(o, ph).age = "none"
         /\ Ended(o, ph).snapshot = o.snapshot
         /\ ~Ended(o, ph).retained /\ ~Ended(o, ph).planned /\ ~Ended(o, ph).intent
         /\ ~Ended(o, ph).indexed /\ ~Ended(o, ph).waiting
<1> DEFINE m == NewOperation(o.id)
<1>1. o.id \in Op \cup {None} /\ o.snapshot \in Snapshots /\ o.superseded \in SUBSET Pack
  BY DEF Operation
<1>2. /\ m \in Operation /\ m.id = o.id /\ m.claim = None /\ m.age = "none"
      /\ ~m.retained /\ ~m.planned /\ ~m.intent /\ ~m.indexed /\ ~m.waiting
  BY <1>1, NewFields
<1>3. Ended(o, ph) = [m EXCEPT !.phase = ph, !.snapshot = o.snapshot, !.superseded = o.superseded]
  BY DEF Ended
<1> HIDE DEF m
<1> QED BY <1>1, <1>2, <1>3 DEF Operation

\* A Worker that leaves.
LEMMA LeavesEffects ==
  ASSUME NEW c \in Claim, worker \in [Claim -> Workers], Leaves(c)
  PROVE  /\ worker' \in [Claim -> Workers] /\ \A d \in Claim : d # c => worker'[d] = worker[d]
         /\ worker'[c].pc = "gone" /\ worker'[c].snapshot = NoSnapshot
BY Nothings DEF Leaves

\* A Worker that goes on.
LEMMA StepEffects ==
  ASSUME NEW c \in Claim, NEW s \in WorkerSteps, worker \in [Claim -> Workers],
         worker[c].pc # "gone", Step(c, s)
  PROVE  /\ worker' \in [Claim -> Workers] /\ \A d \in Claim : d # c => worker'[d] = worker[d]
         /\ worker'[c].pc = s /\ worker'[c].op = worker[c].op
         /\ worker'[c].snapshot = worker[c].snapshot
<1>1. worker[c] \in [op : Op, pc : WorkerSteps, snapshot : Snapshots]
  BY Nothings DEF Workers
<1>2. /\ [worker[c] EXCEPT !.pc = s] \in [op : Op, pc : WorkerSteps, snapshot : Snapshots]
      /\ [worker[c] EXCEPT !.pc = s].pc = s
      /\ [worker[c] EXCEPT !.pc = s].op = worker[c].op
      /\ [worker[c] EXCEPT !.pc = s].snapshot = worker[c].snapshot
  BY <1>1
<1>3. worker' = [worker EXCEPT ![c] = [worker[c] EXCEPT !.pc = s]]
  BY DEF Step
<1> QED BY <1>2, <1>3 DEF Workers

\* What a closure has.
LEMMA ClosureHas ==
  ASSUME NEW W, NEW x
  PROVE  x \in Closure(W) <=> x \in W \/ \E q \in W : x \in below[q]
BY DEF Closure

\* What the refs want.
LEMMA WantsHas ==
  ASSUME NEW r, NEW x
  PROVE  x \in Wants(r) <=> x # None /\ \E n \in Ref : r[n] = x
BY DEF Wants

\* The closure of a collection is that of its snapshot.
LEMMA ClosureSame ==
  ASSUME op'.snapshot = op.snapshot, below' = below
  PROVE  GcClosure' = GcClosure
BY DEF GcClosure, Closure, Wants

\* A fault changes only how many are left.
LEMMA FaultEffects ==
  ASSUME mix \in Mixed, Fault
  PROVE  mix' \in Mixed /\ mix'.thin = mix.thin /\ (mix'.late <=> mix.late)
<1>1. mix' = [mix EXCEPT !.faults = mix.faults - 1] /\ mix.faults > 0
  BY DEF Fault
<1>2. mix.faults - 1 \in Nat
  BY <1>1 DEF Mixed
<1> QED BY <1>1, <1>2 DEF Mixed

------------------------------------------------------------------------------
(* What each part depends on                                                 *)

\* The types of what the proofs refer to most.
LEMMA Typed ==
  ASSUME StoreTypes, ReceiveTypes, GcTypes
  PROVE  /\ refs \in [Ref -> Oid] /\ op.snapshot \in Snapshots
         /\ \A d \in Claim : worker[d].snapshot \in Snapshots
         /\ below \in [Push -> SUBSET Push] /\ held \in [Op -> SUBSET Push]
         /\ \A q \in Push : plan[q].new \in Oid
BY Nothings DEF StoreTypes, ReceiveTypes, GcTypes, Operation, Workers, Plans, Oid

\* StoreTypes depends on nothing else.
LEMMA StoreTypesFrame ==
  ASSUME StoreTypes,
         UNCHANGED <<refs, refsVersion, packset, rows, bucket, staging, below, base, held, mix>>
  PROVE  StoreTypes'
BY DEF StoreTypes

\* ReceiveTypes depends on nothing else.
LEMMA ReceiveTypesFrame ==
  ASSUME ReceiveTypes,
         UNCHANGED <<rlease, push, plan, handler>>
  PROVE  ReceiveTypes'
BY DEF ReceiveTypes

\* GcTypes depends on nothing else.
LEMMA GcTypesFrame ==
  ASSUME GcTypes,
         UNCHANGED <<op, admitted, clease, pending, worker, native>>
  PROVE  GcTypes'
BY DEF GcTypes

\* LeaseOK depends on nothing else.
LEMMA LeaseOKFrame ==
  ASSUME LeaseOK,
         UNCHANGED <<push, rlease, mix, handler>>
  PROVE  LeaseOK'
BY DEF LeaseOK, HasIntent

\* PlanOK depends on nothing else.
LEMMA PlanOKFrame ==
  ASSUME PlanOK,
         UNCHANGED <<push, plan, refsVersion, packset>>
  PROVE  PlanOK'
BY DEF PlanOK, HasIntent, HasPack

\* RowsOK depends on nothing else.
LEMMA RowsOKFrame ==
  ASSUME RowsOK,
         UNCHANGED <<rows, push, plan, bucket>>
  PROVE  RowsOK'
BY DEF RowsOK, HasPack

\* OperationOK depends on nothing else.
LEMMA OperationOKFrame ==
  ASSUME OperationOK,
         UNCHANGED <<op, admitted>>
  PROVE  OperationOK'
BY DEF OperationOK

\* WorkersOK depends on nothing else.
LEMMA WorkersOKFrame ==
  ASSUME WorkersOK,
         UNCHANGED <<worker, op, bucket, staging>>
  PROVE  WorkersOK'
BY DEF WorkersOK, PhaseAt, Clean, Input, Receipt

\* NativeOK depends on nothing else.
LEMMA NativeOKFrame ==
  ASSUME NativeOK,
         UNCHANGED <<native, op, staging>>
  PROVE  NativeOK'
BY DEF NativeOK, Receipt

\* OutputsOK depends on nothing else.
LEMMA OutputsOKFrame ==
  ASSUME OutputsOK,
         UNCHANGED <<admitted, bucket, staging, rows, op>>
  PROVE  OutputsOK'
BY DEF OutputsOK, Clean, Input, Receipt

\* BlockedOK depends on nothing else.
LEMMA BlockedOKFrame ==
  ASSUME BlockedOK,
         UNCHANGED <<op, clease, pending>>
  PROVE  BlockedOK'
BY DEF BlockedOK

\* AccountsOK depends on nothing else.
LEMMA AccountsOKFrame ==
  ASSUME AccountsOK,
         UNCHANGED <<op, refsVersion, packset, push, plan>>
  PROVE  AccountsOK'
BY DEF AccountsOK, OwnsSource, HasSnapshot, VersionsMatch, HasIntent, HasPack

\* SeenOK depends on nothing else.
LEMMA SeenOKFrame ==
  ASSUME SeenOK,
         UNCHANGED <<refs, op, worker, below, plan, held, push>>
  PROVE  SeenOK'
BY DEF SeenOK, Seen

\* HistoryOK depends on nothing else.
LEMMA HistoryOKFrame ==
  ASSUME HistoryOK,
         UNCHANGED <<below, mix, base>>
  PROVE  HistoryOK'
BY DEF HistoryOK

\* TargetOK depends on nothing else.
LEMMA TargetOKFrame ==
  ASSUME TargetOK, UNCHANGED <<op, held, below>>
  PROVE  TargetOK'
BY ClosureSame DEF TargetOK, Holds

\* BegunOK depends on nothing else.
LEMMA BegunOKFrame ==
  ASSUME BegunOK,
         UNCHANGED <<mix, worker, clease, refs, rows, rlease>>
  PROVE  BegunOK'
BY DEF BegunOK, Calm, Begun, Active

\* SourceOK depends on nothing else.
LEMMA SourceOKFrame ==
  ASSUME SourceOK,
         UNCHANGED <<mix, op, push, plan>>
  PROVE  SourceOK'
BY DEF SourceOK, Calm, OwnsSource, HasSnapshot

\* ServedOK depends on nothing else.
LEMMA ServedOKFrame ==
  ASSUME ServedOK,
         UNCHANGED <<mix, refs, rows, held, below, push, plan, rlease>>
  PROVE  ServedOK'
BY DEF ServedOK, Calm, IsServed, MayLand, Holds, HasPack

\* Commits stay seen.
LEMMA SeenSoft ==
  ASSUME SeenOK, UNCHANGED <<refs, below, plan, held>>,
         op'.snapshot = op.snapshot \/ op'.snapshot = NoSnapshot,
         \A c \in Claim : \/ worker'[c].snapshot = worker[c].snapshot
                          \/ worker'[c].snapshot = NoSnapshot,
         \A p \in Push : Seen(p) => Seen(p)',
         refs \in [Ref -> Oid], op.snapshot \in Snapshots,
         \A c \in Claim : worker[c].snapshot \in Snapshots,
         below \in [Push -> SUBSET Push], held \in [Op -> SUBSET Push],
         \A p \in Push : plan[p].new \in Oid
  PROVE  SeenOK'
<1> USE DEF SeenOK
<1>1. \A n \in Ref : refs[n] # None => Seen(refs[n])'
  BY DEF Oid
<1>2. \A n \in Ref : op'.snapshot.refs[n] # None => Seen(op.snapshot.refs[n])'
  BY Nothings DEF Oid, Snapshots
<1>3. \A n \in Ref, c \in Claim :
        worker'[c].snapshot.refs[n] # None => Seen(worker[c].snapshot.refs[n])'
  BY Nothings DEF Oid, Snapshots
<1>4. \A p \in Push : /\ \A q \in below[p] : Seen(q)'
                      /\ plan[p].new # None => Seen(plan[p].new)'
  BY DEF Oid
<1>5. \A o \in Op : \A q \in held[o] : Seen(q)'
  OBVIOUS
<1> QED BY <1>1, <1>2, <1>3, <1>4, <1>5

\* Served commits stay served as long as the catalog and the packs are the same.
LEMMA ServedSoft ==
  ASSUME ServedOK, Calm' => Calm, UNCHANGED <<refs, below, plan>>,
         \A k \in Pack : rows'[k] = "active" <=> rows[k] = "active",
         \A o \in Op : rows[o] = "active" => held'[o] = held[o],
         \A p \in Push : MayLand(p)' => MayLand(p)
  PROVE  ServedOK'
<1>1. \A x : IsServed(x)' <=> IsServed(x)
  BY DEF IsServed, Holds, Pack
<1>2. \A p \in Push : HasPack(p)' <=> HasPack(p)
  BY DEF HasPack
<1> QED BY <1>1, <1>2 DEF ServedOK

\* What a collection keeps stays kept as long as its snapshot is the same too.
LEMMA KeptSoft ==
  ASSUME KeptOK, Collects' => Collects, Collects' => op'.snapshot = op.snapshot,
         UNCHANGED <<refs, below, plan>>,
         \A k \in Pack : rows'[k] = "active" <=> rows[k] = "active",
         \A o \in Op : rows[o] = "active" => held'[o] = held[o],
         \A p \in Push : Passed(p)' => Passed(p)
  PROVE  KeptOK'
<1> SUFFICES ASSUME Collects' PROVE KeptOK'
  BY DEF KeptOK
<1>1. \A x : IsOutside(x)' <=> IsOutside(x)
  BY DEF IsOutside, Holds, Pack
<1>2. \A p \in Push : HasPack(p)' <=> HasPack(p)
  BY DEF HasPack
<1>3. \A x : IsKept(x)' <=> IsKept(x)
  BY <1>1, ClosureSame DEF IsKept
<1> QED BY <1>1, <1>2, <1>3 DEF KeptOK

\* A snapshot that can still be recorded is current as long as nothing changes.
LEMMA BegunSoft ==
  ASSUME BegunOK, Calm' => Calm, UNCHANGED refs,
         \A k \in Pack : rows'[k] = "active" <=> rows[k] = "active",
         \A c \in Claim : Begun(c)' => Begun(c) /\ worker'[c].snapshot = worker[c].snapshot,
         Calm /\ rlease'.age = "live" => rlease.age = "live" \/ \A c \in Claim : ~Begun(c)'
  PROVE  BegunOK'
<1>1. Active' = Active
  BY DEF Active
<1> QED BY <1>1 DEF BegunOK

\* Sources are packs of pushes that are done.
LEMMA SourceSoft ==
  ASSUME SourceOK, Calm' => Calm, OwnsSource' => OwnsSource /\ op'.snapshot = op.snapshot,
         UNCHANGED plan,
         \A p \in Push : /\ push'[p] = "proved" => push[p] = "proved"
                         /\ push[p] = "done" => push'[p] = "done"
  PROVE  SourceOK'
BY DEF SourceOK

\* A collection's account is right as long as the versions are the same.
LEMMA AccountsSoft ==
  ASSUME AccountsOK, OwnsSource' => OwnsSource, op'.refsVersion = op.refsVersion,
         op'.packset = op.packset, UNCHANGED <<refsVersion, packset, push, plan>>
  PROVE  AccountsOK'
BY DEF AccountsOK, VersionsMatch, HasIntent, HasPack

\* KeptOK depends on nothing else.
LEMMA KeptOKFrame ==
  ASSUME KeptOK, UNCHANGED <<mix, op, rows, held, below, refs, push, plan>>
  PROVE  KeptOK'
BY KeptSoft DEF Collects, Calm, OwnsSource, HasSnapshot, Passed

\* What the catalog can be read for is served.
LEMMA ReadableServed ==
  ASSUME NEW x \in Readable
  PROVE  x \in Push /\ IsServed(x)
BY DEF Readable, IsServed, Active

\* What is served was pushed.
LEMMA ServedSeen ==
  ASSUME GcInv, NEW x, IsServed(x)
  PROVE  x \in Push /\ Seen(x)
<1>1. PICK k \in Pack : rows[k] = "active" /\ x \in Holds(k)
  BY DEF IsServed
<1>2. CASE k \in Op
  BY <1>1, <1>2 DEF GcInv, StoreTypes, SeenOK, Holds
<1>3. CASE k \notin Op
  <2>1. x = k /\ k \in Push
    BY <1>1, <1>3 DEF Holds, Pack
  <2> QED BY <1>1, <2>1 DEF GcInv, RowsOK, Seen
<1> QED BY <1>2, <1>3

\* The closure of a collection goes all the way down.
LEMMA ClosureClosed ==
  ASSUME GcInv, NEW x \in GcClosure
  PROVE  x \in Push /\ \A y \in below[x] : y \in GcClosure
<1>1. op.snapshot.refs \in [Ref -> Oid] /\ below \in [Push -> SUBSET Push]
  BY Typed DEF GcInv, Snapshots
<1>2. Wants(op.snapshot.refs) \subseteq Push
  BY <1>1 DEF Wants, Oid
<1>3. PICK q \in Wants(op.snapshot.refs) : x = q \/ x \in below[q]
  BY DEF GcClosure, Closure
<1>4. x \in Push /\ below[x] \subseteq below[q]
  BY <1>1, <1>2, <1>3 DEF GcInv, HistoryOK
<1> QED BY <1>3, <1>4 DEF GcClosure, Closure

\* So does what a collection keeps.
LEMMA KeptClosed ==
  ASSUME GcInv, Collects, NEW x \in Push, IsKept(x), NEW y \in below[x]
  PROVE  IsKept(y)
BY ClosureClosed DEF GcInv, KeptOK, IsKept

\* A publication puts the closure in the place of the sources.
LEMMA PublishEffects ==
  ASSUME GcInv, NEW c \in Claim, CommitReady(c), Publish
  PROVE  /\ op.phase = "publish" /\ op.claim = c /\ op.id \in Op /\ op.id \in admitted
         /\ op.snapshot.token # None /\ rows[op.id] = "none"
         /\ \A q \in Push : push[q] \notin {"proved", "intent", "active", "counted", "moved"}
         /\ handler \notin Push /\ rlease.age # "live"
         /\ rows' \in [Pack -> {"none", "active", "superseded"}]
         /\ \A k \in Pack :
              /\ rows'[k] # "none" => rows[k] # "none" \/ (op.indexed /\ k = op.id)
              /\ rows'[k] = "active" <=>
                   \/ op.indexed /\ k = op.id
                   \/ /\ rows[k] = "active"
                      /\ op.retained \/ k \notin op.snapshot.sources \/ k = Target
         /\ packset' \in Nat /\ clease' = NoLease /\ pending' = None
         /\ op' \in Operation /\ op'.phase = "reclaim" /\ op'.claim = None /\ op'.age = "none"
         /\ op'.id = op.id /\ op'.snapshot = op.snapshot /\ op'.refsVersion = op.refsVersion
         /\ op'.packset = op.packset /\ (op'.retained <=> op.retained)
         /\ (op'.planned <=> op.planned) /\ op'.target = op.target
         /\ (op'.intent <=> op.intent) /\ (op'.indexed <=> op.indexed)
         /\ (op'.waiting <=> op.waiting)
<1> USE DEF GcInv
<1>1. op \in Operation /\ rows \in [Pack -> {"none", "active", "superseded"}] /\ packset \in Nat
  BY DEF GcTypes, StoreTypes
<1>2. op.phase = "publish" /\ op.claim = c
  BY DEF CommitReady, LeaseHeld
<1>3. /\ op.id \in Op /\ op.id \in admitted /\ op.snapshot.token # None /\ rows[op.id] = "none"
  BY <1>2, Names DEF OperationOK, OutputsOK
<1>4. /\ \A q \in Push : push[q] \notin {"proved", "intent", "active", "counted", "moved"}
      /\ handler \notin Push /\ rlease.age # "live"
  BY Names DEF CommitReady, ReceiveIdle, ReceiveTypes, LeaseOK, HasIntent
<1>5. op.snapshot.sources \subseteq Pack /\ \A k \in op.snapshot.sources : rows[k] = "active"
  BY <1>1 DEF CommitReady, SourcesMatch, Operation, Snapshots
<1>6. Superseded \subseteq op.snapshot.sources /\ Superseded \in SUBSET Pack
  BY <1>5 DEF Superseded
<1>7. \A k \in Pack : k \in Superseded <=> ~op.retained /\ k \in op.snapshot.sources /\ k # Target
  BY DEF Superseded
<1>8. op.indexed => Target = op.id
  BY DEF Target
<1>9. rows' = [k \in Pack |-> IF k \in Superseded THEN "superseded"
                               ELSE IF k = Target /\ op.indexed THEN "active" ELSE rows[k]]
  BY DEF Publish
<1>10. rows' \in [Pack -> {"none", "active", "superseded"}]
  BY <1>1, <1>9
<1>11. ASSUME NEW k \in Pack
       PROVE  /\ rows'[k] # "none" => rows[k] # "none" \/ (op.indexed /\ k = op.id)
              /\ rows'[k] = "active" <=>
                   \/ op.indexed /\ k = op.id
                   \/ /\ rows[k] = "active"
                      /\ op.retained \/ k \notin op.snapshot.sources \/ k = Target
  BY <1>1, <1>5, <1>6, <1>7, <1>8, <1>9
<1>12. packset' \in Nat /\ clease' = NoLease /\ pending' = None
  BY <1>1 DEF Publish
<1>13. /\ op' \in Operation /\ op'.phase = "reclaim" /\ op'.claim = None /\ op'.age = "none"
       /\ op'.id = op.id /\ op'.snapshot = op.snapshot /\ op'.refsVersion = op.refsVersion
       /\ op'.packset = op.packset /\ (op'.retained <=> op.retained)
       /\ (op'.planned <=> op.planned) /\ op'.target = op.target /\ (op'.intent <=> op.intent)
       /\ (op'.indexed <=> op.indexed) /\ (op'.waiting <=> op.waiting)
  <2> DEFINE m == MoveTo(op, "reclaim")
  <2>1. /\ m \in Operation /\ m.phase = "reclaim" /\ m.claim = None /\ m.age = "none"
        /\ m.id = op.id /\ m.snapshot = op.snapshot /\ m.refsVersion = op.refsVersion
        /\ m.packset = op.packset /\ (m.retained <=> op.retained) /\ (m.planned <=> op.planned)
        /\ m.target = op.target /\ (m.intent <=> op.intent) /\ (m.indexed <=> op.indexed)
        /\ (m.waiting <=> op.waiting) /\ m.armed = op.armed
    BY <1>1, MoveToFields DEF Phases
  <2>2. op' = [m EXCEPT !.superseded = Superseded, !.armed = None]
    BY DEF Publish
  <2> HIDE DEF m
  <2>3. op' \in Operation
    BY <1>6, <2>1, <2>2 DEF Operation
  <2>4. /\ op'.phase = m.phase /\ op'.claim = m.claim /\ op'.age = m.age
        /\ op'.id = m.id /\ op'.snapshot = m.snapshot /\ op'.refsVersion = m.refsVersion
        /\ op'.packset = m.packset /\ (op'.retained <=> m.retained)
        /\ (op'.planned <=> m.planned) /\ op'.target = m.target /\ (op'.intent <=> m.intent)
        /\ (op'.indexed <=> m.indexed) /\ (op'.waiting <=> m.waiting)
    BY <2>1, <2>2 DEF Operation
  <2> QED BY <2>1, <2>3, <2>4
<1> QED BY <1>2, <1>3, <1>4, <1>10, <1>11, <1>12, <1>13

\* Everything the refs reach stays served.
LEMMA PublishServes ==
  ASSUME GcInv, NEW c \in Claim, CommitReady(c), Publish,
         UNCHANGED <<refs, below, held, plan, mix>>,
         \A q \in Push : ~MayLand(q)'
  PROVE  ServedOK'
<1> USE DEF GcInv
<1> SUFFICES ASSUME Calm PROVE ServedOK'
  BY DEF ServedOK, Calm
<1>1. /\ op.phase = "publish" /\ op.id \in Op /\ op.snapshot.token # None /\ rows[op.id] = "none"
      /\ \A k \in Pack :
           rows'[k] = "active" <=>
             \/ op.indexed /\ k = op.id
             \/ rows[k] = "active" /\ (op.retained \/ k \notin op.snapshot.sources \/ k = Target)
  BY PublishEffects
<1>2. /\ \A k : Holds(k)' = Holds(k)
      /\ op.id \in Pack /\ (op.indexed => Target = op.id /\ Holds(op.id) = GcClosure)
      /\ ~op.indexed => Target = op.target
  <2>1. op.indexed => held[op.id] = GcClosure
    BY <1>1 DEF TargetOK, OperationOK
  <2> QED BY <1>1, <2>1 DEF Holds, Pack, Target
<1>3. refs \in [Ref -> Oid] /\ below \in [Push -> SUBSET Push]
  BY DEF StoreTypes
<1>4. CASE op.retained
  <2>1. \A x : IsServed(x)' <=> IsServed(x) \/ (op.indexed /\ x \in GcClosure)
    BY <1>1, <1>2, <1>4 DEF IsServed
  <2>2. \A x \in GcClosure : \A y \in below[x] : y \in GcClosure
    BY ClosureClosed
  <2> QED BY <2>1, <2>2 DEF ServedOK
<1>5. CASE ~op.retained
  <2>1. Collects
    BY <1>1, <1>5 DEF Collects, OwnsSource, HasSnapshot
  <2>2. \A x : IsServed(x)' => IsKept(x)
    <3>1. ~op.indexed => \/ op.target = None
                         \/ Holds(op.target) = GcClosure
      BY <1>1 DEF TargetOK
    <3>2. ASSUME NEW x, NEW k \in Pack, rows'[k] = "active", x \in Holds(k)
          PROVE  x \in GcClosure \/ (rows[k] = "active" /\ k \notin op.snapshot.sources)
      BY <1>1, <1>2, <1>5, <3>1, <3>2, Names DEF Pack
    <3> QED BY <1>2, <3>2 DEF IsServed, IsKept, IsOutside
  <2>3. \A x : IsKept(x) => IsServed(x)'
    <3>1. ASSUME NEW x, IsOutside(x) PROVE IsServed(x)'
      BY <1>1, <1>2, <3>1 DEF IsOutside, IsServed
    <3>2. ASSUME NEW x \in GcClosure PROVE IsServed(x)'
      <4>1. CASE op.indexed
        BY <1>1, <1>2, <3>2, <4>1 DEF IsServed
      <4>2. CASE ~op.indexed
        <5>1. op.target \in op.snapshot.sources /\ Holds(op.target) = GcClosure
          BY <1>1, <3>2, <4>2 DEF TargetOK
        <5>2. op.target \in Pack /\ rows[op.target] = "active"
          BY <5>1 DEF CommitReady, SourcesMatch, GcTypes, Operation, Snapshots
        <5>3. rows'[op.target] = "active"
          BY <1>1, <1>2, <4>2, <5>2
        <5> QED BY <1>2, <3>2, <5>1, <5>2, <5>3 DEF IsServed
      <4> QED BY <4>1, <4>2
    <3> QED BY <3>1, <3>2 DEF IsKept
  <2>4. \A n \in Ref : refs[n] # None => IsKept(refs[n])
    BY <2>1 DEF KeptOK
  <2>5. \A x \in Push : IsKept(x) => \A y \in below[x] : IsKept(y)
    BY <2>1, KeptClosed
  <2> QED BY <2>2, <2>3, <2>4, <2>5 DEF ServedOK
<1> QED BY <1>4, <1>5

\* A step that changes nothing.
LEMMA StutterStep ==
  ASSUME GcInv, UNCHANGED vars
  PROVE  GcInv'
<1>1. UNCHANGED <<refs, refsVersion, packset, rows, bucket, staging, below, base, held, rlease,
                  push, plan, handler, op, admitted, clease, pending, worker, native, mix>>
  BY DEF vars
<1> QED BY <1>1, StoreTypesFrame, ReceiveTypesFrame, GcTypesFrame, LeaseOKFrame, PlanOKFrame,
   RowsOKFrame, OperationOKFrame, WorkersOKFrame, NativeOKFrame, OutputsOKFrame, BlockedOKFrame,
   AccountsOKFrame, SeenOKFrame, HistoryOKFrame, TargetOKFrame, BegunOKFrame, SourceOKFrame,
   ServedOKFrame, KeptOKFrame DEF GcInv

------------------------------------------------------------------------------
(* The steps                                                                 *)

\* A claim expires.
LEMMA ClaimExpiresStep ==
  ASSUME GcInv, ClaimExpires
  PROVE  GcInv'
<1> USE DEF GcInv
<1>t. /\ op \in Operation /\ worker \in [Claim -> Workers] /\ push \in [Push -> PushStates]
      /\ plan \in [Push -> Plans \cup {NoPlan}] /\ mix \in Mixed
      /\ rows \in [Pack -> {"none", "active", "superseded"}]
  BY DEF StoreTypes, ReceiveTypes, GcTypes
<1>u. UNCHANGED <<refs, refsVersion, packset, rows, bucket, staging, below, base, held, rlease,
   push, plan, handler, admitted, clease, pending, worker, native>>
  BY DEF ClaimExpires, repository, objects, receives, collection
<1>s. /\ refs \in [Ref -> Oid] /\ op.snapshot \in Snapshots
      /\ \A d \in Claim : worker[d].snapshot \in Snapshots
      /\ below \in [Push -> SUBSET Push] /\ held \in [Op -> SUBSET Push]
      /\ \A q \in Push : plan[q].new \in Oid
  BY Typed
<1>1. /\ op' \in Operation /\ op.age = "live" /\ op'.age = "expired"
      /\ op'.id = op.id /\ op'.phase = op.phase /\ op'.claim = op.claim
      /\ op'.snapshot = op.snapshot /\ op'.refsVersion = op.refsVersion
      /\ op'.packset = op.packset /\ (op'.retained <=> op.retained)
      /\ (op'.planned <=> op.planned) /\ op'.target = op.target /\ (op'.intent <=> op.intent)
      /\ (op'.indexed <=> op.indexed) /\ (op'.waiting <=> op.waiting) /\ op'.armed = op.armed
  BY <1>t DEF ClaimExpires, Operation, Ages
<1>2. mix' \in Mixed /\ mix'.thin = mix.thin /\ (mix'.late <=> mix.late)
  <2>1. Fault \/ mix' = mix
    BY DEF ClaimExpires
  <2> QED BY <1>t, <2>1, FaultEffects
<1>3. StoreTypes'
  BY <1>t, <1>2, <1>u DEF StoreTypes
<1>4. GcTypes'
  BY <1>t, <1>1, <1>u DEF GcTypes
<1>5. LeaseOK'
  BY <1>t, <1>2, <1>u DEF LeaseOK, HasIntent
<1>6. OperationOK'
  BY <1>t, <1>1, <1>u DEF OperationOK
<1>7. WorkersOK'
  BY <1>t, <1>1, <1>u DEF WorkersOK, PhaseAt, Clean
<1>8. NativeOK'
  BY <1>t, <1>1, <1>u DEF NativeOK
<1>9. OutputsOK'
  BY <1>t, <1>1, <1>u DEF OutputsOK, Clean
<1>10. BlockedOK'
  BY <1>t, <1>1, <1>u DEF BlockedOK
<1>11. AccountsOK'
  BY <1>t, <1>1, <1>u, AccountsSoft DEF OwnsSource, HasSnapshot
<1>12. SeenOK'
  BY <1>t, <1>1, <1>u, <1>s, SeenSoft DEF Seen
<1>13. HistoryOK'
  BY <1>t, <1>2, <1>u DEF HistoryOK
<1>14. TargetOK'
  BY <1>t, <1>1, <1>u, ClosureSame DEF TargetOK, Holds
<1>15. BegunOK'
  BY <1>t, <1>2, <1>u, BegunSoft DEF Calm, Begun
<1>16. SourceOK'
  BY <1>t, <1>1, <1>2, <1>u, SourceSoft DEF Calm, OwnsSource, HasSnapshot
<1>17. ServedOK'
  BY <1>t, <1>2, <1>u, ServedSoft DEF Calm, MayLand
<1>18. KeptOK'
  BY <1>t, <1>1, <1>2, <1>u, KeptSoft DEF Collects, Calm, OwnsSource, HasSnapshot, Passed
<1>19. ReceiveTypes' /\ PlanOK' /\ RowsOK'
  BY <1>u, ReceiveTypesFrame, PlanOKFrame, RowsOKFrame
<1> QED BY <1>3, <1>4, <1>5, <1>6, <1>7, <1>8, <1>9, <1>10, <1>11, <1>12, <1>13, <1>14, <1>15,
   <1>16, <1>17, <1>18, <1>19

\* A claim drains: neither its Worker nor its Container writes any more.
LEMMA ClaimDrainsStep ==
  ASSUME GcInv, NEW c \in Claim, c = op.claim, ClaimDrains
  PROVE  GcInv'
<1> USE DEF GcInv
<1>t. /\ op \in Operation /\ worker \in [Claim -> Workers] /\ push \in [Push -> PushStates]
      /\ plan \in [Push -> Plans \cup {NoPlan}] /\ mix \in Mixed
      /\ rows \in [Pack -> {"none", "active", "superseded"}]
  BY DEF StoreTypes, ReceiveTypes, GcTypes
<1>u. UNCHANGED <<refs, refsVersion, packset, rows, bucket, staging, below, base, held, rlease,
   push, plan, handler, admitted, clease, pending, mix>>
  BY DEF ClaimDrains, repository, objects, receives, collection
<1>s. /\ refs \in [Ref -> Oid] /\ op.snapshot \in Snapshots
      /\ \A d \in Claim : worker[d].snapshot \in Snapshots
      /\ below \in [Push -> SUBSET Push] /\ held \in [Op -> SUBSET Push]
      /\ \A q \in Push : plan[q].new \in Oid
  BY Typed
<1>1. /\ op' \in Operation /\ op.age = "expired" /\ op'.age = "drained" /\ op.claim # None
      /\ op'.id = op.id /\ op'.phase = op.phase /\ op'.claim = op.claim
      /\ op'.snapshot = op.snapshot /\ op'.refsVersion = op.refsVersion
      /\ op'.packset = op.packset /\ (op'.retained <=> op.retained)
      /\ (op'.planned <=> op.planned) /\ op'.target = op.target /\ (op'.intent <=> op.intent)
      /\ (op'.indexed <=> op.indexed) /\ (op'.waiting <=> op.waiting) /\ op'.armed = op.armed
  BY <1>t DEF ClaimDrains, Operation, Ages, GcTypes
<1>2. /\ worker' \in [Claim -> Workers] /\ \A d \in Claim : d # c => worker'[d] = worker[d]
      /\ worker'[c].pc = "gone" /\ worker'[c].snapshot = NoSnapshot
  <2>1. Leaves(c)
    BY DEF ClaimDrains
  <2> QED BY <1>t, <2>1, LeavesEffects
<1>3. native' = NoJob
  BY <1>1, Nothings, Names DEF ClaimDrains, NativeOK, OperationOK
<1>4. GcTypes'
  BY <1>t, <1>1, <1>2, <1>3, <1>u DEF GcTypes
<1>5. OperationOK'
  BY <1>t, <1>1, <1>u DEF OperationOK
<1>6. WorkersOK'
  BY <1>t, <1>1, <1>2, <1>u DEF WorkersOK, PhaseAt, Clean
<1>7. NativeOK'
  BY <1>t, <1>1, <1>3, <1>u DEF NativeOK
<1>8. OutputsOK'
  BY <1>t, <1>1, <1>u DEF OutputsOK, Clean
<1>9. BlockedOK'
  BY <1>t, <1>1, <1>u DEF BlockedOK
<1>10. AccountsOK'
  BY <1>t, <1>1, <1>u, AccountsSoft DEF OwnsSource, HasSnapshot
<1>11. SeenOK'
  BY <1>t, <1>1, <1>2, <1>u, <1>s, SeenSoft DEF Seen
<1>12. TargetOK'
  BY <1>t, <1>1, <1>u, ClosureSame DEF TargetOK, Holds
<1>13. BegunOK'
  BY <1>t, <1>2, <1>u, BegunSoft DEF Calm, Begun
<1>14. SourceOK'
  BY <1>t, <1>1, <1>u, SourceSoft DEF Calm, OwnsSource, HasSnapshot
<1>15. KeptOK'
  BY <1>t, <1>1, <1>u, KeptSoft DEF Collects, Calm, OwnsSource, HasSnapshot, Passed
<1>16. StoreTypes' /\ ReceiveTypes' /\ LeaseOK' /\ PlanOK' /\ RowsOK' /\ HistoryOK' /\ ServedOK'
  BY <1>u, StoreTypesFrame, ReceiveTypesFrame, LeaseOKFrame, PlanOKFrame, RowsOKFrame,
     HistoryOKFrame, ServedOKFrame
<1> QED BY <1>4, <1>5, <1>6, <1>7, <1>8, <1>9, <1>10, <1>11, <1>12, <1>13, <1>14, <1>15, <1>16

\* So does the claim that decided to discard.
LEMMA DiscardDrainsStep ==
  ASSUME GcInv, DiscardDrains
  PROVE  GcInv'
<1> USE DEF GcInv
<1>t. /\ op \in Operation /\ worker \in [Claim -> Workers] /\ push \in [Push -> PushStates]
      /\ plan \in [Push -> Plans \cup {NoPlan}] /\ mix \in Mixed
      /\ rows \in [Pack -> {"none", "active", "superseded"}]
  BY DEF StoreTypes, ReceiveTypes, GcTypes
<1>u. UNCHANGED <<refs, refsVersion, packset, rows, bucket, staging, below, base, held, rlease,
   push, plan, handler, admitted, clease, pending, worker, mix>>
  BY DEF DiscardDrains, repository, objects, receives, collection
<1>s. /\ refs \in [Ref -> Oid] /\ op.snapshot \in Snapshots
      /\ \A d \in Claim : worker[d].snapshot \in Snapshots
      /\ below \in [Push -> SUBSET Push] /\ held \in [Op -> SUBSET Push]
      /\ \A q \in Push : plan[q].new \in Oid
  BY Typed
<1>1. /\ op' \in Operation /\ op.waiting /\ ~op'.waiting /\ native' = NoJob
      /\ op'.id = op.id /\ op'.phase = op.phase /\ op'.claim = op.claim /\ op'.age = op.age
      /\ op'.snapshot = op.snapshot /\ op'.refsVersion = op.refsVersion
      /\ op'.packset = op.packset /\ (op'.retained <=> op.retained)
      /\ (op'.planned <=> op.planned) /\ op'.target = op.target /\ (op'.intent <=> op.intent)
      /\ (op'.indexed <=> op.indexed) /\ op'.armed = op.armed
  <2>1. op.waiting /\ native' = NoJob /\ op' = [op EXCEPT !.waiting = FALSE]
    BY DEF DiscardDrains
  <2>2. op'.waiting = FALSE
    BY <1>t, <2>1 DEF Operation
  <2> QED BY <1>t, <2>1, <2>2 DEF Operation
<1>2. GcTypes'
  BY <1>t, <1>1, <1>u DEF GcTypes
<1>3. OperationOK'
  BY <1>t, <1>1, <1>u DEF OperationOK
<1>4. WorkersOK'
  BY <1>t, <1>1, <1>u DEF WorkersOK, PhaseAt, Clean
<1>5. NativeOK'
  BY <1>t, <1>1, <1>u DEF NativeOK
<1>6. OutputsOK'
  BY <1>t, <1>1, <1>u DEF OutputsOK, Clean
<1>7. BlockedOK'
  BY <1>t, <1>1, <1>u DEF BlockedOK
<1>8. AccountsOK'
  BY <1>t, <1>1, <1>u, AccountsSoft DEF OwnsSource, HasSnapshot
<1>9. SeenOK'
  BY <1>t, <1>1, <1>u, <1>s, SeenSoft DEF Seen
<1>10. TargetOK'
  BY <1>t, <1>1, <1>u, ClosureSame DEF TargetOK, Holds
<1>11. SourceOK'
  BY <1>t, <1>1, <1>u, SourceSoft DEF Calm, OwnsSource, HasSnapshot
<1>12. KeptOK'
  BY <1>t, <1>1, <1>u, KeptSoft DEF Collects, Calm, OwnsSource, HasSnapshot, Passed
<1>13. StoreTypes' /\ ReceiveTypes' /\ LeaseOK' /\ PlanOK' /\ RowsOK' /\ HistoryOK' /\ BegunOK'
   /\ ServedOK'
  BY <1>u, StoreTypesFrame, ReceiveTypesFrame, LeaseOKFrame, PlanOKFrame, RowsOKFrame,
     HistoryOKFrame, BegunOKFrame, ServedOKFrame
<1> QED BY <1>2, <1>3, <1>4, <1>5, <1>6, <1>7, <1>8, <1>9, <1>10, <1>11, <1>12, <1>13

\* The source lease expires.
LEMMA SourceLeaseExpiresStep ==
  ASSUME GcInv, SourceLeaseExpires
  PROVE  GcInv'
<1> USE DEF GcInv
<1>t. /\ op \in Operation /\ worker \in [Claim -> Workers] /\ push \in [Push -> PushStates]
      /\ plan \in [Push -> Plans \cup {NoPlan}] /\ mix \in Mixed
      /\ rows \in [Pack -> {"none", "active", "superseded"}]
  BY DEF StoreTypes, ReceiveTypes, GcTypes
<1>u. UNCHANGED <<refs, refsVersion, packset, rows, bucket, staging, below, base, held, rlease,
   push, plan, handler, op, admitted, pending, worker, native>>
  BY DEF SourceLeaseExpires, repository, objects, receives, collection
<1>1. /\ clease' \in [token : Claim \cup {None}, age : Ages] /\ clease'.token = clease.token
      /\ clease.age = "live" /\ clease'.age = "expired"
  BY DEF SourceLeaseExpires, GcTypes, Ages
<1>2. mix' \in Mixed /\ mix'.thin = mix.thin /\ (mix'.late <=> mix.late)
  <2>1. Fault \/ mix' = mix
    BY DEF SourceLeaseExpires
  <2> QED BY <1>t, <2>1, FaultEffects
<1>3. StoreTypes'
  BY <1>t, <1>2, <1>u DEF StoreTypes
<1>4. GcTypes'
  BY <1>t, <1>1, <1>u DEF GcTypes
<1>5. LeaseOK'
  BY <1>t, <1>2, <1>u DEF LeaseOK, HasIntent
<1>6. BlockedOK'
  BY <1>t, <1>1, <1>u DEF BlockedOK
<1>7. HistoryOK'
  BY <1>t, <1>2, <1>u DEF HistoryOK
<1>8. BegunOK'
  BY <1>t, <1>1, <1>2, <1>u, BegunSoft DEF Calm, Begun
<1>9. SourceOK'
  BY <1>t, <1>2, <1>u, SourceSoft DEF Calm, OwnsSource, HasSnapshot
<1>10. ServedOK'
  BY <1>t, <1>2, <1>u, ServedSoft DEF Calm, MayLand
<1>11. KeptOK'
  BY <1>t, <1>2, <1>u, KeptSoft DEF Collects, Calm, OwnsSource, HasSnapshot, Passed
<1>12. ReceiveTypes' /\ PlanOK' /\ RowsOK' /\ OperationOK' /\ WorkersOK' /\ NativeOK' /\
   OutputsOK' /\ AccountsOK' /\ SeenOK' /\ TargetOK'
  BY <1>u, ReceiveTypesFrame, PlanOKFrame, RowsOKFrame, OperationOKFrame, WorkersOKFrame,
     NativeOKFrame, OutputsOKFrame, AccountsOKFrame, SeenOKFrame, TargetOKFrame
<1> QED BY <1>3, <1>4, <1>5, <1>6, <1>7, <1>8, <1>9, <1>10, <1>11, <1>12

\* The deadline passes.
LEMMA DeadlinePassesStep ==
  ASSUME GcInv, DeadlinePasses
  PROVE  GcInv'
<1> USE DEF GcInv
<1>t. /\ op \in Operation /\ worker \in [Claim -> Workers] /\ push \in [Push -> PushStates]
      /\ plan \in [Push -> Plans \cup {NoPlan}] /\ mix \in Mixed
      /\ rows \in [Pack -> {"none", "active", "superseded"}]
  BY DEF StoreTypes, ReceiveTypes, GcTypes
<1>u. UNCHANGED <<refs, refsVersion, packset, rows, bucket, staging, below, base, held, rlease,
   push, plan, handler, admitted, clease, pending, worker, native, mix>>
  BY DEF DeadlinePasses, repository, objects, receives, collection
<1>s. /\ refs \in [Ref -> Oid] /\ op.snapshot \in Snapshots
      /\ \A d \in Claim : worker[d].snapshot \in Snapshots
      /\ below \in [Push -> SUBSET Push] /\ held \in [Op -> SUBSET Push]
      /\ \A q \in Push : plan[q].new \in Oid
  BY Typed
<1>1. /\ op' \in Operation
      /\ op'.id = op.id /\ op'.phase = op.phase /\ op'.claim = op.claim /\ op'.age = op.age
      /\ op'.snapshot = op.snapshot /\ op'.refsVersion = op.refsVersion
      /\ op'.packset = op.packset /\ (op'.retained <=> op.retained)
      /\ (op'.planned <=> op.planned) /\ op'.target = op.target /\ (op'.intent <=> op.intent)
      /\ (op'.indexed <=> op.indexed) /\ (op'.waiting <=> op.waiting) /\ op'.armed = op.armed
  BY <1>t DEF DeadlinePasses, Operation
<1>2. GcTypes'
  BY <1>t, <1>1, <1>u DEF GcTypes
<1>3. OperationOK'
  BY <1>t, <1>1, <1>u DEF OperationOK
<1>4. WorkersOK'
  BY <1>t, <1>1, <1>u DEF WorkersOK, PhaseAt, Clean
<1>5. NativeOK'
  BY <1>t, <1>1, <1>u DEF NativeOK
<1>6. OutputsOK'
  BY <1>t, <1>1, <1>u DEF OutputsOK, Clean
<1>7. BlockedOK'
  BY <1>t, <1>1, <1>u DEF BlockedOK
<1>8. AccountsOK'
  BY <1>t, <1>1, <1>u, AccountsSoft DEF OwnsSource, HasSnapshot
<1>9. SeenOK'
  BY <1>t, <1>1, <1>u, <1>s, SeenSoft DEF Seen
<1>10. TargetOK'
  BY <1>t, <1>1, <1>u, ClosureSame DEF TargetOK, Holds
<1>11. SourceOK'
  BY <1>t, <1>1, <1>u, SourceSoft DEF Calm, OwnsSource, HasSnapshot
<1>12. KeptOK'
  BY <1>t, <1>1, <1>u, KeptSoft DEF Collects, Calm, OwnsSource, HasSnapshot, Passed
<1>13. StoreTypes' /\ ReceiveTypes' /\ LeaseOK' /\ PlanOK' /\ RowsOK' /\ HistoryOK' /\ BegunOK'
   /\ ServedOK'
  BY <1>u, StoreTypesFrame, ReceiveTypesFrame, LeaseOKFrame, PlanOKFrame, RowsOKFrame,
     HistoryOKFrame, BegunOKFrame, ServedOKFrame
<1> QED BY <1>2, <1>3, <1>4, <1>5, <1>6, <1>7, <1>8, <1>9, <1>10, <1>11, <1>12, <1>13

\* A Worker dies.
LEMMA WorkerDiesStep ==
  ASSUME GcInv, NEW c \in Claim, WorkerDies(c)
  PROVE  GcInv'
<1> USE DEF GcInv
<1>t. /\ op \in Operation /\ worker \in [Claim -> Workers] /\ push \in [Push -> PushStates]
      /\ plan \in [Push -> Plans \cup {NoPlan}] /\ mix \in Mixed
      /\ rows \in [Pack -> {"none", "active", "superseded"}]
  BY DEF StoreTypes, ReceiveTypes, GcTypes
<1>u. UNCHANGED <<refs, refsVersion, packset, rows, bucket, staging, below, base, held, rlease,
   push, plan, handler, op, admitted, clease, pending, native>>
  BY DEF WorkerDies, repository, objects, receives, collection
<1>s. /\ refs \in [Ref -> Oid] /\ op.snapshot \in Snapshots
      /\ \A d \in Claim : worker[d].snapshot \in Snapshots
      /\ below \in [Push -> SUBSET Push] /\ held \in [Op -> SUBSET Push]
      /\ \A q \in Push : plan[q].new \in Oid
  BY Typed
<1>1. /\ worker' \in [Claim -> Workers] /\ \A d \in Claim : d # c => worker'[d] = worker[d]
      /\ worker'[c].pc = "gone" /\ worker'[c].snapshot = NoSnapshot
  <2>1. Leaves(c)
    BY DEF WorkerDies
  <2> QED BY <1>t, <2>1, LeavesEffects
<1>2. mix' \in Mixed /\ mix'.thin = mix.thin /\ (mix'.late <=> mix.late)
  <2>1. Fault
    BY DEF WorkerDies
  <2> QED BY <1>t, <2>1, FaultEffects
<1>3. StoreTypes'
  BY <1>t, <1>2, <1>u DEF StoreTypes
<1>4. GcTypes'
  BY <1>t, <1>1, <1>u DEF GcTypes
<1>5. LeaseOK'
  BY <1>t, <1>2, <1>u DEF LeaseOK, HasIntent
<1>6. WorkersOK'
  BY <1>t, <1>1, <1>u DEF WorkersOK, PhaseAt, Clean
<1>7. SeenOK'
  BY <1>t, <1>1, <1>u, <1>s, SeenSoft DEF Seen
<1>8. HistoryOK'
  BY <1>t, <1>2, <1>u DEF HistoryOK
<1>9. BegunOK'
  BY <1>t, <1>1, <1>2, <1>u, BegunSoft DEF Calm, Begun
<1>10. SourceOK'
  BY <1>t, <1>2, <1>u, SourceSoft DEF Calm, OwnsSource, HasSnapshot
<1>11. ServedOK'
  BY <1>t, <1>2, <1>u, ServedSoft DEF Calm, MayLand
<1>12. KeptOK'
  BY <1>t, <1>2, <1>u, KeptSoft DEF Collects, Calm, OwnsSource, HasSnapshot, Passed
<1>13. ReceiveTypes' /\ PlanOK' /\ RowsOK' /\ OperationOK' /\ NativeOK' /\ OutputsOK' /\
   BlockedOK' /\ AccountsOK' /\ TargetOK'
  BY <1>u, ReceiveTypesFrame, PlanOKFrame, RowsOKFrame, OperationOKFrame, NativeOKFrame,
     OutputsOKFrame, BlockedOKFrame, AccountsOKFrame, TargetOKFrame
<1> QED BY <1>3, <1>4, <1>5, <1>6, <1>7, <1>8, <1>9, <1>10, <1>11, <1>12, <1>13

\* A Worker whose claim is gone stops.
LEMMA ClaimRejectedStep ==
  ASSUME GcInv, NEW c \in Claim, ClaimRejected(c)
  PROVE  GcInv'
<1> USE DEF GcInv
<1>t. /\ op \in Operation /\ worker \in [Claim -> Workers] /\ push \in [Push -> PushStates]
      /\ plan \in [Push -> Plans \cup {NoPlan}] /\ mix \in Mixed
      /\ rows \in [Pack -> {"none", "active", "superseded"}]
  BY DEF StoreTypes, ReceiveTypes, GcTypes
<1>u. UNCHANGED <<refs, refsVersion, packset, rows, bucket, staging, below, base, held, rlease,
   push, plan, handler, op, admitted, clease, pending, native, mix>>
  BY DEF ClaimRejected, repository, objects, receives, collection
<1>s. /\ refs \in [Ref -> Oid] /\ op.snapshot \in Snapshots
      /\ \A d \in Claim : worker[d].snapshot \in Snapshots
      /\ below \in [Push -> SUBSET Push] /\ held \in [Op -> SUBSET Push]
      /\ \A q \in Push : plan[q].new \in Oid
  BY Typed
<1>1. /\ worker' \in [Claim -> Workers] /\ \A d \in Claim : d # c => worker'[d] = worker[d]
      /\ worker'[c].pc = "gone" /\ worker'[c].snapshot = NoSnapshot
  <2>1. Leaves(c)
    BY DEF ClaimRejected
  <2> QED BY <1>t, <2>1, LeavesEffects
<1>2. GcTypes'
  BY <1>t, <1>1, <1>u DEF GcTypes
<1>3. WorkersOK'
  BY <1>t, <1>1, <1>u DEF WorkersOK, PhaseAt, Clean
<1>4. SeenOK'
  BY <1>t, <1>1, <1>u, <1>s, SeenSoft DEF Seen
<1>5. BegunOK'
  BY <1>t, <1>1, <1>u, BegunSoft DEF Calm, Begun
<1>6. StoreTypes' /\ ReceiveTypes' /\ LeaseOK' /\ PlanOK' /\ RowsOK' /\ OperationOK' /\
   NativeOK' /\ OutputsOK' /\ BlockedOK' /\ AccountsOK' /\ HistoryOK' /\ TargetOK' /\ SourceOK'
   /\ ServedOK' /\ KeptOK'
  BY <1>u, StoreTypesFrame, ReceiveTypesFrame, LeaseOKFrame, PlanOKFrame, RowsOKFrame,
     OperationOKFrame, NativeOKFrame, OutputsOKFrame, BlockedOKFrame, AccountsOKFrame,
     HistoryOKFrame, TargetOKFrame, SourceOKFrame, ServedOKFrame, KeptOKFrame
<1> QED BY <1>2, <1>3, <1>4, <1>5, <1>6

\* An operation is admitted.
LEMMA RegisterStep ==
  ASSUME GcInv, NEW o \in Op, Register(o)
  PROVE  GcInv'
<1> USE DEF GcInv
<1>t. /\ op \in Operation /\ worker \in [Claim -> Workers] /\ push \in [Push -> PushStates]
      /\ plan \in [Push -> Plans \cup {NoPlan}] /\ mix \in Mixed
      /\ rows \in [Pack -> {"none", "active", "superseded"}]
  BY DEF StoreTypes, ReceiveTypes, GcTypes
<1>u. UNCHANGED <<refs, refsVersion, packset, rows, bucket, staging, below, base, held, rlease,
   push, plan, handler, clease, pending, worker, native, mix>>
  BY DEF Register, repository, objects, receives, collection
<1>s. /\ refs \in [Ref -> Oid] /\ op.snapshot \in Snapshots
      /\ \A d \in Claim : worker[d].snapshot \in Snapshots
      /\ below \in [Push -> SUBSET Push] /\ held \in [Op -> SUBSET Push]
      /\ \A q \in Push : plan[q].new \in Oid
  BY Typed
<1>1. /\ o \notin admitted /\ admitted' = admitted \cup {o} /\ op.phase \in {"complete", "blocked"}
  BY DEF Register, Terminal
<1>2. /\ op' \in Operation /\ op'.id = o /\ op'.phase = "queued" /\ op'.claim = None
      /\ op'.age = "none" /\ op'.snapshot = NoSnapshot /\ NoSnapshot.token = None
      /\ ~op'.retained /\ ~op'.planned /\ ~op'.intent /\ ~op'.indexed /\ ~op'.waiting
  <2>1. op' = NewOperation(o)
    BY DEF Register
  <2> QED BY <2>1, NewFields, Nothings
<1>3. \A d \in Claim : worker[d].pc \in {"gone", "commit"}
  BY <1>1, Names DEF WorkersOK, OperationOK
<1>4. native = NoJob
  BY <1>1 DEF NativeOK, OperationOK
<1>5. GcTypes'
  BY <1>t, <1>1, <1>2, <1>3, <1>4, <1>u DEF GcTypes
<1>6. OperationOK'
  BY <1>t, <1>1, <1>2 DEF OperationOK
<1>7. WorkersOK'
  BY <1>t, <1>1, <1>2, <1>3, <1>u DEF WorkersOK, PhaseAt, Clean
<1>8. NativeOK'
  BY <1>t, <1>1, <1>2, <1>4, <1>u DEF NativeOK
<1>9. OutputsOK'
  BY <1>t, <1>1, <1>2, <1>u DEF OutputsOK, Clean
<1>10. BlockedOK'
  BY <1>t, <1>1, <1>2, <1>u DEF BlockedOK
<1>11. AccountsOK'
  BY <1>2 DEF AccountsOK, OwnsSource, HasSnapshot
<1>12. SeenOK'
  BY <1>t, <1>1, <1>2, <1>3, <1>u, <1>s, SeenSoft DEF Seen
<1>13. TargetOK'
  BY <1>t, <1>1, <1>2, <1>u, ClosureSame DEF TargetOK, Holds
<1>14. SourceOK'
  BY <1>2 DEF SourceOK, OwnsSource, HasSnapshot
<1>15. KeptOK'
  BY <1>2 DEF KeptOK, Collects, OwnsSource, HasSnapshot
<1>16. StoreTypes' /\ ReceiveTypes' /\ LeaseOK' /\ PlanOK' /\ RowsOK' /\ HistoryOK' /\ BegunOK'
   /\ ServedOK'
  BY <1>u, StoreTypesFrame, ReceiveTypesFrame, LeaseOKFrame, PlanOKFrame, RowsOKFrame,
     HistoryOKFrame, BegunOKFrame, ServedOKFrame
<1> QED BY <1>5, <1>6, <1>7, <1>8, <1>9, <1>10, <1>11, <1>12, <1>13, <1>14, <1>15, <1>16

\* The alarm renews the source lease.
LEMMA ResumeGcStep ==
  ASSUME GcInv, ResumeGc
  PROVE  GcInv'
<1> USE DEF GcInv
<1>t. /\ op \in Operation /\ worker \in [Claim -> Workers] /\ push \in [Push -> PushStates]
      /\ plan \in [Push -> Plans \cup {NoPlan}] /\ mix \in Mixed
      /\ rows \in [Pack -> {"none", "active", "superseded"}]
  BY DEF StoreTypes, ReceiveTypes, GcTypes
<1>u. UNCHANGED <<refs, refsVersion, packset, rows, bucket, staging, below, base, held, rlease,
   push, plan, handler, op, admitted, pending, worker, native, mix>>
  BY DEF ResumeGc, repository, objects, receives, collection
<1>1. /\ clease' \in [token : Claim \cup {None}, age : Ages] /\ clease'.token = clease.token
      /\ clease.age = "expired" /\ clease'.age = "live" /\ clease.token = op.snapshot.token
      /\ op.snapshot.token # None /\ op.phase \notin {"complete", "blocked"}
  BY DEF ResumeGc, GcTypes, Ages, Terminal, HasSnapshot
<1>2. \A d \in Claim : worker[d].pc # "begun"
  BY <1>1 DEF WorkersOK, OperationOK, PhaseAt
<1>3. GcTypes'
  BY <1>t, <1>1, <1>2, <1>u DEF GcTypes
<1>4. BlockedOK'
  BY <1>t, <1>1, <1>u DEF BlockedOK
<1>5. BegunOK'
  BY <1>t, <1>1, <1>2, <1>u, BegunSoft DEF Calm, Begun
<1>6. StoreTypes' /\ ReceiveTypes' /\ LeaseOK' /\ PlanOK' /\ RowsOK' /\ OperationOK' /\
   WorkersOK' /\ NativeOK' /\ OutputsOK' /\ AccountsOK' /\ SeenOK' /\ HistoryOK' /\ TargetOK' /\
   SourceOK' /\ ServedOK' /\ KeptOK'
  BY <1>u, StoreTypesFrame, ReceiveTypesFrame, LeaseOKFrame, PlanOKFrame, RowsOKFrame,
     OperationOKFrame, WorkersOKFrame, NativeOKFrame, OutputsOKFrame, AccountsOKFrame,
     SeenOKFrame, HistoryOKFrame, TargetOKFrame, SourceOKFrame, ServedOKFrame, KeptOKFrame
<1> QED BY <1>3, <1>4, <1>5, <1>6

\* A Worker claims the operation.
LEMMA ClaimGcStep ==
  ASSUME GcInv, NEW c \in Claim, ClaimGc(c)
  PROVE  GcInv'
<1> USE DEF GcInv
<1>t. /\ op \in Operation /\ worker \in [Claim -> Workers] /\ push \in [Push -> PushStates]
      /\ plan \in [Push -> Plans \cup {NoPlan}] /\ mix \in Mixed
      /\ rows \in [Pack -> {"none", "active", "superseded"}]
  BY DEF StoreTypes, ReceiveTypes, GcTypes
<1>u. UNCHANGED <<refs, refsVersion, packset, rows, bucket, staging, below, base, held, rlease,
   push, plan, handler, admitted, pending, native, mix>>
  BY DEF ClaimGc, repository, objects, receives, collection
<1>s. /\ refs \in [Ref -> Oid] /\ op.snapshot \in Snapshots
      /\ \A d \in Claim : worker[d].snapshot \in Snapshots
      /\ below \in [Push -> SUBSET Push] /\ held \in [Op -> SUBSET Push]
      /\ \A q \in Push : plan[q].new \in Oid
  BY Typed
<1>1. /\ op.phase \notin {"complete", "blocked"} /\ op.age \in {"none", "drained"} /\ ~op.waiting
  BY DEF ClaimGc, Terminal, Claimable
<1>2. \A d \in Claim : worker[d].pc \in {"gone", "commit"}
  BY <1>1 DEF WorkersOK
<1>3. native = NoJob
  BY <1>1 DEF NativeOK
<1>4. /\ \/ PhaseAtClaim = op.phase
         \/ PhaseAtClaim = "discard" /\ op.phase \in {"queued", "rewrite", "index"}
      /\ PhaseAtClaim \in {"queued", "rewrite", "index", "publish", "reclaim", "discard"}
  BY <1>t, <1>1 DEF PhaseAtClaim, Overdue, Operation, Phases
<1>5. /\ op' \in Operation /\ op'.claim = c /\ op'.age = "live" /\ op'.phase = PhaseAtClaim
      /\ op'.armed = None
      /\ op'.id = op.id /\ op'.snapshot = op.snapshot /\ op'.refsVersion = op.refsVersion
      /\ op'.packset = op.packset /\ (op'.retained <=> op.retained)
      /\ (op'.planned <=> op.planned) /\ op'.target = op.target /\ (op'.intent <=> op.intent)
      /\ (op'.indexed <=> op.indexed) /\ (op'.waiting <=> op.waiting)
  <2>1. op' = [op EXCEPT !.claim = c, !.age = "live", !.phase = PhaseAtClaim, !.armed = None]
    BY DEF ClaimGc
  <2> QED BY <1>t, <1>4, <2>1 DEF Operation, Phases, Ages
<1>6. /\ worker' \in [Claim -> Workers] /\ \A d \in Claim : d # c => worker'[d] = worker[d]
      /\ worker'[c].pc = PhaseAtClaim /\ worker'[c].op = op.id /\ worker'[c].snapshot = NoSnapshot
  <2> DEFINE w == [op |-> op.id, pc |-> PhaseAtClaim, snapshot |-> NoSnapshot]
  <2>1. worker' = [worker EXCEPT ![c] = w]
    BY DEF ClaimGc
  <2>2. op.id \in Op
    BY <1>1 DEF OperationOK
  <2>3. w \in Workers
    BY <1>4, <2>2, Nothings DEF Workers, WorkerSteps
  <2>4. w.pc = PhaseAtClaim /\ w.op = op.id /\ w.snapshot = NoSnapshot
    OBVIOUS
  <2> HIDE DEF w
  <2> QED BY <1>t, <2>1, <2>3, <2>4
<1>7. /\ clease' \in [token : Claim \cup {None}, age : Ages]
      /\ clease'.token = None <=> clease'.age = "none"
  <2>1. /\ op.snapshot.token \in Claim \cup {None}
        /\ (op.phase \in {"rewrite", "index", "publish"} => op.snapshot.token # None)
    BY <1>t DEF OperationOK, Operation, Snapshots
  <2>2. \/ clease' = clease
        \/ /\ clease' = [token |-> op.snapshot.token, age |-> "live"]
           /\ op.phase \in {"rewrite", "index", "publish"}
    BY <1>4 DEF ClaimGc
  <2> QED BY <2>1, <2>2 DEF GcTypes, Ages
<1>8. GcTypes'
  BY <1>t, Names, <1>1, <1>2, <1>3, <1>4, <1>5, <1>6, <1>7, <1>u DEF GcTypes
<1>9. OperationOK'
  BY <1>t, <1>1, <1>4, <1>5, <1>6, <1>u DEF OperationOK
<1>10. WorkersOK'
  BY <1>t, Names, <1>1, <1>2, <1>4, <1>5, <1>6, <1>u DEF WorkersOK, PhaseAt, Clean
<1>11. NativeOK'
  BY <1>t, <1>1, <1>3, <1>4, <1>5, <1>6, <1>u DEF NativeOK
<1>12. OutputsOK'
  BY <1>t, <1>1, <1>4, <1>5, <1>6, <1>u DEF OutputsOK, Clean
<1>13. BlockedOK'
  BY <1>t, <1>1, <1>4, <1>5, <1>6, <1>7, <1>u DEF BlockedOK
<1>14. AccountsOK'
  BY <1>t, <1>1, <1>4, <1>5, <1>6, <1>u, AccountsSoft DEF OwnsSource, HasSnapshot
<1>15. SeenOK'
  BY <1>t, <1>1, <1>2, <1>4, <1>5, <1>6, <1>u, <1>s, SeenSoft DEF Seen
<1>16. TargetOK'
  BY <1>t, <1>1, <1>4, <1>5, <1>6, <1>u, ClosureSame DEF TargetOK, Holds
<1>17. BegunOK'
  BY <1>t, Names, <1>1, <1>2, <1>3, <1>4, <1>5, <1>6, <1>7, <1>u, BegunSoft DEF Calm, Begun
<1>18. SourceOK'
  BY <1>t, <1>1, <1>4, <1>5, <1>6, <1>u, SourceSoft DEF Calm, OwnsSource, HasSnapshot
<1>19. KeptOK'
  BY <1>t, <1>1, <1>4, <1>5, <1>6, <1>u, KeptSoft DEF Collects, Calm, OwnsSource, HasSnapshot,
     Passed
<1>20. StoreTypes' /\ ReceiveTypes' /\ LeaseOK' /\ PlanOK' /\ RowsOK' /\ HistoryOK' /\ ServedOK'
  BY <1>u, StoreTypesFrame, ReceiveTypesFrame, LeaseOKFrame, PlanOKFrame, RowsOKFrame,
     HistoryOKFrame, ServedOKFrame
<1> QED BY <1>8, <1>9, <1>10, <1>11, <1>12, <1>13, <1>14, <1>15, <1>16, <1>17, <1>18, <1>19,
   <1>20

\* A Worker takes the source lease and a snapshot.
LEMMA BeginGcStep ==
  ASSUME GcInv, NEW c \in Claim, BeginGc(c)
  PROVE  GcInv'
<1> USE DEF GcInv
<1>t. /\ op \in Operation /\ worker \in [Claim -> Workers] /\ push \in [Push -> PushStates]
      /\ plan \in [Push -> Plans \cup {NoPlan}] /\ mix \in Mixed
      /\ rows \in [Pack -> {"none", "active", "superseded"}]
  BY DEF StoreTypes, ReceiveTypes, GcTypes
<1>u. UNCHANGED <<refs, refsVersion, packset, rows, bucket, staging, below, base, held, rlease,
   push, plan, handler, op, admitted, pending, native, mix>>
  BY DEF BeginGc, repository, objects, receives, collection
<1>s. /\ refs \in [Ref -> Oid] /\ op.snapshot \in Snapshots
      /\ \A d \in Claim : worker[d].snapshot \in Snapshots
      /\ below \in [Push -> SUBSET Push] /\ held \in [Op -> SUBSET Push]
      /\ \A q \in Push : plan[q].new \in Oid
  BY Typed
<1>1. /\ worker[c].pc = "queued" /\ rlease.age # "live" /\ op.phase = "queued" /\ op.claim = c
      /\ op.id = worker[c].op
      /\ op.age \in {"live", "expired"}
  BY DEF BeginGc, SourceQuiet, WorkersOK, PhaseAt
<1>2. /\ clease' \in [token : Claim \cup {None}, age : Ages] /\ clease'.token = c
      /\ clease'.age = "live"
  BY DEF BeginGc, Ages
<1>3. /\ worker' \in [Claim -> Workers] /\ \A d \in Claim : d # c => worker'[d] = worker[d]
      /\ worker'[c].pc = "begun" /\ worker'[c].op = worker[c].op /\ worker'[c].snapshot.token = c
      /\ worker'[c].snapshot.refs = refs /\ worker'[c].snapshot.sources = Active
      /\ worker'[c].snapshot \in Snapshots
  <2> DEFINE s == [token |-> c, refs |-> refs, sources |-> Active, refsVersion |-> refsVersion,
                   packset |-> packset]
             w == [worker[c] EXCEPT !.pc = "begun", !.snapshot = s]
  <2>1. worker' = [worker EXCEPT ![c] = w]
    BY DEF BeginGc
  <2>2. s \in Snapshots /\ s.token = c /\ s.refs = refs /\ s.sources = Active
    BY DEF StoreTypes, Snapshots, Active
  <2> HIDE DEF s
  <2>3. worker[c] \in [op : Op, pc : WorkerSteps, snapshot : Snapshots]
    BY <1>t, <1>1, Nothings DEF Workers
  <2>4. /\ w \in [op : Op, pc : WorkerSteps, snapshot : Snapshots] /\ w.pc = "begun"
        /\ w.op = worker[c].op /\ w.snapshot = s
    BY <2>2, <2>3 DEF WorkerSteps
  <2> HIDE DEF w
  <2> QED BY <1>t, <2>1, <2>2, <2>4 DEF Workers
<1>4. GcTypes'
  BY <1>t, <1>1, <1>2, <1>3, <1>u DEF GcTypes
<1>5. WorkersOK'
  BY <1>t, <1>1, <1>3, <1>u DEF WorkersOK, PhaseAt, Clean
<1>6. BlockedOK'
  BY <1>t, <1>1, <1>2, <1>3, <1>u DEF BlockedOK
<1>7. SeenOK'
  BY <1>t, <1>1, <1>3, <1>u, <1>s DEF SeenOK, Seen, Oid
<1>8. BegunOK'
  BY <1>t, <1>1, <1>2, <1>3, <1>u DEF BegunOK, Begun, Calm, Active
<1>9. StoreTypes' /\ ReceiveTypes' /\ LeaseOK' /\ PlanOK' /\ RowsOK' /\ OperationOK' /\
   NativeOK' /\ OutputsOK' /\ AccountsOK' /\ HistoryOK' /\ TargetOK' /\ SourceOK' /\ ServedOK'
   /\ KeptOK'
  BY <1>u, StoreTypesFrame, ReceiveTypesFrame, LeaseOKFrame, PlanOKFrame, RowsOKFrame,
     OperationOKFrame, NativeOKFrame, OutputsOKFrame, AccountsOKFrame, HistoryOKFrame,
     TargetOKFrame, SourceOKFrame, ServedOKFrame, KeptOKFrame
<1> QED BY <1>4, <1>5, <1>6, <1>7, <1>8, <1>9

\* It waits while the repository is busy.
LEMMA BeginRefusedStep ==
  ASSUME GcInv, NEW c \in Claim, BeginRefused(c)
  PROVE  GcInv'
<1> USE DEF GcInv
<1>t. /\ op \in Operation /\ worker \in [Claim -> Workers] /\ push \in [Push -> PushStates]
      /\ plan \in [Push -> Plans \cup {NoPlan}] /\ mix \in Mixed
      /\ rows \in [Pack -> {"none", "active", "superseded"}]
  BY DEF StoreTypes, ReceiveTypes, GcTypes
<1>u. UNCHANGED <<refs, refsVersion, packset, rows, bucket, staging, below, base, held, rlease,
   push, plan, handler, admitted, clease, pending, native, mix>>
  BY DEF BeginRefused, Yields, repository, objects, receives, collection
<1>s. /\ refs \in [Ref -> Oid] /\ op.snapshot \in Snapshots
      /\ \A d \in Claim : worker[d].snapshot \in Snapshots
      /\ below \in [Push -> SUBSET Push] /\ held \in [Op -> SUBSET Push]
      /\ \A q \in Push : plan[q].new \in Oid
  BY Typed
<1>1. /\ op' \in Operation /\ op'.claim = None /\ op'.age = "none"
      /\ op'.id = op.id /\ op'.phase = op.phase /\ op'.snapshot = op.snapshot
      /\ op'.refsVersion = op.refsVersion /\ op'.packset = op.packset
      /\ (op'.retained <=> op.retained) /\ (op'.planned <=> op.planned)
      /\ op'.target = op.target /\ (op'.intent <=> op.intent) /\ (op'.indexed <=> op.indexed)
      /\ (op'.waiting <=> op.waiting) /\ op'.armed = op.armed
  <2>1. op' = Unclaimed(op)
    BY DEF BeginRefused, Yields
  <2> QED BY <1>t, <2>1, UnclaimedFields
<1>2. /\ worker' \in [Claim -> Workers] /\ \A d \in Claim : d # c => worker'[d] = worker[d]
      /\ worker'[c].pc = "gone" /\ worker'[c].snapshot = NoSnapshot
  <2>1. Leaves(c)
    BY DEF BeginRefused, Yields
  <2> QED BY <1>t, <2>1, LeavesEffects
<1>3. worker[c].pc = "queued"
  BY DEF BeginRefused
<1>4. op.claim = c /\ op.phase = "queued"
  BY DEF BeginRefused, Owns, WorkersOK, PhaseAt
<1>5. GcTypes'
  BY <1>t, <1>1, <1>2, <1>3, <1>4, <1>u DEF GcTypes
<1>6. OperationOK'
  BY <1>t, <1>1, <1>4, <1>u DEF OperationOK
<1>7. WorkersOK'
  BY <1>t, <1>1, <1>2, <1>3, <1>4, <1>u DEF WorkersOK, PhaseAt, Clean
<1>8. NativeOK'
  BY <1>t, <1>1, <1>4, <1>u DEF NativeOK
<1>9. OutputsOK'
  BY <1>t, <1>1, <1>4, <1>u DEF OutputsOK, Clean
<1>10. BlockedOK'
  BY <1>t, <1>1, <1>4, <1>u DEF BlockedOK
<1>11. AccountsOK'
  BY <1>t, <1>1, <1>4, <1>u, AccountsSoft DEF OwnsSource, HasSnapshot
<1>12. SeenOK'
  BY <1>t, <1>1, <1>2, <1>3, <1>4, <1>u, <1>s, SeenSoft DEF Seen
<1>13. TargetOK'
  BY <1>t, <1>1, <1>4, <1>u, ClosureSame DEF TargetOK, Holds
<1>14. BegunOK'
  BY <1>t, <1>2, <1>3, <1>u, BegunSoft DEF Calm, Begun
<1>15. SourceOK'
  BY <1>t, <1>1, <1>4, <1>u, SourceSoft DEF Calm, OwnsSource, HasSnapshot
<1>16. KeptOK'
  BY <1>t, <1>1, <1>4, <1>u, KeptSoft DEF Collects, Calm, OwnsSource, HasSnapshot, Passed
<1>17. StoreTypes' /\ ReceiveTypes' /\ LeaseOK' /\ PlanOK' /\ RowsOK' /\ HistoryOK' /\ ServedOK'
  BY <1>u, StoreTypesFrame, ReceiveTypesFrame, LeaseOKFrame, PlanOKFrame, RowsOKFrame,
     HistoryOKFrame, ServedOKFrame
<1> QED BY <1>5, <1>6, <1>7, <1>8, <1>9, <1>10, <1>11, <1>12, <1>13, <1>14, <1>15, <1>16, <1>17

\* So does one that has packs to delete.
LEMMA ReclaimPendingStep ==
  ASSUME GcInv, NEW c \in Claim, ReclaimPending(c)
  PROVE  GcInv'
<1> USE DEF GcInv
<1>t. /\ op \in Operation /\ worker \in [Claim -> Workers] /\ push \in [Push -> PushStates]
      /\ plan \in [Push -> Plans \cup {NoPlan}] /\ mix \in Mixed
      /\ rows \in [Pack -> {"none", "active", "superseded"}]
  BY DEF StoreTypes, ReceiveTypes, GcTypes
<1>u. UNCHANGED <<refs, refsVersion, packset, rows, bucket, staging, below, base, held, rlease,
   push, plan, handler, admitted, clease, pending, native, mix>>
  BY DEF ReclaimPending, Yields, repository, objects, receives, collection
<1>s. /\ refs \in [Ref -> Oid] /\ op.snapshot \in Snapshots
      /\ \A d \in Claim : worker[d].snapshot \in Snapshots
      /\ below \in [Push -> SUBSET Push] /\ held \in [Op -> SUBSET Push]
      /\ \A q \in Push : plan[q].new \in Oid
  BY Typed
<1>1. /\ op' \in Operation /\ op'.claim = None /\ op'.age = "none"
      /\ op'.id = op.id /\ op'.phase = op.phase /\ op'.snapshot = op.snapshot
      /\ op'.refsVersion = op.refsVersion /\ op'.packset = op.packset
      /\ (op'.retained <=> op.retained) /\ (op'.planned <=> op.planned)
      /\ op'.target = op.target /\ (op'.intent <=> op.intent) /\ (op'.indexed <=> op.indexed)
      /\ (op'.waiting <=> op.waiting) /\ op'.armed = op.armed
  <2>1. op' = Unclaimed(op)
    BY DEF ReclaimPending, Yields
  <2> QED BY <1>t, <2>1, UnclaimedFields
<1>2. /\ worker' \in [Claim -> Workers] /\ \A d \in Claim : d # c => worker'[d] = worker[d]
      /\ worker'[c].pc = "gone" /\ worker'[c].snapshot = NoSnapshot
  <2>1. Leaves(c)
    BY DEF ReclaimPending, Yields
  <2> QED BY <1>t, <2>1, LeavesEffects
<1>3. op.claim = c /\ op.phase = "reclaim"
  BY DEF ReclaimPending, Owns, WorkersOK, PhaseAt
<1>4. GcTypes'
  BY <1>t, <1>1, <1>2, <1>3, <1>u DEF GcTypes
<1>5. OperationOK'
  BY <1>t, <1>1, <1>3, <1>u DEF OperationOK
<1>6. WorkersOK'
  BY <1>t, <1>1, <1>2, <1>3, <1>u DEF WorkersOK, PhaseAt, Clean
<1>7. NativeOK'
  BY <1>t, <1>1, <1>3, <1>u DEF NativeOK
<1>8. OutputsOK'
  BY <1>t, <1>1, <1>3, <1>u DEF OutputsOK, Clean
<1>9. BlockedOK'
  BY <1>t, <1>1, <1>3, <1>u DEF BlockedOK
<1>10. AccountsOK'
  BY <1>t, <1>1, <1>3, <1>u, AccountsSoft DEF OwnsSource, HasSnapshot
<1>11. SeenOK'
  BY <1>t, <1>1, <1>2, <1>3, <1>u, <1>s, SeenSoft DEF Seen
<1>12. TargetOK'
  BY <1>t, <1>1, <1>3, <1>u, ClosureSame DEF TargetOK, Holds
<1>13. BegunOK'
  BY <1>t, <1>2, <1>u, BegunSoft DEF Calm, Begun
<1>14. SourceOK'
  BY <1>t, <1>1, <1>3, <1>u, SourceSoft DEF Calm, OwnsSource, HasSnapshot
<1>15. KeptOK'
  BY <1>t, <1>1, <1>3, <1>u, KeptSoft DEF Collects, Calm, OwnsSource, HasSnapshot, Passed
<1>16. StoreTypes' /\ ReceiveTypes' /\ LeaseOK' /\ PlanOK' /\ RowsOK' /\ HistoryOK' /\ ServedOK'
  BY <1>u, StoreTypesFrame, ReceiveTypesFrame, LeaseOKFrame, PlanOKFrame, RowsOKFrame,
     HistoryOKFrame, ServedOKFrame
<1> QED BY <1>4, <1>5, <1>6, <1>7, <1>8, <1>9, <1>10, <1>11, <1>12, <1>13, <1>14, <1>15, <1>16

\* The snapshot becomes durable.
LEMMA RecordSnapshotStep ==
  ASSUME GcInv, NEW c \in Claim, RecordSnapshot(c)
  PROVE  GcInv'
<1> USE DEF GcInv
<1>t. /\ op \in Operation /\ worker \in [Claim -> Workers] /\ push \in [Push -> PushStates]
      /\ plan \in [Push -> Plans \cup {NoPlan}] /\ mix \in Mixed
      /\ rows \in [Pack -> {"none", "active", "superseded"}]
  BY DEF StoreTypes, ReceiveTypes, GcTypes
<1>u. UNCHANGED <<refs, refsVersion, packset, rows, bucket, staging, below, base, held, rlease,
   push, plan, handler, admitted, clease, pending, native, mix>>
  BY DEF RecordSnapshot, repository, objects, receives, collection
<1>s. /\ refs \in [Ref -> Oid] /\ op.snapshot \in Snapshots
      /\ \A d \in Claim : worker[d].snapshot \in Snapshots
      /\ below \in [Push -> SUBSET Push] /\ held \in [Op -> SUBSET Push]
      /\ \A q \in Push : plan[q].new \in Oid
  BY Typed
<1>1. /\ Begun(c) /\ op.claim = c /\ op.age = "live" /\ op.phase = "queued" /\ op.id = worker[c].op
      /\ worker[c].pc = "begun" /\ worker[c].snapshot.token = c /\ worker[c].snapshot \in Snapshots
  BY <1>s DEF RecordSnapshot, SnapshotCurrent, Owns, Begun, WorkersOK
<1>2. \A d \in Claim : d # c => worker[d].pc \in {"gone", "commit"}
  BY <1>1 DEF WorkersOK
<1>3. /\ op' \in Operation /\ op'.phase = "rewrite" /\ op'.snapshot = worker[c].snapshot
      /\ op'.refsVersion = refsVersion /\ op'.packset = packset
      /\ op'.id = op.id /\ op'.claim = op.claim /\ op'.age = op.age
      /\ (op'.retained <=> op.retained) /\ (op'.planned <=> op.planned)
      /\ op'.target = op.target /\ (op'.intent <=> op.intent) /\ (op'.indexed <=> op.indexed)
      /\ (op'.waiting <=> op.waiting) /\ op'.armed = op.armed
  <2>1. op' = [op EXCEPT !.phase = "rewrite", !.snapshot = worker[c].snapshot,
                        !.refsVersion = refsVersion, !.packset = packset]
    BY DEF RecordSnapshot
  <2>2. refsVersion \in Nat /\ packset \in Nat
    BY DEF StoreTypes
  <2> QED BY <1>t, <1>1, <2>1, <2>2 DEF Operation, Phases
<1>4. /\ worker' \in [Claim -> Workers] /\ \A d \in Claim : d # c => worker'[d] = worker[d]
      /\ worker'[c].pc = "rewrite" /\ worker'[c].op = worker[c].op
      /\ worker'[c].snapshot = NoSnapshot
  <2> DEFINE w == [worker[c] EXCEPT !.pc = "rewrite", !.snapshot = NoSnapshot]
  <2>1. worker' = [worker EXCEPT ![c] = w]
    BY DEF RecordSnapshot
  <2>2. worker[c] \in [op : Op, pc : WorkerSteps, snapshot : Snapshots]
    BY <1>t, <1>1, Nothings DEF Workers
  <2>3. /\ w \in [op : Op, pc : WorkerSteps, snapshot : Snapshots] /\ w.pc = "rewrite"
        /\ w.op = worker[c].op /\ w.snapshot = NoSnapshot
    BY <2>2, Nothings DEF WorkerSteps
  <2> HIDE DEF w
  <2> QED BY <1>t, <2>1, <2>3 DEF Workers
<1>5. ~op.planned /\ ~op.intent /\ native = NoJob
  BY <1>1 DEF OperationOK, NativeOK
<1>6. Calm => /\ op'.snapshot.refs = refs /\ op'.snapshot.sources = Active /\ rlease.age # "live"
  BY <1>1, <1>3 DEF BegunOK
<1>7. GcTypes'
  BY <1>t, <1>1, <1>2, <1>3, <1>4, <1>5, <1>6, <1>u DEF GcTypes
<1>8. OperationOK'
  BY <1>t, Names, <1>1, <1>3, <1>4, <1>5, <1>6, <1>u DEF OperationOK
<1>9. WorkersOK'
  BY <1>t, <1>1, <1>2, <1>3, <1>4, <1>5, <1>6, <1>u DEF WorkersOK, PhaseAt, Clean
<1>10. NativeOK'
  BY <1>t, <1>1, <1>3, <1>4, <1>5, <1>6, <1>u DEF NativeOK
<1>11. OutputsOK'
  BY <1>t, <1>1, <1>3, <1>4, <1>5, <1>6, <1>u DEF OutputsOK, Clean
<1>12. BlockedOK'
  BY <1>t, <1>1, <1>3, <1>4, <1>5, <1>6, <1>u DEF BlockedOK
<1>13. AccountsOK'
  BY <1>t, <1>1, <1>3, <1>4, <1>5, <1>6, <1>u DEF AccountsOK, VersionsMatch, HasIntent, HasPack
<1>14. SeenOK'
  BY <1>t, <1>1, <1>2, <1>3, <1>4, <1>5, <1>6, <1>u, <1>s, Nothings DEF SeenOK, Seen, Oid,
     Snapshots
<1>15. TargetOK'
  BY <1>t, <1>1, <1>3, <1>4, <1>5, <1>6, <1>u, ClosureSame DEF TargetOK, Holds
<1>16. BegunOK'
  BY <1>t, <1>1, <1>2, <1>3, <1>4, <1>6, <1>u, BegunSoft DEF Calm, Begun
<1>17. SourceOK'
  <2> SUFFICES ASSUME Calm, NEW p \in Push
               PROVE  /\ p \in Active => push[p] = "done"
                      /\ push[p] # "proved"
    BY <1>t, Names, <1>1, <1>2, <1>3, <1>4, <1>5, <1>6, <1>u DEF SourceOK, Calm
  <2>1. rlease.age # "live" /\ ~mix.late
    BY <1>6 DEF Calm
  <2>2. ~HasIntent(p) /\ push[p] # "proved"
    BY <2>1 DEF LeaseOK
  <2> QED BY <2>2, Names DEF Active, RowsOK, HasIntent
<1>18. KeptOK'
  <2> SUFFICES ASSUME Collects' PROVE KeptOK'
    BY DEF KeptOK
  <2>1. Calm /\ op'.snapshot.refs = refs /\ op'.snapshot.sources = Active /\ rlease.age # "live"
    BY <1>6, <1>u DEF Collects, Calm
  <2>2. \A n \in Ref : refs'[n] # None => IsKept(refs[n])'
    BY <2>1, <1>u DEF IsKept, GcClosure, Closure, Wants
  <2>3. \A x : ~IsOutside(x)'
    BY <2>1, <1>u DEF IsOutside, Active
  <2>4. \A p \in Push : ~Passed(p)'
    BY <2>1, <1>u, Names DEF Passed, LeaseOK, HasIntent, Calm
  <2> QED BY <2>2, <2>3, <2>4 DEF KeptOK
<1>19. StoreTypes' /\ ReceiveTypes' /\ LeaseOK' /\ PlanOK' /\ RowsOK' /\ HistoryOK' /\ ServedOK'
  BY <1>u, StoreTypesFrame, ReceiveTypesFrame, LeaseOKFrame, PlanOKFrame, RowsOKFrame,
     HistoryOKFrame, ServedOKFrame
<1> QED BY <1>7, <1>8, <1>9, <1>10, <1>11, <1>12, <1>13, <1>14, <1>15, <1>16, <1>17, <1>18,
   <1>19

\* A snapshot that is not current is dropped.
LEMMA AbortSnapshotStep ==
  ASSUME GcInv, NEW c \in Claim, AbortSnapshot(c)
  PROVE  GcInv'
<1> USE DEF GcInv
<1>t. /\ op \in Operation /\ worker \in [Claim -> Workers] /\ push \in [Push -> PushStates]
      /\ plan \in [Push -> Plans \cup {NoPlan}] /\ mix \in Mixed
      /\ rows \in [Pack -> {"none", "active", "superseded"}]
  BY DEF StoreTypes, ReceiveTypes, GcTypes
<1>u. UNCHANGED <<refs, refsVersion, packset, rows, bucket, staging, below, base, held, rlease,
   push, plan, handler, admitted, pending, native, mix>>
  BY DEF AbortSnapshot, repository, objects, receives, collection
<1>s. /\ refs \in [Ref -> Oid] /\ op.snapshot \in Snapshots
      /\ \A d \in Claim : worker[d].snapshot \in Snapshots
      /\ below \in [Push -> SUBSET Push] /\ held \in [Op -> SUBSET Push]
      /\ \A q \in Push : plan[q].new \in Oid
  BY Typed
<1>1. /\ worker[c].pc = "begun" /\ op.claim = c /\ op.phase = "queued"
  BY DEF AbortSnapshot, WorkersOK, PhaseAt
<1>2. /\ op' \in Operation /\ (op'.claim = None <=> op'.age = "none")
      /\ (op'.claim = op.claim /\ op'.age = op.age) \/ op'.claim = None
      /\ op'.id = op.id /\ op'.phase = op.phase /\ op'.snapshot = op.snapshot
      /\ op'.refsVersion = op.refsVersion /\ op'.packset = op.packset
      /\ (op'.retained <=> op.retained) /\ (op'.planned <=> op.planned)
      /\ op'.target = op.target /\ (op'.intent <=> op.intent) /\ (op'.indexed <=> op.indexed)
      /\ (op'.waiting <=> op.waiting) /\ op'.armed = op.armed
  <2>1. op' = op \/ op' = Unclaimed(op)
    BY DEF AbortSnapshot
  <2> QED BY <1>t, <2>1, UnclaimedFields DEF GcTypes
<1>3. /\ worker' \in [Claim -> Workers] /\ \A d \in Claim : d # c => worker'[d] = worker[d]
      /\ worker'[c].pc = "gone" /\ worker'[c].snapshot = NoSnapshot
  <2>1. Leaves(c)
    BY DEF AbortSnapshot
  <2> QED BY <1>t, <2>1, LeavesEffects
<1>4. /\ clease' = NoLease \/ clease' = clease
  BY DEF AbortSnapshot
<1>5. native = NoJob
  BY <1>1 DEF NativeOK
<1>6. GcTypes'
  BY <1>t, <1>1, <1>2, <1>3, <1>4, <1>5, <1>u, Nothings DEF GcTypes
<1>7. OperationOK'
  BY <1>t, <1>1, <1>2, <1>u DEF OperationOK
<1>8. WorkersOK'
  BY <1>t, <1>1, <1>2, <1>3, <1>u DEF WorkersOK, PhaseAt, Clean
<1>9. NativeOK'
  BY <1>t, <1>1, <1>2, <1>5, <1>u DEF NativeOK
<1>10. OutputsOK'
  BY <1>t, <1>1, <1>2, <1>u DEF OutputsOK, Clean
<1>11. BlockedOK'
  BY <1>t, <1>1, <1>2, <1>4, <1>u, Nothings DEF BlockedOK
<1>12. AccountsOK'
  BY <1>t, <1>1, <1>2, <1>u, AccountsSoft DEF OwnsSource, HasSnapshot
<1>13. SeenOK'
  BY <1>t, <1>1, <1>2, <1>3, <1>u, <1>s, SeenSoft DEF Seen
<1>14. TargetOK'
  BY <1>t, <1>1, <1>2, <1>u, ClosureSame DEF TargetOK, Holds
<1>15. BegunOK'
  BY <1>t, <1>1, <1>3, <1>4, <1>u, Nothings, BegunSoft DEF Calm, Begun
<1>16. SourceOK'
  BY <1>t, <1>1, <1>2, <1>u, SourceSoft DEF Calm, OwnsSource, HasSnapshot
<1>17. KeptOK'
  BY <1>t, <1>1, <1>2, <1>u, KeptSoft DEF Collects, Calm, OwnsSource, HasSnapshot, Passed
<1>18. StoreTypes' /\ ReceiveTypes' /\ LeaseOK' /\ PlanOK' /\ RowsOK' /\ HistoryOK' /\ ServedOK'
  BY <1>u, StoreTypesFrame, ReceiveTypesFrame, LeaseOKFrame, PlanOKFrame, RowsOKFrame,
     HistoryOKFrame, ServedOKFrame
<1> QED BY <1>6, <1>7, <1>8, <1>9, <1>10, <1>11, <1>12, <1>13, <1>14, <1>15, <1>16, <1>17, <1>18

\* Refs without packs block the operation.
LEMMA PlanBlocks ==
  ASSUME GcInv, NEW c \in Claim, PlanGc(c), BlockGc, Leaves(c)
  PROVE  GcInv'
<1> USE DEF GcInv
<1>t. /\ op \in Operation /\ worker \in [Claim -> Workers] /\ push \in [Push -> PushStates]
      /\ plan \in [Push -> Plans \cup {NoPlan}] /\ mix \in Mixed
      /\ rows \in [Pack -> {"none", "active", "superseded"}]
  BY DEF StoreTypes, ReceiveTypes, GcTypes
<1>u. UNCHANGED <<refs, refsVersion, packset, rows, bucket, staging, below, base, held, rlease,
   push, plan, handler, admitted, native, mix>>
  BY DEF PlanGc, repository, objects, receives, collection
<1>s. /\ refs \in [Ref -> Oid] /\ op.snapshot \in Snapshots
      /\ \A d \in Claim : worker[d].snapshot \in Snapshots
      /\ below \in [Push -> SUBSET Push] /\ held \in [Op -> SUBSET Push]
      /\ \A q \in Push : plan[q].new \in Oid
  BY Typed
<1>1. /\ op.claim = c /\ op.phase = "rewrite" /\ op.id = worker[c].op /\ op.id \in Op /\ ~op.waiting
      /\ ~op.planned /\ ~op.intent
  BY Names DEF PlanGc, Owns, WorkersOK, PhaseAt, OperationOK
<1>2. op.phase # "complete" /\ Clean(op.id) /\ native = NoJob /\ rows[op.id] = "none"
  BY <1>1 DEF OutputsOK, NativeOK
<1>3. /\ op' \in Operation /\ op'.phase = "blocked" /\ op'.claim = None /\ op'.age = "none"
      /\ ~op'.intent /\ ~op'.planned
      /\ ~op'.retained /\ ~op'.indexed /\ ~op'.waiting /\ op'.id = op.id
      /\ op'.snapshot = op.snapshot
      /\ op'.id = op.id
  <2>1. op' = Ended(op, "blocked")
    BY DEF PlanGc, BlockGc
  <2> QED BY <1>t, <2>1, EndedFields DEF Phases
<1>4. /\ worker' \in [Claim -> Workers] /\ \A d \in Claim : d # c => worker'[d] = worker[d]
      /\ worker'[c].pc = "gone" /\ worker'[c].snapshot = NoSnapshot
  <2>1. Leaves(c)
    BY DEF PlanGc
  <2> QED BY <1>t, <2>1, LeavesEffects
<1>5. /\ clease' \in [token : Claim \cup {None}, age : Ages]
      /\ (clease'.token = None <=> clease'.age = "none")
      /\ clease' = NoLease \/ clease' = clease
      /\ clease'.token = None \/ clease'.token # op.snapshot.token
      /\ pending' \in Op \cup {None} /\ pending' # op.id
  BY <1>1, Nothings, Names DEF PlanGc, BlockGc, GcTypes
<1>6. GcTypes'
  BY <1>t, <1>1, <1>2, <1>3, <1>4, <1>5, <1>u DEF GcTypes
<1>7. OperationOK'
  BY <1>t, <1>1, <1>2, <1>3, <1>5, <1>u DEF OperationOK
<1>8. WorkersOK'
  BY <1>t, <1>1, <1>2, <1>3, <1>4, <1>5, <1>u DEF WorkersOK, PhaseAt, Clean
<1>9. NativeOK'
  BY <1>t, <1>1, <1>2, <1>3, <1>5, <1>u DEF NativeOK
<1>10. OutputsOK'
  BY <1>t, <1>1, <1>2, <1>3, <1>5, <1>u DEF OutputsOK, Clean
<1>11. BlockedOK'
  BY <1>t, <1>1, <1>2, <1>3, <1>5 DEF BlockedOK
<1>12. AccountsOK'
  BY <1>t, <1>1, <1>2, <1>3, <1>5, <1>u DEF AccountsOK, OwnsSource
<1>13. SeenOK'
  BY <1>t, <1>1, <1>2, <1>3, <1>4, <1>5, <1>u, <1>s, SeenSoft DEF Seen
<1>14. TargetOK'
  BY <1>t, <1>1, <1>2, <1>3, <1>5, <1>u, ClosureSame DEF TargetOK, Holds
<1>15. BegunOK'
  BY <1>t, <1>1, <1>2, <1>4, <1>5, <1>u, Nothings, BegunSoft DEF Calm, Begun
<1>16. SourceOK'
  BY <1>t, <1>1, <1>2, <1>3, <1>5, <1>u DEF SourceOK, OwnsSource
<1>17. KeptOK'
  BY <1>t, <1>1, <1>2, <1>3, <1>5, <1>u DEF KeptOK, Collects, OwnsSource
<1>18. StoreTypes' /\ ReceiveTypes' /\ LeaseOK' /\ PlanOK' /\ RowsOK' /\ HistoryOK' /\ ServedOK'
  BY <1>u, StoreTypesFrame, ReceiveTypesFrame, LeaseOKFrame, PlanOKFrame, RowsOKFrame,
     HistoryOKFrame, ServedOKFrame
<1> QED BY <1>6, <1>7, <1>8, <1>9, <1>10, <1>11, <1>12, <1>13, <1>14, <1>15, <1>16, <1>17, <1>18

\* A source that is the closure is kept, or nothing is reachable.
LEMMA PlanKeeps ==
  ASSUME GcInv, NEW c \in Claim, PlanGc(c), NEW k, (GcClosure = {} /\ k = None) \/ (GcClosure #
     {} /\ k \in ExactPacks), op' = [MoveTo(op, "publish") EXCEPT !.planned = TRUE, !.target =
     k], Leaves(c), UNCHANGED <<clease, pending>>
  PROVE  GcInv'
<1> USE DEF GcInv
<1>t. /\ op \in Operation /\ worker \in [Claim -> Workers] /\ push \in [Push -> PushStates]
      /\ plan \in [Push -> Plans \cup {NoPlan}] /\ mix \in Mixed
      /\ rows \in [Pack -> {"none", "active", "superseded"}]
  BY DEF StoreTypes, ReceiveTypes, GcTypes
<1>u. UNCHANGED <<refs, refsVersion, packset, rows, bucket, staging, below, base, held, rlease,
   push, plan, handler, admitted, clease, pending, native, mix>>
  BY DEF PlanGc, repository, objects, receives, collection
<1>s. /\ refs \in [Ref -> Oid] /\ op.snapshot \in Snapshots
      /\ \A d \in Claim : worker[d].snapshot \in Snapshots
      /\ below \in [Push -> SUBSET Push] /\ held \in [Op -> SUBSET Push]
      /\ \A q \in Push : plan[q].new \in Oid
  BY Typed
<1>1. /\ op.claim = c /\ op.phase = "rewrite" /\ op.id = worker[c].op /\ op.id \in Op /\ ~op.waiting
      /\ ~op.planned /\ ~op.intent /\ ~op.indexed
  BY Names DEF PlanGc, Owns, WorkersOK, PhaseAt, OperationOK
<1>2. op.phase # "complete" /\ Clean(op.id) /\ native = NoJob /\ rows[op.id] = "none"
  BY <1>1 DEF OutputsOK, NativeOK
<1>3. /\ k \in Pack \cup {None}
      /\ ((k = None /\ GcClosure = {}) \/ (k \in op.snapshot.sources /\ Holds(k) = GcClosure))
  <2>1. op.snapshot.sources \subseteq Pack
    BY <1>t DEF Operation, Snapshots
  <2> QED BY <2>1 DEF ExactPacks, Sources
<1>4. /\ op' \in Operation /\ op'.phase = "publish" /\ op'.claim = None /\ op'.age = "none"
      /\ op'.planned /\ op'.target = k
      /\ op'.id = op.id /\ op'.snapshot = op.snapshot /\ op'.refsVersion = op.refsVersion
      /\ op'.packset = op.packset /\ (op'.retained <=> op.retained)
      /\ (op'.intent <=> op.intent) /\ (op'.indexed <=> op.indexed)
      /\ (op'.waiting <=> op.waiting) /\ op'.armed = op.armed
  <2> DEFINE m == MoveTo(op, "publish")
  <2>1. /\ m \in Operation /\ m.phase = "publish" /\ m.claim = None /\ m.age = "none"
        /\ m.id = op.id /\ m.snapshot = op.snapshot /\ m.refsVersion = op.refsVersion
        /\ m.packset = op.packset /\ (m.retained <=> op.retained) /\ (m.planned <=> op.planned)
        /\ m.target = op.target /\ (m.intent <=> op.intent) /\ (m.indexed <=> op.indexed)
        /\ (m.waiting <=> op.waiting) /\ m.armed = op.armed
    BY <1>t, MoveToFields DEF Phases
  <2>2. op' = [m EXCEPT !.planned = TRUE, !.target = k]
    OBVIOUS
  <2> HIDE DEF m
  <2>3. op'.planned = TRUE /\ op'.target = k
    BY <2>1, <2>2 DEF Operation
  <2>4. op' \in Operation
    BY <1>3, <2>1, <2>2 DEF Operation
  <2>5. /\ op'.phase = m.phase /\ op'.claim = m.claim /\ op'.age = m.age
        /\ op'.id = m.id /\ op'.snapshot = m.snapshot /\ op'.refsVersion = m.refsVersion
        /\ op'.packset = m.packset /\ (op'.retained <=> m.retained)
        /\ (op'.intent <=> m.intent) /\ (op'.indexed <=> m.indexed)
        /\ (op'.waiting <=> m.waiting) /\ op'.armed = m.armed
    BY <2>1, <2>2 DEF Operation
  <2> QED BY <2>1, <2>3, <2>4, <2>5
<1>5. /\ worker' \in [Claim -> Workers] /\ \A d \in Claim : d # c => worker'[d] = worker[d]
      /\ worker'[c].pc = "gone" /\ worker'[c].snapshot = NoSnapshot
  <2>1. Leaves(c)
    BY DEF PlanGc
  <2> QED BY <1>t, <2>1, LeavesEffects
<1>6. GcTypes'
  BY <1>t, <1>1, <1>2, <1>3, <1>4, <1>5, <1>u DEF GcTypes
<1>7. OperationOK'
  BY <1>t, <1>1, <1>2, <1>3, <1>4, <1>u DEF OperationOK
<1>8. WorkersOK'
  BY <1>t, <1>1, <1>2, <1>3, <1>4, <1>5, <1>u DEF WorkersOK, PhaseAt, Clean
<1>9. NativeOK'
  BY <1>t, <1>1, <1>2, <1>3, <1>4, <1>u DEF NativeOK
<1>10. OutputsOK'
  BY <1>t, <1>1, <1>2, <1>3, <1>4, <1>u DEF OutputsOK, Clean
<1>11. BlockedOK'
  BY <1>t, <1>1, <1>2, <1>3, <1>4, <1>u DEF BlockedOK
<1>12. AccountsOK'
  BY <1>t, <1>1, <1>2, <1>3, <1>4, <1>u, AccountsSoft DEF OwnsSource, HasSnapshot
<1>13. SeenOK'
  BY <1>t, <1>1, <1>2, <1>3, <1>4, <1>5, <1>u, <1>s, SeenSoft DEF Seen
<1>14. TargetOK'
  BY <1>t, <1>1, <1>2, <1>3, <1>4, <1>u, ClosureSame DEF TargetOK, Holds
<1>15. BegunOK'
  BY <1>t, <1>1, <1>2, <1>5, <1>u, BegunSoft DEF Calm, Begun
<1>16. SourceOK'
  BY <1>t, <1>1, <1>2, <1>3, <1>4, <1>u, SourceSoft DEF Calm, OwnsSource, HasSnapshot
<1>17. KeptOK'
  BY <1>t, <1>1, <1>2, <1>3, <1>4, <1>u, KeptSoft DEF Collects, Calm, OwnsSource, HasSnapshot,
     Passed
<1>18. StoreTypes' /\ ReceiveTypes' /\ LeaseOK' /\ PlanOK' /\ RowsOK' /\ HistoryOK' /\ ServedOK'
  BY <1>u, StoreTypesFrame, ReceiveTypesFrame, LeaseOKFrame, PlanOKFrame, RowsOKFrame,
     HistoryOKFrame, ServedOKFrame
<1> QED BY <1>6, <1>7, <1>8, <1>9, <1>10, <1>11, <1>12, <1>13, <1>14, <1>15, <1>16, <1>17, <1>18

\* Or the closure is recorded.
LEMMA PlanGoes ==
  ASSUME GcInv, NEW c \in Claim, PlanGc(c), op' = [op EXCEPT !.planned = TRUE], UNCHANGED
     <<worker, clease, pending>>
  PROVE  GcInv'
<1> USE DEF GcInv
<1>t. /\ op \in Operation /\ worker \in [Claim -> Workers] /\ push \in [Push -> PushStates]
      /\ plan \in [Push -> Plans \cup {NoPlan}] /\ mix \in Mixed
      /\ rows \in [Pack -> {"none", "active", "superseded"}]
  BY DEF StoreTypes, ReceiveTypes, GcTypes
<1>u. UNCHANGED <<refs, refsVersion, packset, rows, bucket, staging, below, base, held, rlease,
   push, plan, handler, admitted, clease, pending, worker, native, mix>>
  BY DEF PlanGc, repository, objects, receives, collection
<1>s. /\ refs \in [Ref -> Oid] /\ op.snapshot \in Snapshots
      /\ \A d \in Claim : worker[d].snapshot \in Snapshots
      /\ below \in [Push -> SUBSET Push] /\ held \in [Op -> SUBSET Push]
      /\ \A q \in Push : plan[q].new \in Oid
  BY Typed
<1>1. /\ op.claim = c /\ op.phase = "rewrite" /\ op.id = worker[c].op /\ op.id \in Op /\ ~op.waiting
      /\ ~op.planned /\ ~op.intent
  BY Names DEF PlanGc, Owns, WorkersOK, PhaseAt, OperationOK
<1>2. /\ op' \in Operation /\ op'.planned
      /\ op'.id = op.id /\ op'.phase = op.phase /\ op'.claim = op.claim /\ op'.age = op.age
      /\ op'.snapshot = op.snapshot /\ op'.refsVersion = op.refsVersion
      /\ op'.packset = op.packset /\ (op'.retained <=> op.retained) /\ op'.target = op.target
      /\ (op'.intent <=> op.intent) /\ (op'.indexed <=> op.indexed)
      /\ (op'.waiting <=> op.waiting) /\ op'.armed = op.armed
  <2>1. op'.planned = TRUE
    BY <1>t DEF Operation
  <2> QED BY <1>t, <2>1 DEF Operation
<1>3. GcTypes'
  BY <1>t, <1>1, <1>2, <1>u DEF GcTypes
<1>4. OperationOK'
  BY <1>t, <1>1, <1>2, <1>u DEF OperationOK
<1>5. WorkersOK'
  BY <1>t, <1>1, <1>2, <1>u DEF WorkersOK, PhaseAt, Clean
<1>6. NativeOK'
  BY <1>t, <1>1, <1>2, <1>u DEF NativeOK
<1>7. OutputsOK'
  BY <1>t, <1>1, <1>2, <1>u DEF OutputsOK, Clean
<1>8. BlockedOK'
  BY <1>t, <1>1, <1>2, <1>u DEF BlockedOK
<1>9. AccountsOK'
  BY <1>t, <1>1, <1>2, <1>u, AccountsSoft DEF OwnsSource, HasSnapshot
<1>10. SeenOK'
  BY <1>t, <1>1, <1>2, <1>u, <1>s, SeenSoft DEF Seen
<1>11. TargetOK'
  BY <1>t, <1>1, <1>2, <1>u, ClosureSame DEF TargetOK, Holds
<1>12. SourceOK'
  BY <1>t, <1>1, <1>2, <1>u, SourceSoft DEF Calm, OwnsSource, HasSnapshot
<1>13. KeptOK'
  BY <1>t, <1>1, <1>2, <1>u, KeptSoft DEF Collects, Calm, OwnsSource, HasSnapshot, Passed
<1>14. StoreTypes' /\ ReceiveTypes' /\ LeaseOK' /\ PlanOK' /\ RowsOK' /\ HistoryOK' /\ BegunOK'
   /\ ServedOK'
  BY <1>u, StoreTypesFrame, ReceiveTypesFrame, LeaseOKFrame, PlanOKFrame, RowsOKFrame,
     HistoryOKFrame, BegunOKFrame, ServedOKFrame
<1> QED BY <1>3, <1>4, <1>5, <1>6, <1>7, <1>8, <1>9, <1>10, <1>11, <1>12, <1>13, <1>14

\* The objects are selected.
LEMMA SelectObjectsStep ==
  ASSUME GcInv, NEW c \in Claim, SelectObjects(c)
  PROVE  GcInv'
<1> USE DEF GcInv
<1>t. /\ op \in Operation /\ worker \in [Claim -> Workers] /\ push \in [Push -> PushStates]
      /\ plan \in [Push -> Plans \cup {NoPlan}] /\ mix \in Mixed
      /\ rows \in [Pack -> {"none", "active", "superseded"}]
  BY DEF StoreTypes, ReceiveTypes, GcTypes
<1>u. UNCHANGED <<refs, refsVersion, packset, rows, bucket, staging, below, base, held, rlease,
   push, plan, handler, op, admitted, clease, pending, native, mix>>
  BY DEF SelectObjects, repository, objects, receives, collection
<1>s. /\ refs \in [Ref -> Oid] /\ op.snapshot \in Snapshots
      /\ \A d \in Claim : worker[d].snapshot \in Snapshots
      /\ below \in [Push -> SUBSET Push] /\ held \in [Op -> SUBSET Push]
      /\ \A q \in Push : plan[q].new \in Oid
  BY Typed
<1>1. worker[c].pc = "rewrite" /\ op.planned
  BY DEF SelectObjects
<1>2. /\ worker' \in [Claim -> Workers] /\ \A d \in Claim : d # c => worker'[d] = worker[d]
      /\ worker'[c].pc = "upload" /\ worker'[c].op = worker[c].op
      /\ worker'[c].snapshot = worker[c].snapshot
  <2>1. Step(c, "upload") /\ worker[c].pc # "gone"
    BY DEF SelectObjects
  <2> QED BY <1>t, <2>1, StepEffects DEF WorkerSteps
<1>3. GcTypes'
  BY <1>t, <1>1, <1>2, <1>u DEF GcTypes
<1>4. WorkersOK'
  BY <1>t, <1>1, <1>2, <1>u DEF WorkersOK, PhaseAt, Clean
<1>5. SeenOK'
  BY <1>t, <1>1, <1>2, <1>u, <1>s, SeenSoft DEF Seen
<1>6. BegunOK'
  BY <1>t, <1>1, <1>2, <1>u, BegunSoft DEF Calm, Begun
<1>7. StoreTypes' /\ ReceiveTypes' /\ LeaseOK' /\ PlanOK' /\ RowsOK' /\ OperationOK' /\
   NativeOK' /\ OutputsOK' /\ BlockedOK' /\ AccountsOK' /\ HistoryOK' /\ TargetOK' /\ SourceOK'
   /\ ServedOK' /\ KeptOK'
  BY <1>u, StoreTypesFrame, ReceiveTypesFrame, LeaseOKFrame, PlanOKFrame, RowsOKFrame,
     OperationOKFrame, NativeOKFrame, OutputsOKFrame, BlockedOKFrame, AccountsOKFrame,
     HistoryOKFrame, TargetOKFrame, SourceOKFrame, ServedOKFrame, KeptOKFrame
<1> QED BY <1>3, <1>4, <1>5, <1>6, <1>7

\* A rewrite that wrote nothing blocks the operation.
LEMMA RewriteFails ==
  ASSUME GcInv, NEW c \in Claim, RewriteRejected(c), ~op.intent, BlockGc
  PROVE  GcInv'
<1> USE DEF GcInv
<1>t. /\ op \in Operation /\ worker \in [Claim -> Workers] /\ push \in [Push -> PushStates]
      /\ plan \in [Push -> Plans \cup {NoPlan}] /\ mix \in Mixed
      /\ rows \in [Pack -> {"none", "active", "superseded"}]
  BY DEF StoreTypes, ReceiveTypes, GcTypes
<1>u. UNCHANGED <<refs, refsVersion, packset, rows, bucket, staging, below, base, held, rlease,
   push, plan, handler, admitted, native, mix>>
  BY DEF RewriteRejected, repository, objects, receives, collection
<1>s. /\ refs \in [Ref -> Oid] /\ op.snapshot \in Snapshots
      /\ \A d \in Claim : worker[d].snapshot \in Snapshots
      /\ below \in [Push -> SUBSET Push] /\ held \in [Op -> SUBSET Push]
      /\ \A q \in Push : plan[q].new \in Oid
  BY Typed
<1>1. op.claim = c /\ op.phase = "rewrite" /\ op.id = worker[c].op /\ op.id \in Op /\ ~op.waiting
  BY Names DEF RewriteRejected, Owns, WorkersOK, PhaseAt, OperationOK
<1>2. op.phase # "complete" /\ Clean(op.id) /\ native = NoJob /\ rows[op.id] = "none"
  BY <1>1 DEF OutputsOK, NativeOK
<1>3. /\ op' \in Operation /\ op'.phase = "blocked" /\ op'.claim = None /\ op'.age = "none"
      /\ ~op'.intent /\ ~op'.planned
      /\ ~op'.retained /\ ~op'.indexed /\ ~op'.waiting /\ op'.id = op.id
      /\ op'.snapshot = op.snapshot
      /\ op'.id = op.id
  <2>1. op' = Ended(op, "blocked")
    BY DEF RewriteRejected, BlockGc
  <2> QED BY <1>t, <2>1, EndedFields DEF Phases
<1>4. /\ worker' \in [Claim -> Workers] /\ \A d \in Claim : d # c => worker'[d] = worker[d]
      /\ worker'[c].pc = "gone" /\ worker'[c].snapshot = NoSnapshot
  <2>1. Leaves(c)
    BY DEF RewriteRejected
  <2> QED BY <1>t, <2>1, LeavesEffects
<1>5. /\ clease' \in [token : Claim \cup {None}, age : Ages]
      /\ (clease'.token = None <=> clease'.age = "none")
      /\ clease' = NoLease \/ clease' = clease
      /\ clease'.token = None \/ clease'.token # op.snapshot.token
      /\ pending' \in Op \cup {None} /\ pending' # op.id
  BY <1>1, Nothings, Names DEF RewriteRejected, BlockGc, GcTypes
<1>6. GcTypes'
  BY <1>t, <1>1, <1>2, <1>3, <1>4, <1>5, <1>u DEF GcTypes
<1>7. OperationOK'
  BY <1>t, <1>1, <1>2, <1>3, <1>5, <1>u DEF OperationOK
<1>8. WorkersOK'
  BY <1>t, <1>1, <1>2, <1>3, <1>4, <1>5, <1>u DEF WorkersOK, PhaseAt, Clean
<1>9. NativeOK'
  BY <1>t, <1>1, <1>2, <1>3, <1>5, <1>u DEF NativeOK
<1>10. OutputsOK'
  BY <1>t, <1>1, <1>2, <1>3, <1>5, <1>u DEF OutputsOK, Clean
<1>11. BlockedOK'
  BY <1>t, <1>1, <1>2, <1>3, <1>5 DEF BlockedOK
<1>12. AccountsOK'
  BY <1>t, <1>1, <1>2, <1>3, <1>5, <1>u DEF AccountsOK, OwnsSource
<1>13. SeenOK'
  BY <1>t, <1>1, <1>2, <1>3, <1>4, <1>5, <1>u, <1>s, SeenSoft DEF Seen
<1>14. TargetOK'
  BY <1>t, <1>1, <1>2, <1>3, <1>5, <1>u, ClosureSame DEF TargetOK, Holds
<1>15. BegunOK'
  BY <1>t, <1>1, <1>2, <1>4, <1>5, <1>u, Nothings, BegunSoft DEF Calm, Begun
<1>16. SourceOK'
  BY <1>t, <1>1, <1>2, <1>3, <1>5, <1>u DEF SourceOK, OwnsSource
<1>17. KeptOK'
  BY <1>t, <1>1, <1>2, <1>3, <1>5, <1>u DEF KeptOK, Collects, OwnsSource
<1>18. StoreTypes' /\ ReceiveTypes' /\ LeaseOK' /\ PlanOK' /\ RowsOK' /\ HistoryOK' /\ ServedOK'
  BY <1>u, StoreTypesFrame, ReceiveTypesFrame, LeaseOKFrame, PlanOKFrame, RowsOKFrame,
     HistoryOKFrame, ServedOKFrame
<1> QED BY <1>6, <1>7, <1>8, <1>9, <1>10, <1>11, <1>12, <1>13, <1>14, <1>15, <1>16, <1>17, <1>18

\* One that may have written discards its output.
LEMMA RewriteDiscards ==
  ASSUME GcInv, NEW c \in Claim, RewriteRejected(c), op.intent, op' = Discards(op), UNCHANGED
     <<clease, pending>>
  PROVE  GcInv'
<1> USE DEF GcInv
<1>t. /\ op \in Operation /\ worker \in [Claim -> Workers] /\ push \in [Push -> PushStates]
      /\ plan \in [Push -> Plans \cup {NoPlan}] /\ mix \in Mixed
      /\ rows \in [Pack -> {"none", "active", "superseded"}]
  BY DEF StoreTypes, ReceiveTypes, GcTypes
<1>u. UNCHANGED <<refs, refsVersion, packset, rows, bucket, staging, below, base, held, rlease,
   push, plan, handler, admitted, clease, pending, native, mix>>
  BY DEF RewriteRejected, repository, objects, receives, collection
<1>s. /\ refs \in [Ref -> Oid] /\ op.snapshot \in Snapshots
      /\ \A d \in Claim : worker[d].snapshot \in Snapshots
      /\ below \in [Push -> SUBSET Push] /\ held \in [Op -> SUBSET Push]
      /\ \A q \in Push : plan[q].new \in Oid
  BY Typed
<1>1. op.claim = c /\ op.phase = "rewrite" /\ op.id = worker[c].op /\ op.id \in Op /\ ~op.waiting
  BY Names DEF RewriteRejected, Owns, WorkersOK, PhaseAt, OperationOK
<1>2. /\ op' \in Operation /\ op'.claim = None /\ op'.age = "none" /\ op'.phase = "discard"
      /\ op'.waiting
      /\ op'.id = op.id /\ op'.snapshot = op.snapshot /\ op'.refsVersion = op.refsVersion
      /\ op'.packset = op.packset /\ (op'.retained <=> op.retained)
      /\ (op'.planned <=> op.planned) /\ op'.target = op.target /\ (op'.intent <=> op.intent)
      /\ (op'.indexed <=> op.indexed) /\ op'.armed = op.armed
  <2>1. op' = Discards(op)
    BY DEF RewriteRejected
  <2> QED BY <1>t, <2>1, DiscardsFields
<1>3. /\ worker' \in [Claim -> Workers] /\ \A d \in Claim : d # c => worker'[d] = worker[d]
      /\ worker'[c].pc = "gone" /\ worker'[c].snapshot = NoSnapshot
  <2>1. Leaves(c)
    BY DEF RewriteRejected
  <2> QED BY <1>t, <2>1, LeavesEffects
<1>4. GcTypes'
  BY <1>t, <1>1, <1>2, <1>3, <1>u DEF GcTypes
<1>5. OperationOK'
  BY <1>t, <1>1, <1>2, <1>u DEF OperationOK
<1>6. WorkersOK'
  BY <1>t, <1>1, <1>2, <1>3, <1>u DEF WorkersOK, PhaseAt, Clean
<1>7. NativeOK'
  BY <1>t, <1>1, <1>2, <1>u DEF NativeOK
<1>8. OutputsOK'
  BY <1>t, <1>1, <1>2, <1>u DEF OutputsOK, Clean
<1>9. BlockedOK'
  BY <1>t, <1>1, <1>2, <1>u DEF BlockedOK
<1>10. AccountsOK'
  BY <1>t, <1>1, <1>2, <1>u, AccountsSoft DEF OwnsSource, HasSnapshot
<1>11. SeenOK'
  BY <1>t, <1>1, <1>2, <1>3, <1>u, <1>s, SeenSoft DEF Seen
<1>12. TargetOK'
  BY <1>t, <1>1, <1>2, <1>u, ClosureSame DEF TargetOK, Holds
<1>13. BegunOK'
  BY <1>t, <1>1, <1>3, <1>u, BegunSoft DEF Calm, Begun
<1>14. SourceOK'
  BY <1>t, <1>1, <1>2, <1>u, SourceSoft DEF Calm, OwnsSource, HasSnapshot
<1>15. KeptOK'
  BY <1>t, <1>1, <1>2, <1>u, KeptSoft DEF Collects, Calm, OwnsSource, HasSnapshot, Passed
<1>16. StoreTypes' /\ ReceiveTypes' /\ LeaseOK' /\ PlanOK' /\ RowsOK' /\ HistoryOK' /\ ServedOK'
  BY <1>u, StoreTypesFrame, ReceiveTypesFrame, LeaseOKFrame, PlanOKFrame, RowsOKFrame,
     HistoryOKFrame, ServedOKFrame
<1> QED BY <1>4, <1>5, <1>6, <1>7, <1>8, <1>9, <1>10, <1>11, <1>12, <1>13, <1>14, <1>15, <1>16

\* The identity of the output is recorded.
LEMMA RewriteIntentStep ==
  ASSUME GcInv, NEW c \in Claim, RewriteIntent(c)
  PROVE  GcInv'
<1> USE DEF GcInv
<1>t. /\ op \in Operation /\ worker \in [Claim -> Workers] /\ push \in [Push -> PushStates]
      /\ plan \in [Push -> Plans \cup {NoPlan}] /\ mix \in Mixed
      /\ rows \in [Pack -> {"none", "active", "superseded"}]
  BY DEF StoreTypes, ReceiveTypes, GcTypes
<1>u. UNCHANGED <<refs, refsVersion, packset, rows, bucket, staging, below, base, rlease, push,
   plan, handler, admitted, clease, pending, native, mix>>
  BY DEF RewriteIntent, repository, objects, receives, collection
<1>s. /\ refs \in [Ref -> Oid] /\ op.snapshot \in Snapshots
      /\ \A d \in Claim : worker[d].snapshot \in Snapshots
      /\ below \in [Push -> SUBSET Push] /\ held \in [Op -> SUBSET Push]
      /\ \A q \in Push : plan[q].new \in Oid
  BY Typed
<1>1. /\ op.claim = c /\ op.phase = "rewrite" /\ op.id = worker[c].op /\ op.id \in Op /\ ~op.waiting
      /\ worker[c].pc = "upload" /\ op.planned /\ op.age = "live"
  BY Names DEF RewriteIntent, Owns, WorkersOK, PhaseAt, OperationOK
<1>2. /\ op' \in Operation /\ op'.intent
      /\ op'.id = op.id /\ op'.phase = op.phase /\ op'.claim = op.claim /\ op'.age = op.age
      /\ op'.snapshot = op.snapshot /\ op'.refsVersion = op.refsVersion
      /\ op'.packset = op.packset /\ (op'.retained <=> op.retained)
      /\ (op'.planned <=> op.planned) /\ op'.target = op.target /\ (op'.indexed <=> op.indexed)
      /\ (op'.waiting <=> op.waiting) /\ op'.armed = op.armed
  <2>1. op' = [op EXCEPT !.intent = TRUE]
    BY DEF RewriteIntent
  <2>2. op'.intent = TRUE
    BY <1>t, <2>1 DEF Operation
  <2> QED BY <1>t, <2>1, <2>2 DEF Operation
<1>3. /\ worker' \in [Claim -> Workers] /\ \A d \in Claim : d # c => worker'[d] = worker[d]
      /\ worker'[c].pc = "uploading" /\ worker'[c].op = worker[c].op
      /\ worker'[c].snapshot = worker[c].snapshot
  <2>1. Step(c, "uploading") /\ worker[c].pc # "gone"
    BY DEF RewriteIntent
  <2> QED BY <1>t, <2>1, StepEffects DEF WorkerSteps
<1>4. \A x \in GcClosure : x \in Push /\ Seen(x)
  <2>1. op.snapshot.refs \in [Ref -> Oid]
    BY <1>s DEF Snapshots
  <2>2. \A q \in Wants(op.snapshot.refs) : q \in Push /\ Seen(q)
    BY <2>1 DEF Wants, Oid, SeenOK
  <2> QED BY <1>s, <2>2 DEF GcClosure, Closure, SeenOK
<1>5. /\ held' = [held EXCEPT ![op.id] = GcClosure] /\ held' \in [Op -> SUBSET Push]
      /\ rows[op.id] = "none"
  BY <1>1, <1>4, <1>s DEF RewriteIntent, OutputsOK
<1>6. StoreTypes'
  BY <1>t, <1>4, <1>5, <1>u DEF StoreTypes
<1>7. GcTypes'
  BY <1>t, <1>1, <1>2, <1>3, <1>4, <1>5, <1>u DEF GcTypes
<1>8. OperationOK'
  BY <1>t, <1>1, <1>2, <1>3, <1>4, <1>5, <1>u DEF OperationOK
<1>9. WorkersOK'
  BY <1>t, <1>1, <1>2, <1>3, <1>4, <1>5, <1>u DEF WorkersOK, PhaseAt, Clean
<1>10. NativeOK'
  BY <1>t, <1>1, <1>2, <1>3, <1>4, <1>5, <1>u DEF NativeOK
<1>11. OutputsOK'
  BY <1>t, <1>1, <1>2, <1>3, <1>4, <1>5, <1>u DEF OutputsOK, Clean
<1>12. BlockedOK'
  BY <1>t, <1>1, <1>2, <1>3, <1>4, <1>5, <1>u DEF BlockedOK
<1>13. AccountsOK'
  BY <1>t, <1>1, <1>2, <1>3, <1>4, <1>5, <1>u, AccountsSoft DEF OwnsSource, HasSnapshot
<1>14. SeenOK'
  <2>1. \A o \in Op : \A q \in held'[o] : Seen(q)
    BY <1>4, <1>5, <1>s DEF SeenOK
  <2>2. op'.snapshot = op.snapshot /\ \A d \in Claim : worker'[d].snapshot = worker[d].snapshot
    BY <1>2, <1>3
  <2> QED BY <1>u, <2>1, <2>2 DEF SeenOK, Seen
<1>15. TargetOK'
  BY <1>t, <1>1, <1>2, <1>3, <1>4, <1>5, <1>u, ClosureSame DEF TargetOK, Holds
<1>16. BegunOK'
  BY <1>t, <1>1, <1>3, <1>4, <1>5, <1>u, BegunSoft DEF Calm, Begun
<1>17. SourceOK'
  BY <1>t, <1>1, <1>2, <1>3, <1>4, <1>5, <1>u, SourceSoft DEF Calm, OwnsSource, HasSnapshot
<1>18. ServedOK'
  BY <1>t, <1>4, <1>5, <1>u, ServedSoft DEF Calm, MayLand
<1>19. KeptOK'
  BY <1>t, <1>1, <1>2, <1>3, <1>4, <1>5, <1>u, KeptSoft DEF Collects, Calm, OwnsSource,
     HasSnapshot, Passed
<1>20. ReceiveTypes' /\ LeaseOK' /\ PlanOK' /\ RowsOK' /\ HistoryOK'
  BY <1>u, ReceiveTypesFrame, LeaseOKFrame, PlanOKFrame, RowsOKFrame, HistoryOKFrame
<1> QED BY <1>6, <1>7, <1>8, <1>9, <1>10, <1>11, <1>12, <1>13, <1>14, <1>15, <1>16, <1>17,
   <1>18, <1>19, <1>20

\* R2 stores the input pack.
LEMMA CompleteUploadStep ==
  ASSUME GcInv, NEW c \in Claim, CompleteUpload(c)
  PROVE  GcInv'
<1> USE DEF GcInv
<1>t. /\ op \in Operation /\ worker \in [Claim -> Workers] /\ push \in [Push -> PushStates]
      /\ plan \in [Push -> Plans \cup {NoPlan}] /\ mix \in Mixed
      /\ rows \in [Pack -> {"none", "active", "superseded"}]
  BY DEF StoreTypes, ReceiveTypes, GcTypes
<1>u. UNCHANGED <<refs, refsVersion, packset, rows, bucket, below, base, held, rlease, push,
   plan, handler, op, admitted, clease, pending, native, mix>>
  BY DEF CompleteUpload, repository, objects, receives, collection
<1>s. /\ refs \in [Ref -> Oid] /\ op.snapshot \in Snapshots
      /\ \A d \in Claim : worker[d].snapshot \in Snapshots
      /\ below \in [Push -> SUBSET Push] /\ held \in [Op -> SUBSET Push]
      /\ \A q \in Push : plan[q].new \in Oid
  BY Typed
<1>1. /\ worker[c].pc = "uploading" /\ op.intent /\ op.id = worker[c].op /\ op.phase = "rewrite"
      /\ op.id \in admitted /\ op.id \in Op
  BY Names DEF CompleteUpload, WorkersOK, PhaseAt, OperationOK, GcTypes
<1>2. /\ worker' \in [Claim -> Workers] /\ \A d \in Claim : d # c => worker'[d] = worker[d]
      /\ worker'[c].pc = "uploaded" /\ worker'[c].op = worker[c].op
      /\ worker'[c].snapshot = worker[c].snapshot
  <2>1. Step(c, "uploaded") /\ worker[c].pc # "gone"
    BY DEF CompleteUpload
  <2> QED BY <1>t, <2>1, StepEffects DEF WorkerSteps
<1>3. /\ staging' = staging \cup {Input(op.id)} /\ staging' \subseteq {"input", "receipt"} \X Op
      /\ \A o : Receipt(o) \in staging' <=> Receipt(o) \in staging
      /\ \A o : o # op.id => (Input(o) \in staging' <=> Input(o) \in staging)
  BY <1>1 DEF CompleteUpload, StoreTypes, Input, Receipt
<1>4. StoreTypes'
  BY <1>t, <1>3, <1>u DEF StoreTypes
<1>5. GcTypes'
  BY <1>t, <1>1, <1>2, <1>3, <1>u DEF GcTypes
<1>6. WorkersOK'
  BY <1>t, <1>1, <1>2, <1>3, <1>u DEF WorkersOK, PhaseAt, Clean
<1>7. NativeOK'
  BY <1>t, <1>1, <1>2, <1>3, <1>u DEF NativeOK
<1>8. OutputsOK'
  BY <1>t, <1>1, <1>2, <1>3, <1>u DEF OutputsOK, Clean
<1>9. SeenOK'
  BY <1>t, <1>1, <1>2, <1>3, <1>u, <1>s, SeenSoft DEF Seen
<1>10. BegunOK'
  BY <1>t, <1>1, <1>2, <1>u, BegunSoft DEF Calm, Begun
<1>11. ReceiveTypes' /\ LeaseOK' /\ PlanOK' /\ RowsOK' /\ OperationOK' /\ BlockedOK' /\
   AccountsOK' /\ HistoryOK' /\ TargetOK' /\ SourceOK' /\ ServedOK' /\ KeptOK'
  BY <1>u, ReceiveTypesFrame, LeaseOKFrame, PlanOKFrame, RowsOKFrame, OperationOKFrame,
     BlockedOKFrame, AccountsOKFrame, HistoryOKFrame, TargetOKFrame, SourceOKFrame,
     ServedOKFrame, KeptOKFrame
<1> QED BY <1>4, <1>5, <1>6, <1>7, <1>8, <1>9, <1>10, <1>11

\* The upload is recorded.
LEMMA RewriteCompleteStep ==
  ASSUME GcInv, NEW c \in Claim, RewriteComplete(c)
  PROVE  GcInv'
<1> USE DEF GcInv
<1>t. /\ op \in Operation /\ worker \in [Claim -> Workers] /\ push \in [Push -> PushStates]
      /\ plan \in [Push -> Plans \cup {NoPlan}] /\ mix \in Mixed
      /\ rows \in [Pack -> {"none", "active", "superseded"}]
  BY DEF StoreTypes, ReceiveTypes, GcTypes
<1>u. UNCHANGED <<refs, refsVersion, packset, rows, bucket, staging, below, base, held, rlease,
   push, plan, handler, admitted, clease, pending, native, mix>>
  BY DEF RewriteComplete, repository, objects, receives, collection
<1>s. /\ refs \in [Ref -> Oid] /\ op.snapshot \in Snapshots
      /\ \A d \in Claim : worker[d].snapshot \in Snapshots
      /\ below \in [Push -> SUBSET Push] /\ held \in [Op -> SUBSET Push]
      /\ \A q \in Push : plan[q].new \in Oid
  BY Typed
<1>1. /\ op.claim = c /\ op.phase = "rewrite" /\ op.id = worker[c].op /\ op.id \in Op /\ ~op.waiting
      /\ op.intent
  BY Names DEF RewriteComplete, Owns, WorkersOK, PhaseAt, OperationOK
<1>2. /\ op' \in Operation /\ op'.claim = None /\ op'.age = "none" /\ op'.phase = "index"
      /\ op'.id = op.id /\ op'.snapshot = op.snapshot /\ op'.refsVersion = op.refsVersion
      /\ op'.packset = op.packset /\ (op'.retained <=> op.retained)
      /\ (op'.planned <=> op.planned) /\ op'.target = op.target /\ (op'.intent <=> op.intent)
      /\ (op'.indexed <=> op.indexed) /\ (op'.waiting <=> op.waiting) /\ op'.armed = op.armed
  <2>1. op' = MoveTo(op, "index")
    BY DEF RewriteComplete
  <2> QED BY <1>t, <2>1, MoveToFields DEF Phases
<1>3. /\ worker' \in [Claim -> Workers] /\ \A d \in Claim : d # c => worker'[d] = worker[d]
      /\ worker'[c].pc = "gone" /\ worker'[c].snapshot = NoSnapshot
  <2>1. Leaves(c)
    BY DEF RewriteComplete
  <2> QED BY <1>t, <2>1, LeavesEffects
<1>4. native = NoJob
  BY <1>1 DEF NativeOK
<1>5. GcTypes'
  BY <1>t, <1>1, <1>2, <1>3, <1>4, <1>u DEF GcTypes
<1>6. OperationOK'
  BY <1>t, <1>1, <1>2, <1>u DEF OperationOK
<1>7. WorkersOK'
  BY <1>t, <1>1, <1>2, <1>3, <1>u DEF WorkersOK, PhaseAt, Clean
<1>8. NativeOK'
  BY <1>t, <1>1, <1>2, <1>4, <1>u DEF NativeOK
<1>9. OutputsOK'
  BY <1>t, <1>1, <1>2, <1>u DEF OutputsOK, Clean
<1>10. BlockedOK'
  BY <1>t, <1>1, <1>2, <1>u DEF BlockedOK
<1>11. AccountsOK'
  BY <1>t, <1>1, <1>2, <1>u, AccountsSoft DEF OwnsSource, HasSnapshot
<1>12. SeenOK'
  BY <1>t, <1>1, <1>2, <1>3, <1>u, <1>s, SeenSoft DEF Seen
<1>13. TargetOK'
  BY <1>t, <1>1, <1>2, <1>u, ClosureSame DEF TargetOK, Holds
<1>14. BegunOK'
  BY <1>t, <1>1, <1>3, <1>u, BegunSoft DEF Calm, Begun
<1>15. SourceOK'
  BY <1>t, <1>1, <1>2, <1>u, SourceSoft DEF Calm, OwnsSource, HasSnapshot
<1>16. KeptOK'
  BY <1>t, <1>1, <1>2, <1>u, KeptSoft DEF Collects, Calm, OwnsSource, HasSnapshot, Passed
<1>17. StoreTypes' /\ ReceiveTypes' /\ LeaseOK' /\ PlanOK' /\ RowsOK' /\ HistoryOK' /\ ServedOK'
  BY <1>u, StoreTypesFrame, ReceiveTypesFrame, LeaseOKFrame, PlanOKFrame, RowsOKFrame,
     HistoryOKFrame, ServedOKFrame
<1> QED BY <1>5, <1>6, <1>7, <1>8, <1>9, <1>10, <1>11, <1>12, <1>13, <1>14, <1>15, <1>16, <1>17

\* The Container starts.
LEMMA RunGcNativeStep ==
  ASSUME GcInv, NEW c \in Claim, RunGcNative(c)
  PROVE  GcInv'
<1> USE DEF GcInv
<1>t. /\ op \in Operation /\ worker \in [Claim -> Workers] /\ push \in [Push -> PushStates]
      /\ plan \in [Push -> Plans \cup {NoPlan}] /\ mix \in Mixed
      /\ rows \in [Pack -> {"none", "active", "superseded"}]
  BY DEF StoreTypes, ReceiveTypes, GcTypes
<1>u. UNCHANGED <<refs, refsVersion, packset, rows, bucket, staging, below, base, held, rlease,
   push, plan, handler, op, admitted, clease, pending, mix>>
  BY DEF RunGcNative, repository, objects, receives, collection
<1>s. /\ refs \in [Ref -> Oid] /\ op.snapshot \in Snapshots
      /\ \A d \in Claim : worker[d].snapshot \in Snapshots
      /\ below \in [Push -> SUBSET Push] /\ held \in [Op -> SUBSET Push]
      /\ \A q \in Push : plan[q].new \in Oid
  BY Typed
<1>1. /\ op.claim = c /\ op.phase = "index" /\ op.id = worker[c].op /\ op.id \in Op /\ ~op.waiting
      /\ op.intent /\ op.age = "live" /\ worker[c].pc = "index"
  BY Names DEF RunGcNative, Owns, WorkersOK, PhaseAt, OperationOK
<1>2. /\ worker' \in [Claim -> Workers] /\ \A d \in Claim : d # c => worker'[d] = worker[d]
      /\ worker'[c].pc = "native" /\ worker'[c].op = worker[c].op
      /\ worker'[c].snapshot = worker[c].snapshot
  <2>1. Step(c, "native") /\ worker[c].pc # "gone"
    BY DEF RunGcNative
  <2> QED BY <1>t, <2>1, StepEffects DEF WorkerSteps
<1>3. /\ native' = [claim |-> c, op |-> op.id] /\ native' \in [claim : Claim, op : Op]
      /\ native'.claim = c /\ native'.op = op.id /\ Receipt(op.id) \notin staging
  BY <1>1 DEF RunGcNative
<1>4. GcTypes'
  BY <1>t, <1>1, <1>2, <1>3, <1>u DEF GcTypes
<1>5. WorkersOK'
  BY <1>t, <1>1, <1>2, <1>3, <1>u DEF WorkersOK, PhaseAt, Clean
<1>6. NativeOK'
  BY <1>t, <1>1, <1>2, <1>3, <1>u DEF NativeOK
<1>7. SeenOK'
  BY <1>t, <1>1, <1>2, <1>3, <1>u, <1>s, SeenSoft DEF Seen
<1>8. BegunOK'
  BY <1>t, <1>1, <1>2, <1>u, BegunSoft DEF Calm, Begun
<1>9. StoreTypes' /\ ReceiveTypes' /\ LeaseOK' /\ PlanOK' /\ RowsOK' /\ OperationOK' /\
   OutputsOK' /\ BlockedOK' /\ AccountsOK' /\ HistoryOK' /\ TargetOK' /\ SourceOK' /\ ServedOK'
   /\ KeptOK'
  BY <1>u, StoreTypesFrame, ReceiveTypesFrame, LeaseOKFrame, PlanOKFrame, RowsOKFrame,
     OperationOKFrame, OutputsOKFrame, BlockedOKFrame, AccountsOKFrame, HistoryOKFrame,
     TargetOKFrame, SourceOKFrame, ServedOKFrame, KeptOKFrame
<1> QED BY <1>4, <1>5, <1>6, <1>7, <1>8, <1>9

\* The Container stores the pack.
LEMMA NativeOutputStep ==
  ASSUME GcInv, NativeOutput
  PROVE  GcInv'
<1> USE DEF GcInv
<1>t. /\ op \in Operation /\ worker \in [Claim -> Workers] /\ push \in [Push -> PushStates]
      /\ plan \in [Push -> Plans \cup {NoPlan}] /\ mix \in Mixed
      /\ rows \in [Pack -> {"none", "active", "superseded"}]
  BY DEF StoreTypes, ReceiveTypes, GcTypes
<1>u. UNCHANGED <<refs, refsVersion, packset, rows, staging, below, base, held, rlease, push,
   plan, handler, op, admitted, clease, pending, worker, native, mix>>
  BY DEF NativeOutput, repository, objects, receives, collection
<1>1. /\ native # NoJob /\ native.op = op.id /\ op.intent /\ op.id \in Op /\ op.id \in admitted
  BY Names DEF NativeOutput, NativeOK, OperationOK
<1>2. bucket' = bucket \cup {op.id} /\ bucket' \subseteq Pack
  BY <1>1 DEF NativeOutput, StoreTypes, Pack
<1>3. \A d \in Claim : worker[d].pc # "deleted"
  BY <1>1, Names DEF NativeOK, WorkersOK, OperationOK, PhaseAt
<1>4. StoreTypes'
  BY <1>t, <1>2, <1>u DEF StoreTypes
<1>5. RowsOK'
  BY <1>t, <1>2, <1>u DEF RowsOK, HasPack
<1>6. WorkersOK'
  BY <1>t, <1>1, <1>2, <1>3, <1>u DEF WorkersOK, PhaseAt, Clean
<1>7. OutputsOK'
  BY <1>t, <1>1, <1>2, <1>u DEF OutputsOK, Clean
<1>8. ReceiveTypes' /\ GcTypes' /\ LeaseOK' /\ PlanOK' /\ OperationOK' /\ NativeOK' /\
   BlockedOK' /\ AccountsOK' /\ SeenOK' /\ HistoryOK' /\ TargetOK' /\ BegunOK' /\ SourceOK' /\
   ServedOK' /\ KeptOK'
  BY <1>u, ReceiveTypesFrame, GcTypesFrame, LeaseOKFrame, PlanOKFrame, OperationOKFrame,
     NativeOKFrame, BlockedOKFrame, AccountsOKFrame, SeenOKFrame, HistoryOKFrame, TargetOKFrame,
     BegunOKFrame, SourceOKFrame, ServedOKFrame, KeptOKFrame
<1> QED BY <1>4, <1>5, <1>6, <1>7, <1>8

\* Then the receipt.
LEMMA NativeReceiptStep ==
  ASSUME GcInv, NativeReceipt
  PROVE  GcInv'
<1> USE DEF GcInv
<1>t. /\ op \in Operation /\ worker \in [Claim -> Workers] /\ push \in [Push -> PushStates]
      /\ plan \in [Push -> Plans \cup {NoPlan}] /\ mix \in Mixed
      /\ rows \in [Pack -> {"none", "active", "superseded"}]
  BY DEF StoreTypes, ReceiveTypes, GcTypes
<1>u. UNCHANGED <<refs, refsVersion, packset, rows, bucket, below, base, held, rlease, push,
   plan, handler, op, admitted, clease, pending, worker, mix>>
  BY DEF NativeReceipt, repository, objects, receives, collection
<1>1. /\ native # NoJob /\ native.op = op.id /\ op.intent /\ op.id \in Op /\ op.id \in admitted
      /\ op.phase \in {"index", "discard"} /\ op.id \in bucket /\ native' = NoJob
  BY Names DEF NativeReceipt, NativeOK, OperationOK
<1>2. /\ staging' = staging \cup {Receipt(op.id)} /\ staging' \subseteq {"input", "receipt"} \X Op
      /\ \A o : Input(o) \in staging' <=> Input(o) \in staging
      /\ \A o : o # op.id => (Receipt(o) \in staging' <=> Receipt(o) \in staging)
  BY <1>1 DEF NativeReceipt, StoreTypes, Input, Receipt
<1>3. StoreTypes'
  BY <1>t, <1>1, <1>2, <1>u DEF StoreTypes
<1>4. GcTypes'
  BY <1>t, <1>1, <1>2, <1>u DEF GcTypes
<1>5. WorkersOK'
  BY <1>t, <1>1, <1>2, <1>u DEF WorkersOK, PhaseAt, Clean
<1>6. NativeOK'
  BY <1>t, <1>1, <1>2, <1>u DEF NativeOK
<1>7. OutputsOK'
  BY <1>t, <1>1, <1>2, <1>u DEF OutputsOK, Clean
<1>8. ReceiveTypes' /\ LeaseOK' /\ PlanOK' /\ RowsOK' /\ OperationOK' /\ BlockedOK' /\
   AccountsOK' /\ SeenOK' /\ HistoryOK' /\ TargetOK' /\ BegunOK' /\ SourceOK' /\ ServedOK' /\
   KeptOK'
  BY <1>u, ReceiveTypesFrame, LeaseOKFrame, PlanOKFrame, RowsOKFrame, OperationOKFrame,
     BlockedOKFrame, AccountsOKFrame, SeenOKFrame, HistoryOKFrame, TargetOKFrame, BegunOKFrame,
     SourceOKFrame, ServedOKFrame, KeptOKFrame
<1> QED BY <1>3, <1>4, <1>5, <1>6, <1>7, <1>8

\* The receipt is found.
LEMMA NativeCompleteStep ==
  ASSUME GcInv, NEW c \in Claim, NativeComplete(c)
  PROVE  GcInv'
<1> USE DEF GcInv
<1>t. /\ op \in Operation /\ worker \in [Claim -> Workers] /\ push \in [Push -> PushStates]
      /\ plan \in [Push -> Plans \cup {NoPlan}] /\ mix \in Mixed
      /\ rows \in [Pack -> {"none", "active", "superseded"}]
  BY DEF StoreTypes, ReceiveTypes, GcTypes
<1>u. UNCHANGED <<refs, refsVersion, packset, rows, bucket, staging, below, base, held, rlease,
   push, plan, handler, admitted, clease, pending, native, mix>>
  BY DEF NativeComplete, repository, objects, receives, collection
<1>s. /\ refs \in [Ref -> Oid] /\ op.snapshot \in Snapshots
      /\ \A d \in Claim : worker[d].snapshot \in Snapshots
      /\ below \in [Push -> SUBSET Push] /\ held \in [Op -> SUBSET Push]
      /\ \A q \in Push : plan[q].new \in Oid
  BY Typed
<1>1. /\ op.claim = c /\ op.phase = "index" /\ op.id = worker[c].op /\ op.id \in Op /\ ~op.waiting
      /\ op.intent /\ Receipt(op.id) \in staging
  BY Names DEF NativeComplete, Owns, WorkersOK, PhaseAt, OperationOK
<1>2. /\ op' \in Operation /\ op'.claim = None /\ op'.age = "none" /\ op'.phase = "publish"
      /\ op'.indexed
      /\ op'.id = op.id /\ op'.snapshot = op.snapshot /\ op'.refsVersion = op.refsVersion
      /\ op'.packset = op.packset /\ (op'.retained <=> op.retained)
      /\ (op'.planned <=> op.planned) /\ op'.target = op.target /\ (op'.intent <=> op.intent)
      /\ (op'.waiting <=> op.waiting) /\ op'.armed = op.armed
  <2> DEFINE m == MoveTo(op, "publish")
  <2>1. /\ m \in Operation /\ m.phase = "publish" /\ m.claim = None /\ m.age = "none"
        /\ m.id = op.id /\ m.snapshot = op.snapshot /\ m.refsVersion = op.refsVersion
        /\ m.packset = op.packset /\ (m.retained <=> op.retained) /\ (m.planned <=> op.planned)
        /\ m.target = op.target /\ (m.intent <=> op.intent) /\ (m.indexed <=> op.indexed)
        /\ (m.waiting <=> op.waiting) /\ m.armed = op.armed
    BY <1>t, MoveToFields DEF Phases
  <2>2. op' = [m EXCEPT !.indexed = TRUE]
    BY DEF NativeComplete
  <2> HIDE DEF m
  <2>3. op'.indexed = TRUE
    BY <2>1, <2>2 DEF Operation
  <2>4. op' \in Operation
    BY <2>1, <2>2 DEF Operation
  <2>5. /\ op'.phase = m.phase /\ op'.claim = m.claim /\ op'.age = m.age
        /\ op'.id = m.id /\ op'.snapshot = m.snapshot /\ op'.refsVersion = m.refsVersion
        /\ op'.packset = m.packset /\ (op'.retained <=> m.retained)
        /\ (op'.planned <=> m.planned) /\ op'.target = m.target /\ (op'.intent <=> m.intent)
        /\ (op'.waiting <=> m.waiting) /\ op'.armed = m.armed
    BY <2>1, <2>2 DEF Operation
  <2> QED BY <2>1, <2>3, <2>4, <2>5
<1>3. /\ worker' \in [Claim -> Workers] /\ \A d \in Claim : d # c => worker'[d] = worker[d]
      /\ worker'[c].pc = "gone" /\ worker'[c].snapshot = NoSnapshot
  <2>1. Leaves(c)
    BY DEF NativeComplete
  <2> QED BY <1>t, <2>1, LeavesEffects
<1>4. native = NoJob /\ op.id \in bucket
  BY <1>1 DEF NativeOK, OutputsOK
<1>5. GcTypes'
  BY <1>t, <1>1, <1>2, <1>3, <1>4, <1>u DEF GcTypes
<1>6. OperationOK'
  BY <1>t, <1>1, <1>2, <1>4, <1>u DEF OperationOK
<1>7. WorkersOK'
  BY <1>t, <1>1, <1>2, <1>3, <1>4, <1>u DEF WorkersOK, PhaseAt, Clean
<1>8. NativeOK'
  BY <1>t, <1>1, <1>2, <1>4, <1>u DEF NativeOK
<1>9. OutputsOK'
  BY <1>t, <1>1, <1>2, <1>4, <1>u DEF OutputsOK, Clean
<1>10. BlockedOK'
  BY <1>t, <1>1, <1>2, <1>4, <1>u DEF BlockedOK
<1>11. AccountsOK'
  BY <1>t, <1>1, <1>2, <1>4, <1>u, AccountsSoft DEF OwnsSource, HasSnapshot
<1>12. SeenOK'
  BY <1>t, <1>1, <1>2, <1>3, <1>4, <1>u, <1>s, SeenSoft DEF Seen
<1>13. TargetOK'
  BY <1>t, <1>1, <1>2, <1>4, <1>u, ClosureSame DEF TargetOK, Holds
<1>14. BegunOK'
  BY <1>t, <1>1, <1>3, <1>u, BegunSoft DEF Calm, Begun
<1>15. SourceOK'
  BY <1>t, <1>1, <1>2, <1>4, <1>u, SourceSoft DEF Calm, OwnsSource, HasSnapshot
<1>16. KeptOK'
  BY <1>t, <1>1, <1>2, <1>4, <1>u, KeptSoft DEF Collects, Calm, OwnsSource, HasSnapshot, Passed
<1>17. StoreTypes' /\ ReceiveTypes' /\ LeaseOK' /\ PlanOK' /\ RowsOK' /\ HistoryOK' /\ ServedOK'
  BY <1>u, StoreTypesFrame, ReceiveTypesFrame, LeaseOKFrame, PlanOKFrame, RowsOKFrame,
     HistoryOKFrame, ServedOKFrame
<1> QED BY <1>5, <1>6, <1>7, <1>8, <1>9, <1>10, <1>11, <1>12, <1>13, <1>14, <1>15, <1>16, <1>17

\* Or the output is invalid.
LEMMA NativeRejectedStep ==
  ASSUME GcInv, NEW c \in Claim, NativeRejected(c)
  PROVE  GcInv'
<1> USE DEF GcInv
<1>t. /\ op \in Operation /\ worker \in [Claim -> Workers] /\ push \in [Push -> PushStates]
      /\ plan \in [Push -> Plans \cup {NoPlan}] /\ mix \in Mixed
      /\ rows \in [Pack -> {"none", "active", "superseded"}]
  BY DEF StoreTypes, ReceiveTypes, GcTypes
<1>u. UNCHANGED <<refs, refsVersion, packset, rows, bucket, staging, below, base, held, rlease,
   push, plan, handler, admitted, clease, pending, native, mix>>
  BY DEF NativeRejected, repository, objects, receives, collection
<1>s. /\ refs \in [Ref -> Oid] /\ op.snapshot \in Snapshots
      /\ \A d \in Claim : worker[d].snapshot \in Snapshots
      /\ below \in [Push -> SUBSET Push] /\ held \in [Op -> SUBSET Push]
      /\ \A q \in Push : plan[q].new \in Oid
  BY Typed
<1>1. /\ op.claim = c /\ op.phase = "index" /\ op.id = worker[c].op /\ op.id \in Op /\ ~op.waiting
      /\ op.intent
  BY Names DEF NativeRejected, Owns, WorkersOK, PhaseAt, OperationOK
<1>2. /\ op' \in Operation /\ op'.claim = None /\ op'.age = "none" /\ op'.phase = "discard"
      /\ op'.waiting
      /\ op'.id = op.id /\ op'.snapshot = op.snapshot /\ op'.refsVersion = op.refsVersion
      /\ op'.packset = op.packset /\ (op'.retained <=> op.retained)
      /\ (op'.planned <=> op.planned) /\ op'.target = op.target /\ (op'.intent <=> op.intent)
      /\ (op'.indexed <=> op.indexed) /\ op'.armed = op.armed
  <2>1. op' = Discards(op)
    BY DEF NativeRejected
  <2> QED BY <1>t, <2>1, DiscardsFields
<1>3. /\ worker' \in [Claim -> Workers] /\ \A d \in Claim : d # c => worker'[d] = worker[d]
      /\ worker'[c].pc = "gone" /\ worker'[c].snapshot = NoSnapshot
  <2>1. Leaves(c)
    BY DEF NativeRejected
  <2> QED BY <1>t, <2>1, LeavesEffects
<1>4. GcTypes'
  BY <1>t, <1>1, <1>2, <1>3, <1>u DEF GcTypes
<1>5. OperationOK'
  BY <1>t, <1>1, <1>2, <1>u DEF OperationOK
<1>6. WorkersOK'
  BY <1>t, <1>1, <1>2, <1>3, <1>u DEF WorkersOK, PhaseAt, Clean
<1>7. NativeOK'
  BY <1>t, <1>1, <1>2, <1>u DEF NativeOK
<1>8. OutputsOK'
  BY <1>t, <1>1, <1>2, <1>u DEF OutputsOK, Clean
<1>9. BlockedOK'
  BY <1>t, <1>1, <1>2, <1>u DEF BlockedOK
<1>10. AccountsOK'
  BY <1>t, <1>1, <1>2, <1>u, AccountsSoft DEF OwnsSource, HasSnapshot
<1>11. SeenOK'
  BY <1>t, <1>1, <1>2, <1>3, <1>u, <1>s, SeenSoft DEF Seen
<1>12. TargetOK'
  BY <1>t, <1>1, <1>2, <1>u, ClosureSame DEF TargetOK, Holds
<1>13. BegunOK'
  BY <1>t, <1>1, <1>3, <1>u, BegunSoft DEF Calm, Begun
<1>14. SourceOK'
  BY <1>t, <1>1, <1>2, <1>u, SourceSoft DEF Calm, OwnsSource, HasSnapshot
<1>15. KeptOK'
  BY <1>t, <1>1, <1>2, <1>u, KeptSoft DEF Collects, Calm, OwnsSource, HasSnapshot, Passed
<1>16. StoreTypes' /\ ReceiveTypes' /\ LeaseOK' /\ PlanOK' /\ RowsOK' /\ HistoryOK' /\ ServedOK'
  BY <1>u, StoreTypesFrame, ReceiveTypesFrame, LeaseOKFrame, PlanOKFrame, RowsOKFrame,
     HistoryOKFrame, ServedOKFrame
<1> QED BY <1>4, <1>5, <1>6, <1>7, <1>8, <1>9, <1>10, <1>11, <1>12, <1>13, <1>14, <1>15, <1>16

\* The publication is armed.
LEMMA ArmPublicationStep ==
  ASSUME GcInv, NEW c \in Claim, ArmPublication(c)
  PROVE  GcInv'
<1> USE DEF GcInv
<1>t. /\ op \in Operation /\ worker \in [Claim -> Workers] /\ push \in [Push -> PushStates]
      /\ plan \in [Push -> Plans \cup {NoPlan}] /\ mix \in Mixed
      /\ rows \in [Pack -> {"none", "active", "superseded"}]
  BY DEF StoreTypes, ReceiveTypes, GcTypes
<1>u. UNCHANGED <<refs, refsVersion, packset, rows, bucket, staging, below, base, held, rlease,
   push, plan, handler, admitted, clease, native, mix>>
  BY DEF ArmPublication, repository, objects, receives, collection
<1>s. /\ refs \in [Ref -> Oid] /\ op.snapshot \in Snapshots
      /\ \A d \in Claim : worker[d].snapshot \in Snapshots
      /\ below \in [Push -> SUBSET Push] /\ held \in [Op -> SUBSET Push]
      /\ \A q \in Push : plan[q].new \in Oid
  BY Typed
<1>1. op.claim = c /\ op.phase = "publish" /\ op.id = worker[c].op /\ op.id \in Op /\ ~op.waiting
  BY Names DEF ArmPublication, Owns, WorkersOK, PhaseAt, OperationOK
<1>2. /\ op' \in Operation /\ op'.armed = c
      /\ op'.id = op.id /\ op'.phase = op.phase /\ op'.claim = op.claim /\ op'.age = op.age
      /\ op'.snapshot = op.snapshot /\ op'.refsVersion = op.refsVersion
      /\ op'.packset = op.packset /\ (op'.retained <=> op.retained)
      /\ (op'.planned <=> op.planned) /\ op'.target = op.target /\ (op'.intent <=> op.intent)
      /\ (op'.indexed <=> op.indexed) /\ (op'.waiting <=> op.waiting)
  BY <1>t DEF ArmPublication, Operation
<1>3. /\ worker' \in [Claim -> Workers] /\ \A d \in Claim : d # c => worker'[d] = worker[d]
      /\ worker'[c].pc = "commit" /\ worker'[c].op = worker[c].op
      /\ worker'[c].snapshot = worker[c].snapshot
  <2>1. Step(c, "commit") /\ worker[c].pc # "gone"
    BY DEF ArmPublication
  <2> QED BY <1>t, <2>1, StepEffects DEF WorkerSteps
<1>4. pending' \in Op \cup {None}
  BY <1>1 DEF ArmPublication, GcTypes
<1>5. GcTypes'
  BY <1>t, <1>1, <1>2, <1>3, <1>4, <1>u DEF GcTypes
<1>6. OperationOK'
  BY <1>t, <1>1, <1>2, <1>3, <1>u DEF OperationOK
<1>7. WorkersOK'
  BY <1>t, <1>1, <1>2, <1>3, <1>u DEF WorkersOK, PhaseAt, Clean
<1>8. NativeOK'
  BY <1>t, <1>1, <1>2, <1>3, <1>u DEF NativeOK
<1>9. OutputsOK'
  BY <1>t, <1>1, <1>2, <1>3, <1>u DEF OutputsOK, Clean
<1>10. BlockedOK'
  BY <1>t, <1>1, <1>2, <1>3, <1>4, <1>u DEF BlockedOK
<1>11. AccountsOK'
  BY <1>t, <1>1, <1>2, <1>3, <1>u, AccountsSoft DEF OwnsSource, HasSnapshot
<1>12. SeenOK'
  BY <1>t, <1>1, <1>2, <1>3, <1>u, <1>s, SeenSoft DEF Seen
<1>13. TargetOK'
  BY <1>t, <1>1, <1>2, <1>3, <1>u, ClosureSame DEF TargetOK, Holds
<1>14. BegunOK'
  BY <1>t, <1>1, <1>3, <1>u, BegunSoft DEF Calm, Begun
<1>15. SourceOK'
  BY <1>t, <1>1, <1>2, <1>3, <1>u, SourceSoft DEF Calm, OwnsSource, HasSnapshot
<1>16. KeptOK'
  BY <1>t, <1>1, <1>2, <1>3, <1>u, KeptSoft DEF Collects, Calm, OwnsSource, HasSnapshot, Passed
<1>17. StoreTypes' /\ ReceiveTypes' /\ LeaseOK' /\ PlanOK' /\ RowsOK' /\ HistoryOK' /\ ServedOK'
  BY <1>u, StoreTypesFrame, ReceiveTypesFrame, LeaseOKFrame, PlanOKFrame, RowsOKFrame,
     HistoryOKFrame, ServedOKFrame
<1> QED BY <1>5, <1>6, <1>7, <1>8, <1>9, <1>10, <1>11, <1>12, <1>13, <1>14, <1>15, <1>16, <1>17

\* A publication whose sources changed is discarded.
LEMMA CommitDiscards ==
  ASSUME GcInv, NEW c \in Claim, CommitPublication(c), LeaseHeld(c), op' = Discards(op),
     UNCHANGED <<rows, packset, clease, pending>>
  PROVE  GcInv'
<1> USE DEF GcInv
<1>t. /\ op \in Operation /\ worker \in [Claim -> Workers] /\ push \in [Push -> PushStates]
      /\ plan \in [Push -> Plans \cup {NoPlan}] /\ mix \in Mixed
      /\ rows \in [Pack -> {"none", "active", "superseded"}]
  BY DEF StoreTypes, ReceiveTypes, GcTypes
<1>u. UNCHANGED <<refs, refsVersion, packset, rows, bucket, staging, below, base, held, rlease,
   push, plan, handler, admitted, clease, pending, native, mix>>
  BY DEF CommitPublication, repository, objects, receives, collection
<1>s. /\ refs \in [Ref -> Oid] /\ op.snapshot \in Snapshots
      /\ \A d \in Claim : worker[d].snapshot \in Snapshots
      /\ below \in [Push -> SUBSET Push] /\ held \in [Op -> SUBSET Push]
      /\ \A q \in Push : plan[q].new \in Oid
  BY Typed
<1>1. op.phase = "publish" /\ op.claim = c
  BY DEF LeaseHeld
<1>2. /\ op' \in Operation /\ op'.claim = None /\ op'.age = "none" /\ op'.phase = "discard"
      /\ op'.waiting
      /\ op'.id = op.id /\ op'.snapshot = op.snapshot /\ op'.refsVersion = op.refsVersion
      /\ op'.packset = op.packset /\ (op'.retained <=> op.retained)
      /\ (op'.planned <=> op.planned) /\ op'.target = op.target /\ (op'.intent <=> op.intent)
      /\ (op'.indexed <=> op.indexed) /\ op'.armed = op.armed
  <2>1. op' = Discards(op)
    BY DEF CommitPublication
  <2> QED BY <1>t, <2>1, DiscardsFields
<1>3. /\ worker' \in [Claim -> Workers] /\ \A d \in Claim : d # c => worker'[d] = worker[d]
      /\ worker'[c].pc = "gone" /\ worker'[c].snapshot = NoSnapshot
  <2>1. Leaves(c)
    BY DEF CommitPublication
  <2> QED BY <1>t, <2>1, LeavesEffects
<1>4. GcTypes'
  BY <1>t, <1>1, <1>2, <1>3, <1>u DEF GcTypes
<1>5. OperationOK'
  BY <1>t, <1>1, <1>2, <1>u DEF OperationOK
<1>6. WorkersOK'
  BY <1>t, <1>1, <1>2, <1>3, <1>u DEF WorkersOK, PhaseAt, Clean
<1>7. NativeOK'
  BY <1>t, <1>1, <1>2, <1>u DEF NativeOK
<1>8. OutputsOK'
  BY <1>t, <1>1, <1>2, <1>u DEF OutputsOK, Clean
<1>9. BlockedOK'
  BY <1>t, <1>1, <1>2, <1>u DEF BlockedOK
<1>10. AccountsOK'
  BY <1>t, <1>1, <1>2, <1>u, AccountsSoft DEF OwnsSource, HasSnapshot
<1>11. SeenOK'
  BY <1>t, <1>1, <1>2, <1>3, <1>u, <1>s, SeenSoft DEF Seen
<1>12. TargetOK'
  BY <1>t, <1>1, <1>2, <1>u, ClosureSame DEF TargetOK, Holds
<1>13. BegunOK'
  BY <1>t, <1>3, <1>u, BegunSoft DEF Calm, Begun
<1>14. SourceOK'
  BY <1>t, <1>1, <1>2, <1>u, SourceSoft DEF Calm, OwnsSource, HasSnapshot
<1>15. KeptOK'
  BY <1>t, <1>1, <1>2, <1>u, KeptSoft DEF Collects, Calm, OwnsSource, HasSnapshot, Passed
<1>16. StoreTypes' /\ ReceiveTypes' /\ LeaseOK' /\ PlanOK' /\ RowsOK' /\ HistoryOK' /\ ServedOK'
  BY <1>u, StoreTypesFrame, ReceiveTypesFrame, LeaseOKFrame, PlanOKFrame, RowsOKFrame,
     HistoryOKFrame, ServedOKFrame
<1> QED BY <1>4, <1>5, <1>6, <1>7, <1>8, <1>9, <1>10, <1>11, <1>12, <1>13, <1>14, <1>15, <1>16

\* Otherwise it waits.
LEMMA CommitWaits ==
  ASSUME GcInv, NEW c \in Claim, CommitPublication(c), UNCHANGED <<op, rows, packset, clease,
     pending>>
  PROVE  GcInv'
<1> USE DEF GcInv
<1>t. /\ op \in Operation /\ worker \in [Claim -> Workers] /\ push \in [Push -> PushStates]
      /\ plan \in [Push -> Plans \cup {NoPlan}] /\ mix \in Mixed
      /\ rows \in [Pack -> {"none", "active", "superseded"}]
  BY DEF StoreTypes, ReceiveTypes, GcTypes
<1>u. UNCHANGED <<refs, refsVersion, packset, rows, bucket, staging, below, base, held, rlease,
   push, plan, handler, op, admitted, clease, pending, native, mix>>
  BY DEF CommitPublication, repository, objects, receives, collection
<1>s. /\ refs \in [Ref -> Oid] /\ op.snapshot \in Snapshots
      /\ \A d \in Claim : worker[d].snapshot \in Snapshots
      /\ below \in [Push -> SUBSET Push] /\ held \in [Op -> SUBSET Push]
      /\ \A q \in Push : plan[q].new \in Oid
  BY Typed
<1>1. /\ worker' \in [Claim -> Workers] /\ \A d \in Claim : d # c => worker'[d] = worker[d]
      /\ worker'[c].pc = "gone" /\ worker'[c].snapshot = NoSnapshot
  <2>1. Leaves(c)
    BY DEF CommitPublication
  <2> QED BY <1>t, <2>1, LeavesEffects
<1>2. GcTypes'
  BY <1>t, <1>1, <1>u DEF GcTypes
<1>3. WorkersOK'
  BY <1>t, <1>1, <1>u DEF WorkersOK, PhaseAt, Clean
<1>4. SeenOK'
  BY <1>t, <1>1, <1>u, <1>s, SeenSoft DEF Seen
<1>5. BegunOK'
  BY <1>t, <1>1, <1>u, BegunSoft DEF Calm, Begun
<1>6. StoreTypes' /\ ReceiveTypes' /\ LeaseOK' /\ PlanOK' /\ RowsOK' /\ OperationOK' /\
   NativeOK' /\ OutputsOK' /\ BlockedOK' /\ AccountsOK' /\ HistoryOK' /\ TargetOK' /\ SourceOK'
   /\ ServedOK' /\ KeptOK'
  BY <1>u, StoreTypesFrame, ReceiveTypesFrame, LeaseOKFrame, PlanOKFrame, RowsOKFrame,
     OperationOKFrame, NativeOKFrame, OutputsOKFrame, BlockedOKFrame, AccountsOKFrame,
     HistoryOKFrame, TargetOKFrame, SourceOKFrame, ServedOKFrame, KeptOKFrame
<1> QED BY <1>2, <1>3, <1>4, <1>5, <1>6

\* A superseded pack is deleted.
LEMMA DeleteSupersededStep ==
  ASSUME GcInv, NEW k \in Pack, DeleteSuperseded(k)
  PROVE  GcInv'
<1> USE DEF GcInv
<1>t. /\ op \in Operation /\ worker \in [Claim -> Workers] /\ push \in [Push -> PushStates]
      /\ plan \in [Push -> Plans \cup {NoPlan}] /\ mix \in Mixed
      /\ rows \in [Pack -> {"none", "active", "superseded"}]
  BY DEF StoreTypes, ReceiveTypes, GcTypes
<1>u. UNCHANGED <<refs, refsVersion, packset, staging, below, base, held, rlease, push, plan,
   handler, op, admitted, clease, pending, worker, native, mix>>
  BY DEF DeleteSuperseded, repository, objects, receives, collection
<1>1. /\ rows[k] = "superseded" /\ bucket' = bucket \ {k}
      /\ rows' \in [Pack -> {"none", "active", "superseded"}]
      /\ rows'[k] = "none" /\ \A j \in Pack : j # k => rows'[j] = rows[j]
  BY <1>t DEF DeleteSuperseded
<1>2. Push \subseteq Pack /\ Op \subseteq Pack
  BY DEF Pack
<1>3. op.phase # "complete" => op.id \in Op
  BY DEF OperationOK
<1>4. StoreTypes'
  BY <1>t, <1>1, <1>u DEF StoreTypes
<1>5. RowsOK'
  BY <1>t, Names, <1>1, <1>2, <1>3, <1>u DEF RowsOK, HasPack
<1>6. WorkersOK'
  BY <1>t, <1>1, <1>3, <1>u DEF WorkersOK, PhaseAt, Clean
<1>7. OutputsOK'
  BY <1>t, Names, <1>1, <1>2, <1>3, <1>u DEF OutputsOK, Clean
<1>8. BegunOK'
  BY <1>t, <1>1, <1>u, BegunSoft DEF Calm, Begun
<1>9. ServedOK'
  BY <1>t, <1>1, <1>u, ServedSoft DEF Calm, MayLand
<1>10. KeptOK'
  BY <1>t, <1>1, <1>3, <1>u, KeptSoft DEF Collects, Calm, OwnsSource, HasSnapshot, Passed
<1>11. ReceiveTypes' /\ GcTypes' /\ LeaseOK' /\ PlanOK' /\ OperationOK' /\ NativeOK' /\
   BlockedOK' /\ AccountsOK' /\ SeenOK' /\ HistoryOK' /\ TargetOK' /\ SourceOK'
  BY <1>u, ReceiveTypesFrame, GcTypesFrame, LeaseOKFrame, PlanOKFrame, OperationOKFrame,
     NativeOKFrame, BlockedOKFrame, AccountsOKFrame, SeenOKFrame, HistoryOKFrame, TargetOKFrame,
     SourceOKFrame
<1> QED BY <1>4, <1>5, <1>6, <1>7, <1>8, <1>9, <1>10, <1>11

\* The working files are deleted.
LEMMA DeleteStagingStep ==
  ASSUME GcInv, NEW c \in Claim, DeleteStaging(c)
  PROVE  GcInv'
<1> USE DEF GcInv
<1>t. /\ op \in Operation /\ worker \in [Claim -> Workers] /\ push \in [Push -> PushStates]
      /\ plan \in [Push -> Plans \cup {NoPlan}] /\ mix \in Mixed
      /\ rows \in [Pack -> {"none", "active", "superseded"}]
  BY DEF StoreTypes, ReceiveTypes, GcTypes
<1>u. UNCHANGED <<refs, refsVersion, packset, rows, bucket, below, base, held, rlease, push,
   plan, handler, op, admitted, clease, pending, native, mix>>
  BY DEF DeleteStaging, repository, objects, receives, collection
<1>s. /\ refs \in [Ref -> Oid] /\ op.snapshot \in Snapshots
      /\ \A d \in Claim : worker[d].snapshot \in Snapshots
      /\ below \in [Push -> SUBSET Push] /\ held \in [Op -> SUBSET Push]
      /\ \A q \in Push : plan[q].new \in Oid
  BY Typed
<1>1. /\ worker[c].pc = "reclaim" /\ op.phase = "reclaim" /\ op.id = worker[c].op /\ op.id \in Op
  BY DEF DeleteStaging, WorkersOK, PhaseAt, OperationOK
<1>2. /\ worker' \in [Claim -> Workers] /\ \A d \in Claim : d # c => worker'[d] = worker[d]
      /\ worker'[c].pc = "reclaimed" /\ worker'[c].op = worker[c].op
      /\ worker'[c].snapshot = worker[c].snapshot
  <2>1. Step(c, "reclaimed") /\ worker[c].pc # "gone"
    BY DEF DeleteStaging
  <2> QED BY <1>t, <2>1, StepEffects DEF WorkerSteps
<1>3. staging' \subseteq staging /\ native = NoJob
  BY <1>1 DEF DeleteStaging, NativeOK
<1>4. StoreTypes'
  BY <1>t, <1>3, <1>u DEF StoreTypes
<1>5. GcTypes'
  BY <1>t, <1>1, <1>2, <1>3, <1>u DEF GcTypes
<1>6. WorkersOK'
  BY <1>t, <1>1, <1>2, <1>3, <1>u DEF WorkersOK, PhaseAt, Clean
<1>7. NativeOK'
  BY <1>t, <1>1, <1>2, <1>3, <1>u DEF NativeOK
<1>8. OutputsOK'
  BY <1>t, <1>1, <1>2, <1>3, <1>u DEF OutputsOK, Clean
<1>9. SeenOK'
  BY <1>t, <1>1, <1>2, <1>u, <1>s, SeenSoft DEF Seen
<1>10. BegunOK'
  BY <1>t, <1>1, <1>2, <1>u, BegunSoft DEF Calm, Begun
<1>11. ReceiveTypes' /\ LeaseOK' /\ PlanOK' /\ RowsOK' /\ OperationOK' /\ BlockedOK' /\
   AccountsOK' /\ HistoryOK' /\ TargetOK' /\ SourceOK' /\ ServedOK' /\ KeptOK'
  BY <1>u, ReceiveTypesFrame, LeaseOKFrame, PlanOKFrame, RowsOKFrame, OperationOKFrame,
     BlockedOKFrame, AccountsOKFrame, HistoryOKFrame, TargetOKFrame, SourceOKFrame,
     ServedOKFrame, KeptOKFrame
<1> QED BY <1>4, <1>5, <1>6, <1>7, <1>8, <1>9, <1>10, <1>11

\* The operation is complete.
LEMMA ReclaimedStep ==
  ASSUME GcInv, NEW c \in Claim, Reclaimed(c)
  PROVE  GcInv'
<1> USE DEF GcInv
<1>t. /\ op \in Operation /\ worker \in [Claim -> Workers] /\ push \in [Push -> PushStates]
      /\ plan \in [Push -> Plans \cup {NoPlan}] /\ mix \in Mixed
      /\ rows \in [Pack -> {"none", "active", "superseded"}]
  BY DEF StoreTypes, ReceiveTypes, GcTypes
<1>u. UNCHANGED <<refs, refsVersion, packset, rows, bucket, staging, below, base, held, rlease,
   push, plan, handler, admitted, clease, pending, native, mix>>
  BY DEF Reclaimed, repository, objects, receives, collection
<1>s. /\ refs \in [Ref -> Oid] /\ op.snapshot \in Snapshots
      /\ \A d \in Claim : worker[d].snapshot \in Snapshots
      /\ below \in [Push -> SUBSET Push] /\ held \in [Op -> SUBSET Push]
      /\ \A q \in Push : plan[q].new \in Oid
  BY Typed
<1>1. op.claim = c /\ op.phase = "reclaim" /\ op.id = worker[c].op /\ op.id \in Op /\ ~op.waiting
  BY Names DEF Reclaimed, Owns, WorkersOK, PhaseAt, OperationOK
<1>2. /\ op' \in Operation /\ op'.phase = "complete" /\ op'.claim = None /\ op'.age = "none"
      /\ ~op'.intent /\ ~op'.planned
      /\ ~op'.retained /\ ~op'.indexed /\ ~op'.waiting /\ op'.id = op.id
      /\ op'.snapshot = op.snapshot
      /\ op'.id = op.id
  <2>1. op' = Ended(op, "complete")
    BY DEF Reclaimed
  <2> QED BY <1>t, <2>1, EndedFields DEF Phases
<1>3. /\ worker' \in [Claim -> Workers] /\ \A d \in Claim : d # c => worker'[d] = worker[d]
      /\ worker'[c].pc = "gone" /\ worker'[c].snapshot = NoSnapshot
  <2>1. Leaves(c)
    BY DEF Reclaimed
  <2> QED BY <1>t, <2>1, LeavesEffects
<1>4. native = NoJob
  BY <1>1 DEF NativeOK
<1>5. GcTypes'
  BY <1>t, <1>1, <1>2, <1>3, <1>4, <1>u DEF GcTypes
<1>6. OperationOK'
  BY <1>t, <1>1, <1>2, <1>u DEF OperationOK
<1>7. WorkersOK'
  BY <1>t, <1>1, <1>2, <1>3, <1>u DEF WorkersOK, PhaseAt, Clean
<1>8. NativeOK'
  BY <1>t, <1>1, <1>2, <1>4, <1>u DEF NativeOK
<1>9. OutputsOK'
  BY <1>t, <1>1, <1>2, <1>u DEF OutputsOK, Clean
<1>10. BlockedOK'
  BY <1>t, <1>1, <1>2, <1>u DEF BlockedOK
<1>11. AccountsOK'
  BY <1>t, <1>1, <1>2, <1>u DEF AccountsOK, OwnsSource
<1>12. SeenOK'
  BY <1>t, <1>1, <1>2, <1>3, <1>u, <1>s, SeenSoft DEF Seen
<1>13. TargetOK'
  BY <1>t, <1>1, <1>2, <1>u, ClosureSame DEF TargetOK, Holds
<1>14. BegunOK'
  BY <1>t, <1>1, <1>3, <1>u, BegunSoft DEF Calm, Begun
<1>15. SourceOK'
  BY <1>t, <1>1, <1>2, <1>u DEF SourceOK, OwnsSource
<1>16. KeptOK'
  BY <1>t, <1>1, <1>2, <1>u DEF KeptOK, Collects, OwnsSource
<1>17. StoreTypes' /\ ReceiveTypes' /\ LeaseOK' /\ PlanOK' /\ RowsOK' /\ HistoryOK' /\ ServedOK'
  BY <1>u, StoreTypesFrame, ReceiveTypesFrame, LeaseOKFrame, PlanOKFrame, RowsOKFrame,
     HistoryOKFrame, ServedOKFrame
<1> QED BY <1>5, <1>6, <1>7, <1>8, <1>9, <1>10, <1>11, <1>12, <1>13, <1>14, <1>15, <1>16, <1>17

\* The outputs of a drained operation may go.
LEMMA DiscardGoes ==
  ASSUME GcInv, NEW c \in Claim, DiscardKeys(c), MayDiscard(c), Step(c, "deleting"), UNCHANGED
     op
  PROVE  GcInv'
<1> USE DEF GcInv
<1>t. /\ op \in Operation /\ worker \in [Claim -> Workers] /\ push \in [Push -> PushStates]
      /\ plan \in [Push -> Plans \cup {NoPlan}] /\ mix \in Mixed
      /\ rows \in [Pack -> {"none", "active", "superseded"}]
  BY DEF StoreTypes, ReceiveTypes, GcTypes
<1>u. UNCHANGED <<refs, refsVersion, packset, rows, bucket, staging, below, base, held, rlease,
   push, plan, handler, op, admitted, clease, pending, native, mix>>
  BY DEF DiscardKeys, repository, objects, receives, collection
<1>s. /\ refs \in [Ref -> Oid] /\ op.snapshot \in Snapshots
      /\ \A d \in Claim : worker[d].snapshot \in Snapshots
      /\ below \in [Push -> SUBSET Push] /\ held \in [Op -> SUBSET Push]
      /\ \A q \in Push : plan[q].new \in Oid
  BY Typed
<1>1. worker[c].pc = "discard"
  BY DEF DiscardKeys
<1>2. /\ worker' \in [Claim -> Workers] /\ \A d \in Claim : d # c => worker'[d] = worker[d]
      /\ worker'[c].pc = "deleting" /\ worker'[c].op = worker[c].op
      /\ worker'[c].snapshot = worker[c].snapshot
  <2>1. Step(c, "deleting") /\ worker[c].pc # "gone"
    BY DEF DiscardKeys
  <2> QED BY <1>t, <2>1, StepEffects DEF WorkerSteps
<1>3. GcTypes'
  BY <1>t, <1>1, <1>2, <1>u DEF GcTypes
<1>4. WorkersOK'
  BY <1>t, <1>1, <1>2, <1>u DEF WorkersOK, PhaseAt, Clean
<1>5. SeenOK'
  BY <1>t, <1>1, <1>2, <1>u, <1>s, SeenSoft DEF Seen
<1>6. BegunOK'
  BY <1>t, <1>1, <1>2, <1>u, BegunSoft DEF Calm, Begun
<1>7. StoreTypes' /\ ReceiveTypes' /\ LeaseOK' /\ PlanOK' /\ RowsOK' /\ OperationOK' /\
   NativeOK' /\ OutputsOK' /\ BlockedOK' /\ AccountsOK' /\ HistoryOK' /\ TargetOK' /\ SourceOK'
   /\ ServedOK' /\ KeptOK'
  BY <1>u, StoreTypesFrame, ReceiveTypesFrame, LeaseOKFrame, PlanOKFrame, RowsOKFrame,
     OperationOKFrame, NativeOKFrame, OutputsOKFrame, BlockedOKFrame, AccountsOKFrame,
     HistoryOKFrame, TargetOKFrame, SourceOKFrame, ServedOKFrame, KeptOKFrame
<1> QED BY <1>3, <1>4, <1>5, <1>6, <1>7

\* Otherwise the Worker yields.
LEMMA DiscardWaits ==
  ASSUME GcInv, NEW c \in Claim, DiscardKeys(c), Yields(c)
  PROVE  GcInv'
<1> USE DEF GcInv
<1>t. /\ op \in Operation /\ worker \in [Claim -> Workers] /\ push \in [Push -> PushStates]
      /\ plan \in [Push -> Plans \cup {NoPlan}] /\ mix \in Mixed
      /\ rows \in [Pack -> {"none", "active", "superseded"}]
  BY DEF StoreTypes, ReceiveTypes, GcTypes
<1>u. UNCHANGED <<refs, refsVersion, packset, rows, bucket, staging, below, base, held, rlease,
   push, plan, handler, admitted, clease, pending, native, mix>>
  BY DEF DiscardKeys, repository, objects, receives, collection
<1>s. /\ refs \in [Ref -> Oid] /\ op.snapshot \in Snapshots
      /\ \A d \in Claim : worker[d].snapshot \in Snapshots
      /\ below \in [Push -> SUBSET Push] /\ held \in [Op -> SUBSET Push]
      /\ \A q \in Push : plan[q].new \in Oid
  BY Typed
<1>1. op.claim = c /\ op.phase = "discard" /\ op.id = worker[c].op /\ op.id \in Op /\ ~op.waiting
  BY Names DEF DiscardKeys, Owns, WorkersOK, PhaseAt, OperationOK
<1>2. /\ op' \in Operation /\ op'.claim = None /\ op'.age = "none"
      /\ op'.id = op.id /\ op'.phase = op.phase /\ op'.snapshot = op.snapshot
      /\ op'.refsVersion = op.refsVersion /\ op'.packset = op.packset
      /\ (op'.retained <=> op.retained) /\ (op'.planned <=> op.planned)
      /\ op'.target = op.target /\ (op'.intent <=> op.intent) /\ (op'.indexed <=> op.indexed)
      /\ (op'.waiting <=> op.waiting) /\ op'.armed = op.armed
  <2>1. op' = Unclaimed(op)
    BY DEF Yields
  <2> QED BY <1>t, <2>1, UnclaimedFields
<1>3. /\ worker' \in [Claim -> Workers] /\ \A d \in Claim : d # c => worker'[d] = worker[d]
      /\ worker'[c].pc = "gone" /\ worker'[c].snapshot = NoSnapshot
  <2>1. Leaves(c)
    BY DEF Yields
  <2> QED BY <1>t, <2>1, LeavesEffects
<1>4. native = NoJob
  BY <1>1 DEF NativeOK
<1>5. GcTypes'
  BY <1>t, <1>1, <1>2, <1>3, <1>4, <1>u DEF GcTypes
<1>6. OperationOK'
  BY <1>t, <1>1, <1>2, <1>u DEF OperationOK
<1>7. WorkersOK'
  BY <1>t, <1>1, <1>2, <1>3, <1>u DEF WorkersOK, PhaseAt, Clean
<1>8. NativeOK'
  BY <1>t, <1>1, <1>2, <1>4, <1>u DEF NativeOK
<1>9. OutputsOK'
  BY <1>t, <1>1, <1>2, <1>u DEF OutputsOK, Clean
<1>10. BlockedOK'
  BY <1>t, <1>1, <1>2, <1>u DEF BlockedOK
<1>11. AccountsOK'
  BY <1>t, <1>1, <1>2, <1>u, AccountsSoft DEF OwnsSource, HasSnapshot
<1>12. SeenOK'
  BY <1>t, <1>1, <1>2, <1>3, <1>u, <1>s, SeenSoft DEF Seen
<1>13. TargetOK'
  BY <1>t, <1>1, <1>2, <1>u, ClosureSame DEF TargetOK, Holds
<1>14. BegunOK'
  BY <1>t, <1>1, <1>3, <1>u, BegunSoft DEF Calm, Begun
<1>15. SourceOK'
  BY <1>t, <1>1, <1>2, <1>u, SourceSoft DEF Calm, OwnsSource, HasSnapshot
<1>16. KeptOK'
  BY <1>t, <1>1, <1>2, <1>u, KeptSoft DEF Collects, Calm, OwnsSource, HasSnapshot, Passed
<1>17. StoreTypes' /\ ReceiveTypes' /\ LeaseOK' /\ PlanOK' /\ RowsOK' /\ HistoryOK' /\ ServedOK'
  BY <1>u, StoreTypesFrame, ReceiveTypesFrame, LeaseOKFrame, PlanOKFrame, RowsOKFrame,
     HistoryOKFrame, ServedOKFrame
<1> QED BY <1>5, <1>6, <1>7, <1>8, <1>9, <1>10, <1>11, <1>12, <1>13, <1>14, <1>15, <1>16, <1>17

\* The outputs go.
LEMMA DeleteOutputsStep ==
  ASSUME GcInv, NEW c \in Claim, DeleteOutputs(c)
  PROVE  GcInv'
<1> USE DEF GcInv
<1>t. /\ op \in Operation /\ worker \in [Claim -> Workers] /\ push \in [Push -> PushStates]
      /\ plan \in [Push -> Plans \cup {NoPlan}] /\ mix \in Mixed
      /\ rows \in [Pack -> {"none", "active", "superseded"}]
  BY DEF StoreTypes, ReceiveTypes, GcTypes
<1>u. UNCHANGED <<refs, refsVersion, packset, rows, below, base, held, rlease, push, plan,
   handler, op, admitted, clease, pending, native, mix>>
  BY DEF DeleteOutputs, repository, objects, receives, collection
<1>s. /\ refs \in [Ref -> Oid] /\ op.snapshot \in Snapshots
      /\ \A d \in Claim : worker[d].snapshot \in Snapshots
      /\ below \in [Push -> SUBSET Push] /\ held \in [Op -> SUBSET Push]
      /\ \A q \in Push : plan[q].new \in Oid
  BY Typed
<1>1. /\ worker[c].pc = "deleting" /\ op.phase = "discard" /\ op.id = worker[c].op /\ op.id \in Op
      /\ op.claim = c
  BY DEF DeleteOutputs, WorkersOK, PhaseAt, OperationOK
<1>2. /\ worker' \in [Claim -> Workers] /\ \A d \in Claim : d # c => worker'[d] = worker[d]
      /\ worker'[c].pc = "deleted" /\ worker'[c].op = worker[c].op
      /\ worker'[c].snapshot = worker[c].snapshot
  <2>1. Step(c, "deleted") /\ worker[c].pc # "gone"
    BY DEF DeleteOutputs
  <2> QED BY <1>t, <2>1, StepEffects DEF WorkerSteps
<1>3. /\ staging' \subseteq staging /\ bucket' = bucket \ {op.id} /\ native = NoJob
      /\ rows[op.id] = "none"
      /\ Receipt(op.id) \notin staging' /\ Input(op.id) \notin staging'
  BY <1>1, Names DEF DeleteOutputs, NativeOK, OutputsOK, OperationOK
<1>4. StoreTypes'
  BY <1>t, <1>3, <1>u DEF StoreTypes
<1>5. GcTypes'
  BY <1>t, <1>1, <1>2, <1>3, <1>u DEF GcTypes
<1>6. RowsOK'
  BY <1>t, Names, <1>1, <1>2, <1>3, <1>u DEF RowsOK, HasPack
<1>7. WorkersOK'
  BY <1>t, <1>1, <1>2, <1>3, <1>u DEF WorkersOK, PhaseAt, Clean
<1>8. NativeOK'
  BY <1>t, <1>1, <1>2, <1>3, <1>u DEF NativeOK
<1>9. OutputsOK'
  BY <1>t, <1>1, <1>2, <1>3, <1>u DEF OutputsOK, Clean
<1>10. SeenOK'
  BY <1>t, <1>1, <1>2, <1>3, <1>u, <1>s, SeenSoft DEF Seen
<1>11. BegunOK'
  BY <1>t, <1>1, <1>2, <1>3, <1>u, BegunSoft DEF Calm, Begun
<1>12. ReceiveTypes' /\ LeaseOK' /\ PlanOK' /\ OperationOK' /\ BlockedOK' /\ AccountsOK' /\
   HistoryOK' /\ TargetOK' /\ SourceOK' /\ ServedOK' /\ KeptOK'
  BY <1>u, ReceiveTypesFrame, LeaseOKFrame, PlanOKFrame, OperationOKFrame, BlockedOKFrame,
     AccountsOKFrame, HistoryOKFrame, TargetOKFrame, SourceOKFrame, ServedOKFrame, KeptOKFrame
<1> QED BY <1>4, <1>5, <1>6, <1>7, <1>8, <1>9, <1>10, <1>11, <1>12

\* The operation is blocked, with nothing left.
LEMMA DiscardedStep ==
  ASSUME GcInv, NEW c \in Claim, Discarded(c)
  PROVE  GcInv'
<1> USE DEF GcInv
<1>t. /\ op \in Operation /\ worker \in [Claim -> Workers] /\ push \in [Push -> PushStates]
      /\ plan \in [Push -> Plans \cup {NoPlan}] /\ mix \in Mixed
      /\ rows \in [Pack -> {"none", "active", "superseded"}]
  BY DEF StoreTypes, ReceiveTypes, GcTypes
<1>u. UNCHANGED <<refs, refsVersion, packset, rows, bucket, staging, below, base, held, rlease,
   push, plan, handler, admitted, native, mix>>
  BY DEF Discarded, repository, objects, receives, collection
<1>s. /\ refs \in [Ref -> Oid] /\ op.snapshot \in Snapshots
      /\ \A d \in Claim : worker[d].snapshot \in Snapshots
      /\ below \in [Push -> SUBSET Push] /\ held \in [Op -> SUBSET Push]
      /\ \A q \in Push : plan[q].new \in Oid
  BY Typed
<1>1. /\ op.claim = c /\ op.phase = "discard" /\ op.id = worker[c].op /\ op.id \in Op /\ ~op.waiting
      /\ worker[c].pc = "deleted"
  BY Names DEF Discarded, Owns, WorkersOK, PhaseAt, OperationOK
<1>2. op.phase # "complete" /\ Clean(op.id) /\ native = NoJob /\ rows[op.id] = "none"
  BY <1>1, Names DEF OutputsOK, NativeOK, WorkersOK
<1>3. /\ op' \in Operation /\ op'.phase = "blocked" /\ op'.claim = None /\ op'.age = "none"
      /\ ~op'.intent /\ ~op'.planned
      /\ ~op'.retained /\ ~op'.indexed /\ ~op'.waiting /\ op'.id = op.id
      /\ op'.snapshot = op.snapshot
      /\ op'.id = op.id
  <2>1. op' = Ended(op, "blocked")
    BY DEF Discarded, BlockGc
  <2> QED BY <1>t, <2>1, EndedFields DEF Phases
<1>4. /\ worker' \in [Claim -> Workers] /\ \A d \in Claim : d # c => worker'[d] = worker[d]
      /\ worker'[c].pc = "gone" /\ worker'[c].snapshot = NoSnapshot
  <2>1. Leaves(c)
    BY DEF Discarded
  <2> QED BY <1>t, <2>1, LeavesEffects
<1>5. /\ clease' \in [token : Claim \cup {None}, age : Ages]
      /\ (clease'.token = None <=> clease'.age = "none")
      /\ clease' = NoLease \/ clease' = clease
      /\ clease'.token = None \/ clease'.token # op.snapshot.token
      /\ pending' \in Op \cup {None} /\ pending' # op.id
  BY <1>1, Nothings, Names DEF Discarded, BlockGc, GcTypes
<1>6. GcTypes'
  BY <1>t, <1>1, <1>2, <1>3, <1>4, <1>5, <1>u DEF GcTypes
<1>7. OperationOK'
  BY <1>t, <1>1, <1>2, <1>3, <1>5, <1>u DEF OperationOK
<1>8. WorkersOK'
  BY <1>t, <1>1, <1>2, <1>3, <1>4, <1>5, <1>u DEF WorkersOK, PhaseAt, Clean
<1>9. NativeOK'
  BY <1>t, <1>1, <1>2, <1>3, <1>5, <1>u DEF NativeOK
<1>10. OutputsOK'
  BY <1>t, <1>1, <1>2, <1>3, <1>5, <1>u DEF OutputsOK, Clean
<1>11. BlockedOK'
  BY <1>t, <1>1, <1>2, <1>3, <1>5 DEF BlockedOK
<1>12. AccountsOK'
  BY <1>t, <1>1, <1>2, <1>3, <1>5, <1>u DEF AccountsOK, OwnsSource
<1>13. SeenOK'
  BY <1>t, <1>1, <1>2, <1>3, <1>4, <1>5, <1>u, <1>s, SeenSoft DEF Seen
<1>14. TargetOK'
  BY <1>t, <1>1, <1>2, <1>3, <1>5, <1>u, ClosureSame DEF TargetOK, Holds
<1>15. BegunOK'
  BY <1>t, <1>1, <1>2, <1>4, <1>5, <1>u, Nothings, BegunSoft DEF Calm, Begun
<1>16. SourceOK'
  BY <1>t, <1>1, <1>2, <1>3, <1>5, <1>u DEF SourceOK, OwnsSource
<1>17. KeptOK'
  BY <1>t, <1>1, <1>2, <1>3, <1>5, <1>u DEF KeptOK, Collects, OwnsSource
<1>18. StoreTypes' /\ ReceiveTypes' /\ LeaseOK' /\ PlanOK' /\ RowsOK' /\ HistoryOK' /\ ServedOK'
  BY <1>u, StoreTypesFrame, ReceiveTypesFrame, LeaseOKFrame, PlanOKFrame, RowsOKFrame,
     HistoryOKFrame, ServedOKFrame
<1> QED BY <1>6, <1>7, <1>8, <1>9, <1>10, <1>11, <1>12, <1>13, <1>14, <1>15, <1>16, <1>17, <1>18

\* A receive takes the lease.
LEMMA BeginReceiveWaits ==
  ASSUME GcInv, NEW p \in Push, BeginReceive(p), UNCHANGED <<rows, packset, op, clease,
     pending>>
  PROVE  GcInv'
<1> USE DEF GcInv
<1>t. /\ op \in Operation /\ worker \in [Claim -> Workers] /\ push \in [Push -> PushStates]
      /\ plan \in [Push -> Plans \cup {NoPlan}] /\ mix \in Mixed
      /\ rows \in [Pack -> {"none", "active", "superseded"}]
  BY DEF StoreTypes, ReceiveTypes, GcTypes
<1>u. UNCHANGED <<refs, refsVersion, packset, rows, bucket, staging, below, base, held, plan,
   handler, op, admitted, clease, pending, worker, native, mix>>
  BY DEF BeginReceive, repository, objects, receives, collection
<1>s. /\ refs \in [Ref -> Oid] /\ op.snapshot \in Snapshots
      /\ \A d \in Claim : worker[d].snapshot \in Snapshots
      /\ below \in [Push -> SUBSET Push] /\ held \in [Op -> SUBSET Push]
      /\ \A q \in Push : plan[q].new \in Oid
  BY Typed
<1>1. rlease.age # "live" /\ ~HasIntent(rlease.token)
  BY DEF BeginReceive, LeaseFree
<1>2. /\ \A q \in Push : push[q] \notin {"proved", "intent", "active", "counted", "moved"}
      /\ handler \notin Push
  BY <1>1, Names DEF LeaseOK, HasIntent
<1>3. /\ push[p] = "idle" /\ push' \in [Push -> PushStates] /\ push'[p] = "leased"
      /\ \A q \in Push : q # p => push'[q] = push[q]
  BY <1>t DEF BeginReceive, PushStates
<1>4. /\ rlease' \in [token : Oid, age : Ages] /\ rlease'.token = p /\ rlease'.age = "live"
  BY DEF BeginReceive, Oid, Ages
<1>5. \A d \in Claim : ~Begun(d)
  BY DEF BeginReceive, GcAdmits, HasSnapshot, Begun, WorkersOK, OperationOK, PhaseAt
<1>6. ReceiveTypes'
  BY <1>t, Names, <1>1, <1>2, <1>3, <1>4, <1>u DEF ReceiveTypes
<1>7. LeaseOK'
  BY <1>t, <1>1, <1>2, <1>3, <1>4, <1>u DEF LeaseOK, HasIntent
<1>8. PlanOK'
  BY <1>t, <1>1, <1>2, <1>3, <1>u DEF PlanOK, HasIntent, HasPack
<1>9. RowsOK'
  BY <1>t, <1>1, <1>2, <1>3, <1>u DEF RowsOK, HasPack
<1>10. AccountsOK'
  BY <1>t, <1>1, <1>2, <1>3, <1>u DEF AccountsOK, OwnsSource, HasSnapshot, VersionsMatch,
     HasIntent, HasPack
<1>11. SeenOK'
  BY <1>t, <1>1, <1>2, <1>3, <1>5, <1>u, <1>s, SeenSoft DEF Seen
<1>12. BegunOK'
  BY <1>t, <1>1, <1>4, <1>5, <1>u, BegunSoft DEF Calm, Begun
<1>13. SourceOK'
  BY <1>t, <1>1, <1>2, <1>3, <1>u, SourceSoft DEF Calm, OwnsSource, HasSnapshot
<1>14. ServedOK'
  BY <1>t, <1>1, <1>2, <1>3, <1>4, <1>u, ServedSoft DEF Calm, MayLand
<1>15. KeptOK'
  BY <1>t, <1>1, <1>2, <1>3, <1>u, KeptSoft DEF Collects, Calm, OwnsSource, HasSnapshot, Passed
<1>16. StoreTypes' /\ GcTypes' /\ OperationOK' /\ WorkersOK' /\ NativeOK' /\ OutputsOK' /\
   BlockedOK' /\ HistoryOK' /\ TargetOK'
  BY <1>u, StoreTypesFrame, GcTypesFrame, OperationOKFrame, WorkersOKFrame, NativeOKFrame,
     OutputsOKFrame, BlockedOKFrame, HistoryOKFrame, TargetOKFrame
<1> QED BY <1>6, <1>7, <1>8, <1>9, <1>10, <1>11, <1>12, <1>13, <1>14, <1>15, <1>16

\* The lease of an intent is renewed.
LEMMA RenewIntentLeaseStep ==
  ASSUME GcInv, RenewIntentLease
  PROVE  GcInv'
<1> USE DEF GcInv
<1>t. /\ op \in Operation /\ worker \in [Claim -> Workers] /\ push \in [Push -> PushStates]
      /\ plan \in [Push -> Plans \cup {NoPlan}] /\ mix \in Mixed
      /\ rows \in [Pack -> {"none", "active", "superseded"}]
  BY DEF StoreTypes, ReceiveTypes, GcTypes
<1>u. UNCHANGED <<refs, refsVersion, packset, rows, bucket, staging, below, base, held, push,
   plan, handler, op, admitted, clease, pending, worker, native, mix>>
  BY DEF RenewIntentLease, repository, objects, receives, collection
<1>1. /\ rlease' \in [token : Oid, age : Ages] /\ rlease'.token = rlease.token
      /\ rlease'.age = "live"
      /\ rlease.age # "none" /\ rlease.age # "live" /\ HasIntent(rlease.token)
      /\ rlease.token \in Push
  BY Names DEF RenewIntentLease, ReceiveTypes, Ages, HasIntent, Oid
<1>2. mix.late
  BY <1>1 DEF LeaseOK
<1>3. ReceiveTypes'
  BY <1>t, <1>1, <1>u DEF ReceiveTypes
<1>4. LeaseOK'
  BY <1>t, <1>1, <1>2, <1>u DEF LeaseOK, HasIntent
<1>5. BegunOK'
  BY <1>2, <1>u DEF BegunOK, Calm
<1>6. ServedOK'
  BY <1>2, <1>u DEF ServedOK, Calm
<1>7. StoreTypes' /\ GcTypes' /\ PlanOK' /\ RowsOK' /\ OperationOK' /\ WorkersOK' /\ NativeOK'
   /\ OutputsOK' /\ BlockedOK' /\ AccountsOK' /\ SeenOK' /\ HistoryOK' /\ TargetOK' /\ SourceOK'
   /\ KeptOK'
  BY <1>u, StoreTypesFrame, GcTypesFrame, PlanOKFrame, RowsOKFrame, OperationOKFrame,
     WorkersOKFrame, NativeOKFrame, OutputsOKFrame, BlockedOKFrame, AccountsOKFrame,
     SeenOKFrame, HistoryOKFrame, TargetOKFrame, SourceOKFrame, KeptOKFrame
<1> QED BY <1>3, <1>4, <1>5, <1>6, <1>7

\* A push is given up.
LEMMA AbortReceiveStep ==
  ASSUME GcInv, NEW p \in Push, AbortReceive(p)
  PROVE  GcInv'
<1> USE DEF GcInv
<1>t. /\ op \in Operation /\ worker \in [Claim -> Workers] /\ push \in [Push -> PushStates]
      /\ plan \in [Push -> Plans \cup {NoPlan}] /\ mix \in Mixed
      /\ rows \in [Pack -> {"none", "active", "superseded"}]
  BY DEF StoreTypes, ReceiveTypes, GcTypes
<1>u. UNCHANGED <<refs, refsVersion, packset, rows, staging, below, base, held, plan, handler,
   op, admitted, clease, pending, worker, native, mix>>
  BY DEF AbortReceive, repository, objects, receives, collection
<1>s. /\ refs \in [Ref -> Oid] /\ op.snapshot \in Snapshots
      /\ \A d \in Claim : worker[d].snapshot \in Snapshots
      /\ below \in [Push -> SUBSET Push] /\ held \in [Op -> SUBSET Push]
      /\ \A q \in Push : plan[q].new \in Oid
  BY Typed
<1>1. /\ push[p] \in {"leased", "staged", "lost"} /\ push' \in [Push -> PushStates]
      /\ push'[p] = "failed"
      /\ \A q \in Push : q # p => push'[q] = push[q]
  BY <1>t DEF AbortReceive, PushStates
<1>2. bucket' = bucket \ {p} /\ rows[p] = "none"
  BY <1>1 DEF AbortReceive, RowsOK
<1>3. /\ rlease' \in [token : Oid, age : Ages] /\ (rlease'.token = None <=> rlease'.age = "none")
      /\ rlease' = rlease \/ (rlease.token = p /\ rlease' = NoLease)
      /\ NoLease.age = "none" /\ NoLease.token = None
  BY Nothings DEF AbortReceive, Release, ReceiveTypes
<1>4. op.phase # "complete" => op.id \in Op
  BY DEF OperationOK
<1>5. StoreTypes'
  BY <1>t, <1>2, <1>u DEF StoreTypes
<1>6. ReceiveTypes'
  BY <1>t, <1>1, <1>3, <1>u DEF ReceiveTypes
<1>7. LeaseOK'
  BY <1>t, <1>1, <1>3, <1>u DEF LeaseOK, HasIntent
<1>8. PlanOK'
  BY <1>t, <1>1, <1>u DEF PlanOK, HasIntent, HasPack
<1>9. RowsOK'
  BY <1>t, <1>1, <1>2, <1>u DEF RowsOK, HasPack
<1>10. WorkersOK'
  BY <1>t, <1>2, <1>4, <1>u DEF WorkersOK, PhaseAt, Clean
<1>11. OutputsOK'
  BY <1>t, Names, <1>2, <1>4, <1>u DEF OutputsOK, Clean
<1>12. AccountsOK'
  BY <1>t, <1>1, <1>4, <1>u DEF AccountsOK, OwnsSource, HasSnapshot, VersionsMatch, HasIntent,
     HasPack
<1>13. SeenOK'
  BY <1>t, <1>1, <1>4, <1>u, <1>s, SeenSoft DEF Seen
<1>14. BegunOK'
  BY <1>t, <1>2, <1>3, <1>u, BegunSoft DEF Calm, Begun
<1>15. SourceOK'
  BY <1>t, <1>1, <1>4, <1>u, SourceSoft DEF Calm, OwnsSource, HasSnapshot
<1>16. ServedOK'
  BY <1>t, <1>1, <1>2, <1>3, <1>u, ServedSoft DEF Calm, MayLand
<1>17. KeptOK'
  BY <1>t, <1>1, <1>2, <1>4, <1>u, KeptSoft DEF Collects, Calm, OwnsSource, HasSnapshot, Passed
<1>18. GcTypes' /\ OperationOK' /\ NativeOK' /\ BlockedOK' /\ HistoryOK' /\ TargetOK'
  BY <1>u, GcTypesFrame, OperationOKFrame, NativeOKFrame, BlockedOKFrame, HistoryOKFrame,
     TargetOKFrame
<1> QED BY <1>5, <1>6, <1>7, <1>8, <1>9, <1>10, <1>11, <1>12, <1>13, <1>14, <1>15, <1>16, <1>17,
   <1>18

\* The intent and the retention it needs are durable.
LEMMA IntentWritten ==
  ASSUME GcInv, NEW p \in Push, WriteIntent(p), ProofCurrent(p), push' = [push EXCEPT ![p] =
     "intent"], op' = [op EXCEPT !.retained = @ \/ plan[p].proof = "retain"], UNCHANGED handler
  PROVE  GcInv'
<1> USE DEF GcInv
<1>t. /\ op \in Operation /\ worker \in [Claim -> Workers] /\ push \in [Push -> PushStates]
      /\ plan \in [Push -> Plans \cup {NoPlan}] /\ mix \in Mixed
      /\ rows \in [Pack -> {"none", "active", "superseded"}]
  BY DEF StoreTypes, ReceiveTypes, GcTypes
<1>u. UNCHANGED <<refs, refsVersion, packset, rows, bucket, staging, below, base, held, rlease,
   plan, handler, admitted, clease, pending, worker, native, mix>>
  BY DEF WriteIntent, repository, objects, receives, collection
<1>s. /\ refs \in [Ref -> Oid] /\ op.snapshot \in Snapshots
      /\ \A d \in Claim : worker[d].snapshot \in Snapshots
      /\ below \in [Push -> SUBSET Push] /\ held \in [Op -> SUBSET Push]
      /\ \A q \in Push : plan[q].new \in Oid
  BY Typed
<1>1. /\ push[p] = "proved" /\ push' \in [Push -> PushStates] /\ push'[p] = "intent"
      /\ \A q \in Push : q # p => push'[q] = push[q]
  BY <1>t DEF WriteIntent, PushStates
<1>2. /\ handler = p /\ rlease.token = p /\ rlease.age = "live"
      /\ \A q \in Push : q # p => push[q] \notin {"proved", "intent", "active", "counted", "moved"}
  BY Names DEF WriteIntent, LeaseOK, HasIntent
<1>3. /\ op' \in Operation /\ (op'.retained <=> op.retained \/ plan[p].proof = "retain")
      /\ op'.id = op.id /\ op'.phase = op.phase /\ op'.claim = op.claim /\ op'.age = op.age
      /\ op'.snapshot = op.snapshot /\ op'.refsVersion = op.refsVersion
      /\ op'.packset = op.packset /\ (op'.planned <=> op.planned) /\ op'.target = op.target
      /\ (op'.intent <=> op.intent) /\ (op'.indexed <=> op.indexed)
      /\ (op'.waiting <=> op.waiting) /\ op'.armed = op.armed
  <2> DEFINE v == op.retained \/ plan[p].proof = "retain"
  <2>1. v \in BOOLEAN /\ op' = [op EXCEPT !.retained = v]
    BY <1>t DEF Operation
  <2> HIDE DEF v
  <2>2. op' \in Operation /\ op'.retained = v
    BY <1>t, <2>1 DEF Operation
  <2>3. /\ op'.id = op.id /\ op'.phase = op.phase /\ op'.claim = op.claim /\ op'.age = op.age
        /\ op'.snapshot = op.snapshot /\ op'.refsVersion = op.refsVersion
        /\ op'.packset = op.packset /\ (op'.planned <=> op.planned) /\ op'.target = op.target
        /\ (op'.intent <=> op.intent) /\ (op'.indexed <=> op.indexed)
        /\ (op'.waiting <=> op.waiting) /\ op'.armed = op.armed
    BY <1>t, <2>1 DEF Operation
  <2> QED BY <2>2, <2>3 DEF v
<1>4. plan[p] \in Plans /\ plan[p].proof \in {"none", "clean", "retain"}
  BY <1>1 DEF PlanOK, Plans
<1>5. OwnsSource => VersionsMatch
  BY <1>1, <1>2 DEF AccountsOK, HasIntent
<1>6. ReceiveTypes'
  BY <1>t, <1>1, <1>2, <1>3, <1>4, <1>u DEF ReceiveTypes
<1>7. GcTypes'
  BY <1>t, <1>3, <1>5, <1>u DEF GcTypes
<1>8. LeaseOK'
  BY <1>t, Names, <1>1, <1>2, <1>u DEF LeaseOK, HasIntent
<1>9. PlanOK'
  BY <1>t, <1>1, <1>2, <1>3, <1>4, <1>u DEF PlanOK, HasIntent, HasPack
<1>10. RowsOK'
  BY <1>t, <1>1, <1>2, <1>3, <1>4, <1>u DEF RowsOK, HasPack
<1>11. OperationOK'
  BY <1>t, <1>3, <1>5, <1>u DEF OperationOK
<1>12. WorkersOK'
  BY <1>t, <1>3, <1>5, <1>u DEF WorkersOK, PhaseAt, Clean
<1>13. NativeOK'
  BY <1>t, <1>3, <1>5, <1>u DEF NativeOK
<1>14. OutputsOK'
  BY <1>t, <1>3, <1>5, <1>u DEF OutputsOK, Clean
<1>15. BlockedOK'
  BY <1>t, <1>3, <1>5, <1>u DEF BlockedOK
<1>16. AccountsOK'
  BY <1>t, <1>1, <1>2, <1>3, <1>4, <1>5, <1>u DEF AccountsOK, OwnsSource, HasSnapshot,
     VersionsMatch, HasIntent, HasPack
<1>17. SeenOK'
  BY <1>t, <1>1, <1>2, <1>3, <1>4, <1>5, <1>u, <1>s, SeenSoft DEF Seen
<1>18. TargetOK'
  BY <1>t, <1>3, <1>5, <1>u, ClosureSame DEF TargetOK, Holds
<1>19. SourceOK'
  BY <1>t, <1>1, <1>2, <1>3, <1>4, <1>5, <1>u, SourceSoft DEF Calm, OwnsSource, HasSnapshot
<1>20. ServedOK'
  BY <1>t, <1>1, <1>2, <1>3, <1>4, <1>u, ServedSoft DEF Calm, MayLand
<1>21. KeptOK'
  <2> SUFFICES ASSUME Collects' PROVE KeptOK'
    BY DEF KeptOK
  <2>1. Collects /\ plan[p].proof # "retain"
    BY <1>3, <1>u DEF Collects, Calm, OwnsSource, HasSnapshot
  <2>2. plan[p].proof # "none"
    BY <2>1, <1>1 DEF Collects, SourceOK
  <2>3. Passed(p)
    BY <1>1, <1>4, <2>1, <2>2 DEF Passed
  <2>4. \A q \in Push : Passed(q)' => Passed(q)
    BY <1>1, <1>u, <2>3 DEF Passed
  <2> QED BY <1>3, <1>u, <2>1, <2>4, KeptSoft
<1>22. StoreTypes' /\ HistoryOK' /\ BegunOK'
  BY <1>u, StoreTypesFrame, HistoryOKFrame, BegunOKFrame
<1> QED BY <1>6, <1>7, <1>8, <1>9, <1>10, <1>11, <1>12, <1>13, <1>14, <1>15, <1>16, <1>17,
   <1>18, <1>19, <1>20, <1>21, <1>22

\* A proof that is no longer current loses the finalization.
LEMMA IntentLost ==
  ASSUME GcInv, NEW p \in Push, WriteIntent(p), push' = [push EXCEPT ![p] = "lost"], handler' =
     None, UNCHANGED op
  PROVE  GcInv'
<1> USE DEF GcInv
<1>t. /\ op \in Operation /\ worker \in [Claim -> Workers] /\ push \in [Push -> PushStates]
      /\ plan \in [Push -> Plans \cup {NoPlan}] /\ mix \in Mixed
      /\ rows \in [Pack -> {"none", "active", "superseded"}]
  BY DEF StoreTypes, ReceiveTypes, GcTypes
<1>u. UNCHANGED <<refs, refsVersion, packset, rows, bucket, staging, below, base, held, rlease,
   plan, op, admitted, clease, pending, worker, native, mix>>
  BY DEF WriteIntent, repository, objects, receives, collection
<1>s. /\ refs \in [Ref -> Oid] /\ op.snapshot \in Snapshots
      /\ \A d \in Claim : worker[d].snapshot \in Snapshots
      /\ below \in [Push -> SUBSET Push] /\ held \in [Op -> SUBSET Push]
      /\ \A q \in Push : plan[q].new \in Oid
  BY Typed
<1>1. /\ push[p] = "proved" /\ push' \in [Push -> PushStates] /\ push'[p] = "lost"
      /\ \A q \in Push : q # p => push'[q] = push[q]
  BY <1>t DEF WriteIntent, PushStates
<1>2. /\ handler = p /\ rlease.token = p /\ rlease.age = "live"
      /\ \A q \in Push : q # p => push[q] \notin {"proved", "intent", "active", "counted", "moved"}
  BY Names DEF WriteIntent, LeaseOK, HasIntent
<1>3. handler' = None /\ None \in Oid
  BY DEF Oid
<1>4. ReceiveTypes'
  BY <1>t, <1>1, <1>2, <1>3, <1>u DEF ReceiveTypes
<1>5. LeaseOK'
  BY <1>t, Names, <1>1, <1>2, <1>3, <1>u DEF LeaseOK, HasIntent
<1>6. PlanOK'
  BY <1>t, <1>1, <1>2, <1>u DEF PlanOK, HasIntent, HasPack
<1>7. RowsOK'
  BY <1>t, <1>1, <1>2, <1>u DEF RowsOK, HasPack
<1>8. AccountsOK'
  BY <1>t, <1>1, <1>2, <1>u DEF AccountsOK, OwnsSource, HasSnapshot, VersionsMatch, HasIntent,
     HasPack
<1>9. SeenOK'
  BY <1>t, <1>1, <1>2, <1>u, <1>s, SeenSoft DEF Seen
<1>10. SourceOK'
  BY <1>t, <1>1, <1>2, <1>u, SourceSoft DEF Calm, OwnsSource, HasSnapshot
<1>11. ServedOK'
  BY <1>t, <1>1, <1>2, <1>u, ServedSoft DEF Calm, MayLand
<1>12. KeptOK'
  BY <1>t, <1>1, <1>2, <1>u, KeptSoft DEF Collects, Calm, OwnsSource, HasSnapshot, Passed
<1>13. StoreTypes' /\ GcTypes' /\ OperationOK' /\ WorkersOK' /\ NativeOK' /\ OutputsOK' /\
   BlockedOK' /\ HistoryOK' /\ TargetOK' /\ BegunOK'
  BY <1>u, StoreTypesFrame, GcTypesFrame, OperationOKFrame, WorkersOKFrame, NativeOKFrame,
     OutputsOKFrame, BlockedOKFrame, HistoryOKFrame, TargetOKFrame, BegunOKFrame
<1> QED BY <1>4, <1>5, <1>6, <1>7, <1>8, <1>9, <1>10, <1>11, <1>12, <1>13

\* The pushed pack enters the catalog.
LEMMA PackActivated ==
  ASSUME GcInv, NEW p \in Push, ActivatePack(p), HasPack(p)
  PROVE  GcInv'
<1> USE DEF GcInv
<1>t. /\ op \in Operation /\ worker \in [Claim -> Workers] /\ push \in [Push -> PushStates]
      /\ plan \in [Push -> Plans \cup {NoPlan}] /\ mix \in Mixed
      /\ rows \in [Pack -> {"none", "active", "superseded"}]
  BY DEF StoreTypes, ReceiveTypes, GcTypes
<1>u. UNCHANGED <<refs, refsVersion, packset, bucket, staging, below, base, held, rlease, plan,
   handler, op, admitted, clease, pending, worker, native, mix>>
  BY DEF ActivatePack, repository, objects, receives, collection
<1>s. /\ refs \in [Ref -> Oid] /\ op.snapshot \in Snapshots
      /\ \A d \in Claim : worker[d].snapshot \in Snapshots
      /\ below \in [Push -> SUBSET Push] /\ held \in [Op -> SUBSET Push]
      /\ \A q \in Push : plan[q].new \in Oid
  BY Typed
<1>1. /\ push[p] = "intent" /\ push' \in [Push -> PushStates] /\ push'[p] = "active"
      /\ \A q \in Push : q # p => push'[q] = push[q]
  BY <1>t DEF ActivatePack, PushStates
<1>2. /\ handler = p /\ rlease.token = p /\ rlease.age = "live"
      /\ \A q \in Push : q # p => push[q] \notin {"proved", "intent", "active", "counted", "moved"}
  BY Names DEF ActivatePack, LeaseOK, HasIntent
<1>3. /\ rows'[p] = "active" /\ rows' \in [Pack -> {"none", "active", "superseded"}]
      /\ \A k \in Pack : k # p => rows'[k] = rows[k]
      /\ p \in Pack /\ p \in bucket /\ p \notin Op
  BY <1>t, <1>1, Names DEF ActivatePack, Pack, RowsOK
<1>4. Op \subseteq Pack /\ Push \subseteq Pack /\ Holds(p) = {p} /\ \A k : Holds(k)' = Holds(k)
  BY <1>3, <1>u DEF Pack, Holds
<1>5. op.phase # "complete" => op.id \in Op
  BY DEF OperationOK
<1>6. StoreTypes'
  BY <1>t, <1>3, <1>u DEF StoreTypes
<1>7. ReceiveTypes'
  BY <1>t, <1>1, <1>2, <1>u DEF ReceiveTypes
<1>8. LeaseOK'
  BY <1>t, <1>1, <1>2, <1>u DEF LeaseOK, HasIntent
<1>9. PlanOK'
  BY <1>t, <1>1, <1>2, <1>u DEF PlanOK, HasIntent, HasPack
<1>10. RowsOK'
  BY <1>t, Names, <1>1, <1>2, <1>3, <1>4, <1>5, <1>u DEF RowsOK, HasPack
<1>11. OutputsOK'
  BY <1>t, Names, <1>1, <1>2, <1>3, <1>4, <1>5, <1>u DEF OutputsOK, Clean
<1>12. AccountsOK'
  BY <1>t, <1>1, <1>2, <1>5, <1>u DEF AccountsOK, OwnsSource, HasSnapshot, VersionsMatch,
     HasIntent, HasPack
<1>13. SeenOK'
  BY <1>t, <1>1, <1>2, <1>5, <1>u, <1>s, SeenSoft DEF Seen
<1>14. BegunOK'
  BY <1>t, <1>2, <1>3, <1>u DEF BegunOK, Calm, Begun
<1>15. SourceOK'
  BY <1>t, <1>1, <1>2, <1>5, <1>u, SourceSoft DEF Calm, OwnsSource, HasSnapshot
<1>16. ServedOK'
  <2> SUFFICES ASSUME Calm PROVE ServedOK'
    BY <1>u DEF ServedOK, Calm
  <2>1. \A x : IsServed(x)' <=> IsServed(x) \/ x = p
    BY <1>3, <1>4 DEF IsServed
  <2>2. MayLand(p)
    BY <1>1, <1>2 DEF MayLand
  <2>3. \A y \in below[p] : IsServed(y)
    BY <2>2 DEF ServedOK
  <2>4. \A q \in Push : MayLand(q)' => MayLand(q)
    BY <1>1, <1>2, <1>u DEF MayLand
  <2>5. \A q \in Push : HasPack(q)' <=> HasPack(q)
    BY <1>u DEF HasPack
  <2> QED BY <1>u, <2>1, <2>3, <2>4, <2>5 DEF ServedOK
<1>17. KeptOK'
  <2> SUFFICES ASSUME Collects PROVE KeptOK'
    BY <1>u DEF KeptOK, Collects, Calm, OwnsSource, HasSnapshot
  <2>1. p \notin op.snapshot.sources
    BY <1>1 DEF Collects, SourceOK
  <2>2. \A x : IsOutside(x)' <=> IsOutside(x) \/ x = p
    BY <1>3, <1>4, <1>u, <2>1 DEF IsOutside
  <2>3. GcClosure' = GcClosure
    BY <1>u, ClosureSame
  <2>4. Passed(p)
    BY <1>1 DEF Passed
  <2>5. \A y \in below[p] : IsKept(y)
    BY <2>4 DEF KeptOK
  <2>6. \A x : IsKept(x) => IsKept(x)'
    BY <2>2, <2>3 DEF IsKept
  <2>7. \A q \in Push : (Passed(q)' => Passed(q)) /\ (HasPack(q)' <=> HasPack(q))
    BY <1>1, <1>u, <2>4 DEF Passed, HasPack
  <2> QED BY <1>u, <2>2, <2>5, <2>6, <2>7 DEF KeptOK
<1>18. GcTypes' /\ OperationOK' /\ WorkersOK' /\ NativeOK' /\ BlockedOK' /\ HistoryOK' /\
   TargetOK'
  BY <1>u, GcTypesFrame, OperationOKFrame, WorkersOKFrame, NativeOKFrame, BlockedOKFrame,
     HistoryOKFrame, TargetOKFrame
<1> QED BY <1>6, <1>7, <1>8, <1>9, <1>10, <1>11, <1>12, <1>13, <1>14, <1>15, <1>16, <1>17, <1>18

\* A push without a pack has nothing to list.
LEMMA NothingActivated ==
  ASSUME GcInv, NEW p \in Push, ActivatePack(p), ~HasPack(p)
  PROVE  GcInv'
<1> USE DEF GcInv
<1>t. /\ op \in Operation /\ worker \in [Claim -> Workers] /\ push \in [Push -> PushStates]
      /\ plan \in [Push -> Plans \cup {NoPlan}] /\ mix \in Mixed
      /\ rows \in [Pack -> {"none", "active", "superseded"}]
  BY DEF StoreTypes, ReceiveTypes, GcTypes
<1>u. UNCHANGED <<refs, refsVersion, packset, rows, bucket, staging, below, base, held, rlease,
   plan, handler, op, admitted, clease, pending, worker, native, mix>>
  BY DEF ActivatePack, repository, objects, receives, collection
<1>s. /\ refs \in [Ref -> Oid] /\ op.snapshot \in Snapshots
      /\ \A d \in Claim : worker[d].snapshot \in Snapshots
      /\ below \in [Push -> SUBSET Push] /\ held \in [Op -> SUBSET Push]
      /\ \A q \in Push : plan[q].new \in Oid
  BY Typed
<1>1. /\ push[p] = "intent" /\ push' \in [Push -> PushStates] /\ push'[p] = "counted"
      /\ \A q \in Push : q # p => push'[q] = push[q]
  BY <1>t DEF ActivatePack, PushStates
<1>2. /\ handler = p /\ rlease.token = p /\ rlease.age = "live"
      /\ \A q \in Push : q # p => push[q] \notin {"proved", "intent", "active", "counted", "moved"}
  BY Names DEF ActivatePack, LeaseOK, HasIntent
<1>3. ReceiveTypes'
  BY <1>t, <1>1, <1>2, <1>u DEF ReceiveTypes
<1>4. LeaseOK'
  BY <1>t, <1>1, <1>2, <1>u DEF LeaseOK, HasIntent
<1>5. PlanOK'
  BY <1>t, <1>1, <1>2, <1>u DEF PlanOK, HasIntent, HasPack
<1>6. RowsOK'
  BY <1>t, <1>1, <1>2, <1>u DEF RowsOK, HasPack
<1>7. AccountsOK'
  BY <1>t, <1>1, <1>2, <1>u DEF AccountsOK, OwnsSource, HasSnapshot, VersionsMatch, HasIntent,
     HasPack
<1>8. SeenOK'
  BY <1>t, <1>1, <1>2, <1>u, <1>s, SeenSoft DEF Seen
<1>9. SourceOK'
  BY <1>t, <1>1, <1>2, <1>u, SourceSoft DEF Calm, OwnsSource, HasSnapshot
<1>10. ServedOK'
  BY <1>t, <1>1, <1>2, <1>u, ServedSoft DEF Calm, MayLand
<1>11. KeptOK'
  BY <1>t, <1>1, <1>2, <1>u, KeptSoft DEF Collects, Calm, OwnsSource, HasSnapshot, Passed
<1>12. StoreTypes' /\ GcTypes' /\ OperationOK' /\ WorkersOK' /\ NativeOK' /\ OutputsOK' /\
   BlockedOK' /\ HistoryOK' /\ TargetOK' /\ BegunOK'
  BY <1>u, StoreTypesFrame, GcTypesFrame, OperationOKFrame, WorkersOKFrame, NativeOKFrame,
     OutputsOKFrame, BlockedOKFrame, HistoryOKFrame, TargetOKFrame, BegunOKFrame
<1> QED BY <1>3, <1>4, <1>5, <1>6, <1>7, <1>8, <1>9, <1>10, <1>11, <1>12

\* The pack version counts it.
LEMMA CountPackStep ==
  ASSUME GcInv, NEW p \in Push, CountPack(p)
  PROVE  GcInv'
<1> USE DEF GcInv
<1>t. /\ op \in Operation /\ worker \in [Claim -> Workers] /\ push \in [Push -> PushStates]
      /\ plan \in [Push -> Plans \cup {NoPlan}] /\ mix \in Mixed
      /\ rows \in [Pack -> {"none", "active", "superseded"}]
  BY DEF StoreTypes, ReceiveTypes, GcTypes
<1>u. UNCHANGED <<refs, refsVersion, rows, bucket, staging, below, base, held, rlease, plan,
   handler, op, admitted, clease, pending, worker, native, mix>>
  BY DEF CountPack, repository, objects, receives, collection
<1>s. /\ refs \in [Ref -> Oid] /\ op.snapshot \in Snapshots
      /\ \A d \in Claim : worker[d].snapshot \in Snapshots
      /\ below \in [Push -> SUBSET Push] /\ held \in [Op -> SUBSET Push]
      /\ \A q \in Push : plan[q].new \in Oid
  BY Typed
<1>1. /\ push[p] = "active" /\ push' \in [Push -> PushStates] /\ push'[p] = "counted"
      /\ \A q \in Push : q # p => push'[q] = push[q]
  BY <1>t DEF CountPack, PushStates
<1>2. /\ handler = p /\ rlease.token = p /\ rlease.age = "live"
      /\ \A q \in Push : q # p => push[q] \notin {"proved", "intent", "active", "counted", "moved"}
  BY Names DEF CountPack, LeaseOK, HasIntent
<1>3. plan[p] \in Plans /\ HasPack(p) /\ plan[p].packset = packset + 1 /\ packset \in Nat
  BY <1>1, Names DEF PlanOK, HasIntent, StoreTypes
<1>4. packset' = packset + 1
  BY <1>3 DEF CountPack
<1>5. StoreTypes'
  BY <1>t, <1>3, <1>4, <1>u DEF StoreTypes
<1>6. ReceiveTypes'
  BY <1>t, <1>1, <1>2, <1>3, <1>u DEF ReceiveTypes
<1>7. LeaseOK'
  BY <1>t, <1>1, <1>2, <1>u DEF LeaseOK, HasIntent
<1>8. PlanOK'
  BY <1>t, <1>1, <1>2, <1>3, <1>4, <1>u DEF PlanOK, HasIntent, HasPack
<1>9. RowsOK'
  BY <1>t, <1>1, <1>2, <1>3, <1>u DEF RowsOK, HasPack
<1>10. AccountsOK'
  BY <1>t, Names, <1>1, <1>2, <1>3, <1>4, <1>u DEF AccountsOK, OwnsSource, HasSnapshot,
     VersionsMatch, HasIntent, HasPack
<1>11. SeenOK'
  BY <1>t, <1>1, <1>2, <1>3, <1>u, <1>s, SeenSoft DEF Seen
<1>12. SourceOK'
  BY <1>t, <1>1, <1>2, <1>3, <1>u, SourceSoft DEF Calm, OwnsSource, HasSnapshot
<1>13. ServedOK'
  BY <1>t, <1>1, <1>2, <1>3, <1>u, ServedSoft DEF Calm, MayLand
<1>14. KeptOK'
  BY <1>t, <1>1, <1>2, <1>3, <1>u, KeptSoft DEF Collects, Calm, OwnsSource, HasSnapshot, Passed
<1>15. GcTypes' /\ OperationOK' /\ WorkersOK' /\ NativeOK' /\ OutputsOK' /\ BlockedOK' /\
   HistoryOK' /\ TargetOK' /\ BegunOK'
  BY <1>u, GcTypesFrame, OperationOKFrame, WorkersOKFrame, NativeOKFrame, OutputsOKFrame,
     BlockedOKFrame, HistoryOKFrame, TargetOKFrame, BegunOKFrame
<1> QED BY <1>5, <1>6, <1>7, <1>8, <1>9, <1>10, <1>11, <1>12, <1>13, <1>14, <1>15

\* A replay throws, and the intent stays.
LEMMA FinalizeThrowsStep ==
  ASSUME GcInv, NEW p \in Push, FinalizeThrows(p)
  PROVE  GcInv'
<1> USE DEF GcInv
<1>t. /\ op \in Operation /\ worker \in [Claim -> Workers] /\ push \in [Push -> PushStates]
      /\ plan \in [Push -> Plans \cup {NoPlan}] /\ mix \in Mixed
      /\ rows \in [Pack -> {"none", "active", "superseded"}]
  BY DEF StoreTypes, ReceiveTypes, GcTypes
<1>u. UNCHANGED <<refs, refsVersion, packset, rows, bucket, staging, below, base, held, rlease,
   push, plan, op, admitted, clease, pending, worker, native, mix>>
  BY DEF FinalizeThrows, repository, objects, receives, collection
<1>1. push[p] = "counted" /\ handler' = None /\ None \in Oid
  BY DEF FinalizeThrows, Oid
<1>2. /\ handler = p /\ rlease.token = p /\ rlease.age = "live"
      /\ \A q \in Push : q # p => push[q] \notin {"proved", "intent", "active", "counted", "moved"}
  BY Names DEF FinalizeThrows, LeaseOK, HasIntent
<1>3. ReceiveTypes'
  BY <1>t, <1>1, <1>2, <1>u DEF ReceiveTypes
<1>4. LeaseOK'
  BY <1>t, Names, <1>1, <1>2, <1>u DEF LeaseOK, HasIntent
<1>5. StoreTypes' /\ GcTypes' /\ PlanOK' /\ RowsOK' /\ OperationOK' /\ WorkersOK' /\ NativeOK'
   /\ OutputsOK' /\ BlockedOK' /\ AccountsOK' /\ SeenOK' /\ HistoryOK' /\ TargetOK' /\ BegunOK'
   /\ SourceOK' /\ ServedOK' /\ KeptOK'
  BY <1>u, StoreTypesFrame, GcTypesFrame, PlanOKFrame, RowsOKFrame, OperationOKFrame,
     WorkersOKFrame, NativeOKFrame, OutputsOKFrame, BlockedOKFrame, AccountsOKFrame,
     SeenOKFrame, HistoryOKFrame, TargetOKFrame, BegunOKFrame, SourceOKFrame, ServedOKFrame,
     KeptOKFrame
<1> QED BY <1>3, <1>4, <1>5

\* The outcome is stored and the lease released.
LEMMA FinishReceiveStep ==
  ASSUME GcInv, NEW p \in Push, FinishReceive(p)
  PROVE  GcInv'
<1> USE DEF GcInv
<1>t. /\ op \in Operation /\ worker \in [Claim -> Workers] /\ push \in [Push -> PushStates]
      /\ plan \in [Push -> Plans \cup {NoPlan}] /\ mix \in Mixed
      /\ rows \in [Pack -> {"none", "active", "superseded"}]
  BY DEF StoreTypes, ReceiveTypes, GcTypes
<1>u. UNCHANGED <<refs, refsVersion, packset, rows, bucket, staging, below, base, held, plan,
   op, admitted, clease, pending, worker, native, mix>>
  BY DEF FinishReceive, repository, objects, receives, collection
<1>s. /\ refs \in [Ref -> Oid] /\ op.snapshot \in Snapshots
      /\ \A d \in Claim : worker[d].snapshot \in Snapshots
      /\ below \in [Push -> SUBSET Push] /\ held \in [Op -> SUBSET Push]
      /\ \A q \in Push : plan[q].new \in Oid
  BY Typed
<1>1. /\ push[p] = "moved" /\ push' \in [Push -> PushStates] /\ push'[p] = "done"
      /\ \A q \in Push : q # p => push'[q] = push[q]
  BY <1>t DEF FinishReceive, PushStates
<1>2. /\ handler = p /\ rlease.token = p /\ rlease.age = "live"
      /\ \A q \in Push : q # p => push[q] \notin {"proved", "intent", "active", "counted", "moved"}
  BY Names DEF FinishReceive, LeaseOK, HasIntent
<1>3. handler' = None /\ None \in Oid
  BY DEF FinishReceive, Oid
<1>4. /\ rlease' = NoLease /\ rlease' \in [token : Oid, age : Ages] /\ rlease'.age = "none"
      /\ rlease'.token = None
  BY <1>2, Nothings DEF FinishReceive, Release
<1>5. ReceiveTypes'
  BY <1>t, <1>1, <1>2, <1>3, <1>4, <1>u DEF ReceiveTypes
<1>6. LeaseOK'
  BY <1>t, Names, <1>1, <1>2, <1>3, <1>4, <1>u DEF LeaseOK, HasIntent
<1>7. PlanOK'
  BY <1>t, <1>1, <1>2, <1>u DEF PlanOK, HasIntent, HasPack
<1>8. RowsOK'
  BY <1>t, <1>1, <1>2, <1>u DEF RowsOK, HasPack
<1>9. AccountsOK'
  BY <1>t, <1>1, <1>2, <1>u DEF AccountsOK, OwnsSource, HasSnapshot, VersionsMatch, HasIntent,
     HasPack
<1>10. SeenOK'
  BY <1>t, <1>1, <1>2, <1>u, <1>s, SeenSoft DEF Seen
<1>11. BegunOK'
  BY <1>t, <1>2, <1>4, <1>u, BegunSoft DEF Calm, Begun
<1>12. SourceOK'
  BY <1>t, <1>1, <1>2, <1>u, SourceSoft DEF Calm, OwnsSource, HasSnapshot
<1>13. ServedOK'
  BY <1>t, <1>1, <1>2, <1>4, <1>u, ServedSoft DEF Calm, MayLand
<1>14. KeptOK'
  BY <1>t, <1>1, <1>2, <1>u, KeptSoft DEF Collects, Calm, OwnsSource, HasSnapshot, Passed
<1>15. StoreTypes' /\ GcTypes' /\ OperationOK' /\ WorkersOK' /\ NativeOK' /\ OutputsOK' /\
   BlockedOK' /\ HistoryOK' /\ TargetOK'
  BY <1>u, StoreTypesFrame, GcTypesFrame, OperationOKFrame, WorkersOKFrame, NativeOKFrame,
     OutputsOKFrame, BlockedOKFrame, HistoryOKFrame, TargetOKFrame
<1> QED BY <1>5, <1>6, <1>7, <1>8, <1>9, <1>10, <1>11, <1>12, <1>13, <1>14, <1>15

\* A finalization is replayed.
LEMMA ResumeFinalizeStep ==
  ASSUME GcInv, NEW p \in Push, ResumeFinalize(p)
  PROVE  GcInv'
<1> USE DEF GcInv
<1>t. /\ op \in Operation /\ worker \in [Claim -> Workers] /\ push \in [Push -> PushStates]
      /\ plan \in [Push -> Plans \cup {NoPlan}] /\ mix \in Mixed
      /\ rows \in [Pack -> {"none", "active", "superseded"}]
  BY DEF StoreTypes, ReceiveTypes, GcTypes
<1>u. UNCHANGED <<refs, refsVersion, packset, rows, bucket, staging, below, base, held, push,
   plan, op, admitted, clease, pending, worker, native, mix>>
  BY DEF ResumeFinalize, repository, objects, receives, collection
<1>1. /\ HasIntent(p) /\ rlease.token = p /\ (~mix.late => rlease.age = "live") /\ handler = None
      /\ \A q \in Push : push[q] # "proved"
  BY Names DEF ResumeFinalize, MayResume, LeaseOK
<1>2. /\ rlease' \in [token : Oid, age : Ages] /\ rlease'.token = p /\ rlease'.age = "live"
      /\ handler' = p /\ p \in Oid
  BY DEF ResumeFinalize, Oid, Ages
<1>3. ReceiveTypes'
  BY <1>t, Names, <1>1, <1>2, <1>u DEF ReceiveTypes
<1>4. LeaseOK'
  BY <1>t, <1>1, <1>2, <1>u DEF LeaseOK, HasIntent
<1>5. BegunOK'
  BY <1>t, <1>1, <1>2, <1>u, BegunSoft DEF Calm, Begun
<1>6. ServedOK'
  <2>1. CASE mix.late
    BY <1>u, <2>1 DEF ServedOK, Calm
  <2>2. CASE ~mix.late
    BY <1>t, Names, <1>1, <1>2, <1>u, <2>2, ServedSoft DEF Calm, MayLand
  <2> QED BY <2>1, <2>2
<1>7. StoreTypes' /\ GcTypes' /\ PlanOK' /\ RowsOK' /\ OperationOK' /\ WorkersOK' /\ NativeOK'
   /\ OutputsOK' /\ BlockedOK' /\ AccountsOK' /\ SeenOK' /\ HistoryOK' /\ TargetOK' /\ SourceOK'
   /\ KeptOK'
  BY <1>u, StoreTypesFrame, GcTypesFrame, PlanOKFrame, RowsOKFrame, OperationOKFrame,
     WorkersOKFrame, NativeOKFrame, OutputsOKFrame, BlockedOKFrame, AccountsOKFrame,
     SeenOKFrame, HistoryOKFrame, TargetOKFrame, SourceOKFrame, KeptOKFrame
<1> QED BY <1>3, <1>4, <1>5, <1>6, <1>7

\* The object is evicted.
LEMMA EvictStep ==
  ASSUME GcInv, NEW p \in Push, handler = p, Evict
  PROVE  GcInv'
<1> USE DEF GcInv
<1>t. /\ op \in Operation /\ worker \in [Claim -> Workers] /\ push \in [Push -> PushStates]
      /\ plan \in [Push -> Plans \cup {NoPlan}] /\ mix \in Mixed
      /\ rows \in [Pack -> {"none", "active", "superseded"}]
  BY DEF StoreTypes, ReceiveTypes, GcTypes
<1>u. UNCHANGED <<refs, refsVersion, packset, rows, bucket, staging, below, base, held, rlease,
   plan, op, admitted, clease, pending, worker, native>>
  BY DEF Evict, repository, objects, receives, collection
<1>s. /\ refs \in [Ref -> Oid] /\ op.snapshot \in Snapshots
      /\ \A d \in Claim : worker[d].snapshot \in Snapshots
      /\ below \in [Push -> SUBSET Push] /\ held \in [Op -> SUBSET Push]
      /\ \A q \in Push : plan[q].new \in Oid
  BY Typed
<1>1. /\ push' \in [Push -> PushStates]
      /\ push'[p] = (IF push[p] = "proved" THEN "lost" ELSE push[p])
      /\ \A q \in Push : q # p => push'[q] = push[q]
  BY <1>t DEF Evict, PushStates
<1>2. /\ handler = p /\ rlease.token = p /\ rlease.age = "live"
      /\ \A q \in Push : q # p => push[q] \notin {"proved", "intent", "active", "counted", "moved"}
  BY Names DEF Evict, LeaseOK, HasIntent
<1>3. handler' = None /\ None \in Oid
  BY DEF Evict, Oid
<1>4. mix' \in Mixed /\ mix'.thin = mix.thin /\ (mix'.late <=> mix.late)
  <2>1. Fault
    BY DEF Evict
  <2> QED BY <1>t, <2>1, FaultEffects
<1>5. StoreTypes'
  BY <1>t, <1>4, <1>u DEF StoreTypes
<1>6. ReceiveTypes'
  BY <1>t, <1>1, <1>2, <1>3, <1>u DEF ReceiveTypes
<1>7. LeaseOK'
  BY <1>t, Names, <1>1, <1>2, <1>3, <1>4, <1>u DEF LeaseOK, HasIntent
<1>8. PlanOK'
  BY <1>t, <1>1, <1>2, <1>u DEF PlanOK, HasIntent, HasPack
<1>9. RowsOK'
  BY <1>t, <1>1, <1>2, <1>u DEF RowsOK, HasPack
<1>10. AccountsOK'
  BY <1>t, <1>1, <1>2, <1>u DEF AccountsOK, OwnsSource, HasSnapshot, VersionsMatch, HasIntent,
     HasPack
<1>11. SeenOK'
  BY <1>t, <1>1, <1>2, <1>u, <1>s, SeenSoft DEF Seen
<1>12. HistoryOK'
  BY <1>t, <1>4, <1>u DEF HistoryOK
<1>13. BegunOK'
  BY <1>t, <1>2, <1>4, <1>u, BegunSoft DEF Calm, Begun
<1>14. SourceOK'
  BY <1>t, <1>1, <1>2, <1>4, <1>u, SourceSoft DEF Calm, OwnsSource, HasSnapshot
<1>15. ServedOK'
  BY <1>t, <1>1, <1>2, <1>4, <1>u, ServedSoft DEF Calm, MayLand
<1>16. KeptOK'
  BY <1>t, <1>1, <1>2, <1>4, <1>u, KeptSoft DEF Collects, Calm, OwnsSource, HasSnapshot, Passed
<1>17. GcTypes' /\ OperationOK' /\ WorkersOK' /\ NativeOK' /\ OutputsOK' /\ BlockedOK' /\
   TargetOK'
  BY <1>u, GcTypesFrame, OperationOKFrame, WorkersOKFrame, NativeOKFrame, OutputsOKFrame,
     BlockedOKFrame, TargetOKFrame
<1> QED BY <1>5, <1>6, <1>7, <1>8, <1>9, <1>10, <1>11, <1>12, <1>13, <1>14, <1>15, <1>16, <1>17

\* The receive lease expires.
LEMMA LeaseExpires ==
  ASSUME GcInv, ReceiveLeaseAges, rlease.age = "live", rlease' = [rlease EXCEPT !.age =
     "expired"], UNCHANGED push
  PROVE  GcInv'
<1> USE DEF GcInv
<1>t. /\ op \in Operation /\ worker \in [Claim -> Workers] /\ push \in [Push -> PushStates]
      /\ plan \in [Push -> Plans \cup {NoPlan}] /\ mix \in Mixed
      /\ rows \in [Pack -> {"none", "active", "superseded"}]
  BY DEF StoreTypes, ReceiveTypes, GcTypes
<1>u. UNCHANGED <<refs, refsVersion, packset, rows, bucket, staging, below, base, held, push,
   plan, handler, op, admitted, clease, pending, worker, native, mix>>
  BY DEF ReceiveLeaseAges, repository, objects, receives, collection
<1>1. /\ rlease' \in [token : Oid, age : Ages] /\ rlease'.token = rlease.token
      /\ rlease'.age = "expired"
      /\ rlease.token # None /\ handler # rlease.token /\ (HasIntent(rlease.token) => mix.late)
  BY DEF ReceiveLeaseAges, ReceiveTypes, Ages
<1>2. ReceiveTypes'
  BY <1>t, <1>1, <1>u DEF ReceiveTypes
<1>3. LeaseOK'
  BY <1>t, <1>1, <1>u DEF LeaseOK, HasIntent
<1>4. BegunOK'
  BY <1>t, <1>1, <1>u, BegunSoft DEF Calm, Begun
<1>5. ServedOK'
  BY <1>t, <1>1, <1>u, ServedSoft DEF Calm, MayLand
<1>6. StoreTypes' /\ GcTypes' /\ PlanOK' /\ RowsOK' /\ OperationOK' /\ WorkersOK' /\ NativeOK'
   /\ OutputsOK' /\ BlockedOK' /\ AccountsOK' /\ SeenOK' /\ HistoryOK' /\ TargetOK' /\ SourceOK'
   /\ KeptOK'
  BY <1>u, StoreTypesFrame, GcTypesFrame, PlanOKFrame, RowsOKFrame, OperationOKFrame,
     WorkersOKFrame, NativeOKFrame, OutputsOKFrame, BlockedOKFrame, AccountsOKFrame,
     SeenOKFrame, HistoryOKFrame, TargetOKFrame, SourceOKFrame, KeptOKFrame
<1> QED BY <1>2, <1>3, <1>4, <1>5, <1>6

\* It drains, and its push is over.
LEMMA LeaseDrains ==
  ASSUME GcInv, NEW p \in Push, p = rlease.token, ReceiveLeaseAges, rlease.age = "expired",
     rlease' = [rlease EXCEPT !.age = "drained"], push' = [push EXCEPT ![p] = IF @ \in
     {"leased", "staged", "lost"} THEN "failed" ELSE @]
  PROVE  GcInv'
<1> USE DEF GcInv
<1>t. /\ op \in Operation /\ worker \in [Claim -> Workers] /\ push \in [Push -> PushStates]
      /\ plan \in [Push -> Plans \cup {NoPlan}] /\ mix \in Mixed
      /\ rows \in [Pack -> {"none", "active", "superseded"}]
  BY DEF StoreTypes, ReceiveTypes, GcTypes
<1>u. UNCHANGED <<refs, refsVersion, packset, rows, bucket, staging, below, base, held, plan,
   handler, op, admitted, clease, pending, worker, native, mix>>
  BY DEF ReceiveLeaseAges, repository, objects, receives, collection
<1>s. /\ refs \in [Ref -> Oid] /\ op.snapshot \in Snapshots
      /\ \A d \in Claim : worker[d].snapshot \in Snapshots
      /\ below \in [Push -> SUBSET Push] /\ held \in [Op -> SUBSET Push]
      /\ \A q \in Push : plan[q].new \in Oid
  BY Typed
<1>1. /\ rlease' \in [token : Oid, age : Ages] /\ rlease'.token = rlease.token
      /\ rlease'.age = "drained"
      /\ handler # p /\ (HasIntent(p) => mix.late)
  BY DEF ReceiveLeaseAges, ReceiveTypes, Ages
<1>2. /\ push' \in [Push -> PushStates]
      /\ push'[p] = (IF push[p] \in {"leased", "staged", "lost"} THEN "failed" ELSE push[p])
      /\ \A q \in Push : q # p => push'[q] = push[q]
  BY <1>t DEF PushStates
<1>3. ReceiveTypes'
  BY <1>t, <1>1, <1>2, <1>u DEF ReceiveTypes
<1>4. LeaseOK'
  BY <1>t, <1>1, <1>2, <1>u DEF LeaseOK, HasIntent
<1>5. PlanOK'
  BY <1>t, <1>1, <1>2, <1>u DEF PlanOK, HasIntent, HasPack
<1>6. RowsOK'
  BY <1>t, <1>1, <1>2, <1>u DEF RowsOK, HasPack
<1>7. AccountsOK'
  BY <1>t, <1>1, <1>2, <1>u DEF AccountsOK, OwnsSource, HasSnapshot, VersionsMatch, HasIntent,
     HasPack
<1>8. SeenOK'
  BY <1>t, <1>1, <1>2, <1>u, <1>s, SeenSoft DEF Seen
<1>9. BegunOK'
  BY <1>t, <1>1, <1>u, BegunSoft DEF Calm, Begun
<1>10. SourceOK'
  BY <1>t, <1>1, <1>2, <1>u, SourceSoft DEF Calm, OwnsSource, HasSnapshot
<1>11. ServedOK'
  BY <1>t, <1>1, <1>2, <1>u, ServedSoft DEF Calm, MayLand
<1>12. KeptOK'
  BY <1>t, <1>1, <1>2, <1>u, KeptSoft DEF Collects, Calm, OwnsSource, HasSnapshot, Passed
<1>13. StoreTypes' /\ GcTypes' /\ OperationOK' /\ WorkersOK' /\ NativeOK' /\ OutputsOK' /\
   BlockedOK' /\ HistoryOK' /\ TargetOK'
  BY <1>u, StoreTypesFrame, GcTypesFrame, OperationOKFrame, WorkersOKFrame, NativeOKFrame,
     OutputsOKFrame, BlockedOKFrame, HistoryOKFrame, TargetOKFrame
<1> QED BY <1>3, <1>4, <1>5, <1>6, <1>7, <1>8, <1>9, <1>10, <1>11, <1>12, <1>13

\* The alarm clears expired leases.
LEMMA ClearExpiredLeasesStep ==
  ASSUME GcInv, ClearExpiredLeases
  PROVE  GcInv'
<1> USE DEF GcInv
<1>t. /\ op \in Operation /\ worker \in [Claim -> Workers] /\ push \in [Push -> PushStates]
      /\ plan \in [Push -> Plans \cup {NoPlan}] /\ mix \in Mixed
      /\ rows \in [Pack -> {"none", "active", "superseded"}]
  BY DEF StoreTypes, ReceiveTypes, GcTypes
<1>u. UNCHANGED <<refs, refsVersion, packset, rows, bucket, staging, below, base, held, push,
   plan, handler, op, admitted, pending, worker, native, mix>>
  BY DEF ClearExpiredLeases, repository, objects, receives, collection
<1>1. op.phase \in {"complete", "blocked"} /\ \A d \in Claim : ~Begun(d)
  BY DEF ClearExpiredLeases, Terminal, Begun, WorkersOK, PhaseAt
<1>2. clease' = NoLease \/ clease' = clease
  BY DEF ClearExpiredLeases
<1>3. /\ rlease' \in [token : Oid, age : Ages] /\ (rlease'.token = None <=> rlease'.age = "none")
      /\ \/ rlease' = rlease
         \/ ~HasIntent(rlease.token) /\ rlease' = NoLease /\ rlease.age # "live"
         \/ /\ HasIntent(rlease.token) /\ rlease.token \in Push /\ rlease.age # "live"
            /\ rlease'.token = rlease.token /\ rlease'.age = "live"
  BY Nothings, Names DEF ClearExpiredLeases, ReceiveTypes, Ages, Oid, HasIntent
<1>4. rlease'.age = "live" /\ ~mix.late => rlease' = rlease
  BY <1>3, Nothings DEF LeaseOK
<1>5. ReceiveTypes'
  BY <1>t, <1>3, <1>4, <1>u DEF ReceiveTypes
<1>6. GcTypes'
  BY <1>t, <1>1, <1>2, <1>u, Nothings DEF GcTypes
<1>7. LeaseOK'
  BY <1>t, <1>3, <1>4, <1>u, Nothings DEF LeaseOK, HasIntent
<1>8. BlockedOK'
  BY <1>t, <1>1, <1>2, <1>u, Nothings DEF BlockedOK
<1>9. BegunOK'
  BY <1>t, <1>1, <1>2, <1>3, <1>4, <1>u, Nothings DEF BegunOK, Begun
<1>10. ServedOK'
  <2>1. CASE mix.late
    BY <1>u, <2>1 DEF ServedOK, Calm
  <2>2. CASE ~mix.late
    BY <1>t, Names, <1>1, <1>2, <1>3, <1>4, <1>u, <2>2, ServedSoft DEF Calm, MayLand
  <2> QED BY <2>1, <2>2
<1>11. StoreTypes' /\ PlanOK' /\ RowsOK' /\ OperationOK' /\ WorkersOK' /\ NativeOK' /\
   OutputsOK' /\ AccountsOK' /\ SeenOK' /\ HistoryOK' /\ TargetOK' /\ SourceOK' /\ KeptOK'
  BY <1>u, StoreTypesFrame, PlanOKFrame, RowsOKFrame, OperationOKFrame, WorkersOKFrame,
     NativeOKFrame, OutputsOKFrame, AccountsOKFrame, SeenOKFrame, HistoryOKFrame, TargetOKFrame,
     SourceOKFrame, KeptOKFrame
<1> QED BY <1>5, <1>6, <1>7, <1>8, <1>9, <1>10, <1>11

\* A Worker publishes.
LEMMA CommitPublishes ==
  ASSUME GcInv, NEW c \in Claim, CommitPublication(c), CommitReady(c), Publish
  PROVE  GcInv'
<1> USE DEF GcInv
<1>t. /\ op \in Operation /\ worker \in [Claim -> Workers] /\ push \in [Push -> PushStates]
      /\ plan \in [Push -> Plans \cup {NoPlan}] /\ mix \in Mixed
      /\ rows \in [Pack -> {"none", "active", "superseded"}]
  BY DEF StoreTypes, ReceiveTypes, GcTypes
<1>u. UNCHANGED <<refs, refsVersion, bucket, staging, below, base, held, rlease, push, plan,
   handler, admitted, native, mix>>
  BY DEF CommitPublication, repository, objects, receives, collection
<1>s. /\ refs \in [Ref -> Oid] /\ op.snapshot \in Snapshots
      /\ \A d \in Claim : worker[d].snapshot \in Snapshots
      /\ below \in [Push -> SUBSET Push] /\ held \in [Op -> SUBSET Push]
      /\ \A q \in Push : plan[q].new \in Oid
  BY Typed
<1>1. /\ op.phase = "publish" /\ op.claim = c /\ op.id \in Op /\ op.id \in admitted
      /\ op.snapshot.token # None /\ rows[op.id] = "none"
      /\ \A q \in Push : push[q] \notin {"proved", "intent", "active", "counted", "moved"}
      /\ handler \notin Push /\ rlease.age # "live"
      /\ rows' \in [Pack -> {"none", "active", "superseded"}]
      /\ \A k \in Pack :
           /\ rows'[k] # "none" => rows[k] # "none" \/ (op.indexed /\ k = op.id)
           /\ rows'[k] = "active" => rows[k] = "active" \/ (op.indexed /\ k = op.id)
      /\ packset' \in Nat /\ clease' = NoLease /\ pending' = None
      /\ op' \in Operation /\ op'.phase = "reclaim" /\ op'.claim = None /\ op'.age = "none"
      /\ op'.id = op.id /\ op'.snapshot = op.snapshot /\ op'.refsVersion = op.refsVersion
      /\ op'.packset = op.packset /\ (op'.retained <=> op.retained)
      /\ (op'.planned <=> op.planned) /\ op'.target = op.target /\ (op'.intent <=> op.intent)
      /\ (op'.indexed <=> op.indexed) /\ (op'.waiting <=> op.waiting)
  BY PublishEffects
<1>2. /\ worker' \in [Claim -> Workers] /\ \A d \in Claim : d # c => worker'[d] = worker[d]
      /\ worker'[c].pc = "gone" /\ worker'[c].snapshot = NoSnapshot
  <2>1. Leaves(c)
    BY DEF CommitPublication
  <2> QED BY <1>t, <2>1, LeavesEffects
<1>3. Op \subseteq Pack /\ Push \subseteq Pack /\ (op.indexed => op.id \in bucket)
  BY <1>1 DEF Pack, OutputsOK
<1>4. native = NoJob
  BY <1>1 DEF NativeOK
<1>5. \A d \in Claim : d # c => worker[d].pc \in {"gone", "commit"}
  BY <1>1 DEF WorkersOK
<1>6. StoreTypes'
  BY <1>t, <1>1, <1>3, <1>u DEF StoreTypes
<1>7. GcTypes'
  BY <1>t, <1>1, <1>2, <1>3, <1>4, <1>5, <1>u, Nothings DEF GcTypes
<1>8. PlanOK'
  BY <1>t, <1>1, <1>u DEF PlanOK, HasIntent, HasPack
<1>9. RowsOK'
  BY <1>t, Names, <1>1, <1>3, <1>u DEF RowsOK, HasPack
<1>10. OperationOK'
  BY <1>t, <1>1, <1>3, <1>u DEF OperationOK
<1>11. WorkersOK'
  BY <1>t, <1>1, <1>2, <1>3, <1>5, <1>u DEF WorkersOK, PhaseAt, Clean
<1>12. NativeOK'
  BY <1>t, <1>1, <1>3, <1>4, <1>u DEF NativeOK
<1>13. OutputsOK'
  BY <1>t, <1>1, <1>3, <1>u DEF OutputsOK, Clean
<1>14. BlockedOK'
  BY <1>t, <1>1, <1>3 DEF BlockedOK
<1>15. AccountsOK'
  BY <1>t, <1>1, <1>3, <1>u DEF AccountsOK, OwnsSource
<1>16. SeenOK'
  BY <1>t, <1>1, <1>2, <1>3, <1>5, <1>u, <1>s, SeenSoft DEF Seen
<1>17. TargetOK'
  BY <1>t, <1>1, <1>3, <1>u, ClosureSame DEF TargetOK, Holds
<1>18. BegunOK'
  BY <1>t, <1>1, <1>2, <1>5, <1>u, Nothings DEF BegunOK, Begun
<1>19. SourceOK'
  BY <1>t, <1>1, <1>3, <1>u DEF SourceOK, OwnsSource
<1>20. ServedOK'
  <2>1. \A q \in Push : ~MayLand(q)'
    BY <1>1, <1>u DEF MayLand
  <2> QED BY <1>u, <2>1, PublishServes
<1>21. KeptOK'
  BY <1>t, <1>1, <1>3, <1>u DEF KeptOK, Collects, OwnsSource
<1>22. ReceiveTypes' /\ LeaseOK' /\ HistoryOK'
  BY <1>u, ReceiveTypesFrame, LeaseOKFrame, HistoryOKFrame
<1> QED BY <1>6, <1>7, <1>8, <1>9, <1>10, <1>11, <1>12, <1>13, <1>14, <1>15, <1>16, <1>17,
   <1>18, <1>19, <1>20, <1>21, <1>22

\* Or a receive does, before it takes the lease.
LEMMA BeginReceivePublishes ==
  ASSUME GcInv, NEW p \in Push, BeginReceive(p), NEW c \in Claim, c = op.armed, CommitReady(c),
     Publish
  PROVE  GcInv'
<1> USE DEF GcInv
<1>t. /\ op \in Operation /\ worker \in [Claim -> Workers] /\ push \in [Push -> PushStates]
      /\ plan \in [Push -> Plans \cup {NoPlan}] /\ mix \in Mixed
      /\ rows \in [Pack -> {"none", "active", "superseded"}]
  BY DEF StoreTypes, ReceiveTypes, GcTypes
<1>u. UNCHANGED <<refs, refsVersion, bucket, staging, below, base, held, plan, handler,
   admitted, worker, native, mix>>
  BY DEF BeginReceive, repository, objects, receives, collection
<1>s. /\ refs \in [Ref -> Oid] /\ op.snapshot \in Snapshots
      /\ \A d \in Claim : worker[d].snapshot \in Snapshots
      /\ below \in [Push -> SUBSET Push] /\ held \in [Op -> SUBSET Push]
      /\ \A q \in Push : plan[q].new \in Oid
  BY Typed
<1>1. /\ op.phase = "publish" /\ op.claim = c /\ op.id \in Op /\ op.id \in admitted
      /\ op.snapshot.token # None /\ rows[op.id] = "none"
      /\ \A q \in Push : push[q] \notin {"proved", "intent", "active", "counted", "moved"}
      /\ handler \notin Push /\ rlease.age # "live"
      /\ rows' \in [Pack -> {"none", "active", "superseded"}]
      /\ \A k \in Pack :
           /\ rows'[k] # "none" => rows[k] # "none" \/ (op.indexed /\ k = op.id)
           /\ rows'[k] = "active" => rows[k] = "active" \/ (op.indexed /\ k = op.id)
      /\ packset' \in Nat /\ clease' = NoLease /\ pending' = None
      /\ op' \in Operation /\ op'.phase = "reclaim" /\ op'.claim = None /\ op'.age = "none"
      /\ op'.id = op.id /\ op'.snapshot = op.snapshot /\ op'.refsVersion = op.refsVersion
      /\ op'.packset = op.packset /\ (op'.retained <=> op.retained)
      /\ (op'.planned <=> op.planned) /\ op'.target = op.target /\ (op'.intent <=> op.intent)
      /\ (op'.indexed <=> op.indexed) /\ (op'.waiting <=> op.waiting)
  BY PublishEffects
<1>2. Op \subseteq Pack /\ Push \subseteq Pack /\ (op.indexed => op.id \in bucket)
  BY <1>1 DEF Pack, OutputsOK
<1>3. native = NoJob
  BY <1>1 DEF NativeOK
<1>4. \A d \in Claim : worker[d].pc \in {"gone", "commit"}
  BY <1>1 DEF WorkersOK, PhaseAt
<1>5. /\ push[p] = "idle" /\ push' \in [Push -> PushStates] /\ push'[p] = "leased"
      /\ \A q \in Push : q # p => push'[q] = push[q]
  BY <1>t DEF BeginReceive, PushStates
<1>6. /\ rlease' \in [token : Oid, age : Ages] /\ rlease'.token = p /\ rlease'.age = "live"
  BY DEF BeginReceive, Oid, Ages
<1>7. StoreTypes'
  BY <1>t, <1>1, <1>2, <1>u DEF StoreTypes
<1>8. ReceiveTypes'
  BY <1>t, Names, <1>1, <1>5, <1>6, <1>u DEF ReceiveTypes
<1>9. GcTypes'
  BY <1>t, <1>1, <1>2, <1>3, <1>4, <1>u, Nothings DEF GcTypes
<1>10. LeaseOK'
  BY <1>t, <1>1, <1>5, <1>6, <1>u DEF LeaseOK, HasIntent
<1>11. PlanOK'
  BY <1>t, <1>1, <1>5, <1>u DEF PlanOK, HasIntent, HasPack
<1>12. RowsOK'
  BY <1>t, Names, <1>1, <1>2, <1>5, <1>u DEF RowsOK, HasPack
<1>13. OperationOK'
  BY <1>t, <1>1, <1>2, <1>u DEF OperationOK
<1>14. WorkersOK'
  BY <1>t, <1>1, <1>2, <1>4, <1>u DEF WorkersOK, PhaseAt, Clean
<1>15. NativeOK'
  BY <1>t, <1>1, <1>2, <1>3, <1>u DEF NativeOK
<1>16. OutputsOK'
  BY <1>t, <1>1, <1>2, <1>u DEF OutputsOK, Clean
<1>17. BlockedOK'
  BY <1>t, <1>1, <1>2 DEF BlockedOK
<1>18. AccountsOK'
  BY <1>t, <1>1, <1>2, <1>5, <1>u DEF AccountsOK, OwnsSource
<1>19. SeenOK'
  BY <1>t, <1>1, <1>2, <1>4, <1>5, <1>u, <1>s, SeenSoft DEF Seen
<1>20. TargetOK'
  BY <1>t, <1>1, <1>2, <1>u, ClosureSame DEF TargetOK, Holds
<1>21. BegunOK'
  BY <1>t, <1>1, <1>4, <1>6, <1>u, Nothings DEF BegunOK, Begun
<1>22. SourceOK'
  BY <1>t, <1>1, <1>2, <1>5, <1>u DEF SourceOK, OwnsSource
<1>23. ServedOK'
  <2>1. \A q \in Push : ~MayLand(q)'
    BY <1>5, <1>6, <1>u DEF MayLand
  <2> QED BY <1>u, <2>1, PublishServes
<1>24. KeptOK'
  BY <1>t, <1>1, <1>2, <1>5, <1>u DEF KeptOK, Collects, OwnsSource
<1>25. HistoryOK'
  BY <1>u, HistoryOKFrame
<1> QED BY <1>7, <1>8, <1>9, <1>10, <1>11, <1>12, <1>13, <1>14, <1>15, <1>16, <1>17, <1>18,
   <1>19, <1>20, <1>21, <1>22, <1>23, <1>24, <1>25

\* A push that moves or deletes a ref brings no pack.
LEMMA StageOther ==
  ASSUME GcInv, NEW p \in Push, NEW r \in Ref, NEW new \in {None} \cup Readable, new # p,
     StagePack(p), plan' = [plan EXCEPT ![p] = [NoPlan EXCEPT !.ref = r, !.old = refs[r], !.new
     = new]], UNCHANGED <<bucket, below, base>>
  PROVE  GcInv'
<1> USE DEF GcInv
<1>t. /\ op \in Operation /\ worker \in [Claim -> Workers] /\ push \in [Push -> PushStates]
      /\ plan \in [Push -> Plans \cup {NoPlan}] /\ mix \in Mixed
      /\ rows \in [Pack -> {"none", "active", "superseded"}]
  BY DEF StoreTypes, ReceiveTypes, GcTypes
<1>u. UNCHANGED <<refs, refsVersion, packset, rows, bucket, staging, below, base, held, rlease,
   handler, op, admitted, clease, pending, worker, native, mix>>
  BY DEF StagePack, repository, objects, receives, collection
<1>s. /\ refs \in [Ref -> Oid] /\ op.snapshot \in Snapshots
      /\ \A d \in Claim : worker[d].snapshot \in Snapshots
      /\ below \in [Push -> SUBSET Push] /\ held \in [Op -> SUBSET Push]
      /\ \A q \in Push : plan[q].new \in Oid
  BY Typed
<1>1. /\ push[p] = "leased" /\ push' \in [Push -> PushStates] /\ push'[p] = "staged"
      /\ \A q \in Push : q # p => push'[q] = push[q]
  BY <1>t DEF StagePack, PushStates
<1>2. new \in Oid /\ (new # None => new \in Push /\ IsServed(new) /\ Seen(new))
  BY ReadableServed, ServedSeen DEF Oid
<1>3. /\ plan' \in [Push -> Plans \cup {NoPlan}] /\ plan'[p] \in Plans /\ plan'[p].new = new
      /\ \A q \in Push : q # p => plan'[q] = plan[q]
  <2> DEFINE a == [NoPlan EXCEPT !.ref = r, !.old = refs[r], !.new = new]
  <2>1. a \in Plans /\ a.new = new
    BY <1>2, <1>s DEF NoPlan, Plans, Oid
  <2> HIDE DEF a
  <2> QED BY <1>t, <2>1 DEF a
<1>4. ReceiveTypes'
  BY <1>t, <1>1, <1>2, <1>3, <1>u DEF ReceiveTypes
<1>5. LeaseOK'
  BY <1>t, <1>1, <1>2, <1>u DEF LeaseOK, HasIntent
<1>6. PlanOK'
  BY <1>t, <1>1, <1>2, <1>3, <1>u DEF PlanOK, HasIntent, HasPack
<1>7. RowsOK'
  BY <1>t, <1>1, <1>2, <1>3, <1>u DEF RowsOK, HasPack
<1>8. AccountsOK'
  BY <1>t, <1>1, <1>2, <1>3, <1>u DEF AccountsOK, OwnsSource, HasSnapshot, VersionsMatch,
     HasIntent, HasPack
<1>9. SeenOK'
  BY <1>t, <1>1, <1>2, <1>3, <1>u, <1>s DEF SeenOK, Seen, Oid, Snapshots
<1>10. SourceOK'
  BY <1>t, <1>1, <1>2, <1>3, <1>u DEF SourceOK, Calm, OwnsSource, HasSnapshot
<1>11. ServedOK'
  <2>1. \A x : IsServed(x)' <=> IsServed(x)
    BY <1>u DEF IsServed, Holds
  <2>2. \A q \in Push : q # p => (MayLand(q)' => MayLand(q)) /\ (HasPack(q)' <=> HasPack(q))
    BY <1>1, <1>3, <1>u DEF MayLand, HasPack
  <2>3. ~HasPack(p)' /\ (plan'[p].new # None => IsServed(plan'[p].new))
    BY <1>2, <1>3 DEF HasPack
  <2>4. Calm => \A q \in Push : MayLand(q)' =>
                  /\ HasPack(q)' => \A y \in below[q] : IsServed(y)
                  /\ plan'[q].new \notin {q, None} => IsServed(plan'[q].new)
    BY <1>3, <2>2, <2>3 DEF ServedOK
  <2> QED BY <1>u, <2>1, <2>4 DEF ServedOK, Calm
<1>12. KeptOK'
  <2> SUFFICES ASSUME Collects PROVE KeptOK'
    BY <1>u DEF KeptOK, Collects, Calm, OwnsSource, HasSnapshot
  <2>1. \A x : (IsOutside(x)' <=> IsOutside(x)) /\ (IsKept(x)' <=> IsKept(x))
    BY <1>u, ClosureSame DEF IsOutside, IsKept, Holds
  <2>2. \A q \in Push : Passed(q)' => q # p /\ Passed(q) /\ (HasPack(q)' <=> HasPack(q))
    BY <1>1, <1>3 DEF Passed, HasPack
  <2>3. \A q \in Push : Passed(q)' =>
              /\ HasPack(q)' => \A y \in below[q] : IsKept(y)
              /\ plan'[q].new \notin {q, None} => IsKept(plan'[q].new)
    BY <1>3, <2>2 DEF KeptOK
  <2> QED BY <1>u, <2>1, <2>3 DEF KeptOK
<1>13. StoreTypes' /\ GcTypes' /\ OperationOK' /\ WorkersOK' /\ NativeOK' /\ OutputsOK' /\
   BlockedOK' /\ HistoryOK' /\ TargetOK' /\ BegunOK'
  BY <1>u, StoreTypesFrame, GcTypesFrame, OperationOKFrame, WorkersOKFrame, NativeOKFrame,
     OutputsOKFrame, BlockedOKFrame, HistoryOKFrame, TargetOKFrame, BegunOKFrame
<1> QED BY <1>4, <1>5, <1>6, <1>7, <1>8, <1>9, <1>10, <1>11, <1>12, <1>13

\* A push stores its pack: the commit is new, and its parents are served.
LEMMA StageOwn ==
  ASSUME GcInv, NEW p \in Push, NEW r \in Ref, StagePack(p), NEW parents \in SUBSET Readable,
     NEW b \in (IF p \in mix.thin THEN Readable ELSE {None}), plan' = [plan EXCEPT ![p] =
     [NoPlan EXCEPT !.ref = r, !.old = refs[r], !.new = p]], bucket' = bucket \cup {p}, below' =
     [below EXCEPT ![p] = Closure(parents)], base' = [base EXCEPT ![p] = b]
  PROVE  GcInv'
<1> USE DEF GcInv
<1>t. /\ op \in Operation /\ worker \in [Claim -> Workers] /\ push \in [Push -> PushStates]
      /\ plan \in [Push -> Plans \cup {NoPlan}] /\ mix \in Mixed
      /\ rows \in [Pack -> {"none", "active", "superseded"}]
  BY DEF StoreTypes, ReceiveTypes, GcTypes
<1>u. UNCHANGED <<refs, refsVersion, packset, rows, staging, held, rlease, handler, op,
   admitted, clease, pending, worker, native, mix>>
  BY DEF StagePack, repository, objects, receives, collection
<1>s. /\ refs \in [Ref -> Oid] /\ op.snapshot \in Snapshots
      /\ \A d \in Claim : worker[d].snapshot \in Snapshots
      /\ below \in [Push -> SUBSET Push] /\ held \in [Op -> SUBSET Push]
      /\ \A q \in Push : plan[q].new \in Oid
  BY Typed
<1>1. /\ push[p] = "leased" /\ push' \in [Push -> PushStates] /\ push'[p] = "staged"
      /\ \A q \in Push : q # p => push'[q] = push[q]
  BY <1>t DEF StagePack, PushStates
<1>2. \A y \in parents : y \in Push /\ IsServed(y) /\ Seen(y)
  BY ReadableServed, ServedSeen
<1>3. /\ plan' \in [Push -> Plans \cup {NoPlan}] /\ plan'[p] \in Plans /\ plan'[p].new = p
      /\ \A q \in Push : q # p => plan'[q] = plan[q]
  <2> DEFINE a == [NoPlan EXCEPT !.ref = r, !.old = refs[r], !.new = p]
  <2>1. a \in Plans /\ a.new = p
    BY <1>s DEF NoPlan, Plans, Oid
  <2> HIDE DEF a
  <2> QED BY <1>t, <2>1 DEF a
<1>4. /\ ~Seen(p) /\ ~IsServed(p) /\ rows[p] = "none"
      /\ \A q \in Push : p \notin below[q]
      /\ \A n \in Ref : op.snapshot.refs[n] # p
  <2>1. ~Seen(p) /\ rows[p] = "none"
    BY <1>1 DEF Seen, RowsOK
  <2> QED BY <2>1, ServedSeen, Names DEF SeenOK
<1>5. \A y \in Closure(parents) : y \in Push /\ Seen(y) /\ below[y] \subseteq Closure(parents)
  <2> SUFFICES ASSUME NEW y \in Closure(parents)
               PROVE  y \in Push /\ Seen(y) /\ below[y] \subseteq Closure(parents)
    OBVIOUS
  <2>1. PICK z \in parents : y = z \/ y \in below[z]
    BY DEF Closure
  <2>2. z \in Push /\ Seen(z) /\ below[z] \subseteq Closure(parents)
    BY <1>2 DEF Closure
  <2> QED BY <1>s, <2>1, <2>2 DEF SeenOK, HistoryOK
<1>6. /\ below' \in [Push -> SUBSET Push] /\ below'[p] = Closure(parents)
      /\ \A q \in Push : q # p => below'[q] = below[q]
  BY <1>5, <1>s
<1>7. base' \in [Push -> Oid] /\ (mix.thin = {} => \A q \in Push : base'[q] = None)
  BY ReadableServed DEF StoreTypes, HistoryOK, Oid
<1>8. GcClosure' = GcClosure
  <2>1. \A q \in Wants(op.snapshot.refs) : q \in Push /\ q # p
    BY <1>4, <1>s DEF Wants, Snapshots, Oid
  <2>2. \A x : x \in GcClosure' <=> x \in GcClosure
    BY <1>6, <1>u, <2>1 DEF GcClosure, Closure, Wants
  <2>3. GcClosure \subseteq Push /\ GcClosure' \subseteq Push
    BY <1>6, <1>s, <1>u, <2>1 DEF GcClosure, Closure, Wants
  <2> QED BY <2>2, <2>3
<1>9. op.phase # "complete" => op.id \in Op
  BY DEF OperationOK
<1>10. p \in Pack /\ bucket' = bucket \cup {p}
  BY DEF Pack
<1>11. StoreTypes'
  BY <1>t, <1>2, <1>4, <1>5, <1>6, <1>7, <1>10, <1>u DEF StoreTypes
<1>12. ReceiveTypes'
  BY <1>t, <1>1, <1>2, <1>3, <1>4, <1>5, <1>u DEF ReceiveTypes
<1>13. LeaseOK'
  BY <1>t, <1>1, <1>2, <1>4, <1>5, <1>7, <1>u DEF LeaseOK, HasIntent
<1>14. PlanOK'
  BY <1>t, <1>1, <1>2, <1>3, <1>4, <1>5, <1>u DEF PlanOK, HasIntent, HasPack
<1>15. RowsOK'
  BY <1>t, <1>1, <1>2, <1>3, <1>4, <1>5, <1>10, <1>u DEF RowsOK, HasPack
<1>16. WorkersOK'
  BY <1>t, Names, <1>4, <1>8, <1>9, <1>10, <1>u DEF WorkersOK, PhaseAt, Clean
<1>17. OutputsOK'
  BY <1>t, Names, <1>2, <1>4, <1>5, <1>8, <1>9, <1>10, <1>u DEF OutputsOK, Clean
<1>18. AccountsOK'
  BY <1>t, <1>1, <1>2, <1>3, <1>4, <1>5, <1>8, <1>9, <1>u DEF AccountsOK, OwnsSource,
     HasSnapshot, VersionsMatch, HasIntent, HasPack
<1>19. SeenOK'
  <2>1. \A q \in Push : Seen(q) => Seen(q)'
    BY <1>1 DEF Seen
  <2>2. Seen(p)'
    BY <1>1 DEF Seen
  <2>3. \A q \in Push : \A y \in below'[q] : Seen(y)'
    BY <1>5, <1>6, <1>s, <2>1 DEF SeenOK
  <2>4. \A q \in Push : plan'[q].new # None => Seen(plan[q].new)'
    BY <1>3, <1>s, <2>1, <2>2 DEF SeenOK, Oid
  <2>5. \A n \in Ref : refs[n] # None => Seen(refs[n])'
    BY <1>s, <1>u, <2>1 DEF SeenOK, Oid
  <2>6. \A n \in Ref : op.snapshot.refs[n] # None => Seen(op.snapshot.refs[n])'
    BY <1>s, <1>u, <2>1 DEF SeenOK, Oid, Snapshots
  <2>7. \A n \in Ref, d \in Claim :
          worker[d].snapshot.refs[n] # None => Seen(worker[d].snapshot.refs[n])'
    BY <1>s, <1>u, <2>1 DEF SeenOK, Oid, Snapshots
  <2>8. \A o \in Op : \A q \in held[o] : Seen(q)'
    BY <1>s, <2>1 DEF SeenOK
  <2> QED BY <1>u, <2>3, <2>4, <2>5, <2>6, <2>7, <2>8 DEF SeenOK
<1>20. HistoryOK'
  <2>1. ASSUME NEW q \in Push, NEW y \in below'[q] PROVE below'[y] \subseteq below'[q]
    <3>1. y # p /\ y \in Push
      BY <1>4, <1>5, <1>6, <1>s, <2>1
    <3>2. below'[y] = below[y]
      BY <1>6, <3>1
    <3>3. CASE q = p
      BY <1>5, <1>6, <2>1, <3>2, <3>3
    <3>4. CASE q # p
      BY <1>6, <2>1, <3>2, <3>4 DEF HistoryOK
    <3> QED BY <3>3, <3>4
  <2> QED BY <1>7, <1>u, <2>1 DEF HistoryOK
<1>21. TargetOK'
  BY <1>t, <1>2, <1>4, <1>5, <1>6, <1>8, <1>9, <1>u DEF TargetOK, Holds
<1>22. SourceOK'
  BY <1>t, <1>1, <1>2, <1>3, <1>4, <1>5, <1>7, <1>8, <1>9, <1>u DEF SourceOK, Calm, OwnsSource,
     HasSnapshot
<1>23. ServedOK'
  <2> SUFFICES ASSUME Calm PROVE ServedOK'
    BY <1>u DEF ServedOK, Calm
  <2>1. \A x : IsServed(x)' <=> IsServed(x)
    BY <1>u DEF IsServed, Holds
  <2>2. \A x \in Push : IsServed(x) => \A y \in below'[x] : IsServed(y)
    BY <1>4, <1>6 DEF ServedOK
  <2>3. \A y \in below'[p] : IsServed(y)
    BY <1>2, <1>6 DEF ServedOK, Closure
  <2>4. \A q \in Push : q # p /\ MayLand(q)' => MayLand(q)
    BY <1>1, <1>u DEF MayLand
  <2>5. \A q \in Push : q # p => (HasPack(q)' <=> HasPack(q))
    BY <1>3 DEF HasPack
  <2>6. \A q \in Push : q # p /\ MayLand(q)' =>
              /\ HasPack(q)' => \A y \in below'[q] : IsServed(y)
              /\ plan'[q].new \notin {q, None} => IsServed(plan'[q].new)
    BY <1>3, <1>6, <2>4, <2>5 DEF ServedOK
  <2>7. plan'[p].new = p
    BY <1>3
  <2>8. \A n \in Ref : refs'[n] # None => IsServed(refs'[n])
    BY <1>u DEF ServedOK
  <2> QED BY <2>1, <2>2, <2>3, <2>6, <2>7, <2>8 DEF ServedOK
<1>24. KeptOK'
  <2> SUFFICES ASSUME Collects PROVE KeptOK'
    BY <1>u DEF KeptOK, Collects, Calm, OwnsSource, HasSnapshot
  <2>1. \A x : (IsOutside(x)' <=> IsOutside(x)) /\ (IsOutside(x) => IsServed(x))
    BY <1>u DEF IsOutside, IsServed, Holds
  <2>2. \A x : IsKept(x)' <=> IsKept(x)
    BY <1>8, <2>1 DEF IsKept
  <2>3. \A x \in Push : IsOutside(x) => \A y \in below'[x] : IsKept(y)
    BY <1>4, <1>6, <2>1 DEF KeptOK
  <2>4. \A q \in Push : Passed(q)' => q # p /\ Passed(q)
    BY <1>1, <1>3 DEF Passed
  <2>5. \A q \in Push : q # p => (HasPack(q)' <=> HasPack(q))
    BY <1>3 DEF HasPack
  <2>6. \A q \in Push : Passed(q)' =>
              /\ HasPack(q)' => \A y \in below'[q] : IsKept(y)
              /\ plan'[q].new \notin {q, None} => IsKept(plan'[q].new)
    BY <1>3, <1>6, <2>4, <2>5 DEF KeptOK
  <2>7. \A n \in Ref : refs'[n] # None => IsKept(refs'[n])
    BY <1>u DEF KeptOK
  <2> QED BY <2>1, <2>2, <2>3, <2>6, <2>7 DEF KeptOK
<1>25. GcTypes' /\ OperationOK' /\ NativeOK' /\ BlockedOK' /\ BegunOK'
  BY <1>u, GcTypesFrame, OperationOKFrame, NativeOKFrame, BlockedOKFrame, BegunOKFrame
<1> QED BY <1>11, <1>12, <1>13, <1>14, <1>15, <1>16, <1>17, <1>18, <1>19, <1>20, <1>21, <1>22,
   <1>23, <1>24, <1>25

\* A finalization starts: its push needs no source object, or says so.
LEMMA FinalizeStep ==
  ASSUME GcInv, NEW p \in Push, Finalize(p)
  PROVE  GcInv'
<1> USE DEF GcInv
<1>t. /\ op \in Operation /\ worker \in [Claim -> Workers] /\ push \in [Push -> PushStates]
      /\ plan \in [Push -> Plans \cup {NoPlan}] /\ mix \in Mixed
      /\ rows \in [Pack -> {"none", "active", "superseded"}]
  BY DEF StoreTypes, ReceiveTypes, GcTypes
<1>u. UNCHANGED <<refs, refsVersion, packset, rows, bucket, staging, below, base, held, rlease,
   op, admitted, clease, pending, worker, native, mix>>
  BY DEF Finalize, repository, objects, receives, collection
<1>s. /\ refs \in [Ref -> Oid] /\ op.snapshot \in Snapshots
      /\ \A d \in Claim : worker[d].snapshot \in Snapshots
      /\ below \in [Push -> SUBSET Push] /\ held \in [Op -> SUBSET Push]
      /\ \A q \in Push : plan[q].new \in Oid
  BY Typed
<1>1. /\ push[p] = "staged" /\ push' \in [Push -> PushStates] /\ push'[p] = "proved"
      /\ \A q \in Push : q # p => push'[q] = push[q]
  BY <1>t DEF Finalize, PushStates
<1>2. /\ handler = None /\ handler' = p /\ p \in Oid /\ rlease.token = p /\ rlease.age = "live"
      /\ \A q \in Push : push[q] \notin {"proved", "intent", "active", "counted", "moved"}
  BY <1>1, Names DEF Finalize, LeaseOK, HasIntent, Oid
<1>3. /\ plan' \in [Push -> Plans \cup {NoPlan}] /\ plan'[p] \in Plans /\ plan'[p].new = plan[p].new
      /\ plan'[p].expected = refsVersion /\ plan'[p].packset = packset + 1
      /\ plan'[p].proof \in Protection(p)
      /\ \A q \in Push : q # p => plan'[q] = plan[q]
  <2>1. PICK proof \in Protection(p) :
          plan' = [plan EXCEPT ![p].expected = refsVersion, ![p].packset = packset + 1,
                               ![p].proof = proof]
    BY DEF Finalize
  <2> DEFINE a == [plan[p] EXCEPT !.expected = refsVersion, !.packset = packset + 1,
                                  !.proof = proof]
  <2>2. plan' = [plan EXCEPT ![p] = a]
    BY <2>1
  <2>3. plan[p] \in Plans /\ refsVersion \in Nat /\ packset + 1 \in Nat
    BY <1>1 DEF PlanOK, StoreTypes
  <2>4. proof \in {"none", "clean", "retain"}
    BY DEF Protection
  <2>5. /\ a \in Plans /\ a.new = plan[p].new /\ a.expected = refsVersion
        /\ a.packset = packset + 1 /\ a.proof = proof
    BY <2>3, <2>4 DEF Plans
  <2> HIDE DEF a
  <2> QED BY <1>t, <2>2, <2>5
<1>4. OwnsSource => plan'[p].proof # "none"
  BY <1>3 DEF Protection
<1>5. \A q \in Push : (HasPack(q)' <=> HasPack(q)) /\ plan'[q].new = plan[q].new
  BY <1>3 DEF HasPack
<1>6. ReceiveTypes'
  BY <1>t, <1>1, <1>2, <1>3, <1>4, <1>5, <1>u DEF ReceiveTypes
<1>7. LeaseOK'
  BY <1>t, <1>1, <1>2, <1>u DEF LeaseOK, HasIntent
<1>8. PlanOK'
  BY <1>t, <1>1, <1>2, <1>3, <1>4, <1>5, <1>u DEF PlanOK, HasIntent, HasPack
<1>9. RowsOK'
  BY <1>t, <1>1, <1>2, <1>3, <1>4, <1>5, <1>u DEF RowsOK
<1>10. AccountsOK'
  BY <1>t, <1>1, <1>2, <1>3, <1>4, <1>5, <1>u DEF AccountsOK, OwnsSource, HasSnapshot,
     VersionsMatch, HasIntent
<1>11. SeenOK'
  BY <1>t, <1>1, <1>2, <1>3, <1>4, <1>5, <1>u, <1>s DEF SeenOK, Seen, Oid, Snapshots
<1>12. SourceOK'
  BY <1>t, <1>1, <1>2, <1>3, <1>4, <1>5, <1>u DEF SourceOK, Calm, OwnsSource, HasSnapshot
<1>13. ServedOK'
  <2>1. \A x : IsServed(x)' <=> IsServed(x)
    BY <1>u DEF IsServed, Holds
  <2>2. \A q \in Push : MayLand(q)' => MayLand(q)
    BY <1>1, <1>2, <1>u DEF MayLand
  <2> QED BY <1>5, <1>u, <2>1, <2>2 DEF ServedOK, Calm
<1>14. KeptOK'
  <2> SUFFICES ASSUME Collects PROVE KeptOK'
    BY <1>u DEF KeptOK, Collects, Calm, OwnsSource, HasSnapshot
  <2>1. \A x : (IsOutside(x)' <=> IsOutside(x)) /\ (IsKept(x)' <=> IsKept(x))
    BY <1>u, ClosureSame DEF IsOutside, IsKept, Holds
  <2>2. \A q \in Push : q # p => ~Passed(q)'
    BY <1>1, <1>2 DEF Passed
  <2>3. MayLand(p) /\ Calm
    BY <1>1, <1>2 DEF MayLand, Collects
  <2>4. ASSUME Passed(p)', NEW y \in Push, IsServed(y),
               y \in Closure({plan[p].new, IF plan[p].new = p THEN base[p] ELSE None} \ {None}),
               plan[p].new # None
        PROVE  IsKept(y)
    <3>1. NewlyReached(p) \cap SourceObjects = {}
      BY <1>1, <1>3, <2>4 DEF Protection, Passed, Collects
    <3>2. CASE y \in Closure(Wants(refs))
      <4>1. PICK n \in Ref : refs[n] # None /\ (y = refs[n] \/ y \in below[refs[n]])
        BY <3>2 DEF Closure, Wants
      <4>2. refs[n] \in Push /\ IsKept(refs[n])
        BY <1>s, <4>1 DEF KeptOK, Oid
      <4> QED BY <4>1, <4>2, KeptClosed
    <3>3. CASE y \notin Closure(Wants(refs))
      <4>1. y \notin SourceObjects
        BY <2>4, <3>1, <3>3 DEF NewlyReached
      <4> QED BY <2>4, <4>1 DEF IsServed, SourceObjects, IsKept, IsOutside
    <3> QED BY <3>2, <3>3
  <2>5. ASSUME Passed(p)', HasPack(p), NEW y \in below[p] PROVE IsKept(y)
    <3>1. plan[p].new = p /\ p # None
      BY <2>5, Names DEF HasPack
    <3>2. y \in Push /\ IsServed(y)
      BY <1>s, <2>3, <2>5 DEF ServedOK
    <3>3. y \in Closure({plan[p].new, IF plan[p].new = p THEN base[p] ELSE None} \ {None})
      BY <2>5, <3>1 DEF Closure
    <3> QED BY <2>4, <2>5, <3>1, <3>2, <3>3
  <2>6. ASSUME Passed(p)', plan[p].new \notin {p, None} PROVE IsKept(plan[p].new)
    <3>1. plan[p].new \in Push /\ IsServed(plan[p].new)
      BY <1>s, <2>3, <2>6 DEF ServedOK, Oid
    <3>2. plan[p].new \in Closure({plan[p].new, IF plan[p].new = p THEN base[p] ELSE None} \ {None})
      BY <2>6 DEF Closure
    <3> QED BY <2>4, <2>6, <3>1, <3>2
  <2> QED BY <1>5, <1>u, <2>1, <2>2, <2>5, <2>6 DEF KeptOK
<1>15. StoreTypes' /\ GcTypes' /\ OperationOK' /\ WorkersOK' /\ NativeOK' /\ OutputsOK' /\
   BlockedOK' /\ HistoryOK' /\ TargetOK' /\ BegunOK'
  BY <1>u, StoreTypesFrame, GcTypesFrame, OperationOKFrame, WorkersOKFrame, NativeOKFrame,
     OutputsOKFrame, BlockedOKFrame, HistoryOKFrame, TargetOKFrame, BegunOKFrame
<1> QED BY <1>6, <1>7, <1>8, <1>9, <1>10, <1>11, <1>12, <1>13, <1>14, <1>15

\* The refs move, and the collection is told.
LEMMA MoveRefsStep ==
  ASSUME GcInv, NEW p \in Push, MoveRefs(p)
  PROVE  GcInv'
<1> USE DEF GcInv
<1>t. /\ op \in Operation /\ worker \in [Claim -> Workers] /\ push \in [Push -> PushStates]
      /\ plan \in [Push -> Plans \cup {NoPlan}] /\ mix \in Mixed
      /\ rows \in [Pack -> {"none", "active", "superseded"}]
  BY DEF StoreTypes, ReceiveTypes, GcTypes
<1>u. UNCHANGED <<packset, rows, bucket, staging, below, base, held, rlease, plan, handler,
   admitted, clease, pending, worker, native, mix>>
  BY DEF MoveRefs, repository, objects, receives, collection
<1>s. /\ refs \in [Ref -> Oid] /\ op.snapshot \in Snapshots
      /\ \A d \in Claim : worker[d].snapshot \in Snapshots
      /\ below \in [Push -> SUBSET Push] /\ held \in [Op -> SUBSET Push]
      /\ \A q \in Push : plan[q].new \in Oid
  BY Typed
<1>1. /\ push[p] = "counted" /\ push' \in [Push -> PushStates] /\ push'[p] = "moved"
      /\ \A q \in Push : q # p => push'[q] = push[q]
  BY <1>t DEF MoveRefs, PushStates
<1>2. /\ handler = p /\ rlease.token = p /\ rlease.age = "live"
      /\ \A q \in Push : q # p => push[q] \notin {"proved", "intent", "active", "counted", "moved"}
  BY Names DEF MoveRefs, LeaseOK, HasIntent
<1>3. plan[p] \in Plans /\ plan[p].ref \in Ref /\ plan[p].new \in Oid /\ plan[p].packset \in Nat
  BY <1>1, Names DEF PlanOK, HasIntent, Plans
<1>4. /\ refs' \in [Ref -> Oid] /\ refs'[plan[p].ref] = plan[p].new
      /\ \A n \in Ref : n # plan[p].ref => refs'[n] = refs[n]
  BY <1>3, <1>s DEF MoveRefs
<1>5. refsVersion \in Nat /\ refsVersion' = refsVersion + 1 /\ refsVersion = plan[p].expected
  BY DEF MoveRefs, StoreTypes
<1>6. op' \in Operation /\ op'.id = op.id /\ op'.phase = op.phase /\ op'.claim = op.claim
                        /\ op'.age = op.age /\ op'.snapshot = op.snapshot
                        /\ (op'.retained <=> op.retained) /\ (op'.planned <=> op.planned)
                        /\ op'.target = op.target /\ (op'.intent <=> op.intent)
                        /\ (op'.indexed <=> op.indexed) /\ (op'.waiting <=> op.waiting)
                        /\ op'.armed = op.armed
  <2>1. CASE op' = op
    BY <1>t, <2>1
  <2>2. CASE op' = Account(p)
    <3> DEFINE v == IF HasPack(p) THEN plan[p].packset ELSE op.packset
    <3>1. v \in Nat /\ plan[p].expected + 1 \in Nat
      BY <1>t, <1>3, <1>5 DEF Operation
    <3>2. op' = [op EXCEPT !.refsVersion = plan[p].expected + 1, !.packset = v]
      BY <2>2 DEF Account
    <3> HIDE DEF v
    <3> QED BY <1>t, <3>1, <3>2 DEF Operation
  <2> QED BY <2>1, <2>2 DEF MoveRefs
<1>7. OwnsSource => op'.refsVersion = refsVersion' /\ op'.packset = packset
  <2> SUFFICES ASSUME OwnsSource PROVE op'.refsVersion = refsVersion' /\ op'.packset = packset
    OBVIOUS
  <2>1. op.refsVersion = refsVersion /\ (~HasPack(p) => op.packset = packset)
    BY <1>1 DEF AccountsOK
  <2>2. op' = Account(p)
    BY <1>5, <2>1 DEF MoveRefs
  <2>3. HasPack(p) => plan[p].packset = packset
    BY <1>1 DEF PlanOK
  <2>4. /\ op'.refsVersion = plan[p].expected + 1
        /\ op'.packset = (IF HasPack(p) THEN plan[p].packset ELSE op.packset)
    BY <1>t, <2>2 DEF Account, Operation
  <2> QED BY <1>5, <2>1, <2>3, <2>4
<1>8. OwnsSource' <=> OwnsSource
  BY <1>6 DEF OwnsSource, HasSnapshot
<1>9. \A q \in Push : HasPack(q)' <=> HasPack(q)
  BY <1>u DEF HasPack
<1>10. StoreTypes'
  BY <1>t, <1>3, <1>4, <1>5, <1>6, <1>7, <1>u DEF StoreTypes
<1>11. ReceiveTypes'
  BY <1>t, <1>1, <1>2, <1>3, <1>4, <1>5, <1>9, <1>u DEF ReceiveTypes
<1>12. GcTypes'
  BY <1>t, <1>6, <1>7, <1>8, <1>u DEF GcTypes
<1>13. LeaseOK'
  BY <1>t, <1>1, <1>2, <1>u DEF LeaseOK, HasIntent
<1>14. PlanOK'
  BY <1>t, <1>1, <1>2, <1>3, <1>4, <1>5, <1>6, <1>7, <1>9, <1>u DEF PlanOK, HasIntent
<1>15. RowsOK'
  BY <1>t, <1>1, <1>2, <1>3, <1>4, <1>5, <1>9, <1>u DEF RowsOK, HasPack
<1>16. OperationOK'
  BY <1>t, <1>6, <1>7, <1>8, <1>u DEF OperationOK
<1>17. WorkersOK'
  BY <1>t, <1>6, <1>7, <1>8, <1>u DEF WorkersOK, PhaseAt, Clean
<1>18. NativeOK'
  BY <1>t, <1>6, <1>7, <1>8, <1>u DEF NativeOK
<1>19. OutputsOK'
  BY <1>t, <1>6, <1>7, <1>8, <1>u DEF OutputsOK, Clean
<1>20. BlockedOK'
  BY <1>t, <1>6, <1>7, <1>8, <1>u DEF BlockedOK
<1>21. AccountsOK'
  BY <1>t, <1>1, <1>2, <1>3, <1>4, <1>5, <1>6, <1>7, <1>8, <1>9, <1>u DEF AccountsOK,
     VersionsMatch, HasIntent
<1>22. SeenOK'
  <2>1. \A q \in Push : Seen(q)' <=> Seen(q)
    BY <1>1 DEF Seen
  <2>2. \A n \in Ref : refs'[n] # None => Seen(refs[n])'
    BY <1>3, <1>4, <1>s, <2>1 DEF SeenOK, Oid
  <2>3. \A n \in Ref : op'.snapshot.refs[n] # None => Seen(op.snapshot.refs[n])'
    BY <1>6, <1>s, <1>u, <2>1 DEF SeenOK, Oid, Snapshots
  <2>4. \A n \in Ref, d \in Claim :
          worker[d].snapshot.refs[n] # None => Seen(worker[d].snapshot.refs[n])'
    BY <1>s, <1>u, <2>1 DEF SeenOK, Oid, Snapshots
  <2>5. \A q \in Push : \A y \in below[q] : Seen(y)'
    BY <1>s, <2>1 DEF SeenOK
  <2>6. \A q \in Push : plan[q].new # None => Seen(plan[q].new)'
    BY <1>s, <1>u, <2>1 DEF SeenOK, Oid
  <2>7. \A o \in Op : \A q \in held[o] : Seen(q)'
    BY <1>s, <2>1 DEF SeenOK
  <2> QED BY <1>u, <2>2, <2>3, <2>4, <2>5, <2>6, <2>7 DEF SeenOK
<1>23. TargetOK'
  BY <1>t, <1>6, <1>7, <1>8, <1>u, ClosureSame DEF TargetOK, Holds
<1>24. BegunOK'
  BY <1>t, <1>2, <1>4, <1>u DEF BegunOK, Begun, Calm
<1>25. SourceOK'
  BY <1>t, <1>1, <1>2, <1>3, <1>4, <1>5, <1>6, <1>7, <1>8, <1>9, <1>u, SourceSoft DEF Calm,
     OwnsSource, HasSnapshot
<1>26. ServedOK'
  <2> SUFFICES ASSUME Calm PROVE ServedOK'
    BY <1>u DEF ServedOK, Calm
  <2>1. \A x : IsServed(x)' <=> IsServed(x)
    BY <1>u DEF IsServed, Holds
  <2>2. MayLand(p)
    BY <1>1, <1>2 DEF MayLand
  <2>3. plan[p].new # None => IsServed(plan[p].new)
    <3>1. CASE HasPack(p)
      BY <1>1, <3>1, Names DEF HasPack, RowsOK, IsServed, Holds, Pack
    <3>2. CASE ~HasPack(p)
      BY <2>2, <3>2 DEF ServedOK, HasPack
    <3> QED BY <3>1, <3>2
  <2>4. \A q \in Push : MayLand(q)' => MayLand(q)
    BY <1>1, <1>2, <1>u DEF MayLand
  <2>5. \A n \in Ref : refs'[n] # None => IsServed(refs'[n])
    BY <1>4, <2>3 DEF ServedOK
  <2> QED BY <1>u, <1>9, <2>1, <2>4, <2>5 DEF ServedOK
<1>27. KeptOK'
  <2> SUFFICES ASSUME Collects PROVE KeptOK'
    BY <1>u, <1>6, <1>8 DEF KeptOK, Collects, Calm
  <2>1. \A x : (IsOutside(x)' <=> IsOutside(x)) /\ (IsKept(x)' <=> IsKept(x))
    BY <1>6, <1>u, ClosureSame DEF IsOutside, IsKept, Holds
  <2>2. Passed(p)
    BY <1>1 DEF Passed
  <2>3. plan[p].new # None => IsKept(plan[p].new)
    <3>1. CASE HasPack(p)
      <4>1. p \notin op.snapshot.sources
        BY <1>1 DEF Collects, SourceOK
      <4> QED BY <1>1, <3>1, <4>1, Names DEF HasPack, RowsOK, IsKept, IsOutside, Holds, Pack
    <3>2. CASE ~HasPack(p)
      BY <2>2, <3>2 DEF KeptOK, HasPack
    <3> QED BY <3>1, <3>2
  <2>4. \A q \in Push : Passed(q)' => Passed(q)
    BY <1>1, <1>u DEF Passed
  <2>5. \A n \in Ref : refs'[n] # None => IsKept(refs'[n])
    BY <1>4, <2>3 DEF KeptOK
  <2> QED BY <1>u, <1>9, <2>1, <2>4, <2>5 DEF KeptOK
<1>28. HistoryOK'
  BY <1>u, HistoryOKFrame
<1> QED BY <1>10, <1>11, <1>12, <1>13, <1>14, <1>15, <1>16, <1>17, <1>18, <1>19, <1>20, <1>21,
   <1>22, <1>23, <1>24, <1>25, <1>26, <1>27, <1>28

\* An administrator moves a ref to a commit that is served.
LEMMA SetRefsStep ==
  ASSUME GcInv, NEW r \in Ref, SetRefs(r)
  PROVE  GcInv'
<1> USE DEF GcInv
<1>t. /\ op \in Operation /\ worker \in [Claim -> Workers] /\ push \in [Push -> PushStates]
      /\ plan \in [Push -> Plans \cup {NoPlan}] /\ mix \in Mixed
      /\ rows \in [Pack -> {"none", "active", "superseded"}]
  BY DEF StoreTypes, ReceiveTypes, GcTypes
<1>u. UNCHANGED <<packset, rows, bucket, staging, below, base, held, push, plan, handler, op,
   admitted, clease, pending, worker, native, mix>>
  BY DEF SetRefs, repository, objects, receives, collection
<1>1. rlease.age # "live" /\ ~HasIntent(rlease.token) /\ ~OwnsSource /\ clease.age # "live"
  BY DEF SetRefs, LeaseFree
<1>2. /\ \A q \in Push : push[q] \notin {"proved", "intent", "active", "counted", "moved"}
      /\ handler \notin Push
  BY <1>1, Names DEF LeaseOK, HasIntent
<1>3. /\ rlease' = NoLease /\ rlease' \in [token : Oid, age : Ages] /\ rlease'.age = "none"
      /\ rlease'.token = None
  BY Nothings DEF SetRefs
<1>4. refsVersion \in Nat /\ refsVersion' = refsVersion + 1
  BY DEF SetRefs, StoreTypes
<1>5. /\ refs' \in [Ref -> Oid] /\ \A n \in Ref : n # r => refs'[n] = refs[n]
      /\ refs'[r] # None => refs'[r] \in Push /\ IsServed(refs'[r]) /\ Seen(refs'[r])
  <2>1. PICK new \in Readable \cup {None} : refs' = [refs EXCEPT ![r] = new]
    BY DEF SetRefs
  <2>2. new # None => new \in Push /\ IsServed(new) /\ Seen(new)
    BY ReadableServed, ServedSeen
  <2> QED BY <2>1, <2>2, Typed DEF Oid
<1>6. OwnsSource' <=> OwnsSource
  BY <1>u DEF OwnsSource, HasSnapshot
<1>7. StoreTypes'
  BY <1>t, <1>4, <1>5, <1>u DEF StoreTypes
<1>8. ReceiveTypes'
  BY <1>t, <1>1, <1>2, <1>3, <1>5, <1>u DEF ReceiveTypes
<1>9. LeaseOK'
  BY <1>t, <1>1, <1>2, <1>3, <1>5, <1>u DEF LeaseOK, HasIntent
<1>10. PlanOK'
  BY <1>t, <1>1, <1>2, <1>4, <1>5, <1>u DEF PlanOK, HasIntent, HasPack
<1>11. AccountsOK'
  BY <1>t, <1>1, <1>2, <1>4, <1>5, <1>6, <1>u DEF AccountsOK
<1>12. SeenOK'
  BY <1>t, <1>1, <1>2, <1>5, <1>6, <1>u DEF SeenOK, Seen
<1>13. BegunOK'
  BY <1>t, <1>1, <1>3, <1>5, <1>u DEF BegunOK, Begun, Calm
<1>14. ServedOK'
  <2>1. \A x : IsServed(x)' <=> IsServed(x)
    BY <1>u DEF IsServed, Holds
  <2>2. \A q \in Push : ~MayLand(q)'
    BY <1>3 DEF MayLand
  <2>3. Calm => \A n \in Ref : refs'[n] # None => IsServed(refs'[n])
    BY <1>5 DEF ServedOK
  <2> QED BY <1>u, <2>1, <2>2, <2>3 DEF ServedOK, Calm
<1>15. KeptOK'
  BY <1>t, <1>1, <1>2, <1>5, <1>6, <1>u DEF KeptOK, Collects
<1>16. GcTypes' /\ RowsOK' /\ OperationOK' /\ WorkersOK' /\ NativeOK' /\ OutputsOK' /\
   BlockedOK' /\ HistoryOK' /\ TargetOK' /\ SourceOK'
  BY <1>u, GcTypesFrame, RowsOKFrame, OperationOKFrame, WorkersOKFrame, NativeOKFrame,
     OutputsOKFrame, BlockedOKFrame, HistoryOKFrame, TargetOKFrame, SourceOKFrame
<1> QED BY <1>7, <1>8, <1>9, <1>10, <1>11, <1>12, <1>13, <1>14, <1>15, <1>16

------------------------------------------------------------------------------
(* The theorems                                                              *)

\* The invariant holds before anything happens: every ref names a pack that is
\* listed, and nobody collects.
LEMMA GcInit ==
  ASSUME Init
  PROVE  GcInv
<1>1. /\ mix \in Mixed /\ mix \in Mixes
  BY MixesAssumption DEF Init, Mixed
<1>2. /\ refs \in [Ref -> Base \cup {None}] /\ Base \subseteq Push
      /\ \A n \in Ref : refs[n] # None => refs[n] \in Base
  BY NamesAssumption DEF Init
<1>3. /\ op \in Operation /\ op.id = None /\ op.phase = "complete" /\ op.claim = None
      /\ op.age = "none" /\ op.snapshot = NoSnapshot /\ op.snapshot.token = None
      /\ ~op.retained /\ ~op.planned /\ ~op.intent /\ ~op.indexed /\ ~op.waiting
  <2> DEFINE m == NewOperation(None)
  <2>1. /\ m \in Operation /\ m.id = None /\ m.claim = None /\ m.age = "none"
        /\ m.snapshot = NoSnapshot
        /\ ~m.retained /\ ~m.planned /\ ~m.intent /\ ~m.indexed /\ ~m.waiting
    BY NewFields
  <2>2. op = [m EXCEPT !.phase = "complete"]
    BY DEF Init, NoOperation
  <2> HIDE DEF m
  <2>3. op \in Operation /\ op.phase = "complete"
    BY <2>1, <2>2 DEF Operation, Phases
  <2>4. /\ op.id = m.id /\ op.claim = m.claim /\ op.age = m.age /\ op.snapshot = m.snapshot
        /\ (op.retained <=> m.retained) /\ (op.planned <=> m.planned)
        /\ (op.intent <=> m.intent) /\ (op.indexed <=> m.indexed) /\ (op.waiting <=> m.waiting)
    BY <2>1, <2>2 DEF Operation
  <2> QED BY <2>1, <2>3, <2>4, Nothings
<1>4. /\ push \in [Push -> PushStates]
      /\ \A p \in Push : /\ push[p] \in {"done", "idle", "failed"}
                         /\ p \in Base => push[p] = "done"
                         /\ push[p] = "done" => p \in Base
  BY DEF Init, PushStates
<1>5. /\ rows \in [Pack -> {"none", "active", "superseded"}]
      /\ \A k \in Pack : (rows[k] = "active" <=> k \in Base) /\ rows[k] # "superseded"
  BY DEF Init
<1>6. /\ \A p \in Push : below[p] = {} /\ base[p] = None /\ plan[p] = NoPlan
      /\ \A o \in Op : held[o] = {}
  BY DEF Init
<1>7. /\ worker \in [Claim -> Workers]
      /\ \A c \in Claim : worker[c].pc = "gone" /\ worker[c].snapshot = NoSnapshot
  BY Nothings DEF Init
<1>8. /\ native = NoJob /\ rlease = NoLease /\ clease = NoLease /\ handler = None
      /\ pending = None /\ admitted = {} /\ bucket = Base /\ staging = {}
      /\ refsVersion = 0 /\ packset = 0
  BY DEF Init
<1>9. /\ StoreTypes
  <2>1. /\ below \in [Push -> SUBSET Push] /\ base \in [Push -> Oid]
        /\ held \in [Op -> SUBSET Push]
    BY DEF Init, Oid
  <2> QED BY <1>1, <1>2, <1>5, <1>8, <2>1 DEF StoreTypes, Oid, Pack
<1>10. ReceiveTypes
  <2>1. plan \in [Push -> Plans \cup {NoPlan}]
    BY DEF Init
  <2> QED BY <1>4, <1>8, <2>1, Nothings DEF ReceiveTypes, Oid
<1>11. GcTypes
  BY <1>3, <1>7, <1>8, Nothings DEF GcTypes
<1>12. LeaseOK /\ PlanOK
  BY <1>4, <1>8, Names DEF LeaseOK, PlanOK, HasIntent
<1>13. RowsOK /\ OutputsOK
  BY <1>2, <1>3, <1>4, <1>5, <1>8, Names DEF RowsOK, OutputsOK, Pack, Clean
<1>14. OperationOK /\ WorkersOK /\ NativeOK /\ BlockedOK
  BY <1>3, <1>7, <1>8 DEF OperationOK, WorkersOK, NativeOK, BlockedOK
<1>15. AccountsOK /\ SourceOK /\ KeptOK
  BY <1>3 DEF AccountsOK, SourceOK, KeptOK, Collects, OwnsSource, HasSnapshot
<1>16. SeenOK
  BY <1>2, <1>3, <1>4, <1>6, <1>7, Nothings DEF SeenOK, Seen
<1>17. HistoryOK /\ TargetOK
  BY <1>3, <1>6 DEF HistoryOK, TargetOK
<1>18. BegunOK
  BY <1>7 DEF BegunOK, Begun
<1>19. ServedOK
  BY <1>2, <1>4, <1>5, <1>6, Names DEF ServedOK, MayLand, IsServed, Holds, Pack
<1> QED BY <1>9, <1>10, <1>11, <1>12, <1>13, <1>14, <1>15, <1>16, <1>17, <1>18, <1>19 DEF GcInv

\* Every step of a push preserves it.
LEMMA PushSteps ==
  ASSUME GcInv, NEW p \in Push,
         \/ BeginReceive(p) \/ StagePack(p) \/ AbortReceive(p) \/ Finalize(p)
         \/ ReceiveStep(p) \/ ResumeFinalize(p)
  PROVE  GcInv'
<1>1. CASE BeginReceive(p)
  <2>1. CASE Prepared /\ CommitReady(op.armed)
    <3>1. op.armed \in Claim /\ Publish
      BY <1>1, <2>1 DEF BeginReceive, Prepared, GcInv, GcTypes, Operation
    <3> QED BY <1>1, <2>1, <3>1, BeginReceivePublishes
  <2>2. CASE ~(Prepared /\ CommitReady(op.armed))
    <3>1. UNCHANGED <<rows, packset, op, clease, pending>>
      BY <1>1, <2>2 DEF BeginReceive
    <3> QED BY <1>1, <3>1, BeginReceiveWaits
  <2> QED BY <2>1, <2>2
<1>2. CASE StagePack(p)
  <2>1. PICK r \in Ref, new \in {p, None} \cup Readable :
          /\ plan' = [plan EXCEPT ![p] = [NoPlan EXCEPT !.ref = r, !.old = refs[r], !.new = new]]
          /\ bucket' = IF new = p THEN bucket \cup {p} ELSE bucket
          /\ IF new = p
             THEN \E parents \in SUBSET Readable,
                     b \in IF p \in mix.thin THEN Readable ELSE {None} :
                    /\ below' = [below EXCEPT ![p] = Closure(parents)]
                    /\ base' = [base EXCEPT ![p] = b]
             ELSE UNCHANGED objects
    BY <1>2 DEF StagePack
  <2>2. CASE new = p
    <3>1. PICK parents \in SUBSET Readable, b \in IF p \in mix.thin THEN Readable ELSE {None} :
            /\ below' = [below EXCEPT ![p] = Closure(parents)]
            /\ base' = [base EXCEPT ![p] = b]
      BY <2>1, <2>2
    <3> QED BY <1>2, <2>1, <2>2, <3>1, StageOwn
  <2>3. CASE new # p
    <3>1. UNCHANGED <<bucket, below, base>> /\ new \in {None} \cup Readable
      BY <2>1, <2>3 DEF objects
    <3> QED BY <1>2, <2>1, <2>3, <3>1, StageOther
  <2> QED BY <2>2, <2>3
<1>3. CASE AbortReceive(p)
  BY <1>3, AbortReceiveStep
<1>4. CASE Finalize(p)
  BY <1>4, FinalizeStep
<1>5. CASE WriteIntent(p)
  <2>1. CASE ProofCurrent(p)
    BY <1>5, <2>1, IntentWritten DEF WriteIntent
  <2>2. CASE ~ProofCurrent(p)
    BY <1>5, <2>2, IntentLost DEF WriteIntent
  <2> QED BY <2>1, <2>2
<1>6. CASE ActivatePack(p)
  BY <1>6, PackActivated, NothingActivated
<1>7. CASE CountPack(p)
  BY <1>7, CountPackStep
<1>8. CASE MoveRefs(p)
  BY <1>8, MoveRefsStep
<1>9. CASE FinalizeThrows(p)
  BY <1>9, FinalizeThrowsStep
<1>10. CASE FinishReceive(p)
  BY <1>10, FinishReceiveStep
<1>11. CASE ResumeFinalize(p)
  BY <1>11, ResumeFinalizeStep
<1> QED BY <1>1, <1>2, <1>3, <1>4, <1>5, <1>6, <1>7, <1>8, <1>9, <1>10, <1>11 DEF ReceiveStep

\* So does every step of a Worker.
LEMMA WorkerDoes ==
  ASSUME GcInv, NEW c \in Claim,
         \/ ClaimGc(c) \/ WorkerStep(c) \/ WorkerDies(c)
         \/ RewriteRejected(c) \/ NativeRejected(c)
  PROVE  GcInv'
<1>1. CASE PlanGc(c)
  <2>1. CASE Sources = {} /\ GcClosure # {}
    BY <1>1, <2>1, PlanBlocks DEF PlanGc
  <2>2. CASE ~(Sources = {} /\ GcClosure # {}) /\ (GcClosure = {} \/ ExactPacks # {})
    <3>1. PICK k \in IF GcClosure = {} THEN {None} ELSE ExactPacks :
            op' = [MoveTo(op, "publish") EXCEPT !.planned = TRUE, !.target = k]
      BY <1>1, <2>2 DEF PlanGc
    <3>2. (GcClosure = {} /\ k = None) \/ (GcClosure # {} /\ k \in ExactPacks)
      OBVIOUS
    <3>3. Leaves(c) /\ UNCHANGED <<clease, pending>>
      BY <1>1, <2>2 DEF PlanGc
    <3> QED BY <1>1, <3>1, <3>2, <3>3, PlanKeeps
  <2>3. CASE ~(Sources = {} /\ GcClosure # {}) /\ ~(GcClosure = {} \/ ExactPacks # {})
    BY <1>1, <2>3, PlanGoes DEF PlanGc
  <2> QED BY <2>1, <2>2, <2>3
<1>2. CASE RewriteRejected(c)
  <2>1. CASE op.intent
    BY <1>2, <2>1, RewriteDiscards DEF RewriteRejected
  <2>2. CASE ~op.intent
    BY <1>2, <2>2, RewriteFails DEF RewriteRejected
  <2> QED BY <2>1, <2>2
<1>3. CASE CommitPublication(c)
  <2>1. CASE CommitReady(c)
    BY <1>3, <2>1, CommitPublishes DEF CommitPublication
  <2>2. CASE ~CommitReady(c) /\ LeaseHeld(c) /\ ReceiveIdle /\ SourceDiffers
    BY <1>3, <2>2, CommitDiscards DEF CommitPublication
  <2>3. CASE ~CommitReady(c) /\ ~(LeaseHeld(c) /\ ReceiveIdle /\ SourceDiffers)
    BY <1>3, <2>3, CommitWaits DEF CommitPublication
  <2> QED BY <2>1, <2>2, <2>3
<1>4. CASE DiscardKeys(c)
  <2>1. CASE MayDiscard(c)
    BY <1>4, <2>1, DiscardGoes DEF DiscardKeys
  <2>2. CASE ~MayDiscard(c)
    BY <1>4, <2>2, DiscardWaits DEF DiscardKeys
  <2> QED BY <2>1, <2>2
<1>5. CASE ClaimGc(c) \/ WorkerDies(c) \/ NativeRejected(c) \/ ClaimRejected(c)
  BY <1>5, ClaimGcStep, WorkerDiesStep, NativeRejectedStep, ClaimRejectedStep
<1>6. CASE BeginGc(c) \/ BeginRefused(c) \/ RecordSnapshot(c) \/ AbortSnapshot(c)
  BY <1>6, BeginGcStep, BeginRefusedStep, RecordSnapshotStep, AbortSnapshotStep
<1>7. CASE SelectObjects(c) \/ RewriteIntent(c) \/ CompleteUpload(c) \/ RewriteComplete(c)
  BY <1>7, SelectObjectsStep, RewriteIntentStep, CompleteUploadStep, RewriteCompleteStep
<1>8. CASE RunGcNative(c) \/ NativeComplete(c) \/ ArmPublication(c)
  BY <1>8, RunGcNativeStep, NativeCompleteStep, ArmPublicationStep
<1>9. CASE ReclaimPending(c) \/ DeleteStaging(c) \/ Reclaimed(c)
  BY <1>9, ReclaimPendingStep, DeleteStagingStep, ReclaimedStep
<1>10. CASE DeleteOutputs(c) \/ Discarded(c)
  BY <1>10, DeleteOutputsStep, DiscardedStep
<1> QED BY <1>1, <1>2, <1>3, <1>4, <1>5, <1>6, <1>7, <1>8, <1>9, <1>10 DEF WorkerStep

\* And every step of the object, the Container, the bucket and the clock.
LEMMA OtherSteps ==
  ASSUME GcInv,
         \/ \E r \in Ref : SetRefs(r)
         \/ \E o \in Op : Register(o)
         \/ \E k \in Pack : DeleteSuperseded(k)
         \/ NativeOutput \/ NativeReceipt
         \/ Evict \/ ReceiveLeaseAges \/ ClearExpiredLeases \/ RenewIntentLease \/ ResumeGc
         \/ ClaimExpires \/ ClaimDrains \/ DiscardDrains \/ SourceLeaseExpires
         \/ DeadlinePasses
  PROVE  GcInv'
<1>1. CASE \/ \E r \in Ref : SetRefs(r)
           \/ \E o \in Op : Register(o)
           \/ \E k \in Pack : DeleteSuperseded(k)
  BY <1>1, SetRefsStep, RegisterStep, DeleteSupersededStep
<1>2. CASE NativeOutput \/ NativeReceipt \/ ClearExpiredLeases \/ RenewIntentLease \/ ResumeGc
  BY <1>2, NativeOutputStep, NativeReceiptStep, ClearExpiredLeasesStep, RenewIntentLeaseStep,
     ResumeGcStep
<1>3. CASE Evict
  <2>1. handler \in Push
    BY <1>3 DEF Evict, GcInv, ReceiveTypes, Oid
  <2> QED BY <1>3, <2>1, EvictStep
<1>4. CASE ReceiveLeaseAges
  <2>1. rlease.token \in Push
    BY <1>4 DEF ReceiveLeaseAges, GcInv, ReceiveTypes, Oid
  <2>2. CASE /\ rlease.age = "live"
             /\ rlease' = [rlease EXCEPT !.age = "expired"]
             /\ UNCHANGED push
    BY <1>4, <2>2, LeaseExpires
  <2>3. CASE /\ rlease.age = "expired"
             /\ rlease' = [rlease EXCEPT !.age = "drained"]
             /\ push' = [push EXCEPT ![rlease.token] =
                           IF @ \in {"leased", "staged", "lost"} THEN "failed" ELSE @]
    BY <1>4, <2>1, <2>3, LeaseDrains
  <2> QED BY <1>4, <2>2, <2>3 DEF ReceiveLeaseAges
<1>5. CASE ClaimDrains
  <2>1. op.claim \in Claim
    BY <1>5 DEF ClaimDrains, GcInv, GcTypes, Operation
  <2> QED BY <1>5, <2>1, ClaimDrainsStep
<1>6. CASE ClaimExpires \/ DiscardDrains \/ SourceLeaseExpires \/ DeadlinePasses
  BY <1>6, ClaimExpiresStep, DiscardDrainsStep, SourceLeaseExpiresStep, DeadlinePassesStep
<1> QED BY <1>1, <1>2, <1>3, <1>4, <1>5, <1>6

\* The inductive invariant holds in every state of ReachabilityGc, whatever is
\* pushed, collected, lost or late.
THEOREM GcInvariant == Spec => []GcInv
<1>1. GcInv /\ [Next]_vars => GcInv'
  <2> SUFFICES ASSUME GcInv, [Next]_vars PROVE GcInv'
    OBVIOUS
  <2>1. CASE UNCHANGED vars
    BY <2>1, StutterStep
  <2>2. CASE Next
    BY <2>2, PushSteps, WorkerDoes, OtherSteps DEF Next
  <2> QED BY <2>1, <2>2
<1> QED BY <1>1, GcInit, PTL DEF Spec

\* OperationSound for any pushes, refs and operations: the record of the
\* collection has counted every version a receive moved beside it
\* (advanceGcReceiveVersions), and an operation that ended blocked has left no
\* output, no staging and no lease, though Workers and Containers die late.
THEOREM OperationIsSound == Spec => []OperationSound
<1>1. GcInv => OperationSound
  <2> SUFFICES ASSUME GcInv PROVE OperationSound
    OBVIOUS
  <2> USE DEF GcInv
  <2>1. TypeOK
    <3>1. mix.faults \in Nat
      BY DEF StoreTypes, Mixed
    <3> QED BY <3>1 DEF TypeOK, StoreTypes, ReceiveTypes, GcTypes
  <2>2. BlockedLeavesNothing
    BY DEF BlockedLeavesNothing, BlockedOK, OutputsOK, OperationOK, Clean
  <2>3. ChangesAccounted
    BY DEF ChangesAccounted, AccountsOK
  <2> QED BY <2>1, <2>2, <2>3 DEF OperationSound
<1> QED BY <1>1, GcInvariant, PTL

\* What is served can be read, if no pack needs an external base.
LEMMA ServedReadable ==
  ASSUME GcInv, mix.thin = {}, NEW x, IsServed(x)
  PROVE  x \in Readable
<1> DEFINE S == {y \in Push : IsServed(y)}
<1>1. ASSUME NEW y \in S
      PROVE  \E k \in Active \cap bucket : y \in Holds(k) /\ ExternalBase(k) \in S \cup {None}
  <2>1. PICK k \in Pack : rows[k] = "active" /\ y \in Holds(k)
    BY DEF IsServed
  <2>2. k \in Active \cap bucket
    BY <2>1 DEF Active, GcInv, RowsOK
  <2>3. ExternalBase(k) = None
    BY DEF ExternalBase, GcInv, HistoryOK, Pack
  <2> QED BY <2>1, <2>2, <2>3
<1>2. x \in S /\ S \in SUBSET Push
  BY ServedSeen
<1> HIDE DEF S
<1> QED BY <1>1, <1>2 DEF Readable

\* Every active row has its pack in the bucket, and every commit the refs reach
\* is in one of them, while collections replace packs and receives land beside
\* them: the account that commitCoordinatedGc relies on is enough.
THEOREM CatalogServes == Spec => [](ActivePacksStored /\ ReachableReadable)
<1>1. GcInv => ActivePacksStored /\ ReachableReadable
  <2> SUFFICES ASSUME GcInv PROVE ActivePacksStored /\ ReachableReadable
    OBVIOUS
  <2>1. ActivePacksStored
    BY DEF ActivePacksStored, Active, GcInv, RowsOK
  <2>2. ASSUME mix.thin = {}, ~mix.late, NEW x \in Closure(Wants(refs)) PROVE x \in Readable
    <3>1. Calm /\ refs \in [Ref -> Oid]
      BY <2>2, Typed DEF Calm, GcInv
    <3>2. PICK n \in Ref : refs[n] # None /\ (x = refs[n] \/ x \in below[refs[n]])
      BY <2>2 DEF Closure, Wants
    <3>3. refs[n] \in Push /\ IsServed(refs[n])
      BY <3>1, <3>2 DEF GcInv, ServedOK, Oid
    <3>4. IsServed(x)
      BY <3>1, <3>2, <3>3 DEF GcInv, ServedOK
    <3> QED BY <2>2, <3>4, ServedReadable
  <2> QED BY <2>1, <2>2 DEF ReachableReadable
<1> QED BY <1>1, GcInvariant, PTL

\* RefsReadable whatever is pushed, as long as it comes in self-contained packs.
\* Beside thin packs LateBasesReadable depends on the collections that came
\* before, and stays model-checked.
THEOREM RefsAreReadable == Spec => [](mix.thin = {} => RefsReadable)
<1>1. mix.thin = {} => LateBasesReadable
  BY DEF LateBasesReadable
<1>2. ActivePacksStored /\ ReachableReadable => (mix.thin = {} => RefsReadable)
  BY <1>1 DEF RefsReadable
<1> QED BY <1>2, CatalogServes, PTL
==============================================================================
