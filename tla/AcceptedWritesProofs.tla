------------------------- MODULE AcceptedWritesProofs -------------------------
(***************************************************************************)
(* Proofs about AcceptedWrites, for any refs, commits, requests and keys,  *)
(* any number of deliveries and receipts, and any events of every kind.    *)
(***************************************************************************)
EXTENDS AcceptedWrites, SequenceTheorems, TLAPS

------------------------------------------------------------------------------
(* The inductive invariant *)

\* What the requests ask for, and how far their Workers can be: only a request
\* that was made runs, only an ingestion keeps an intent, and who landed is past
\* the checks.
Steps == {"idle", "start", "checked", "landed", "send", "sent", "created", "replayed",
          "refused", "failed"}
Consumers == [st : {"none", "queued", "planned", "open"},
              plan : {"none", "deliver", "head_only"}, ref : Ref \cup {None},
              after : Oid, seq : 0..refsVersion, attempts : 0..MaxDeliveries,
              lease : BOOLEAN]
Marks == [after : Oid, seq : 0..refsVersion]

AskOK ==
  /\ \E Q \in SUBSET Request : ask \in [Q -> Asks]
  /\ \A q \in Request :
       /\ pc[q] # "idle" => q \in DOMAIN ask
       /\ pc[q] \in {"checked", "landed"} => ask[q].kind = "ingest"
       /\ pc[q] = "landed" => intent = q
       /\ q \in landed => pc[q] \in {"landed", "send", "sent", "created", "failed"}
       /\ pc[q] \in {"send", "landed", "sent"} => q \in landed
  /\ intent # None => intent \in landed /\ ask[intent].kind = "ingest"

\* A consumer that is at work has a message of a request that was sent, or is
\* the probe; its plan names what the ref was at its sequence, and its read
\* lease keeps the commit it inspected.
ConsumerAt(p, c) ==
  /\ c.st # "none" => c.ref \in Ref /\ (p # Probe => pc[p] = "sent")
  /\ c.st \in {"planned", "open"} =>
       c.plan \in {"deliver", "head_only"} /\ value[c.seq][c.ref] = c.after
  /\ c.lease => c.st = "open" /\ c.after \in stored
ConsumersOK == \A p \in Process : ConsumerAt(p, con[p])

\* The receipts are those of ingestions that landed.
ReceiptsOK ==
  /\ receipts \in Seq([key : Key, old : Oid, new : Oid])
  /\ \A i \in DOMAIN receipts : \E p \in landed : receipts[i] = Fingerprint(p)

\* Every record of a ref names what the ref was at the sequence it carries.
ValuesOK ==
  /\ value \in [0..refsVersion -> [Ref -> Oid]]
  /\ value[refsVersion] = refs
  /\ \A r \in Ref : head[r].seq > 0 => value[head[r].seq][r] = head[r].after
  /\ \A r \in Ref : current[r].seq > 0 => value[current[r].seq][r] = current[r].after
  /\ \A e \in journal : value[e.seq][e.ref] = e.after
  /\ \A q \in landed : \E v \in 0..refsVersion : value[v][ask[q].ref] = ask[q].new

\* There is a journal only under the probe, and its entries are not newer than
\* the accepted head.
JournalOK ==
  /\ journal # {} => probe
  /\ \A e \in journal : e.seq <= head[e.ref].seq

\* A collection in progress has every ref among its roots, and every pin as long
\* as it accounted for the last one.
GcOK ==
  gc.on =>
    /\ gc.refsV = refsVersion
    /\ \A r \in Ref : refs[r] \in gc.roots \cup {None}
    /\ gc.pinV = pinVersion => \A c \in Commit : pins[c] # None => c \in gc.roots

\* Pinned commits and those of the refs are stored.
RootsStored ==
  /\ \A c \in Commit : pins[c] # None => c \in stored
  /\ \A r \in Ref : refs[r] \in stored \cup {None}

\* The ref is what its last accepted write made it.
Accepted(r) == head[r].seq > 0 /\ head[r].after = refs[r]
PlanSeq(r) == IF Accepted(r) THEN head[r].seq ELSE refsVersion

\* A pointer that is up to date is pinned; a ref that was set back by hand is not
\* what its pointer would be under the newest sequence.
PointersOK ==
  \A r \in Ref :
    /\ r \in rewound => Accepted(r) /\ head[r].seq < refsVersion
    /\ Accepted(r) /\ head[r].seq < refsVersion => current[r].seq < refsVersion
    /\ r \notin rewound /\ refs[r] # None /\ current[r].after = refs[r] /\ current[r].seq = PlanSeq(r)
         => pins[refs[r]] # None

\* A request that landed twice found the ref put back in between.
LandedOnce ==
  \A p, q \in landed : p # q /\ ask[p] = ask[q] /\ ask[q].old # ask[q].new =>
    \E u, v, x \in DOMAIN value :
      /\ u < v /\ v < x
      /\ value[u][ask[q].ref] = ask[q].new /\ value[x][ask[q].ref] = ask[q].new
      /\ value[v][ask[q].ref] = ask[q].old

\* A success was answered to a request whose content landed.
AnswersTrue ==
  \A q \in Request : pc[q] \in {"created", "replayed"} =>
    \E p \in landed : Fingerprint(p) = Fingerprint(q)

WritesInv ==
  /\ TypeOK
  /\ AskOK
  /\ ConsumersOK
  /\ ReceiptsOK
  /\ ValuesOK
  /\ JournalOK
  /\ GcOK
  /\ RootsStored
  /\ PointersOK
  /\ LandedOnce
  /\ AnswersTrue

------------------------------------------------------------------------------
(* Frames *)

\* The state without the positions of Workers and consumers.
core == <<ask, probe, refVars, snapshotVars, receipts, intent, gc, stored>>

\* A step that moves only Workers and consumers keeps the rest.
LEMMA CoreFrame ==
  ASSUME WritesInv, UNCHANGED core, events' \in Nat, gap' \subseteq Ref,
         pc' \in [Request -> Steps], con' \in [Process -> Consumers],
         AskOK', ConsumersOK', AnswersTrue'
  PROVE  WritesInv'
<1>0. /\ ask' = ask /\ probe' = probe /\ refs' = refs /\ refsVersion' = refsVersion
      /\ head' = head /\ journal' = journal /\ value' = value /\ landed' = landed
      /\ rewound' = rewound /\ current' = current /\ pins' = pins /\ owned' = owned
      /\ pinVersion' = pinVersion /\ released' = released /\ receipts' = receipts
      /\ intent' = intent /\ gc' = gc /\ stored' = stored
  BY DEF core, refVars, snapshotVars
<1>1. TypeOK'
  BY <1>0 DEF WritesInv, TypeOK, Steps, Consumers
<1>2. ReceiptsOK' /\ ValuesOK' /\ JournalOK' /\ GcOK' /\ RootsStored'
  BY <1>0 DEF WritesInv, ReceiptsOK, Fingerprint, ValuesOK, JournalOK, GcOK, RootsStored
<1>3. PointersOK'
  BY <1>0 DEF WritesInv, PointersOK, Accepted, PlanSeq
<1>4. LandedOnce'
  BY <1>0 DEF WritesInv, LandedOnce
<1> QED BY <1>1, <1>2, <1>3, <1>4 DEF WritesInv

\* The types in the names used here.
LEMMA Types ==
  ASSUME TypeOK
  PROVE  /\ pc \in [Request -> Steps] /\ con \in [Process -> Consumers]
         /\ head \in [Ref -> Marks] /\ current \in [Ref -> Marks]
BY DEF TypeOK, Steps, Consumers, Marks

\* What a request that was made asks for.
LEMMA Asked ==
  ASSUME AskOK, NEW q \in Request, q \in DOMAIN ask
  PROVE  /\ ask[q] \in Asks
         /\ ask[q].ref \in Ref /\ ask[q].old \in Oid /\ ask[q].new \in Oid
         /\ ask[q].kind = "ingest" => ask[q].new \in Commit /\ ask[q].key \in Key
<1>1. ask[q] \in Asks
  BY DEF AskOK
<1> QED BY <1>1 DEF Asks, Oid

\* A consumer moves on to a state that is in order.
LEMMA ConsumerMoves ==
  ASSUME WritesInv, NEW p \in Process, NEW x \in Consumers, con' = [con EXCEPT ![p] = x],
         UNCHANGED core, UNCHANGED pc, events' \in Nat, gap' \subseteq Ref,
         ConsumerAt(p, x)
  PROVE  WritesInv'
<1>0. pc \in [Request -> Steps] /\ con \in [Process -> Consumers]
  BY Types DEF WritesInv
<1>1. ask' = ask /\ stored' = stored /\ value' = value /\ landed' = landed /\ intent' = intent
      /\ refsVersion' = refsVersion
  BY DEF core, refVars
<1>2. con' \in [Process -> Consumers]
  BY <1>0
<1>3. AskOK' /\ AnswersTrue'
  BY <1>1 DEF WritesInv, AskOK, AnswersTrue, Fingerprint
<1>4. ConsumersOK'
  <2> SUFFICES ASSUME NEW o \in Process
               PROVE  ConsumerAt(o, con[o])'
    BY DEF ConsumersOK
  <2>1. CASE o = p
    <3>1. con'[o] = x
      BY <1>0, <2>1
    <3> QED BY <1>1, <2>1, <3>1 DEF ConsumerAt
  <2>2. CASE o # p
    <3>1. con'[o] = con[o]
      BY <1>0, <2>2
    <3> QED BY <1>1, <3>1 DEF ConsumerAt, WritesInv, ConsumersOK
  <2> QED BY <2>1, <2>2
<1> QED BY <1>0, <1>2, <1>3, <1>4, CoreFrame DEF Consumers

\* A consumer that is idle is in order.
LEMMA IdleConsumer ==
  ASSUME WritesInv, NEW p \in Process
  PROVE  Idle \in Consumers /\ ConsumerAt(p, Idle)
<1>0. refsVersion \in Nat /\ MaxDeliveries \in Nat \ {0}
  BY WritesAssumption DEF WritesInv, TypeOK
<1> QED BY <1>0 DEF Idle, Consumers, Oid, ConsumerAt

\* The message of a request that was made, queued for any of its deliveries.
LEMMA QueuedMessage ==
  ASSUME WritesInv, NEW p \in Process, p # Probe, p \in DOMAIN ask, NEW n \in 1..MaxDeliveries
  PROVE  /\ Queued(p, n) \in Consumers /\ Queued(p, n).st = "queued"
         /\ Queued(p, n).ref \in Ref /\ ~Queued(p, n).lease
<1>1. Idle \in Consumers
  BY IdleConsumer
<1>2. p \in Request /\ ask[p].ref \in Ref
  BY Asked DEF WritesInv, Process
<1>3. n \in 0..MaxDeliveries /\ ~Idle.lease
  BY WritesAssumption DEF Idle
<1>4. /\ Queued(p, n) \in Consumers /\ Queued(p, n).st = "queued" /\ Queued(p, n).ref = ask[p].ref
      /\ Queued(p, n).lease = Idle.lease
  BY <1>1, <1>2, <1>3 DEF Queued, Consumers
<1> QED BY <1>2, <1>3, <1>4

\* A message that was sent may be queued again.
LEMMA QueuedAgain ==
  ASSUME WritesInv, NEW p \in Process, p # Probe, pc[p] = "sent", NEW n \in 1..MaxDeliveries
  PROVE  Queued(p, n) \in Consumers /\ ConsumerAt(p, Queued(p, n))
<1>1. p \in DOMAIN ask
  BY DEF WritesInv, AskOK, Process
<1> QED BY <1>1, QueuedMessage DEF ConsumerAt

\* The retry of a delivery.
LEMMA RetryStep ==
  ASSUME WritesInv, NEW p \in Process, NEW ext \in BOOLEAN, con[p].st # "none", Retry(p, ext),
         UNCHANGED core, UNCHANGED pc, events' \in Nat
  PROVE  WritesInv'
<1>0. con \in [Process -> Consumers] /\ con[p] \in Consumers /\ gap \subseteq Ref
  BY Types DEF WritesInv, TypeOK
<1>1. con[p].attempts \in 0..MaxDeliveries /\ MaxDeliveries \in Nat
  BY <1>0, WritesAssumption DEF Consumers
<1>2. con[p].ref \in Ref /\ (p # Probe => pc[p] = "sent")
  BY DEF WritesInv, ConsumersOK, ConsumerAt
<1>3. gap' \subseteq Ref
  BY <1>0, <1>2 DEF Retry
<1>4. CASE p # Probe /\ con[p].attempts < MaxDeliveries
  <2>1. con' = [con EXCEPT ![p] = Queued(p, con[p].attempts + 1)]
    BY <1>4 DEF Retry
  <2>2. con[p].attempts + 1 \in 1..MaxDeliveries
    BY <1>1, <1>4
  <2>3. Queued(p, con[p].attempts + 1) \in Consumers /\ ConsumerAt(p, Queued(p, con[p].attempts + 1))
    BY <1>2, <1>4, <2>2, QueuedAgain
  <2> QED BY <1>3, <2>1, <2>3, ConsumerMoves
<1>5. CASE ~(p # Probe /\ con[p].attempts < MaxDeliveries)
  <2>1. con' = [con EXCEPT ![p] = Idle]
    BY <1>5 DEF Retry
  <2> QED BY <1>3, <2>1, IdleConsumer, ConsumerMoves
<1> QED BY <1>4, <1>5


------------------------------------------------------------------------------
(* Consumers *)

\* The events still to come remain a number.
LEMMA EventsStep ==
  ASSUME TypeOK, NEW k, Event(k)
  PROVE  events' \in Nat
BY DEF TypeOK, Event

\* What a plan says is what the ref is, or what its accepted write made it.
LEMMA PlanTrue ==
  ASSUME WritesInv, NEW r \in Ref
  PROVE  /\ Plan(r).after = refs[r] /\ Plan(r).seq = PlanSeq(r)
         /\ refs[r] \in Oid /\ PlanSeq(r) \in 0..refsVersion
         /\ value[PlanSeq(r)][r] = refs[r]
         /\ Plan(r).status \in {"unborn", "up_to_date", "deliver", "head_only"}
         /\ refs[r] # None /\ Plan(r).status = "up_to_date" =>
              current[r].after = refs[r] /\ current[r].seq = PlanSeq(r)
<1>0. /\ refs \in [Ref -> Oid] /\ refsVersion \in Nat /\ head[r] \in Marks /\ current[r] \in Marks
      /\ value[refsVersion] = refs
      /\ head[r].seq > 0 => value[head[r].seq][r] = head[r].after
  BY Types DEF WritesInv, TypeOK, ValuesOK
<1>1. Plan(r).after = refs[r] /\ Plan(r).seq = PlanSeq(r)
  BY DEF Plan, PlanSeq, Accepted
<1>2. PlanSeq(r) \in 0..refsVersion /\ value[PlanSeq(r)][r] = refs[r]
  BY <1>0 DEF PlanSeq, Accepted, Marks
<1>3. Plan(r).status \in {"unborn", "up_to_date", "deliver", "head_only"}
  BY DEF Plan
<1>4. refs[r] # None /\ Plan(r).status = "up_to_date" =>
        current[r] = [after |-> refs[r], seq |-> PlanSeq(r)]
  BY DEF Plan, PlanSeq, Accepted
<1> QED BY <1>0, <1>1, <1>2, <1>3, <1>4

\* The consumer reads its plan.
LEMMA DeliverStep ==
  ASSUME WritesInv, NEW p \in Process, Deliver(p)
  PROVE  WritesInv'
<1>0. /\ con \in [Process -> Consumers] /\ con[p] \in Consumers /\ events \in Nat /\ gap \subseteq Ref
      /\ con[p].st = "queued" /\ con[p].ref \in Ref /\ (p # Probe => pc[p] = "sent")
      /\ ~con[p].lease
  BY Types DEF WritesInv, TypeOK, Deliver, ConsumersOK, ConsumerAt
<1>1. UNCHANGED core /\ UNCHANGED pc /\ events' \in Nat /\ gap' \subseteq Ref
  BY <1>0 DEF Deliver, ConsumerUnchanged, core, requestVars
<1> DEFINE plan == Plan(con[p].ref)
           x == [con[p] EXCEPT !.st = "planned", !.plan = plan.status, !.after = plan.after,
                               !.seq = plan.seq]
<1>2. CASE plan.status \in {"up_to_date", "unborn"}
  <2>1. con' = [con EXCEPT ![p] = Idle]
    BY <1>2 DEF Deliver
  <2> QED BY <1>1, <2>1, IdleConsumer, ConsumerMoves
<1>3. CASE plan.status \in {"deliver", "head_only"}
  <2>1. con' = [con EXCEPT ![p] = x]
    BY <1>0, <1>3 DEF Deliver
  <2>2. plan.after \in Oid /\ plan.seq \in 0..refsVersion /\ value[plan.seq][con[p].ref] = plan.after
    BY <1>0, PlanTrue
  <2>3. x \in Consumers /\ x.st = "planned" /\ x.plan = plan.status /\ x.after = plan.after
        /\ x.seq = plan.seq /\ x.ref = con[p].ref /\ x.lease = con[p].lease
    BY <1>0, <1>3, <2>2 DEF Consumers
  <2>4. ConsumerAt(p, x)
    BY <1>0, <1>3, <2>2, <2>3 DEF ConsumerAt
  <2> HIDE DEF x
  <2> QED BY <1>1, <2>1, <2>3, <2>4, ConsumerMoves
<1> QED BY <1>0, <1>2, <1>3, PlanTrue

\* A message is delivered once more.
LEMMA RedeliverStep ==
  ASSUME WritesInv, NEW q \in Request, Redeliver(q)
  PROVE  WritesInv'
<1>0. q \in Process /\ q # Probe /\ gap \subseteq Ref /\ 1 \in 1..MaxDeliveries
  BY WritesAssumption DEF Process, WritesInv, TypeOK
<1>1. UNCHANGED core /\ UNCHANGED pc /\ events' \in Nat /\ gap' \subseteq Ref
  BY <1>0, EventsStep DEF WritesInv, Redeliver, ConsumerUnchanged, core, requestVars
<1>2. con' = [con EXCEPT ![q] = Queued(q, 1)] /\ pc[q] = "sent"
  BY DEF Redeliver
<1> QED BY <1>0, <1>1, <1>2, QueuedAgain, ConsumerMoves

\* The probe delivers an entry of the journal.
LEMMA ProbeDeliversStep ==
  ASSUME WritesInv, NEW e \in journal, ProbeDelivers(e)
  PROVE  WritesInv'
<1>0. Probe \in Process /\ gap \subseteq Ref /\ MaxDeliveries \in Nat /\ refsVersion \in Nat
  BY WritesAssumption DEF Process, WritesInv, TypeOK
<1>1. UNCHANGED core /\ UNCHANGED pc /\ events' \in Nat /\ gap' \subseteq Ref
  BY <1>0, EventsStep DEF WritesInv, ProbeDelivers, ConsumerUnchanged, core, requestVars
<1> DEFINE x == [Idle EXCEPT !.st = "planned", !.plan = "deliver", !.ref = e.ref,
                             !.after = e.after, !.seq = e.seq]
<1>2. con' = [con EXCEPT ![Probe] = x]
  BY DEF ProbeDelivers
<1>3. e.ref \in Ref /\ e.after \in Oid /\ e.seq \in 0..refsVersion /\ value[e.seq][e.ref] = e.after
  BY <1>0 DEF WritesInv, TypeOK, ValuesOK
<1>4. /\ x \in Consumers /\ x.st = "planned" /\ x.plan = "deliver" /\ x.ref = e.ref
      /\ x.after = e.after /\ x.seq = e.seq /\ x.lease = Idle.lease
  <2>1. Idle \in Consumers
    BY <1>0, IdleConsumer
  <2> QED BY <1>3, <2>1 DEF Consumers
<1>5. ConsumerAt(Probe, x)
  <2>1. ~Idle.lease
    BY DEF Idle
  <2> QED BY <1>3, <1>4, <2>1 DEF ConsumerAt
<1> HIDE DEF x
<1> QED BY <1>0, <1>1, <1>2, <1>4, <1>5, ConsumerMoves

\* A consumer opens its commit, or its read lease runs out.
LEMMA InspectStep ==
  ASSUME WritesInv, NEW p \in Process, Inspect(p) \/ ReadLeaseLapses(p)
  PROVE  WritesInv'
<1>0. /\ con \in [Process -> Consumers] /\ con[p] \in Consumers /\ events \in Nat /\ gap \subseteq Ref
      /\ con[p].st \in {"planned", "open"} /\ ConsumerAt(p, con[p])
  BY Types DEF WritesInv, TypeOK, Inspect, ReadLeaseLapses, ConsumersOK
<1>1. UNCHANGED core /\ UNCHANGED pc /\ events' \in Nat /\ gap' \subseteq Ref
  BY <1>0, EventsStep DEF WritesInv, Inspect, ReadLeaseLapses, ConsumerUnchanged, core, requestVars
<1>2. PICK l \in BOOLEAN : /\ con' = [con EXCEPT ![p] = [con[p] EXCEPT !.st = "open", !.lease = l]]
                           /\ l => con[p].after \in stored
  <2>1. CASE Inspect(p)
    <3>1. con' = [con EXCEPT ![p] = [con[p] EXCEPT !.st = "open", !.lease = (con[p].after # None)]]
      BY <1>0, <2>1 DEF Inspect
    <3>2. con[p].after # None => con[p].after \in stored
      BY <2>1 DEF Inspect
    <3> QED BY <3>1, <3>2, Zenon
  <2>2. CASE ReadLeaseLapses(p)
    <3>1. con' = [con EXCEPT ![p] = [con[p] EXCEPT !.st = "open", !.lease = FALSE]]
      BY <1>0, <2>2 DEF ReadLeaseLapses, Consumers
    <3> QED BY <3>1
  <2> QED BY <2>1, <2>2
<1> DEFINE x == [con[p] EXCEPT !.st = "open", !.lease = l]
<1>3. /\ x \in Consumers /\ x.st = "open" /\ x.plan = con[p].plan /\ x.after = con[p].after
      /\ x.seq = con[p].seq /\ x.ref = con[p].ref /\ x.lease = l
  BY <1>0 DEF Consumers
<1>4. ConsumerAt(p, x)
  BY <1>0, <1>2, <1>3 DEF ConsumerAt
<1> HIDE DEF x
<1> QED BY <1>1, <1>2, <1>3, <1>4, ConsumerMoves DEF x

\* The commit is refused for good.
LEMMA InspectRejectsStep ==
  ASSUME WritesInv, NEW p \in Process, InspectRejects(p)
  PROVE  WritesInv'
<1>1. UNCHANGED core /\ UNCHANGED pc /\ events' \in Nat /\ gap' \subseteq Ref
  BY DEF WritesInv, TypeOK, InspectRejects, ConsumerUnchanged, core, requestVars
<1>2. con' = [con EXCEPT ![p] = Idle]
  BY DEF InspectRejects
<1> QED BY <1>1, <1>2, IdleConsumer, ConsumerMoves

\* An attempt fails.
LEMMA InspectFailsStep ==
  ASSUME WritesInv, NEW p \in Process, InspectMisses(p) \/ InspectFails(p) \/ ProjectRefused(p)
  PROVE  WritesInv'
<1>0. events \in Nat /\ con[p].st # "none"
  BY DEF WritesInv, TypeOK, InspectMisses, InspectFails, ProjectRefused
<1>1. UNCHANGED core /\ UNCHANGED pc /\ events' \in Nat
  BY <1>0, EventsStep DEF WritesInv, InspectMisses, InspectFails, ProjectRefused, ConsumerUnchanged,
     core, requestVars
<1>2. PICK ext \in BOOLEAN : Retry(p, ext)
  <2>1. CASE InspectMisses(p) \/ InspectFails(p)
    BY <2>1 DEF InspectMisses, InspectFails
  <2>2. CASE ProjectRefused(p)
    <3> DEFINE e == con[p].plan = "deliver" \/ Holds(p)
    <3>1. Retry(p, e)
      BY <2>2 DEF ProjectRefused
    <3>2. e \in BOOLEAN
      BY DEF e, Holds
    <3> QED BY <3>1, <3>2
  <2> QED BY <2>1, <2>2
<1> QED BY <1>0, <1>1, <1>2, RetryStep

------------------------------------------------------------------------------
(* Workers *)

\* A Worker moves on, and may hand its message to the queue.
LEMMA WorkerMoves ==
  ASSUME WritesInv, NEW q \in Request, q \in DOMAIN ask, NEW x \in Steps,
         pc' = [pc EXCEPT ![q] = x], UNCHANGED core, events' \in Nat, gap' \subseteq Ref,
         \/ con' = con /\ pc[q] # "sent"
         \/ x = "sent" /\ con' = [con EXCEPT ![q] = Queued(q, 1)],
         x # "landed", x = "checked" => ask[q].kind = "ingest",
         q \in landed => x \in {"landed", "send", "sent", "created", "failed"},
         x \in {"send", "sent"} => q \in landed,
         x \in {"created", "replayed"} => \E p \in landed : Fingerprint(p) = Fingerprint(q)
  PROVE  WritesInv'
<1>0. /\ pc \in [Request -> Steps] /\ con \in [Process -> Consumers] /\ q \in Process /\ q # Probe
      /\ AskOK /\ ConsumersOK /\ AnswersTrue
  BY Types, WritesAssumption DEF WritesInv, Process
<1>1. ask' = ask /\ stored' = stored /\ value' = value /\ landed' = landed /\ intent' = intent
      /\ refsVersion' = refsVersion
  BY DEF core, refVars
<1>2. pc' \in [Request -> Steps] /\ pc'[q] = x /\ \A o \in Request \ {q} : pc'[o] = pc[o]
  BY <1>0
<1>3. AskOK'
  <2>1. ASSUME NEW o \in Request
        PROVE  /\ pc'[o] # "idle" => o \in DOMAIN ask
               /\ pc'[o] \in {"checked", "landed"} => ask[o].kind = "ingest"
               /\ pc'[o] = "landed" => intent = o
               /\ o \in landed => pc'[o] \in {"landed", "send", "sent", "created", "failed"}
               /\ pc'[o] \in {"send", "landed", "sent"} => o \in landed
    BY <1>0, <1>2 DEF AskOK
  <2> QED BY <1>0, <1>1, <2>1 DEF AskOK
<1>4. AnswersTrue'
  <2> SUFFICES ASSUME NEW o \in Request, pc'[o] \in {"created", "replayed"}
               PROVE  \E p \in landed : Fingerprint(p) = Fingerprint(o)
    BY <1>1 DEF AnswersTrue, Fingerprint
  <2> QED BY <1>0, <1>2 DEF AnswersTrue
<1>5. con' \in [Process -> Consumers] /\ ConsumersOK'
  <2>1. CASE con' = con /\ pc[q] # "sent"
    BY <1>0, <1>1, <1>2, <2>1 DEF ConsumersOK, ConsumerAt, Process
  <2>2. CASE x = "sent" /\ con' = [con EXCEPT ![q] = Queued(q, 1)]
    <3>1. 1 \in 1..MaxDeliveries
      BY WritesAssumption
    <3>2. Queued(q, 1) \in Consumers /\ Queued(q, 1).st = "queued" /\ Queued(q, 1).ref \in Ref
          /\ ~Queued(q, 1).lease
      BY <1>0, <3>1, QueuedMessage
    <3>3. con'[q] = Queued(q, 1) /\ \A o \in Process \ {q} : con'[o] = con[o]
      BY <1>0, <2>2
    <3>4. con' \in [Process -> Consumers]
      BY <1>0, <2>2, <3>2
    <3>5. ASSUME NEW o \in Process
          PROVE  ConsumerAt(o, con[o])'
      <4>1. CASE o = q
        BY <1>0, <1>1, <1>2, <2>2, <3>2, <3>3, <4>1 DEF ConsumerAt
      <4>2. CASE o # q
        <5>1. con'[o] = con[o]
          BY <3>3, <4>2
        <5>2. o # Probe => pc'[o] = pc[o]
          BY <1>2, <4>2 DEF Process
        <5> QED BY <1>0, <1>1, <5>1, <5>2 DEF ConsumersOK, ConsumerAt
      <4> QED BY <4>1, <4>2
    <3> QED BY <3>4, <3>5 DEF ConsumersOK
  <2> QED BY <2>1, <2>2
<1> QED BY <1>1, <1>2, <1>3, <1>4, <1>5, CoreFrame DEF Consumers

\* A push is rejected, or its message is sent or lost.
LEMMA PushStep ==
  ASSUME WritesInv, NEW q \in Request, PushRejected(q) \/ SendMessage(q) \/ SendFails(q)
  PROVE  WritesInv'
<1>0. AskOK /\ gap \subseteq Ref /\ events \in Nat /\ q \in DOMAIN ask
  BY DEF WritesInv, TypeOK, AskOK, PushRejected, SendMessage, SendFails
<1>1. UNCHANGED core /\ events' \in Nat /\ gap' \subseteq Ref
  <2>1. ask[q].ref \in Ref
    BY <1>0, Asked
  <2> QED BY <1>0, <2>1, EventsStep DEF WritesInv, PushRejected, SendMessage, SendFails, core, requestVars
<1>2. CASE PushRejected(q)
  <2>1. pc' = [pc EXCEPT ![q] = "refused"] /\ con' = con /\ pc[q] = "start" /\ q \notin landed
    BY <1>0, <1>2 DEF PushRejected, AskOK
  <2> QED BY <1>0, <1>1, <2>1, WorkerMoves DEF Steps
<1>3. CASE SendMessage(q)
  <2>1. pc' = [pc EXCEPT ![q] = "sent"] /\ con' = [con EXCEPT ![q] = Queued(q, 1)] /\ q \in landed
    BY <1>0, <1>3 DEF SendMessage, AskOK
  <2> QED BY <1>0, <1>1, <2>1, WorkerMoves DEF Steps
<1>4. CASE SendFails(q)
  <2>1. pc' = [pc EXCEPT ![q] = "failed"] /\ con' = con /\ pc[q] = "send"
    BY <1>4 DEF SendFails
  <2> QED BY <1>0, <1>1, <2>1, WorkerMoves DEF Steps
<1> QED BY <1>2, <1>3, <1>4

\* An ingestion looks for its receipt, is refused or evicted.
LEMMA IngestStep ==
  ASSUME WritesInv, NEW q \in Request, IngestChecks(q) \/ IngestRefused(q) \/ IngestEvicted(q)
  PROVE  WritesInv'
<1>0. AskOK /\ gap \subseteq Ref /\ events \in Nat /\ q \in DOMAIN ask /\ ReceiptsOK
  BY DEF WritesInv, TypeOK, AskOK, IngestChecks, IngestRefused, IngestEvicted
<1>1. UNCHANGED core /\ events' \in Nat /\ gap' \subseteq Ref /\ con' = con
  BY <1>0, EventsStep
  DEF WritesInv, IngestChecks, IngestRefused, IngestEvicted, core, requestVars
<1>2. CASE IngestChecks(q)
  <2>1. PICK x \in {"checked", "replayed", "refused"} :
          pc' = [pc EXCEPT ![q] = x] /\ (x = "replayed" => Receipts(ask[q].key) = {Fingerprint(q)})
    BY <1>2 DEF IngestChecks
  <2>2. pc[q] = "start" /\ ask[q].kind = "ingest" /\ q \notin landed
    BY <1>0, <1>2 DEF IngestChecks, AskOK
  <2>3. ASSUME x = "replayed"
        PROVE  \E p \in landed : Fingerprint(p) = Fingerprint(q)
    <3>1. Fingerprint(q) \in Receipts(ask[q].key)
      BY <2>1, <2>3
    <3>2. PICK i \in DOMAIN receipts : receipts[i] = Fingerprint(q)
      BY <3>1 DEF Receipts
    <3> QED BY <1>0, <3>2 DEF ReceiptsOK
  <2> QED BY <1>0, <1>1, <2>1, <2>2, <2>3, WorkerMoves DEF Steps
<1>3. CASE IngestRefused(q)
  <2>1. pc' = [pc EXCEPT ![q] = "refused"] /\ pc[q] = "checked" /\ q \notin landed
    BY <1>0, <1>3 DEF IngestRefused, AskOK
  <2> QED BY <1>0, <1>1, <2>1, WorkerMoves DEF Steps
<1>4. CASE IngestEvicted(q)
  <2>1. pc' = [pc EXCEPT ![q] = "failed"] /\ pc[q] = "landed"
    BY <1>4 DEF IngestEvicted
  <2> QED BY <1>0, <1>1, <2>1, WorkerMoves DEF Steps
<1> QED BY <1>2, <1>3, <1>4


------------------------------------------------------------------------------
(* Projection, release, garbage collection, reset *)

\* The probe drops an entry of the journal.
LEMMA ProbeDropsStep ==
  ASSUME WritesInv, NEW e \in journal, ProbeDrops(e)
  PROVE  WritesInv'
<1>0. /\ ask' = ask /\ probe' = probe /\ refs' = refs /\ refsVersion' = refsVersion
      /\ head' = head /\ journal' \subseteq journal /\ value' = value /\ landed' = landed
      /\ rewound' = rewound /\ current' = current /\ pins' = pins /\ owned' = owned
      /\ pinVersion' = pinVersion /\ released' = released /\ receipts' = receipts
      /\ intent' = intent /\ gc' = gc /\ stored' = stored /\ pc' = pc /\ con' = con /\ gap' = gap
  BY DEF ProbeDrops, requestVars, snapshotVars
<1>1. TypeOK'
  <2>1. events' \in Nat
    BY EventsStep DEF WritesInv, ProbeDrops
  <2> QED BY <1>0, <2>1 DEF WritesInv, TypeOK
<1>2. AskOK' /\ AnswersTrue'
  BY <1>0 DEF WritesInv, AskOK, AnswersTrue, Fingerprint
<1>3. ConsumersOK'
  BY <1>0 DEF WritesInv, ConsumersOK, ConsumerAt
<1>4. ReceiptsOK' /\ ValuesOK' /\ JournalOK' /\ GcOK' /\ RootsStored'
  BY <1>0 DEF WritesInv, ReceiptsOK, Fingerprint, ValuesOK, JournalOK, GcOK, RootsStored
<1>5. PointersOK' /\ LandedOnce'
  BY <1>0 DEF WritesInv, PointersOK, Accepted, PlanSeq, LandedOnce
<1> QED BY <1>1, <1>2, <1>3, <1>4, <1>5 DEF WritesInv

\* A snapshot is released: a commit no ref holds.
LEMMA ReleaseStep ==
  ASSUME WritesInv, NEW c \in Commit, NEW legacy \in BOOLEAN, Release(c, legacy)
  PROVE  WritesInv'
<1>0. /\ ask' = ask /\ probe' = probe /\ refs' = refs /\ refsVersion' = refsVersion
      /\ head' = head /\ journal' = journal /\ value' = value /\ landed' = landed
      /\ rewound' = rewound /\ current' = current /\ owned' \subseteq owned
      /\ pinVersion' = pinVersion /\ receipts' = receipts
      /\ intent' = intent /\ gc' = gc /\ stored' = stored /\ pc' = pc /\ con' = con /\ gap' = gap
  BY DEF Release, ConsumerUnchanged, requestVars, refVars
<1>1. /\ pins \in [Commit -> Ref \cup {None}] /\ pins' = [pins EXCEPT ![c] = None]
      /\ released' \subseteq released \cup {c} /\ c \notin {refs[r] : r \in Ref}
      /\ refs \in [Ref -> Oid]
  BY DEF WritesInv, TypeOK, Release
<1>2. TypeOK'
  <2>1. events' \in Nat
    BY EventsStep DEF WritesInv, Release
  <2>2. pins' \in [Commit -> Ref \cup {None}]
    BY <1>1
  <2>3. released' \subseteq {k \in Commit : pins'[k] = None}
    BY <1>1 DEF WritesInv, TypeOK
  <2> QED BY <1>0, <2>1, <2>2, <2>3 DEF WritesInv, TypeOK
<1>3. AskOK' /\ AnswersTrue'
  BY <1>0 DEF WritesInv, AskOK, AnswersTrue, Fingerprint
<1>4. ConsumersOK'
  BY <1>0 DEF WritesInv, ConsumersOK, ConsumerAt
<1>5. ReceiptsOK' /\ ValuesOK' /\ JournalOK' /\ LandedOnce'
  BY <1>0 DEF WritesInv, ReceiptsOK, Fingerprint, ValuesOK, JournalOK, LandedOnce
<1>6. GcOK' /\ RootsStored'
  BY <1>0, <1>1 DEF WritesInv, GcOK, RootsStored
<1>7. PointersOK'
  BY <1>0, <1>1 DEF WritesInv, PointersOK, Accepted, PlanSeq, Oid
<1> QED BY <1>2, <1>3, <1>4, <1>5, <1>6, <1>7 DEF WritesInv

\* A collection begins, with every ref and pin as a root.
LEMMA GcBeginsStep ==
  ASSUME WritesInv, GcBegins
  PROVE  WritesInv'
<1>0. /\ ask' = ask /\ probe' = probe /\ refs' = refs /\ refsVersion' = refsVersion
      /\ head' = head /\ journal' = journal /\ value' = value /\ landed' = landed
      /\ rewound' = rewound /\ current' = current /\ pins' = pins /\ owned' = owned
      /\ pinVersion' = pinVersion /\ released' = released /\ receipts' = receipts
      /\ intent' = intent /\ stored' = stored /\ pc' = pc /\ con' = con /\ gap' = gap
      /\ gc' = [on |-> TRUE, roots |-> Roots, refsV |-> refsVersion, pinV |-> pinVersion]
  BY DEF GcBegins, requestVars, refVars, snapshotVars
<1>1. Roots \subseteq Commit /\ pinVersion \in Nat /\ refsVersion \in Nat /\ refs \in [Ref -> Oid]
  BY DEF WritesInv, TypeOK, Roots, Oid
<1>2. TypeOK'
  <2>1. events' \in Nat
    BY EventsStep DEF WritesInv, GcBegins
  <2>2. gc' \in [on : BOOLEAN, roots : SUBSET Commit, refsV : Nat, pinV : 0..pinVersion]
    BY <1>0, <1>1
  <2> QED BY <1>0, <2>1, <2>2 DEF WritesInv, TypeOK
<1>3. AskOK' /\ AnswersTrue'
  BY <1>0 DEF WritesInv, AskOK, AnswersTrue, Fingerprint
<1>4. ConsumersOK'
  BY <1>0 DEF WritesInv, ConsumersOK, ConsumerAt
<1>5. ReceiptsOK' /\ ValuesOK' /\ JournalOK' /\ RootsStored' /\ LandedOnce'
  BY <1>0 DEF WritesInv, ReceiptsOK, Fingerprint, ValuesOK, JournalOK, RootsStored, LandedOnce
<1>6. PointersOK'
  BY <1>0 DEF WritesInv, PointersOK, Accepted, PlanSeq
<1>7. GcOK'
  BY <1>0, <1>1 DEF GcOK, Roots
<1> QED BY <1>2, <1>3, <1>4, <1>5, <1>6, <1>7 DEF WritesInv

\* A collection is published or given up.
LEMMA GcPublishesStep ==
  ASSUME WritesInv, GcPublishes
  PROVE  WritesInv'
<1>0. /\ ask' = ask /\ probe' = probe /\ refs' = refs /\ refsVersion' = refsVersion
      /\ head' = head /\ journal' = journal /\ value' = value /\ landed' = landed
      /\ rewound' = rewound /\ current' = current /\ pins' = pins /\ owned' = owned
      /\ pinVersion' = pinVersion /\ released' = released /\ receipts' = receipts
      /\ intent' = intent /\ pc' = pc /\ con' = con /\ gap' = gap /\ events' = events
      /\ gc' = NoGc
  BY DEF GcPublishes, requestVars, refVars, snapshotVars
<1>1. \/ stored' = stored
      \/ stored' = stored \cap gc.roots /\ MayPublish
  BY DEF GcPublishes
<1>2. TypeOK'
  <2>1. gc' \in [on : BOOLEAN, roots : SUBSET Commit, refsV : Nat, pinV : 0..pinVersion]
    BY <1>0 DEF NoGc, WritesInv, TypeOK
  <2> QED BY <1>0, <1>1, <2>1 DEF WritesInv, TypeOK
<1>3. AskOK' /\ AnswersTrue'
  BY <1>0 DEF WritesInv, AskOK, AnswersTrue, Fingerprint
<1>4. ConsumersOK'
  BY <1>0, <1>1 DEF WritesInv, ConsumersOK, ConsumerAt, MayPublish
<1>5. ReceiptsOK' /\ ValuesOK' /\ JournalOK' /\ LandedOnce'
  BY <1>0 DEF WritesInv, ReceiptsOK, Fingerprint, ValuesOK, JournalOK, LandedOnce
<1>6. PointersOK'
  BY <1>0 DEF WritesInv, PointersOK, Accepted, PlanSeq
<1>7. GcOK'
  BY <1>0 DEF GcOK, NoGc
<1>8. RootsStored'
  BY <1>0, <1>1 DEF WritesInv, RootsStored, GcOK, GcPublishes, MayPublish
<1> QED BY <1>2, <1>3, <1>4, <1>5, <1>6, <1>7, <1>8 DEF WritesInv


\* What a reset leaves of the pointers and pins: a pointer is kept or gone, and
\* the pin of a commit that a ref holds is kept.
LEMMA ClearedPins ==
  ASSUME WritesInv
  PROVE  /\ Cleared.current \in [Ref -> Marks]
         /\ \A r \in Ref : Cleared.current[r] \in {NoMark, current[r]}
         /\ Cleared.pins \in [Commit -> Ref \cup {None}]
         /\ \A c \in Commit : Cleared.pins[c] \in {None, pins[c]}
         /\ \A r \in Ref : refs[r] \in Commit => Cleared.pins[refs[r]] = pins[refs[r]]
<1>0. /\ current \in [Ref -> Marks] /\ pins \in [Commit -> Ref \cup {None}] /\ refsVersion \in Nat
  BY Types DEF WritesInv, TypeOK
<1>1. NoMark \in Marks
  BY <1>0 DEF NoMark, Marks, Oid
<1> DEFINE mine == {c \in Commit : pins[c] \in QualRef \/ (pins[c] # None /\ c \in owned)}
           held == {refs[r] : r \in Ref}
           doomed == {r \in Ref : r \in QualRef \/ current[r].after \in mine \ held}
           kept == held \cup {current[r].after : r \in Ref \ doomed}
<1>2. /\ Cleared.current = [r \in Ref |-> IF r \in doomed THEN NoMark ELSE current[r]]
      /\ Cleared.pins = [c \in Commit |-> IF c \in mine \ kept THEN None ELSE pins[c]]
  BY DEF Cleared
<1>3. \A r \in Ref : refs[r] \in kept
  OBVIOUS
<1> HIDE DEF mine, doomed, kept
<1> QED BY <1>0, <1>1, <1>2, <1>3

\* A disposable repository is reset.
LEMMA ResetStep ==
  ASSUME WritesInv, Reset
  PROVE  WritesInv'
<1>0. /\ ask' = ask /\ probe' = probe /\ refs' = refs /\ refsVersion' = refsVersion
      /\ value' = value /\ landed' = landed /\ pinVersion' = pinVersion /\ released' = {}
      /\ owned' \subseteq owned
      /\ intent' = intent /\ gc' = gc /\ stored' = stored /\ pc' = pc /\ con' = con
      /\ journal' = {} /\ head' = [r \in Ref |-> NoMark] /\ receipts' = <<>>
      /\ rewound' = {} /\ gap' = Ref /\ ~gc.on
  BY DEF Reset, requestVars
<1>1. PICK C, P : /\ current' = C /\ pins' = P
                  /\ C \in [Ref -> Marks] /\ P \in [Commit -> Ref \cup {None}]
                  /\ \A r \in Ref : C[r] \in {NoMark, current[r]}
                  /\ \A c \in Commit : P[c] \in {None, pins[c]}
                  /\ \A r \in Ref : refs[r] \in Commit => P[refs[r]] = pins[refs[r]]
  BY ClearedPins DEF Reset
<1>2. refsVersion \in Nat /\ NoMark \in Marks /\ refs \in [Ref -> Oid] /\ current \in [Ref -> Marks]
      /\ head \in [Ref -> Marks]
  BY Types DEF WritesInv, TypeOK, NoMark, Marks, Oid
<1>3. TypeOK'
  <2>1. events' \in Nat
    BY EventsStep DEF WritesInv, Reset
  <2>2. head' \in [Ref -> Marks] /\ current' \in [Ref -> Marks] /\ released' \subseteq {c \in Commit : pins'[c] = None}
    BY <1>0, <1>1, <1>2 DEF WritesInv, TypeOK
  <2>3. Len(receipts') <= MaxReceipts /\ DOMAIN receipts' = {}
    BY <1>0, WritesAssumption
  <2> QED BY <1>0, <1>1, <2>1, <2>2, <2>3 DEF WritesInv, TypeOK, Marks
<1>4. AskOK' /\ AnswersTrue'
  BY <1>0 DEF WritesInv, AskOK, AnswersTrue, Fingerprint
<1>5. ConsumersOK'
  BY <1>0 DEF WritesInv, ConsumersOK, ConsumerAt
<1>6. ReceiptsOK' /\ JournalOK' /\ LandedOnce' /\ GcOK'
  BY <1>0 DEF WritesInv, ReceiptsOK, Fingerprint, JournalOK, LandedOnce, GcOK
<1>7. ValuesOK'
  <2>1. \A r \in Ref : head'[r].seq = 0
    BY <1>0 DEF NoMark
  <2>2. \A r \in Ref : current'[r].seq > 0 => current'[r] = current[r]
    BY <1>1 DEF NoMark
  <2> QED BY <1>0, <2>1, <2>2 DEF WritesInv, ValuesOK
<1>8. RootsStored'
  BY <1>0, <1>1 DEF WritesInv, RootsStored
<1>9. PointersOK'
  <2> SUFFICES ASSUME NEW r \in Ref, refs[r] # None, current'[r].after = refs[r],
                      current'[r].seq = refsVersion
               PROVE  pins'[refs[r]] # None
    BY <1>0 DEF PointersOK, Accepted, PlanSeq, NoMark
  <2>1. current[r].after = refs[r] /\ current[r].seq = refsVersion
    BY <1>1 DEF NoMark
  <2>2. r \notin rewound /\ PlanSeq(r) = refsVersion
    <3>1. head[r].seq \in 0..refsVersion
      BY <1>2 DEF Marks
    <3>2. ~(Accepted(r) /\ head[r].seq < refsVersion)
      BY <1>2, <2>1 DEF WritesInv, PointersOK
    <3>3. r \notin rewound
      BY <3>2 DEF WritesInv, PointersOK
    <3> QED BY <1>2, <3>1, <3>2, <3>3 DEF PlanSeq
  <2>3. pins[refs[r]] # None /\ refs[r] \in Commit
    BY <1>2, <2>1, <2>2 DEF WritesInv, PointersOK, Oid
  <2> QED BY <1>1, <2>3
<1> QED BY <1>3, <1>4, <1>5, <1>6, <1>7, <1>8, <1>9 DEF WritesInv

\* The plan of a consumer that still holds is not newer than the accepted head
\* of a ref that is what its last accepted write made it.
LEMMA HeldPlan ==
  ASSUME WritesInv, NEW p \in Process, con[p].st = "open", Holds(p), Accepted(con[p].ref)
  PROVE  con[p].seq <= head[con[p].ref].seq
<1>0. /\ con[p] \in Consumers /\ con[p].ref \in Ref /\ con[p].plan \in {"deliver", "head_only"}
      /\ head[con[p].ref].seq \in Nat
  BY Types DEF WritesInv, TypeOK, ConsumersOK, ConsumerAt, Marks
<1>1. CASE con[p].plan = "deliver"
  BY <1>0, <1>1 DEF Holds, WritesInv, JournalOK
<1>2. CASE con[p].plan = "head_only"
  <2>1. con[p].seq = Plan(con[p].ref).seq
    BY <1>2 DEF Holds
  <2>2. Plan(con[p].ref).seq = PlanSeq(con[p].ref)
    BY <1>0, PlanTrue
  <2> QED BY <1>0, <2>1, <2>2 DEF PlanSeq
<1> QED BY <1>0, <1>1, <1>2

\* A projection pins its commit and moves the pointer.
LEMMA ProjectStep ==
  ASSUME WritesInv, NEW p \in Process, Project(p)
  PROVE  WritesInv'
<1> DEFINE r == con[p].ref  c == con[p].after  s == con[p].seq
<1>0. /\ ask' = ask /\ probe' = probe /\ refs' = refs /\ refsVersion' = refsVersion
      /\ head' = head /\ journal' = journal /\ value' = value /\ landed' = landed
      /\ rewound' = rewound /\ receipts' = receipts /\ events' = events
      /\ intent' = intent /\ gc' = gc /\ stored' = stored /\ pc' = pc /\ gap' = gap
      /\ con' = [con EXCEPT ![p] = Idle] /\ con[p].st = "open" /\ Holds(p) /\ MayPin(p)
  BY DEF Project, ConsumerUnchanged, requestVars, refVars
<1>1. /\ con \in [Process -> Consumers] /\ r \in Ref /\ c \in Oid /\ s \in 0..refsVersion
      /\ value[s][r] = c /\ con[p].lease \in BOOLEAN /\ (con[p].lease => c \in stored)
  <2>1. con \in [Process -> Consumers] /\ con[p] \in Consumers
    BY Types DEF WritesInv
  <2> QED BY <1>0, <2>1 DEF WritesInv, ConsumersOK, ConsumerAt, Consumers
<1>2. /\ pins \in [Commit -> Ref \cup {None}] /\ pinVersion \in Nat /\ refsVersion \in Nat
      /\ released \subseteq {k \in Commit : pins[k] = None} /\ owned \subseteq Commit
      /\ current \in [Ref -> Marks]
      /\ gc.pinV \in 0..pinVersion /\ None \notin Ref /\ refs \in [Ref -> Oid] /\ head \in [Ref -> Marks]
  BY Types, WritesAssumption DEF WritesInv, TypeOK
<1>3. /\ pins' \in [Commit -> Ref \cup {None}] /\ pinVersion' \in Nat /\ pinVersion' >= pinVersion
      /\ released' \subseteq {k \in Commit : pins'[k] = None} /\ owned' \subseteq Commit
      /\ \A k \in Commit : pins'[k] = pins[k] \/ (k = c /\ pinVersion' = pinVersion + 1)
      /\ \A k \in Commit : pins[k] # None => pins'[k] # None
      /\ c # None => c \in Commit /\ pins'[c] # None
  <2>1. CASE c = None
    BY <1>2, <2>1 DEF Project
  <2>2. CASE c # None
    <3>1. c \in Commit /\ Retain(c, r, FALSE)
      BY <1>1, <2>2 DEF Project, Oid
    <3>2. CASE pins[c] = None
      BY <1>1, <1>2, <3>1, <3>2 DEF Retain
    <3>3. CASE pins[c] # None
      BY <1>1, <1>2, <3>1, <3>3 DEF Retain
    <3> QED BY <3>2, <3>3
  <2> QED BY <2>1, <2>2
<1>4. c # None => c \in stored
  BY <1>0, <1>1 DEF MayPin, Pinned, WritesInv, RootsStored
<1>5. /\ current' \in [Ref -> Marks]
      /\ \A o \in Ref : current'[o] = current[o] \/ (o = r /\ current'[o] = [after |-> c, seq |-> s])
  BY <1>1, <1>2 DEF Project, Advance, Marks
<1>6. con' \in [Process -> Consumers] /\ ConsumersOK'
  <2>1. Idle \in Consumers /\ ConsumerAt(p, Idle)
    BY IdleConsumer
  <2>2. con'[p] = Idle /\ \A o \in Process \ {p} : con'[o] = con[o]
    BY <1>0, <1>1
  <2>3. ASSUME NEW o \in Process
        PROVE  ConsumerAt(o, con[o])'
    BY <1>0, <2>1, <2>2 DEF ConsumerAt, WritesInv, ConsumersOK
  <2> QED BY <1>0, <1>1, <2>1, <2>3 DEF ConsumersOK
<1> HIDE DEF r, c, s
<1>7. TypeOK'
  <2>1. gc' \in [on : BOOLEAN, roots : SUBSET Commit, refsV : Nat, pinV : 0..pinVersion']
    BY <1>0, <1>2, <1>3 DEF WritesInv, TypeOK
  <2> QED BY <1>0, <1>3, <1>5, <1>6, <2>1 DEF WritesInv, TypeOK, Marks, Consumers
<1>8. AskOK' /\ AnswersTrue'
  BY <1>0 DEF WritesInv, AskOK, AnswersTrue, Fingerprint
<1>9. ReceiptsOK' /\ JournalOK' /\ LandedOnce'
  BY <1>0 DEF WritesInv, ReceiptsOK, Fingerprint, JournalOK, LandedOnce
<1>10. ValuesOK'
  BY <1>0, <1>1, <1>5 DEF WritesInv, ValuesOK
<1>11. GcOK'
  BY <1>0, <1>2, <1>3 DEF WritesInv, GcOK
<1>12. RootsStored'
  BY <1>0, <1>3, <1>4, WritesAssumption DEF WritesInv, RootsStored
<1>13. PointersOK'
  <2> SUFFICES ASSUME NEW o \in Ref
               PROVE  /\ o \in rewound => Accepted(o) /\ head[o].seq < refsVersion
                      /\ Accepted(o) /\ head[o].seq < refsVersion => current'[o].seq < refsVersion
                      /\ o \notin rewound /\ refs[o] # None /\ current'[o].after = refs[o]
                           /\ current'[o].seq = PlanSeq(o) => pins'[refs[o]] # None
    BY <1>0 DEF PointersOK, Accepted, PlanSeq
  <2>1. CASE current'[o] = current[o]
    BY <1>2, <1>3, <2>1 DEF WritesInv, PointersOK, Oid
  <2>2. CASE o = r /\ current'[o] = [after |-> c, seq |-> s]
    <3>1. Accepted(r) => s <= head[r].seq
      BY <1>0, HeldPlan DEF r, s
    <3>2. head[o].seq \in Nat
      BY <1>2 DEF Marks
    <3> QED BY <1>1, <1>2, <1>3, <2>2, <3>1, <3>2 DEF WritesInv, PointersOK
  <2> QED BY <1>5, <2>1, <2>2
<1> QED BY <1>6, <1>7, <1>8, <1>9, <1>10, <1>11, <1>12, <1>13 DEF WritesInv


------------------------------------------------------------------------------
(* Receipts *)

\* A sequence without its i-th element.
LEMMA Removed ==
  ASSUME NEW S, NEW s \in Seq(S), NEW i \in 1..Len(s)
  PROVE  /\ RemoveAt(s, i) \in Seq(S) /\ Len(RemoveAt(s, i)) = Len(s) - 1
         /\ \A j \in 1..(Len(s) - 1) : RemoveAt(s, i)[j] = IF j < i THEN s[j] ELSE s[j + 1]
<1> DEFINE a == SubSeq(s, 1, i - 1)  b == SubSeq(s, i + 1, Len(s))
<1>1. a \in Seq(S) /\ Len(a) = i - 1 /\ \A j \in 1..(i - 1) : a[j] = s[j]
  OBVIOUS
<1>2. b \in Seq(S) /\ Len(b) = Len(s) - i /\ \A j \in 1..(Len(s) - i) : b[j] = s[i + j]
  OBVIOUS
<1>3. RemoveAt(s, i) = a \o b
  BY DEF RemoveAt
<1> HIDE DEF a, b
<1>4. a \o b \in Seq(S) /\ Len(a \o b) = Len(s) - 1
  <2>1. Len(a \o b) = Len(a) + Len(b)
    BY <1>1, <1>2, ConcatProperties
  <2>2. Len(s) \in Nat
    OBVIOUS
  <2> QED BY <1>1, <1>2, <2>1, <2>2
<1>5. ASSUME NEW j \in 1..(Len(s) - 1)
      PROVE  (a \o b)[j] = IF j < i THEN s[j] ELSE s[j + 1]
  <2>0. Len(s) \in Nat /\ i \in Nat /\ j \in Nat /\ i <= Len(s) /\ 1 <= j /\ j <= Len(s) - 1
    OBVIOUS
  <2>1. (a \o b)[j] = IF j <= i - 1 THEN a[j] ELSE b[j - (i - 1)]
    <3>1. j \in 1..(Len(a) + Len(b))
      BY <1>1, <1>2, <2>0
    <3>2. (a \o b)[j] = IF j <= Len(a) THEN a[j] ELSE b[j - Len(a)]
      BY <1>1, <1>2, <3>1, ConcatProperties
    <3> QED BY <1>1, <3>2
  <2>2. CASE j < i
    <3>1. j \in 1..(i - 1) /\ j <= i - 1
      BY <2>0, <2>2
    <3> QED BY <1>1, <2>1, <2>2, <3>1
  <2>3. CASE ~(j < i)
    <3>1. /\ j - (i - 1) \in 1..(Len(s) - i) /\ i + (j - (i - 1)) = j + 1
          /\ ~(j <= i - 1)
      BY <2>0, <2>3
    <3>2. b[j - (i - 1)] = s[j + 1]
      BY <1>2, <3>1
    <3> QED BY <2>1, <2>3, <3>1, <3>2
  <2> QED BY <2>2, <2>3
<1> QED BY <1>3, <1>4, <1>5

\* A key is listed once in a sequence of receipts.
Distinct(s) == \A i, j \in DOMAIN s : s[i].key = s[j].key => i = j
Records == [key : Key, old : Oid, new : Oid]

\* Storing a receipt keeps the index within its limit and its keys distinct.
LEMMA StoredReceipts ==
  ASSUME receipts \in Seq(Records), Len(receipts) <= MaxReceipts, Distinct(receipts),
         NEW rec \in Records
  PROVE  /\ Stored(rec) \in Seq(Records) /\ Len(Stored(rec)) <= MaxReceipts
         /\ Distinct(Stored(rec))
         /\ \A j \in DOMAIN Stored(rec) :
              Stored(rec)[j] = rec \/ \E k \in DOMAIN receipts : Stored(rec)[j] = receipts[k]
<1> DEFINE old == {i \in DOMAIN receipts : receipts[i].key = rec.key}
           rest == IF old = {} THEN receipts ELSE RemoveAt(receipts, CHOOSE i \in old : TRUE)
           next == Append(rest, rec)
<1>0. MaxReceipts \in Nat \ {0}
  BY WritesAssumption
<1>1. Stored(rec) = IF Len(next) > MaxReceipts THEN Tail(next) ELSE next
  BY DEF Stored
<1>2. /\ rest \in Seq(Records) /\ Len(rest) <= MaxReceipts /\ Distinct(rest)
      /\ \A j \in DOMAIN rest : /\ rest[j].key # rec.key
                                /\ \E k \in DOMAIN receipts : rest[j] = receipts[k]
  <2>1. CASE old = {}
    BY <2>1
  <2>2. CASE old # {}
    <3>1. PICK i \in old : i = CHOOSE k \in old : TRUE
      BY <2>2
    <3>2. rest = RemoveAt(receipts, i) /\ i \in 1..Len(receipts) /\ receipts[i].key = rec.key
      BY <2>2, <3>1
    <3> HIDE DEF rest, old
    <3>3. /\ rest \in Seq(Records) /\ Len(rest) = Len(receipts) - 1
          /\ \A j \in 1..(Len(receipts) - 1) :
               rest[j] = IF j < i THEN receipts[j] ELSE receipts[j + 1]
      BY <3>2, Removed
    <3>4. ASSUME NEW j \in DOMAIN rest
          PROVE  \E k \in DOMAIN receipts : k # i /\ rest[j] = receipts[k] /\ k = IF j < i THEN j ELSE j + 1
      <4>1. j \in 1..(Len(receipts) - 1)
        BY <3>3
      <4> QED BY <3>2, <3>3, <4>1
    <3>5. Distinct(rest)
      <4> SUFFICES ASSUME NEW j \in DOMAIN rest, NEW k \in DOMAIN rest, rest[j].key = rest[k].key
                   PROVE  j = k
        BY DEF Distinct
      <4>1. j \in Int /\ k \in Int
        BY <3>3
      <4>2. PICK x \in DOMAIN receipts : rest[j] = receipts[x] /\ x = IF j < i THEN j ELSE j + 1
        BY <3>4
      <4>3. PICK y \in DOMAIN receipts : rest[k] = receipts[y] /\ y = IF k < i THEN k ELSE k + 1
        BY <3>4
      <4>4. x = y
        BY <4>2, <4>3 DEF Distinct
      <4> QED BY <3>2, <4>1, <4>2, <4>3, <4>4
    <3>6. \A j \in DOMAIN rest : rest[j].key # rec.key
      BY <3>2, <3>4 DEF Distinct
    <3> QED BY <1>0, <3>3, <3>4, <3>5, <3>6
  <2> QED BY <2>1, <2>2
<1> HIDE DEF rest
<1>3. /\ next \in Seq(Records) /\ Len(next) = Len(rest) + 1 /\ next[Len(rest) + 1] = rec
      /\ \A j \in 1..Len(rest) : next[j] = rest[j]
  BY <1>2
<1> HIDE DEF next
<1>4. Distinct(next)
  <2> SUFFICES ASSUME NEW i \in DOMAIN next, NEW j \in DOMAIN next, next[i].key = next[j].key
               PROVE  i = j
    BY DEF Distinct
  <2>1. i \in 1..(Len(rest) + 1) /\ j \in 1..(Len(rest) + 1) /\ DOMAIN rest = 1..Len(rest)
        /\ Len(rest) \in Nat
    BY <1>2, <1>3
  <2> QED BY <1>2, <1>3, <2>1 DEF Distinct
<1>5. \A j \in DOMAIN next : next[j] = rec \/ \E k \in DOMAIN receipts : next[j] = receipts[k]
  <2> TAKE j \in DOMAIN next
  <2>1. j \in 1..(Len(rest) + 1) /\ DOMAIN rest = 1..Len(rest) /\ Len(rest) \in Nat
    BY <1>2, <1>3
  <2> QED BY <1>2, <1>3, <2>1
<1>6. CASE Len(next) > MaxReceipts
  <2>1. Stored(rec) = Tail(next) /\ next # << >>
    BY <1>0, <1>1, <1>3, <1>6
  <2>2. /\ Tail(next) \in Seq(Records) /\ Len(Tail(next)) = Len(rest)
        /\ \A j \in 1..Len(rest) : Tail(next)[j] = next[j + 1]
    BY <1>2, <1>3, <2>1
  <2>3. Distinct(Tail(next))
    <3> SUFFICES ASSUME NEW i \in DOMAIN Tail(next), NEW j \in DOMAIN Tail(next),
                        Tail(next)[i].key = Tail(next)[j].key
                 PROVE  i = j
      BY DEF Distinct
    <3>1. i \in 1..Len(rest) /\ j \in 1..Len(rest) /\ Len(rest) \in Nat
      BY <1>2, <2>2
    <3>2. i + 1 \in DOMAIN next /\ j + 1 \in DOMAIN next
      BY <1>3, <3>1
    <3>3. i + 1 = j + 1
      BY <1>4, <2>2, <3>1, <3>2 DEF Distinct
    <3> QED BY <3>1, <3>3
  <2>4. \A j \in DOMAIN Tail(next) : \E k \in DOMAIN next : Tail(next)[j] = next[k]
    <3> TAKE j \in DOMAIN Tail(next)
    <3>1. j \in 1..Len(rest) /\ Len(rest) \in Nat
      BY <1>2, <2>2
    <3>2. j + 1 \in DOMAIN next
      BY <1>3, <3>1
    <3> QED BY <2>2, <3>1, <3>2
  <2> QED BY <1>2, <1>5, <2>1, <2>2, <2>3, <2>4
<1>7. CASE ~(Len(next) > MaxReceipts)
  <2>1. Stored(rec) = next /\ Len(next) <= MaxReceipts
    BY <1>0, <1>1, <1>2, <1>3, <1>7
  <2> QED BY <1>3, <1>4, <1>5, <2>1
<1> QED BY <1>6, <1>7

\* The finalization of an ingestion stores its receipt.
LEMMA IngestCompletesStep ==
  ASSUME WritesInv, NEW q \in Request, IngestCompletes(q)
  PROVE  WritesInv'
<1>0. /\ ask' = ask /\ probe' = probe /\ refs' = refs /\ refsVersion' = refsVersion
      /\ head' = head /\ journal' = journal /\ value' = value /\ landed' = landed
      /\ rewound' = rewound /\ current' = current /\ pins' = pins /\ owned' = owned /\ events' = events
      /\ pinVersion' = pinVersion /\ released' = released
      /\ gc' = gc /\ stored' = stored /\ con' = con /\ gap' = gap
      /\ intent = q /\ intent' = None /\ receipts' = Stored(Fingerprint(q))
  BY DEF IngestCompletes, requestVars, refVars, snapshotVars
<1>1. /\ pc \in [Request -> Steps] /\ q # None /\ q \in landed /\ ask[q].kind = "ingest" /\ AskOK
      /\ landed \subseteq Request
  BY <1>0, Types, WritesAssumption DEF WritesInv, AskOK, TypeOK
<1>2. q \in DOMAIN ask /\ Fingerprint(q) \in Records
  <2>1. pc[q] # "idle"
    BY <1>1 DEF AskOK
  <2>2. q \in DOMAIN ask
    BY <1>1, <2>1 DEF AskOK
  <2>3. ask[q].old \in Oid /\ ask[q].new \in Oid /\ ask[q].key \in Key
    BY <1>1, <2>2, Asked DEF Oid
  <2> QED BY <2>2, <2>3 DEF Fingerprint, Records
<1>3. PICK x \in Steps : /\ pc' = [pc EXCEPT ![q] = x]
                         /\ x = IF pc[q] = "landed" THEN "created" ELSE pc[q]
  <2>1. pc' = [pc EXCEPT ![q] = IF pc[q] = "landed" THEN "created" ELSE pc[q]]
    BY <1>1 DEF IngestCompletes
  <2>2. (IF pc[q] = "landed" THEN "created" ELSE pc[q]) \in Steps
    BY <1>1 DEF Steps
  <2> QED BY <2>1, <2>2
<1>4. pc' \in [Request -> Steps] /\ pc'[q] = x /\ \A o \in Request \ {q} : pc'[o] = pc[o]
  BY <1>1, <1>3
<1>5. PICK R : receipts' = R /\ R = Stored(Fingerprint(q))
  BY <1>0
<1>6. /\ R \in Seq(Records) /\ Len(R) <= MaxReceipts /\ Distinct(R)
      /\ \A j \in DOMAIN R : R[j] = Fingerprint(q) \/ \E k \in DOMAIN receipts : R[j] = receipts[k]
  <2>1. receipts \in Seq(Records) /\ Len(receipts) <= MaxReceipts /\ Distinct(receipts)
    BY DEF WritesInv, ReceiptsOK, TypeOK, Records, Distinct
  <2> QED BY <1>2, <1>5, <2>1, StoredReceipts
<1>7. TypeOK'
  BY <1>0, <1>4, <1>5, <1>6 DEF WritesInv, TypeOK, Steps, Distinct
<1>8. ReceiptsOK'
  <2>1. \A j \in DOMAIN R : \E p \in landed : R[j] = Fingerprint(p)
    BY <1>1, <1>6 DEF WritesInv, ReceiptsOK
  <2> QED BY <1>0, <1>5, <1>6, <2>1 DEF ReceiptsOK, Records, Fingerprint
<1>9. AskOK'
  <2>1. ASSUME NEW o \in Request
        PROVE  /\ pc'[o] # "idle" => o \in DOMAIN ask
               /\ pc'[o] \in {"checked", "landed"} => ask[o].kind = "ingest"
               /\ pc'[o] # "landed"
               /\ o \in landed => pc'[o] \in {"landed", "send", "sent", "created", "failed"}
               /\ pc'[o] \in {"send", "landed", "sent"} => o \in landed
    BY <1>0, <1>1, <1>2, <1>3, <1>4 DEF AskOK
  <2> QED BY <1>0, <1>1, <2>1 DEF AskOK
<1>10. AnswersTrue'
  <2> SUFFICES ASSUME NEW o \in Request, pc'[o] \in {"created", "replayed"}
               PROVE  \E p \in landed : Fingerprint(p) = Fingerprint(o)
    BY <1>0 DEF AnswersTrue, Fingerprint
  <2> QED BY <1>1, <1>3, <1>4 DEF WritesInv, AnswersTrue
<1>11. ConsumersOK'
  <2>1. \A o \in Request : pc[o] = "sent" => pc'[o] = "sent"
    BY <1>3, <1>4
  <2> QED BY <1>0, <2>1 DEF WritesInv, ConsumersOK, ConsumerAt, Process
<1>12. ValuesOK' /\ JournalOK' /\ LandedOnce' /\ GcOK' /\ RootsStored'
  BY <1>0 DEF WritesInv, ValuesOK, JournalOK, LandedOnce, GcOK, RootsStored
<1>13. PointersOK'
  BY <1>0 DEF WritesInv, PointersOK, Accepted, PlanSeq
<1> QED BY <1>7, <1>8, <1>9, <1>10, <1>11, <1>12, <1>13 DEF WritesInv


------------------------------------------------------------------------------
(* Changes of refs *)

\* The history of the refs grows by their new state.
LEMMA ValueGrows ==
  ASSUME TypeOK, ValuesOK, refs' \in [Ref -> Oid], refsVersion' = refsVersion + 1,
         value' = [w \in 0..refsVersion' |-> IF w = refsVersion' THEN refs' ELSE value[w]]
  PROVE  /\ value' \in [0..refsVersion' -> [Ref -> Oid]] /\ value'[refsVersion'] = refs'
         /\ \A w \in 0..refsVersion : value'[w] = value[w] /\ w \in 0..refsVersion' /\ w < refsVersion'
         /\ refsVersion \in Nat /\ refsVersion' \in Nat
<1>1. refsVersion \in Nat
  BY DEF TypeOK
<1>2. \A w \in 0..refsVersion : value'[w] = value[w] /\ w \in 0..refsVersion' /\ w < refsVersion'
  BY <1>1
<1>3. \A w \in 0..refsVersion' : value'[w] = refs' \/ w \in 0..refsVersion
  BY <1>1
<1> QED BY <1>1, <1>2, <1>3 DEF ValuesOK

\* What a history that grows keeps true.
LEMMA HistoryKept ==
  ASSUME WritesInv, ask' = ask, landed' = landed, con' = con, pc' = pc, stored' = stored,
         refs' \in [Ref -> Oid], refsVersion' = refsVersion + 1,
         value' = [w \in 0..refsVersion' |-> IF w = refsVersion' THEN refs' ELSE value[w]]
  PROVE  ConsumersOK' /\ LandedOnce'
<1>1. /\ \A w \in 0..refsVersion : value'[w] = value[w] /\ w \in 0..refsVersion'
      /\ DOMAIN value = 0..refsVersion /\ DOMAIN value' = 0..refsVersion'
  BY ValueGrows DEF WritesInv, TypeOK
<1>2. ConsumersOK'
  <2> SUFFICES ASSUME NEW o \in Process
               PROVE  ConsumerAt(o, con[o])'
    BY DEF ConsumersOK
  <2>1. con[o].seq \in 0..refsVersion
    BY Types DEF WritesInv, Consumers
  <2> QED BY <1>1, <2>1 DEF WritesInv, ConsumersOK, ConsumerAt
<1>3. LandedOnce'
  <2> SUFFICES ASSUME NEW p \in landed, NEW q \in landed, p # q, ask[p] = ask[q], ask[q].old # ask[q].new
               PROVE  \E u, v, x \in DOMAIN value' :
                        /\ u < v /\ v < x
                        /\ value'[u][ask[q].ref] = ask[q].new /\ value'[x][ask[q].ref] = ask[q].new
                        /\ value'[v][ask[q].ref] = ask[q].old
    BY DEF LandedOnce
  <2>1. PICK u, v, x \in DOMAIN value :
          /\ u < v /\ v < x
          /\ value[u][ask[q].ref] = ask[q].new /\ value[x][ask[q].ref] = ask[q].new
          /\ value[v][ask[q].ref] = ask[q].old
    BY DEF WritesInv, LandedOnce
  <2>2. u \in DOMAIN value' /\ v \in DOMAIN value' /\ x \in DOMAIN value'
        /\ value'[u] = value[u] /\ value'[v] = value[v] /\ value'[x] = value[x]
    BY <1>1
  <2> QED BY <2>1, <2>2
<1> QED BY <1>2, <1>3

\* A pointer is older than the new state of the refs, so a ref whose state is
\* not that of its last accepted write is not up to date.
LEMMA PointersLag ==
  ASSUME WritesInv, NEW S \in SUBSET Ref, refsVersion' = refsVersion + 1,
         \A o \in Ref \ S : /\ refs'[o] = refs[o] /\ head'[o] = head[o] /\ current'[o] = current[o]
                            /\ o \in rewound' <=> o \in rewound
                            /\ refs[o] # None /\ pins[refs[o]] # None => pins'[refs[o]] # None
  PROVE  \A o \in Ref \ S :
           /\ o \in rewound' => Accepted(o)' /\ head'[o].seq < refsVersion'
           /\ Accepted(o)' /\ head'[o].seq < refsVersion' => current'[o].seq < refsVersion'
           /\ o \notin rewound' /\ refs'[o] # None /\ current'[o].after = refs'[o]
                /\ current'[o].seq = PlanSeq(o)' => pins'[refs'[o]] # None
<1> TAKE o \in Ref \ S
<1>0. refsVersion \in Nat /\ current[o].seq \in 0..refsVersion /\ head[o].seq \in 0..refsVersion
  BY Types DEF WritesInv, TypeOK, Marks
<1>1. Accepted(o)' <=> Accepted(o)
  BY DEF Accepted
<1>2. PlanSeq(o)' = IF Accepted(o) THEN head[o].seq ELSE refsVersion + 1
  BY <1>1 DEF PlanSeq
<1>3. current[o].seq < refsVersion' /\ head[o].seq < refsVersion'
  BY <1>0
<1>4. o \in rewound' => Accepted(o)' /\ head'[o].seq < refsVersion'
  BY <1>1, <1>3 DEF WritesInv, PointersOK
<1>5. ASSUME o \notin rewound', refs'[o] # None, current'[o].after = refs'[o],
             current'[o].seq = PlanSeq(o)'
      PROVE  pins'[refs'[o]] # None
  <2>1. Accepted(o) /\ current[o].seq = PlanSeq(o)
    BY <1>0, <1>2, <1>3, <1>5 DEF PlanSeq
  <2> QED BY <1>5, <2>1 DEF WritesInv, PointersOK
<1> QED BY <1>3, <1>4, <1>5

\* An administrator sets a ref.
LEMMA SetRefsStep ==
  ASSUME WritesInv, NEW r \in Ref, NEW c \in stored \cup {None}, SetRefs(r, c)
  PROVE  WritesInv'
<1>0. /\ ask' = ask /\ probe' = probe /\ head' = head /\ journal' = journal /\ landed' = landed
      /\ current' = current /\ pins' = pins /\ owned' = owned /\ pinVersion' = pinVersion
      /\ released' = released /\ receipts' = receipts /\ intent' = intent /\ gc' = gc /\ stored' = stored
      /\ pc' = pc /\ con' = con /\ ~gc.on
      /\ refs' = [refs EXCEPT ![r] = c] /\ refsVersion' = refsVersion + 1
      /\ value' = [w \in 0..refsVersion' |-> IF w = refsVersion' THEN refs' ELSE value[w]]
      /\ gap' = gap \cup {r}
      /\ rewound' = IF head[r].seq > 0 /\ head[r].after = c THEN rewound \cup {r} ELSE rewound \ {r}
  BY DEF SetRefs, requestVars, snapshotVars
<1>1. /\ refs \in [Ref -> Oid] /\ c \in Oid /\ refs' \in [Ref -> Oid]
      /\ head \in [Ref -> Marks] /\ current \in [Ref -> Marks]
      /\ refs'[r] = c /\ \A o \in Ref \ {r} : refs'[o] = refs[o]
  BY <1>0, Types DEF WritesInv, TypeOK, Oid
<1>2. /\ value' \in [0..refsVersion' -> [Ref -> Oid]] /\ value'[refsVersion'] = refs'
      /\ \A w \in 0..refsVersion : value'[w] = value[w] /\ w \in 0..refsVersion' /\ w < refsVersion'
      /\ refsVersion \in Nat /\ refsVersion' \in Nat
  BY <1>0, <1>1, ValueGrows DEF WritesInv
<1>3. TypeOK'
  <2>1. events' \in Nat
    BY EventsStep DEF WritesInv, SetRefs
  <2>2. head' \in [Ref -> [after : Oid, seq : 0..refsVersion']]
        /\ current' \in [Ref -> [after : Oid, seq : 0..refsVersion']]
    BY <1>0, <1>1, <1>2 DEF Marks
  <2>3. journal' \subseteq [ref : Ref, after : Oid, seq : 1..refsVersion']
    BY <1>0, <1>2 DEF WritesInv, TypeOK
  <2>4. con' \in [Process -> [st : {"none", "queued", "planned", "open"},
                          plan : {"none", "deliver", "head_only"}, ref : Ref \cup {None},
                          after : Oid, seq : 0..refsVersion', attempts : 0..MaxDeliveries,
                          lease : BOOLEAN]]
    BY <1>0, <1>2 DEF WritesInv, TypeOK
  <2>5. gap' \subseteq Ref /\ rewound' \subseteq Ref
    BY <1>0 DEF WritesInv, TypeOK
  <2> QED BY <1>0, <1>1, <1>2, <2>1, <2>2, <2>3, <2>4, <2>5 DEF WritesInv, TypeOK
<1>4. AskOK' /\ AnswersTrue'
  BY <1>0 DEF WritesInv, AskOK, AnswersTrue, Fingerprint
<1>5. ConsumersOK' /\ LandedOnce'
  BY <1>0, <1>1, HistoryKept
<1>6. ReceiptsOK' /\ JournalOK' /\ GcOK'
  BY <1>0 DEF WritesInv, ReceiptsOK, Fingerprint, JournalOK, GcOK
<1>7. ValuesOK'
  <2>1. \A o \in Ref : head[o].seq \in 0..refsVersion /\ current[o].seq \in 0..refsVersion
    BY <1>1 DEF Marks
  <2>2. \A e \in journal : e.seq \in 0..refsVersion
    BY <1>2 DEF WritesInv, TypeOK
  <2> QED BY <1>0, <1>2, <2>1, <2>2 DEF WritesInv, ValuesOK
<1>8. RootsStored'
  BY <1>0, <1>1 DEF WritesInv, RootsStored
<1>9. PointersOK'
  <2>1. /\ r \in rewound' => Accepted(r)' /\ head'[r].seq < refsVersion'
        /\ Accepted(r)' /\ head'[r].seq < refsVersion' => current'[r].seq < refsVersion'
        /\ r \notin rewound' => PlanSeq(r)' = refsVersion'
        /\ current'[r].seq < refsVersion'
    <3>1. r \in rewound' <=> Accepted(r)'
      BY <1>0, <1>1 DEF Accepted
    <3>2. current'[r].seq < refsVersion' /\ head'[r].seq < refsVersion'
      BY <1>0, <1>1, <1>2 DEF Marks
    <3> QED BY <3>1, <3>2 DEF PlanSeq
  <2>2. \A o \in Ref \ {r} : o \in rewound' <=> o \in rewound
    BY <1>0
  <2>3. \A o \in Ref \ {r} :
           /\ o \in rewound' => Accepted(o)' /\ head'[o].seq < refsVersion'
           /\ Accepted(o)' /\ head'[o].seq < refsVersion' => current'[o].seq < refsVersion'
           /\ o \notin rewound' /\ refs'[o] # None /\ current'[o].after = refs'[o]
                /\ current'[o].seq = PlanSeq(o)' => pins'[refs'[o]] # None
    <3>1. {r} \in SUBSET Ref
      OBVIOUS
    <3>2. \A o \in Ref \ {r} :
            /\ refs'[o] = refs[o] /\ head'[o] = head[o] /\ current'[o] = current[o]
            /\ o \in rewound' <=> o \in rewound
            /\ refs[o] # None /\ pins[refs[o]] # None => pins'[refs[o]] # None
      BY <1>0, <1>1, <2>2
    <3> QED BY <1>0, <3>1, <3>2, PointersLag
  <2> QED BY <1>2, <2>1, <2>3 DEF PointersOK
<1> QED BY <1>3, <1>4, <1>5, <1>6, <1>7, <1>8, <1>9 DEF WritesInv


\* A write of c to r is accepted: a push, or an ingestion with its pin.
LEMMA WriteLands ==
  ASSUME WritesInv, NEW q \in Request, PushLands(q) \/ IngestLands(q),
         NEW r, r = ask[q].ref, NEW c, c = ask[q].new, NEW v, v = refsVersion + 1
  PROVE  WritesInv'
<1>0. /\ ask' = ask /\ probe' = probe /\ receipts' = receipts /\ con' = con /\ events' = events
      /\ intent = None /\ refs[r] = ask[q].old /\ CommitRef(q, r, c) /\ Account(c)
  BY DEF PushLands, IngestLands, Expected, requestVars
<1>1. /\ pc \in [Request -> Steps] /\ con \in [Process -> Consumers] /\ refs \in [Ref -> Oid]
      /\ head \in [Ref -> Marks] /\ current \in [Ref -> Marks] /\ refsVersion \in Nat
      /\ pins \in [Commit -> Ref \cup {None}] /\ pinVersion \in Nat /\ stored \subseteq Commit
      /\ released \subseteq {k \in Commit : pins[k] = None} /\ owned \subseteq Commit
      /\ gc \in [on : BOOLEAN, roots : SUBSET Commit, refsV : Nat, pinV : 0..pinVersion]
      /\ AskOK /\ landed \subseteq Request /\ None \notin Ref /\ None \notin Commit
  BY Types, WritesAssumption DEF WritesInv, TypeOK
<1>2. /\ pc[q] \in {"start", "checked"} /\ q \in DOMAIN ask /\ q \notin landed
      /\ r \in Ref /\ c \in Oid
  <2>1. pc[q] \in {"start", "checked"}
    BY DEF PushLands, IngestLands
  <2>2. q \in DOMAIN ask /\ q \notin landed
    BY <1>1, <2>1 DEF AskOK
  <2> QED BY <1>1, <2>1, <2>2, Asked
<1>3. /\ refs' = [refs EXCEPT ![r] = c] /\ refsVersion' = v
      /\ head' = [head EXCEPT ![r] = [after |-> c, seq |-> v]]
      /\ journal' \subseteq journal \cup {[ref |-> r, after |-> c, seq |-> v]}
      /\ journal' # journal => probe
      /\ stored' = stored \cup ({c} \ {None})
      /\ value' = [w \in 0..refsVersion' |-> IF w = refsVersion' THEN refs' ELSE value[w]]
      /\ landed' = landed \cup {q} /\ rewound' = rewound \ {r}
  BY <1>0 DEF CommitRef
<1>4. \/ /\ PushLands(q)
         /\ current' = current /\ pins' = pins /\ pinVersion' = pinVersion /\ released' = released
         /\ owned' = owned /\ intent' = None /\ pc' = [pc EXCEPT ![q] = "send"]
      \/ /\ IngestLands(q) /\ c \in Commit /\ ask[q].kind = "ingest"
         /\ Retain(c, r, Qualification)
         /\ current' = current \/ current' = [current EXCEPT ![r] = [after |-> c, seq |-> v]]
         /\ intent' = q /\ pc' = [pc EXCEPT ![q] = "landed"]
  <2>1. CASE PushLands(q)
    BY <1>0, <2>1 DEF PushLands
  <2>2. CASE IngestLands(q)
    <3>1. ask[q].kind = "ingest" /\ c \in Commit
      BY <1>1, <1>2, <2>2, Asked DEF IngestLands, AskOK
    <3>2. current' = current \/ current' = [current EXCEPT ![r] = [after |-> c, seq |-> v]]
      BY <2>2 DEF IngestLands, Advance
    <3> QED BY <2>2, <3>1, <3>2 DEF IngestLands
  <2> QED BY <2>1, <2>2
<1>5. /\ refs' \in [Ref -> Oid] /\ refs'[r] = c /\ \A o \in Ref \ {r} : refs'[o] = refs[o]
      /\ head'[r] = [after |-> c, seq |-> v] /\ \A o \in Ref \ {r} : head'[o] = head[o]
      /\ v \in Nat /\ v = refsVersion + 1 /\ head' \in [Ref -> [after : Oid, seq : 0..refsVersion']]
  <2>1. v = refsVersion + 1 /\ v \in Nat
    BY <1>1
  <2> QED BY <1>1, <1>2, <1>3, <2>1 DEF Marks
<1>6. /\ value' \in [0..refsVersion' -> [Ref -> Oid]] /\ value'[refsVersion'] = refs'
      /\ \A w \in 0..refsVersion : value'[w] = value[w] /\ w \in 0..refsVersion' /\ w < refsVersion'
      /\ refsVersion' \in Nat /\ DOMAIN value = 0..refsVersion
  BY <1>3, <1>5, ValueGrows DEF WritesInv, TypeOK
<1>7. /\ pins' \in [Commit -> Ref \cup {None}] /\ pinVersion' \in Nat /\ pinVersion' >= pinVersion
      /\ released' \subseteq {k \in Commit : pins'[k] = None} /\ owned' \subseteq Commit
      /\ \A k \in Commit : pins'[k] = pins[k] \/ k = c
      /\ pinVersion' \in {pinVersion, pinVersion + 1}
      /\ \A k \in Commit : pins[k] # None => pins'[k] # None
      /\ IngestLands(q) /\ c \in Commit => pins'[c] # None
  <2>1. CASE /\ pins' = pins /\ pinVersion' = pinVersion /\ released' = released /\ owned' = owned
             /\ ~IngestLands(q)
    BY <1>1, <2>1
  <2>2. CASE c \in Commit /\ Retain(c, r, Qualification)
    <3>1. CASE pins[c] = None
      BY <1>1, <1>2, <2>2, <3>1 DEF Retain
    <3>2. CASE pins[c] # None
      BY <1>1, <1>2, <2>2, <3>2 DEF Retain
    <3> QED BY <3>1, <3>2
  <2>3. PushLands(q) => ~IngestLands(q)
    BY DEF PushLands, IngestLands
  <2> QED BY <1>4, <2>1, <2>2, <2>3
<1>8. /\ current' \in [Ref -> [after : Oid, seq : 0..refsVersion']]
      /\ \A o \in Ref : \/ current'[o] = current[o]
                        \/ o = r /\ current'[o] = [after |-> c, seq |-> v] /\ c # None /\ pins'[c] # None
  <2>1. CASE current' = current
    BY <1>1, <1>3, <1>5, <2>1 DEF Marks
  <2>2. CASE /\ current' = [current EXCEPT ![r] = [after |-> c, seq |-> v]]
             /\ IngestLands(q) /\ c \in Commit
    BY <1>1, <1>2, <1>3, <1>5, <1>7, <2>2 DEF Marks
  <2> QED BY <1>4, <2>1, <2>2
<1>9. PICK x \in {"send", "landed"} :
        /\ pc' = [pc EXCEPT ![q] = x]
        /\ x = "send" => intent' = None
        /\ x = "landed" => intent' = q /\ ask[q].kind = "ingest"
  BY <1>4
<1>10. pc' \in [Request -> Steps] /\ pc'[q] = x /\ \A o \in Request \ {q} : pc'[o] = pc[o]
  BY <1>1, <1>9 DEF Steps
<1>11. /\ gc' \in [on : BOOLEAN, roots : SUBSET Commit, refsV : Nat, pinV : 0..pinVersion']
       /\ gc'.on => /\ gc.on /\ gc'.refsV = refsVersion' /\ gc'.roots = gc.roots \cup ({c} \ {None})
                    /\ gc'.pinV = pinVersion' => gc.pinV = pinVersion
  <2>1. CASE ~gc.on
    <3>1. gc' = gc
      BY <1>0, <2>1 DEF Account
    <3>2. gc.pinV \in 0..pinVersion'
      BY <1>1, <1>7
    <3> QED BY <1>1, <2>1, <3>1, <3>2
  <2>2. CASE gc.on
    <3>1. gc' = [gc EXCEPT !.refsV = refsVersion', !.roots = @ \cup ({c} \ {None}),
                           !.pinV = IF @ = pinVersion THEN pinVersion' ELSE @]
      BY <1>0, <2>2 DEF Account
    <3> DEFINE n == IF gc.pinV = pinVersion THEN pinVersion' ELSE gc.pinV
               R == gc.roots \cup ({c} \ {None})
    <3>2. n \in 0..pinVersion' /\ (n = pinVersion' => gc.pinV = pinVersion)
      BY <1>1, <1>7
    <3>3. R \subseteq Commit
      BY <1>1, <1>2 DEF Oid
    <3>4. gc' = [gc EXCEPT !.refsV = refsVersion', !.roots = R, !.pinV = n]
      BY <3>1
    <3> HIDE DEF n, R
    <3>5. /\ gc' \in [on : BOOLEAN, roots : SUBSET Commit, refsV : Nat, pinV : 0..pinVersion']
          /\ gc'.refsV = refsVersion' /\ gc'.roots = R /\ gc'.pinV = n
      BY <1>1, <1>6, <3>2, <3>3, <3>4
    <3> QED BY <2>2, <3>2, <3>5 DEF R
  <2> QED BY <2>1, <2>2
<1>12. TypeOK'
  <2>1. journal' \subseteq [ref : Ref, after : Oid, seq : 1..refsVersion']
    <3>1. journal \subseteq [ref : Ref, after : Oid, seq : 1..refsVersion']
      BY <1>1, <1>3, <1>5 DEF WritesInv, TypeOK
    <3>2. [ref |-> r, after |-> c, seq |-> v] \in [ref : Ref, after : Oid, seq : 1..refsVersion']
      BY <1>1, <1>2, <1>3, <1>5
    <3> QED BY <1>3, <3>1, <3>2
  <2>2. con' \in [Process -> [st : {"none", "queued", "planned", "open"},
                          plan : {"none", "deliver", "head_only"}, ref : Ref \cup {None},
                          after : Oid, seq : 0..refsVersion', attempts : 0..MaxDeliveries,
                          lease : BOOLEAN]]
    BY <1>0, <1>6 DEF WritesInv, TypeOK
  <2>3. gap' \subseteq Ref /\ rewound' \subseteq Ref /\ intent' \in Request \cup {None}
    BY <1>2, <1>3, <1>9 DEF WritesInv, TypeOK, PushLands, IngestLands
  <2>4. stored' \subseteq Commit /\ landed' \subseteq Request
    BY <1>1, <1>2, <1>3 DEF Oid
  <2> QED BY <1>0, <1>5, <1>6, <1>7, <1>8, <1>10, <1>11, <2>1, <2>2, <2>3, <2>4 DEF WritesInv, TypeOK, Steps
<1>13. AskOK'
  <2>1. ASSUME NEW o \in Request
        PROVE  /\ pc'[o] # "idle" => o \in DOMAIN ask
               /\ pc'[o] \in {"checked", "landed"} => ask[o].kind = "ingest"
               /\ pc'[o] = "landed" => intent' = o
               /\ o \in landed' => pc'[o] \in {"landed", "send", "sent", "created", "failed"}
               /\ pc'[o] \in {"send", "landed", "sent"} => o \in landed'
    <3>1. CASE o = q
      BY <1>2, <1>3, <1>9, <1>10, <3>1
    <3>2. CASE o # q
      <4>1. pc'[o] = pc[o] /\ (o \in landed' <=> o \in landed) /\ pc[o] # "landed"
        BY <1>0, <1>1, <1>3, <1>10, <3>2, WritesAssumption DEF AskOK
      <4> QED BY <1>1, <4>1 DEF AskOK
    <3> QED BY <3>1, <3>2
  <2>2. intent' # None => intent' \in landed' /\ ask[intent'].kind = "ingest"
    BY <1>3, <1>9
  <2> QED BY <1>0, <1>1, <2>1, <2>2 DEF AskOK
<1>14. AnswersTrue' /\ ReceiptsOK'
  <2>1. ASSUME NEW o \in Request, pc'[o] \in {"created", "replayed"}
        PROVE  \E p \in landed' : Fingerprint(p) = Fingerprint(o)
    BY <1>3, <1>9, <1>10, <2>1 DEF WritesInv, AnswersTrue
  <2>2. \A i \in DOMAIN receipts : \E p \in landed' : receipts[i] = Fingerprint(p)
    BY <1>3 DEF WritesInv, ReceiptsOK
  <2> QED BY <1>0, <2>1, <2>2 DEF WritesInv, AnswersTrue, ReceiptsOK, Fingerprint
<1>15. ConsumersOK'
  <2> SUFFICES ASSUME NEW o \in Process
               PROVE  ConsumerAt(o, con[o])'
    BY DEF ConsumersOK
  <2>1. con[o].seq \in 0..refsVersion
    BY <1>1 DEF Consumers
  <2>2. o # Probe /\ pc[o] = "sent" => pc'[o] = "sent"
    BY <1>2, <1>10 DEF Process
  <2>3. ConsumerAt(o, con[o])
    BY DEF WritesInv, ConsumersOK
  <2>4. value'[con[o].seq] = value[con[o].seq] /\ stored \subseteq stored'
    BY <1>3, <1>6, <2>1
  <2> QED BY <1>0, <2>2, <2>3, <2>4 DEF ConsumerAt
<1>16. ValuesOK'
  <2>1. ASSUME NEW o \in Ref, head'[o].seq > 0
        PROVE  value'[head'[o].seq][o] = head'[o].after
    <3>1. head[o].seq \in 0..refsVersion
      BY <1>1 DEF Marks
    <3>2. CASE o = r
      BY <1>3, <1>5, <1>6, <3>2
    <3>3. CASE o # r
      BY <1>5, <1>6, <2>1, <3>1, <3>3 DEF WritesInv, ValuesOK
    <3> QED BY <3>2, <3>3
  <2>2. ASSUME NEW o \in Ref, current'[o].seq > 0
        PROVE  value'[current'[o].seq][o] = current'[o].after
    <3>1. current[o].seq \in 0..refsVersion
      BY <1>1 DEF Marks
    <3>2. CASE current'[o] = current[o]
      BY <1>6, <2>2, <3>1, <3>2 DEF WritesInv, ValuesOK
    <3>3. CASE o = r /\ current'[o] = [after |-> c, seq |-> v]
      BY <1>3, <1>5, <1>6, <3>3
    <3> QED BY <1>8, <3>2, <3>3
  <2>3. ASSUME NEW e \in journal'
        PROVE  value'[e.seq][e.ref] = e.after
    <3>1. CASE e \in journal
      <4>1. e.seq \in 0..refsVersion
        BY <1>1, <3>1 DEF WritesInv, TypeOK
      <4> QED BY <1>6, <3>1, <4>1 DEF WritesInv, ValuesOK
    <3>2. CASE e = [ref |-> r, after |-> c, seq |-> v]
      BY <1>3, <1>5, <1>6, <3>2
    <3> QED BY <1>3, <3>1, <3>2
  <2>4. ASSUME NEW o \in landed'
        PROVE  \E w \in 0..refsVersion' : value'[w][ask[o].ref] = ask[o].new
    <3>1. CASE o = q
      BY <1>5, <1>6, <3>1
    <3>2. CASE o \in landed
      BY <1>6, <3>2 DEF WritesInv, ValuesOK
    <3> QED BY <1>3, <3>1, <3>2
  <2> QED BY <1>0, <1>6, <2>1, <2>2, <2>3, <2>4 DEF ValuesOK
<1>17. JournalOK'
  <2>1. journal' # {} => probe
    BY <1>3 DEF WritesInv, JournalOK
  <2>2. ASSUME NEW e \in journal'
        PROVE  e.seq <= head'[e.ref].seq
    <3>1. CASE e \in journal
      <4>1. e.seq \in 1..refsVersion /\ e.ref \in Ref /\ e.seq <= head[e.ref].seq
        BY <3>1 DEF WritesInv, TypeOK, JournalOK
      <4> QED BY <1>1, <1>5, <4>1
    <3>2. CASE e = [ref |-> r, after |-> c, seq |-> v]
      BY <1>5, <3>2
    <3> QED BY <1>3, <3>1, <3>2
  <2> QED BY <1>0, <2>1, <2>2 DEF JournalOK
<1>18. GcOK'
  <2> SUFFICES ASSUME gc'.on
               PROVE  /\ gc'.refsV = refsVersion'
                      /\ \A o \in Ref : refs'[o] \in gc'.roots \cup {None}
                      /\ gc'.pinV = pinVersion' => \A k \in Commit : pins'[k] # None => k \in gc'.roots
    BY DEF GcOK
  <2>1. /\ gc.on /\ gc'.refsV = refsVersion' /\ gc'.roots = gc.roots \cup ({c} \ {None})
        /\ gc'.pinV = pinVersion' => gc.pinV = pinVersion
    BY <1>11
  <2>2. /\ \A o \in Ref : refs[o] \in gc.roots \cup {None}
        /\ gc.pinV = pinVersion => \A k \in Commit : pins[k] # None => k \in gc.roots
    BY <2>1 DEF WritesInv, GcOK
  <2>3. \A o \in Ref : refs'[o] \in gc'.roots \cup {None}
    BY <1>5, <2>1, <2>2
  <2>4. gc'.pinV = pinVersion' => \A k \in Commit : pins'[k] # None => k \in gc'.roots
    BY <1>1, <1>7, <2>1, <2>2
  <2> QED BY <2>1, <2>3, <2>4
<1>19. RootsStored'
  BY <1>1, <1>3, <1>5, <1>7 DEF WritesInv, RootsStored
<1>20. PointersOK'
  <2>1. r \notin rewound' /\ ~(head'[r].seq < refsVersion')
    BY <1>3, <1>5
  <2>2. ASSUME refs'[r] # None, current'[r].after = refs'[r], current'[r].seq = PlanSeq(r)'
        PROVE  pins'[refs'[r]] # None
    <3>1. PlanSeq(r)' = v
      BY <1>3, <1>5 DEF PlanSeq, Accepted
    <3>2. current[r].seq \in 0..refsVersion
      BY <1>1, <1>2 DEF Marks
    <3>3. current'[r] # current[r]
      BY <1>1, <1>5, <2>2, <3>1, <3>2
    <3>4. pins'[c] # None
      BY <1>2, <1>8, <3>3
    <3> QED BY <1>5, <3>4
  <2>3. \A o \in Ref \ {r} :
           /\ o \in rewound' => Accepted(o)' /\ head'[o].seq < refsVersion'
           /\ Accepted(o)' /\ head'[o].seq < refsVersion' => current'[o].seq < refsVersion'
           /\ o \notin rewound' /\ refs'[o] # None /\ current'[o].after = refs'[o]
                /\ current'[o].seq = PlanSeq(o)' => pins'[refs'[o]] # None
    <3>1. {r} \in SUBSET Ref /\ refsVersion' = refsVersion + 1
      BY <1>2, <1>3, <1>5
    <3>2. \A o \in Ref \ {r} :
            /\ refs'[o] = refs[o] /\ head'[o] = head[o] /\ current'[o] = current[o]
            /\ o \in rewound' <=> o \in rewound
            /\ refs[o] # None /\ pins[refs[o]] # None => pins'[refs[o]] # None
      BY <1>1, <1>3, <1>5, <1>7, <1>8 DEF Oid
    <3> QED BY <3>1, <3>2, PointersLag
  <2> QED BY <2>1, <2>2, <2>3 DEF PointersOK
<1>21. LandedOnce'
  <2> SUFFICES ASSUME NEW p \in landed', NEW o \in landed', p # o, ask[p] = ask[o],
                      ask[o].old # ask[o].new
               PROVE  \E u, w, y \in DOMAIN value' :
                        /\ u < w /\ w < y
                        /\ value'[u][ask[o].ref] = ask[o].new /\ value'[y][ask[o].ref] = ask[o].new
                        /\ value'[w][ask[o].ref] = ask[o].old
    BY <1>0 DEF LandedOnce
  <2>1. CASE p \in landed /\ o \in landed
    <3>1. PICK u, w, y \in DOMAIN value :
            /\ u < w /\ w < y
            /\ value[u][ask[o].ref] = ask[o].new /\ value[y][ask[o].ref] = ask[o].new
            /\ value[w][ask[o].ref] = ask[o].old
      BY <2>1 DEF WritesInv, LandedOnce
    <3>2. u \in DOMAIN value' /\ w \in DOMAIN value' /\ y \in DOMAIN value'
          /\ value'[u] = value[u] /\ value'[w] = value[w] /\ value'[y] = value[y]
      BY <1>6
    <3> QED BY <3>1, <3>2
  <2>2. CASE p = q \/ o = q
    <3>1. /\ ask[o].ref = r /\ ask[o].new = c /\ ask[o].old = refs[r] /\ c # refs[r]
          /\ \E z \in landed : ask[z] = ask[q]
      BY <1>0, <1>3, <2>2
    <3>2. PICK u \in 0..refsVersion : value[u][r] = c
      BY <3>1 DEF WritesInv, ValuesOK
    <3>3. value[refsVersion] = refs /\ refsVersion \in 0..refsVersion
      BY <1>1 DEF WritesInv, ValuesOK
    <3>4. u # refsVersion
      BY <3>1, <3>2, <3>3
    <3>5. u < refsVersion /\ refsVersion < refsVersion'
      BY <1>1, <1>6, <3>2, <3>3, <3>4
    <3>6. /\ value'[u][r] = c /\ value'[refsVersion][r] = refs[r] /\ value'[refsVersion'][r] = c
          /\ u \in DOMAIN value' /\ refsVersion \in DOMAIN value' /\ refsVersion' \in DOMAIN value'
      BY <1>5, <1>6, <3>2, <3>3
    <3> QED BY <3>1, <3>5, <3>6
  <2> QED BY <1>3, <2>1, <2>2
<1> QED BY <1>12, <1>13, <1>14, <1>15, <1>16, <1>17, <1>18, <1>19, <1>20, <1>21 DEF WritesInv

\* A push or an ingestion lands.
LEMMA LandsStep ==
  ASSUME WritesInv, NEW q \in Request, PushLands(q) \/ IngestLands(q)
  PROVE  WritesInv'
<1>1. PICK r, c, v : r = ask[q].ref /\ c = ask[q].new /\ v = refsVersion + 1
  OBVIOUS
<1> QED BY <1>1, WriteLands

------------------------------------------------------------------------------
(* The theorems *)

\* The invariant holds of an empty repository.
LEMMA WritesInit == Init => WritesInv
<1> SUFFICES ASSUME Init PROVE WritesInv
  OBVIOUS
<1>0. /\ refs = [r \in Ref |-> None] /\ refsVersion = 0 /\ head = [r \in Ref |-> NoMark]
      /\ current = [r \in Ref |-> NoMark] /\ journal = {} /\ pins = [c \in Commit |-> None]
      /\ pinVersion = 0 /\ released = {} /\ owned = {} /\ receipts = <<>> /\ intent = None /\ gc = NoGc
      /\ stored = {} /\ con = [p \in Process |-> Idle] /\ value = [v \in {0} |-> refs]
      /\ landed = {} /\ gap = {} /\ rewound = {}
      /\ pc = [q \in Request |-> IF q \in DOMAIN ask THEN "start" ELSE "idle"]
  BY DEF Init
<1>1. events \in Nat /\ probe \in BOOLEAN /\ \E Q \in SUBSET Request : ask \in [Q -> Asks]
  BY MixesAssumption DEF Init
<1>2. 0..0 = {0} /\ MaxDeliveries \in Nat /\ MaxReceipts \in Nat
  BY WritesAssumption
<1>3. TypeOK
  <2>1. NoMark \in [after : Oid, seq : 0..refsVersion]
    BY <1>0 DEF NoMark, Oid
  <2>2. gc \in [on : BOOLEAN, roots : SUBSET Commit, refsV : Nat, pinV : 0..pinVersion]
    BY <1>0 DEF NoGc
  <2>3. Idle \in [st : {"none", "queued", "planned", "open"},
                  plan : {"none", "deliver", "head_only"}, ref : Ref \cup {None},
                  after : Oid, seq : 0..refsVersion, attempts : 0..MaxDeliveries,
                  lease : BOOLEAN]
    BY <1>0, <1>2 DEF Idle, Oid
  <2>4. pc \in [Request -> {"idle", "start", "checked", "landed", "send", "sent",
                        "created", "replayed", "refused", "failed"}]
    BY <1>0
  <2>5. Len(receipts) <= MaxReceipts /\ DOMAIN receipts = {}
    BY <1>0, <1>2
  <2> QED BY <1>0, <1>1, <1>2, <2>1, <2>2, <2>3, <2>4, <2>5 DEF TypeOK, Oid
<1>4. AskOK /\ AnswersTrue /\ LandedOnce
  BY <1>0, <1>1 DEF AskOK, AnswersTrue, LandedOnce
<1>5. ConsumersOK
  BY <1>0 DEF ConsumersOK, ConsumerAt, Idle
<1>6. ReceiptsOK /\ JournalOK /\ GcOK /\ RootsStored
  BY <1>0 DEF ReceiptsOK, JournalOK, GcOK, NoGc, RootsStored
<1>7. ValuesOK
  BY <1>0, <1>2 DEF ValuesOK, NoMark, Oid
<1>8. PointersOK
  BY <1>0 DEF PointersOK, Accepted, NoMark
<1> QED BY <1>3, <1>4, <1>5, <1>6, <1>7, <1>8 DEF WritesInv

\* Every step preserves the invariant.
LEMMA WritesStep == WritesInv /\ [Next]_vars => WritesInv'
<1> SUFFICES ASSUME WritesInv, [Next]_vars PROVE WritesInv'
  OBVIOUS
<1>1. ASSUME NEW q \in Request, RequestStep(q) PROVE WritesInv'
  BY <1>1, LandsStep, PushStep, IngestStep, IngestCompletesStep, RedeliverStep DEF RequestStep
<1>2. ASSUME NEW p \in Process, ConsumerStep(p) PROVE WritesInv'
  BY <1>2, DeliverStep, InspectStep, InspectRejectsStep, InspectFailsStep, ProjectStep DEF ConsumerStep
<1>3. ASSUME NEW r \in Ref, NEW c \in stored \cup {None}, SetRefs(r, c) PROVE WritesInv'
  BY <1>3, SetRefsStep
<1>4. ASSUME NEW e \in journal, ProbeDelivers(e) \/ ProbeDrops(e) PROVE WritesInv'
  BY <1>4, ProbeDeliversStep, ProbeDropsStep
<1>5. ASSUME NEW c \in Commit, NEW l \in BOOLEAN, Release(c, l) PROVE WritesInv'
  BY <1>5, ReleaseStep
<1>6. CASE UNCHANGED vars
  <2>1. UNCHANGED core /\ UNCHANGED pc /\ con' = con /\ events' = events /\ gap' = gap
    BY <1>6 DEF vars, core, requestVars, refVars, snapshotVars
  <2>2. /\ ask' = ask /\ value' = value /\ landed' = landed /\ stored' = stored
        /\ refsVersion' = refsVersion /\ intent' = intent
    BY <2>1 DEF core, refVars
  <2>3. AskOK' /\ AnswersTrue' /\ ConsumersOK'
    BY <2>1, <2>2 DEF WritesInv, AskOK, AnswersTrue, Fingerprint, ConsumersOK, ConsumerAt
  <2>4. /\ events' \in Nat /\ gap' \subseteq Ref /\ pc' \in [Request -> Steps]
        /\ con' \in [Process -> Consumers]
    BY <2>1, Types DEF WritesInv, TypeOK
  <2> QED BY <2>1, <2>3, <2>4, CoreFrame
<1> QED BY <1>1, <1>2, <1>3, <1>4, <1>5, <1>6, GcBeginsStep, GcPublishesStep, ResetStep DEF Next

\* The invariant holds in every behaviour, for any requests, refs, commits and
\* events, with any number of deliveries and receipts.
THEOREM WritesInvariant == Spec => []WritesInv
BY WritesInit, WritesStep, PTL DEF Spec

\* What a snapshot reader is told is true: a pinned commit and the commit of
\* every ref can be read whatever garbage collection published, the pointer of
\* a ref and every plan at work name what the ref was at their sequence, and a
\* ref called up to date is pinned and served.
THEOREM SnapshotsAreFaithful == Spec => []SnapshotsFaithful
<1>1. WritesInv => SnapshotsFaithful
  <2> SUFFICES ASSUME WritesInv PROVE SnapshotsFaithful
    OBVIOUS
  <2>1. PinsReadable
    BY DEF WritesInv, RootsStored, PinsReadable, Resolution, Served
  <2>2. PointerFaithful
    BY DEF WritesInv, ValuesOK, ConsumersOK, ConsumerAt, PointerFaithful
  <2>3. UpToDateServed
    <3> SUFFICES ASSUME NEW r \in Ref \ rewound, Plan(r).status = "up_to_date", refs[r] # None
                 PROVE  Served(refs[r])
      BY DEF UpToDateServed
    <3>1. current[r].after = refs[r] /\ current[r].seq = PlanSeq(r) /\ refs[r] \in Oid
      BY PlanTrue
    <3>2. pins[refs[r]] # None /\ refs[r] \in stored
      BY <3>1 DEF WritesInv, PointersOK, RootsStored
    <3> QED BY <3>2 DEF Served, Resolution
  <2> QED BY <2>1, <2>2, <2>3 DEF WritesInv, SnapshotsFaithful
<1> QED BY <1>1, WritesInvariant, PTL

\* An ingestion answered with success landed with its key and content, and a
\* retry lands a second time only if the ref was put back to what the request
\* expects in between.
THEOREM IngestionIsOnce == Spec => []IngestionOnce
<1>1. WritesInv => IngestionOnce
  BY DEF WritesInv, AnswersTrue, LandedOnce, IngestionOnce
<1> QED BY <1>1, WritesInvariant, PTL

\* A commit without a pin, released or not, gets one only with a ref that holds
\* it, or through an entry the event probe kept: no late or repeated delivery of
\* an older plan brings a released snapshot back, and only a new pin or a reset
\* of the repository drops a tombstone.
THEOREM ReleaseIsFinal == Spec => ReleasedStays
<1>1. WritesInv /\ [Next]_vars
        => [\A c \in Commit :
              /\ pins[c] = None /\ pins'[c] # None => PinnedWithRef(c)
              /\ c \in released \ released' =>
                   pins'[c] # None \/ (journal' = {} /\ receipts' = <<>>)]_vars
  <2> SUFFICES ASSUME WritesInv, Next, NEW c \in Commit
               PROVE  /\ pins[c] = None /\ pins'[c] # None => PinnedWithRef(c)
                      /\ c \in released \ released' =>
                           pins'[c] # None \/ (journal' = {} /\ receipts' = <<>>)
    OBVIOUS
  <2>0. pins \in [Commit -> Ref \cup {None}] /\ None \notin Ref
    BY WritesAssumption DEF WritesInv, TypeOK
  <2>1. ASSUME NEW q \in Request, IngestLands(q)
        PROVE  /\ pins[c] = None /\ pins'[c] # None => PinnedWithRef(c)
               /\ c \in released \ released' => pins'[c] # None
    <3>1. q \in DOMAIN ask
      BY <2>1 DEF WritesInv, AskOK, IngestLands
    <3>2. ask[q].ref \in Ref /\ refs \in [Ref -> Oid]
      BY <3>1, Asked DEF WritesInv, TypeOK
    <3>3. /\ refs' = [refs EXCEPT ![ask[q].ref] = ask[q].new]
          /\ released' = released \ {ask[q].new}
          /\ pins' = IF pins[ask[q].new] = None THEN [pins EXCEPT ![ask[q].new] = ask[q].ref]
                                                ELSE pins
      BY <2>1 DEF IngestLands, CommitRef, Retain
    <3>4. c = ask[q].new => PinnedWithRef(c) /\ pins'[c] # None
      BY <2>0, <3>2, <3>3 DEF PinnedWithRef
    <3> QED BY <2>0, <3>3, <3>4
  <2>2. ASSUME NEW p \in Process, Project(p)
        PROVE  /\ pins[c] = None /\ pins'[c] # None => PinnedWithRef(c)
               /\ c \in released \ released' => pins'[c] # None
    <3>1. /\ con[p].st = "open" /\ Holds(p) /\ refs' = refs
          /\ \/ released' = released /\ pins' = pins
             \/ /\ released' = released \ {con[p].after}
                /\ pins' = IF pins[con[p].after] = None
                           THEN [pins EXCEPT ![con[p].after] = con[p].ref] ELSE pins
      BY <2>2 DEF Project, Retain, ConsumerUnchanged, refVars
    <3>2. con[p].ref \in Ref /\ con[p].plan \in {"deliver", "head_only"}
      BY <3>1 DEF WritesInv, ConsumersOK, ConsumerAt
    <3>3. ASSUME c = con[p].after, ~probe
          PROVE  \E r \in Ref : refs'[r] = c
      <4>1. con[p].plan = "head_only"
        BY <3>1, <3>2, <3>3 DEF Holds, WritesInv, JournalOK
      <4>2. Plan(con[p].ref).after = c
        BY <3>1, <3>3, <4>1 DEF Holds
      <4> QED BY <3>1, <3>2, <4>2, PlanTrue
    <3>4. c = con[p].after => PinnedWithRef(c)
      BY <3>3 DEF PinnedWithRef
    <3> QED BY <2>0, <3>1, <3>2, <3>4
  <2>3. ASSUME NEW q \in Request, RequestStep(q), ~IngestLands(q)
        PROVE  pins' = pins /\ released' = released
    BY <2>3 DEF RequestStep, PushLands, PushRejected, SendMessage, SendFails, IngestChecks,
       IngestRefused, IngestEvicted, IngestCompletes, Redeliver, snapshotVars
  <2>4. ASSUME NEW p \in Process, ConsumerStep(p), ~Project(p)
        PROVE  pins' = pins /\ released' = released
    BY <2>4 DEF ConsumerStep, Deliver, Inspect, InspectMisses, InspectRejects, InspectFails,
       ReadLeaseLapses, ProjectRefused, snapshotVars
  <2>5. ASSUME \/ \E r \in Ref, k \in stored \cup {None} : SetRefs(r, k)
               \/ \E e \in journal : ProbeDelivers(e) \/ ProbeDrops(e)
               \/ GcBegins \/ GcPublishes
        PROVE  pins' = pins /\ released' = released
    BY <2>5 DEF SetRefs, ProbeDelivers, ProbeDrops, GcBegins, GcPublishes, snapshotVars
  <2>6. ASSUME NEW k \in Commit, NEW l \in BOOLEAN, Release(k, l)
        PROVE  pins' = [pins EXCEPT ![k] = None] /\ released \subseteq released'
    BY <2>6 DEF Release
  <2>7. ASSUME Reset
        PROVE  pins'[c] \in {None, pins[c]} /\ journal' = {} /\ receipts' = <<>>
    BY <2>7, ClearedPins DEF Reset
  <2> QED BY <2>0, <2>1, <2>2, <2>3, <2>4, <2>5, <2>6, <2>7 DEF Next
<1> QED BY <1>1, WritesInvariant, PTL DEF Spec, ReleasedStays


=============================================================================
