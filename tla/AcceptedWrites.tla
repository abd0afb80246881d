---------------------------- MODULE AcceptedWrites ----------------------------
(***************************************************************************)
(* What follows an accepted write: the accepted head and the journal entry *)
(* recorded with the refs, the snapshot projected from them by a queue     *)
(* consumer (a pin of the commit and the ref's current pointer), the       *)
(* receipt that makes folder ingestion idempotent, and the two ways a pin  *)
(* meets garbage collection: a pinned commit is a root, and a projection   *)
(* in progress holds a read lease.                                         *)
(*                                                                         *)
(* A push or an ingestion commits under the receive lease, which keeps     *)
(* every other change of refs out, so that its ref transaction is one      *)
(* step here (RepoReceive has the steps); what it stores after the         *)
(* transaction may be cut off by an eviction and finished by the alarm.    *)
(* Commits have no parents (historyMode epoch): what no ref and no pin     *)
(* names is garbage.                                                       *)
(***************************************************************************)
EXTENDS Integers, FiniteSets, Sequences, SequencesExt

CONSTANTS
  Ref,          \* refs/heads/...
  QualRef,      \* the ones starting with refs/heads/qual-
  Commit,
  Request,      \* pushes and ingestion requests
  Probe,        \* a delivery asked for through the event probe
  Key,          \* idempotency keys
  None,         \* no commit (the zero oid), no ref, no key, no request
  MaxDeliveries,\* SNAPSHOT_MAX_DELIVERY_ATTEMPTS
  MaxReceipts,  \* MAX_INGESTION_RECEIPTS
  Mixes         \* the requests and events considered

ASSUME WritesAssumption ==
  /\ QualRef \subseteq Ref
  /\ MaxDeliveries \in Nat \ {0} /\ MaxReceipts \in Nat \ {0}
  /\ Probe \notin Request /\ None \notin Commit \cup Key \cup Request \cup Ref

Oid == Commit \cup {None}
Asks == [kind : {"push"}, ref : Ref, old : Oid, new : Oid, key : {None}]
          \cup [kind : {"ingest"}, ref : Ref, old : Oid, new : Commit, key : Key]

ASSUME MixesAssumption ==
  \A m \in Mixes :
    /\ \E Q \in SUBSET Request : m.ask \in [Q -> Asks]
    /\ m.events \in Nat /\ m.probe \in BOOLEAN /\ m.unfit \subseteq Commit

VARIABLES
  ask,          \* ask[q]: what request q asks for
  events,       \* bound: events of the kinds below still to come
  kinds,
  probe,        \* snapshotEventProbeEnabled
  unfit,        \* commits whose trees a projection refuses
  \* storage of the Durable Object
  refs, refsVersion,
  head,         \* acceptedWriteHead:<ref>
  current,      \* snapshotCurrent:<ref>
  journal,      \* acceptedWrite:<sequence>:<ref>
  pins,         \* snapshotPin:<commit>: the ref it was first accepted for
  owned,        \* ... and the ones with qualificationOwned
  pinVersion,   \* snapshotPinVersion
  released,     \* releasedSnapshot:<commit>
  receipts,     \* ingestionReceipt:<key>, in the order of the index
  intent,       \* the ingestion whose finalize intent and lease are held
  gc,           \* the reachability GC operation: roots and accounted versions
  \* outside
  stored,       \* commits the active packs hold
  pc,           \* what the Worker of request q has reached
  con,          \* the snapshot message of q and the consumer handling it
  \* history
  value,        \* value[v][r]: ref r at refsVersion v
  landed,       \* requests whose commit became the ref
  gap,          \* refs whose last change no message follows
  rewound       \* refs set by hand to the commit last accepted for them

requestVars == <<ask, kinds, probe, unfit>>
refVars == <<refs, refsVersion, head, journal, value, landed, rewound>>
snapshotVars == <<current, pins, owned, pinVersion, released>>
vars == <<requestVars, events, refVars, snapshotVars, receipts, intent, gc,
          stored, pc, con, gap>>

Process == Request \cup {Probe}

\* QUALIFICATION_MODE: the Worker is deployed where repositories can be reset.
Qualification == "reset" \in kinds

NoMark == [after |-> None, seq |-> 0]
NoGc == [on |-> FALSE, roots |-> {}, refsV |-> 0, pinV |-> 0]
Idle == [st |-> "none", plan |-> "none", ref |-> None, after |-> None, seq |-> 0,
         attempts |-> 0, lease |-> FALSE]

TypeOK ==
  /\ events \in Nat /\ probe \in BOOLEAN
  /\ refs \in [Ref -> Oid] /\ refsVersion \in Nat
  /\ head \in [Ref -> [after : Oid, seq : 0..refsVersion]]
  /\ current \in [Ref -> [after : Oid, seq : 0..refsVersion]]
  /\ journal \subseteq [ref : Ref, after : Oid, seq : 1..refsVersion]
  /\ pins \in [Commit -> Ref \cup {None}] /\ pinVersion \in Nat /\ owned \subseteq Commit
  \* a commit is pinned or has a tombstone, never both
  /\ released \subseteq {c \in Commit : pins[c] = None}
  /\ Len(receipts) <= MaxReceipts
  /\ \A i, j \in DOMAIN receipts : receipts[i].key = receipts[j].key => i = j
  /\ intent \in Request \cup {None}
  /\ gc \in [on : BOOLEAN, roots : SUBSET Commit, refsV : Nat, pinV : 0..pinVersion]
  /\ stored \subseteq Commit
  /\ pc \in [Request -> {"idle", "start", "checked", "landed", "send", "sent",
                        "created", "replayed", "refused", "failed"}]
  /\ con \in [Process -> [st : {"none", "queued", "planned", "open"},
                          plan : {"none", "deliver", "head_only"}, ref : Ref \cup {None},
                          after : Oid, seq : 0..refsVersion, attempts : 0..MaxDeliveries,
                          lease : BOOLEAN]]
  /\ DOMAIN value = 0..refsVersion
  /\ landed \subseteq Request /\ gap \subseteq Ref /\ rewound \subseteq Ref

Init ==
  /\ \E m \in Mixes :
       /\ ask = m.ask /\ events = m.events /\ kinds = m.kinds /\ probe = m.probe
       /\ unfit = m.unfit
  /\ refs = [r \in Ref |-> None] /\ refsVersion = 0
  /\ head = [r \in Ref |-> NoMark] /\ current = [r \in Ref |-> NoMark]
  /\ journal = {} /\ pins = [c \in Commit |-> None] /\ pinVersion = 0 /\ released = {}
  /\ owned = {}
  /\ receipts = <<>> /\ intent = None /\ gc = NoGc /\ stored = {}
  /\ pc = [q \in Request |-> IF q \in DOMAIN ask THEN "start" ELSE "idle"]
  /\ con = [p \in Process |-> Idle]
  /\ value = [v \in {0} |-> refs] /\ landed = {} /\ gap = {} /\ rewound = {}

Event(k) == events > 0 /\ k \in kinds /\ events' = events - 1

------------------------------------------------------------------------------
(* The ref transaction *)

\* The commits refs and pins name.
Roots == ({refs[r] : r \in Ref} \ {None}) \cup {c \in Commit : pins[c] # None}

\* retainSnapshotPin: a commit is pinned once, with the ref it was first
\* accepted for; an earlier release is forgotten.  own: qualificationOwned.
Retain(c, r, own) ==
  /\ pins' = IF pins[c] = None THEN [pins EXCEPT ![c] = r] ELSE pins
  /\ pinVersion' = IF pins[c] = None THEN pinVersion + 1 ELSE pinVersion
  /\ owned' = IF pins[c] # None THEN owned ELSE IF own THEN owned \cup {c} ELSE owned \ {c}
  /\ released' = released \ {c}

\* Mutant of Advance: the pointer is written once.
AdvanceOnce(r, c, s) ==
  current' = IF current[r].seq = 0 THEN [current EXCEPT ![r] = [after |-> c, seq |-> s]]
                                   ELSE current

\* ... and the current pointer moves forward only.
Advance(r, c, s) ==
  current' = IF s > current[r].seq THEN [current EXCEPT ![r] = [after |-> c, seq |-> s]]
                                   ELSE current

\* Commit of the refs, with acceptedWriteHead and, under the event probe, the
\* journal entry (recordAcceptedWrites).
CommitRef(q, r, c) ==
  LET v == refsVersion + 1 IN
  /\ refs' = [refs EXCEPT ![r] = c]
  /\ refsVersion' = v
  /\ head' = [head EXCEPT ![r] = [after |-> c, seq |-> v]]
  /\ journal' = IF probe THEN journal \cup {[ref |-> r, after |-> c, seq |-> v]} ELSE journal
  /\ stored' = stored \cup ({c} \ {None})
  /\ value' = [w \in 0..v |-> IF w = v THEN refs' ELSE value[w]]
  /\ landed' = landed \cup {q}
  /\ rewound' = rewound \ {r}

\* advanceGcReceiveVersions: a GC in progress accounts for the receive, and
\* for its pin only if it had accounted for every pin before.
Account(c) ==
  gc' = IF ~gc.on THEN gc
        ELSE [gc EXCEPT !.refsV = refsVersion', !.roots = @ \cup ({c} \ {None}),
                        !.pinV = IF @ = pinVersion THEN pinVersion' ELSE @]

------------------------------------------------------------------------------
(* Pushes *)

\* A push under the receive lease; afterwards the Worker still has to send the
\* snapshot message (onRepoStateChanged).
PushLands(q) ==
  LET a == ask[q] IN
  /\ pc[q] = "start" /\ a.kind = "push" /\ intent = None
  /\ refs[a.ref] = a.old
  /\ CommitRef(q, a.ref, a.new)
  /\ UNCHANGED <<current, pins, owned, pinVersion, released>>
  /\ Account(a.new)
  /\ pc' = [pc EXCEPT ![q] = "send"]
  /\ gap' = gap \ {a.ref}
  /\ UNCHANGED <<requestVars, events, receipts, intent, con>>

PushRejected(q) ==
  /\ pc[q] = "start" /\ ask[q].kind = "push" /\ intent = None
  /\ refs[ask[q].ref] # ask[q].old
  /\ pc' = [pc EXCEPT ![q] = "refused"]
  /\ UNCHANGED <<requestVars, events, refVars, snapshotVars, receipts, intent, gc, stored,
                 con, gap>>

Queued(q, n) == [Idle EXCEPT !.st = "queued", !.ref = ask[q].ref, !.attempts = n]

SendMessage(q) ==
  /\ pc[q] = "send"
  /\ pc' = [pc EXCEPT ![q] = "sent"]
  /\ con' = [con EXCEPT ![q] = Queued(q, 1)]
  /\ UNCHANGED <<requestVars, events, refVars, snapshotVars, receipts, intent, gc, stored, gap>>

\* The send fails, or the Worker is gone: the error is only logged.
SendFails(q) ==
  /\ Event("unsent")
  /\ pc[q] = "send"
  /\ pc' = [pc EXCEPT ![q] = "failed"]
  /\ gap' = gap \cup {ask[q].ref}
  /\ UNCHANGED <<requestVars, refVars, snapshotVars, receipts, intent, gc, stored, con>>

\* PUT of the refs by an administrator: no accepted write, no message.
SetRefs(r, c) ==
  /\ Event("admin")
  /\ intent = None /\ ~gc.on
  /\ refs[r] # c
  /\ refs' = [refs EXCEPT ![r] = c]
  /\ refsVersion' = refsVersion + 1
  /\ value' = [w \in 0..refsVersion' |-> IF w = refsVersion' THEN refs' ELSE value[w]]
  /\ gap' = gap \cup {r}
  /\ rewound' = IF head[r].seq > 0 /\ head[r].after = c THEN rewound \cup {r} ELSE rewound \ {r}
  /\ UNCHANGED <<requestVars, head, journal, landed, snapshotVars, receipts, intent, gc,
                 stored, pc, con>>

------------------------------------------------------------------------------
(* Folder ingestion *)

\* What a receipt records: the key and the fingerprint of the request.
Fingerprint(q) == [key |-> ask[q].key, old |-> ask[q].old, new |-> ask[q].new]

Receipts(k) == {receipts[i] : i \in {j \in DOMAIN receipts : receipts[j].key = k}}

\* handleIngestion reads the receipt before it asks for the lease.
IngestChecks(q) ==
  /\ pc[q] = "start" /\ ask[q].kind = "ingest"
  /\ pc' = [pc EXCEPT ![q] = IF Receipts(ask[q].key) = {} THEN "checked"
                             ELSE IF Receipts(ask[q].key) = {Fingerprint(q)} THEN "replayed"
                             ELSE "refused"]
  /\ UNCHANGED <<requestVars, events, refVars, snapshotVars, receipts, intent, gc, stored,
                 con, gap>>

\* Mutant of Expected: only the commit it would write is looked for.
ExpectedAny(q) == refs[ask[q].ref] # ask[q].new

\* The ref it expects, and not the commit it would write.
Expected(q) == refs[ask[q].ref] = ask[q].old /\ ask[q].old # ask[q].new

\* An ingestion's transaction pins its commit and, unless the event probe is
\* on, moves the pointer.  No message is sent.
IngestLands(q) ==
  LET a == ask[q] IN
  /\ pc[q] = "checked" /\ intent = None
  /\ Expected(q)
  /\ CommitRef(q, a.ref, a.new)
  /\ Retain(a.new, a.ref, Qualification)
  /\ IF probe THEN UNCHANGED current ELSE Advance(a.ref, a.new, refsVersion + 1)
  /\ Account(a.new)
  /\ intent' = q
  /\ pc' = [pc EXCEPT ![q] = "landed"]
  /\ gap' = IF probe THEN gap \cup {a.ref} ELSE gap \ {a.ref}
  /\ UNCHANGED <<requestVars, events, receipts, con>>

IngestRefused(q) ==
  /\ pc[q] = "checked" /\ intent = None
  /\ ~Expected(q)
  /\ pc' = [pc EXCEPT ![q] = "refused"]
  /\ UNCHANGED <<requestVars, events, refVars, snapshotVars, receipts, intent, gc, stored,
                 con, gap>>

\* The request is answered with an error; the intent and the lease stay.
IngestEvicted(q) ==
  /\ Event("evict")
  /\ pc[q] = "landed"
  /\ pc' = [pc EXCEPT ![q] = "failed"]
  /\ UNCHANGED <<requestVars, refVars, snapshotVars, receipts, intent, gc, stored, con, gap>>

\* The newest receipts, the stored one moved to the end of the index, where a
\* key is listed once.
Stored(rec) ==
  LET old == {i \in DOMAIN receipts : receipts[i].key = rec.key}
      rest == IF old = {} THEN receipts ELSE RemoveAt(receipts, CHOOSE i \in old : TRUE)
      next == Append(rest, rec)
  IN IF Len(next) > MaxReceipts THEN Tail(next) ELSE next

\* storeIngestionReceipt: another fingerprint under the key makes it throw.
Storable(q) == Receipts(ask[q].key) \subseteq {Fingerprint(q)}

\* The rest of the finalization, in the request or from the alarm.
IngestCompletes(q) ==
  /\ intent = q
  /\ Storable(q)
  /\ receipts' = Stored(Fingerprint(q))
  /\ intent' = None
  /\ pc' = [pc EXCEPT ![q] = IF @ = "landed" THEN "created" ELSE @]
  /\ UNCHANGED <<requestVars, events, refVars, snapshotVars, gc, stored, con, gap>>

------------------------------------------------------------------------------
(* Projection of a snapshot *)

\* getSnapshotReconcilePlanState: what the ref is now, under the sequence of
\* the accepted write if that is what made it so.
Plan(r) ==
  LET after == refs[r]
      accepted == head[r].seq > 0 /\ head[r].after = after
      seq == IF accepted THEN head[r].seq ELSE refsVersion
      entry == [ref |-> r, after |-> after, seq |-> seq]
  IN [status |-> IF head[r].seq = 0 /\ after = None THEN "unborn"
                 ELSE IF current[r] = [after |-> after, seq |-> seq] THEN "up_to_date"
                 ELSE IF entry \in journal THEN "deliver" ELSE "head_only",
      after |-> after, seq |-> seq]

\* getSnapshotResolutionState, and a snapshot read that needs the pinned
\* commit in the active packs.
Resolution(c) ==
  IF pins[c] # None THEN "pinned" ELSE IF c \in released THEN "released" ELSE "legacy"
Served(c) == Resolution(c) = "pinned" /\ c \in stored

\* retryOrAck: another delivery, or the last one was used up.  A delivery that
\* failed without the ref having changed leaves a gap.
Retry(p, external) ==
  LET again == p # Probe /\ con[p].attempts < MaxDeliveries IN
  /\ con' = [con EXCEPT ![p] = IF again THEN Queued(p, con[p].attempts + 1) ELSE Idle]
  /\ gap' = IF external /\ ~again /\ p # Probe THEN gap \cup {con[p].ref} ELSE gap

ConsumerUnchanged ==
  UNCHANGED <<requestVars, refVars, receipts, intent, gc, stored, pc>>

\* The consumer reads the plan for the ref of its message.
Deliver(p) ==
  LET plan == Plan(con[p].ref) IN
  /\ con[p].st = "queued"
  /\ con' = [con EXCEPT ![p] =
       IF plan.status \in {"up_to_date", "unborn"} THEN Idle
       ELSE [@ EXCEPT !.st = "planned", !.plan = plan.status, !.after = plan.after,
                      !.seq = plan.seq]]
  /\ UNCHANGED <<events, snapshotVars, gap>>
  /\ ConsumerUnchanged

\* A message that was handled is delivered once more.
Redeliver(q) ==
  /\ Event("duplicate")
  /\ pc[q] = "sent" /\ con[q].st = "none"
  /\ con' = [con EXCEPT ![q] = Queued(q, 1)]
  /\ UNCHANGED <<snapshotVars, gap>>
  /\ ConsumerUnchanged

\* The event probe delivers any entry of the journal it listed.
ProbeDelivers(e) ==
  /\ Event("probe")
  /\ con[Probe].st = "none" /\ e \in journal
  /\ con' = [con EXCEPT ![Probe] = [Idle EXCEPT !.st = "planned", !.plan = "deliver",
                                     !.ref = e.ref, !.after = e.after, !.seq = e.seq]]
  /\ UNCHANGED <<snapshotVars, gap>>
  /\ ConsumerUnchanged

ProbeDrops(e) ==
  /\ Event("probe")
  /\ e \in journal
  /\ journal' = journal \ {e}
  /\ UNCHANGED <<requestVars, refs, refsVersion, head, value, landed, rewound, snapshotVars,
                 receipts, intent, gc, stored, pc, con, gap>>

\* beginRepositoryRead and inspectSnapshotCommit; a deletion needs neither.
Inspect(p) ==
  /\ con[p].st = "planned"
  /\ con[p].after \in (stored \ unfit) \cup {None}
  /\ con' = [con EXCEPT ![p].st = "open", ![p].lease = con[p].after # None]
  /\ UNCHANGED <<events, snapshotVars, gap>>
  /\ ConsumerUnchanged

\* The commit is gone (the ref has moved on and a GC took it) ...
InspectMisses(p) ==
  /\ con[p].st = "planned"
  /\ con[p].after \notin stored \cup {None}
  /\ Retry(p, FALSE)
  /\ UNCHANGED <<events, snapshotVars>>
  /\ ConsumerUnchanged

\* ... or a tree is over the limits, or has a path or an entry no snapshot can
\* have: the message is acknowledged and nothing is projected ...
InspectRejects(p) ==
  /\ con[p].st = "planned"
  /\ con[p].after \in stored \cap unfit
  /\ con' = [con EXCEPT ![p] = Idle]
  /\ UNCHANGED <<events, snapshotVars, gap>>
  /\ ConsumerUnchanged

\* ... or a call fails, or the readers are at their limit.
InspectFails(p) ==
  /\ Event("fail")
  /\ con[p].st = "planned"
  /\ Retry(p, TRUE)
  /\ UNCHANGED snapshotVars
  /\ ConsumerUnchanged

ReadLeaseLapses(p) ==
  /\ Event("lapse")
  /\ con[p].st = "open" /\ con[p].lease
  /\ con' = [con EXCEPT ![p].lease = FALSE]
  /\ UNCHANGED <<snapshotVars, gap>>
  /\ ConsumerUnchanged

\* Mutant of MayPin: a projection whose read lease ran out still pins.
MayPinLate(p) == con[p].st = "open"

\* The pin may be installed: there is one, or the read lease still keeps GC
\* from publishing without the commit.
Pinned == {c \in Commit : pins[c] # None}
MayPin(p) == con[p].after \in Pinned \cup {None} \/ con[p].lease

\* The facts the plan was made from: the journal entry, or the authoritative
\* ref and its sequence.
Holds(p) ==
  LET c == con[p] IN
  IF c.plan = "deliver" THEN [ref |-> c.ref, after |-> c.after, seq |-> c.seq] \in journal
  ELSE Plan(c.ref).after = c.after /\ Plan(c.ref).seq = c.seq

\* projectAcceptedWriteState, projectReconciledHeadState.
Project(p) ==
  LET c == con[p] IN
  /\ c.st = "open" /\ Holds(p) /\ MayPin(p)
  /\ IF c.after = None THEN UNCHANGED <<pins, owned, pinVersion, released>>
     ELSE Retain(c.after, c.ref, FALSE)
  /\ Advance(c.ref, c.after, c.seq)
  /\ con' = [con EXCEPT ![p] = Idle]
  /\ UNCHANGED <<events, gap>>
  /\ ConsumerUnchanged

\* The plan is stale, the entry was dropped, or the read lease ran out.
ProjectRefused(p) ==
  /\ con[p].st = "open" /\ ~(Holds(p) /\ MayPin(p))
  /\ Retry(p, con[p].plan = "deliver" \/ Holds(p))
  /\ UNCHANGED <<events, snapshotVars>>
  /\ ConsumerUnchanged

------------------------------------------------------------------------------
(* Release, garbage collection, reset *)

\* releaseSnapshotPinState; legacy: the route found a manifest in the bucket.
Release(c, legacy) ==
  /\ Event("release")
  /\ c \notin {refs[r] : r \in Ref}
  /\ pins' = [pins EXCEPT ![c] = None]
  /\ owned' = owned \ {c}
  /\ released' = IF pins[c] # None \/ legacy THEN released \cup {c} ELSE released
  /\ UNCHANGED <<current, pinVersion, con, gap>>
  /\ ConsumerUnchanged

\* beginReachabilityGcState.
GcBegins ==
  /\ Event("gc")
  /\ ~gc.on /\ intent = None
  /\ gc' = [on |-> TRUE, roots |-> Roots, refsV |-> refsVersion, pinV |-> pinVersion]
  /\ UNCHANGED <<requestVars, refVars, snapshotVars, receipts, intent, stored, pc, con, gap>>

\* The fences of the publication: no receive, no projection in progress, no
\* change it has not accounted for.
MayPublish ==
  /\ intent = None
  /\ \A p \in Process : ~con[p].lease
  /\ gc.refsV = refsVersion /\ gc.pinV = pinVersion

GcPublishes ==
  /\ gc.on
  /\ gc' = NoGc
  /\ stored' = IF MayPublish THEN stored \cap gc.roots ELSE stored
  /\ UNCHANGED <<requestVars, events, refVars, snapshotVars, receipts, intent, pc, con, gap>>

\* clearQualificationSnapshotProjectionState: pointers of disposable refs, and
\* pins first accepted for one or ingested in qualification mode, unless a ref
\* or another pointer needs them.
Cleared ==
  LET mine == {c \in Commit : pins[c] \in QualRef \/ (pins[c] # None /\ c \in owned)}
      held == {refs[r] : r \in Ref}
      doomed == {r \in Ref : r \in QualRef \/ current[r].after \in mine \ held}
      kept == held \cup {current[r].after : r \in Ref \ doomed}
  IN [current |-> [r \in Ref |-> IF r \in doomed THEN NoMark ELSE current[r]],
      pins |-> [c \in Commit |-> IF c \in mine \ kept THEN None ELSE pins[c]]]

\* resetQualificationRepositoryState, once nothing holds a lease.  Tombstones
\* written in qualification mode are qualificationOwned, and go too.
Reset ==
  /\ Event("reset")
  /\ intent = None /\ ~gc.on /\ \A p \in Process : ~con[p].lease
  /\ current' = Cleared.current
  /\ pins' = Cleared.pins
  /\ owned' = {c \in owned : Cleared.pins[c] # None}
  /\ released' = {}
  /\ journal' = {} /\ head' = [r \in Ref |-> NoMark] /\ receipts' = <<>>
  /\ rewound' = {}
  /\ gap' = Ref
  /\ UNCHANGED <<requestVars, refs, refsVersion, value, landed, pinVersion, intent, gc, stored, pc,
                 con>>

------------------------------------------------------------------------------
RequestStep(q) ==
  \/ PushLands(q) \/ PushRejected(q) \/ SendMessage(q) \/ SendFails(q)
  \/ IngestChecks(q) \/ IngestLands(q) \/ IngestRefused(q) \/ IngestEvicted(q)
  \/ IngestCompletes(q) \/ Redeliver(q)
ConsumerStep(p) ==
  \/ Deliver(p) \/ Inspect(p) \/ InspectMisses(p) \/ InspectRejects(p) \/ InspectFails(p)
  \/ ReadLeaseLapses(p) \/ Project(p) \/ ProjectRefused(p)
Next ==
  \/ \E q \in Request : RequestStep(q)
  \/ \E p \in Process : ConsumerStep(p)
  \/ \E r \in Ref, c \in stored \cup {None} : SetRefs(r, c)
  \/ \E e \in journal : ProbeDelivers(e) \/ ProbeDrops(e)
  \/ \E c \in Commit, l \in BOOLEAN : Release(c, l)
  \/ GcBegins \/ GcPublishes \/ Reset
Spec == Init /\ [][Next]_vars

\* The queue redelivers and its consumer runs; the Worker that landed a push
\* sends its message or fails to.
Fairness ==
  /\ \A q \in Request : WF_vars(SendMessage(q) \/ SendFails(q)) /\ WF_vars(IngestCompletes(q))
  /\ \A p \in Process : WF_vars(Deliver(p))
                        /\ WF_vars(Inspect(p) \/ InspectMisses(p) \/ InspectRejects(p))
                        /\ WF_vars(Project(p) \/ ProjectRefused(p))
LiveSpec == Spec /\ Fairness

------------------------------------------------------------------------------
(* Properties *)

\* A pinned commit, and the commit of every ref, can be read, whatever GC
\* published while projections, releases and receives were under way
\* (hasActiveProjectionLease, the fences of commitReachabilityGcState).
PinsReadable ==
  /\ \A c \in Commit : Resolution(c) = "pinned" => Served(c)
  /\ \A r \in Ref : refs[r] \in stored \cup {None}

\* The pointer of a ref, and every plan a consumer works on, names what the
\* ref was at the sequence it carries, so the sequence conflict that
\* projectAcceptedWriteState throws on cannot arise.
PointerFaithful ==
  /\ \A r \in Ref : current[r].seq > 0 => value[current[r].seq][r] = current[r].after
  /\ \A p \in Process : con[p].st = "open" => value[con[p].seq][con[p].ref] = con[p].after

\* A ref the plan calls up to date, so that its message is acknowledged with
\* nothing done, is pinned and served, unless an administrator set the ref
\* back to its last accepted commit after a release.
UpToDateServed ==
  \A r \in Ref \ rewound :
    Plan(r).status = "up_to_date" /\ refs[r] # None => Served(refs[r])

\* A commit that has no pin, released or not, gets one only with a ref that
\* holds it: no late or repeated delivery of an older plan brings a released
\* snapshot back, also after a reset has dropped its tombstone.  Only the event
\* probe may deliver an old entry again.  And only a new pin or a reset drops a
\* tombstone.
PinnedWithRef(c) == probe \/ \E r \in Ref : refs'[r] = c
ReleasedStays ==
  [][\A c \in Commit :
       /\ pins[c] = None /\ pins'[c] # None => PinnedWithRef(c)
       /\ c \in released \ released' =>
            pins'[c] # None \/ (journal' = {} /\ receipts' = <<>>)]_vars

\* An ingestion answered with success (201, or 200 replayed) is one that
\* landed with its key and content, and a retry lands a second time only if
\* the ref was put back to what the request expects in between.
IngestionOnce ==
  /\ \A q \in Request : pc[q] \in {"created", "replayed"} =>
       \E p \in landed : Fingerprint(p) = Fingerprint(q)
  /\ \A p, q \in landed : p # q /\ ask[p] = ask[q] /\ ask[q].old # ask[q].new =>
       \E u, v, w \in DOMAIN value :
         /\ u < v /\ v < w
         /\ value[u][ask[q].ref] = ask[q].new /\ value[w][ask[q].ref] = ask[q].new
         /\ value[v][ask[q].ref] = ask[q].old

\* Once the requests are over, every ref's pointer has caught up with it,
\* except where the message was lost or used up its deliveries, where the
\* change sends none, or where the projection refuses the ref's commit for good.
PointerConverges ==
  <>[](\A r \in Ref \ gap :
         refs[r] \in unfit \/ Plan(r).status \in {"up_to_date", "unborn"})

\* The finalization of an ingestion ends and frees the lease, in the request or
\* from the alarm, unless its key is also used for other content: then
\* storeIngestionReceipt may throw on every attempt.
NeverWedged ==
  \A q \in Request :
    intent = q /\ (\A p \in landed : ask[p].key = ask[q].key => ask[p] = ask[q])
      ~> intent # q

\* What a snapshot reader is told is true: pins can be read, the pointer of a
\* ref is a value the ref had, and "up to date" means served.
SnapshotsFaithful ==
  /\ TypeOK
  /\ PinsReadable
  /\ PointerFaithful
  /\ UpToDateServed

\* Snapshots and ingestions come to rest: pointers catch up, leases are freed
\* and what was released is not brought back by a late delivery.
Converges ==
  /\ PointerConverges
  /\ NeverWedged
  /\ ReleasedStays
=============================================================================
