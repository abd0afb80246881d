----------------------------- MODULE StockPlan -----------------------------
(***************************************************************************)
(* The data plane of a stock receive, one attempt of it: the Worker plans  *)
(* which entries of the active packs the pushed pack needs, reads them,    *)
(* publishes a prerequisite pack and a closure manifest (or, on the direct *)
(* path, the output itself), lets the Container run receive-pack, stores   *)
(* and verifies the output and checks the proof that RepoDO will rely on   *)
(* (src/src/worker/git/nativeReceive/stockPlanner.ts,                      *)
(* physicalDependencyPlan.ts, stockDataPlane.ts, stockProof.ts and         *)
(* src/container/cmd/repository-git/stock_receive.go).  StockReceive       *)
(* models the protocol around an attempt.  The keys of an attempt belong   *)
(* to it alone.                                                            *)
(*                                                                         *)
(* Object ids are naturals, so they sort; 0 is ZERO_OID.  Active packs are *)
(* listed in checksum order; a pack is [size, entries], an entry           *)
(* [oid, kind, base]: "full", "ofs" (base: an earlier position of the same *)
(* pack) or "ref" (base: an object id).  A physical node is a pair         *)
(* <<pack, position>>.                                                     *)
(***************************************************************************)
EXTENDS Naturals, Sequences, FiniteSets, SequencesExt, FiniteSetsExt

CONSTANTS
    Refs,          \* the references of every object: a function to sets of ids
    Jobs,          \* the pushes: packs, refs, commands, pack, direct, corrupt, bad, over
    Workers,       \* STOCK_PHYSICAL_RANGE_READ_CONCURRENCY
    RangeAttempts, \* RANGE_READ_ATTEMPTS
    MaxDepth,      \* STOCK_MAX_DEPENDENCY_DEPTH
    MaxNodes,      \* STOCK_MAX_PHYSICAL_NODES, also MAX_RANGE_RECORDS
    MaxPacks,      \* MAX_ACTIVE_PACKS
    MaxObjects,    \* MAX_CLOSURE_OBJECTS
    MaxEdges,      \* MAX_CLOSURE_EDGES
    WholeMax,      \* WHOLE_ACTIVE_PACK_MAX_BYTES
    WholeBudget,   \* WHOLE_ACTIVE_PACK_TOTAL_BUDGET
    MaxFaults      \* failing calls of one attempt

ASSUME BoundsAssumption ==
    /\ {Workers, RangeAttempts, MaxNodes, MaxPacks} \subseteq Nat \ {0}
    /\ {MaxDepth, MaxObjects, MaxEdges, WholeMax, WholeBudget, MaxFaults} \subseteq Nat

VARIABLES
    job,     \* the push and the catalog it is planned against
    advertised, \* advertisedReachable
    boundary,   \* what deriveIncomingBoundary returned
    pc,      \* where the attempt stands
    why,     \* why it failed, "none" until then
    roots,   \* the root ids being materialized, a sorted sequence
    next,    \* nextIndex into roots
    busy,    \* the roots whose promise a worker awaits
    done,    \* rootNodeByOid: the roots materialized so far
    stopped, \* a worker saw a failure
    nodes,   \* nodes and nodePromises: node -> [st, base, depth, tries]
    whole,   \* loadedByKey: pack -> [st, tries]
    reads,   \* the observed reads of active packs: [trailer, range, whole]
    plan,    \* the finished physical plan
    stored,  \* the keys of this attempt present in R2
    owned,   \* ownedImmutableKeys
    faults

vars == <<job, advertised, boundary, pc, why, roots, next, busy, done, stopped, nodes, whole, reads,
          plan, stored, owned, faults>>

Zero == 0
NoPlan == [roots |-> {}, nodes |-> {}, base |-> << >>, order |-> << >>, att |-> << >>]
NoNode == <<0, 0>>

Temporary == {"temp", "tempIdx", "tempRefs"}
Outputs == {"pack", "idx", "refs"}
Keys == {"input", "prereq", "manifest"} \cup Temporary \cup Outputs

-----------------------------------------------------------------------------
(* The push and the catalog.                                               *)

Packs == 1..Len(job.packs)
Nodes == UNION {{<<p, i>> : i \in 1..Len(job.packs[p].entries)} : p \in Packs}
EntryOf(n) == job.packs[n[1]].entries[n[2]]
Held == {EntryOf(n).oid : n \in Nodes}
Incoming == {e.oid : e \in Range(job.pack)}

Tips == {c.new : c \in job.commands} \ {Zero}
OldOids == {c.old : c \in job.commands} \ {Zero}

(* The limits in bytes a push may exceed: job.over is a subset of these.   *)
(* "capture" is the one that only keeps a push off the direct path.        *)
ByteLimits == {"metadata", "capture", "payload", "prereq", "manifest", "host", "output"}
Over(limit) == limit \in job.over

(* A closure of too many objects or too many references. *)
Oversized(set) ==
    \/ Cardinality(set) > MaxObjects
    \/ MapThenSumSet(LAMBDA o : Cardinality(Refs[o]), set) > MaxEdges

(* The ids reached from a set through Refs, expanding only those in scope. *)
RECURSIVE Reached(_, _)
Reached(set, scope) ==
    LET more == set \cup UNION {Refs[o] : o \in set \cap scope}
    IN  IF more = set THEN set ELSE Reached(more, scope)

(* deriveAdvertisedClosure; it fails when one of them is in no pack. *)
AdvertisedClosure == Reached(job.refs \ {Zero}, Held)

(* The bases the delta resolver asks the active packs for. *)
ThinBases == {e.base : e \in {d \in Range(job.pack) : d.kind = "ref"}} \ Incoming

-----------------------------------------------------------------------------
(* deriveIncomingBoundary.                                                 *)

Boundary ==
    LET new == Incoming \ advertised
        visited == Reached(Tips, new) \cap new
        edges == {<<v, t>> \in visited \X DOMAIN Refs : t \in Refs[v]}
    IN  [visited  |-> visited,
         edges    |-> edges,
         internal |-> {e \in edges : e[2] \in Incoming},
         external |-> (Tips \cup {e[2] : e \in edges}) \cap advertised]

NoBoundary == [visited |-> {}, edges |-> {}, internal |-> {}, external |-> {}]

(* Mutant of Open: a reference outside the pack is taken for known. *)
OpenTips(b) == ~(Tips \subseteq advertised \cup Incoming)

(* A tip that is nowhere, or a reference to what is neither pushed nor     *)
(* advertised.                                                             *)
Open(b) ==
    \/ ~(Tips \subseteq advertised \cup Incoming)
    \/ \E e \in b.edges : e[2] \notin Incoming \cup advertised

(* What the direct path admits. *)
DirectAdmitted(b) ==
    /\ job.direct /\ ~Over("capture")
    /\ Cardinality(job.commands) = 1
    /\ Incoming # {}
    /\ Incoming = b.visited
    /\ ThinBases \subseteq advertised \ b.external

RequiredRoots(b) ==
    IF DirectAdmitted(b) THEN ThinBases ELSE b.external \cup ThinBases \cup OldOids

-----------------------------------------------------------------------------
(* The candidates of an object and the base of an entry.                   *)

NodeBefore(m, n) == m[1] < n[1] \/ (m[1] = n[1] /\ m[2] < n[2])
Least(set) == CHOOSE n \in set : \A m \in set \ {n} : NodeBefore(n, m)

Candidates(oid) == {n \in Nodes : EntryOf(n).oid = oid}

(* Mutant of SelectCandidate: a copy already being read is preferred. *)
SelectCandidateRead(oid) ==
    LET all == Candidates(oid)
        known == all \cap DOMAIN nodes
    IN  IF all = {} THEN NoNode ELSE IF known # {} THEN Least(known) ELSE Least(all)

(* selectCandidate: the first copy in checksum order. *)
SelectCandidate(oid) == IF Candidates(oid) = {} THEN NoNode ELSE Least(Candidates(oid))

Base(n) ==
    CASE EntryOf(n).kind = "full" -> NoNode
      [] EntryOf(n).kind = "ofs"  -> <<n[1], EntryOf(n).base>>
      [] EntryOf(n).kind = "ref"  -> SelectCandidate(EntryOf(n).base)

RECURSIVE Walk(_, _)
Walk(n, seen) ==
    IF n \in seen \/ n = NoNode THEN seen
    ELSE Walk(IF n \in DOMAIN nodes THEN nodes[n].base ELSE NoNode, seen \cup {n})

(* Mutant of Acyclic: only a direct cycle is seen. *)
AcyclicSelf(n, base) == n # base

(* assertDependencyAcyclic: follow the bases set so far. *)
Acyclic(n, base) == n \notin Walk(base, {})

-----------------------------------------------------------------------------
(* Reading: whole small packs, exact ranges of the others.                 *)

Size(p) == job.packs[p].size

(* selectWholeActivePackKeys: in checksum order, within the budget.  On    *)
(* the direct path no pack is read whole.                                  *)
Selected ==
    LET Reserve(acc, p) ==
            IF Size(p) <= WholeMax /\ acc.bytes + Size(p) <= WholeBudget
            THEN [bytes |-> acc.bytes + Size(p), packs |-> acc.packs \cup {p}]
            ELSE acc
    IN  IF job.direct THEN {}
        ELSE FoldLeft(Reserve, [bytes |-> 0, packs |-> {}], [p \in Packs |-> p]).packs

(* observeReturnedActivePackBody: only a body of the expected length       *)
(* leaves a read behind; a failed or short one is discarded.               *)
Observed(count, complete) == IF complete THEN count + 1 ELSE count

(* readExactPackRangeWithRetry: what a read may be after a failed attempt. *)
(* An object that is not found is not tried again.                         *)
Retried(read) ==
    {[read EXCEPT !.tries = @ + 1, !.st = IF read.tries + 1 = RangeAttempts THEN "failed" ELSE @],
     [read EXCEPT !.st = "failed"]}

-----------------------------------------------------------------------------
(* Shorthands of the actions.                                              *)

Fault == faults < MaxFaults /\ faults' = faults + 1

Goto(next_pc) == pc' = next_pc /\ UNCHANGED why

(* An error of the planner: planStockReceive rolls back. *)
Refuse(reason) == pc' = "undo" /\ why' = reason

(* An error past the planner: the attempt is over, its cleanup pending. *)
Abandon(reason) == pc' = "failed" /\ why' = reason

context == <<job, advertised, boundary>>
search == <<roots, next, busy, done, stopped, nodes, whole, reads>>

Ascending(set) ==
    [i \in 1..Cardinality(set) |-> CHOOSE o \in set : Cardinality({m \in set : m < o}) = i - 1]

StartRoots(set) ==
    /\ roots' = Ascending(set)
    /\ next' = 1
    /\ stopped' = FALSE
    /\ UNCHANGED <<busy, done, nodes, whole, reads>>

-----------------------------------------------------------------------------
Init ==
    /\ job \in Jobs
    /\ advertised = {} /\ boundary = NoBoundary
    /\ pc = "load" /\ why = "none"
    /\ roots = << >> /\ next = 1 /\ busy = {} /\ done = {} /\ stopped = FALSE
    /\ nodes = << >>
    /\ whole = [p \in Packs |-> [st |-> "none", tries |-> 0]]
    /\ reads = [trailer |-> {}, range |-> [n \in Nodes |-> 0], whole |-> [p \in Packs |-> 0]]
    /\ plan = NoPlan
    /\ stored = {"input"} /\ owned = {} /\ faults = 0

(* loadBoundActivePacks and deriveAdvertisedClosure: index, references and *)
(* trailer of every active pack, bound to each other; none is retried.     *)
Load ==
    /\ pc = "load"
    /\ \/ Fault /\ Refuse("io") /\ UNCHANGED <<reads, advertised>>
       \/ /\ UNCHANGED faults
          /\ reads' = [reads EXCEPT !.trailer = Packs]
          /\ IF Len(job.packs) > MaxPacks THEN Refuse("pack-limit")
             ELSE IF Over("metadata") THEN Refuse("metadata-limit")
             ELSE IF Oversized(AdvertisedClosure) THEN Refuse("closure-limit")
             ELSE IF ~(AdvertisedClosure \subseteq Held) THEN Refuse("advertised-missing")
             ELSE Goto("stage")
          /\ advertised' = AdvertisedClosure
    /\ UNCHANGED <<job, boundary, roots, next, busy, done, stopped, nodes, whole, plan, stored, owned>>

(* putImmutableBytes of one key: it is created and owned, or the call      *)
(* fails with the object written or not.                                   *)
Put(key, next_pc) ==
    \/ stored' = stored \cup {key} /\ owned' = owned \cup {key} /\ Goto(next_pc) /\ UNCHANGED faults
    \/ /\ Fault /\ Refuse("io") /\ UNCHANGED owned
       /\ stored' \in {stored, stored \cup {key}}

(* The pushed pack is read and its checksum verified; off the direct path  *)
(* it is staged for the scanner.                                           *)
Stage ==
    /\ pc = "stage"
    /\ \/ Fault /\ Refuse("io") /\ UNCHANGED <<search, stored, owned>>
       \/ job.bad /\ Refuse("input") /\ UNCHANGED <<search, stored, owned, faults>>
       \/ ~job.bad /\ job.direct /\ Goto("thin") /\ StartRoots(ThinBases) /\ UNCHANGED <<stored, owned, faults>>
       \/ ~job.bad /\ ~job.direct /\ Put("temp", "thin") /\ StartRoots(ThinBases)
    /\ UNCHANGED <<context, plan>>

-----------------------------------------------------------------------------
(* materializeSemanticRoots: the delta resolver asks for thin bases one at *)
(* a time, the closure's roots are shared out between workers.             *)

Width == IF pc = "thin" THEN 1 ELSE Workers
Searching == pc \in {"thin", "roots"}
searchFrame == <<context, pc, why, roots, plan, stored, owned>>

NewNode(depth) == [st |-> "reading", base |-> NoNode, depth |-> depth, tries |-> 0]
Add(n, depth) == n :> NewNode(depth) @@ nodes

TakeRoot ==
    /\ Searching /\ ~stopped /\ next <= Len(roots) /\ Cardinality(busy) < Width
    /\ LET root == roots[next]
           n == SelectCandidate(root)
           known == n \in DOMAIN nodes
           full == Cardinality(DOMAIN nodes) >= MaxNodes
       IN  /\ next' = next + 1
           /\ IF root \in done THEN UNCHANGED <<busy, nodes, stopped>>
              ELSE IF n = NoNode \/ (~known /\ full)
              THEN stopped' = TRUE /\ UNCHANGED <<busy, nodes>>
              ELSE /\ busy' = busy \cup {root}
                   /\ nodes' = IF known THEN nodes ELSE Add(n, 0)
                   /\ UNCHANGED stopped
    /\ UNCHANGED <<searchFrame, done, whole, reads, faults>>

(* visit once the entry's bytes are there: a full object is finished, a    *)
(* delta goes on to its base, which it shares with whoever visits it.      *)
Decoded(n) ==
    LET e == EntryOf(n)
        base == Base(n)
        depth == nodes[n].depth + 1
        Now(st, b) == [nodes EXCEPT ![n].st = st, ![n].base = b]
    IN  IF e.kind = "full" THEN Now(IF n \in job.corrupt THEN "failed" ELSE "done", NoNode)
        ELSE IF base = NoNode \/ ~Acyclic(n, base) THEN Now("failed", NoNode)
        ELSE IF depth > MaxDepth THEN Now("failed", base)
        ELSE IF base \in DOMAIN nodes THEN Now("waiting", base)
        ELSE IF Cardinality(DOMAIN nodes) >= MaxNodes THEN Now("failed", base)
        ELSE base :> NewNode(depth) @@ Now("waiting", base)

(* readPackRange with exactLength. *)
ReadRange(n) ==
    /\ Searching
    /\ nodes[n].st = "reading" /\ n[1] \notin Selected
    /\ \/ reads' = [reads EXCEPT !.range[n] = Observed(@, TRUE)] /\ nodes' = Decoded(n) /\ UNCHANGED faults
       \/ Fault /\ reads' = [reads EXCEPT !.range[n] = Observed(@, FALSE)]
          /\ \E read \in Retried(nodes[n]) : nodes' = [nodes EXCEPT ![n] = read]
    /\ UNCHANGED <<searchFrame, next, busy, done, stopped, whole>>

(* createBoundedWholePackReader: one load of a pack serves all its nodes. *)
ReadWhole(p) ==
    /\ Searching
    /\ p \in Selected /\ whole[p].st = "none"
    /\ \E n \in DOMAIN nodes : n[1] = p /\ nodes[n].st = "reading"
    /\ \/ reads' = [reads EXCEPT !.whole[p] = Observed(@, TRUE)]
          /\ whole' = [whole EXCEPT ![p].st = "loaded"] /\ UNCHANGED faults
       \/ Fault /\ reads' = [reads EXCEPT !.whole[p] = Observed(@, FALSE)]
          /\ \E read \in Retried(whole[p]) : whole' = [whole EXCEPT ![p] = read]
    /\ UNCHANGED <<searchFrame, next, busy, done, stopped, nodes>>

Decode(n) ==
    /\ Searching
    /\ nodes[n].st = "reading" /\ n[1] \in Selected
    /\ \/ whole[n[1]].st = "loaded" /\ nodes' = Decoded(n)
       \/ whole[n[1]].st = "failed" /\ nodes' = [nodes EXCEPT ![n].st = "failed"]
    /\ UNCHANGED <<searchFrame, next, busy, done, stopped, whole, reads, faults>>

(* The base arrived: apply the delta and compare the object's name. *)
Settle(n) ==
    /\ Searching
    /\ nodes[n].st = "waiting" /\ nodes[nodes[n].base].st \in {"done", "failed"}
    /\ nodes' = [nodes EXCEPT ![n].st =
                    IF n \in job.corrupt THEN "failed" ELSE nodes[nodes[n].base].st]
    /\ UNCHANGED <<searchFrame, next, busy, done, stopped, whole, reads, faults>>

(* A worker's root is settled; a failure keeps every worker from starting  *)
(* another.                                                                *)
Finish(root) ==
    /\ Searching
    /\ LET st == nodes[SelectCandidate(root)].st IN
       /\ st \in {"done", "failed"}
       /\ done' = IF st = "done" THEN done \cup {root} ELSE done
       /\ stopped' = (stopped \/ st = "failed")
    /\ busy' = busy \ {root}
    /\ UNCHANGED <<searchFrame, next, nodes, whole, reads, faults>>

SearchOver == Searching /\ busy = {} /\ (stopped \/ next > Len(roots))

(* The resolver is done: off the direct path it stores the index and the   *)
(* references of the staged pack.                                          *)
EndThin ==
    /\ pc = "thin" /\ SearchOver
    /\ \/ stopped /\ Refuse("dependency") /\ UNCHANGED <<stored, faults>>
       \/ ~stopped /\ UNCHANGED faults /\ Goto("analyse")
          /\ stored' = IF job.direct THEN stored ELSE stored \cup {"tempIdx", "tempRefs"}
       \/ ~stopped /\ ~job.direct /\ Fault /\ Refuse("io")
          /\ stored' \in {stored, stored \cup {"tempIdx"}, stored \cup {"tempIdx", "tempRefs"}}
    /\ UNCHANGED <<context, search, plan, owned>>

(* The boundary of the push and the roots it requires. *)
Analyse ==
    /\ pc = "analyse"
    /\ \E b \in {Boundary} :
        IF Open(b) THEN Refuse("open-closure") /\ UNCHANGED <<search, boundary>>
        ELSE IF Oversized(b.visited) THEN Refuse("closure-limit") /\ UNCHANGED <<search, boundary>>
        ELSE /\ boundary' = b
             /\ IF ~(Incoming \subseteq b.visited \cup advertised)
                THEN Refuse("unreachable-input") /\ UNCHANGED search
                ELSE IF Cardinality(RequiredRoots(b)) > MaxNodes
                THEN Refuse("root-limit") /\ UNCHANGED search
                ELSE Goto("roots") /\ StartRoots(RequiredRoots(b))
    /\ UNCHANGED <<job, advertised, plan, stored, owned, faults>>

-----------------------------------------------------------------------------
(* finalize: the canonical plan, and the reads it must account for.        *)

RECURSIVE Chain(_)
Chain(n) == IF n = NoNode THEN {} ELSE {n} \cup Chain(nodes[n].base)

(* attachSemanticRoot: a root belongs to every node its node rests on. *)
Attach(root, n) == n \in Chain(SelectCandidate(root))

(* Of the nodes whose base stands already, the first in pack order. *)
Topological[seq \in Seq(Nodes)] ==
    LET ready == {n \in DOMAIN nodes \ ToSet(seq) : nodes[n].base \in ToSet(seq) \cup {NoNode}}
    IN  IF ready = {} THEN seq ELSE Topological[Append(seq, Least(ready))]

Finalized ==
    [roots |-> ToSet(roots),
     nodes |-> DOMAIN nodes,
     base  |-> [n \in DOMAIN nodes |-> nodes[n].base],
     order |-> Topological[<< >>],
     att   |-> [n \in DOMAIN nodes |-> {r \in ToSet(roots) : Attach(r, n)}]]

(* reconcileActivePackReads: one trailer per pack, at most one whole read, *)
(* and exactly one range per node of a pack that was not read whole.       *)
Reconciled ==
    LET wholly == {p \in Packs : reads.whole[p] > 0} IN
    /\ reads.trailer = Packs
    /\ \A p \in Packs : reads.whole[p] <= 1
    /\ \A n \in Nodes :
        reads.range[n] = IF n \in DOMAIN nodes /\ n[1] \notin wholly THEN 1 ELSE 0

Finalize ==
    /\ pc = "roots" /\ SearchOver
    /\ IF stopped THEN Refuse("dependency") /\ UNCHANGED plan
       ELSE IF ~DirectAdmitted(boundary) /\ Over("payload")
       THEN Refuse("payload-limit") /\ UNCHANGED plan
       ELSE IF ~Reconciled THEN Refuse("reads") /\ UNCHANGED plan
       ELSE plan' = Finalized /\ Goto(IF DirectAdmitted(boundary) THEN "publish" ELSE "prereq")
    /\ UNCHANGED <<context, search, stored, owned, faults>>

-----------------------------------------------------------------------------
(* Publishing what was planned, and taking it back.                        *)

(* A document beyond its limit is not stored. *)
TooLarge(limit) == Over(limit) /\ Refuse("size-limit") /\ UNCHANGED <<stored, owned, faults>>

PutPrerequisite ==
    /\ pc = "prereq"
    /\ TooLarge("prereq") \/ (~Over("prereq") /\ Put("prereq", "manifest"))
    /\ UNCHANGED <<context, search, plan>>

PutManifest ==
    /\ pc = "manifest"
    /\ \/ TooLarge("manifest")
       \/ ~Over("manifest") /\ Put("manifest", IF job.direct THEN "host" ELSE "tidy")
    /\ UNCHANGED <<context, search, plan>>

(* deletePlannerKeys: every key is tried; some may stay. *)
Deleted(keys) == {stored \ gone : gone \in SUBSET keys}

Tidy ==
    /\ pc = "tidy"
    /\ \/ stored' = stored \ Temporary /\ owned' = owned \ {"temp"} /\ Goto("host") /\ UNCHANGED faults
       \/ Fault /\ Refuse("io") /\ stored' \in Deleted(Temporary) /\ UNCHANGED owned
    /\ UNCHANGED <<context, search, plan>>

Published == {"manifest"} \cup Outputs

(* The direct path publishes the manifest and the three outputs at once;   *)
(* what was written by the calls that answered is owned.                   *)
Publish ==
    /\ pc = "publish"
    /\ \/ TooLarge("manifest")
       \/ /\ ~Over("manifest")
          /\ \E failed \in SUBSET Published : \E written \in SUBSET failed :
                LET answered == Published \ failed IN
                /\ faults + Cardinality(failed) <= MaxFaults
                /\ faults' = faults + Cardinality(failed)
                /\ stored' = stored \cup answered \cup written
                /\ owned' = owned \cup answered
                /\ IF failed = {} THEN Goto("verify") ELSE Refuse("io")
    /\ UNCHANGED <<context, search, plan>>

(* planStockReceive's catch. *)
UndoKeys == (IF job.direct THEN {} ELSE Temporary) \cup (owned \ {"temp"})
Undo ==
    /\ pc = "undo"
    /\ pc' = "failed" /\ UNCHANGED why
    /\ \/ stored' = stored \ UndoKeys /\ UNCHANGED faults
       \/ Fault /\ stored' \in Deleted(UndoKeys)
    /\ UNCHANGED <<context, search, plan, owned>>

-----------------------------------------------------------------------------
(* The Container (validateStockClosureManifest, validateStockPhysicalGraph,*)
(* the pre-receive hook and validateStockClosureProof).                    *)

RECURSIVE ChainOf(_)
ChainOf(n) == IF n = NoNode THEN {} ELSE {n} \cup ChainOf(plan.base[n])

(* validateStockPhysicalGraph. *)
GraphValid ==
    /\ \A i, j \in 1..Len(plan.order) : plan.base[plan.order[j]] = plan.order[i] => i < j
    /\ \A n \in plan.nodes : Cardinality(ChainOf(n)) <= MaxDepth + 1
    /\ \A n \in plan.nodes :
        plan.att[n] = (plan.roots \cap {EntryOf(n).oid})
                      \cup UNION {plan.att[m] : m \in {d \in plan.nodes : plan.base[d] = n}}
    /\ \A r \in plan.roots : \E n \in plan.nodes : EntryOf(n).oid = r /\ r \in plan.att[n]

(* validateStockClosureManifest. *)
ManifestValid ==
    /\ ThinBases \cap boundary.external = {}
    /\ plan.roots = boundary.external \cup ThinBases \cup OldOids
    /\ GraphValid

(* The pre-receive hook (verifyStockLogicalClosure) counts a reference as  *)
(* internal unless it is advertised; the planner, when its target was      *)
(* pushed.                                                                 *)
ClosureValid == {e \in boundary.edges : e[2] \notin advertised} = boundary.internal

RefOnly == boundary.visited = {}

(* processStockReceive: the verdict of receive-pack in the Container, and  *)
(* the bounds on what goes in and comes out.                               *)
ReceivePack ==
    IF ~ManifestValid THEN "manifest"
    ELSE IF ~ClosureValid THEN "closure"
    ELSE IF Over("host") \/ (Over("output") /\ ~RefOnly) THEN "bundle-limit"
    ELSE "ok"

(* executeStreamingContainer. *)
Host ==
    /\ pc = "host"
    /\ \/ Fault /\ Abandon("io")
       \/ /\ UNCHANGED faults
          /\ \E verdict \in {ReceivePack} :
                IF verdict # "ok" THEN Abandon(verdict)
                ELSE Goto(IF RefOnly THEN "proof" ELSE "upload")
    /\ UNCHANGED <<context, search, plan, stored, owned>>

(* receiveArtifact: pack, index, references; a put that fails is read back *)
(* and accepted when the object is there.                                  *)
Upload ==
    /\ pc = "upload"
    /\ \E key \in Outputs \ stored :
        /\ key = "idx" => "pack" \in stored
        /\ key = "refs" => "idx" \in stored
        /\ \/ UNCHANGED faults /\ stored' = stored \cup {key}
              /\ Goto(IF key = "refs" THEN "verify" ELSE "upload")
           \/ Fault /\ stored' = stored \cup {key} /\ Goto(IF key = "refs" THEN "verify" ELSE "upload")
           \/ Fault /\ UNCHANGED stored /\ Abandon("io")
    /\ UNCHANGED <<context, search, plan, owned>>

(* The outputs are read back and digested. *)
Verify ==
    /\ pc = "verify"
    /\ \/ UNCHANGED faults /\ IF Over("output") THEN Abandon("output-limit") ELSE Goto("proof")
       \/ Fault /\ Abandon("io")
    /\ UNCHANGED <<context, search, plan, stored, owned>>

-----------------------------------------------------------------------------
(* The proof (stockReceivePreparedProofFailure, physicalPlanValid).        *)

(* receive-pack completes the pushed pack with its thin bases; the direct  *)
(* path repacks the pushed objects without deltas.                         *)
Output == IF RefOnly THEN {} ELSE IF DirectAdmitted(boundary) THEN Incoming ELSE Incoming \cup ThinBases

(* physicalPlanValid. *)
PhysicalPlanValid ==
    /\ \A n \in plan.nodes : Cardinality(ChainOf(n)) <= MaxDepth + 1
    /\ \A r \in plan.roots : Cardinality({n \in plan.nodes : EntryOf(n).oid = r}) = 1
    /\ \A n \in plan.nodes :
        plan.att[n] = {r \in plan.roots : \E m \in plan.nodes : EntryOf(m).oid = r /\ n \in ChainOf(m)}

(* The read accounting of the proof, once more from the recorded reads. *)
Accounted ==
    LET wholly == {p \in Packs : reads.whole[p] > 0} IN
    /\ reads.trailer = Packs
    /\ \A p \in wholly : reads.whole[p] = 1 /\ \E n \in plan.nodes : n[1] = p
    /\ \A n \in Nodes : reads.range[n] = IF n \in plan.nodes /\ n[1] \notin wholly THEN 1 ELSE 0

(* directPackPreparedProofFailure finds nothing. *)
DirectProofValid ==
    /\ Output = Incoming /\ Incoming = boundary.visited
    /\ plan.roots = ThinBases
    /\ ThinBases \cap boundary.external = {}

(* stockReceivePreparedProofFailure finds nothing. *)
StockProofValid ==
    /\ Cardinality(Output) = IF RefOnly THEN 0 ELSE Cardinality(boundary.visited) + Cardinality(ThinBases)
    /\ ThinBases \cap boundary.external = {}
    /\ plan.roots = boundary.external \cup ThinBases \cup OldOids

Proof ==
    /\ pc = "proof"
    /\ IF /\ IF DirectAdmitted(boundary) THEN DirectProofValid ELSE StockProofValid
          /\ PhysicalPlanValid
          /\ Accounted
       THEN Goto("prepared") ELSE Abandon("proof")
    /\ UNCHANGED <<context, search, plan, stored, owned, faults>>

(* The Worker is evicted: nothing is rolled back. *)
Evict ==
    /\ pc \notin {"failed", "prepared", "cleaned", "landed"}
    /\ Fault /\ Abandon("evicted")
    /\ UNCHANGED <<context, search, plan, stored, owned>>

(* cleanupStockReceiveWorkerDataPlane, after a failure with the outputs,   *)
(* after a landed push without them; the pipeline repeats it until it      *)
(* succeeds.                                                               *)
CleanupKeys(includeOutputs) ==
    {"input", "prereq", "manifest"} \cup Temporary \cup (IF includeOutputs THEN Outputs ELSE {})

Cleanup ==
    /\ pc \in {"failed", "prepared"}
    /\ \/ stored' = stored \ CleanupKeys(pc = "failed") /\ UNCHANGED faults
          /\ Goto(IF pc = "failed" THEN "cleaned" ELSE "landed")
       \/ Fault /\ stored' \in Deleted(CleanupKeys(pc = "failed")) /\ UNCHANGED <<pc, why>>
    /\ UNCHANGED <<context, search, plan, owned>>

-----------------------------------------------------------------------------
Step ==
    \/ Load \/ Stage \/ TakeRoot
    \/ \E n \in DOMAIN nodes : ReadRange(n) \/ Decode(n) \/ Settle(n)
    \/ \E p \in Packs : ReadWhole(p)
    \/ \E r \in busy : Finish(r)
    \/ EndThin \/ Analyse \/ Finalize
    \/ PutPrerequisite \/ PutManifest \/ Tidy \/ Publish \/ Undo
    \/ Host \/ Upload \/ Verify \/ Proof \/ Cleanup

Next == Step \/ Evict

Spec == Init /\ [][Next]_vars

(* The planner's promises and the pipeline's retries go on. *)
LiveSpec == Spec /\ WF_vars(Step)

-----------------------------------------------------------------------------
TypeOK ==
    /\ pc \in {"load", "stage", "thin", "analyse", "roots", "prereq", "manifest", "tidy", "publish",
               "undo", "host", "upload", "verify", "proof", "prepared", "failed", "cleaned", "landed"}
    /\ next \in 1..(Len(roots) + 1) /\ stopped \in BOOLEAN
    /\ busy \subseteq ToSet(roots) /\ done \subseteq Held /\ Cardinality(busy) <= Workers
    /\ DOMAIN nodes \subseteq Nodes /\ Cardinality(DOMAIN nodes) <= MaxNodes
    /\ \A n \in DOMAIN nodes :
        /\ nodes[n].st \in {"reading", "waiting", "done", "failed"}
        /\ nodes[n].st = "waiting" => nodes[n].base \in DOMAIN nodes
        /\ nodes[n].depth \in 0..MaxDepth /\ nodes[n].tries \in 0..RangeAttempts
    /\ stored \subseteq Keys /\ owned \subseteq Keys \ {"input"} /\ faults \in 0..MaxFaults
    /\ job.over \subseteq ByteLimits

(* The reads that served a completed search are accounted for, whatever    *)
(* was retried on the way and whoever shared a node or a pack.             *)
ReadsAccounted == why # "reads"

(* The reference: the first copy of an object, and what an entry rests on. *)
FirstCopy(oid) ==
    IF Candidates(oid) = {} THEN NoNode
    ELSE CHOOSE n \in Candidates(oid) : \A m \in Candidates(oid) : ~NodeBefore(m, n)
BaseEntry(n) ==
    CASE EntryOf(n).kind = "full" -> NoNode
      [] EntryOf(n).kind = "ofs"  -> <<n[1], EntryOf(n).base>>
      [] EntryOf(n).kind = "ref"  -> FirstCopy(EntryOf(n).base)
RECURSIVE Supports(_)
Supports(set) ==
    LET more == set \cup ({BaseEntry(n) : n \in set} \ {NoNode})
    IN  IF more = set THEN set ELSE Supports(more)
Support(oid) == Supports({FirstCopy(oid)} \ {NoNode})

(* Whichever order the workers found the nodes in, a finished plan is the  *)
(* one the roots determine: the first copies and what they rest on, each   *)
(* attributed to the roots above it, base first and otherwise in pack      *)
(* order.                                                                  *)
PlanCanonical ==
    pc \in {"prereq", "publish"} =>
        LET place == [n \in plan.nodes |-> CHOOSE i \in 1..Len(plan.order) : plan.order[i] = n] IN
        /\ plan.nodes = UNION {Support(r) : r \in plan.roots}
        /\ \A n \in plan.nodes : plan.att[n] = {r \in plan.roots : n \in Support(r)}
        /\ ToSet(plan.order) = plan.nodes /\ Len(plan.order) = Cardinality(plan.nodes)
        /\ \A m, n \in plan.nodes :
            /\ BaseEntry(n) = m => place[m] < place[n]
            /\ NodeBefore(n, m) /\ place[m] < place[n] =>
                BaseEntry(n) # NoNode /\ place[m] <= place[BaseEntry(n)]

(* What RepoDO may land is closed: its outputs are stored and every object *)
(* reached from the new tips is in them or was advertised before.          *)
PreparedClosed ==
    pc \in {"prepared", "landed"} =>
        /\ RefOnly \/ Outputs \subseteq stored
        /\ Reached(Tips, Held \cup Incoming) \subseteq Output \cup advertised

(* The pushes the validators refuse by intent or by disagreement: a thin   *)
(* base that is a boundary object too; a root with a second copy among the *)
(* nodes; a pack that also holds advertised objects.                       *)
Needs == ThinBases \cup (IF DirectAdmitted(boundary) THEN {} ELSE boundary.external \cup OldOids)
Overlap == ~DirectAdmitted(boundary) /\ ThinBases \cap boundary.external # {}
Twin ==
    LET all == UNION {Support(r) : r \in Needs} IN
    \E r \in Needs : Cardinality({n \in all : EntryOf(n).oid = r}) > 1
Partial == boundary.visited # {} /\ Incoming \cap advertised # {}

Supported(oid) ==
    /\ FirstCopy(oid) # NoNode
    /\ Cardinality(Support(oid)) <= MaxDepth + 1
    /\ \A n \in Support(oid) :
        /\ n \notin job.corrupt
        /\ EntryOf(n).kind # "full" => BaseEntry(n) # NoNode /\ n \notin Supports({BaseEntry(n)})

(* Every limit on the way of the push is kept. *)
Fits ==
    LET limits == IF DirectAdmitted(boundary) THEN {"manifest", "output"}
                  ELSE {"payload", "prereq", "manifest", "host"} \cup (IF RefOnly THEN {} ELSE {"output"})
    IN /\ ~Oversized(advertised) /\ ~Oversized(Boundary.visited)
       /\ job.over \cap ({"metadata"} \cup limits) = {}

Acceptable ==
    /\ ~job.bad /\ Len(job.packs) <= MaxPacks /\ AdvertisedClosure \subseteq Held
    /\ Reached(Tips, Held \cup Incoming) \subseteq Incoming \cup advertised
    /\ Incoming \subseteq Reached(Tips, Held \cup Incoming) \cup advertised
    /\ Cardinality(UNION {Support(r) : r \in Needs}) <= MaxNodes
    /\ \A r \in Needs : Supported(r)
    /\ ~Overlap /\ ~Twin /\ ~Partial /\ Fits

(* The planner, the Container and the proof agree: when no call fails, a   *)
(* push is prepared exactly when it is acceptable, within every limit on   *)
(* its way, whatever the schedule.                                         *)
AcceptedExactly ==
    /\ pc \in {"prepared", "landed"} => Acceptable
    /\ pc = "cleaned" /\ faults = 0 => ~Acceptable

(* A refused plan takes back what it wrote, and the cleanup that finally   *)
(* succeeds leaves the landed outputs or nothing, wherever a call failed,  *)
(* was written without an answer, or the Worker was evicted.               *)
NothingLeft ==
    /\ pc = "failed" /\ faults = 0 /\ plan = NoPlan => stored = {"input"}
    /\ pc = "cleaned" => stored = {}
    /\ pc = "landed" => stored = IF RefOnly THEN {} ELSE Outputs

(* Every attempt ends: no two workers wait for each other's nodes. *)
Ends == <>(pc \in {"cleaned", "landed"})

(* Plan, account of reads and verdict depend on the push alone, never on   *)
(* the order in which the workers read.                                    *)
PlanExact ==
  /\ TypeOK
  /\ ReadsAccounted
  /\ PlanCanonical
  /\ AcceptedExactly

(* What may be served is complete, and nothing else stays.                 *)
OutputsClosed ==
  /\ PreparedClosed
  /\ NothingLeft
=============================================================================
