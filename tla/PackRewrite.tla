---------------------------- MODULE PackRewrite ----------------------------
(***************************************************************************)
(* The pack rewriter: from an ordered snapshot of packs and the objects a  *)
(* reader needs, one output pack in which every object stands once and     *)
(* every delta follows its base (src/src/worker/git/pack/rewrite.ts and    *)
(* pack/rewrite/).  Fetch streams its output; compaction stores it.        *)
(*                                                                         *)
(* A pack is a sequence of entries in offset order.  An entry is a record  *)
(* [oid, kind, base]: kind "full" (base unused), "ofs" (base = position of *)
(* an earlier entry of the same pack) or "ref" (base = an object id).      *)
(* A row of the selection table is one selected entry; a slot is its index *)
(* in the sequence rows, 0 stands for the code's -1.                       *)
(***************************************************************************)
EXTENDS Naturals, Sequences, FiniteSets, SequencesExt, FiniteSetsExt

CONSTANTS
    OID,            \* object ids
    PayloadLength,  \* compressed payload bytes of every entry
    VarintStep,     \* distances below it take one byte, below its square two
    StabilityCap,   \* HEADER_STABILITY_CAP
    SyntheticMax,   \* SYNTHETIC_PAYLOAD_TOTAL_MAX_BYTES
    OutputMax       \* bytes an output pack may have: 0xffff_ffff

ASSUME LayoutAssumption ==
    /\ PayloadLength \in Nat \ {0}
    /\ VarintStep \in Nat \ {0, 1}
    /\ StabilityCap \in Nat \ {0}
    /\ SyntheticMax \in Nat /\ OutputMax \in Nat

VARIABLES
    packs,    \* the snapshot: a sequence of packs
    large,    \* objects over SYNTHETIC_OBJECT_MAX_BYTES
    needed,   \* neededOids, a sequence without repetitions
    phase,    \* where the rewrite stands
    rows,     \* SelectionTable
    dedup,    \* dedupMap: position -> slot, 0 when absent
    owners,   \* oidOwners: object id -> slot, 0 when absent
    dead,     \* deadSlots, the Map in insertion order: pairs <<dead, target>>
    batch,    \* rows the current pass still has to visit
    queue,    \* secondaryQueue
    order,    \* outputOrder once computed
    layout,   \* outputHeaderLens by slot once computed
    reason    \* the recorded failure

rvars == <<packs, large, needed, phase, rows, dedup, owners, dead, batch, queue,
           order, layout, reason>>

Absent == "absent"

-----------------------------------------------------------------------------
(* The snapshot.                                                           *)

Positions(ps) == UNION {{<<p, i>> : i \in 1..Len(ps[p])} : p \in 1..Len(ps)}

Entry(ps, at) == ps[at[1]][at[2]]

Before(at, bt) == at[1] < bt[1] \/ (at[1] = bt[1] /\ at[2] < bt[2])

(* collectPackedObjectCandidates: every entry of an object, packs in       *)
(* snapshot order.                                                         *)
Candidates(ps, oid) ==
    SetToSortSeq({at \in Positions(ps) : Entry(ps, at).oid = oid}, Before)

Delta(kind) == kind \in {"ofs", "ref"}

(* materializeCandidate and the snapshot's resolveRefBase: an entry can be *)
(* inflated when its base can be, an entry already on the path is a miss,  *)
(* and a reference base is tried at each of its candidates.                *)
RECURSIVE Materializes(_, _, _)
Materializes(ps, at, visited) ==
    LET e == Entry(ps, at) IN
    /\ at \notin visited
    /\ CASE e.kind = "full" -> TRUE
         [] e.kind = "ofs"  -> Materializes(ps, <<at[1], e.base>>, visited \cup {at})
         [] e.kind = "ref"  -> \E c \in Range(Candidates(ps, e.base)) :
                                   Materializes(ps, c, visited \cup {at})

Materializable(ps, oid) ==
    \E c \in Range(Candidates(ps, oid)) : Materializes(ps, c, {})

-----------------------------------------------------------------------------
(* The selection table.                                                    *)

Row(ps, at) == [at |-> at, oid |-> Entry(ps, at).oid, type |-> "unread",
                base |-> 0, pinned |-> FALSE, queued |-> FALSE, synthetic |-> FALSE]

(* addEntry: the slot of a position, appended when it has none. *)
Added(t, at) ==
    IF t.dedup[at] # 0 THEN t
    ELSE [t EXCEPT !.rows = Append(@, Row(packs, at)), !.dedup[at] = Len(t.rows) + 1]

(* selectionDependsOn: a bounded walk along the base slots. *)
DependsOn(rs, start, target) ==
    LET walk[d \in 0..Len(rs), cur \in 1..Len(rs)] ==
            IF d = 0 \/ rs[cur].base = 0 THEN FALSE
            ELSE rs[cur].base = target \/ walk[d - 1, rs[cur].base]
    IN walk[Len(rs), start]

(* compareSelectionSlots, sortSelectionSlots *)
SortSlots(rs, slots) ==
    SetToSortSeq(Range(slots),
        LAMBDA a, b : Before(rs[a].at, rs[b].at) \/ (rs[a].at = rs[b].at /\ a < b))

(* Map.set keeps the place of a key it already holds. *)
Put(m, k, v) ==
    LET at == {i \in 1..Len(m) : m[i][1] = k} IN
    IF at = {} THEN Append(m, <<k, v>>) ELSE [m EXCEPT ![CHOOSE i \in at : TRUE] = <<k, v>>]

Dropped(m, k) == SelectSeq(m, LAMBDA e : e[1] # k)

Keys(m) == {m[i][1] : i \in 1..Len(m)}

(* resolveDeadSlotRedirect: follow the redirects, at most one more step    *)
(* than there are.                                                         *)
Redirect(m, slot) ==
    LET step(s) == IF s \in Keys(m) THEN (CHOOSE e \in Range(m) : e[1] = s)[2] ELSE s
        walk[d \in 0..(Len(m) + 1)] == IF d = 0 THEN slot ELSE step(walk[d - 1])
    IN walk[Len(m) + 1]

-----------------------------------------------------------------------------
(* Wiring a delta row to its base.  t is the part of the state the header  *)
(* pass works on: [rows, dedup, owners, dead, queue, failed].              *)

Wire(t, slot, base) ==
    LET fresh == t.rows[base].type = "unread" /\ ~t.rows[base].queued IN
    [t EXCEPT !.rows[slot].base = base,
              !.rows[base].queued = @ \/ fresh,
              !.queue = IF fresh THEN Append(@, base) ELSE @]

(* The OFS_DELTA arm of resolveDeltaBaseFromHeader: the base stays in its  *)
(* own pack and is pinned.                                                 *)
ResolveOfs(t, slot) ==
    LET at == t.rows[slot].at
        baseAt == <<at[1], Entry(packs, at).base>>
        u == Added(t, baseAt)
        base == u.dedup[baseAt]
        v == [u EXCEPT !.rows[base].pinned = TRUE]
    IN IF base = slot THEN [v EXCEPT !.failed = "self-referential-ofs-delta"]
       ELSE Wire(v, slot, base)

(* Mutant of RefCandidates: only the row itself is excluded. *)
RefCandidatesUnchecked(t, slot) ==
    SelectSeq(Candidates(packs, Entry(packs, t.rows[slot].at).base),
        LAMBDA c : c # t.rows[slot].at)

(* chooseRefDeltaBase: the first candidate that does not lead back to the  *)
(* row, selected or not; 0 when every one does or there is none.           *)
RefCandidates(t, slot) ==
    SelectSeq(Candidates(packs, Entry(packs, t.rows[slot].at).base),
        LAMBDA c : /\ c # t.rows[slot].at
                   /\ \/ t.dedup[c] = 0
                      \/ t.dedup[c] # slot /\ ~DependsOn(t.rows, t.dedup[c], slot))

(* materializeSelectionAsFullObject: the row becomes the whole object,     *)
(* unless the object, or all such objects together, are too large.         *)
SyntheticTotal(t, slot) ==
    PayloadLength * (1 + Cardinality({s \in 1..Len(t.rows) : s # slot /\ t.rows[s].synthetic}))

Materialized(t, slot) ==
    IF ~Materializable(packs, t.rows[slot].oid)
    THEN [t EXCEPT !.failed = "cycle-breaker-materialize-miss"]
    ELSE IF t.rows[slot].oid \in large THEN [t EXCEPT !.failed = "synthetic-object-too-large"]
    ELSE IF SyntheticTotal(t, slot) > SyntheticMax
    THEN [t EXCEPT !.failed = "synthetic-payload-budget-exceeded"]
    ELSE [t EXCEPT !.rows[slot] = [@ EXCEPT !.type = "full", !.base = 0, !.queued = FALSE,
                                            !.synthetic = TRUE]]

ResolveRef(t, slot) ==
    LET cs == RefCandidates(t, slot) IN
    IF cs = <<>> THEN Materialized(t, slot)
    ELSE LET u == Added(t, cs[1]) IN Wire(u, slot, u.dedup[cs[1]])

ResolveBase(t, slot) ==
    LET kind == Entry(packs, t.rows[slot].at).kind IN
    CASE kind = "ofs" -> ResolveOfs(t, slot)
      [] kind = "ref" -> ResolveRef(t, slot)
      [] OTHER -> t

-----------------------------------------------------------------------------
(* claimCanonicalOwner: one live row per object.                           *)

(* upgradeOwnerSelectionToFull: the owner's slot takes the full duplicate. *)
Upgraded(t, owner, slot) ==
    [t EXCEPT !.rows[owner] = [t.rows[slot] EXCEPT !.pinned = t.rows[owner].pinned, !.base = 0]]

(* An object that has an owner: a pinned delta reclaims it from an owner   *)
(* that is not pinned; otherwise the row is redirected to the owner, which *)
(* a full row first upgrades when it is an unpinned delta.                 *)
Takeover(t, slot, owner) ==
    t.rows[slot].pinned /\ Delta(t.rows[slot].type) /\ ~t.rows[owner].pinned

ClaimOwned(t, slot, owner) ==
    IF Takeover(t, slot, owner) THEN
        LET u == ResolveBase([t EXCEPT !.owners[t.rows[slot].oid] = slot], slot)
        IN [u EXCEPT !.dead = Put(Dropped(@, slot), owner, slot)]
    ELSE
        LET u == [t EXCEPT !.dedup[t.rows[slot].at] = owner]
            v == IF ~t.rows[owner].pinned /\ ~Delta(t.rows[slot].type) /\ Delta(t.rows[owner].type)
                 THEN Upgraded(u, owner, slot) ELSE u
        IN [v EXCEPT !.dead = Put(@, slot, owner)]

(* tryCanonicalizeDeltaSelectionToFull: the first full duplicate of an     *)
(* unowned, unpinned delta.  (The identical re-imported pack the code      *)
(* skips holds the same delta at the same place, so no full duplicate.)    *)
FullDuplicates(t, slot) ==
    SelectSeq(Candidates(packs, t.rows[slot].oid),
        LAMBDA c : c # t.rows[slot].at /\ Entry(packs, c).kind = "full")

ClaimFull(t, slot, alt) ==
    LET existing == t.dedup[alt] IN
    IF existing # 0 /\ existing # slot
    THEN [t EXCEPT !.dedup[t.rows[slot].at] = existing, !.owners[t.rows[slot].oid] = existing,
                   !.dead = Put(@, slot, existing)]
    ELSE [t EXCEPT !.dedup[alt] = slot, !.owners[t.rows[slot].oid] = slot,
                   !.rows[slot] = [@ EXCEPT !.at = alt, !.type = "full", !.base = 0,
                                            !.synthetic = FALSE]]

Claim(t, slot) ==
    LET owner == t.owners[t.rows[slot].oid]
        full == FullDuplicates(t, slot)
    IN  IF owner = slot THEN ResolveBase(t, slot)
        ELSE IF owner # 0 THEN ClaimOwned(t, slot, owner)
        ELSE IF ~t.rows[slot].pinned /\ Delta(t.rows[slot].type) /\ full # <<>>
             THEN ClaimFull(t, slot, full[1])
        ELSE ResolveBase([t EXCEPT !.owners[t.rows[slot].oid] = slot], slot)

-----------------------------------------------------------------------------
(* Redirects that must not be compacted away.                              *)

(* One pass of pruneUnsafeDeadSlotRedirects over the keys in order: each   *)
(* redirect whose target is itself, or depends on the dead row, is dropped *)
(* at once.                                                                *)
PruneOnce(rs, m) ==
    FoldLeft(LAMBDA acc, e :
                 LET target == Redirect(acc, e[1]) IN
                 IF target = e[1] \/ DependsOn(rs, target, e[1]) THEN Dropped(acc, e[1]) ELSE acc,
             m, m)

RECURSIVE SafeDead(_, _)
SafeDead(rs, m) == LET n == PruneOnce(rs, m) IN IF n = m THEN m ELSE SafeDead(rs, n)

(* collectRetainedRedirectsNeedingBaseResolution *)
Retained(rs, m) ==
    SelectSeq([i \in 1..Len(m) |-> m[i][1]],
        LAMBDA s : /\ s \notin Keys(SafeDead(rs, m))
                   /\ Delta(rs[s].type) /\ rs[s].base = 0)

(* findNearestRedirectDependency *)
Nearest(rs, target, m) ==
    LET walk[d \in 0..Len(rs), cur \in 1..Len(rs)] ==
            IF d = 0 \/ rs[cur].base = 0 THEN 0
            ELSE IF Redirect(m, rs[cur].base) = target THEN rs[cur].base
            ELSE walk[d - 1, rs[cur].base]
    IN walk[Len(rs), target]

(* collectUnsafeRedirectOwnerRewrites: target slots, each with the row it  *)
(* is to be rewritten from.                                                *)
OwnerRewrites(rs, m) ==
    LET unsafe(d) == LET t == Redirect(m, d) IN t # d /\ DependsOn(rs, t, d)
        targets == {Redirect(m, d) : d \in {k \in Keys(m) : unsafe(k)}}
    IN {<<t, Nearest(rs, t, m)>> : t \in {u \in targets : Nearest(rs, u, m) # 0}}

(* rewriteSelectionRowFromSource: the row moves into the owner's slot, and *)
(* either pin is kept.                                                     *)
Rewritten(rs, rewrite) ==
    [rs EXCEPT ![rewrite[1]] = [rs[rewrite[2]] EXCEPT
        !.queued = FALSE, !.pinned = rs[rewrite[1]].pinned \/ rs[rewrite[2]].pinned]]

-----------------------------------------------------------------------------
(* The output.  compactDeadSlots renumbers the surviving rows; here they   *)
(* keep their slots.                                                       *)

Live(rs, m) == (1..Len(rs)) \ Keys(SafeDead(rs, m))

Rebased(rs, m) ==
    [s \in 1..Len(rs) |-> IF rs[s].base = 0 THEN rs[s]
                          ELSE [rs[s] EXCEPT !.base = Redirect(SafeDead(rs, m), @)]]

(* buildOutputOrder: bases before their deltas, the earliest position of   *)
(* those ready first.  Rows on a cycle are never ready.                    *)
RECURSIVE Ordered(_, _, _)
Ordered(rs, todo, done) ==
    LET ready == {s \in todo : rs[s].base = 0 \/ rs[s].base \in Range(done)} IN
    IF ready = {} THEN done
    ELSE LET s == SortSlots(rs, SetToSeq(ready))[1] IN Ordered(rs, todo \ {s}, Append(done, s))

(* ofsDeltaDistanceLength: each further byte is worth one more than its    *)
(* digits say.                                                             *)
RECURSIVE DistanceLength(_)
DistanceLength(distance) ==
    IF distance < VarintStep THEN 1 ELSE 1 + DistanceLength(distance \div VarintStep - 1)

(* One round of computeHeaderLengths: offsets from the current lengths,    *)
(* then the lengths those offsets ask for.                                 *)
Offsets(ord, lens) ==
    LET at[i \in 1..Len(ord)] ==
            IF i = 1 THEN 12 ELSE at[i - 1] + lens[ord[i - 1]] + PayloadLength
    IN [s \in Range(ord) |-> at[CHOOSE i \in 1..Len(ord) : ord[i] = s]]

HeaderLength(rs, s, distance) ==
    CASE rs[s].type = "ofs" -> 1 + DistanceLength(distance)
      [] rs[s].type = "ref" -> 1 + 20
      [] OTHER -> 1

NextLengths(rs, ord, lens) ==
    LET offs == Offsets(ord, lens) IN
    [s \in Range(ord) |-> HeaderLength(rs, s, IF rs[s].type = "ofs" THEN offs[s] - offs[rs[s].base] ELSE 0)]

(* The seed uses the distance between the source positions. *)
SeedLengths(rs, ord) ==
    [s \in Range(ord) |-> HeaderLength(rs, s,
        IF rs[s].type = "ofs" /\ rs[s].at[2] > rs[rs[s].base].at[2]
        THEN (PayloadLength + 2) * (rs[s].at[2] - rs[rs[s].base].at[2]) ELSE 0)]

RECURSIVE Settled(_, _, _, _)
Settled(rs, ord, lens, rounds) ==
    IF rounds = 0 THEN <<>>
    ELSE LET next == NextLengths(rs, ord, lens) IN
         IF next = lens THEN lens ELSE Settled(rs, ord, next, rounds - 1)

OutputBytes(ord, lens) == FoldLeft(LAMBDA n, s : n + lens[s] + PayloadLength, 12, ord)

-----------------------------------------------------------------------------
(* The steps of rewritePackResult.                                         *)

(* canPassthroughSinglePack *)
Passthrough(rs, live) ==
    /\ Len(packs) = 1 /\ Cardinality(live) = Len(packs[1])
    /\ \A s \in live : ~rs[s].synthetic

RewriteInit ==
    /\ rows = <<>> /\ owners = [o \in OID |-> 0]
    /\ dedup = [at \in Positions(packs) |-> 0]
    /\ dead = <<>> /\ batch = <<>> /\ queue = <<>>
    /\ order = <<>> /\ layout = <<>> /\ reason = Absent

Table == [rows |-> rows, dedup |-> dedup, owners |-> owners, dead |-> dead,
          queue |-> queue, failed |-> Absent]

Adopt(t) ==
    /\ rows' = t.rows /\ dedup' = t.dedup /\ owners' = t.owners
    /\ dead' = t.dead /\ queue' = t.queue /\ reason' = t.failed
    /\ UNCHANGED <<packs, large, needed, order, layout>>

(* buildSelection up to the header pass: the first entry of each needed    *)
(* object; the whole of a single pack is streamed as it is.                *)
Select ==
    /\ phase = "select"
    /\ LET found == \A o \in Range(needed) : Candidates(packs, o) # <<>>
           slots == [i \in 1..Len(needed) |-> Candidates(packs, needed[i])[1]]
           t == FoldLeft(Added, Table, slots)
       IN IF ~found
          THEN /\ phase' = "failed" /\ reason' = "selection-failed"
               /\ UNCHANGED <<packs, large, needed, rows, dedup, owners, dead, batch, queue, order, layout>>
          ELSE /\ Adopt(t)
               /\ phase' = IF Passthrough(t.rows, 1..Len(t.rows))
                           THEN "passthrough" ELSE "headers"
               /\ batch' = SortSlots(t.rows, [i \in 1..Len(t.rows) |-> i])

(* readHeaderAndResolveBase and collectResult, for the next row of a pass. *)
HeaderRead(t, slot) ==
    LET u == [t EXCEPT !.rows[slot].queued = FALSE] IN
    IF t.rows[slot].type # "unread" THEN u
    ELSE Claim([u EXCEPT !.rows[slot].type = Entry(packs, t.rows[slot].at).kind], slot)

ReadHeader ==
    /\ phase = "headers" /\ batch # <<>>
    /\ LET t == HeaderRead(Table, Head(batch)) IN
       /\ Adopt(t)
       /\ phase' = IF t.failed = Absent THEN "headers" ELSE "failed"
    /\ batch' = Tail(batch)

(* drainSecondaryQueue: the next pass over the bases just discovered. *)
NextBatch ==
    /\ phase = "headers" /\ batch = <<>> /\ queue # <<>>
    /\ batch' = SortSlots(rows, queue) /\ queue' = <<>>
    /\ UNCHANGED <<packs, large, needed, phase, rows, dedup, owners, dead, order, layout, reason>>

(* The retained-redirect loop: rows that must stay and have no base yet.   *)
CollectRetained ==
    /\ phase = "headers" /\ batch = <<>> /\ queue = <<>>
    /\ batch' = SortSlots(rows, Retained(rows, dead))
    /\ phase' = IF batch' = <<>> THEN "collapse" ELSE "retained"
    /\ UNCHANGED <<packs, large, needed, rows, dedup, owners, dead, queue, order, layout, reason>>

(* resolveRetainedRedirectBase *)
RetainedResolved(t, slot) == IF t.rows[slot].base # 0 THEN t ELSE ResolveBase(t, slot)

ResolveRetained ==
    /\ phase = "retained"
    /\ LET t == RetainedResolved(Table, Head(batch)) IN
       /\ Adopt(t)
       /\ phase' = IF t.failed # Absent THEN "failed"
                   ELSE IF Len(batch) = 1 THEN "headers" ELSE "retained"
    /\ batch' = Tail(batch)

(* One round of collapseUnsafeRedirectOwners; without anything left to     *)
(* rewrite, compactDeadSlots.                                              *)
Collapsed(rs, m) ==
    LET rewrites == OwnerRewrites(rs, m)
        inOrder == SetToSortSeq(rewrites, LAMBDA a, b : Before(rs[a[1]].at, rs[b[1]].at)
                                            \/ (rs[a[1]].at = rs[b[1]].at /\ a[1] < b[1]))
    IN FoldLeft(Rewritten, rs, inOrder)

Collapse ==
    /\ phase = "collapse"
    /\ \/ /\ OwnerRewrites(rows, dead) # {}
          /\ rows' = Collapsed(rows, dead)
          /\ UNCHANGED <<phase, order, reason>>
       \/ /\ OwnerRewrites(rows, dead) = {}
          /\ rows' = Rebased(rows, dead)
          /\ LET live == Live(rows, dead)
                 ordered == Ordered(rows', live, <<>>)
             IN /\ order' = ordered
                /\ \/ /\ Passthrough(rows, live)
                      /\ phase' = "passthrough" /\ reason' = Absent
                   \/ /\ ~Passthrough(rows, live) /\ Len(ordered) = Cardinality(live)
                      /\ phase' = "layout" /\ reason' = Absent
                   \/ /\ ~Passthrough(rows, live) /\ Len(ordered) < Cardinality(live)
                      /\ phase' = "failed" /\ reason' = "topology-incomplete"
    /\ UNCHANGED <<packs, large, needed, dedup, owners, dead, batch, queue, layout>>

(* computeHeaderLengths, and the stream it allows.  An output beyond       *)
(* OutputMax is given the same reason as lengths that do not settle.       *)
Layout ==
    /\ phase = "layout"
    /\ layout' = Settled(rows, order, SeedLengths(rows, order), StabilityCap)
    /\ phase' = IF order = <<>> \/ (layout' # <<>> /\ OutputBytes(order, layout') <= OutputMax)
                THEN "stream" ELSE "failed"
    /\ reason' = IF phase' = "failed" THEN "header-lengths-did-not-converge" ELSE Absent
    /\ UNCHANGED <<packs, large, needed, rows, dedup, owners, dead, batch, queue, order>>

Rewrite ==
    Select \/ ReadHeader \/ NextBatch \/ CollectRetained \/ ResolveRetained \/ Collapse \/ Layout

-----------------------------------------------------------------------------
(* What a client reads back: entry i stands at the sum of what precedes    *)
(* it, and an offset delta names its base by the distance written.         *)

TrueBase(s) ==
    LET e == Entry(packs, rows[s].at) IN
    IF e.kind = "ofs" THEN Entry(packs, <<rows[s].at[1], e.base>>).oid ELSE e.base

Written(s) ==
    IF rows[s].type = "ofs" THEN Offsets(order, layout)[s] - Offsets(order, layout)[rows[s].base] ELSE 0

StreamOffsets == Offsets(order, [s \in Range(order) |-> HeaderLength(rows, s, Written(s))])

ReadsBack(i) ==
    LET s == order[i] IN
    \/ ~Delta(rows[s].type)
    \/ \E j \in 1..(i - 1) :
          /\ rows[order[j]].oid = TrueBase(s)
          /\ rows[s].type = "ofs" => StreamOffsets[order[j]] = StreamOffsets[s] - Written(s)

OutputSound ==
    phase = "stream" =>
        /\ \A i, j \in 1..Len(order) : rows[order[i]].oid = rows[order[j]].oid => i = j
        /\ Range(needed) \subseteq {rows[order[i]].oid : i \in 1..Len(order)}
        /\ \A i \in 1..Len(order) : ReadsBack(i)
=============================================================================
