---------------------------- MODULE PackIndexer ----------------------------
(***************************************************************************)
(* Indexing one pack (src/src/worker/git/pack/indexer/): the sequential    *)
(* scan over a sliding window, the resolution of the deltas in pack order  *)
(* with its queues of deltas that wait for a base, the fallback to bases   *)
(* outside the pack, the byte-budgeted cache of base payloads, the .idx    *)
(* and .refs artifacts, and the connectivity check of the ref targets.     *)
(* The receive path runs all of it; the backfill of a missing .refs starts *)
(* from the stored .idx.                                                   *)
(*                                                                         *)
(* A payload is named by the object it encodes.  Applying a delta to any   *)
(* other payload than that of its base gives Garbage.  Offsets, spans and  *)
(* windows are kept in bytes, with the lengths scaled down.                *)
(***************************************************************************)
EXTENDS Integers, FiniteSets, Sequences, SequencesExt

CONSTANTS
    OID,
    Object,        \* OID -> [type, refs, links]: refs of a commit are its tree and then
                   \* its parents, of a tag its target; links the gitlinks among them
    Jobs,          \* the packs to index: records (see Init)
    HeaderBytes,   \* PACK_HEADER_BYTES
    TrailerBytes,  \* PACK_TRAILER_BYTES
    HeaderProbe,   \* the 64 bytes the scan asks for before it parses a header
    ZlibPrefix,    \* bytes the first push into the inflate cursor must have
    Budget,        \* lruBudget
    TagDepth       \* MAX_TAG_DEPTH

Garbage == "garbage"
None == "none"
ASSUME IndexerAssumption ==
    /\ Garbage \notin OID /\ None \notin OID
    /\ HeaderBytes \in Nat /\ TrailerBytes \in Nat /\ HeaderProbe \in Nat \ {0}
    /\ ZlibPrefix \in Nat \ {0} /\ Budget \in Nat /\ TagDepth \in Nat

VARIABLES
    job,       \* [pack, external, backfill, chunk, slack, corrupt, targets]: the pack,
               \* the objects of the active packs, the window size, bytes after the
               \* last entry, a bad trailer, the ref targets of the push
    phase,     \* where the indexer stands; "done" or "failed" at the end
    at,        \* the entry (or the place in a list) the current pass is at
    window,    \* BufferedPackReader: [start, pos, len]
    table,     \* what the passes work on (see Table)
    deferred,  \* deltas the main pass put off
    stored,    \* artifacts put beside the pack
    statuses,  \* the connectivity verdicts so far, "ok" or "missing"
    unread,    \* objects the connectivity check read in vain and remembers as absent
    faults     \* reads and writes of the bucket that may still fail

vars == <<job, phase, at, window, table, deferred, stored, statuses, unread, faults>>

Pack == job.pack
Count == Len(Pack)
Entries == 1..Count

Least(x, y) == IF x < y THEN x ELSE y
Largest(x, y) == IF x > y THEN x ELSE y

EntryLength(e) == e.header + e.payload
PackSize == HeaderBytes + FoldLeft(LAMBDA n, e : n + EntryLength(e), 0, Pack) + job.slack + TrailerBytes

(* The payload a delta is encoded against. *)
BaseOid(i) == CASE Pack[i].kind = "ofs" -> IF Pack[i].base \in Entries THEN Pack[Pack[i].base].oid ELSE None
                [] Pack[i].kind = "ref" -> Pack[i].base
                [] OTHER -> None

Applied(i, payload) == IF payload = BaseOid(i) THEN Pack[i].oid ELSE Garbage

Mixed == \E i \in Entries : Pack[i].kind = "ref"

-----------------------------------------------------------------------------
(* Mutant of Ensure: the unread bytes keep the old start. *)
RECURSIVE EnsureUnmoved(_, _)
EnsureUnmoved(w, min) ==
    LET next == w.start + w.len
        fetched == Least(job.chunk, PackSize - next)
    IN IF w.len - w.pos >= min \/ fetched <= 0 THEN w
       ELSE EnsureUnmoved([start |-> w.start, pos |-> 0, len |-> w.len - w.pos + fetched], min)

(* BufferedPackReader.ensure: chunks are appended to the unread bytes      *)
(* until there are enough, or the pack ends.                               *)
RECURSIVE Ensure(_, _)
Ensure(w, min) ==
    LET next == w.start + w.len
        fetched == Least(job.chunk, PackSize - next)
    IN IF w.len - w.pos >= min \/ fetched <= 0 THEN w
       ELSE Ensure([start |-> w.start + w.pos, pos |-> 0, len |-> w.len - w.pos + fetched], min)

AbsPos(w) == w.start + w.pos

(* The inflate loop of scanPack over the left bytes of an entry: a push    *)
(* takes all the window holds.  A window too short at the end of the pack  *)
(* is an unexpected EOF, here an empty window.                             *)
RECURSIVE Inflate(_, _, _)
Inflate(w, left, min) ==
    LET v == IF w.len - w.pos < min THEN Ensure(w, min) ELSE w
        taken == Least(left, v.len - v.pos)
    IN IF left = 0 THEN w
       ELSE IF v.len - v.pos < min THEN [v EXCEPT !.len = v.pos - 1]
       ELSE Inflate([v EXCEPT !.pos = @ + taken], left - taken, 1)

-----------------------------------------------------------------------------
(* SequentialReader: a window that is replaced, never extended.            *)

Preload(offset) == [start |-> offset, len |-> Least(job.chunk, PackSize - offset)]

Within(r, from, to) == from >= r.start /\ to <= r.start + r.len

(* readRange: a range longer than a chunk, or cut by the end of the new    *)
(* chunk, is loaded by itself.                                             *)
ReadRange(r, offset, length) ==
    IF Within(r, offset, offset + length) \/ length > job.chunk THEN r ELSE Preload(offset)

(* inflateFromReader: the reader after it has streamed the bytes up to     *)
(* end; the first window needs ZlibPrefix bytes.                           *)
RECURSIVE Streamed(_, _, _, _)
Streamed(r, offset, end, min) ==
    IF offset = end THEN r
    ELSE LET v == IF offset >= r.start /\ offset < r.start + r.len THEN r ELSE Preload(offset)
             got == Least(end - offset, v.start + v.len - offset)
         IN IF got >= min THEN Streamed(v, offset + got, end, 1)
            ELSE IF end - offset < min THEN [v EXCEPT !.len = -1]
            ELSE Streamed(ReadRange(v, offset, min), offset + min, end, 1)

(* The entry's payload read through reader r ("main" or "aux") of t. *)
Read(t, r, i) ==
    LET after == Streamed(t[r], t.offset[i] + Pack[i].header, t.end[i], ZlibPrefix)
    IN IF after.len < 0 THEN [t EXCEPT !.failed = "incomplete inflate"] ELSE [t EXCEPT ![r] = after]

-----------------------------------------------------------------------------
(* PayloadLRU: entries with their payloads, the coldest first.             *)

Cached(t, i) == \E k \in 1..Len(t.cache) : t.cache[k].entry = i

Without(t, i) == [t EXCEPT !.cache = SelectSeq(@, LAMBDA c : c.entry # i)]

Bytes(cache) == FoldLeft(LAMBDA n, c : n + c.size, 0, cache)

(* findEvictionCandidate: the coldest past its deadline, or the coldest. *)
Coldest(t) ==
    LET past == {k \in 1..Len(t.cache) : t.deadline[t.cache[k].entry] <= t.now}
    IN IF past = {} THEN 1 ELSE CHOOSE k \in past : \A l \in past : k <= l

RECURSIVE Evict(_)
Evict(t) ==
    IF Bytes(t.cache) > Budget /\ Len(t.cache) > 1
    THEN Evict([t EXCEPT !.cache = RemoveAt(@, Coldest(t))]) ELSE t

CacheSet(t, i, payload) ==
    LET u == Without(t, i) IN
    IF Pack[i].size > Budget THEN u
    ELSE Evict([u EXCEPT !.cache = Append(@, [entry |-> i, payload |-> payload, size |-> Pack[i].size])])

(* get: a hit becomes the warmest. *)
Touched(t, i) ==
    LET hit == t.cache[CHOOSE k \in 1..Len(t.cache) : t.cache[k].entry = i]
    IN [Without(t, i) EXCEPT !.cache = Append(@, hit)]

-----------------------------------------------------------------------------
(* getBasePayload and materializeEntry: the payload of a resolved entry,   *)
(* from the cache or replayed along its chain, which ends in a cached      *)
(* entry, a full one or a base outside the pack.                           *)
RECURSIVE Payload(_, _, _)
Payload(t, i, steps) ==
    IF t.failed # None THEN [t |-> t, payload |-> Garbage]
    ELSE IF steps >= Count THEN
        [t |-> [t EXCEPT !.failed = "runaway traversal"], payload |-> Garbage]
    ELSE IF Cached(t, i) THEN
        LET u == Touched(t, i) IN [t |-> u, payload |-> u.cache[Len(u.cache)].payload]
    ELSE IF Pack[i].kind = "full" THEN
        LET u == Read(t, "aux", i) IN [t |-> CacheSet(u, i, Pack[i].oid), payload |-> Pack[i].oid]
    ELSE IF t.base[i] = 0 /\ (Pack[i].kind = "ofs" \/ Pack[i].base \notin job.external) THEN
        [t |-> [t EXCEPT !.failed = "base not found"], payload |-> Garbage]
    ELSE
        LET below == IF t.base[i] # 0 THEN Payload(t, t.base[i], steps + 1)
                     ELSE [t |-> t, payload |-> Pack[i].base]
            made == Applied(i, below.payload)
        IN [t |-> CacheSet(Read(below.t, "aux", i), i, made), payload |-> made]

-----------------------------------------------------------------------------
(* Waking the deltas that wait.                                            *)

(* enqueueReadyDeferred *)
EnqueueReady(t, i) ==
    IF i \in t.queued \/ i \in t.resolved \/ t.base[i] = 0 THEN t
    ELSE IF t.base[i] \notin t.resolved THEN t
    ELSE [t EXCEPT !.queued = @ \cup {i}, !.ready = Append(@, i)]

(* extendDeadlineChain: at most one turn per entry of the pack. *)
RECURSIVE Extended(_, _, _, _, _)
Extended(deadline, base, i, until, turns) ==
    IF i = 0 \/ turns = 0 THEN deadline
    ELSE Extended([deadline EXCEPT ![i] = Largest(@, until)], base, base[i], until, turns - 1)

(* One waiter of promoteWaitingRefDeltas. *)
Wakes(t, waiter, i) ==
    IF t.base[waiter] # 0 THEN t
    ELSE LET u == [t EXCEPT !.base[waiter] = i] IN
         EnqueueReady([u EXCEPT !.deadline = Extended(@, u.base, i,
                           Largest(t.offset[waiter], t.deadline[waiter]), Count)], waiter)

(* promoteWaitingRefDeltas: the entry is now the base of every REF_DELTA   *)
(* that waits for its object.                                              *)
PromoteWaiting(t, i) ==
    LET oid == t.name[i]
        waiters == IF oid \in DOMAIN t.waiting THEN t.waiting[oid] ELSE <<>>
    IN IF oid \notin DOMAIN t.waiting THEN t
       ELSE IF waiters = <<>> THEN [t EXCEPT !.found[oid] = i]
       ELSE FoldLeft(LAMBDA u, w : Wakes(u, w, i),
                     [t EXCEPT !.found[oid] = i, !.waiting[oid] = <<>>, !.isBase = @ \cup {i}], waiters)

(* Mutant of PromoteDependents: deltas that knew their base are not woken. *)
PromoteNoDependents(t, i) == [t EXCEPT !.edges[i] = <<>>]

(* promoteReadyInPackDependents: the deltas that knew the entry as their   *)
(* base all along.                                                         *)
PromoteDependents(t, i) ==
    FoldLeft(EnqueueReady, [t EXCEPT !.edges[i] = <<>>], t.edges[i])

(* objectRefBytes: the references a fetch must follow; a gitlink of a tree *)
(* names a commit of another repository.                                   *)
LogicalRefs(payload) ==
    IF payload = Garbage THEN <<>>
    ELSE SelectSeq(Object[payload].refs, LAMBDA r : r \notin Object[payload].links)

(* The bookkeeping for an entry that has just been resolved. *)
Publish(t, i, payload) ==
    LET u == [t EXCEPT !.resolved = @ \cup {i}, !.name[i] = IF job.backfill THEN @ ELSE payload,
                       !.sidecar[i] = LogicalRefs(payload)]
    IN IF Mixed THEN PromoteDependents(PromoteWaiting(u, i), i) ELSE u

(* resolveDeltaEntry.  A backfill does not materialize blobs: they have no *)
(* references, and their names are known.                                  *)
ResolveEntry(t, reader, i) ==
    IF job.backfill /\ Object[Pack[i].oid].type = "blob" THEN Publish(t, i, Pack[i].oid)
    ELSE LET below == Payload(t, t.base[i], 0)
             made == Applied(i, below.payload)
             u == Publish(Read(below.t, reader, i), i, made)
         IN IF i \in u.isBase THEN CacheSet(u, i, made) ELSE u

-----------------------------------------------------------------------------
(* scanPack, one entry a step: the header is parsed from the window, an    *)
(* OFS_DELTA may not point before the pack, the payload is inflated, and a *)
(* full object is named.                                                   *)

Unscanned ==
    [offset |-> <<>>, end |-> <<>>, name |-> [i \in Entries |-> None], resolved |-> {},
     sidecar |-> [i \in Entries |-> <<None>>],
     base |-> [i \in Entries |-> 0], isBase |-> {}, deadline |-> [i \in Entries |-> 0],
     waiting |-> <<>>, found |-> <<>>, edges |-> [i \in Entries |-> <<>>], ready |-> <<>>, queued |-> {},
     cache |-> <<>>, now |-> 0, main |-> [start |-> 0, len |-> 0], aux |-> [start |-> 0, len |-> 0],
     failed |-> None]

Fail(reason) ==
    /\ phase' = "failed" /\ table' = [table EXCEPT !.failed = reason]
    /\ UNCHANGED <<job, at, window, deferred, stored, statuses, unread, faults>>

Scanned(i, entry, after) ==
    [table EXCEPT !.offset = Append(@, AbsPos(window)), !.end = Append(@, AbsPos(after)),
                  !.name[i] = IF entry.kind = "full" THEN entry.oid ELSE @,
                  !.resolved = IF entry.kind = "full" THEN @ \cup {i} ELSE @,
                  !.sidecar[i] = IF entry.kind = "full" THEN LogicalRefs(entry.oid) ELSE @]

ScanEntry ==
    /\ phase = "scan" /\ at <= Count
    /\ LET entry == Pack[at]
           w == Ensure(window, Least(HeaderProbe, PackSize - AbsPos(window)))
           after == Inflate([w EXCEPT !.pos = @ + entry.header], entry.payload, ZlibPrefix)
       IN \/ w.len - w.pos < entry.header /\ Fail("failed to parse header")
          \/ /\ w.len - w.pos >= entry.header
             /\ entry.kind = "ofs" /\ entry.base < 0 /\ Fail("points before the start of the pack")
          \/ /\ w.len - w.pos >= entry.header /\ (entry.kind = "ofs" => entry.base >= 0)
             /\ after.len < after.pos /\ Fail("unexpected EOF while inflating")
          \/ /\ w.len - w.pos >= entry.header /\ (entry.kind = "ofs" => entry.base >= 0)
             /\ after.len >= after.pos
             /\ table' = Scanned(at, entry, after) /\ window' = after /\ at' = at + 1
             /\ UNCHANGED <<job, phase, deferred, stored, statuses, unread, faults>>

(* No slack between the last entry and the trailer, and the digest agrees. *)
ScanEnd ==
    /\ phase = "scan" /\ at > Count
    /\ \/ AbsPos(window) # PackSize - TrailerBytes /\ Fail("expected indexed entries to end")
       \/ AbsPos(window) = PackSize - TrailerBytes /\ job.corrupt /\ Fail("checksum mismatch")
       \/ /\ AbsPos(window) = PackSize - TrailerBytes /\ ~job.corrupt
          /\ phase' = IF job.backfill THEN "renew" ELSE "prepare"
          /\ UNCHANGED <<job, at, window, table, deferred, stored, statuses, unread, faults>>

-----------------------------------------------------------------------------
(* Dependencies known before the resolution starts.                        *)

Registered(t, i) == [t EXCEPT !.edges[t.base[i]] = <<i>> \o @]

Depends(t, i, b) ==
    [t EXCEPT !.base[i] = b, !.isBase = @ \cup {b}, !.deadline[b] = Largest(@, t.offset[i])]

(* findSamePackRefBaseEntry, for a backfill: a full entry of the base      *)
(* object, or its first delta unless the entry is itself one of them.      *)
SamePack(i) ==
    LET run == {j \in Entries : Pack[j].oid = Pack[i].base}
        full == {j \in run \ {i} : Pack[j].kind = "full"}
        first(s) == CHOOSE j \in s : \A k \in s : j <= k
    IN IF full # {} THEN first(full)
       ELSE IF i \in run \/ run = {} THEN 0 ELSE first(run)

(* buildOfsDependencies and buildMixedDependencies. *)
Dependency(t, i) ==
    IF i \in t.resolved \/ t.failed # None THEN t
    ELSE IF Pack[i].kind = "ofs" THEN
        IF Pack[i].base \notin Entries THEN [t EXCEPT !.failed = "references unknown base offset"]
        ELSE LET u == Depends(t, i, Pack[i].base) IN
             IF Mixed /\ Pack[i].base \notin t.resolved THEN Registered(u, i) ELSE u
    ELSE LET same == IF job.backfill THEN SamePack(i) ELSE 0 IN
         IF same # 0 THEN
             LET u == Depends(t, i, same) IN IF same \notin t.resolved THEN Registered(u, i) ELSE u
         ELSE IF t.found[Pack[i].base] # 0 THEN Depends(t, i, t.found[Pack[i].base])
         ELSE [t EXCEPT !.waiting[Pack[i].base] = <<i>> \o @]

(* createRefBaseLookup and noteResolvedEntry: the last full entry of each  *)
(* object some REF_DELTA names.                                            *)
WithLookup(t) ==
    LET wanted == {Pack[i].base : i \in {j \in Entries : Pack[j].kind = "ref"}}
        last(o) == {i \in t.resolved : t.name[i] = o}
    IN [t EXCEPT !.waiting = [o \in wanted |-> <<>>],
                 !.found = [o \in wanted |-> IF last(o) = {} THEN 0
                                             ELSE CHOOSE i \in last(o) : \A j \in last(o) : j <= i]]

(* propagateDeadlines: one sweep from the end of the pack. *)
Propagated(t) ==
    FoldLeft(LAMBDA u, i : IF i \in u.resolved \/ u.base[i] = 0 THEN u
                           ELSE [u EXCEPT !.deadline[u.base[i]] =
                                     Largest(@, Largest(u.offset[i], u.deadline[i]))],
             t, Reverse([i \in Entries |-> i]))

(* A backfill takes the names from the stored .idx (seedEntryOids...).     *)
Named(t) == IF job.backfill THEN [t EXCEPT !.name = [i \in Entries |-> Pack[i].oid]] ELSE t

Prepare ==
    /\ phase = "prepare"
    /\ \/ /\ table.resolved = Entries
          /\ table' = Named(table) /\ phase' = "write-idx" /\ at' = at
       \/ /\ table.resolved # Entries
          /\ \E t \in {FoldLeft(Dependency, WithLookup(Named(table)), [i \in Entries |-> i])} :
                IF t.failed # None THEN table' = t /\ phase' = "failed" /\ at' = at
                ELSE /\ table' = [Propagated(t) EXCEPT !.main = Preload(t.offset[1])]
                     /\ phase' = "main" /\ at' = 1
    /\ UNCHANGED <<job, window, deferred, stored, statuses, unread, faults>>

-----------------------------------------------------------------------------
(* The main pass, in pack order.                                           *)

(* cacheResolvedBaseIfNeeded *)
CachedBase(t, i) ==
    IF Cached(t, i) THEN Touched(t, i)
    ELSE IF i \notin t.isBase \/ (job.backfill /\ Object[Pack[i].oid].type = "blob") THEN t
    ELSE CacheSet(Read(t, "main", i), i, Pack[i].oid)

Continue(t, next) ==
    /\ table' = t
    /\ IF t.failed # None THEN phase' = "failed" /\ at' = at ELSE next
    /\ UNCHANGED <<job, window, stored, statuses, unread, faults>>

Main ==
    /\ phase = "main" /\ at <= Count
    /\ \E t \in {[table EXCEPT !.now = table.offset[at]]} :
       \/ /\ at \in t.resolved
          /\ Continue(CachedBase(t, at), phase' = phase /\ at' = at + 1) /\ deferred' = deferred
       \/ /\ at \notin t.resolved /\ (t.base[at] = 0 \/ t.base[at] \notin t.resolved)
          /\ IF Mixed THEN Continue(t, phase' = phase /\ at' = at + 1) /\ deferred' = Append(deferred, at)
             ELSE Continue([t EXCEPT !.failed = "base is not ready"], TRUE) /\ deferred' = deferred
       \/ /\ at \notin t.resolved /\ t.base[at] # 0 /\ t.base[at] \in t.resolved
          /\ \E u \in {ResolveEntry(t, "main", at)} :
                Continue(u, phase' = phase /\ at' = at + 1)
          /\ deferred' = deferred

(* After the pass, every deferred delta whose base has come meanwhile. *)
MainEnd ==
    /\ phase = "main" /\ at > Count
    /\ Continue(FoldLeft(EnqueueReady, table, deferred), phase' = "drain" /\ at' = 1)
    /\ deferred' = deferred

(* drainReadyDeferredQueue: the queue grows while it is drained.  at is    *)
(* the place in deferred to go on from.                                    *)
Drain ==
    /\ phase = "drain" /\ table.ready # <<>>
    /\ LET i == Head(table.ready)
           t == [table EXCEPT !.ready = Tail(@), !.queued = @ \ {i}]
       IN IF i \in t.resolved \/ t.base[i] = 0 \/ t.base[i] \notin t.resolved
          THEN Continue(t, UNCHANGED <<phase, at>>)
          ELSE \E u \in {ResolveEntry([t EXCEPT !.now = t.offset[i]], "aux", i)} :
                  Continue(u, UNCHANGED <<phase, at>>)
    /\ deferred' = deferred

(* The fallback for the next deferred delta: one with a base in the pack   *)
(* is only queued again, one without takes its base from the active packs  *)
(* and the queue is drained; a base nobody has leaves it unresolved.       *)
FallBack ==
    /\ (phase = "drain" /\ table.ready = <<>>) \/ phase = "fallback"
    /\ at <= Len(deferred)
    /\ LET i == deferred[at] IN
       \/ i \in table.resolved /\ Continue(table, phase' = "fallback" /\ at' = at + 1)
       \/ /\ i \notin table.resolved /\ table.base[i] # 0
          /\ Continue(EnqueueReady(table, i), phase' = "fallback" /\ at' = at + 1)
       \/ /\ i \notin table.resolved /\ table.base[i] = 0 /\ Pack[i].base \notin job.external
          /\ Continue(table, phase' = "fallback" /\ at' = at + 1)
       \/ /\ i \notin table.resolved /\ table.base[i] = 0 /\ Pack[i].base \in job.external
          /\ \E u \in {Publish(Read([table EXCEPT !.now = table.offset[i]], "aux", i), i, Pack[i].oid)} :
                Continue(IF i \in u.isBase THEN CacheSet(u, i, Pack[i].oid) ELSE u,
                         phase' = "drain" /\ at' = at + 1)
    /\ deferred' = deferred

(* The last drain, and the count of what was resolved. *)
FallBackEnd ==
    /\ at > Len(deferred)
    /\ \/ /\ phase = "fallback" /\ Continue(table, phase' = "drain" /\ at' = at)
       \/ /\ phase = "drain" /\ table.ready = <<>>
          /\ IF table.resolved = Entries THEN Continue(table, phase' = "write-idx" /\ at' = 1)
             ELSE Continue([table EXCEPT !.failed = "could not be resolved"], TRUE)
    /\ deferred' = deferred

-----------------------------------------------------------------------------
(* writeAndParseIdx: the .idx unless the pack has one, then the .refs,     *)
(* which needs the logical references of every entry.                      *)

Put(artifact) ==
    /\ stored' = stored \cup {artifact}
    /\ UNCHANGED <<job, at, window, table, deferred, statuses, unread, faults>>

WriteIdx ==
    /\ phase = "write-idx" /\ phase' = "write-refs"
    /\ Put("idx")

(* PackRefsBuilder.build throws for an entry without references. *)
RefsKnown == \A i \in Entries : table.sidecar[i] # <<None>>

WriteRefs ==
    /\ phase = "write-refs"
    /\ IF RefsKnown THEN phase' = (IF job.backfill THEN "done" ELSE "connect") /\ Put("refs")
       ELSE Fail("missing logical refs")

-----------------------------------------------------------------------------
(* runPackConnectivityCheck, one target a step: the new pack is searched   *)
(* beside the active ones.                                                 *)

(* parseTagTarget and parseCommitRefs. *)
Target(tag) == Object[tag].refs[1]
TreeAndParents(commit) == ToSet(Object[commit].refs)

(* readKind and hasObject keep their answers for the whole check.           *)
Visible == ({table.name[i] : i \in Entries} \cup job.external) \ unread

(* unwrapTag: hops counts the tags followed. *)
RECURSIVE UnwrapTag(_, _)
UnwrapTag(oid, hops) ==
    IF oid \notin Visible THEN None
    ELSE IF Object[oid].type # "tag" THEN oid
    ELSE IF hops >= TagDepth THEN None
    ELSE UnwrapTag(Target(oid), hops + 1)

Verdict(target) ==
    LET oid == UnwrapTag(target, 0) IN
    IF oid = None THEN "missing"
    ELSE IF Object[oid].type = "commit" /\ ~(TreeAndParents(oid) \subseteq Visible) THEN "missing"
    ELSE "ok"

Connect ==
    /\ phase = "connect"
    /\ \/ /\ Len(statuses) < Len(job.targets)
          /\ statuses' = Append(statuses, Verdict(job.targets[Len(statuses) + 1])) /\ phase' = phase
       \/ Len(statuses) = Len(job.targets) /\ phase' = "done" /\ statuses' = statuses
    /\ UNCHANGED <<job, at, window, table, deferred, stored, unread, faults>>

(* A read of the check fails: it throws, which the target is answered      *)
(* "missing-objects" for, or finds nothing, which is remembered.           *)
ConnectFails ==
    /\ phase = "connect" /\ Len(statuses) < Len(job.targets)
    /\ faults > 0 /\ faults' = faults - 1
    /\ \/ statuses' = Append(statuses, "missing") /\ unread' = unread
       \/ (\E o \in Visible : unread' = unread \cup {o}) /\ statuses' = statuses
    /\ UNCHANGED <<job, phase, at, window, table, deferred, stored>>

-----------------------------------------------------------------------------
(* handlePackRefBackfillMessage: it runs under a maintenance lease.  A     *)
(* repository being deleted, a superseded pack, a .refs that has come      *)
(* meanwhile, and a lease that could not be renewed after the scan end the *)
(* work without a retry.                                                   *)

Acknowledge ==
    phase' = "acked" /\ UNCHANGED <<job, at, window, table, deferred, stored, statuses, unread, faults>>

Enter(next) ==
    phase' = next /\ UNCHANGED <<job, at, window, table, deferred, stored, statuses, unread, faults>>

(* loadPackRefView: a .refs that is there and fits the .idx. *)
RefsPresent == "refs" \in stored

BackfillBegin ==
    /\ phase = "begin"
    /\ \/ (job.fence = "begin" \/ RefsPresent) /\ Acknowledge
       \/ job.fence # "begin" /\ ~RefsPresent /\ Enter("scan")

BackfillRenew ==
    /\ phase = "renew"
    /\ \/ job.fence = "renew" /\ Acknowledge
       \/ job.fence # "renew" /\ Enter("prepare")

(* Mutant of Deterministic: an aborted read counts as a broken pack. *)
DeterministicAborted(reason) == reason \in {"checksum mismatch", "aborted"}

(* isDeterministicPackFailure: a broken pack is not retried. *)
Deterministic(reason) == reason \in {"checksum mismatch"}

(* Before the scan: the header has been read. *)
Opened == [Ensure([start |-> 0, pos |-> 0, len |-> 0], HeaderBytes) EXCEPT !.pos = @ + HeaderBytes]

BackfillFailed ==
    /\ phase = "failed" /\ job.backfill
    /\ \/ Deterministic(table.failed) /\ Acknowledge
       \/ /\ ~Deterministic(table.failed)
          /\ phase' = "begin" /\ at' = 1 /\ window' = Opened /\ table' = Unscanned /\ deferred' = <<>>
          /\ UNCHANGED <<job, stored, statuses, unread, faults>>

(* A read or a write of the bucket fails, or the request is aborted; a     *)
(* write whose answer is lost has happened.                                *)
BucketFails ==
    /\ phase \in {"scan", "main", "drain", "fallback", "write-idx", "write-refs"}
    /\ faults > 0 /\ faults' = faults - 1
    /\ phase' = "failed" /\ table' = [table EXCEPT !.failed = "aborted"]
    /\ \/ stored' = stored
       \/ phase = "write-refs" /\ RefsKnown /\ stored' = stored \cup {"refs"}
    /\ UNCHANGED <<job, at, window, deferred, statuses, unread>>

-----------------------------------------------------------------------------
Init ==
    /\ job \in Jobs
    /\ faults = job.faults
    /\ phase = IF job.backfill THEN "begin" ELSE "scan"
    /\ at = 1
    /\ window = Opened
    /\ table = Unscanned
    /\ deferred = <<>>
    /\ stored = IF job.backfill THEN {"idx"} ELSE {}
    /\ statuses = <<>> /\ unread = {}

Step ==
    \/ ScanEntry \/ ScanEnd \/ Prepare \/ Main \/ MainEnd \/ Drain \/ FallBack \/ FallBackEnd
    \/ WriteIdx \/ WriteRefs \/ Connect
    \/ BackfillBegin \/ BackfillRenew \/ BackfillFailed

Next == Step \/ BucketFails \/ ConnectFails

Spec == Init /\ [][Next]_vars

(* The indexer runs inside one request, and the queue redelivers.  ENABLED *)
(* of Step is that the job is not over.                                    *)
Over == phase \in {"done", "acked"} \/ (phase = "failed" /\ ~job.backfill)
LiveSpec == Spec /\ ([]<>Over \/ []<><<Step>>_vars)

-----------------------------------------------------------------------------
(* What the pack says, apart from how the indexer finds out. *)

TrueOffset(i) == HeaderBytes + FoldLeft(LAMBDA n, e : n + EntryLength(e), 0, SubSeq(Pack, 1, i - 1))

(* The entries whose objects are determined: the least set closed under    *)
(* taking a base from it, by place or by name, or from the active packs.   *)
RECURSIVE Closure(_)
Closure(known) ==
    LET names == {Pack[j].oid : j \in known} \cup job.external
        next == known \cup {i \in Entries :
                    \/ Pack[i].kind = "full"
                    \/ Pack[i].kind = "ofs" /\ Pack[i].base \in known
                    \/ Pack[i].kind = "ref" /\ Pack[i].base \in names}
    IN IF next = known THEN known ELSE Closure(next)

WellFormed ==
    /\ job.slack = 0 /\ ~job.corrupt
    /\ \A i \in Entries : Pack[i].kind = "ofs" => Pack[i].base \in Entries
    /\ Closure({}) = Entries

TypeOK ==
    /\ job \in Jobs
    /\ phase \in {"begin", "scan", "renew", "prepare", "main", "drain", "fallback", "write-idx",
                  "write-refs", "connect", "done", "failed", "acked"}
    /\ at \in 1..(Count + 1) /\ faults \in 0..1 /\ unread \subseteq OID
    /\ window.start + window.len <= PackSize
    /\ Len(table.offset) = Len(table.end) /\ Len(table.offset) <= Count
    /\ table.resolved \subseteq Entries
    /\ {i \in Entries : table.sidecar[i] # <<None>>} = table.resolved
    /\ table.queued = ToSet(table.ready)
    /\ ToSet(deferred) \subseteq Entries
    /\ stored \subseteq {"idx", "refs"}
    /\ Len(statuses) <= Len(job.targets)

(* Windows that slide over entry boundaries, evictions and replays never   *)
(* change what is recorded: spans are the entries' own, and a resolved     *)
(* entry has the name of its object and the references it must be fetched  *)
(* with.                                                                   *)
NamesTrue ==
    /\ \A i \in 1..Len(table.offset) :
          table.offset[i] = TrueOffset(i) /\ table.end[i] = TrueOffset(i) + EntryLength(Pack[i])
    /\ \A i \in table.resolved :
          /\ table.name[i] = Pack[i].oid
          /\ ToSet(table.sidecar[i]) = ToSet(Object[Pack[i].oid].refs) \ Object[Pack[i].oid].links
    /\ \A k \in 1..Len(table.cache) : table.cache[k].payload = Pack[table.cache[k].entry].oid

(* A delta by name whose base is in the pack only as a delta that in turn  *)
(* rests on it, while the active packs hold the base too.  Git sends no    *)
(* such pack.  Taking the base inside the pack then closes a circle.       *)
RECURSIVE Untangled(_)
Untangled(S) ==
    LET same(i) == {j \in Entries : Pack[j].oid = Pack[i].base}
        next == S \cup {i \in Entries :
                    \/ Pack[i].kind = "full"
                    \/ Pack[i].kind = "ofs" /\ Pack[i].base \in S
                    \/ Pack[i].kind = "ref" /\ same(i) \subseteq S
                    \/ Pack[i].kind = "ref" /\ (\E j \in same(i) : Pack[j].kind = "full")}
    IN IF next = S THEN S ELSE Untangled(next)
Knotted == Untangled({}) # Entries

(* Every pack whose objects are determined is indexed, whatever the order  *)
(* of its entries and the windows they are read through: only a fault of   *)
(* the bucket may fail it.                                                 *)
IndexesAll ==
    phase = "failed" /\ WellFormed => table.failed = "aborted" \/ Knotted

(* What is stored beside the pack is whole, and a receive that ends has    *)
(* stored both.                                                            *)
ArtifactsWhole ==
    /\ "idx" \in stored /\ ~job.backfill => WellFormed /\ table.resolved = Entries
    /\ phase = "done" => stored = {"idx", "refs"}

(* The payload cache stays within its budget. *)
BudgetKept == Bytes(table.cache) <= Budget

(* The longest tag chain that is followed. *)
RECURSIVE Tags(_)
Tags(oid) == IF Object[oid].type = "tag" THEN {oid} \cup Tags(Target(oid)) ELSE {oid}

(* A target passes only when the tags on the way to it, at most TagDepth,  *)
(* and what they lead to are there, and so are the tree and the parents of *)
(* a commit; it passes whenever they are, unless a read of the check       *)
(* failed, which is answered like a missing object.                        *)
ConnectivityExact ==
    \A k \in 1..Len(statuses) :
        LET target == job.targets[k]
            there == {Pack[i].oid : i \in Entries} \cup job.external
            chain == Tags(target)
            need == chain \cup UNION {ToSet(Object[o].refs) : o \in {c \in chain : Object[c].type = "commit"}}
            connected == need \subseteq there /\ Cardinality(chain) <= TagDepth + 1
        IN /\ statuses[k] = "ok" => connected
           /\ connected /\ faults = job.faults => statuses[k] = "ok"

(* A receive ends, and a backfill of a sound pack leaves its .refs, unless *)
(* it was fenced off.                                                      *)
Settles ==
    /\ ~job.backfill ~> Over
    /\ (job.backfill /\ WellFormed /\ ~Knotted /\ job.fence = "none") ~> (Over /\ "refs" \in stored)

(* The tables are true of the pack although payloads come from a cache     *)
(* that never exceeds its budget.                                          *)
RecordsTrue ==
  /\ TypeOK
  /\ NamesTrue
  /\ BudgetKept

(* A pack is refused, a sidecar stored and a target called connected       *)
(* exactly when the objects say so, but for reads that fail.               *)
VerdictsExact ==
  /\ IndexesAll
  /\ ArtifactsWhole
  /\ ConnectivityExact
=============================================================================
