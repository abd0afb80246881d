---------------------------- MODULE UploadPack -----------------------------
(***************************************************************************)
(* One fetch: negotiation, the read lease and its heartbeat, the closure   *)
(* over the reference sidecars, the rewrite (PackRewrite) and the stream   *)
(* of its output over the sideband, with the queue that rebuilds missing   *)
(* sidecars (src/src/worker/git/operations/uploadStream/index.ts,          *)
(* operations/fetch/, tasks/refBackfill.ts).                               *)
(*                                                                         *)
(* refs is the logical object graph: what a commit, tree or tag names.     *)
(* The client holds every object its haves reach; that is what a have      *)
(* means.  A client that was told to retry may send the same request       *)
(* again.                                                                  *)
(***************************************************************************)
EXTENDS PackRewrite

CONSTANTS
    Requests,      \* the fetches to explore: records [packs, refs, wants, haves,
                   \* done, bare, faulty, large] (see Init)
    HaveCap,       \* HAVE_CAP: haves considered
    MissingCap,    \* MISSING_REF_CAP: distinct missing objects tolerated
    MaxRequests    \* how often a client asks

VARIABLES
    refs, wants, haves, done, faulty,
    status,     \* where the request stands; a response once it has ended
    acks,       \* common haves announced to the client
    lease,      \* the read lease: "none", "held", "lost" or "released"
    aborted,    \* operationAbort
    made,       \* chunks the rewrite stream has produced
    ended,      \* how that stream ended: Absent, "complete" or "cut"
    sent,       \* chunks enqueued on the response
    closed,     \* how the response ended: Absent, "flush" or "fatal"
    bare,       \* packs (by slot) without a valid reference sidecar
    backfills,  \* pack-ref-backfill messages in flight
    dropped,    \* packs whose last message was not sent, or acknowledged unbuilt
    asked       \* requests made so far

fvars == <<refs, wants, haves, done, faulty, status, acks, lease, aborted, made,
           ended, sent, closed, bare, backfills, dropped, asked>>
vars == <<rvars, fvars>>

Responses == {"ack-only", "read-capacity", "not-ready", "retry", "closed", "error"}

-----------------------------------------------------------------------------
(* The object graph.                                                       *)

RECURSIVE Reach(_, _)
Reach(from, known) ==
    LET next == from \cup UNION {refs[o] : o \in from \cap known} IN
    IF next = from THEN from ELSE Reach(next, known)

(* Everything the client already holds. *)
Held == Reach(Range(haves), OID)

(* locateObject: the objects some pack of the snapshot holds. *)
Located == {Entry(packs, at).oid : at \in Positions(packs)}

(* findCommonHaves, findCommonHavesInSnapshot: the first HaveCap haves,    *)
(* those the packs hold.                                                   *)
CommonHaves == Range(SubSeq(haves, 1, IF Len(haves) < HaveCap THEN Len(haves) ELSE HaveCap))
                  \cap Located

(* The have walk of computeNeededFromPackRefs: the located objects a       *)
(* common have reaches, and the objects they name that no pack holds.      *)
HaveWalk == Reach(CommonHaves, Located)
Stop == HaveWalk \cap Located
MissingStop == HaveWalk \ Located

(* The want walk: from the wants, through located objects not in Stop.     *)
WantWalk == Reach(wants, Located \ Stop)
NeededLocated == (WantWalk \cap Located) \ Stop
MissingSeen == MissingStop \cup (WantWalk \ Located)

(* Mutant of MissingNeeded: what no pack holds is left out. *)
MissingForgotten == {}

(* What is wanted and in no indexed pack is needed all the same. *)
MissingNeeded == (WantWalk \ Located) \ MissingStop

NeededOids == SetToSeq(NeededLocated) \o SetToSeq(MissingNeeded)

BudgetExceeded == Cardinality(MissingSeen) > MissingCap

-----------------------------------------------------------------------------
(* handleFetchV2Streaming up to the stream.                                *)

Request == /\ refs' = refs /\ wants' = wants /\ haves' = haves /\ done' = done /\ faulty' = faulty

(* Everything but what a planning step changes. *)
Planning(next) ==
    /\ status' = next
    /\ UNCHANGED <<aborted, made, ended, sent, closed, asked>>
    /\ Request

Idle == UNCHANGED rvars

(* No want: an empty acknowledgment.  Not done: the common haves, and      *)
(* without any, NAK.                                                       *)
Negotiate ==
    /\ status = "arrived"
    /\ acks' = IF done \/ wants = {} THEN {} ELSE CommonHaves
    /\ Planning(IF wants = {} \/ (~done /\ acks' = {}) THEN "ack-only" ELSE "negotiated")
    /\ UNCHANGED <<lease, bare, backfills, dropped>> /\ Idle

(* beginRepositoryRead: a lease, or no capacity. *)
BeginRead ==
    /\ status = "negotiated"
    /\ \/ lease' = "held" /\ Planning("leased")
       \/ faulty /\ lease' = "none" /\ Planning("read-capacity")
    /\ UNCHANGED <<acks, bare, backfills, dropped>> /\ Idle

(* assertReadLeaseHealthy after the snapshot and after planning: a lost    *)
(* lease is an error, as is a failing read, and every exit releases.  A    *)
(* release that fails replaces the answer, and the lease stays.            *)
Exit(response) ==
    \/ lease' = "released" /\ Planning(response)
    \/ faulty /\ lease' = lease /\ Planning("error")

LoadSnapshot ==
    /\ status = "leased"
    /\ \/ (lease = "lost" \/ faulty) /\ Exit("error")
       \/ Located = {} /\ lease = "held" /\ Exit("not-ready")
       \/ Located # {} /\ lease = "held" /\ lease' = lease /\ Planning("snapshot")
    /\ UNCHANGED <<acks, bare, backfills, dropped>> /\ Idle

(* schedulePackRefBackfill: a send that is skipped or fails is only        *)
(* logged; every later fetch that misses the sidecar sends again.          *)
Schedule(missing) ==
    \E queued \in SUBSET missing :
        /\ faulty \/ queued = missing
        /\ backfills' = backfills \cup queued
        /\ dropped' = (dropped \cup missing) \ queued

(* Mutant of LoadRefs: only the first missing sidecar is scheduled. *)
LoadRefsFirst ==
    /\ status = "snapshot"
    /\ \/ bare # {} /\ Schedule({CHOOSE p \in bare : TRUE}) /\ Exit("retry")
       \/ bare = {} /\ UNCHANGED <<lease, backfills, dropped>> /\ Planning("refs")
    /\ UNCHANGED <<acks, bare>> /\ Idle

(* loadPackRefSnapshot: a backfill is scheduled for every pack without its *)
(* sidecar, and the client is asked to retry.                              *)
LoadRefs ==
    /\ status = "snapshot"
    /\ \/ bare # {} /\ Schedule(bare) /\ Exit("retry")
       \/ bare = {} /\ UNCHANGED <<lease, backfills, dropped>> /\ Planning("refs")
    /\ UNCHANGED <<acks, bare>> /\ Idle

(* computeNeededFromPackRefs and the rest of buildServeUploadPackPlan: a   *)
(* walk that runs out of time or meets too many missing objects is a       *)
(* retry, never a partial plan.                                            *)
Plan ==
    /\ status = "refs"
    /\ \/ (BudgetExceeded \/ faulty) /\ Exit("retry") /\ Idle
       \/ ~BudgetExceeded /\ (lease = "lost" \/ faulty) /\ Exit("error") /\ Idle
       \/ /\ ~BudgetExceeded /\ lease = "held"
          /\ Planning("assembling") /\ lease' = lease
          /\ needed' = NeededOids /\ phase' = "select"
          /\ UNCHANGED <<packs, large, rows, dedup, owners, dead, batch, queue, order, layout, reason>>
    /\ UNCHANGED <<acks, bare, backfills, dropped>>

-----------------------------------------------------------------------------
(* The response stream.  The rewrite runs first; an abort it sees leaves   *)
(* it without a result.                                                    *)

Assemble ==
    /\ status = "assembling" /\ ~aborted
    /\ Rewrite /\ UNCHANGED fvars

Respond(next, s, e, m, c) ==
    /\ status' = next /\ sent' = s /\ ended' = e /\ made' = m /\ closed' = c
    /\ UNCHANGED <<acks, lease, aborted, bare, backfills, dropped, asked>>
    /\ Request /\ Idle

Close(how) == Respond("finally", sent, ended, made, how)

(* packResult, and assertReadLeaseHealthy: without a result, or without    *)
(* the lease, the response closes with a fatal packet.                     *)
Assembled ==
    /\ status = "assembling"
    /\ \/ phase = "failed" /\ Close("fatal")
       \/ aborted /\ phase \notin {"failed", "stream", "passthrough"} /\ Close("fatal")
       \/ phase \in {"stream", "passthrough"} /\ lease = "lost" /\ Close("fatal")
       \/ phase \in {"stream", "passthrough"} /\ lease = "held"
             /\ Respond("piping", sent, ended, made, closed)

(* createRewriteStream: one entry a chunk, the trailer last.  An abort     *)
(* closes the stream where it stands.  createPassthroughStream (two        *)
(* ranges) closes if it has not begun, and errors if it has.               *)
Chunks == IF phase = "passthrough" THEN 2 ELSE Len(order) + 1

Produced ==
    IF ~aborted THEN IF made + 1 = Chunks THEN "complete" ELSE Absent
    ELSE IF phase = "passthrough" /\ made > 0 THEN "error" ELSE "cut"

Produce ==
    /\ status = "piping" /\ ended = Absent /\ made = sent
    /\ Respond(status, sent, Produced, IF aborted THEN made ELSE made + 1, closed)

(* A range cannot be read, or ends early: without an abort the stream      *)
(* errors, whatever it has produced.                                       *)
ReadFails ==
    /\ faulty /\ status = "piping" /\ ended = Absent /\ made = sent /\ ~aborted
    /\ Respond(status, sent, "error", made, closed)

(* pipePackWithSideband: stop at an abort or at the end of the pack with a *)
(* flush packet; pass a chunk on after assertReadLeaseHealthy.  What it    *)
(* throws ends in closeSidebandWithFatal.                                  *)
PipeStops == aborted \/ (ended \in {"complete", "cut"} /\ sent = made)

Pipe ==
    /\ status = "piping"
    /\ \/ PipeStops /\ Close("flush")
       \/ ended = "error" /\ sent = made /\ Close("fatal")
       \/ sent < made /\ lease = "lost" /\ Close("fatal")
       \/ sent < made /\ lease = "held" /\ Respond(status, sent + 1, ended, made, closed)

(* The finally block: releaseReadLease, whose failure is logged. *)
Release ==
    /\ status = "finally"
    /\ status' = "closed"
    /\ lease' = "released" \/ (faulty /\ lease' = lease)
    /\ UNCHANGED <<acks, aborted, made, ended, sent, closed, bare, backfills, dropped, asked>>
    /\ Request /\ Idle

-----------------------------------------------------------------------------
(* What happens around it.                                                 *)

Underway == status \in {"leased", "snapshot", "refs", "assembling", "piping"}

(* The heartbeat could not renew the lease: operationAbort. *)
HeartbeatFails ==
    /\ faulty /\ lease = "held" /\ Underway /\ closed = Absent
    /\ lease' = "lost" /\ aborted' = TRUE
    /\ UNCHANGED <<status, acks, made, ended, sent, closed, bare, backfills, dropped, asked>>
    /\ Request /\ Idle

(* The client goes away: the request's signal, or cancel() of the stream. *)
ClientCancels ==
    /\ faulty /\ Underway /\ ~aborted /\ closed = Absent
    /\ aborted' = TRUE
    /\ UNCHANGED <<status, acks, lease, made, ended, sent, closed, bare, backfills, dropped, asked>>
    /\ Request /\ Idle

(* A lease that was not released has no heartbeat any more and runs out. *)
LeaseExpires ==
    /\ status \in Responses /\ lease \in {"held", "lost"}
    /\ lease' = "released"
    /\ UNCHANGED <<status, acks, aborted, made, ended, sent, closed, bare, backfills, dropped,
                   asked>>
    /\ Request /\ Idle

(* handlePackRefBackfillMessage: the sidecar is rebuilt from the pack, or  *)
(* found present.  A transient failure leaves the message to be retried.   *)
Backfill(p) ==
    /\ p \in backfills
    /\ backfills' = backfills \ {p} /\ bare' = bare \ {p}
    /\ UNCHANGED <<status, acks, lease, aborted, made, ended, sent, closed, dropped, asked>>
    /\ Request /\ Idle

(* ... or acknowledged with nothing built: the repository is being         *)
(* deleted, the pack or its index is gone or damaged, the maintenance      *)
(* lease was lost.                                                         *)
BackfillGivesUp(p) ==
    /\ faulty /\ p \in backfills
    /\ backfills' = backfills \ {p} /\ dropped' = dropped \cup {p}
    /\ UNCHANGED <<status, acks, lease, aborted, made, ended, sent, closed, bare, asked>>
    /\ Request /\ Idle

(* The client asks again after a 503. *)
AskAgain ==
    /\ status \in {"retry", "read-capacity"} /\ asked < MaxRequests
    /\ asked' = asked + 1 /\ status' = "arrived" /\ lease' = "none" /\ aborted' = FALSE
    /\ acks' = {}
    /\ UNCHANGED <<made, ended, sent, closed, bare, backfills, dropped>>
    /\ Request /\ Idle

-----------------------------------------------------------------------------
Init ==
    /\ \E r \in Requests :
          /\ packs = r.packs /\ refs = r.refs /\ wants = r.wants /\ haves = r.haves
          /\ done = r.done /\ bare = r.bare /\ faulty = r.faulty /\ large = r.large
    /\ status = "arrived" /\ acks = {} /\ lease = "none" /\ aborted = FALSE
    /\ made = 0 /\ ended = Absent /\ sent = 0 /\ closed = Absent
    /\ backfills = {} /\ dropped = {} /\ asked = 1
    /\ needed = <<>> /\ phase = "idle" /\ RewriteInit

Serve ==
    \/ Negotiate \/ BeginRead \/ LoadSnapshot \/ LoadRefs \/ Plan
    \/ Assembled \/ Produce \/ Pipe \/ Release

Next ==
    \/ Serve \/ Assemble \/ ReadFails \/ HeartbeatFails \/ ClientCancels \/ LeaseExpires
    \/ AskAgain
    \/ \E p \in backfills : Backfill(p) \/ BackfillGivesUp(p)

Spec == Init /\ [][Next]_vars

(* The Worker runs the request, the queue delivers, the client retries,    *)
(* leases run out.                                                         *)
(* The second conjunct is WF_vars(Assemble) with ENABLED written out.      *)
AssembleEnabled ==
    status = "assembling" /\ ~aborted /\ phase \notin {"failed", "stream", "passthrough"}

Fairness ==
    /\ WF_vars(Serve)
    /\ []<>~AssembleEnabled \/ []<><<Assemble>>_vars
    /\ WF_vars(AskAgain)
    /\ WF_vars(LeaseExpires)
    /\ WF_vars(\E p \in backfills : Backfill(p))

LiveSpec == Spec /\ Fairness

-----------------------------------------------------------------------------
(* What the client can unpack of a response: every entry sent, once the    *)
(* trailer came with it.                                                   *)
Complete == status = "closed" /\ closed = "flush" /\ ended = "complete" /\ sent = Chunks

Received ==
    IF phase = "passthrough" THEN Located
    ELSE {rows[order[i]].oid : i \in 1..Len(order)}

(* Values the variables take: see the code's unions of result types. *)
TypeOK ==
    /\ status \in Responses \cup {"arrived", "negotiated", "leased", "snapshot", "refs",
                                  "assembling", "piping", "finally"}
    /\ lease \in {"none", "held", "lost", "released"}
    /\ closed \in {Absent, "flush", "fatal"} /\ ended \in {Absent, "complete", "cut", "error"}
    /\ sent <= made /\ made <= sent + 1
    /\ \A s \in 1..Len(rows) : rows[s].base \in 0..Len(rows) /\ rows[s].base # s
    /\ \A at \in DOMAIN dedup : dedup[at] \in 0..Len(rows)
    /\ Keys(dead) \subseteq 1..Len(rows) /\ backfills \cup dropped \subseteq 1..Len(packs)

(* A fetch that ends well gives the client every object its wants reach:   *)
(* subtracting what the haves prove (refClosure.ts) never leaves a hole,   *)
(* whatever the packs no longer hold.                                      *)
NothingMissing == Complete => Reach(wants, OID) \subseteq Received \cup Held

(* The output pack holds every needed object once, each delta behind the   *)
(* base it was made against, at the distance its header says               *)
(* (selection, ownership, layout).                                         *)
PackReadable == OutputSound

(* A snapshot whose objects can all be read is rewritten, unless two       *)
(* objects are each pinned in two packs and redirected across              *)
(* (ownership.ts, selectionCompact.ts), or one of the size limits refuses: *)
(* that of a whole object made to break a cycle, that of all of them, and  *)
(* that of the output, whose headers have settled.                         *)
Crossed ==
    \E e, f \in Range(dead) :
        /\ e # f
        /\ \A g \in {e, f} : rows[g[1]].pinned /\ rows[Redirect(dead, g[1])].pinned

Readable == MissingNeeded = {} /\ \A o \in Located : Materializable(packs, o)

Oversized ==
    \/ reason = "synthetic-object-too-large" /\ \E s \in 1..Len(rows) : rows[s].oid \in large
    \/ reason = "synthetic-payload-budget-exceeded" /\ \E s \in 1..Len(rows) : rows[s].synthetic
    \/ layout # <<>> /\ OutputBytes(order, layout) > OutputMax

RewriteSucceeds == (phase = "failed" /\ Readable) => Crossed \/ Oversized

(* Unless its client left or its lease was lost, a response that closes    *)
(* without a fatal packet carries the whole pack: a range that cannot be   *)
(* read in the middle never ends in a plain flush.                         *)
FlushMeansWhole == (closed = "flush" /\ ~aborted) => ended = "complete" /\ sent = Chunks

(* Every request ends, with its lease given back, or run out where the     *)
(* release failed.                                                         *)
Ends == <>[](status \in Responses /\ lease \in {"none", "released"})

(* A fetch that found sidecars missing gets every one of them rebuilt      *)
(* (schedulePackRefBackfill for each, not only the first), except where    *)
(* the message could not be sent or its consumer gave up.                  *)
SidecarsRebuilt == (status = "retry" /\ bare # {}) ~> (bare \subseteq dropped)

(* A response that ends normally holds the objects the client lacks, and   *)
(* one that closes without an error holds all it should.                   *)
ResponseExact ==
  /\ TypeOK
  /\ NothingMissing
  /\ FlushMeansWhole

(* Whatever encodings the packs choose, the rewrite succeeds within its    *)
(* limits and its output can be unpacked.                                  *)
PackSound ==
  /\ PackReadable
  /\ RewriteSucceeds

(* A fetch ends, and one that was told to retry can succeed later.         *)
FetchEnds ==
  /\ Ends
  /\ SidecarsRebuilt
=============================================================================
