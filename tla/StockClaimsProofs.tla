------------------------- MODULE StockClaimsProofs --------------------------
(***************************************************************************)
(* The inductive invariant of StockReceive, for any operations, requests,  *)
(* refs and limits, and the proofs that the steps of the clients keep it:  *)
(* preparation, promotion, admission, execution, the calls of finalize,    *)
(* and what a request does with the answer.  StockReceiveProofs has the    *)
(* steps of the other actors and the theorems.                             *)
(***************************************************************************)
EXTENDS StockReceive, FiniteSetTheorems, SequenceTheorems, WellFoundedInduction, TLAPS

------------------------------------------------------------------------------
(* The inductive invariant *)

Runs == Request \cup {Alarm}
Value == Op \cup Request \cup {None}
Intents == [ver : Nat \cup {-1}, seq : Nat \cup {-1}]

Fins == [pc : {"idle", "acquire", "read", "plan", "publish", "release"},
         op : Op \cup {None}, claim : 0 .. MaxClaims, ver : Nat, seq : Nat,
         refs : [Ref -> Value], tok : Request \cup {None}, says : Answers]

Tasks == [pc : {"idle", "publish", "erase", "complete"}, claim : 0 .. MaxClaims,
          outputs : BOOLEAN]

Places == {"idle", "reserved", "exclusive", "recovering", "execute", "reject",
           "finalize", "called", "refused", "publish", "erase", "complete", "done"}
Workers == [pc : Places, claim : 0 .. MaxClaims, own : BOOLEAN, outputs : BOOLEAN,
            close : BOOLEAN, again : BOOLEAN, acked : BOOLEAN, says : Answers]

ReceiveLeases == [tok : Request \cup {None}, live : BOOLEAN]
Preparations == [tok : Request, live : BOOLEAN]
PublicationLeases == [tok : Key \cup {None}, live : BOOLEAN]
RecoveryLeases == [op : Op \cup {None}, tok : Request \cup {None}, live : BOOLEAN]

\* The types of all variables.
InputTypes ==
  /\ opOf \in [Request -> Op \cup {None, Idle}] /\ refOf \in [Op -> Ref]
  /\ expect \in [Op -> Value] /\ refOnly \subseteq Op /\ pool \in Nat /\ retained \in Nat

StoreTypes ==
  /\ op \in [Op -> Ops] /\ ledger \in Seq(Op) /\ refs \in [Ref -> Value]
  /\ version \in Nat /\ seq \in Nat \ {0} /\ row \in [Key -> Nat]
  /\ rlease \in ReceiveLeases /\ prep \subseteq Preparations
  /\ please \in PublicationLeases /\ reclease \in RecoveryLeases
  /\ intent \in [Request -> Intents] /\ alarm \in BOOLEAN

ActorTypes ==
  /\ fin \in [Runs -> Fins] /\ bucket \subseteq Key /\ queued \subseteq Op
  /\ task \in [Op -> Tasks] /\ w \in [Request -> Workers]
  /\ issued \in [Op -> 0 .. MaxClaims] /\ landed \in [Op -> Nat] /\ moved \subseteq Op
  /\ last \in [Ref -> Value] /\ late \subseteq Op /\ forgotten \subseteq Op
  /\ faults \in Nat /\ edits \in Nat

\* A record exists from its first claim on and names the request that took it.
RecordsOK ==
  \A o \in Op :
    /\ op[o].st = "none" => op[o] = NoOp
    /\ op[o].st # "none" => /\ op[o].claim >= 1 /\ op[o].lease \in Request
                            /\ opOf[op[o].lease] = o
    /\ op[o].claim <= issued[o]
    /\ op[o].retry => op[o].st \in {"aborted", "failed"}

\* A request that was admitted once is never admitted again.
Used(q) == w[q].own \/ w[q].pc = "done"

Outside == {"idle", "reserved", "exclusive", "recovering"}

WorkersOK ==
  \A q \in Request :
    /\ w[q].pc \in Outside => ~w[q].own
    /\ w[q].pc = "exclusive" => ~Stock(q)
    /\ w[q].pc \notin Outside \cup {"done"} => Stock(q) /\ w[q].claim >= 1
    /\ w[q].pc \in {"execute", "reject"} => w[q].own
    /\ w[q].claim >= 1 => Stock(q) /\ w[q].claim <= issued[opOf[q]]
    /\ w[q].own => w[q].claim >= 1
    /\ w[q].outputs => w[q].pc \in {"erase", "complete"}
    /\ w[q].pc \in {"idle", "done"} => w[q].claim = 0

\* The owner of a claim is the one request that took it.
OwnersOK ==
  \A q \in Request : w[q].own =>
    /\ w[q].claim = op[opOf[q]].claim => op[opOf[q]].lease = q
    /\ op[opOf[q]].lease = q => w[q].claim = op[opOf[q]].claim
    /\ \A b \in Request : w[b].own /\ opOf[b] = opOf[q] /\ w[b].claim = w[q].claim => b = q

\* Only an admitted request names records, receive leases and intents.
TokensOK ==
  /\ \A o \in Op : op[o].lease # None => Used(op[o].lease)
  /\ rlease.tok # None /\ Stock(rlease.tok) => Used(rlease.tok)
  /\ \A x \in Runs : fin[x].tok # None => Stock(fin[x].tok) /\ Used(fin[x].tok)
  /\ \A q \in Request : intent[q] # NoIntent => Used(q) /\ intent[q].ver >= 0

\* What a run of finalizeStockReceive works on.
FinsOK ==
  \A x \in Runs :
    /\ fin[x].pc = "idle" => fin[x] = NoFin
    /\ fin[x].pc # "idle" =>
         /\ fin[x].op \in Op /\ fin[x].claim >= 1 /\ fin[x].claim <= issued[fin[x].op]
         /\ x \in Request => fin[x].op = opOf[x]
         /\ x \in Request /\ w[x].pc = "called" => fin[x].claim = w[x].claim
         /\ Claimed(x) => op[fin[x].op].st # "processing"
    /\ fin[x].pc \in {"read", "plan", "publish"} => fin[x].tok # None
    /\ fin[x].tok # None => /\ fin[x].pc # "idle" /\ opOf[fin[x].tok] = fin[x].op
                            /\ Claimed(x) <=> fin[x].tok = Token(x)
    /\ fin[x].pc = "acquire" => fin[x].tok = None
    /\ fin[x].pc = "release" <=> fin[x].says # None
    /\ fin[x].says = "busy" => fin[x].tok = None

\* The lane: whoever may still publish holds the receive lease, and what it read
\* is what is stored.
LaneOK ==
  \A x \in Runs :
    /\ fin[x].pc \in {"read", "plan", "publish"} /\ Ready(x) =>
         /\ rlease.tok = fin[x].tok /\ rlease.live
         /\ fin[x].pc \in {"plan", "publish"} => fin[x].refs = refs
         /\ fin[x].pc = "publish" =>
              fin[x].ver = version /\ fin[x].seq = seq /\ Valid(fin[x].op, refs)
    /\ fin[x].pc = "release" /\ fin[x].says # "busy" => ~Ready(x)

\* The refs are the ones published last, and an operation that is published
\* moved its ref once.
LandedOK ==
  /\ refs = last
  /\ \A o \in Op : IF op[o].st \in {"finalizing", "committed"}
       THEN landed[o] = 1 /\ o \in moved /\ (o \in refOnly \/ row[<<o, op[o].claim>>] # 0)
       ELSE landed[o] = 0

\* A claim that is over, and one that moved its ref and is served.
Over(o, c) == op[o].claim = c => op[o].st \in Terminal
Served(o, c) == o \in moved /\ (o \in refOnly \/ row[<<o, c>>] # 0)

\* Only such a claim is answered with success.
AnswersOK ==
  /\ \A x \in Runs : fin[x].says = "replayed" =>
       Served(fin[x].op, fin[x].claim) /\ Over(fin[x].op, fin[x].claim)
  /\ \A q \in Request :
       /\ w[q].acked => opOf[q] \in moved
       /\ w[q].says = "replayed" =>
            Served(opOf[q], w[q].claim) /\ Over(opOf[q], w[q].claim)
       /\ w[q].says # None => w[q].pc = "refused"

\* The write-ahead record of a ready operation keeps the lane for it, even when
\* its publisher is gone and its lease has run out.
WalOK ==
  \A o \in Op :
    /\ op[o].st = "processing" => ~op[o].plan
    /\ op[o].st \in {"processing", "ready"} =>
         (op[o].plan <=> intent[op[o].lease] # NoIntent)
    /\ op[o].st = "ready" /\ op[o].plan =>
         /\ rlease.tok = op[o].lease
         /\ intent[op[o].lease] = [ver |-> version, seq |-> seq]
         /\ row[<<o, op[o].claim>>] \in {0, seq} /\ Valid(o, refs)
         /\ fin[Alarm].op = o => Claimed(Alarm)

\* Rows name outputs of claims that are published or about to be.
RowsOK ==
  \A o \in Op :
    /\ op[o].st \in {"processing", "aborted", "failed"} => row[<<o, op[o].claim>>] = 0
    /\ op[o].st = "ready" /\ ~op[o].plan => row[<<o, op[o].claim>>] = 0
    /\ \A c \in 1 .. MaxClaims : c > issued[o] => row[<<o, c>>] = 0

\* A claim that is over for good, and was not published as far as anyone who
\* still works on it may know.
Past(o, c) ==
  /\ c \in 1 .. MaxClaims /\ c <= issued[o]
  /\ op[o].claim = c => op[o].st \in {"aborted", "failed"}

Unserved(o, c) == Past(o, c) /\ (row[<<o, c>>] = 0 \/ o \in forgotten)

DismissedOK ==
  /\ \A x \in Request : fin[x].says \in {"conflict", "cleanup", "rejected"}
       /\ w[x].pc = "called" => Unserved(fin[x].op, fin[x].claim)
  /\ \A q \in Request :
       /\ w[q].claim >= 1 /\ op[opOf[q]].claim # w[q].claim =>
            row[Mine(q)] = 0 \/ opOf[q] \in forgotten
       /\ w[q].says \in {"conflict", "cleanup", "rejected"} => Unserved(opOf[q], w[q].claim)
       /\ w[q].pc = "erase" /\ w[q].outputs => Unserved(opOf[q], w[q].claim)
       /\ w[q].pc \in {"erase", "complete"} => Over(opOf[q], w[q].claim)
       /\ w[q].pc \in {"execute", "reject"} /\ op[opOf[q]].claim = w[q].claim =>
            op[opOf[q]].st \in {"processing", "aborted", "failed"}
       /\ w[q].claim >= 1 /\ op[opOf[q]].claim = w[q].claim
            /\ op[opOf[q]].st = "processing" =>
            w[q].own /\ w[q].pc \in {"execute", "reject", "finalize"}

\* Rows have their packs; so have the claims that are about to get a row.
StoredOK ==
  /\ \A k \in Key : row[k] # 0 /\ k[1] \notin forgotten => k \in bucket
  /\ \A o \in Op \ refOnly : op[o].st = "ready" => <<o, op[o].claim>> \in bucket
  /\ \A q \in Request : w[q].pc = "finalize" /\ opOf[q] \notin refOnly
       /\ op[opOf[q]].claim = w[q].claim /\ op[opOf[q]].st = "processing" => Mine(q) \in bucket

\* An output that no row names belongs to a record that is not cleaned up.
Tidy(o, c) == o \in late \/ (<<o, c>> \in bucket => row[<<o, c>>] # 0)

TidyOK ==
  /\ \A k \in bucket : k[1] \notin refOnly
  /\ \A o \in Op \ late : \A c \in 1 .. MaxClaims :
       <<o, c>> \in bucket /\ row[<<o, c>>] = 0 =>
         op[o].claim = c /\ (op[o].st \in Terminal => op[o].pend)
  /\ \A q \in Request :
       /\ w[q].pc = "erase" /\ w[q].close /\ ~w[q].outputs => Served(opOf[q], w[q].claim)
       /\ w[q].pc = "complete" => Tidy(opOf[q], w[q].claim)

\* What the consumers of messages are about to remove.
TasksOK ==
  \A o \in Op :
    /\ task[o].pc # "idle" => task[o].claim >= 1 /\ task[o].claim <= issued[o]
    /\ task[o].outputs => task[o].pc \in {"erase", "complete"}
    /\ task[o].pc = "erase" /\ task[o].outputs =>
         Past(o, task[o].claim) /\ row[<<o, task[o].claim>>] = 0
    /\ task[o].pc = "erase" /\ ~task[o].outputs => Served(o, task[o].claim)
    /\ task[o].pc \in {"erase", "complete"} => Over(o, task[o].claim)
    /\ task[o].pc = "complete" => Tidy(o, task[o].claim)

\* The ledger lists every record once.
Distinct(s) == \A i \in 1 .. Len(s) : \A j \in 1 .. Len(s) : s[i] = s[j] => i = j
LedgerOK ==
  /\ Range(ledger) = {o \in Op : op[o].st # "none"}
  /\ Distinct(ledger) /\ Len(ledger) <= retained

\* The pool is finite and within its bound.
PoolOK == IsFiniteSet(Prepared) /\ IsFiniteSet(ActiveOps) /\ PoolBounded

StockInv ==
  /\ InputTypes /\ StoreTypes /\ ActorTypes
  /\ RecordsOK /\ WorkersOK /\ OwnersOK /\ TokensOK /\ FinsOK
  /\ LaneOK /\ LandedOK /\ AnswersOK
  /\ WalOK /\ RowsOK /\ DismissedOK /\ StoredOK /\ TidyOK /\ TasksOK
  /\ LedgerOK /\ PoolOK /\ PromotionExclusive

------------------------------------------------------------------------------
(* Searching and changing the ledger *)

\* A set of natural numbers that is not empty has a least element.
LEMMA MinIn ==
  ASSUME NEW S \in SUBSET Nat, S # {}
  PROVE  Min(S) \in S
<1> DEFINE R == OpToRel(<, Nat)
<1>1. IsWellFoundedOn(R, Nat)
  BY NatLessThanWellFounded, Zenon
<1> HIDE DEF R
<1>2. PICK n \in S : \A m \in S : <<m, n>> \notin R
  BY <1>1, WFMin, Zenon
<1>3. ASSUME NEW m \in S
      PROVE  n <= m
  <2>1. m < n => <<m, n>> \in R
    BY DEF R, OpToRel
  <2> QED BY <1>2, <2>1
<1> QED BY <1>3 DEF Min

\* What a search finds.
LEMMA Found ==
  ASSUME NEW n \in Nat, NEW I, \A i \in I : i \in 1..n, NEW k,
         k = IF I # {} THEN Min(I) ELSE 0, k # 0
  PROVE  k \in I
<1>1. I \in SUBSET Nat
  OBVIOUS
<1>2. I # {} /\ k = Min(I)
  OBVIOUS
<1> QED BY <1>1, <1>2, MinIn

\* The alarm resumes an operation that is ready.
LEMMA ToResumeReady ==
  ASSUME ledger \in Seq(Op), FirstReady # 0
  PROVE  ToResume \in Op /\ op[ToResume].st = "ready"
<1> DEFINE I == {i \in 1..Len(ledger) : IsReady(ledger[i])}
           J == {i \in 1..Len(ledger) : LeftBehind(ledger[i])}
<1>0. Len(ledger) \in Nat /\ (\A i \in I : i \in 1..Len(ledger)) /\ (\A i \in J : i \in 1..Len(ledger))
  OBVIOUS
<1>1. FirstReady \in I
  <2>1. FirstReady = IF I # {} THEN Min(I) ELSE 0
    BY DEF FirstReady, SelectInSeq
  <2> HIDE DEF I
  <2> QED BY <1>0, <2>1, Found
<1>3. PICK k : k = SelectInSeq(ledger, LeftBehind)
  OBVIOUS
<1>4. k # 0 => k \in J
  <2>1. k = IF J # {} THEN Min(J) ELSE 0
    BY <1>3 DEF SelectInSeq
  <2> HIDE DEF J
  <2> QED BY <1>0, <2>1, Found
<1>5. ToResume = ledger[IF k # 0 THEN k ELSE FirstReady]
  BY <1>3 DEF ToResume
<1>6. PICK i \in 1..Len(ledger) : ToResume = ledger[i] /\ IsReady(ledger[i])
  BY <1>1, <1>4, <1>5 DEF LeftBehind
<1> QED BY <1>6 DEF IsReady

\* The alarm aborts an operation that is processing.
LEMMA FirstProcessingOK ==
  ASSUME ledger \in Seq(Op), FirstProcessing # 0
  PROVE  ledger[FirstProcessing] \in Op /\ op[ledger[FirstProcessing]].st = "processing"
<1> DEFINE I == {i \in 1..Len(ledger) : IsProcessing(ledger[i])}
<1>0. Len(ledger) \in Nat /\ (\A i \in I : i \in 1..Len(ledger))
  OBVIOUS
<1>1. FirstProcessing \in I
  <2>1. FirstProcessing = IF I # {} THEN Min(I) ELSE 0
    BY DEF FirstProcessing, SelectInSeq
  <2> HIDE DEF I
  <2> QED BY <1>0, <2>1, Found
<1> QED BY <1>1 DEF IsProcessing

\* The alarm queues an operation.
LEMMA ToRecoverOp ==
  ASSUME ledger \in Seq(Op), ToRecover # 0
  PROVE  Reverse(ledger)[ToRecover] \in Op
<1>1. PICK s : s = Reverse(ledger)
  OBVIOUS
<1>2. s \in Seq(Op)
  BY <1>1 DEF Reverse
<1> DEFINE I == {i \in 1..Len(s) : NeedsWorker(s[i])}
<1>0. Len(s) \in Nat /\ (\A i \in I : i \in 1..Len(s))
  BY <1>2
<1>3. ToRecover \in I
  <2>1. ToRecover = IF I # {} THEN Min(I) ELSE 0
    BY <1>1 DEF ToRecover, SelectInSeq
  <2> HIDE DEF I
  <2> QED BY <1>0, <2>1, Found
<1> QED BY <1>1, <1>2, <1>3

\* A sequence without its i-th element.
LEMMA Removed ==
  ASSUME NEW S, NEW s \in Seq(S), NEW i \in 1..Len(s)
  PROVE  /\ RemoveAt(s, i) \in Seq(S) /\ Len(RemoveAt(s, i)) = Len(s) - 1
         /\ \A j \in 1..(Len(s) - 1) : RemoveAt(s, i)[j] = IF j < i THEN s[j] ELSE s[j + 1]
<1> DEFINE a == SubSeq(s, 1, i - 1)  b == SubSeq(s, i + 1, Len(s))
<1>1. a \in Seq(S) /\ Len(a) = i - 1 /\ \A j \in 1..(i - 1) : a[j] = s[j]
  OBVIOUS
<1>2. b \in Seq(S) /\ Len(b) = Len(s) - i /\ \A j \in 1..(Len(s) - i) : b[j] = s[i + j]
  OBVIOUS
<1>3. RemoveAt(s, i) = a \o b
  BY DEF RemoveAt
<1> HIDE DEF a, b
<1>4. a \o b \in Seq(S) /\ Len(a \o b) = Len(s) - 1
  <2>1. Len(a \o b) = Len(a) + Len(b)
    BY <1>1, <1>2, ConcatProperties
  <2>2. Len(s) \in Nat
    OBVIOUS
  <2> QED BY <1>1, <1>2, <2>1, <2>2
<1>5. ASSUME NEW j \in 1..(Len(s) - 1)
      PROVE  (a \o b)[j] = IF j < i THEN s[j] ELSE s[j + 1]
  <2>0. Len(s) \in Nat /\ i \in Nat /\ j \in Nat /\ i <= Len(s) /\ 1 <= j /\ j <= Len(s) - 1
    OBVIOUS
  <2>1. (a \o b)[j] = IF j <= i - 1 THEN a[j] ELSE b[j - (i - 1)]
    <3>1. j \in 1..(Len(a) + Len(b))
      BY <1>1, <1>2, <2>0
    <3>2. (a \o b)[j] = IF j <= Len(a) THEN a[j] ELSE b[j - Len(a)]
      BY <1>1, <1>2, <3>1, ConcatProperties
    <3> QED BY <1>1, <3>2
  <2>2. CASE j < i
    <3>1. j \in 1..(i - 1) /\ j <= i - 1
      BY <2>0, <2>2
    <3> QED BY <1>1, <2>1, <2>2, <3>1
  <2>3. CASE ~(j < i)
    <3>1. /\ j - (i - 1) \in 1..(Len(s) - i) /\ i + (j - (i - 1)) = j + 1
          /\ ~(j <= i - 1)
      BY <2>0, <2>3
    <3>2. b[j - (i - 1)] = s[j + 1]
      BY <1>2, <3>1
    <3> QED BY <2>1, <2>3, <3>1, <3>2
  <2> QED BY <2>2, <2>3
<1> QED BY <1>3, <1>4, <1>5

\* A sequence without repetitions from which one element is removed.
LEMMA RemovedElements ==
  ASSUME NEW S, NEW s \in Seq(S), NEW i \in 1..Len(s), Distinct(s), NEW t, t = RemoveAt(s, i)
  PROVE  /\ t \in Seq(S) /\ Len(t) = Len(s) - 1 /\ Distinct(t)
         /\ Range(t) = Range(s) \ {s[i]}
<1>0. Len(s) \in Nat /\ i \in Nat /\ i >= 1 /\ i <= Len(s)
  OBVIOUS
<1>1. t \in Seq(S) /\ Len(t) = Len(s) - 1
  BY Removed
<1>2. \A j \in 1..Len(t) : t[j] = IF j < i THEN s[j] ELSE s[j + 1]
  BY <1>1, Removed
<1> DEFINE f(j) == IF j < i THEN j ELSE j + 1
<1>3. \A j \in 1..Len(t) : f(j) \in 1..Len(s) /\ f(j) # i /\ t[j] = s[f(j)]
  <2> TAKE j \in 1..Len(t)
  <2>1. t[j] = IF j < i THEN s[j] ELSE s[j + 1]
    BY <1>2
  <2> QED BY <1>0, <1>1, <2>1
<1>4. \A j \in 1..Len(t) : \A k \in 1..Len(t) : f(j) = f(k) => j = k
  BY <1>0, <1>1
<1>5. \A k \in 1..Len(s) : k # i => \E j \in 1..Len(t) : f(j) = k
  <2> SUFFICES ASSUME NEW k \in 1..Len(s), k # i
               PROVE  \E j \in 1..Len(t) : f(j) = k
    OBVIOUS
  <2>1. CASE k < i
    <3>1. k \in 1..Len(t) /\ f(k) = k
      BY <1>0, <1>1, <2>1
    <3> QED BY <3>1
  <2>2. CASE k > i
    <3>1. k - 1 \in 1..Len(t) /\ f(k - 1) = k
      BY <1>0, <1>1, <2>2
    <3> QED BY <3>1
  <2> QED BY <1>0, <2>1, <2>2
<1> HIDE DEF f
<1>6. Distinct(t)
  BY <1>3, <1>4 DEF Distinct
<1>7. Range(t) = Range(s) \ {s[i]}
  <2>1. DOMAIN t = 1..Len(t) /\ DOMAIN s = 1..Len(s)
    BY <1>1
  <2>2. \A j \in 1..Len(t) : t[j] \in Range(s) \ {s[i]}
    BY <1>3, <2>1 DEF Distinct, Range
  <2>3. ASSUME NEW k \in 1..Len(s), s[k] # s[i]
        PROVE  s[k] \in Range(t)
    <3>1. k \in (1..Len(s)) \ {i}
      BY <2>3
    <3>2. PICK j \in 1..Len(t) : f(j) = k
      BY <1>5, <3>1
    <3>3. t[j] = s[k]
      BY <1>3, <3>2
    <3> QED BY <2>1, <3>3 DEF Range
  <2> QED BY <2>1, <2>2, <2>3 DEF Range
<1> QED BY <1>1, <1>6, <1>7

\* What admission does to the ledger: it forgets at most one record, of another
\* operation, which is settled and cleaned up.
LEMMA Retaining ==
  ASSUME ledger \in Seq(Op), LedgerOK, NEW o \in Op
  PROVE  /\ Spared(o) \in Seq(Op) /\ Distinct(Spared(o))
         /\ \A p \in Evicted(o) : p \in Op /\ p # o /\ Evictable(p)
         /\ Range(Spared(o)) = {p \in Op : op[p].st # "none" /\ p # o /\ p \notin Evicted(o)}
<1> DEFINE I == {i \in 1..Len(ledger) : ledger[i] = o}
<1>1. PICK s : s = Others(o)
  OBVIOUS
<1>2. s \in Seq(Op) /\ Distinct(s) /\ Range(s) = {p \in Op : op[p].st # "none" /\ p # o}
  <2>0. Len(ledger) \in Nat /\ (\A i \in I : i \in 1..Len(ledger)) /\ DOMAIN ledger = 1..Len(ledger)
    OBVIOUS
  <2>1. CASE I = {}
    <3>1. s = ledger
      BY <1>1, <2>1 DEF Others, RemoveFirst
    <3>2. \A j \in 1..Len(ledger) : ledger[j] # o
      BY <2>1
    <3>3. o \notin Range(ledger)
      BY <2>0, <3>2 DEF Range
    <3> QED BY <3>1, <3>3 DEF LedgerOK
  <2>2. CASE I # {}
    <3>1. PICK i : i = SelectInSeq(ledger, LAMBDA v : v = o)
      OBVIOUS
    <3>2. i = IF I # {} THEN Min(I) ELSE 0
      BY <3>1 DEF SelectInSeq
    <3>3. i \in I
      <4> HIDE DEF I
      <4>1. I \in SUBSET Nat
        BY <2>0
      <4> QED BY <2>2, <3>2, <4>1, MinIn
    <3>4. s = RemoveAt(ledger, i)
      BY <1>1, <2>2, <3>1 DEF Others, RemoveFirst
    <3>5. s \in Seq(Op) /\ Distinct(s) /\ Range(s) = Range(ledger) \ {ledger[i]}
      BY <3>3, <3>4, RemovedElements DEF LedgerOK
    <3> QED BY <3>3, <3>5 DEF LedgerOK
  <2> QED BY <2>1, <2>2
<1> DEFINE J == {i \in 1..Len(s) : Evictable(s[i])}
<1>3. PICK v : v = Victim(o)
  OBVIOUS
<1>4. v # 0 => v \in J
  <2>0. Len(s) \in Nat /\ \A i \in J : i \in 1..Len(s)
    BY <1>2
  <2>1. SelectInSeq(s, Evictable) = IF J # {} THEN Min(J) ELSE 0
    BY DEF SelectInSeq
  <2>2. v # 0 => v = SelectInSeq(s, Evictable)
    BY <1>1, <1>3 DEF Victim
  <2> HIDE DEF J
  <2> QED BY <2>0, <2>1, <2>2, Found
<1>5. CASE v = 0
  <2>1. Spared(o) = s /\ Evicted(o) = {}
    BY <1>1, <1>3, <1>5 DEF Spared, Evicted
  <2> QED BY <1>2, <2>1
<1>6. CASE v # 0
  <2>1. v \in 1..Len(s) /\ Evictable(s[v])
    BY <1>4, <1>6
  <2>2. Evicted(o) = {s[v]}
    BY <1>1, <1>3, <1>6 DEF Evicted
  <2>3. PICK t : t = Spared(o)
    OBVIOUS
  <2>4. t = RemoveAt(s, v)
    BY <1>1, <1>3, <1>6, <2>3 DEF Spared
  <2>5. t \in Seq(Op) /\ Distinct(t) /\ Range(t) = Range(s) \ {s[v]}
    BY <1>2, <2>1, <2>4, RemovedElements
  <2>6. s[v] \in Op /\ s[v] # o
    <3>1. s[v] \in Range(s)
      BY <1>2, <2>1 DEF Range
    <3> QED BY <1>2, <3>1
  <2> QED BY <1>2, <2>1, <2>2, <2>3, <2>5, <2>6
<1> QED BY <1>5, <1>6

------------------------------------------------------------------------------
(* Fields *)

States == {"none", "processing", "ready", "finalizing"} \cup Terminal

\* The types of the fields.
LEMMA FieldTypes ==
  ASSUME InputTypes, StoreTypes, ActorTypes
  PROVE  /\ None \notin Request \cup {"busy", "conflict", "cleanup", "rejected", "replayed", "pending"}
         /\ \A o \in Op : /\ op[o].claim \in Nat /\ issued[o] \in Nat /\ op[o].st \in States
                         /\ op[o].lease \in Request \cup {None}
         /\ \A q \in Request : w[q].claim \in Nat
         /\ \A x \in Runs : fin[x].claim \in Nat /\ fin[x].tok \in Request \cup {None}
         /\ rlease.tok \in Request \cup {None}
BY StockAssumption DEF StoreTypes, ActorTypes, Ops, Workers, Fins, ReceiveLeases, States, Said

\* What is left of the receive lease when a request gives it back.
LEMMA DroppedOK ==
  ASSUME rlease \in ReceiveLeases, NEW t
  PROVE  /\ Dropped(t) \in ReceiveLeases
         /\ rlease.tok = t => Dropped(t).tok = None /\ ~Dropped(t).live
         /\ rlease.tok # t => Dropped(t) = rlease
BY DEF Dropped, NoLease, ReceiveLeases

\* Leases that are not there.
LEMMA NoLeases ==
  /\ NoLease \in ReceiveLeases /\ NoLease \in PublicationLeases /\ NoLease.tok = None
  /\ ~NoLease.live /\ NoRecovery \in RecoveryLeases
BY DEF NoLease, ReceiveLeases, PublicationLeases, NoRecovery, RecoveryLeases

\* What is left of the recovery.
LEMMA RecoveredOK ==
  ASSUME reclease \in RecoveryLeases, NEW t
  PROVE  Recovered(t) \in RecoveryLeases
BY NoLeases DEF Recovered

\* A run that is not there.
LEMMA NoFinOK ==
  /\ NoFin \in Fins /\ NoFin.pc = "idle" /\ NoFin.op = None /\ NoFin.claim = 0
  /\ NoFin.tok = None /\ NoFin.says = None
BY StockAssumption DEF NoFin, Fins, Value, Answers

\* A Worker that left.
LEMMA LeftOK ==
  ASSUME NEW told \in BOOLEAN, NEW r, r = [NewWorker EXCEPT !.pc = "done", !.acked = told]
  PROVE  /\ r \in Workers /\ r.pc = "done" /\ r.claim = 0 /\ ~r.own /\ ~r.outputs
         /\ ~r.close /\ (r.acked <=> told) /\ r.says = None
<1>1. NewWorker \in Workers
  BY StockAssumption DEF NewWorker, Workers, Places, Answers
<1>2. NewWorker.claim = 0 /\ NewWorker.says = None
  BY DEF NewWorker
<1>3. NewWorker.own = FALSE /\ NewWorker.outputs = FALSE /\ NewWorker.close = FALSE
  BY Zenon DEF NewWorker
<1>4. r \in Workers
  BY <1>1 DEF Workers, Places
<1>5. r.acked = told
  BY <1>1 DEF Workers
<1>6. r.pc = "done" /\ r.claim = NewWorker.claim /\ r.says = NewWorker.says
  BY <1>1 DEF Workers
<1>7. r.own = NewWorker.own /\ r.outputs = NewWorker.outputs /\ r.close = NewWorker.close
  BY <1>1 DEF Workers
<1> QED BY <1>2, <1>3, <1>4, <1>5, <1>6, <1>7

\* ... without a word.
LEMMA DoneOK ==
  ASSUME NEW r, r = [NewWorker EXCEPT !.pc = "done"]
  PROVE  /\ r \in Workers /\ r.pc = "done" /\ r.claim = 0 /\ ~r.own /\ ~r.outputs
         /\ ~r.close /\ ~r.acked /\ r.says = None
<1>1. NewWorker \in Workers
  BY StockAssumption DEF NewWorker, Workers, Places, Answers
<1>2. NewWorker.claim = 0 /\ NewWorker.says = None
  BY DEF NewWorker
<1>3. /\ NewWorker.own = FALSE /\ NewWorker.outputs = FALSE /\ NewWorker.close = FALSE
      /\ NewWorker.acked = FALSE
  BY Zenon DEF NewWorker
<1>4. r \in Workers
  BY <1>1 DEF Workers, Places
<1>5. r.pc = "done" /\ r.claim = NewWorker.claim /\ r.says = NewWorker.says
  BY <1>1 DEF Workers
<1>6. /\ r.own = NewWorker.own /\ r.outputs = NewWorker.outputs /\ r.close = NewWorker.close
      /\ r.acked = NewWorker.acked
  BY <1>1 DEF Workers
<1> QED BY <1>2, <1>3, <1>4, <1>5, <1>6

\* The record of nothing.
LEMMA NoOpOK ==
  /\ NoOp \in Ops /\ NoOp.st = "none" /\ NoOp.claim = 0 /\ NoOp.lease = None
  /\ ~NoOp.lapsed /\ ~NoOp.pend /\ ~NoOp.retry /\ ~NoOp.plan
<1>1. NoOp \in Ops
  BY StockAssumption DEF NoOp, Ops
<1>2. NoOp.st = "none" /\ NoOp.claim = 0 /\ NoOp.lease = None
  BY DEF NoOp
<1>3. ~NoOp.lapsed /\ ~NoOp.pend /\ ~NoOp.retry /\ ~NoOp.plan
  BY Zenon DEF NoOp
<1> QED BY <1>1, <1>2, <1>3

\* A record that is given up.
LEMMA FailedOK ==
  ASSUME NEW e \in Ops, NEW again \in BOOLEAN, NEW f,
         f = [e EXCEPT !.st = "failed", !.pend = TRUE, !.retry = again]
  PROVE  f \in Ops /\ f.st = "failed" /\ f.claim = e.claim /\ f.lease = e.lease /\ f.pend
<1>1. f \in Ops
  BY DEF Ops, Terminal
<1>2. f.st = "failed" /\ f.claim = e.claim /\ f.lease = e.lease /\ f.pend
  BY DEF Ops
<1> QED BY <1>1, <1>2

\* A record that is cleaned up.
LEMMA CleanedOK ==
  ASSUME NEW e \in Ops, NEW f, f = [e EXCEPT !.pend = FALSE]
  PROVE  /\ f \in Ops /\ f.st = e.st /\ f.claim = e.claim /\ f.lease = e.lease /\ ~f.pend
         /\ (f.lapsed <=> e.lapsed) /\ (f.retry <=> e.retry) /\ (f.plan <=> e.plan)
<1>1. f \in Ops
  BY DEF Ops
<1>2. f.st = e.st /\ f.claim = e.claim /\ f.lease = e.lease
  BY DEF Ops
<1>3. ~f.pend
  BY Zenon DEF Ops
<1>4. (f.lapsed <=> e.lapsed) /\ (f.retry <=> e.retry) /\ (f.plan <=> e.plan)
  BY DEF Ops
<1> QED BY <1>1, <1>2, <1>3, <1>4

\* The pool keeps its bound when nobody enters it.
LEMMA PoolShrinks ==
  ASSUME PoolOK, pool \in Nat, pool' = pool, Prepared' \subseteq Prepared,
         ActiveOps' \subseteq ActiveOps
  PROVE  PoolOK'
<1>1. /\ IsFiniteSet(Prepared') /\ Cardinality(Prepared') <= Cardinality(Prepared)
      /\ IsFiniteSet(ActiveOps') /\ Cardinality(ActiveOps') <= Cardinality(ActiveOps)
  BY FS_Subset DEF PoolOK
<1>2. /\ Cardinality(Prepared) \in Nat /\ Cardinality(Prepared') \in Nat
      /\ Cardinality(ActiveOps) \in Nat /\ Cardinality(ActiveOps') \in Nat
  BY <1>1, FS_CardinalityType DEF PoolOK
<1> QED BY <1>1, <1>2 DEF PoolOK, PoolBounded

\* What the answers of admission mean.
LEMMA AdmissionOK ==
  ASSUME NEW q
  PROVE  /\ Admission(q) = "replayed" => op[opOf[q]].st = "committed"
         /\ Admission(q) = "pending" => op[opOf[q]].st = "finalizing"
         /\ Admission(q) = "finalize" => op[opOf[q]].st = "ready"
         /\ Admission(q) = "cleanup" => op[opOf[q]].st \in {"aborted", "failed"} /\ op[opOf[q]].pend
         /\ Admission(q) = "admitted" =>
              /\ op[opOf[q]].st \notin {"committed", "finalizing", "ready"}
              /\ op[opOf[q]].st = "none" \/ op[opOf[q]].retry
              /\ ~(op[opOf[q]].st \in Terminal /\ op[opOf[q]].pend)
              /\ \A p \in Op \ {opOf[q]} : op[p].st \notin {"ready", "finalizing"}
              /\ HoldsLease(q) /\ ~LedgerFull(opOf[q])
BY DEF Admission, Terminal

\* What the record of a run answers.
LEMMA DispositionOK ==
  ASSUME NEW x
  PROVE  /\ Disposition(x) \in {"rejected", "pending", "replayed", "cleanup"}
         /\ Disposition(x) = "pending" <=> Claimed(x) /\ op[fin[x].op].st = "finalizing"
         /\ Disposition(x) = "replayed" <=> Claimed(x) /\ op[fin[x].op].st = "committed"
         /\ Disposition(x) = "cleanup" <=> Claimed(x) /\ op[fin[x].op].st \in {"aborted", "failed"}
BY DEF Disposition, Terminal

\* InputTypes depends on nothing else.
LEMMA InputTypesFrame ==
  ASSUME InputTypes, UNCHANGED <<opOf, refOf, expect, refOnly, pool, retained>>
  PROVE  InputTypes'
BY DEF InputTypes

\* StoreTypes depends on nothing else.
LEMMA StoreTypesFrame ==
  ASSUME StoreTypes,
         UNCHANGED <<op, ledger, refs, version, seq, row, rlease, prep, please, reclease,
           intent, alarm>>
  PROVE  StoreTypes'
BY DEF StoreTypes

\* ActorTypes depends on nothing else.
LEMMA ActorTypesFrame ==
  ASSUME ActorTypes,
         UNCHANGED <<fin, bucket, queued, task, w, issued, landed, moved, last, late, forgotten,
           faults, edits>>
  PROVE  ActorTypes'
BY DEF ActorTypes

\* RecordsOK depends on nothing else.
LEMMA RecordsOKFrame ==
  ASSUME RecordsOK, UNCHANGED <<opOf, op, issued>>
  PROVE  RecordsOK'
BY DEF RecordsOK

\* WorkersOK depends on nothing else.
LEMMA WorkersOKFrame ==
  ASSUME WorkersOK, UNCHANGED <<opOf, w, issued>>
  PROVE  WorkersOK'
BY DEF WorkersOK, Outside, Stock

\* OwnersOK depends on nothing else.
LEMMA OwnersOKFrame ==
  ASSUME OwnersOK, UNCHANGED <<opOf, op, w>>
  PROVE  OwnersOK'
BY DEF OwnersOK

\* TokensOK depends on nothing else.
LEMMA TokensOKFrame ==
  ASSUME TokensOK, UNCHANGED <<opOf, op, rlease, fin, intent, w>>
  PROVE  TokensOK'
BY DEF TokensOK, Used, Stock

\* FinsOK depends on nothing else.
LEMMA FinsOKFrame ==
  ASSUME FinsOK, UNCHANGED <<fin, opOf, op, w, issued>>
  PROVE  FinsOK'
BY DEF FinsOK, Claimed, Owned, Token

\* LaneOK depends on nothing else.
LEMMA LaneOKFrame ==
  ASSUME LaneOK, UNCHANGED <<fin, op, rlease, refs, version, seq, refOf, expect>>
  PROVE  LaneOK'
BY DEF LaneOK, Ready, Claimed, Owned, Valid

\* LandedOK depends on nothing else.
LEMMA LandedOKFrame ==
  ASSUME LandedOK, UNCHANGED <<refs, last, op, landed, moved, refOnly, row>>
  PROVE  LandedOK'
BY DEF LandedOK

\* AnswersOK depends on nothing else.
LEMMA AnswersOKFrame ==
  ASSUME AnswersOK, UNCHANGED <<fin, w, moved, opOf, refOnly, row, op>>
  PROVE  AnswersOK'
BY DEF AnswersOK, Served, Over, Terminal

\* WalOK depends on nothing else.
LEMMA WalOKFrame ==
  ASSUME WalOK, UNCHANGED <<op, intent, rlease, version, seq, row, refs, fin, refOf, expect>>
  PROVE  WalOK'
BY DEF WalOK, Claimed, Owned, Valid, Runs

\* RowsOK depends on nothing else.
LEMMA RowsOKFrame ==
  ASSUME RowsOK, UNCHANGED <<op, row, issued>>
  PROVE  RowsOK'
BY DEF RowsOK

\* DismissedOK depends on nothing else.
LEMMA DismissedOKFrame ==
  ASSUME DismissedOK, UNCHANGED <<fin, w, op, opOf, issued, row, forgotten>>
  PROVE  DismissedOK'
BY DEF DismissedOK, Unserved, Past, Over, Mine, Terminal, Runs

\* StoredOK depends on nothing else.
LEMMA StoredOKFrame ==
  ASSUME StoredOK, UNCHANGED <<row, forgotten, bucket, op, refOnly, w, opOf>>
  PROVE  StoredOK'
BY DEF StoredOK, Mine

\* TidyOK depends on nothing else.
LEMMA TidyOKFrame ==
  ASSUME TidyOK, UNCHANGED <<bucket, refOnly, late, row, op, w, opOf, moved>>
  PROVE  TidyOK'
BY DEF TidyOK, Tidy, Served, Terminal

\* TasksOK depends on nothing else.
LEMMA TasksOKFrame ==
  ASSUME TasksOK, UNCHANGED <<task, issued, op, row, late, bucket, moved, refOnly>>
  PROVE  TasksOK'
BY DEF TasksOK, Past, Over, Tidy, Served, Terminal

\* LedgerOK depends on nothing else.
LEMMA LedgerOKFrame ==
  ASSUME LedgerOK, UNCHANGED <<ledger, op, retained>>
  PROVE  LedgerOK'
BY DEF LedgerOK

\* PoolOK depends on nothing else.
LEMMA PoolOKFrame ==
  ASSUME PoolOK, UNCHANGED <<prep, op, pool>>
  PROVE  PoolOK'
BY DEF PoolOK, Prepared, ActiveOps, PoolBounded

\* PromotionExclusive depends on nothing else.
LEMMA PromotionExclusiveFrame ==
  ASSUME PromotionExclusive, UNCHANGED <<prep, op, w, rlease>>
  PROVE  PromotionExclusive'
BY DEF PromotionExclusive, Prepared, ActiveOps

------------------------------------------------------------------------------
(* Admission *)

\* The death of a Worker preserves the invariant.
LEMMA WorkerDiesStep ==
  ASSUME StockInv, NEW q \in Request, WorkerDies(q)
  PROVE  StockInv'
<1> USE DEF StockInv
<1>t. /\ None \notin Request \cup {"busy", "conflict", "cleanup", "rejected", "replayed", "pending"}
      /\ op \in [Op -> Ops] /\ w \in [Request -> Workers] /\ fin \in [Runs -> Fins]
      /\ (\A p \in Op : op[p].claim \in Nat /\ issued[p] \in Nat)
      /\ (\A b \in Request : w[b].claim \in Nat) /\ (\A y \in Runs : fin[y].claim \in Nat)
  BY FieldTypes DEF InputTypes, StoreTypes, ActorTypes
<1>u. UNCHANGED <<opOf, refOf, expect, refOnly, pool, retained, op, ledger, refs, version, seq, row,
   rlease, prep, please, reclease, intent, alarm, fin, bucket, queued, task, issued, landed, moved,
   last, late, forgotten, edits>>
  BY DEF WorkerDies, inputs, leases, history
<1>1. PICK r \in Workers :
       /\ w' = [w EXCEPT ![q] = r]
       /\ r.pc = "done" /\ r.claim = 0 /\ ~r.own /\ ~r.outputs
       /\ ~r.close /\ ~r.acked /\ r.says = None
  <2>1. w' = [w EXCEPT ![q] = [NewWorker EXCEPT !.pc = "done", !.acked = FALSE]]
    BY <1>t DEF WorkerDies, Leave
  <2>2. (FALSE) \in BOOLEAN
    BY <1>t DEF Workers
  <2> HIDE DEF StockInv
  <2> QED BY <2>1, <2>2, LeftOK, Zenon
<1>2. faults' \in Nat
  BY DEF WorkerDies, Fault, ActorTypes
<1>3. ActorTypes'
  BY <1>t, <1>1, <1>2, <1>u DEF ActorTypes
<1>4. WorkersOK'
  BY <1>t, <1>1, <1>2, <1>u DEF WorkersOK, Outside, Stock
<1>5. OwnersOK'
  BY <1>t, <1>1, <1>2, <1>u DEF OwnersOK, WorkersOK, Outside, Stock
<1>6. TokensOK'
  BY <1>t, <1>1, <1>2, <1>u DEF TokensOK, Used, Stock, WorkersOK, Outside
<1>7. FinsOK'
  BY <1>t, <1>1, <1>2, <1>u DEF FinsOK, Claimed, Owned, Token
<1>8. AnswersOK'
  BY <1>t, <1>1, <1>2, <1>u DEF AnswersOK, Served, Over, Terminal
<1>9. DismissedOK'
  BY <1>t, <1>1, <1>2, <1>u DEF DismissedOK, Unserved, Past, Over, Mine, Terminal, Runs, WorkersOK,
     Outside, Stock
<1>10. StoredOK'
  BY <1>t, <1>1, <1>2, <1>u DEF StoredOK, Mine
<1>11. TidyOK'
  BY <1>t, <1>1, <1>2, <1>u DEF TidyOK, Tidy, Served, Terminal
<1>12. PromotionExclusive'
  BY <1>t, <1>1, <1>2, <1>u DEF PromotionExclusive, Prepared, ActiveOps, WorkersOK, Outside, Stock
<1>13. InputTypes' /\ StoreTypes' /\ RecordsOK' /\ LaneOK' /\ LandedOK' /\ WalOK' /\ RowsOK' /\
   TasksOK' /\ LedgerOK' /\ PoolOK'
  BY <1>u, InputTypesFrame, StoreTypesFrame, RecordsOKFrame, LaneOKFrame, LandedOKFrame, WalOKFrame,
     RowsOKFrame, TasksOKFrame, LedgerOKFrame, PoolOKFrame
<1> QED BY <1>3, <1>4, <1>5, <1>6, <1>7, <1>8, <1>9, <1>10, <1>11, <1>12, <1>13

\* Admission to the pool preserves the invariant.
LEMMA BeginReceiveStep ==
  ASSUME StockInv, NEW q \in Request, BeginReceive(q)
  PROVE  StockInv'
<1> USE DEF StockInv
<1>t. /\ None \notin Request \cup {"busy", "conflict", "cleanup", "rejected", "replayed", "pending"}
      /\ op \in [Op -> Ops] /\ w \in [Request -> Workers] /\ fin \in [Runs -> Fins]
      /\ (\A p \in Op : op[p].claim \in Nat /\ issued[p] \in Nat)
      /\ (\A b \in Request : w[b].claim \in Nat) /\ (\A y \in Runs : fin[y].claim \in Nat)
  BY FieldTypes DEF InputTypes, StoreTypes, ActorTypes
<1>u. UNCHANGED <<opOf, refOf, expect, refOnly, pool, retained, op, ledger, refs, version, seq, row,
   please, reclease, intent, fin, bucket, queued, task, issued, landed, moved, last, late,
   forgotten, faults, edits>>
  BY DEF BeginReceive, inputs, leases, history
<1>1. PICK r \in Workers :
       /\ w' = [w EXCEPT ![q] = r]
       /\ r.pc = "reserved" /\ r.claim = w[q].claim /\ (r.own <=> w[q].own)
       /\ (r.outputs <=> w[q].outputs)
       /\ (r.close <=> w[q].close) /\ (r.acked <=> w[q].acked) /\ r.says = w[q].says
  <2>1. w'[q] \in Workers /\ w' = [w EXCEPT ![q] = w'[q]]
    BY <1>t DEF BeginReceive, Worker, Workers, Places
  <2>2. /\ w'[q].pc = "reserved" /\ w'[q].claim = w[q].claim /\ (w'[q].own <=> w[q].own)
        /\ (w'[q].outputs <=> w[q].outputs)
        /\ (w'[q].close <=> w[q].close) /\ (w'[q].acked <=> w[q].acked) /\ w'[q].says = w[q].says
    BY <1>t DEF BeginReceive, Worker, Workers
  <2> QED BY <2>1, <2>2
<1>2. /\ w[q].pc = "idle" /\ ~rlease.live /\ rlease' = NoLease /\ ~Unfinished(rlease.tok)
      /\ PoolOpen /\ alarm' = TRUE /\ prep' = prep \cup {[tok |-> q, live |-> TRUE]}
  BY DEF BeginReceive
<1>3. rlease' \in ReceiveLeases /\ rlease'.tok = None /\ [tok |-> q, live |-> TRUE] \in Preparations
  BY <1>2, NoLeases DEF Preparations
<1>4. StoreTypes'
  BY <1>t, <1>1, <1>2, <1>3, <1>u DEF StoreTypes
<1>5. ActorTypes'
  BY <1>t, <1>1, <1>2, <1>3, <1>u DEF ActorTypes
<1>6. WorkersOK'
  BY <1>t, <1>1, <1>2, <1>3, <1>u DEF WorkersOK, Outside, Stock
<1>7. OwnersOK'
  BY <1>t, <1>1, <1>2, <1>3, <1>u DEF OwnersOK, WorkersOK, Outside, Stock
<1>8. TokensOK'
  BY <1>t, <1>1, <1>2, <1>3, <1>u DEF TokensOK, Used, Stock, WorkersOK, Outside
<1>9. FinsOK'
  BY <1>t, <1>1, <1>2, <1>3, <1>u DEF FinsOK, Claimed, Owned, Token
<1>10. LaneOK'
  BY <1>t, <1>1, <1>2, <1>3, <1>u DEF LaneOK, Ready, Claimed, Owned, Valid, FinsOK, Token
<1>11. AnswersOK'
  BY <1>t, <1>1, <1>2, <1>3, <1>u DEF AnswersOK, Served, Over, Terminal
<1>12. WalOK'
  BY <1>t, <1>1, <1>2, <1>3, <1>u DEF WalOK, Claimed, Owned, Valid, Runs, RecordsOK, Unfinished
<1>13. DismissedOK'
  BY <1>t, <1>1, <1>2, <1>3, <1>u DEF DismissedOK, Unserved, Past, Over, Mine, Terminal, Runs,
     WorkersOK, Outside, Stock
<1>14. StoredOK'
  BY <1>t, <1>1, <1>2, <1>3, <1>u DEF StoredOK, Mine
<1>15. TidyOK'
  BY <1>t, <1>1, <1>2, <1>3, <1>u DEF TidyOK, Tidy, Served, Terminal
<1>16. PoolOK'
  <2>1. IsFiniteSet(Prepared') /\ Cardinality(Prepared') <= Cardinality(Prepared) + 1
    <3>1. Prepared' \subseteq Prepared \cup {[tok |-> q, live |-> TRUE]}
      BY <1>2 DEF Prepared
    <3>2. PICK l : l = [tok |-> q, live |-> TRUE]
      OBVIOUS
    <3>3. /\ IsFiniteSet(Prepared \cup {l})
          /\ Cardinality(Prepared \cup {l}) \in {Cardinality(Prepared), Cardinality(Prepared) + 1}
      BY FS_AddElement DEF PoolOK
    <3>4. IsFiniteSet(Prepared') /\ Cardinality(Prepared') <= Cardinality(Prepared \cup {l})
      BY <3>1, <3>2, <3>3, FS_Subset
    <3>5. Cardinality(Prepared) \in Nat /\ Cardinality(Prepared') \in Nat
      BY <3>4, FS_CardinalityType DEF PoolOK
    <3> QED BY <3>3, <3>4, <3>5
  <2>2. ActiveOps' = ActiveOps
    BY <1>u DEF ActiveOps
  <2>3. Cardinality(Prepared) \in Nat /\ Cardinality(Prepared') \in Nat /\ Cardinality(ActiveOps) \in Nat
    BY <2>1, FS_CardinalityType DEF PoolOK
  <2>4. Cardinality(ActiveOps) + Cardinality(Prepared) < pool /\ pool \in Nat /\ pool' = pool
    BY <1>2, <1>u DEF PoolOpen, InputTypes
  <2> QED BY <2>1, <2>2, <2>3, <2>4 DEF PoolOK, PoolBounded
<1>17. PromotionExclusive'
  BY <1>t, <1>1, <1>2, <1>3, <1>u DEF PromotionExclusive, Prepared, ActiveOps, WorkersOK, Outside,
     Stock
<1>18. InputTypes' /\ RecordsOK' /\ LandedOK' /\ RowsOK' /\ TasksOK' /\ LedgerOK'
  BY <1>u, InputTypesFrame, RecordsOKFrame, LandedOKFrame, RowsOKFrame, TasksOKFrame, LedgerOKFrame
<1> QED BY <1>4, <1>5, <1>6, <1>7, <1>8, <1>9, <1>10, <1>11, <1>12, <1>13, <1>14, <1>15, <1>16,
   <1>17, <1>18

\* A retry that starts a recovery preserves the invariant.
LEMMA BeginRecoveryStep ==
  ASSUME StockInv, NEW q \in Request, BeginRecovery(q)
  PROVE  StockInv'
<1> USE DEF StockInv
<1>t. /\ None \notin Request \cup {"busy", "conflict", "cleanup", "rejected", "replayed", "pending"}
      /\ op \in [Op -> Ops] /\ w \in [Request -> Workers] /\ fin \in [Runs -> Fins]
      /\ (\A p \in Op : op[p].claim \in Nat /\ issued[p] \in Nat)
      /\ (\A b \in Request : w[b].claim \in Nat) /\ (\A y \in Runs : fin[y].claim \in Nat)
  BY FieldTypes DEF InputTypes, StoreTypes, ActorTypes
<1>u. UNCHANGED <<opOf, refOf, expect, refOnly, pool, retained, op, ledger, refs, version, seq, row,
   rlease, prep, please, intent, alarm, fin, bucket, queued, task, issued, landed, moved, last,
   late, forgotten, faults, edits>>
  BY DEF BeginRecovery, inputs, leases, history
<1>1. PICK r \in Workers :
       /\ w' = [w EXCEPT ![q] = r]
       /\ r.pc = "recovering" /\ r.claim = w[q].claim /\ (r.own <=> w[q].own)
       /\ (r.outputs <=> w[q].outputs)
       /\ (r.close <=> w[q].close) /\ (r.acked <=> w[q].acked) /\ r.says = w[q].says
  <2>1. w'[q] \in Workers /\ w' = [w EXCEPT ![q] = w'[q]]
    BY <1>t DEF BeginRecovery, Worker, Workers, Places
  <2>2. /\ w'[q].pc = "recovering" /\ w'[q].claim = w[q].claim /\ (w'[q].own <=> w[q].own)
        /\ (w'[q].outputs <=> w[q].outputs)
        /\ (w'[q].close <=> w[q].close) /\ (w'[q].acked <=> w[q].acked) /\ w'[q].says = w[q].says
    BY <1>t DEF BeginRecovery, Worker, Workers
  <2> QED BY <2>1, <2>2
<1>2. w[q].pc = "idle" /\ Stock(q)
  BY DEF BeginRecovery
<1>3. reclease' \in RecoveryLeases
  BY DEF BeginRecovery, Stock, RecoveryLeases
<1>4. StoreTypes'
  BY <1>t, <1>1, <1>2, <1>3, <1>u DEF StoreTypes
<1>5. ActorTypes'
  BY <1>t, <1>1, <1>2, <1>3, <1>u DEF ActorTypes
<1>6. WorkersOK'
  BY <1>t, <1>1, <1>2, <1>3, <1>u DEF WorkersOK, Outside, Stock
<1>7. OwnersOK'
  BY <1>t, <1>1, <1>2, <1>3, <1>u DEF OwnersOK, WorkersOK, Outside, Stock
<1>8. TokensOK'
  BY <1>t, <1>1, <1>2, <1>3, <1>u DEF TokensOK, Used, Stock, WorkersOK, Outside
<1>9. FinsOK'
  BY <1>t, <1>1, <1>2, <1>3, <1>u DEF FinsOK, Claimed, Owned, Token
<1>10. AnswersOK'
  BY <1>t, <1>1, <1>2, <1>3, <1>u DEF AnswersOK, Served, Over, Terminal
<1>11. DismissedOK'
  BY <1>t, <1>1, <1>2, <1>3, <1>u DEF DismissedOK, Unserved, Past, Over, Mine, Terminal, Runs,
     WorkersOK, Outside, Stock
<1>12. StoredOK'
  BY <1>t, <1>1, <1>2, <1>3, <1>u DEF StoredOK, Mine
<1>13. TidyOK'
  BY <1>t, <1>1, <1>2, <1>3, <1>u DEF TidyOK, Tidy, Served, Terminal
<1>14. PromotionExclusive'
  BY <1>t, <1>1, <1>2, <1>3, <1>u DEF PromotionExclusive, Prepared, ActiveOps, WorkersOK, Outside,
     Stock
<1>15. InputTypes' /\ RecordsOK' /\ LaneOK' /\ LandedOK' /\ WalOK' /\ RowsOK' /\ TasksOK' /\
   LedgerOK' /\ PoolOK'
  BY <1>u, InputTypesFrame, RecordsOKFrame, LaneOKFrame, LandedOKFrame, WalOKFrame, RowsOKFrame,
     TasksOKFrame, LedgerOKFrame, PoolOKFrame
<1> QED BY <1>4, <1>5, <1>6, <1>7, <1>8, <1>9, <1>10, <1>11, <1>12, <1>13, <1>14, <1>15

\* Closing a stale recovery preserves the invariant.
LEMMA CloseStaleRecoveryStep ==
  ASSUME StockInv, NEW q \in Request, CloseStaleRecovery(q)
  PROVE  StockInv'
<1> USE DEF StockInv
<1>t. /\ None \notin Request \cup {"busy", "conflict", "cleanup", "rejected", "replayed", "pending"}
      /\ op \in [Op -> Ops] /\ w \in [Request -> Workers] /\ fin \in [Runs -> Fins]
      /\ (\A p \in Op : op[p].claim \in Nat /\ issued[p] \in Nat)
      /\ (\A b \in Request : w[b].claim \in Nat) /\ (\A y \in Runs : fin[y].claim \in Nat)
  BY FieldTypes DEF InputTypes, StoreTypes, ActorTypes
<1>u. UNCHANGED <<opOf, refOf, expect, refOnly, pool, retained, op, ledger, refs, version, seq, row,
   rlease, prep, please, intent, alarm, fin, bucket, queued, task, w, issued, landed, moved, last,
   late, forgotten, faults, edits>>
  BY DEF CloseStaleRecovery, inputs, leases, history
<1>1. reclease' \in RecoveryLeases
  BY NoLeases DEF CloseStaleRecovery
<1>2. StoreTypes'
  BY <1>t, <1>1, <1>u DEF StoreTypes
<1>3. InputTypes' /\ ActorTypes' /\ RecordsOK' /\ WorkersOK' /\ OwnersOK' /\ TokensOK' /\ FinsOK' /\
   LaneOK' /\ LandedOK' /\ AnswersOK' /\ WalOK' /\ RowsOK' /\ DismissedOK' /\ StoredOK' /\ TidyOK'
   /\ TasksOK' /\ LedgerOK' /\ PoolOK' /\ PromotionExclusive'
  BY <1>u, InputTypesFrame, ActorTypesFrame, RecordsOKFrame, WorkersOKFrame, OwnersOKFrame,
     TokensOKFrame, FinsOKFrame, LaneOKFrame, LandedOKFrame, AnswersOKFrame, WalOKFrame,
     RowsOKFrame, DismissedOKFrame, StoredOKFrame, TidyOKFrame, TasksOKFrame, LedgerOKFrame,
     PoolOKFrame, PromotionExclusiveFrame
<1> QED BY <1>2, <1>3

\* A preparation that is promoted is alone.
LEMMA PromoteAloneStep ==
  ASSUME StockInv, NEW q \in Request, Promote(q), MayPromote(q)
  PROVE  StockInv'
<1> USE DEF StockInv
<1>t. /\ None \notin Request \cup {"busy", "conflict", "cleanup", "rejected", "replayed", "pending"}
      /\ op \in [Op -> Ops] /\ w \in [Request -> Workers] /\ fin \in [Runs -> Fins]
      /\ (\A p \in Op : op[p].claim \in Nat /\ issued[p] \in Nat)
      /\ (\A b \in Request : w[b].claim \in Nat) /\ (\A y \in Runs : fin[y].claim \in Nat)
  BY FieldTypes DEF InputTypes, StoreTypes, ActorTypes
<1>u. UNCHANGED <<opOf, refOf, expect, refOnly, pool, retained, op, ledger, refs, version, seq, row,
   please, reclease, intent, alarm, fin, bucket, queued, task, issued, landed, moved, last, late,
   forgotten, faults, edits>>
  BY DEF Promote, inputs, leases, history
<1>1. PICK r \in Workers :
       /\ w' = [w EXCEPT ![q] = r]
       /\ r.pc = "exclusive" /\ r.claim = w[q].claim /\ (r.own <=> w[q].own)
       /\ (r.outputs <=> w[q].outputs)
       /\ (r.close <=> w[q].close) /\ (r.acked <=> w[q].acked) /\ r.says = w[q].says
  <2>1. w'[q] \in Workers /\ w' = [w EXCEPT ![q] = w'[q]]
    BY <1>t DEF Promote, Worker, Workers, Places
  <2>2. /\ w'[q].pc = "exclusive" /\ w'[q].claim = w[q].claim /\ (w'[q].own <=> w[q].own)
        /\ (w'[q].outputs <=> w[q].outputs)
        /\ (w'[q].close <=> w[q].close) /\ (w'[q].acked <=> w[q].acked) /\ w'[q].says = w[q].says
    BY <1>t DEF Promote, Worker, Workers
  <2> QED BY <2>1, <2>2
<1>2. /\ w[q].pc = "reserved" /\ ~Stock(q) /\ rlease' = [tok |-> q, live |-> TRUE]
      /\ prep' = Unreserved(q) /\ ActiveOps = {} /\ prep = {[tok |-> q, live |-> TRUE]}
  BY DEF Promote, MayPromote
<1>3. rlease' \in ReceiveLeases /\ rlease'.tok = q /\ prep' = {} /\ prep' \subseteq Preparations
  BY <1>2 DEF ReceiveLeases, Unreserved
<1>4. StoreTypes'
  BY <1>t, <1>1, <1>2, <1>3, <1>u DEF StoreTypes
<1>5. ActorTypes'
  BY <1>t, <1>1, <1>2, <1>3, <1>u DEF ActorTypes
<1>6. WorkersOK'
  BY <1>t, <1>1, <1>2, <1>3, <1>u DEF WorkersOK, Outside, Stock
<1>7. OwnersOK'
  BY <1>t, <1>1, <1>2, <1>3, <1>u DEF OwnersOK, WorkersOK, Outside, Stock
<1>8. TokensOK'
  BY <1>t, <1>1, <1>2, <1>3, <1>u DEF TokensOK, Used, Stock, WorkersOK, Outside
<1>9. FinsOK'
  BY <1>t, <1>1, <1>2, <1>3, <1>u DEF FinsOK, Claimed, Owned, Token
<1>10. LaneOK'
  BY <1>t, <1>1, <1>2, <1>3, <1>u DEF LaneOK, Ready, Claimed, Owned, Valid, FinsOK, Token, ActiveOps
<1>11. AnswersOK'
  BY <1>t, <1>1, <1>2, <1>3, <1>u DEF AnswersOK, Served, Over, Terminal
<1>12. WalOK'
  BY <1>t, <1>1, <1>2, <1>3, <1>u DEF WalOK, Claimed, Owned, Valid, Runs, RecordsOK, ActiveOps
<1>13. DismissedOK'
  BY <1>t, <1>1, <1>2, <1>3, <1>u DEF DismissedOK, Unserved, Past, Over, Mine, Terminal, Runs,
     WorkersOK, Outside, Stock
<1>14. StoredOK'
  BY <1>t, <1>1, <1>2, <1>3, <1>u DEF StoredOK, Mine
<1>15. TidyOK'
  BY <1>t, <1>1, <1>2, <1>3, <1>u DEF TidyOK, Tidy, Served, Terminal
<1>16. PoolOK'
  <2>1. Prepared' \subseteq Prepared
    BY <1>t, <1>1, <1>2, <1>3, <1>u DEF Prepared
  <2>2. ActiveOps' \subseteq ActiveOps
    BY <1>t, <1>1, <1>2, <1>3, <1>u DEF ActiveOps
  <2> QED BY <2>1, <2>2, <1>u, PoolShrinks DEF InputTypes
<1>17. PromotionExclusive'
  BY <1>t, <1>1, <1>2, <1>3, <1>u DEF PromotionExclusive, Prepared, ActiveOps, WorkersOK, Outside,
     Stock
<1>18. InputTypes' /\ RecordsOK' /\ LandedOK' /\ RowsOK' /\ TasksOK' /\ LedgerOK'
  BY <1>u, InputTypesFrame, RecordsOKFrame, LandedOKFrame, RowsOKFrame, TasksOKFrame, LedgerOKFrame
<1> QED BY <1>4, <1>5, <1>6, <1>7, <1>8, <1>9, <1>10, <1>11, <1>12, <1>13, <1>14, <1>15, <1>16,
   <1>17, <1>18

\* A preparation that may not be promoted leaves.
LEMMA PromoteRefusedStep ==
  ASSUME StockInv, NEW q \in Request, Promote(q), ~MayPromote(q)
  PROVE  StockInv'
<1> USE DEF StockInv
<1>t. /\ None \notin Request \cup {"busy", "conflict", "cleanup", "rejected", "replayed", "pending"}
      /\ op \in [Op -> Ops] /\ w \in [Request -> Workers] /\ fin \in [Runs -> Fins]
      /\ (\A p \in Op : op[p].claim \in Nat /\ issued[p] \in Nat)
      /\ (\A b \in Request : w[b].claim \in Nat) /\ (\A y \in Runs : fin[y].claim \in Nat)
  BY FieldTypes DEF InputTypes, StoreTypes, ActorTypes
<1>u. UNCHANGED <<opOf, refOf, expect, refOnly, pool, retained, op, ledger, refs, version, seq, row,
   please, reclease, intent, alarm, fin, bucket, queued, task, issued, landed, moved, last, late,
   forgotten, faults, edits>>
  BY DEF Promote, inputs, leases, history
<1>1. PICK r \in Workers :
       /\ w' = [w EXCEPT ![q] = r]
       /\ r.pc = "done" /\ r.claim = 0 /\ ~r.own /\ ~r.outputs
       /\ ~r.close /\ ~r.acked /\ r.says = None
  <2>1. w' = [w EXCEPT ![q] = [NewWorker EXCEPT !.pc = "done", !.acked = FALSE]]
    BY <1>t DEF Promote, Leave
  <2>2. (FALSE) \in BOOLEAN
    BY <1>t DEF Workers
  <2> HIDE DEF StockInv
  <2> QED BY <2>1, <2>2, LeftOK, Zenon
<1>2. w[q].pc = "reserved" /\ ~Stock(q) /\ rlease' = Dropped(q) /\ prep' \subseteq prep
  BY DEF Promote, Unreserved
<1>3. rlease' \in ReceiveLeases /\ (rlease.tok # q => rlease' = rlease)
      /\ (rlease.tok = q => rlease'.tok = None /\ ~rlease'.live)
  BY <1>2, DroppedOK DEF StoreTypes
<1>4. StoreTypes'
  BY <1>t, <1>1, <1>2, <1>3, <1>u DEF StoreTypes
<1>5. ActorTypes'
  BY <1>t, <1>1, <1>2, <1>3, <1>u DEF ActorTypes
<1>6. WorkersOK'
  BY <1>t, <1>1, <1>2, <1>3, <1>u DEF WorkersOK, Outside, Stock
<1>7. OwnersOK'
  BY <1>t, <1>1, <1>2, <1>3, <1>u DEF OwnersOK, WorkersOK, Outside, Stock
<1>8. TokensOK'
  BY <1>t, <1>1, <1>2, <1>3, <1>u DEF TokensOK, Used, Stock, WorkersOK, Outside
<1>9. FinsOK'
  BY <1>t, <1>1, <1>2, <1>3, <1>u DEF FinsOK, Claimed, Owned, Token
<1>10. LaneOK'
  BY <1>t, <1>1, <1>2, <1>3, <1>u DEF LaneOK, Ready, Claimed, Owned, Valid, FinsOK, Token, TokensOK,
     Used, Stock
<1>11. AnswersOK'
  BY <1>t, <1>1, <1>2, <1>3, <1>u DEF AnswersOK, Served, Over, Terminal
<1>12. WalOK'
  BY <1>t, <1>1, <1>2, <1>3, <1>u DEF WalOK, Claimed, Owned, Valid, Runs, RecordsOK, Stock
<1>13. DismissedOK'
  BY <1>t, <1>1, <1>2, <1>3, <1>u DEF DismissedOK, Unserved, Past, Over, Mine, Terminal, Runs,
     WorkersOK, Outside, Stock
<1>14. StoredOK'
  BY <1>t, <1>1, <1>2, <1>3, <1>u DEF StoredOK, Mine
<1>15. TidyOK'
  BY <1>t, <1>1, <1>2, <1>3, <1>u DEF TidyOK, Tidy, Served, Terminal
<1>16. PoolOK'
  <2>1. Prepared' \subseteq Prepared
    BY <1>t, <1>1, <1>2, <1>3, <1>u DEF Prepared
  <2>2. ActiveOps' \subseteq ActiveOps
    BY <1>t, <1>1, <1>2, <1>3, <1>u DEF ActiveOps
  <2> QED BY <2>1, <2>2, <1>u, PoolShrinks DEF InputTypes
<1>17. PromotionExclusive'
  BY <1>t, <1>1, <1>2, <1>3, <1>u DEF PromotionExclusive, Prepared, ActiveOps, WorkersOK, Outside,
     Stock
<1>18. InputTypes' /\ RecordsOK' /\ LandedOK' /\ RowsOK' /\ TasksOK' /\ LedgerOK'
  BY <1>u, InputTypesFrame, RecordsOKFrame, LandedOKFrame, RowsOKFrame, TasksOKFrame, LedgerOKFrame
<1> QED BY <1>4, <1>5, <1>6, <1>7, <1>8, <1>9, <1>10, <1>11, <1>12, <1>13, <1>14, <1>15, <1>16,
   <1>17, <1>18

\* The exclusive receive publishes while nobody else can.
LEMMA FinishExclusivePublishedStep ==
  ASSUME StockInv, NEW q \in Request, FinishExclusive(q), rlease = [tok |-> q, live |-> TRUE]
  PROVE  StockInv'
<1> USE DEF StockInv
<1>t. /\ None \notin Request \cup {"busy", "conflict", "cleanup", "rejected", "replayed", "pending"}
      /\ op \in [Op -> Ops] /\ w \in [Request -> Workers] /\ fin \in [Runs -> Fins]
      /\ (\A p \in Op : op[p].claim \in Nat /\ issued[p] \in Nat)
      /\ (\A b \in Request : w[b].claim \in Nat) /\ (\A y \in Runs : fin[y].claim \in Nat)
  BY FieldTypes DEF InputTypes, StoreTypes, ActorTypes
<1>u. UNCHANGED <<opOf, refOf, expect, refOnly, pool, retained, op, ledger, row, prep, please,
   reclease, intent, alarm, fin, bucket, queued, task, issued, landed, moved, late, forgotten,
   faults, edits>>
  BY DEF FinishExclusive, inputs, leases, history
<1>1. PICK r \in Workers :
       /\ w' = [w EXCEPT ![q] = r]
       /\ r.pc = "done" /\ r.claim = 0 /\ ~r.own /\ ~r.outputs
       /\ ~r.close /\ ~r.acked /\ r.says = None
  <2>1. w' = [w EXCEPT ![q] = [NewWorker EXCEPT !.pc = "done", !.acked = FALSE]]
    BY <1>t DEF FinishExclusive, Leave
  <2>2. (FALSE) \in BOOLEAN
    BY <1>t DEF Workers
  <2> HIDE DEF StockInv
  <2> QED BY <2>1, <2>2, LeftOK, Zenon
<1>2. w[q].pc = "exclusive" /\ version' = version + 1 /\ seq' = seq + 1 /\ rlease' = NoLease /\ ~Stock(q)
  BY DEF FinishExclusive, WorkersOK
<1>3. PICK z \in Ref : refs' = [refs EXCEPT ![z] = q] /\ last' = [last EXCEPT ![z] = q]
  BY DEF FinishExclusive
<1>4. rlease.tok = q /\ rlease' \in ReceiveLeases /\ rlease'.tok = None /\ ~rlease'.live
  BY <1>2, NoLeases
<1>5. StoreTypes'
  BY <1>t, <1>1, <1>2, <1>3, <1>4, <1>u DEF StoreTypes, Value
<1>6. ActorTypes'
  BY <1>t, <1>1, <1>2, <1>3, <1>4, <1>u DEF ActorTypes, Value
<1>7. WorkersOK'
  BY <1>t, <1>1, <1>2, <1>3, <1>4, <1>u DEF WorkersOK, Outside, Stock
<1>8. OwnersOK'
  BY <1>t, <1>1, <1>2, <1>3, <1>4, <1>u DEF OwnersOK, WorkersOK, Outside, Stock
<1>9. TokensOK'
  BY <1>t, <1>1, <1>2, <1>3, <1>4, <1>u DEF TokensOK, Used, Stock, WorkersOK, Outside
<1>10. FinsOK'
  BY <1>t, <1>1, <1>2, <1>3, <1>4, <1>u DEF FinsOK, Claimed, Owned, Token
<1>11. LaneOK'
  BY <1>t, <1>1, <1>2, <1>3, <1>4, <1>u DEF LaneOK, Ready, Claimed, Owned, Valid, FinsOK, Token,
     TokensOK, Used, Stock
<1>12. LandedOK'
  BY <1>t, <1>1, <1>2, <1>3, <1>4, <1>u DEF LandedOK
<1>13. AnswersOK'
  BY <1>t, <1>1, <1>2, <1>3, <1>4, <1>u DEF AnswersOK, Served, Over, Terminal
<1>14. WalOK'
  BY <1>t, <1>1, <1>2, <1>3, <1>4, <1>u DEF WalOK, Claimed, Owned, Valid, Runs, RecordsOK, Stock
<1>15. DismissedOK'
  BY <1>t, <1>1, <1>2, <1>3, <1>4, <1>u DEF DismissedOK, Unserved, Past, Over, Mine, Terminal, Runs,
     WorkersOK, Outside, Stock
<1>16. StoredOK'
  BY <1>t, <1>1, <1>2, <1>3, <1>4, <1>u DEF StoredOK, Mine
<1>17. TidyOK'
  BY <1>t, <1>1, <1>2, <1>3, <1>4, <1>u DEF TidyOK, Tidy, Served, Terminal
<1>18. PromotionExclusive'
  BY <1>t, <1>1, <1>2, <1>3, <1>4, <1>u DEF PromotionExclusive, Prepared, ActiveOps, WorkersOK,
     Outside, Stock
<1>19. InputTypes' /\ RecordsOK' /\ RowsOK' /\ TasksOK' /\ LedgerOK' /\ PoolOK'
  BY <1>u, InputTypesFrame, RecordsOKFrame, RowsOKFrame, TasksOKFrame, LedgerOKFrame, PoolOKFrame
<1> QED BY <1>5, <1>6, <1>7, <1>8, <1>9, <1>10, <1>11, <1>12, <1>13, <1>14, <1>15, <1>16, <1>17,
   <1>18, <1>19

\* The exclusive receive that lost its lease is refused.
LEMMA FinishExclusiveLostStep ==
  ASSUME StockInv, NEW q \in Request, FinishExclusive(q), rlease # [tok |-> q, live |-> TRUE]
  PROVE  StockInv'
<1> USE DEF StockInv
<1>t. /\ None \notin Request \cup {"busy", "conflict", "cleanup", "rejected", "replayed", "pending"}
      /\ op \in [Op -> Ops] /\ w \in [Request -> Workers] /\ fin \in [Runs -> Fins]
      /\ (\A p \in Op : op[p].claim \in Nat /\ issued[p] \in Nat)
      /\ (\A b \in Request : w[b].claim \in Nat) /\ (\A y \in Runs : fin[y].claim \in Nat)
  BY FieldTypes DEF InputTypes, StoreTypes, ActorTypes
<1>u. UNCHANGED <<opOf, refOf, expect, refOnly, pool, retained, op, ledger, refs, version, seq, row,
   rlease, prep, please, reclease, intent, alarm, fin, bucket, queued, task, issued, landed, moved,
   last, late, forgotten, faults, edits>>
  BY DEF FinishExclusive, inputs, leases, history
<1>1. PICK r \in Workers :
       /\ w' = [w EXCEPT ![q] = r]
       /\ r.pc = "done" /\ r.claim = 0 /\ ~r.own /\ ~r.outputs
       /\ ~r.close /\ ~r.acked /\ r.says = None
  <2>1. w' = [w EXCEPT ![q] = [NewWorker EXCEPT !.pc = "done", !.acked = FALSE]]
    BY <1>t DEF FinishExclusive, Leave
  <2>2. (FALSE) \in BOOLEAN
    BY <1>t DEF Workers
  <2> HIDE DEF StockInv
  <2> QED BY <2>1, <2>2, LeftOK, Zenon
<1>2. ActorTypes'
  BY <1>t, <1>1, <1>u DEF ActorTypes
<1>3. WorkersOK'
  BY <1>t, <1>1, <1>u DEF WorkersOK, Outside, Stock
<1>4. OwnersOK'
  BY <1>t, <1>1, <1>u DEF OwnersOK, WorkersOK, Outside, Stock
<1>5. TokensOK'
  BY <1>t, <1>1, <1>u DEF TokensOK, Used, Stock, WorkersOK, Outside
<1>6. FinsOK'
  BY <1>t, <1>1, <1>u DEF FinsOK, Claimed, Owned, Token
<1>7. AnswersOK'
  BY <1>t, <1>1, <1>u DEF AnswersOK, Served, Over, Terminal
<1>8. DismissedOK'
  BY <1>t, <1>1, <1>u DEF DismissedOK, Unserved, Past, Over, Mine, Terminal, Runs, WorkersOK,
     Outside, Stock
<1>9. StoredOK'
  BY <1>t, <1>1, <1>u DEF StoredOK, Mine
<1>10. TidyOK'
  BY <1>t, <1>1, <1>u DEF TidyOK, Tidy, Served, Terminal
<1>11. PromotionExclusive'
  BY <1>t, <1>1, <1>u DEF PromotionExclusive, Prepared, ActiveOps, WorkersOK, Outside, Stock
<1>12. InputTypes' /\ StoreTypes' /\ RecordsOK' /\ LaneOK' /\ LandedOK' /\ WalOK' /\ RowsOK' /\
   TasksOK' /\ LedgerOK' /\ PoolOK'
  BY <1>u, InputTypesFrame, StoreTypesFrame, RecordsOKFrame, LaneOKFrame, LandedOKFrame, WalOKFrame,
     RowsOKFrame, TasksOKFrame, LedgerOKFrame, PoolOKFrame
<1> QED BY <1>2, <1>3, <1>4, <1>5, <1>6, <1>7, <1>8, <1>9, <1>10, <1>11, <1>12

\* A failed upload gives back its leases.
LEMMA StageFailsStep ==
  ASSUME StockInv, NEW q \in Request, StageFails(q)
  PROVE  StockInv'
<1> USE DEF StockInv
<1>t. /\ None \notin Request \cup {"busy", "conflict", "cleanup", "rejected", "replayed", "pending"}
      /\ op \in [Op -> Ops] /\ w \in [Request -> Workers] /\ fin \in [Runs -> Fins]
      /\ (\A p \in Op : op[p].claim \in Nat /\ issued[p] \in Nat)
      /\ (\A b \in Request : w[b].claim \in Nat) /\ (\A y \in Runs : fin[y].claim \in Nat)
  BY FieldTypes DEF InputTypes, StoreTypes, ActorTypes
<1>u. UNCHANGED <<opOf, refOf, expect, refOnly, pool, retained, op, ledger, refs, version, seq, row,
   please, intent, alarm, fin, bucket, queued, task, issued, landed, moved, last, late, forgotten,
   faults, edits>>
  BY DEF StageFails, inputs, leases, history
<1>1. PICK r \in Workers :
       /\ w' = [w EXCEPT ![q] = r]
       /\ r.pc = "done" /\ r.claim = 0 /\ ~r.own /\ ~r.outputs
       /\ ~r.close /\ ~r.acked /\ r.says = None
  <2>1. w' = [w EXCEPT ![q] = [NewWorker EXCEPT !.pc = "done", !.acked = FALSE]]
    BY <1>t DEF StageFails, Leave
  <2>2. (FALSE) \in BOOLEAN
    BY <1>t DEF Workers
  <2> HIDE DEF StockInv
  <2> QED BY <2>1, <2>2, LeftOK, Zenon
<1>2. /\ w[q].pc \in {"reserved", "recovering"} /\ rlease' = Dropped(q) /\ prep' \subseteq prep
      /\ reclease' = Recovered(q)
  BY DEF StageFails, Unreserved
<1>3. rlease' \in ReceiveLeases /\ (rlease.tok # q => rlease' = rlease)
      /\ (rlease.tok = q => rlease'.tok = None /\ ~rlease'.live)
  BY <1>2, DroppedOK DEF StoreTypes
<1>4. reclease' \in RecoveryLeases /\ ~Used(q)
  BY <1>2, RecoveredOK DEF StoreTypes, WorkersOK, Used, Outside
<1>5. StoreTypes'
  BY <1>t, <1>1, <1>2, <1>3, <1>4, <1>u DEF StoreTypes
<1>6. ActorTypes'
  BY <1>t, <1>1, <1>2, <1>3, <1>4, <1>u DEF ActorTypes
<1>7. WorkersOK'
  BY <1>t, <1>1, <1>2, <1>3, <1>4, <1>u DEF WorkersOK, Outside, Stock
<1>8. OwnersOK'
  BY <1>t, <1>1, <1>2, <1>3, <1>4, <1>u DEF OwnersOK, WorkersOK, Outside, Stock
<1>9. TokensOK'
  BY <1>t, <1>1, <1>2, <1>3, <1>4, <1>u DEF TokensOK, Used, Stock, WorkersOK, Outside
<1>10. FinsOK'
  BY <1>t, <1>1, <1>2, <1>3, <1>4, <1>u DEF FinsOK, Claimed, Owned, Token
<1>11. LaneOK'
  BY <1>t, <1>1, <1>2, <1>3, <1>4, <1>u DEF LaneOK, Ready, Claimed, Owned, Valid, FinsOK, Token,
     TokensOK, Used, Stock
<1>12. AnswersOK'
  BY <1>t, <1>1, <1>2, <1>3, <1>4, <1>u DEF AnswersOK, Served, Over, Terminal
<1>13. WalOK'
  BY <1>t, <1>1, <1>2, <1>3, <1>4, <1>u DEF WalOK, Claimed, Owned, Valid, Runs, RecordsOK, TokensOK,
     Used, Stock
<1>14. DismissedOK'
  BY <1>t, <1>1, <1>2, <1>3, <1>4, <1>u DEF DismissedOK, Unserved, Past, Over, Mine, Terminal, Runs,
     WorkersOK, Outside, Stock
<1>15. StoredOK'
  BY <1>t, <1>1, <1>2, <1>3, <1>4, <1>u DEF StoredOK, Mine
<1>16. TidyOK'
  BY <1>t, <1>1, <1>2, <1>3, <1>4, <1>u DEF TidyOK, Tidy, Served, Terminal
<1>17. PoolOK'
  <2>1. Prepared' \subseteq Prepared
    BY <1>t, <1>1, <1>2, <1>3, <1>4, <1>u DEF Prepared
  <2>2. ActiveOps' \subseteq ActiveOps
    BY <1>t, <1>1, <1>2, <1>3, <1>4, <1>u DEF ActiveOps
  <2> QED BY <2>1, <2>2, <1>u, PoolShrinks DEF InputTypes
<1>18. PromotionExclusive'
  BY <1>t, <1>1, <1>2, <1>3, <1>4, <1>u DEF PromotionExclusive, Prepared, ActiveOps, WorkersOK,
     Outside, Stock
<1>19. InputTypes' /\ RecordsOK' /\ LandedOK' /\ RowsOK' /\ TasksOK' /\ LedgerOK'
  BY <1>u, InputTypesFrame, RecordsOKFrame, LandedOKFrame, RowsOKFrame, TasksOKFrame, LedgerOKFrame
<1> QED BY <1>5, <1>6, <1>7, <1>8, <1>9, <1>10, <1>11, <1>12, <1>13, <1>14, <1>15, <1>16, <1>17,
   <1>18, <1>19

\* A retry that takes up an operation that is finalizing preserves the invariant.
LEMMA AdmitRetainedPendingStep ==
  ASSUME StockInv, NEW q \in Request, AdmitRetained(q), Admission(q) = "pending"
  PROVE  StockInv'
<1> USE DEF StockInv
<1>t. /\ None \notin Request \cup {"busy", "conflict", "cleanup", "rejected", "replayed", "pending"}
      /\ op \in [Op -> Ops] /\ w \in [Request -> Workers] /\ fin \in [Runs -> Fins]
      /\ (\A p \in Op : op[p].claim \in Nat /\ issued[p] \in Nat)
      /\ (\A b \in Request : w[b].claim \in Nat) /\ (\A y \in Runs : fin[y].claim \in Nat)
  BY FieldTypes DEF InputTypes, StoreTypes, ActorTypes
<1>u. UNCHANGED <<opOf, refOf, expect, refOnly, pool, retained, op, ledger, refs, version, seq, row,
   rlease, prep, please, reclease, intent, alarm, fin, bucket, queued, task, issued, landed, moved,
   last, late, forgotten, faults, edits>>
  BY DEF AdmitRetained, inputs, leases, history
<1>1. /\ w[q].pc \in {"reserved", "recovering"} /\ Stock(q) /\ opOf[q] \in Op /\ ~Used(q)
      /\ rlease.tok # q
      /\ w[q].says = None /\ ~w[q].outputs
  BY <1>t DEF Admitting, AdmitRetained, Stock, WorkersOK, TokensOK, AnswersOK, Used, Outside
<1>2. op[opOf[q]].st = "finalizing"
  BY AdmissionOK
<1>3. PICK r \in Workers :
       /\ w' = [w EXCEPT ![q] = r]
       /\ r.pc = "publish" /\ r.claim = op[opOf[q]].claim /\ (r.own <=> w[q].own)
       /\ (r.outputs <=> w[q].outputs)
       /\ (r.close <=> w[q].close) /\ (r.acked <=> w[q].acked) /\ r.says = w[q].says
  <2>1. w'[q] \in Workers /\ w' = [w EXCEPT ![q] = w'[q]]
    BY <1>t, <1>1 DEF AdmitRetained, Workers, Places
  <2>2. /\ w'[q].pc = "publish" /\ w'[q].claim = op[opOf[q]].claim /\ (w'[q].own <=> w[q].own)
        /\ (w'[q].outputs <=> w[q].outputs)
        /\ (w'[q].close <=> w[q].close) /\ (w'[q].acked <=> w[q].acked) /\ w'[q].says = w[q].says
    BY <1>t, <1>1 DEF AdmitRetained, Workers
  <2> QED BY <2>1, <2>2
<1>4. ActorTypes'
  BY <1>t, <1>1, <1>2, <1>3, <1>u DEF ActorTypes
<1>5. WorkersOK'
  BY <1>t, <1>1, <1>2, <1>3, <1>u DEF WorkersOK, Outside, Stock, RecordsOK
<1>6. OwnersOK'
  BY <1>t, <1>1, <1>2, <1>3, <1>u DEF OwnersOK, WorkersOK, Outside, Stock
<1>7. TokensOK'
  BY <1>t, <1>1, <1>2, <1>3, <1>u DEF TokensOK, Used, Stock, WorkersOK, Outside
<1>8. FinsOK'
  BY <1>t, <1>1, <1>2, <1>3, <1>u DEF FinsOK, Claimed, Owned, Token
<1>9. AnswersOK'
  BY <1>t, <1>1, <1>2, <1>3, <1>u, ZenonT(30) DEF AnswersOK, Served, Over, Terminal
<1>10. DismissedOK'
  BY <1>t, <1>1, <1>2, <1>3, <1>u DEF DismissedOK, Unserved, Past, Over, Mine, Terminal, Runs,
     WorkersOK, Outside, Stock
<1>11. StoredOK'
  BY <1>t, <1>1, <1>2, <1>3, <1>u DEF StoredOK, Mine
<1>12. TidyOK'
  BY <1>t, <1>1, <1>2, <1>3, <1>u DEF TidyOK, Tidy, Served, Terminal
<1>13. PromotionExclusive'
  BY <1>t, <1>1, <1>2, <1>3, <1>u DEF PromotionExclusive, Prepared, ActiveOps, WorkersOK, Outside,
     Stock
<1>14. InputTypes' /\ StoreTypes' /\ RecordsOK' /\ LaneOK' /\ LandedOK' /\ WalOK' /\ RowsOK' /\
   TasksOK' /\ LedgerOK' /\ PoolOK'
  BY <1>u, InputTypesFrame, StoreTypesFrame, RecordsOKFrame, LaneOKFrame, LandedOKFrame, WalOKFrame,
     RowsOKFrame, TasksOKFrame, LedgerOKFrame, PoolOKFrame
<1> QED BY <1>4, <1>5, <1>6, <1>7, <1>8, <1>9, <1>10, <1>11, <1>12, <1>13, <1>14

\* A retry that takes up an operation that is ready preserves the invariant.
LEMMA AdmitRetainedFinalizeStep ==
  ASSUME StockInv, NEW q \in Request, AdmitRetained(q), Admission(q) = "finalize"
  PROVE  StockInv'
<1> USE DEF StockInv
<1>t. /\ None \notin Request \cup {"busy", "conflict", "cleanup", "rejected", "replayed", "pending"}
      /\ op \in [Op -> Ops] /\ w \in [Request -> Workers] /\ fin \in [Runs -> Fins]
      /\ (\A p \in Op : op[p].claim \in Nat /\ issued[p] \in Nat)
      /\ (\A b \in Request : w[b].claim \in Nat) /\ (\A y \in Runs : fin[y].claim \in Nat)
  BY FieldTypes DEF InputTypes, StoreTypes, ActorTypes
<1>u. UNCHANGED <<opOf, refOf, expect, refOnly, pool, retained, op, ledger, refs, version, seq, row,
   rlease, prep, please, reclease, intent, alarm, fin, bucket, queued, task, issued, landed, moved,
   last, late, forgotten, faults, edits>>
  BY DEF AdmitRetained, inputs, leases, history
<1>1. /\ w[q].pc \in {"reserved", "recovering"} /\ Stock(q) /\ opOf[q] \in Op /\ ~Used(q)
      /\ rlease.tok # q
      /\ w[q].says = None /\ ~w[q].outputs
  BY <1>t DEF Admitting, AdmitRetained, Stock, WorkersOK, TokensOK, AnswersOK, Used, Outside
<1>2. op[opOf[q]].st = "ready"
  BY AdmissionOK
<1>3. PICK r \in Workers :
       /\ w' = [w EXCEPT ![q] = r]
       /\ r.pc = "finalize" /\ r.claim = op[opOf[q]].claim /\ (r.own <=> w[q].own)
       /\ (r.outputs <=> w[q].outputs)
       /\ (r.close <=> w[q].close) /\ (r.acked <=> w[q].acked) /\ r.says = w[q].says
  <2>1. w'[q] \in Workers /\ w' = [w EXCEPT ![q] = w'[q]]
    BY <1>t, <1>1 DEF AdmitRetained, Workers, Places
  <2>2. /\ w'[q].pc = "finalize" /\ w'[q].claim = op[opOf[q]].claim /\ (w'[q].own <=> w[q].own)
        /\ (w'[q].outputs <=> w[q].outputs)
        /\ (w'[q].close <=> w[q].close) /\ (w'[q].acked <=> w[q].acked) /\ w'[q].says = w[q].says
    BY <1>t, <1>1 DEF AdmitRetained, Workers
  <2> QED BY <2>1, <2>2
<1>4. ActorTypes'
  BY <1>t, <1>1, <1>2, <1>3, <1>u DEF ActorTypes
<1>5. WorkersOK'
  BY <1>t, <1>1, <1>2, <1>3, <1>u DEF WorkersOK, Outside, Stock, RecordsOK
<1>6. OwnersOK'
  BY <1>t, <1>1, <1>2, <1>3, <1>u DEF OwnersOK, WorkersOK, Outside, Stock
<1>7. TokensOK'
  BY <1>t, <1>1, <1>2, <1>3, <1>u DEF TokensOK, Used, Stock, WorkersOK, Outside
<1>8. FinsOK'
  BY <1>t, <1>1, <1>2, <1>3, <1>u DEF FinsOK, Claimed, Owned, Token
<1>9. AnswersOK'
  BY <1>t, <1>1, <1>2, <1>3, <1>u, ZenonT(30) DEF AnswersOK, Served, Over, Terminal
<1>10. DismissedOK'
  BY <1>t, <1>1, <1>2, <1>3, <1>u DEF DismissedOK, Unserved, Past, Over, Mine, Terminal, Runs,
     WorkersOK, Outside, Stock
<1>11. StoredOK'
  BY <1>t, <1>1, <1>2, <1>3, <1>u DEF StoredOK, Mine
<1>12. TidyOK'
  BY <1>t, <1>1, <1>2, <1>3, <1>u DEF TidyOK, Tidy, Served, Terminal
<1>13. PromotionExclusive'
  BY <1>t, <1>1, <1>2, <1>3, <1>u DEF PromotionExclusive, Prepared, ActiveOps, WorkersOK, Outside,
     Stock
<1>14. InputTypes' /\ StoreTypes' /\ RecordsOK' /\ LaneOK' /\ LandedOK' /\ WalOK' /\ RowsOK' /\
   TasksOK' /\ LedgerOK' /\ PoolOK'
  BY <1>u, InputTypesFrame, StoreTypesFrame, RecordsOKFrame, LaneOKFrame, LandedOKFrame, WalOKFrame,
     RowsOKFrame, TasksOKFrame, LedgerOKFrame, PoolOKFrame
<1> QED BY <1>4, <1>5, <1>6, <1>7, <1>8, <1>9, <1>10, <1>11, <1>12, <1>13, <1>14

\* A retry of a committed operation preserves the invariant.
LEMMA AdmitRetainedReplayedStep ==
  ASSUME StockInv, NEW q \in Request, AdmitRetained(q), Admission(q) = "replayed"
  PROVE  StockInv'
<1> USE DEF StockInv
<1>t. /\ None \notin Request \cup {"busy", "conflict", "cleanup", "rejected", "replayed", "pending"}
      /\ op \in [Op -> Ops] /\ w \in [Request -> Workers] /\ fin \in [Runs -> Fins]
      /\ (\A p \in Op : op[p].claim \in Nat /\ issued[p] \in Nat)
      /\ (\A b \in Request : w[b].claim \in Nat) /\ (\A y \in Runs : fin[y].claim \in Nat)
  BY FieldTypes DEF InputTypes, StoreTypes, ActorTypes
<1>u. UNCHANGED <<opOf, refOf, expect, refOnly, pool, retained, op, ledger, refs, version, seq, row,
   please, intent, alarm, fin, bucket, queued, task, issued, landed, moved, last, late, forgotten,
   faults, edits>>
  BY DEF AdmitRetained, inputs, leases, history
<1>1. /\ w[q].pc \in {"reserved", "recovering"} /\ Stock(q) /\ opOf[q] \in Op /\ ~Used(q)
      /\ rlease.tok # q
      /\ w[q].says = None /\ ~w[q].outputs
  BY <1>t DEF Admitting, AdmitRetained, Stock, WorkersOK, TokensOK, AnswersOK, Used, Outside
<1>2. op[opOf[q]].st = "committed"
  BY AdmissionOK
<1>3. PICK r \in Workers :
       /\ w' = [w EXCEPT ![q] = r]
       /\ r.pc = "erase" /\ r.claim = op[opOf[q]].claim /\ (r.own <=> w[q].own)
       /\ (r.outputs <=> w[q].outputs)
       /\ r.close /\ r.acked /\ r.says = w[q].says
  <2>1. w'[q] \in Workers /\ w' = [w EXCEPT ![q] = w'[q]]
    BY <1>t, <1>1 DEF AdmitRetained, Workers, Places
  <2>2. /\ w'[q].pc = "erase" /\ w'[q].claim = op[opOf[q]].claim /\ (w'[q].own <=> w[q].own)
        /\ (w'[q].outputs <=> w[q].outputs)
        /\ w'[q].close /\ w'[q].acked /\ w'[q].says = w[q].says
    BY <1>t, <1>1 DEF AdmitRetained, Workers
  <2> QED BY <2>1, <2>2
<1>4. rlease' = rlease /\ prep' \subseteq prep /\ reclease' \in RecoveryLeases
  BY <1>1, RecoveredOK DEF AdmitRetained, Dropped, Unreserved, StoreTypes
<1>5. StoreTypes'
  BY <1>t, <1>1, <1>2, <1>3, <1>4, <1>u DEF StoreTypes
<1>6. ActorTypes'
  BY <1>t, <1>1, <1>2, <1>3, <1>4, <1>u DEF ActorTypes
<1>7. WorkersOK'
  BY <1>t, <1>1, <1>2, <1>3, <1>4, <1>u DEF WorkersOK, Outside, Stock, RecordsOK
<1>8. OwnersOK'
  BY <1>t, <1>1, <1>2, <1>3, <1>4, <1>u DEF OwnersOK, WorkersOK, Outside, Stock
<1>9. TokensOK'
  BY <1>t, <1>1, <1>2, <1>3, <1>4, <1>u DEF TokensOK, Used, Stock, WorkersOK, Outside
<1>10. FinsOK'
  BY <1>t, <1>1, <1>2, <1>3, <1>4, <1>u DEF FinsOK, Claimed, Owned, Token
<1>11. LaneOK'
  BY <1>t, <1>1, <1>2, <1>3, <1>4, <1>u DEF LaneOK, Ready, Claimed, Owned, Valid, FinsOK, Token
<1>12. AnswersOK'
  BY <1>t, <1>1, <1>2, <1>3, <1>4, <1>u DEF AnswersOK, Served, Over, Terminal, LandedOK
<1>13. WalOK'
  BY <1>t, <1>1, <1>2, <1>3, <1>4, <1>u DEF WalOK, Claimed, Owned, Valid, Runs, RecordsOK
<1>14. DismissedOK'
  BY <1>t, <1>1, <1>2, <1>3, <1>4, <1>u DEF DismissedOK, Unserved, Past, Over, Mine, Terminal, Runs,
     WorkersOK, Outside, Stock
<1>15. StoredOK'
  BY <1>t, <1>1, <1>2, <1>3, <1>4, <1>u DEF StoredOK, Mine
<1>16. TidyOK'
  BY <1>t, <1>1, <1>2, <1>3, <1>4, <1>u DEF TidyOK, Tidy, Served, Terminal, LandedOK
<1>17. PoolOK'
  <2>1. Prepared' \subseteq Prepared
    BY <1>t, <1>1, <1>2, <1>3, <1>4, <1>u DEF Prepared
  <2>2. ActiveOps' \subseteq ActiveOps
    BY <1>t, <1>1, <1>2, <1>3, <1>4, <1>u DEF ActiveOps
  <2> QED BY <2>1, <2>2, <1>u, PoolShrinks DEF InputTypes
<1>18. PromotionExclusive'
  BY <1>t, <1>1, <1>2, <1>3, <1>4, <1>u DEF PromotionExclusive, Prepared, ActiveOps, WorkersOK,
     Outside, Stock
<1>19. InputTypes' /\ RecordsOK' /\ LandedOK' /\ RowsOK' /\ TasksOK' /\ LedgerOK'
  BY <1>u, InputTypesFrame, RecordsOKFrame, LandedOKFrame, RowsOKFrame, TasksOKFrame, LedgerOKFrame
<1> QED BY <1>5, <1>6, <1>7, <1>8, <1>9, <1>10, <1>11, <1>12, <1>13, <1>14, <1>15, <1>16, <1>17,
   <1>18, <1>19

\* A retry that cleaned up in vain leaves.
LEMMA AdmitRetainedAgainStep ==
  ASSUME StockInv, NEW q \in Request, AdmitRetained(q), Admission(q) = "cleanup", w[q].again
  PROVE  StockInv'
<1> USE DEF StockInv
<1>t. /\ None \notin Request \cup {"busy", "conflict", "cleanup", "rejected", "replayed", "pending"}
      /\ op \in [Op -> Ops] /\ w \in [Request -> Workers] /\ fin \in [Runs -> Fins]
      /\ (\A p \in Op : op[p].claim \in Nat /\ issued[p] \in Nat)
      /\ (\A b \in Request : w[b].claim \in Nat) /\ (\A y \in Runs : fin[y].claim \in Nat)
  BY FieldTypes DEF InputTypes, StoreTypes, ActorTypes
<1>u. UNCHANGED <<opOf, refOf, expect, refOnly, pool, retained, op, ledger, refs, version, seq, row,
   rlease, prep, please, reclease, intent, alarm, fin, bucket, queued, task, issued, landed, moved,
   last, late, forgotten, faults, edits>>
  BY DEF AdmitRetained, inputs, leases, history
<1>1. /\ w[q].pc \in {"reserved", "recovering"} /\ Stock(q) /\ opOf[q] \in Op /\ ~Used(q)
      /\ rlease.tok # q
      /\ w[q].says = None /\ ~w[q].outputs
  BY <1>t DEF Admitting, AdmitRetained, Stock, WorkersOK, TokensOK, AnswersOK, Used, Outside
<1>2. PICK r \in Workers :
       /\ w' = [w EXCEPT ![q] = r]
       /\ r.pc = "done" /\ r.claim = 0 /\ ~r.own /\ ~r.outputs
       /\ ~r.close /\ ~r.acked /\ r.says = None
  <2>1. w' = [w EXCEPT ![q] = [NewWorker EXCEPT !.pc = "done"]]
    BY DEF AdmitRetained
  <2> HIDE DEF StockInv
  <2> QED BY <2>1, DoneOK
<1>3. ActorTypes'
  BY <1>t, <1>1, <1>2, <1>u DEF ActorTypes
<1>4. WorkersOK'
  BY <1>t, <1>1, <1>2, <1>u DEF WorkersOK, Outside, Stock
<1>5. OwnersOK'
  BY <1>t, <1>1, <1>2, <1>u DEF OwnersOK, WorkersOK, Outside, Stock
<1>6. TokensOK'
  BY <1>t, <1>1, <1>2, <1>u DEF TokensOK, Used, Stock, WorkersOK, Outside
<1>7. FinsOK'
  BY <1>t, <1>1, <1>2, <1>u DEF FinsOK, Claimed, Owned, Token
<1>8. AnswersOK'
  BY <1>t, <1>1, <1>2, <1>u DEF AnswersOK, Served, Over, Terminal
<1>9. DismissedOK'
  BY <1>t, <1>1, <1>2, <1>u DEF DismissedOK, Unserved, Past, Over, Mine, Terminal, Runs, WorkersOK,
     Outside, Stock
<1>10. StoredOK'
  BY <1>t, <1>1, <1>2, <1>u DEF StoredOK, Mine
<1>11. TidyOK'
  BY <1>t, <1>1, <1>2, <1>u DEF TidyOK, Tidy, Served, Terminal
<1>12. PromotionExclusive'
  BY <1>t, <1>1, <1>2, <1>u DEF PromotionExclusive, Prepared, ActiveOps, WorkersOK, Outside, Stock
<1>13. InputTypes' /\ StoreTypes' /\ RecordsOK' /\ LaneOK' /\ LandedOK' /\ WalOK' /\ RowsOK' /\
   TasksOK' /\ LedgerOK' /\ PoolOK'
  BY <1>u, InputTypesFrame, StoreTypesFrame, RecordsOKFrame, LaneOKFrame, LandedOKFrame, WalOKFrame,
     RowsOKFrame, TasksOKFrame, LedgerOKFrame, PoolOKFrame
<1> QED BY <1>3, <1>4, <1>5, <1>6, <1>7, <1>8, <1>9, <1>10, <1>11, <1>12, <1>13

\* A retry that cleans up first preserves the invariant.
LEMMA AdmitRetainedCleanupStep ==
  ASSUME StockInv, NEW q \in Request, AdmitRetained(q), Admission(q) = "cleanup", ~w[q].again
  PROVE  StockInv'
<1> USE DEF StockInv
<1>t. /\ None \notin Request \cup {"busy", "conflict", "cleanup", "rejected", "replayed", "pending"}
      /\ op \in [Op -> Ops] /\ w \in [Request -> Workers] /\ fin \in [Runs -> Fins]
      /\ (\A p \in Op : op[p].claim \in Nat /\ issued[p] \in Nat)
      /\ (\A b \in Request : w[b].claim \in Nat) /\ (\A y \in Runs : fin[y].claim \in Nat)
  BY FieldTypes DEF InputTypes, StoreTypes, ActorTypes
<1>u. UNCHANGED <<opOf, refOf, expect, refOnly, pool, retained, op, ledger, refs, version, seq, row,
   rlease, prep, please, reclease, intent, alarm, fin, bucket, queued, task, issued, landed, moved,
   last, late, forgotten, faults, edits>>
  BY DEF AdmitRetained, inputs, leases, history
<1>1. /\ w[q].pc \in {"reserved", "recovering"} /\ Stock(q) /\ opOf[q] \in Op /\ ~Used(q)
      /\ rlease.tok # q
      /\ w[q].says = None /\ ~w[q].outputs
  BY <1>t DEF Admitting, AdmitRetained, Stock, WorkersOK, TokensOK, AnswersOK, Used, Outside
<1>2. op[opOf[q]].claim \in 0 .. MaxClaims
  BY <1>t, <1>1 DEF Ops
<1>3. op[opOf[q]].st \in {"aborted", "failed"}
  BY AdmissionOK
<1>4. PICK r \in Workers :
       /\ w' = [w EXCEPT ![q] = r]
       /\ r.pc = "erase" /\ r.claim = op[opOf[q]].claim /\ (r.own <=> w[q].own) /\ r.outputs
       /\ r.close /\ (r.acked <=> w[q].acked) /\ r.says = w[q].says
  <2>1. w'[q] \in Workers /\ w' = [w EXCEPT ![q] = w'[q]]
    BY <1>t, <1>1 DEF AdmitRetained, Workers, Places
  <2>2. /\ w'[q].pc = "erase" /\ w'[q].claim = op[opOf[q]].claim /\ (w'[q].own <=> w[q].own)
        /\ w'[q].outputs
        /\ w'[q].close /\ (w'[q].acked <=> w[q].acked) /\ w'[q].says = w[q].says
    BY <1>t, <1>1 DEF AdmitRetained, Workers
  <2> QED BY <2>1, <2>2
<1>5. ActorTypes'
  BY <1>t, <1>1, <1>2, <1>3, <1>4, <1>u DEF ActorTypes
<1>6. WorkersOK'
  BY <1>t, <1>1, <1>2, <1>3, <1>4, <1>u DEF WorkersOK, Outside, Stock, RecordsOK
<1>7. OwnersOK'
  BY <1>t, <1>1, <1>2, <1>3, <1>4, <1>u DEF OwnersOK, WorkersOK, Outside, Stock
<1>8. TokensOK'
  BY <1>t, <1>1, <1>2, <1>3, <1>4, <1>u DEF TokensOK, Used, Stock, WorkersOK, Outside
<1>9. FinsOK'
  BY <1>t, <1>1, <1>2, <1>3, <1>4, <1>u DEF FinsOK, Claimed, Owned, Token
<1>10. AnswersOK'
  BY <1>t, <1>1, <1>2, <1>3, <1>4, <1>u, ZenonT(30) DEF AnswersOK, Served, Over, Terminal
<1>11. DismissedOK'
  BY <1>t, <1>1, <1>2, <1>3, <1>4, <1>u DEF DismissedOK, Unserved, Past, Over, Mine, Terminal, Runs,
     WorkersOK, Outside, Stock, RecordsOK, RowsOK
<1>12. StoredOK'
  BY <1>t, <1>1, <1>2, <1>3, <1>4, <1>u DEF StoredOK, Mine
<1>13. TidyOK'
  BY <1>t, <1>1, <1>2, <1>3, <1>4, <1>u DEF TidyOK, Tidy, Served, Terminal
<1>14. PromotionExclusive'
  BY <1>t, <1>1, <1>2, <1>3, <1>4, <1>u DEF PromotionExclusive, Prepared, ActiveOps, WorkersOK,
     Outside, Stock
<1>15. InputTypes' /\ StoreTypes' /\ RecordsOK' /\ LaneOK' /\ LandedOK' /\ WalOK' /\ RowsOK' /\
   TasksOK' /\ LedgerOK' /\ PoolOK'
  BY <1>u, InputTypesFrame, StoreTypesFrame, RecordsOKFrame, LaneOKFrame, LandedOKFrame, WalOKFrame,
     RowsOKFrame, TasksOKFrame, LedgerOKFrame, PoolOKFrame
<1> QED BY <1>5, <1>6, <1>7, <1>8, <1>9, <1>10, <1>11, <1>12, <1>13, <1>14, <1>15

\* A refused request gives back its lease.
LEMMA AdmitRejectedStep ==
  ASSUME StockInv, NEW q \in Request, AdmitRejected(q)
  PROVE  StockInv'
<1> USE DEF StockInv
<1>t. /\ None \notin Request \cup {"busy", "conflict", "cleanup", "rejected", "replayed", "pending"}
      /\ op \in [Op -> Ops] /\ w \in [Request -> Workers] /\ fin \in [Runs -> Fins]
      /\ (\A p \in Op : op[p].claim \in Nat /\ issued[p] \in Nat)
      /\ (\A b \in Request : w[b].claim \in Nat) /\ (\A y \in Runs : fin[y].claim \in Nat)
  BY FieldTypes DEF InputTypes, StoreTypes, ActorTypes
<1>u. UNCHANGED <<opOf, refOf, expect, refOnly, pool, retained, op, ledger, refs, version, seq, row,
   please, intent, alarm, fin, bucket, queued, task, issued, landed, moved, last, late, forgotten,
   faults, edits>>
  BY DEF AdmitRejected, inputs, leases, history
<1>1. /\ w[q].pc \in {"reserved", "recovering"} /\ Stock(q) /\ opOf[q] \in Op /\ ~Used(q)
      /\ rlease.tok # q
      /\ w[q].says = None /\ ~w[q].outputs
  BY <1>t DEF Admitting, AdmitRejected, Stock, WorkersOK, TokensOK, AnswersOK, Used, Outside
<1>2. PICK r \in Workers :
       /\ w' = [w EXCEPT ![q] = r]
       /\ r.pc = "done" /\ r.claim = 0 /\ ~r.own /\ ~r.outputs
       /\ ~r.close /\ ~r.acked /\ r.says = None
  <2>1. w' = [w EXCEPT ![q] = [NewWorker EXCEPT !.pc = "done", !.acked = FALSE]]
    BY <1>t DEF AdmitRejected, Leave
  <2>2. (FALSE) \in BOOLEAN
    BY <1>t DEF Workers
  <2> HIDE DEF StockInv
  <2> QED BY <2>1, <2>2, LeftOK, Zenon
<1>3. rlease' = rlease /\ prep' \subseteq prep /\ reclease' \in RecoveryLeases
  BY <1>1, RecoveredOK DEF AdmitRejected, Dropped, Unreserved, StoreTypes
<1>4. StoreTypes'
  BY <1>t, <1>1, <1>2, <1>3, <1>u DEF StoreTypes
<1>5. ActorTypes'
  BY <1>t, <1>1, <1>2, <1>3, <1>u DEF ActorTypes
<1>6. WorkersOK'
  BY <1>t, <1>1, <1>2, <1>3, <1>u DEF WorkersOK, Outside, Stock
<1>7. OwnersOK'
  BY <1>t, <1>1, <1>2, <1>3, <1>u DEF OwnersOK, WorkersOK, Outside, Stock
<1>8. TokensOK'
  BY <1>t, <1>1, <1>2, <1>3, <1>u DEF TokensOK, Used, Stock, WorkersOK, Outside
<1>9. FinsOK'
  BY <1>t, <1>1, <1>2, <1>3, <1>u DEF FinsOK, Claimed, Owned, Token
<1>10. LaneOK'
  BY <1>t, <1>1, <1>2, <1>3, <1>u DEF LaneOK, Ready, Claimed, Owned, Valid, FinsOK, Token
<1>11. AnswersOK'
  BY <1>t, <1>1, <1>2, <1>3, <1>u DEF AnswersOK, Served, Over, Terminal
<1>12. WalOK'
  BY <1>t, <1>1, <1>2, <1>3, <1>u DEF WalOK, Claimed, Owned, Valid, Runs, RecordsOK
<1>13. DismissedOK'
  BY <1>t, <1>1, <1>2, <1>3, <1>u DEF DismissedOK, Unserved, Past, Over, Mine, Terminal, Runs,
     WorkersOK, Outside, Stock
<1>14. StoredOK'
  BY <1>t, <1>1, <1>2, <1>3, <1>u DEF StoredOK, Mine
<1>15. TidyOK'
  BY <1>t, <1>1, <1>2, <1>3, <1>u DEF TidyOK, Tidy, Served, Terminal
<1>16. PoolOK'
  <2>1. Prepared' \subseteq Prepared
    BY <1>t, <1>1, <1>2, <1>3, <1>u DEF Prepared
  <2>2. ActiveOps' \subseteq ActiveOps
    BY <1>t, <1>1, <1>2, <1>3, <1>u DEF ActiveOps
  <2> QED BY <2>1, <2>2, <1>u, PoolShrinks DEF InputTypes
<1>17. PromotionExclusive'
  BY <1>t, <1>1, <1>2, <1>3, <1>u DEF PromotionExclusive, Prepared, ActiveOps, WorkersOK, Outside,
     Stock
<1>18. InputTypes' /\ RecordsOK' /\ LandedOK' /\ RowsOK' /\ TasksOK' /\ LedgerOK'
  BY <1>u, InputTypesFrame, RecordsOKFrame, LandedOKFrame, RowsOKFrame, TasksOKFrame, LedgerOKFrame
<1> QED BY <1>4, <1>5, <1>6, <1>7, <1>8, <1>9, <1>10, <1>11, <1>12, <1>13, <1>14, <1>15, <1>16,
   <1>17, <1>18

------------------------------------------------------------------------------
(* The attempt *)

\* An attempt without outputs preserves the invariant.
LEMMA ExecuteRefOnlyStep ==
  ASSUME StockInv, NEW q \in Request, Execute(q), opOf[q] \in refOnly
  PROVE  StockInv'
<1> USE DEF StockInv
<1>t. /\ None \notin Request \cup {"busy", "conflict", "cleanup", "rejected", "replayed", "pending"}
      /\ op \in [Op -> Ops] /\ w \in [Request -> Workers] /\ fin \in [Runs -> Fins]
      /\ (\A p \in Op : op[p].claim \in Nat /\ issued[p] \in Nat)
      /\ (\A b \in Request : w[b].claim \in Nat) /\ (\A y \in Runs : fin[y].claim \in Nat)
  BY FieldTypes DEF InputTypes, StoreTypes, ActorTypes
<1>u. UNCHANGED <<opOf, refOf, expect, refOnly, pool, retained, op, ledger, refs, version, seq, row,
   rlease, prep, please, reclease, intent, alarm, fin, bucket, queued, task, issued, landed, moved,
   last, late, forgotten, faults, edits>>
  BY DEF Execute, inputs, leases, history
<1>1. w[q].pc = "execute" /\ w[q].own /\ Stock(q) /\ opOf[q] \in Op /\ w[q].says = None /\ ~w[q].outputs
  BY <1>t DEF Execute, Stock, WorkersOK, AnswersOK, Outside
<1>2. PICK r \in Workers :
       /\ w' = [w EXCEPT ![q] = r]
       /\ r.pc = "finalize" /\ r.claim = w[q].claim /\ (r.own <=> w[q].own)
       /\ (r.outputs <=> w[q].outputs)
       /\ (r.close <=> w[q].close) /\ (r.acked <=> w[q].acked) /\ r.says = w[q].says
  <2>1. w'[q] \in Workers /\ w' = [w EXCEPT ![q] = w'[q]]
    BY <1>t DEF Execute, Worker, Workers, Places
  <2>2. /\ w'[q].pc = "finalize" /\ w'[q].claim = w[q].claim /\ (w'[q].own <=> w[q].own)
        /\ (w'[q].outputs <=> w[q].outputs)
        /\ (w'[q].close <=> w[q].close) /\ (w'[q].acked <=> w[q].acked) /\ w'[q].says = w[q].says
    BY <1>t DEF Execute, Worker, Workers
  <2> QED BY <2>1, <2>2
<1>3. ActorTypes'
  BY <1>t, <1>1, <1>2, <1>u DEF ActorTypes
<1>4. WorkersOK'
  BY <1>t, <1>1, <1>2, <1>u DEF WorkersOK, Outside, Stock
<1>5. OwnersOK'
  BY <1>t, <1>1, <1>2, <1>u DEF OwnersOK, WorkersOK, Outside, Stock
<1>6. TokensOK'
  BY <1>t, <1>1, <1>2, <1>u DEF TokensOK, Used, Stock, WorkersOK, Outside
<1>7. FinsOK'
  BY <1>t, <1>1, <1>2, <1>u DEF FinsOK, Claimed, Owned, Token
<1>8. AnswersOK'
  BY <1>t, <1>1, <1>2, <1>u DEF AnswersOK, Served, Over, Terminal
<1>9. DismissedOK'
  BY <1>t, <1>1, <1>2, <1>u DEF DismissedOK, Unserved, Past, Over, Mine, Terminal, Runs, WorkersOK,
     Outside, Stock
<1>10. StoredOK'
  BY <1>t, <1>1, <1>2, <1>u DEF StoredOK, Mine
<1>11. TidyOK'
  BY <1>t, <1>1, <1>2, <1>u DEF TidyOK, Tidy, Served, Terminal
<1>12. PromotionExclusive'
  BY <1>t, <1>1, <1>2, <1>u DEF PromotionExclusive, Prepared, ActiveOps, WorkersOK, Outside, Stock
<1>13. InputTypes' /\ StoreTypes' /\ RecordsOK' /\ LaneOK' /\ LandedOK' /\ WalOK' /\ RowsOK' /\
   TasksOK' /\ LedgerOK' /\ PoolOK'
  BY <1>u, InputTypesFrame, StoreTypesFrame, RecordsOKFrame, LaneOKFrame, LandedOKFrame, WalOKFrame,
     RowsOKFrame, TasksOKFrame, LedgerOKFrame, PoolOKFrame
<1> QED BY <1>3, <1>4, <1>5, <1>6, <1>7, <1>8, <1>9, <1>10, <1>11, <1>12, <1>13

\* An attempt that wrote its outputs preserves the invariant.
LEMMA ExecuteStep ==
  ASSUME StockInv, NEW q \in Request, Execute(q), opOf[q] \notin refOnly
  PROVE  StockInv'
<1> USE DEF StockInv
<1>t. /\ None \notin Request \cup {"busy", "conflict", "cleanup", "rejected", "replayed", "pending"}
      /\ op \in [Op -> Ops] /\ w \in [Request -> Workers] /\ fin \in [Runs -> Fins]
      /\ (\A p \in Op : op[p].claim \in Nat /\ issued[p] \in Nat)
      /\ (\A b \in Request : w[b].claim \in Nat) /\ (\A y \in Runs : fin[y].claim \in Nat)
  BY FieldTypes DEF InputTypes, StoreTypes, ActorTypes
<1>u. UNCHANGED <<opOf, refOf, expect, refOnly, pool, retained, op, ledger, refs, version, seq, row,
   rlease, prep, please, reclease, intent, alarm, fin, queued, task, issued, landed, moved, last,
   forgotten, faults, edits>>
  BY DEF Execute, inputs, leases, history
<1>1. w[q].pc = "execute" /\ w[q].own /\ Stock(q) /\ opOf[q] \in Op /\ w[q].says = None /\ ~w[q].outputs
  BY <1>t DEF Execute, Stock, WorkersOK, AnswersOK, Outside
<1>2. PICK r \in Workers :
       /\ w' = [w EXCEPT ![q] = r]
       /\ r.pc = "finalize" /\ r.claim = w[q].claim /\ (r.own <=> w[q].own)
       /\ (r.outputs <=> w[q].outputs)
       /\ (r.close <=> w[q].close) /\ (r.acked <=> w[q].acked) /\ r.says = w[q].says
  <2>1. w'[q] \in Workers /\ w' = [w EXCEPT ![q] = w'[q]]
    BY <1>t DEF Execute, Worker, Workers, Places
  <2>2. /\ w'[q].pc = "finalize" /\ w'[q].claim = w[q].claim /\ (w'[q].own <=> w[q].own)
        /\ (w'[q].outputs <=> w[q].outputs)
        /\ (w'[q].close <=> w[q].close) /\ (w'[q].acked <=> w[q].acked) /\ w'[q].says = w[q].says
    BY <1>t DEF Execute, Worker, Workers
  <2> QED BY <2>1, <2>2
<1>3. /\ bucket' = bucket \cup {Mine(q)} /\ late' = late \cup LateFor(q)
      /\ LateFor(q) \subseteq {opOf[q]}
      /\ Superseded(q) => opOf[q] \in late'
  BY DEF Execute, LateFor
<1>4. Mine(q) = <<opOf[q], w[q].claim>> /\ w[q].claim \in 1 .. MaxClaims
  BY <1>t, <1>1 DEF Mine, WorkersOK, Workers
<1>5. opOf[q] \notin refOnly
  BY DEF Execute
<1>6. ActorTypes'
  BY <1>t, <1>1, <1>2, <1>3, <1>4, <1>5, <1>u DEF ActorTypes, Key
<1>7. WorkersOK'
  BY <1>t, <1>1, <1>2, <1>3, <1>4, <1>5, <1>u DEF WorkersOK, Outside, Stock
<1>8. OwnersOK'
  BY <1>t, <1>1, <1>2, <1>3, <1>4, <1>5, <1>u DEF OwnersOK, WorkersOK, Outside, Stock
<1>9. TokensOK'
  BY <1>t, <1>1, <1>2, <1>3, <1>4, <1>5, <1>u DEF TokensOK, Used, Stock, WorkersOK, Outside
<1>10. FinsOK'
  BY <1>t, <1>1, <1>2, <1>3, <1>4, <1>5, <1>u DEF FinsOK, Claimed, Owned, Token
<1>11. AnswersOK'
  BY <1>t, <1>1, <1>2, <1>3, <1>4, <1>5, <1>u DEF AnswersOK, Served, Over, Terminal
<1>12. DismissedOK'
  BY <1>t, <1>1, <1>2, <1>3, <1>4, <1>5, <1>u DEF DismissedOK, Unserved, Past, Over, Mine, Terminal,
     Runs, WorkersOK, Outside, Stock
<1>13. StoredOK'
  BY <1>t, <1>1, <1>2, <1>3, <1>4, <1>5, <1>u DEF StoredOK, Mine, Key
<1>14. TidyOK'
  BY <1>t, <1>1, <1>2, <1>3, <1>4, <1>5, <1>u DEF TidyOK, Tidy, Served, Terminal, DismissedOK,
     Unserved, Past, Over, Mine, Runs, Superseded, Owned
<1>15. TasksOK'
  BY <1>t, <1>1, <1>2, <1>3, <1>4, <1>5, <1>u DEF TasksOK, Past, Over, Tidy, Served, Terminal,
     Superseded, Owned, WorkersOK, Outside, Stock
<1>16. PromotionExclusive'
  BY <1>t, <1>1, <1>2, <1>3, <1>4, <1>5, <1>u DEF PromotionExclusive, Prepared, ActiveOps,
     WorkersOK, Outside, Stock
<1>17. InputTypes' /\ StoreTypes' /\ RecordsOK' /\ LaneOK' /\ LandedOK' /\ WalOK' /\ RowsOK' /\
   LedgerOK' /\ PoolOK'
  BY <1>u, InputTypesFrame, StoreTypesFrame, RecordsOKFrame, LaneOKFrame, LandedOKFrame, WalOKFrame,
     RowsOKFrame, LedgerOKFrame, PoolOKFrame
<1> QED BY <1>6, <1>7, <1>8, <1>9, <1>10, <1>11, <1>12, <1>13, <1>14, <1>15, <1>16, <1>17

\* ... so does one that failed after it wrote them.
LEMMA ExecuteFailsLateStep ==
  ASSUME StockInv, NEW q \in Request, ExecuteFails(q), bucket' # bucket \/ late' # late
  PROVE  StockInv'
<1> USE DEF StockInv
<1>t. /\ None \notin Request \cup {"busy", "conflict", "cleanup", "rejected", "replayed", "pending"}
      /\ op \in [Op -> Ops] /\ w \in [Request -> Workers] /\ fin \in [Runs -> Fins]
      /\ (\A p \in Op : op[p].claim \in Nat /\ issued[p] \in Nat)
      /\ (\A b \in Request : w[b].claim \in Nat) /\ (\A y \in Runs : fin[y].claim \in Nat)
  BY FieldTypes DEF InputTypes, StoreTypes, ActorTypes
<1>u. UNCHANGED <<opOf, refOf, expect, refOnly, pool, retained, op, ledger, refs, version, seq, row,
   rlease, prep, please, reclease, intent, alarm, fin, queued, task, issued, landed, moved, last,
   forgotten, faults, edits>>
  BY DEF ExecuteFails, inputs, leases, history
<1>1. w[q].pc = "execute" /\ w[q].own /\ Stock(q) /\ opOf[q] \in Op /\ w[q].says = None /\ ~w[q].outputs
  BY <1>t DEF ExecuteFails, Stock, WorkersOK, AnswersOK, Outside
<1>2. PICK r \in Workers :
       /\ w' = [w EXCEPT ![q] = r]
       /\ r.pc = "reject" /\ r.claim = w[q].claim /\ (r.own <=> w[q].own)
       /\ (r.outputs <=> w[q].outputs)
       /\ (r.close <=> w[q].close) /\ (r.acked <=> w[q].acked) /\ r.says = w[q].says
  <2>1. w'[q] \in Workers /\ w' = [w EXCEPT ![q] = w'[q]]
    BY <1>t DEF ExecuteFails, Worker, Workers, Places
  <2>2. /\ w'[q].pc = "reject" /\ w'[q].claim = w[q].claim /\ (w'[q].own <=> w[q].own)
        /\ (w'[q].outputs <=> w[q].outputs)
        /\ (w'[q].close <=> w[q].close) /\ (w'[q].acked <=> w[q].acked) /\ w'[q].says = w[q].says
    BY <1>t DEF ExecuteFails, Worker, Workers
  <2> QED BY <2>1, <2>2
<1>3. /\ bucket' = bucket \cup {Mine(q)} /\ late' = late \cup LateFor(q)
      /\ LateFor(q) \subseteq {opOf[q]}
      /\ Superseded(q) => opOf[q] \in late'
  BY DEF ExecuteFails, LateFor
<1>4. Mine(q) = <<opOf[q], w[q].claim>> /\ w[q].claim \in 1 .. MaxClaims
  BY <1>t, <1>1 DEF Mine, WorkersOK, Workers
<1>5. opOf[q] \notin refOnly
  BY DEF ExecuteFails
<1>6. ActorTypes'
  BY <1>t, <1>1, <1>2, <1>3, <1>4, <1>5, <1>u DEF ActorTypes, Key
<1>7. WorkersOK'
  BY <1>t, <1>1, <1>2, <1>3, <1>4, <1>5, <1>u DEF WorkersOK, Outside, Stock
<1>8. OwnersOK'
  BY <1>t, <1>1, <1>2, <1>3, <1>4, <1>5, <1>u DEF OwnersOK, WorkersOK, Outside, Stock
<1>9. TokensOK'
  BY <1>t, <1>1, <1>2, <1>3, <1>4, <1>5, <1>u DEF TokensOK, Used, Stock, WorkersOK, Outside
<1>10. FinsOK'
  BY <1>t, <1>1, <1>2, <1>3, <1>4, <1>5, <1>u DEF FinsOK, Claimed, Owned, Token
<1>11. AnswersOK'
  BY <1>t, <1>1, <1>2, <1>3, <1>4, <1>5, <1>u DEF AnswersOK, Served, Over, Terminal
<1>12. DismissedOK'
  BY <1>t, <1>1, <1>2, <1>3, <1>4, <1>5, <1>u DEF DismissedOK, Unserved, Past, Over, Mine, Terminal,
     Runs, WorkersOK, Outside, Stock
<1>13. StoredOK'
  BY <1>t, <1>1, <1>2, <1>3, <1>4, <1>5, <1>u DEF StoredOK, Mine, Key
<1>14. TidyOK'
  BY <1>t, <1>1, <1>2, <1>3, <1>4, <1>5, <1>u DEF TidyOK, Tidy, Served, Terminal, DismissedOK,
     Unserved, Past, Over, Mine, Runs, Superseded, Owned
<1>15. TasksOK'
  BY <1>t, <1>1, <1>2, <1>3, <1>4, <1>5, <1>u DEF TasksOK, Past, Over, Tidy, Served, Terminal,
     Superseded, Owned, WorkersOK, Outside, Stock
<1>16. PromotionExclusive'
  BY <1>t, <1>1, <1>2, <1>3, <1>4, <1>5, <1>u DEF PromotionExclusive, Prepared, ActiveOps,
     WorkersOK, Outside, Stock
<1>17. InputTypes' /\ StoreTypes' /\ RecordsOK' /\ LaneOK' /\ LandedOK' /\ WalOK' /\ RowsOK' /\
   LedgerOK' /\ PoolOK'
  BY <1>u, InputTypesFrame, StoreTypesFrame, RecordsOKFrame, LaneOKFrame, LandedOKFrame, WalOKFrame,
     RowsOKFrame, LedgerOKFrame, PoolOKFrame
<1> QED BY <1>6, <1>7, <1>8, <1>9, <1>10, <1>11, <1>12, <1>13, <1>14, <1>15, <1>16, <1>17

\* ... or before it did.
LEMMA ExecuteFailsEarlyStep ==
  ASSUME StockInv, NEW q \in Request, ExecuteFails(q), bucket' = bucket, late' = late
  PROVE  StockInv'
<1> USE DEF StockInv
<1>t. /\ None \notin Request \cup {"busy", "conflict", "cleanup", "rejected", "replayed", "pending"}
      /\ op \in [Op -> Ops] /\ w \in [Request -> Workers] /\ fin \in [Runs -> Fins]
      /\ (\A p \in Op : op[p].claim \in Nat /\ issued[p] \in Nat)
      /\ (\A b \in Request : w[b].claim \in Nat) /\ (\A y \in Runs : fin[y].claim \in Nat)
  BY FieldTypes DEF InputTypes, StoreTypes, ActorTypes
<1>u. UNCHANGED <<opOf, refOf, expect, refOnly, pool, retained, op, ledger, refs, version, seq, row,
   rlease, prep, please, reclease, intent, alarm, fin, bucket, queued, task, issued, landed, moved,
   last, late, forgotten, faults, edits>>
  BY DEF ExecuteFails, inputs, leases, history
<1>1. w[q].pc = "execute" /\ w[q].own /\ Stock(q) /\ opOf[q] \in Op /\ w[q].says = None /\ ~w[q].outputs
  BY <1>t DEF ExecuteFails, Stock, WorkersOK, AnswersOK, Outside
<1>2. PICK r \in Workers :
       /\ w' = [w EXCEPT ![q] = r]
       /\ r.pc = "reject" /\ r.claim = w[q].claim /\ (r.own <=> w[q].own)
       /\ (r.outputs <=> w[q].outputs)
       /\ (r.close <=> w[q].close) /\ (r.acked <=> w[q].acked) /\ r.says = w[q].says
  <2>1. w'[q] \in Workers /\ w' = [w EXCEPT ![q] = w'[q]]
    BY <1>t DEF ExecuteFails, Worker, Workers, Places
  <2>2. /\ w'[q].pc = "reject" /\ w'[q].claim = w[q].claim /\ (w'[q].own <=> w[q].own)
        /\ (w'[q].outputs <=> w[q].outputs)
        /\ (w'[q].close <=> w[q].close) /\ (w'[q].acked <=> w[q].acked) /\ w'[q].says = w[q].says
    BY <1>t DEF ExecuteFails, Worker, Workers
  <2> QED BY <2>1, <2>2
<1>3. ActorTypes'
  BY <1>t, <1>1, <1>2, <1>u DEF ActorTypes
<1>4. WorkersOK'
  BY <1>t, <1>1, <1>2, <1>u DEF WorkersOK, Outside, Stock
<1>5. OwnersOK'
  BY <1>t, <1>1, <1>2, <1>u DEF OwnersOK, WorkersOK, Outside, Stock
<1>6. TokensOK'
  BY <1>t, <1>1, <1>2, <1>u DEF TokensOK, Used, Stock, WorkersOK, Outside
<1>7. FinsOK'
  BY <1>t, <1>1, <1>2, <1>u DEF FinsOK, Claimed, Owned, Token
<1>8. AnswersOK'
  BY <1>t, <1>1, <1>2, <1>u DEF AnswersOK, Served, Over, Terminal
<1>9. DismissedOK'
  BY <1>t, <1>1, <1>2, <1>u DEF DismissedOK, Unserved, Past, Over, Mine, Terminal, Runs, WorkersOK,
     Outside, Stock
<1>10. StoredOK'
  BY <1>t, <1>1, <1>2, <1>u DEF StoredOK, Mine
<1>11. TidyOK'
  BY <1>t, <1>1, <1>2, <1>u DEF TidyOK, Tidy, Served, Terminal
<1>12. PromotionExclusive'
  BY <1>t, <1>1, <1>2, <1>u DEF PromotionExclusive, Prepared, ActiveOps, WorkersOK, Outside, Stock
<1>13. InputTypes' /\ StoreTypes' /\ RecordsOK' /\ LaneOK' /\ LandedOK' /\ WalOK' /\ RowsOK' /\
   TasksOK' /\ LedgerOK' /\ PoolOK'
  BY <1>u, InputTypesFrame, StoreTypesFrame, RecordsOKFrame, LaneOKFrame, LandedOKFrame, WalOKFrame,
     RowsOKFrame, TasksOKFrame, LedgerOKFrame, PoolOKFrame
<1> QED BY <1>3, <1>4, <1>5, <1>6, <1>7, <1>8, <1>9, <1>10, <1>11, <1>12, <1>13

\* The owner of a claim gives it up.
LEMMA RejectExecutionClaimStep ==
  ASSUME StockInv, NEW q \in Request, RejectExecution(q), RejectsClaim(opOf[q], w[q].claim)
  PROVE  StockInv'
<1> USE DEF StockInv
<1>t. /\ None \notin Request \cup {"busy", "conflict", "cleanup", "rejected", "replayed", "pending"}
      /\ op \in [Op -> Ops] /\ w \in [Request -> Workers] /\ fin \in [Runs -> Fins]
      /\ (\A p \in Op : op[p].claim \in Nat /\ issued[p] \in Nat)
      /\ (\A b \in Request : w[b].claim \in Nat) /\ (\A y \in Runs : fin[y].claim \in Nat)
  BY FieldTypes DEF InputTypes, StoreTypes, ActorTypes
<1>u. UNCHANGED <<opOf, refOf, expect, refOnly, pool, retained, ledger, refs, version, seq, row,
   prep, please, reclease, intent, alarm, fin, bucket, queued, task, issued, landed, moved, last,
   late, forgotten, faults, edits>>
  BY DEF RejectExecution, inputs, leases, history
<1>1. w[q].pc = "reject" /\ w[q].own /\ Stock(q) /\ opOf[q] \in Op /\ w[q].says = None /\ ~w[q].outputs
  BY <1>t DEF RejectExecution, Stock, WorkersOK, AnswersOK, Outside
<1>2. op[opOf[q]].st = "processing" /\ op[opOf[q]].claim = w[q].claim /\ w[q].claim \in 0 .. MaxClaims
  BY <1>t DEF RejectsClaim, Owned, Workers
<1>3. PICK r \in Workers :
       /\ w' = [w EXCEPT ![q] = r]
       /\ r.pc = "erase" /\ r.claim = w[q].claim /\ (r.own <=> w[q].own) /\ r.outputs
       /\ r.close /\ (r.acked <=> w[q].acked) /\ r.says = w[q].says
  <2>1. w'[q] \in Workers /\ w' = [w EXCEPT ![q] = w'[q]]
    BY <1>t DEF RejectExecution, RejectsClaim, Workers, Places
  <2>2. /\ w'[q].pc = "erase" /\ w'[q].claim = w[q].claim /\ (w'[q].own <=> w[q].own) /\ w'[q].outputs
        /\ w'[q].close /\ (w'[q].acked <=> w[q].acked) /\ w'[q].says = w[q].says
    BY <1>t DEF RejectExecution, RejectsClaim, Workers
  <2> QED BY <2>1, <2>2
<1>4. PICK again \in BOOLEAN : op' = [op EXCEPT ![opOf[q]].st = "failed", ![opOf[q]].pend = TRUE, ![opOf[q]].retry = again]
  BY DEF RejectExecution
<1>5. PICK e \in Ops :
       /\ op' = [op EXCEPT ![opOf[q]] = e]
       /\ e.st = "failed" /\ e.claim = op[opOf[q]].claim /\ e.lease = op[opOf[q]].lease /\ e.pend
  <2>1. /\ op'[opOf[q]] = [op[opOf[q]] EXCEPT !.st = "failed", !.pend = TRUE, !.retry = again]
        /\ op' = [op EXCEPT ![opOf[q]] = op'[opOf[q]]] /\ op[opOf[q]] \in Ops
    BY <1>t, <1>1, <1>4
  <2> HIDE DEF StockInv
  <2>2. PICK d, f : d = op[opOf[q]] /\ f = op'[opOf[q]]
    OBVIOUS
  <2>3. f = [d EXCEPT !.st = "failed", !.pend = TRUE, !.retry = again] /\ d \in Ops
    BY <2>1, <2>2, Zenon
  <2>4. f \in Ops /\ f.st = "failed" /\ f.claim = d.claim /\ f.lease = d.lease /\ f.pend
    BY <2>3, FailedOK, Zenon
  <2> QED BY <2>1, <2>2, <2>4
<1>6. /\ rlease' \in ReceiveLeases /\ (rlease.tok # op[opOf[q]].lease => rlease' = rlease)
      /\ (rlease.tok = op[opOf[q]].lease => rlease'.tok = None /\ ~rlease'.live)
  <2>1. rlease' = Dropped(op[opOf[q]].lease)
    BY DEF RejectExecution
  <2> QED BY <2>1, DroppedOK DEF StoreTypes
<1>7. StoreTypes'
  BY <1>t, <1>1, <1>2, <1>3, <1>5, <1>6, <1>u DEF StoreTypes
<1>8. ActorTypes'
  BY <1>t, <1>1, <1>2, <1>3, <1>5, <1>6, <1>u DEF ActorTypes
<1>9. RecordsOK'
  BY <1>t, <1>1, <1>2, <1>3, <1>5, <1>6, <1>u DEF RecordsOK
<1>10. WorkersOK'
  BY <1>t, <1>1, <1>2, <1>3, <1>5, <1>6, <1>u DEF WorkersOK, Outside, Stock
<1>11. OwnersOK'
  BY <1>t, <1>1, <1>2, <1>3, <1>5, <1>6, <1>u DEF OwnersOK, WorkersOK, Outside, Stock
<1>12. TokensOK'
  BY <1>t, <1>1, <1>2, <1>3, <1>5, <1>6, <1>u DEF TokensOK, Used, Stock, WorkersOK, Outside,
     RecordsOK
<1>13. FinsOK'
  BY <1>t, <1>1, <1>2, <1>3, <1>5, <1>6, <1>u DEF FinsOK, Claimed, Owned, Token
<1>14. LaneOK'
  BY <1>t, <1>1, <1>2, <1>3, <1>5, <1>6, <1>u DEF LaneOK, Ready, Claimed, Owned, Valid,
     FinsOK, Token, RecordsOK, TokensOK, Used, Stock
<1>15. LandedOK'
  BY <1>t, <1>1, <1>2, <1>3, <1>5, <1>6, <1>u DEF LandedOK
<1>16. AnswersOK'
  BY <1>t, <1>1, <1>2, <1>3, <1>5, <1>6, <1>u DEF AnswersOK, Served, Over, Terminal
<1>17. WalOK'
  BY <1>t, <1>1, <1>2, <1>3, <1>5, <1>6, <1>u DEF WalOK, Claimed, Owned, Valid, Runs,
     RecordsOK
<1>18. RowsOK'
  BY <1>t, <1>1, <1>2, <1>3, <1>5, <1>6, <1>u DEF RowsOK, RecordsOK
<1>19. DismissedOK'
  <2>1. DismissedOK /\ WorkersOK /\ RowsOK
    OBVIOUS
  <2> QED BY ONLY <2>1, <1>t, <1>1, <1>2, <1>3, <1>5, <1>u DEF DismissedOK, Unserved, Past, Over,
     Mine, Terminal, WorkersOK, RowsOK
<1>20. StoredOK'
  BY <1>t, <1>1, <1>2, <1>3, <1>5, <1>6, <1>u DEF StoredOK, Mine
<1>21. TidyOK'
  BY <1>t, <1>1, <1>2, <1>3, <1>5, <1>6, <1>u DEF TidyOK, Tidy, Served, Terminal
<1>22. TasksOK'
  BY <1>t, <1>1, <1>2, <1>3, <1>5, <1>6, <1>u DEF TasksOK, Past, Over, Tidy, Served, Terminal
<1>23. LedgerOK'
  BY <1>t, <1>1, <1>2, <1>3, <1>5, <1>6, <1>u DEF LedgerOK
<1>24. PoolOK'
  <2>1. Prepared' \subseteq Prepared
    BY <1>t, <1>1, <1>2, <1>3, <1>5, <1>6, <1>u DEF Prepared
  <2>2. ActiveOps' \subseteq ActiveOps
    BY <1>t, <1>1, <1>2, <1>3, <1>5, <1>6, <1>u DEF ActiveOps
  <2> QED BY <2>1, <2>2, <1>u, PoolShrinks DEF InputTypes
<1>25. PromotionExclusive'
  BY <1>t, <1>1, <1>2, <1>3, <1>5, <1>6, <1>u DEF PromotionExclusive, Prepared, ActiveOps,
     WorkersOK, Outside, Stock
<1>26. InputTypes'
  BY <1>u, InputTypesFrame
<1> QED BY <1>7, <1>8, <1>9, <1>10, <1>11, <1>12, <1>13, <1>14, <1>15, <1>16, <1>17, <1>18, <1>19,
   <1>20, <1>21, <1>22, <1>23, <1>24, <1>25, <1>26

\* The claim of the attempt was aborted: its outputs are to be deleted.
LEMMA RejectExecutionSettledStep ==
  ASSUME StockInv, NEW q \in Request, RejectExecution(q), ~RejectsClaim(opOf[q], w[q].claim),
         Owned(opOf[q], w[q].claim), op[opOf[q]].st \in Terminal
  PROVE  StockInv'
<1> USE DEF StockInv
<1>t. /\ None \notin Request \cup {"busy", "conflict", "cleanup", "rejected", "replayed", "pending"}
      /\ op \in [Op -> Ops] /\ w \in [Request -> Workers] /\ fin \in [Runs -> Fins]
      /\ (\A p \in Op : op[p].claim \in Nat /\ issued[p] \in Nat)
      /\ (\A b \in Request : w[b].claim \in Nat) /\ (\A y \in Runs : fin[y].claim \in Nat)
  BY FieldTypes DEF InputTypes, StoreTypes, ActorTypes
<1>u. UNCHANGED <<opOf, refOf, expect, refOnly, pool, retained, op, ledger, refs, version, seq, row,
   rlease, prep, please, reclease, intent, alarm, fin, bucket, queued, task, issued, landed, moved,
   last, late, forgotten, faults, edits>>
  BY DEF RejectExecution, inputs, leases, history
<1>1. w[q].pc = "reject" /\ w[q].own /\ Stock(q) /\ opOf[q] \in Op /\ w[q].says = None /\ ~w[q].outputs
  BY <1>t DEF RejectExecution, Stock, WorkersOK, AnswersOK, Outside
<1>2. PICK r \in Workers :
       /\ w' = [w EXCEPT ![q] = r]
       /\ r.pc = "erase" /\ r.claim = w[q].claim /\ (r.own <=> w[q].own) /\ r.outputs
       /\ r.close /\ (r.acked <=> w[q].acked) /\ r.says = w[q].says
  <2>1. w' = [w EXCEPT ![q].pc = "erase", ![q].outputs = TRUE, ![q].close = TRUE]
    BY DEF RejectExecution
  <2>2. w \in [Request -> Workers] /\ q \in Request
    BY <1>t
  <2>3. PICK d, f : d = w[q] /\ f = [d EXCEPT !.pc = "erase", !.outputs = TRUE, !.close = TRUE]
    BY Zenon
  <2>4. d \in Workers /\ w' = [w EXCEPT ![q] = f]
    BY ONLY <2>1, <2>2, <2>3
  <2>5. f \in Workers
    BY ONLY <2>3, <2>4 DEF Workers, Places, Answers
  <2>6. w'[q] \in Workers /\ w' = [w EXCEPT ![q] = w'[q]]
    BY ONLY <2>2, <2>4, <2>5
  <2>7. /\ w'[q].pc = "erase" /\ w'[q].claim = w[q].claim /\ (w'[q].own <=> w[q].own) /\ w'[q].outputs
        /\ w'[q].close /\ (w'[q].acked <=> w[q].acked) /\ w'[q].says = w[q].says
    BY <1>t, <2>1 DEF Workers
  <2> QED BY <2>6, <2>7
<1>3. /\ op[opOf[q]].claim = w[q].claim /\ op[opOf[q]].st \in {"aborted", "failed"}
      /\ w[q].claim \in 0 .. MaxClaims
  BY <1>t, <1>1 DEF Owned, DismissedOK, Workers, Terminal
<1>4. ActorTypes'
  BY <1>t, <1>1, <1>2, <1>3, <1>u DEF ActorTypes
<1>5. WorkersOK'
  BY <1>t, <1>1, <1>2, <1>3, <1>u DEF WorkersOK, Outside, Stock
<1>6. OwnersOK'
  BY <1>t, <1>1, <1>2, <1>3, <1>u DEF OwnersOK, WorkersOK, Outside, Stock
<1>7. TokensOK'
  BY <1>t, <1>1, <1>2, <1>3, <1>u DEF TokensOK, Used, Stock, WorkersOK, Outside
<1>8. FinsOK'
  BY <1>t, <1>1, <1>2, <1>3, <1>u DEF FinsOK, Claimed, Owned, Token
<1>9. AnswersOK'
  BY <1>t, <1>1, <1>2, <1>3, <1>u DEF AnswersOK, Served, Over, Terminal
<1>10. DismissedOK'
  BY <1>t, <1>1, <1>2, <1>3, <1>u DEF DismissedOK, Unserved, Past, Over, Mine, Terminal, Runs,
     WorkersOK, Outside, Stock, RowsOK
<1>11. StoredOK'
  BY <1>t, <1>1, <1>2, <1>3, <1>u DEF StoredOK, Mine
<1>12. TidyOK'
  BY <1>t, <1>1, <1>2, <1>3, <1>u DEF TidyOK, Tidy, Served, Terminal
<1>13. PromotionExclusive'
  BY <1>t, <1>1, <1>2, <1>3, <1>u DEF PromotionExclusive, Prepared, ActiveOps, WorkersOK, Outside,
     Stock
<1>14. InputTypes' /\ StoreTypes' /\ RecordsOK' /\ LaneOK' /\ LandedOK' /\ WalOK' /\ RowsOK' /\
   TasksOK' /\ LedgerOK' /\ PoolOK'
  BY <1>u, InputTypesFrame, StoreTypesFrame, RecordsOKFrame, LaneOKFrame, LandedOKFrame, WalOKFrame,
     RowsOKFrame, TasksOKFrame, LedgerOKFrame, PoolOKFrame
<1> QED BY <1>4, <1>5, <1>6, <1>7, <1>8, <1>9, <1>10, <1>11, <1>12, <1>13, <1>14

\* A superseded attempt leaves.
LEMMA RejectExecutionSupersededStep ==
  ASSUME StockInv, NEW q \in Request, RejectExecution(q),
         ~(Owned(opOf[q], w[q].claim) /\ op[opOf[q]].st \in Terminal \cup {"processing"})
  PROVE  StockInv'
<1> USE DEF StockInv
<1>t. /\ None \notin Request \cup {"busy", "conflict", "cleanup", "rejected", "replayed", "pending"}
      /\ op \in [Op -> Ops] /\ w \in [Request -> Workers] /\ fin \in [Runs -> Fins]
      /\ (\A p \in Op : op[p].claim \in Nat /\ issued[p] \in Nat)
      /\ (\A b \in Request : w[b].claim \in Nat) /\ (\A y \in Runs : fin[y].claim \in Nat)
  BY FieldTypes DEF InputTypes, StoreTypes, ActorTypes
<1>u. UNCHANGED <<opOf, refOf, expect, refOnly, pool, retained, op, ledger, refs, version, seq, row,
   rlease, prep, please, reclease, intent, alarm, fin, bucket, queued, task, issued, landed, moved,
   last, late, forgotten, faults, edits>>
  BY DEF RejectExecution, RejectsClaim, inputs, leases, history
<1>1. PICK r \in Workers :
       /\ w' = [w EXCEPT ![q] = r]
       /\ r.pc = "done" /\ r.claim = 0 /\ ~r.own /\ ~r.outputs
       /\ ~r.close /\ ~r.acked /\ r.says = None
  <2>1. w' = [w EXCEPT ![q] = [NewWorker EXCEPT !.pc = "done", !.acked = FALSE]]
    BY <1>t DEF RejectExecution, Leave
  <2>2. (FALSE) \in BOOLEAN
    BY <1>t DEF Workers
  <2> HIDE DEF StockInv
  <2> QED BY <2>1, <2>2, LeftOK, Zenon
<1>2. ActorTypes'
  BY <1>t, <1>1, <1>u DEF ActorTypes
<1>3. WorkersOK'
  BY <1>t, <1>1, <1>u DEF WorkersOK, Outside, Stock
<1>4. OwnersOK'
  BY <1>t, <1>1, <1>u DEF OwnersOK, WorkersOK, Outside, Stock
<1>5. TokensOK'
  BY <1>t, <1>1, <1>u DEF TokensOK, Used, Stock, WorkersOK, Outside
<1>6. FinsOK'
  BY <1>t, <1>1, <1>u DEF FinsOK, Claimed, Owned, Token
<1>7. AnswersOK'
  BY <1>t, <1>1, <1>u DEF AnswersOK, Served, Over, Terminal
<1>8. DismissedOK'
  BY <1>t, <1>1, <1>u DEF DismissedOK, Unserved, Past, Over, Mine, Terminal, Runs, WorkersOK,
     Outside, Stock
<1>9. StoredOK'
  BY <1>t, <1>1, <1>u DEF StoredOK, Mine
<1>10. TidyOK'
  BY <1>t, <1>1, <1>u DEF TidyOK, Tidy, Served, Terminal
<1>11. PromotionExclusive'
  BY <1>t, <1>1, <1>u DEF PromotionExclusive, Prepared, ActiveOps, WorkersOK, Outside, Stock
<1>12. InputTypes' /\ StoreTypes' /\ RecordsOK' /\ LaneOK' /\ LandedOK' /\ WalOK' /\ RowsOK' /\
   TasksOK' /\ LedgerOK' /\ PoolOK'
  BY <1>u, InputTypesFrame, StoreTypesFrame, RecordsOKFrame, LaneOKFrame, LandedOKFrame, WalOKFrame,
     RowsOKFrame, TasksOKFrame, LedgerOKFrame, PoolOKFrame
<1> QED BY <1>2, <1>3, <1>4, <1>5, <1>6, <1>7, <1>8, <1>9, <1>10, <1>11, <1>12

\* The outcome of a live claim becomes durable.
LEMMA CallFinalizeReadyStep ==
  ASSUME StockInv, NEW q \in Request, CallFinalize(q), op[opOf[q]].st = "processing",
         op[opOf[q]].claim = w[q].claim
  PROVE  StockInv'
<1> USE DEF StockInv
<1>t. /\ None \notin Request \cup {"busy", "conflict", "cleanup", "rejected", "replayed", "pending"}
      /\ op \in [Op -> Ops] /\ w \in [Request -> Workers] /\ fin \in [Runs -> Fins]
      /\ (\A p \in Op : op[p].claim \in Nat /\ issued[p] \in Nat)
      /\ (\A b \in Request : w[b].claim \in Nat) /\ (\A y \in Runs : fin[y].claim \in Nat)
  BY FieldTypes DEF InputTypes, StoreTypes, ActorTypes
<1>u. UNCHANGED <<opOf, refOf, expect, refOnly, pool, retained, ledger, refs, version, seq, row,
   rlease, prep, please, reclease, intent, bucket, queued, task, issued, landed, moved, last, late,
   forgotten, faults, edits>>
  BY DEF CallFinalize, inputs, leases, history
<1>1. /\ w[q].pc = "finalize" /\ fin[q] = NoFin /\ Stock(q) /\ opOf[q] \in Op /\ w[q].says = None
      /\ ~w[q].outputs
      /\ q \in Runs /\ q # Alarm /\ w[q].claim \in 1 .. MaxClaims /\ w[q].claim <= issued[opOf[q]]
  BY <1>t, StockAssumption DEF CallFinalize, Stock, WorkersOK, AnswersOK, Outside, Runs, Workers
<1>2. PICK r \in Workers :
       /\ w' = [w EXCEPT ![q] = r]
       /\ r.pc = "called" /\ r.claim = w[q].claim /\ (r.own <=> w[q].own)
       /\ (r.outputs <=> w[q].outputs)
       /\ (r.close <=> w[q].close) /\ (r.acked <=> w[q].acked) /\ r.says = w[q].says
  <2>1. w' = [w EXCEPT ![q].pc = "called"]
    BY DEF CallFinalize, Worker
  <2>2. w \in [Request -> Workers] /\ q \in Request
    BY <1>t
  <2>3. PICK d, f : d = w[q] /\ f = [d EXCEPT !.pc = "called"]
    OBVIOUS
  <2>4. d \in Workers /\ w' = [w EXCEPT ![q] = f]
    BY ONLY <2>1, <2>2, <2>3
  <2>5. f \in Workers
    BY ONLY <2>3, <2>4 DEF Workers, Places, Answers
  <2>6. w'[q] \in Workers /\ w' = [w EXCEPT ![q] = w'[q]]
    BY ONLY <2>2, <2>4, <2>5
  <2>7. /\ w'[q].pc = "called" /\ w'[q].claim = w[q].claim /\ (w'[q].own <=> w[q].own)
        /\ (w'[q].outputs <=> w[q].outputs)
        /\ (w'[q].close <=> w[q].close) /\ (w'[q].acked <=> w[q].acked) /\ w'[q].says = w[q].says
    BY <1>t, <2>1 DEF Workers
  <2> QED BY <2>6, <2>7
<1>3. PICK g \in Fins :
       /\ fin' = [fin EXCEPT ![q] = g]
       /\ g.pc = "acquire" /\ g.op = opOf[q] /\ g.claim = w[q].claim
       /\ g.tok = None /\ g.says = None
  <2>1. fin' = [fin EXCEPT ![q] = [NoFin EXCEPT !.pc = "acquire", !.op = opOf[q], !.claim = w[q].claim]]
    BY DEF CallFinalize
  <2> HIDE DEF StockInv
  <2>2. PICK o \in Op, c \in 1 .. MaxClaims : o = opOf[q] /\ c = w[q].claim
    BY <1>1
  <2>3. PICK g : g = [NoFin EXCEPT !.pc = "acquire", !.op = o, !.claim = c]
    OBVIOUS
  <2>4. g \in Fins /\ g.pc = "acquire" /\ g.op = o /\ g.claim = c /\ g.tok = None /\ g.says = None
    <3>1. c \in 0 .. MaxClaims
      BY StockAssumption
    <3>2. g \in Fins
      BY <2>3, <3>1, NoFinOK DEF Fins
    <3> QED BY <2>3, <3>2, NoFinOK DEF Fins
  <2>5. fin' = [fin EXCEPT ![q] = g]
    BY <2>1, <2>2, <2>3, Zenon
  <2> QED BY <2>2, <2>4, <2>5
<1>4. PICK e \in Ops :
       /\ op' = [op EXCEPT ![opOf[q]] = e]
       /\ e.st = "ready" /\ e.claim = op[opOf[q]].claim /\ e.lease = op[opOf[q]].lease /\ e.pend
       /\ (e.plan <=> op[opOf[q]].plan) /\ (e.retry <=> op[opOf[q]].retry)
  <2>1. op' = [op EXCEPT ![opOf[q]].st = "ready", ![opOf[q]].pend = TRUE]
    BY DEF CallFinalize, Owned
  <2>2. op \in [Op -> Ops] /\ opOf[q] \in Op
    BY <1>t, <1>1
  <2>3. PICK d, f : d = op[opOf[q]] /\ f = [d EXCEPT !.st = "ready", !.pend = TRUE]
    BY Zenon
  <2>4. d \in Ops /\ op' = [op EXCEPT ![opOf[q]] = f]
    BY ONLY <2>1, <2>2, <2>3
  <2>5. f \in Ops
    BY ONLY <2>3, <2>4 DEF Ops, Terminal
  <2>6. op'[opOf[q]] \in Ops /\ op' = [op EXCEPT ![opOf[q]] = op'[opOf[q]]]
    BY ONLY <2>2, <2>4, <2>5
  <2>7. /\ op'[opOf[q]].st = "ready" /\ op'[opOf[q]].claim = op[opOf[q]].claim
        /\ op'[opOf[q]].lease = op[opOf[q]].lease /\ op'[opOf[q]].pend
        /\ (op'[opOf[q]].plan <=> op[opOf[q]].plan) /\ (op'[opOf[q]].retry <=> op[opOf[q]].retry)
    BY <1>t, <1>1, <2>1 DEF Ops
  <2> QED BY <2>6, <2>7
<1>5. alarm' = TRUE
  BY DEF CallFinalize, Owned
<1>6. w[q].own /\ \A b \in Request : w[b].own /\ opOf[b] = opOf[q] /\ w[b].claim = w[q].claim => b = q
  BY <1>1 DEF DismissedOK, OwnersOK
<1>7. StoreTypes'
  BY <1>t, <1>1, <1>2, <1>3, <1>4, <1>5, <1>6, <1>u DEF StoreTypes
<1>8. ActorTypes'
  BY <1>t, <1>1, <1>2, <1>3, <1>4, <1>5, <1>6, <1>u DEF ActorTypes
<1>9. RecordsOK'
  BY <1>t, <1>1, <1>2, <1>3, <1>4, <1>5, <1>6, <1>u DEF RecordsOK
<1>10. WorkersOK'
  BY <1>t, <1>1, <1>2, <1>3, <1>4, <1>5, <1>6, <1>u DEF WorkersOK, Outside, Stock
<1>11. OwnersOK'
  BY <1>t, <1>1, <1>2, <1>3, <1>4, <1>5, <1>6, <1>u DEF OwnersOK, WorkersOK, Outside, Stock
<1>12. TokensOK'
  BY <1>t, <1>1, <1>2, <1>3, <1>4, <1>5, <1>6, <1>u DEF TokensOK, Used, Stock, WorkersOK, Outside
<1>13. FinsOK'
  BY <1>t, <1>1, <1>2, <1>3, <1>4, <1>5, <1>6, <1>u DEF FinsOK, Claimed, Owned, Token
<1>14. LaneOK'
  BY <1>t, <1>1, <1>2, <1>3, <1>4, <1>5, <1>6, <1>u DEF LaneOK, Ready, Claimed, Owned, Valid,
     FinsOK, Token
<1>15. LandedOK'
  BY <1>t, <1>1, <1>2, <1>3, <1>4, <1>5, <1>6, <1>u DEF LandedOK
<1>16. AnswersOK'
  BY <1>t, <1>1, <1>2, <1>3, <1>4, <1>5, <1>6, <1>u DEF AnswersOK, Served, Over, Terminal
<1>17. WalOK'
  BY <1>t, <1>1, <1>2, <1>3, <1>4, <1>5, <1>6, <1>u DEF WalOK, Claimed, Owned, Valid, Runs,
     RecordsOK
<1>18. RowsOK'
  BY <1>t, <1>1, <1>2, <1>3, <1>4, <1>5, <1>6, <1>u DEF RowsOK, RecordsOK, WalOK, Claimed, Owned,
     Valid, Runs
<1>19. DismissedOK'
  <2>1. DismissedOK /\ WorkersOK
    OBVIOUS
  <2> HIDE DEF StockInv
  <2> QED BY <2>1, <1>t, <1>2, <1>3, <1>4, <1>6, <1>u DEF DismissedOK, Unserved, Past, Over, Mine,
     Runs, WorkersOK, Stock
<1>20. StoredOK'
  BY <1>t, <1>1, <1>2, <1>3, <1>4, <1>5, <1>6, <1>u DEF StoredOK, Mine
<1>21. TidyOK'
  BY <1>t, <1>1, <1>2, <1>3, <1>4, <1>5, <1>6, <1>u DEF TidyOK, Tidy, Served, Terminal
<1>22. TasksOK'
  BY <1>t, <1>1, <1>2, <1>3, <1>4, <1>5, <1>6, <1>u DEF TasksOK, Past, Over, Tidy, Served, Terminal
<1>23. LedgerOK'
  BY <1>t, <1>1, <1>2, <1>3, <1>4, <1>5, <1>6, <1>u DEF LedgerOK
<1>24. PoolOK'
  <2>1. Prepared' \subseteq Prepared
    BY <1>t, <1>1, <1>2, <1>3, <1>4, <1>5, <1>6, <1>u DEF Prepared
  <2>2. ActiveOps' \subseteq ActiveOps
    BY <1>t, <1>1, <1>2, <1>3, <1>4, <1>5, <1>6, <1>u DEF ActiveOps
  <2> QED BY <2>1, <2>2, <1>u, PoolShrinks DEF InputTypes
<1>25. PromotionExclusive'
  BY <1>t, <1>1, <1>2, <1>3, <1>4, <1>5, <1>6, <1>u DEF PromotionExclusive, Prepared, ActiveOps,
     WorkersOK, Outside, Stock
<1>26. InputTypes'
  BY <1>u, InputTypesFrame
<1> QED BY <1>7, <1>8, <1>9, <1>10, <1>11, <1>12, <1>13, <1>14, <1>15, <1>16, <1>17, <1>18, <1>19,
   <1>20, <1>21, <1>22, <1>23, <1>24, <1>25, <1>26

\* ... and nothing does for one that is over.
LEMMA CallFinalizeLateStep ==
  ASSUME StockInv, NEW q \in Request, CallFinalize(q),
         ~(op[opOf[q]].st = "processing" /\ op[opOf[q]].claim = w[q].claim)
  PROVE  StockInv'
<1> USE DEF StockInv
<1>t. /\ None \notin Request \cup {"busy", "conflict", "cleanup", "rejected", "replayed", "pending"}
      /\ op \in [Op -> Ops] /\ w \in [Request -> Workers] /\ fin \in [Runs -> Fins]
      /\ (\A p \in Op : op[p].claim \in Nat /\ issued[p] \in Nat)
      /\ (\A b \in Request : w[b].claim \in Nat) /\ (\A y \in Runs : fin[y].claim \in Nat)
  BY FieldTypes DEF InputTypes, StoreTypes, ActorTypes
<1>u. UNCHANGED <<opOf, refOf, expect, refOnly, pool, retained, op, ledger, refs, version, seq, row,
   rlease, prep, please, reclease, intent, alarm, bucket, queued, task, issued, landed, moved, last,
   late, forgotten, faults, edits>>
  BY DEF CallFinalize, Owned, inputs, leases, history
<1>1. /\ w[q].pc = "finalize" /\ fin[q] = NoFin /\ Stock(q) /\ opOf[q] \in Op /\ w[q].says = None
      /\ ~w[q].outputs
      /\ q \in Runs /\ q # Alarm /\ w[q].claim \in 1 .. MaxClaims /\ w[q].claim <= issued[opOf[q]]
  BY <1>t, StockAssumption DEF CallFinalize, Stock, WorkersOK, AnswersOK, Outside, Runs, Workers
<1>2. PICK r \in Workers :
       /\ w' = [w EXCEPT ![q] = r]
       /\ r.pc = "called" /\ r.claim = w[q].claim /\ (r.own <=> w[q].own)
       /\ (r.outputs <=> w[q].outputs)
       /\ (r.close <=> w[q].close) /\ (r.acked <=> w[q].acked) /\ r.says = w[q].says
  <2>1. w' = [w EXCEPT ![q].pc = "called"]
    BY DEF CallFinalize, Worker
  <2>2. w \in [Request -> Workers] /\ q \in Request
    BY <1>t
  <2>3. PICK d, f : d = w[q] /\ f = [d EXCEPT !.pc = "called"]
    OBVIOUS
  <2>4. d \in Workers /\ w' = [w EXCEPT ![q] = f]
    BY ONLY <2>1, <2>2, <2>3
  <2>5. f \in Workers
    BY ONLY <2>3, <2>4 DEF Workers, Places, Answers
  <2>6. w'[q] \in Workers /\ w' = [w EXCEPT ![q] = w'[q]]
    BY ONLY <2>2, <2>4, <2>5
  <2>7. /\ w'[q].pc = "called" /\ w'[q].claim = w[q].claim /\ (w'[q].own <=> w[q].own)
        /\ (w'[q].outputs <=> w[q].outputs)
        /\ (w'[q].close <=> w[q].close) /\ (w'[q].acked <=> w[q].acked) /\ w'[q].says = w[q].says
    BY <1>t, <2>1 DEF Workers
  <2> QED BY <2>6, <2>7
<1>3. PICK g \in Fins :
       /\ fin' = [fin EXCEPT ![q] = g]
       /\ g.pc = "acquire" /\ g.op = opOf[q] /\ g.claim = w[q].claim
       /\ g.tok = None /\ g.says = None
  <2>1. fin' = [fin EXCEPT ![q] = [NoFin EXCEPT !.pc = "acquire", !.op = opOf[q], !.claim = w[q].claim]]
    BY DEF CallFinalize
  <2> HIDE DEF StockInv
  <2>2. PICK o \in Op, c \in 1 .. MaxClaims : o = opOf[q] /\ c = w[q].claim
    BY <1>1
  <2>3. PICK g : g = [NoFin EXCEPT !.pc = "acquire", !.op = o, !.claim = c]
    OBVIOUS
  <2>4. g \in Fins /\ g.pc = "acquire" /\ g.op = o /\ g.claim = c /\ g.tok = None /\ g.says = None
    <3>1. c \in 0 .. MaxClaims
      BY StockAssumption
    <3>2. g \in Fins
      BY <2>3, <3>1, NoFinOK DEF Fins
    <3> QED BY <2>3, <3>2, NoFinOK DEF Fins
  <2>5. fin' = [fin EXCEPT ![q] = g]
    BY <2>1, <2>2, <2>3, Zenon
  <2> QED BY <2>2, <2>4, <2>5
<1>4. ActorTypes'
  BY <1>t, <1>1, <1>2, <1>3, <1>u DEF ActorTypes
<1>5. WorkersOK'
  BY <1>t, <1>1, <1>2, <1>3, <1>u DEF WorkersOK, Outside, Stock
<1>6. OwnersOK'
  BY <1>t, <1>1, <1>2, <1>3, <1>u DEF OwnersOK, WorkersOK, Outside, Stock
<1>7. TokensOK'
  BY <1>t, <1>1, <1>2, <1>3, <1>u DEF TokensOK, Used, Stock, WorkersOK, Outside
<1>8. FinsOK'
  BY <1>t, <1>1, <1>2, <1>3, <1>u DEF FinsOK, Claimed, Owned, Token
<1>9. LaneOK'
  BY <1>t, <1>1, <1>2, <1>3, <1>u DEF LaneOK, Ready, Claimed, Owned, Valid, FinsOK, Token
<1>10. AnswersOK'
  BY <1>t, <1>1, <1>2, <1>3, <1>u DEF AnswersOK, Served, Over, Terminal
<1>11. WalOK'
  BY <1>t, <1>1, <1>2, <1>3, <1>u DEF WalOK, Claimed, Owned, Valid, Runs, RecordsOK
<1>12. DismissedOK'
  <2>1. DismissedOK
    OBVIOUS
  <2> HIDE DEF StockInv
  <2> QED BY <2>1, <1>t, <1>2, <1>3, <1>u DEF DismissedOK, Unserved, Past, Over, Mine, Runs
<1>13. StoredOK'
  BY <1>t, <1>1, <1>2, <1>3, <1>u DEF StoredOK, Mine
<1>14. TidyOK'
  BY <1>t, <1>1, <1>2, <1>3, <1>u DEF TidyOK, Tidy, Served, Terminal
<1>15. PromotionExclusive'
  BY <1>t, <1>1, <1>2, <1>3, <1>u DEF PromotionExclusive, Prepared, ActiveOps, WorkersOK, Outside,
     Stock
<1>16. InputTypes' /\ StoreTypes' /\ RecordsOK' /\ LandedOK' /\ RowsOK' /\ TasksOK' /\ LedgerOK' /\
   PoolOK'
  BY <1>u, InputTypesFrame, StoreTypesFrame, RecordsOKFrame, LandedOKFrame, RowsOKFrame,
     TasksOKFrame, LedgerOKFrame, PoolOKFrame
<1> QED BY <1>4, <1>5, <1>6, <1>7, <1>8, <1>9, <1>10, <1>11, <1>12, <1>13, <1>14, <1>15, <1>16

\* The answer is "busy".
LEMMA HandleAnswerBusyStep ==
  ASSUME StockInv, NEW q \in Request, HandleAnswer(q), w[q].says = "busy"
  PROVE  StockInv'
<1> USE DEF StockInv
<1>t. /\ None \notin Request \cup {"busy", "conflict", "cleanup", "rejected", "replayed", "pending"}
      /\ op \in [Op -> Ops] /\ w \in [Request -> Workers] /\ fin \in [Runs -> Fins]
      /\ (\A p \in Op : op[p].claim \in Nat /\ issued[p] \in Nat)
      /\ (\A b \in Request : w[b].claim \in Nat) /\ (\A y \in Runs : fin[y].claim \in Nat)
  BY FieldTypes DEF InputTypes, StoreTypes, ActorTypes
<1>u. UNCHANGED <<opOf, refOf, expect, refOnly, pool, retained, op, ledger, refs, version, seq, row,
   rlease, prep, please, reclease, intent, alarm, fin, bucket, queued, task, issued, landed, moved,
   last, late, forgotten, faults, edits>>
  BY DEF HandleAnswer, inputs, leases, history
<1>1. /\ w[q].pc = "refused" /\ Stock(q) /\ opOf[q] \in Op /\ ~w[q].outputs
      /\ w[q].claim \in 1 .. MaxClaims
      /\ ~(op[opOf[q]].claim = w[q].claim /\ op[opOf[q]].st = "processing")
  BY <1>t DEF HandleAnswer, Stock, WorkersOK, Outside, Workers, DismissedOK
<1>2. PICK r \in Workers :
       /\ w' = [w EXCEPT ![q] = r]
       /\ r.pc = "finalize" /\ r.claim = w[q].claim /\ (r.own <=> w[q].own)
       /\ (r.outputs <=> w[q].outputs)
       /\ (r.close <=> w[q].close) /\ (r.acked <=> w[q].acked) /\ r.says = None
  <2>1. w' = [w EXCEPT ![q].pc = "finalize", ![q].says = None]
    BY DEF HandleAnswer
  <2>2. w \in [Request -> Workers] /\ q \in Request
    BY <1>t
  <2>3. PICK d, f : d = w[q] /\ f = [d EXCEPT !.pc = "finalize", !.says = None]
    BY Zenon
  <2>4. d \in Workers /\ w' = [w EXCEPT ![q] = f]
    BY ONLY <2>1, <2>2, <2>3
  <2>5. f \in Workers
    BY ONLY <2>3, <2>4 DEF Workers, Places, Answers
  <2>6. w'[q] \in Workers /\ w' = [w EXCEPT ![q] = w'[q]]
    BY ONLY <2>2, <2>4, <2>5
  <2>7. /\ w'[q].pc = "finalize" /\ w'[q].claim = w[q].claim /\ (w'[q].own <=> w[q].own)
        /\ (w'[q].outputs <=> w[q].outputs)
        /\ (w'[q].close <=> w[q].close) /\ (w'[q].acked <=> w[q].acked) /\ w'[q].says = None
    BY <1>t, <2>1 DEF Workers
  <2> QED BY <2>6, <2>7
<1>3. ActorTypes'
  BY <1>t, <1>1, <1>2, <1>u DEF ActorTypes
<1>4. WorkersOK'
  BY <1>t, <1>1, <1>2, <1>u DEF WorkersOK, Outside, Stock
<1>5. OwnersOK'
  BY <1>t, <1>1, <1>2, <1>u DEF OwnersOK, WorkersOK, Outside, Stock
<1>6. TokensOK'
  BY <1>t, <1>1, <1>2, <1>u DEF TokensOK, Used, Stock, WorkersOK, Outside
<1>7. FinsOK'
  BY <1>t, <1>1, <1>2, <1>u DEF FinsOK, Claimed, Owned, Token
<1>8. AnswersOK'
  BY <1>t, <1>1, <1>2, <1>u DEF AnswersOK, Served, Over, Terminal
<1>9. DismissedOK'
  BY <1>t, <1>1, <1>2, <1>u DEF DismissedOK, Unserved, Past, Over, Mine, Terminal, Runs, WorkersOK,
     Outside, Stock
<1>10. StoredOK'
  BY <1>t, <1>1, <1>2, <1>u DEF StoredOK, Mine
<1>11. TidyOK'
  BY <1>t, <1>1, <1>2, <1>u DEF TidyOK, Tidy, Served, Terminal
<1>12. PromotionExclusive'
  BY <1>t, <1>1, <1>2, <1>u DEF PromotionExclusive, Prepared, ActiveOps, WorkersOK, Outside, Stock
<1>13. InputTypes' /\ StoreTypes' /\ RecordsOK' /\ LaneOK' /\ LandedOK' /\ WalOK' /\ RowsOK' /\
   TasksOK' /\ LedgerOK' /\ PoolOK'
  BY <1>u, InputTypesFrame, StoreTypesFrame, RecordsOKFrame, LaneOKFrame, LandedOKFrame, WalOKFrame,
     RowsOKFrame, TasksOKFrame, LedgerOKFrame, PoolOKFrame
<1> QED BY <1>3, <1>4, <1>5, <1>6, <1>7, <1>8, <1>9, <1>10, <1>11, <1>12, <1>13

\* The answer is "pending".
LEMMA HandleAnswerPendingStep ==
  ASSUME StockInv, NEW q \in Request, HandleAnswer(q), w[q].says = "pending"
  PROVE  StockInv'
<1> USE DEF StockInv
<1>t. /\ None \notin Request \cup {"busy", "conflict", "cleanup", "rejected", "replayed", "pending"}
      /\ op \in [Op -> Ops] /\ w \in [Request -> Workers] /\ fin \in [Runs -> Fins]
      /\ (\A p \in Op : op[p].claim \in Nat /\ issued[p] \in Nat)
      /\ (\A b \in Request : w[b].claim \in Nat) /\ (\A y \in Runs : fin[y].claim \in Nat)
  BY FieldTypes DEF InputTypes, StoreTypes, ActorTypes
<1>u. UNCHANGED <<opOf, refOf, expect, refOnly, pool, retained, op, ledger, refs, version, seq, row,
   rlease, prep, please, reclease, intent, alarm, fin, bucket, queued, task, issued, landed, moved,
   last, late, forgotten, faults, edits>>
  BY DEF HandleAnswer, inputs, leases, history
<1>1. /\ w[q].pc = "refused" /\ Stock(q) /\ opOf[q] \in Op /\ ~w[q].outputs
      /\ w[q].claim \in 1 .. MaxClaims
      /\ ~(op[opOf[q]].claim = w[q].claim /\ op[opOf[q]].st = "processing")
  BY <1>t DEF HandleAnswer, Stock, WorkersOK, Outside, Workers, DismissedOK
<1>2. PICK r \in Workers :
       /\ w' = [w EXCEPT ![q] = r]
       /\ r.pc = "publish" /\ r.claim = w[q].claim /\ (r.own <=> w[q].own)
       /\ (r.outputs <=> w[q].outputs)
       /\ (r.close <=> w[q].close) /\ (r.acked <=> w[q].acked) /\ r.says = None
  <2>1. w' = [w EXCEPT ![q].pc = "publish", ![q].says = None]
    BY DEF HandleAnswer
  <2>2. w \in [Request -> Workers] /\ q \in Request
    BY <1>t
  <2>3. PICK d, f : d = w[q] /\ f = [d EXCEPT !.pc = "publish", !.says = None]
    BY Zenon
  <2>4. d \in Workers /\ w' = [w EXCEPT ![q] = f]
    BY ONLY <2>1, <2>2, <2>3
  <2>5. f \in Workers
    BY ONLY <2>3, <2>4 DEF Workers, Places, Answers
  <2>6. w'[q] \in Workers /\ w' = [w EXCEPT ![q] = w'[q]]
    BY ONLY <2>2, <2>4, <2>5
  <2>7. /\ w'[q].pc = "publish" /\ w'[q].claim = w[q].claim /\ (w'[q].own <=> w[q].own)
        /\ (w'[q].outputs <=> w[q].outputs)
        /\ (w'[q].close <=> w[q].close) /\ (w'[q].acked <=> w[q].acked) /\ w'[q].says = None
    BY <1>t, <2>1 DEF Workers
  <2> QED BY <2>6, <2>7
<1>3. ActorTypes'
  BY <1>t, <1>1, <1>2, <1>u DEF ActorTypes
<1>4. WorkersOK'
  BY <1>t, <1>1, <1>2, <1>u DEF WorkersOK, Outside, Stock
<1>5. OwnersOK'
  BY <1>t, <1>1, <1>2, <1>u DEF OwnersOK, WorkersOK, Outside, Stock
<1>6. TokensOK'
  BY <1>t, <1>1, <1>2, <1>u DEF TokensOK, Used, Stock, WorkersOK, Outside
<1>7. FinsOK'
  BY <1>t, <1>1, <1>2, <1>u DEF FinsOK, Claimed, Owned, Token
<1>8. AnswersOK'
  BY <1>t, <1>1, <1>2, <1>u DEF AnswersOK, Served, Over, Terminal
<1>9. DismissedOK'
  BY <1>t, <1>1, <1>2, <1>u DEF DismissedOK, Unserved, Past, Over, Mine, Terminal, Runs, WorkersOK,
     Outside, Stock
<1>10. StoredOK'
  BY <1>t, <1>1, <1>2, <1>u DEF StoredOK, Mine
<1>11. TidyOK'
  BY <1>t, <1>1, <1>2, <1>u DEF TidyOK, Tidy, Served, Terminal
<1>12. PromotionExclusive'
  BY <1>t, <1>1, <1>2, <1>u DEF PromotionExclusive, Prepared, ActiveOps, WorkersOK, Outside, Stock
<1>13. InputTypes' /\ StoreTypes' /\ RecordsOK' /\ LaneOK' /\ LandedOK' /\ WalOK' /\ RowsOK' /\
   TasksOK' /\ LedgerOK' /\ PoolOK'
  BY <1>u, InputTypesFrame, StoreTypesFrame, RecordsOKFrame, LaneOKFrame, LandedOKFrame, WalOKFrame,
     RowsOKFrame, TasksOKFrame, LedgerOKFrame, PoolOKFrame
<1> QED BY <1>3, <1>4, <1>5, <1>6, <1>7, <1>8, <1>9, <1>10, <1>11, <1>12, <1>13

\* The answer is "replayed".
LEMMA HandleAnswerReplayedStep ==
  ASSUME StockInv, NEW q \in Request, HandleAnswer(q), w[q].says = "replayed"
  PROVE  StockInv'
<1> USE DEF StockInv
<1>t. /\ None \notin Request \cup {"busy", "conflict", "cleanup", "rejected", "replayed", "pending"}
      /\ op \in [Op -> Ops] /\ w \in [Request -> Workers] /\ fin \in [Runs -> Fins]
      /\ (\A p \in Op : op[p].claim \in Nat /\ issued[p] \in Nat)
      /\ (\A b \in Request : w[b].claim \in Nat) /\ (\A y \in Runs : fin[y].claim \in Nat)
  BY FieldTypes DEF InputTypes, StoreTypes, ActorTypes
<1>u. UNCHANGED <<opOf, refOf, expect, refOnly, pool, retained, op, ledger, refs, version, seq, row,
   rlease, prep, please, intent, alarm, fin, bucket, queued, task, issued, landed, moved, last,
   late, forgotten, faults, edits>>
  BY DEF HandleAnswer, inputs, leases, history
<1>1. /\ w[q].pc = "refused" /\ Stock(q) /\ opOf[q] \in Op /\ ~w[q].outputs
      /\ w[q].claim \in 1 .. MaxClaims
      /\ ~(op[opOf[q]].claim = w[q].claim /\ op[opOf[q]].st = "processing")
  BY <1>t DEF HandleAnswer, Stock, WorkersOK, Outside, Workers, DismissedOK
<1>2. PICK r \in Workers :
       /\ w' = [w EXCEPT ![q] = r]
       /\ r.pc = "erase" /\ r.claim = w[q].claim /\ (r.own <=> w[q].own) /\ (r.outputs <=> w[q].outputs)
       /\ r.close /\ r.acked /\ r.says = None
  <2>1. w' = [w EXCEPT ![q].pc = "erase", ![q].close = TRUE, ![q].acked = TRUE, ![q].says = None]
    BY DEF HandleAnswer
  <2>2. w \in [Request -> Workers] /\ q \in Request
    BY <1>t
  <2>3. PICK d, f : d = w[q] /\ f = [d EXCEPT !.pc = "erase", !.close = TRUE, !.acked = TRUE, !.says = None]
    BY Zenon
  <2>4. d \in Workers /\ w' = [w EXCEPT ![q] = f]
    BY ONLY <2>1, <2>2, <2>3
  <2>5. f \in Workers
    BY ONLY <2>3, <2>4 DEF Workers, Places, Answers
  <2>6. w'[q] \in Workers /\ w' = [w EXCEPT ![q] = w'[q]]
    BY ONLY <2>2, <2>4, <2>5
  <2>7. /\ w'[q].pc = "erase" /\ w'[q].claim = w[q].claim /\ (w'[q].own <=> w[q].own)
        /\ (w'[q].outputs <=> w[q].outputs)
        /\ w'[q].close /\ w'[q].acked /\ w'[q].says = None
    BY <1>t, <2>1 DEF Workers
  <2> QED BY <2>6, <2>7
<1>3. reclease' \in RecoveryLeases
  BY RecoveredOK DEF HandleAnswer, StoreTypes
<1>4. StoreTypes'
  BY <1>t, <1>1, <1>2, <1>3, <1>u DEF StoreTypes
<1>5. ActorTypes'
  BY <1>t, <1>1, <1>2, <1>3, <1>u DEF ActorTypes
<1>6. WorkersOK'
  BY <1>t, <1>1, <1>2, <1>3, <1>u DEF WorkersOK, Outside, Stock
<1>7. OwnersOK'
  BY <1>t, <1>1, <1>2, <1>3, <1>u DEF OwnersOK, WorkersOK, Outside, Stock
<1>8. TokensOK'
  BY <1>t, <1>1, <1>2, <1>3, <1>u DEF TokensOK, Used, Stock, WorkersOK, Outside
<1>9. FinsOK'
  BY <1>t, <1>1, <1>2, <1>3, <1>u DEF FinsOK, Claimed, Owned, Token
<1>10. AnswersOK'
  BY <1>t, <1>1, <1>2, <1>3, <1>u DEF AnswersOK, Served, Over, Terminal
<1>11. DismissedOK'
  <2>1. DismissedOK /\ WorkersOK /\ AnswersOK
    OBVIOUS
  <2> HIDE DEF StockInv
  <2> QED BY <2>1, <1>t, <1>2, <1>u DEF DismissedOK, Unserved, Past, Over, Mine, WorkersOK,
     AnswersOK
<1>12. StoredOK'
  BY <1>t, <1>1, <1>2, <1>3, <1>u DEF StoredOK, Mine
<1>13. TidyOK'
  BY <1>t, <1>1, <1>2, <1>3, <1>u DEF TidyOK, Tidy, Served, Terminal, AnswersOK, Over
<1>14. PromotionExclusive'
  BY <1>t, <1>1, <1>2, <1>3, <1>u DEF PromotionExclusive, Prepared, ActiveOps, WorkersOK, Outside,
     Stock
<1>15. InputTypes' /\ RecordsOK' /\ LaneOK' /\ LandedOK' /\ WalOK' /\ RowsOK' /\ TasksOK' /\
   LedgerOK' /\ PoolOK'
  BY <1>u, InputTypesFrame, RecordsOKFrame, LaneOKFrame, LandedOKFrame, WalOKFrame, RowsOKFrame,
     TasksOKFrame, LedgerOKFrame, PoolOKFrame
<1> QED BY <1>4, <1>5, <1>6, <1>7, <1>8, <1>9, <1>10, <1>11, <1>12, <1>13, <1>14, <1>15

\* The operation was refused or given up.
LEMMA HandleAnswerDismissedStep ==
  ASSUME StockInv, NEW q \in Request, HandleAnswer(q),
         w[q].says \in {"conflict", "cleanup", "rejected"}
  PROVE  StockInv'
<1> USE DEF StockInv
<1>t. /\ None \notin Request \cup {"busy", "conflict", "cleanup", "rejected", "replayed", "pending"}
      /\ op \in [Op -> Ops] /\ w \in [Request -> Workers] /\ fin \in [Runs -> Fins]
      /\ (\A p \in Op : op[p].claim \in Nat /\ issued[p] \in Nat)
      /\ (\A b \in Request : w[b].claim \in Nat) /\ (\A y \in Runs : fin[y].claim \in Nat)
  BY FieldTypes DEF InputTypes, StoreTypes, ActorTypes
<1>u. UNCHANGED <<opOf, refOf, expect, refOnly, pool, retained, op, ledger, refs, version, seq, row,
   rlease, prep, please, intent, alarm, fin, bucket, queued, task, issued, landed, moved, last,
   late, forgotten, faults, edits>>
  BY DEF HandleAnswer, RejectsClaim, Owned, DismissedOK, WorkersOK, Outside, inputs, leases, history
<1>1. /\ w[q].pc = "refused" /\ Stock(q) /\ opOf[q] \in Op /\ ~w[q].outputs
      /\ w[q].claim \in 1 .. MaxClaims
      /\ ~(op[opOf[q]].claim = w[q].claim /\ op[opOf[q]].st = "processing")
  BY <1>t DEF HandleAnswer, Stock, WorkersOK, Outside, Workers, DismissedOK
<1>2. PICK r \in Workers :
       /\ w' = [w EXCEPT ![q] = r]
       /\ r.pc = "erase" /\ r.claim = w[q].claim /\ (r.own <=> w[q].own)
       /\ (r.outputs <=> (w[q].own \/ w[q].says # "rejected"))
       /\ (r.close <=> w[q].says # "rejected") /\ (r.acked <=> w[q].acked) /\ r.says = None
  <2>1. w' = [w EXCEPT ![q].pc = "erase", ![q].close = w[q].says # "rejected",
                       ![q].outputs = w[q].own \/ w[q].says # "rejected", ![q].says = None]
    BY DEF HandleAnswer
  <2>2. w \in [Request -> Workers] /\ q \in Request
    BY <1>t
  <2>3. PICK d, f : d = w[q] /\ f = [d EXCEPT !.pc = "erase", !.close = w[q].says # "rejected",
                       !.outputs = w[q].own \/ w[q].says # "rejected", !.says = None]
    BY Zenon
  <2>4. d \in Workers /\ w' = [w EXCEPT ![q] = f]
    BY ONLY <2>1, <2>2, <2>3
  <2>5. f \in Workers
    <3>1. (w[q].says # "rejected") \in BOOLEAN /\ (w[q].own \/ w[q].says # "rejected") \in BOOLEAN
      BY <1>t, <2>1
    <3> QED BY ONLY <2>3, <2>4, <3>1, ZenonT(40) DEF Workers, Places, Answers
  <2>6. w'[q] \in Workers /\ w' = [w EXCEPT ![q] = w'[q]]
    BY ONLY <2>2, <2>4, <2>5
  <2>7. /\ w'[q].pc = "erase" /\ w'[q].claim = w[q].claim /\ (w'[q].own <=> w[q].own)
        /\ (w'[q].outputs <=> (w[q].own \/ w[q].says # "rejected"))
        /\ (w'[q].close <=> w[q].says # "rejected") /\ (w'[q].acked <=> w[q].acked) /\ w'[q].says = None
    BY <1>t, <2>1 DEF Workers
  <2> QED BY <2>6, <2>7
<1>3. reclease' \in RecoveryLeases
  BY RecoveredOK DEF HandleAnswer, StoreTypes
<1>4. StoreTypes'
  BY <1>t, <1>1, <1>2, <1>3, <1>u DEF StoreTypes
<1>5. ActorTypes'
  BY <1>t, <1>1, <1>2, <1>3, <1>u DEF ActorTypes
<1>6. WorkersOK'
  BY <1>t, <1>1, <1>2, <1>3, <1>u DEF WorkersOK, Outside, Stock
<1>7. OwnersOK'
  BY <1>t, <1>1, <1>2, <1>3, <1>u DEF OwnersOK, WorkersOK, Outside, Stock
<1>8. TokensOK'
  BY <1>t, <1>1, <1>2, <1>3, <1>u DEF TokensOK, Used, Stock, WorkersOK, Outside
<1>9. FinsOK'
  BY <1>t, <1>1, <1>2, <1>3, <1>u DEF FinsOK, Claimed, Owned, Token
<1>10. AnswersOK'
  BY <1>t, <1>1, <1>2, <1>3, <1>u DEF AnswersOK, Served, Over, Terminal
<1>11. DismissedOK'
  BY <1>t, <1>1, <1>2, <1>3, <1>u DEF DismissedOK, Unserved, Past, Over, Mine, Terminal, Runs,
     WorkersOK, Outside, Stock
<1>12. StoredOK'
  BY <1>t, <1>1, <1>2, <1>3, <1>u DEF StoredOK, Mine
<1>13. TidyOK'
  BY <1>t, <1>1, <1>2, <1>3, <1>u DEF TidyOK, Tidy, Served, Terminal
<1>14. PromotionExclusive'
  BY <1>t, <1>1, <1>2, <1>3, <1>u DEF PromotionExclusive, Prepared, ActiveOps, WorkersOK, Outside,
     Stock
<1>15. InputTypes' /\ RecordsOK' /\ LaneOK' /\ LandedOK' /\ WalOK' /\ RowsOK' /\ TasksOK' /\
   LedgerOK' /\ PoolOK'
  BY <1>u, InputTypesFrame, RecordsOKFrame, LaneOKFrame, LandedOKFrame, WalOKFrame, RowsOKFrame,
     TasksOKFrame, LedgerOKFrame, PoolOKFrame
<1> QED BY <1>4, <1>5, <1>6, <1>7, <1>8, <1>9, <1>10, <1>11, <1>12, <1>13, <1>14, <1>15

\* A publication is confirmed.
LEMMA ConfirmCommittedStep ==
  ASSUME StockInv, NEW q \in Request, Confirm(q), Confirmed(opOf[q], w[q].claim)
  PROVE  StockInv'
<1> USE DEF StockInv
<1>t. /\ None \notin Request \cup {"busy", "conflict", "cleanup", "rejected", "replayed", "pending"}
      /\ op \in [Op -> Ops] /\ w \in [Request -> Workers] /\ fin \in [Runs -> Fins]
      /\ (\A p \in Op : op[p].claim \in Nat /\ issued[p] \in Nat)
      /\ (\A b \in Request : w[b].claim \in Nat) /\ (\A y \in Runs : fin[y].claim \in Nat)
  BY FieldTypes DEF InputTypes, StoreTypes, ActorTypes
<1>u. UNCHANGED <<opOf, refOf, expect, refOnly, pool, retained, ledger, refs, version, seq, row,
   rlease, prep, please, intent, alarm, fin, bucket, queued, task, issued, landed, moved, last,
   late, forgotten, faults, edits>>
  BY DEF Confirm, inputs, leases, history
<1>1. /\ w[q].pc = "publish" /\ Stock(q) /\ opOf[q] \in Op
      /\ op[opOf[q]].st \in {"finalizing", "committed"}
      /\ op[opOf[q]].claim = w[q].claim
  BY DEF Confirm, Confirmed, Owned, WorkersOK, Outside, Stock
<1>2. PICK r \in Workers :
       /\ w' = [w EXCEPT ![q] = r]
       /\ r.pc = "done" /\ r.claim = 0 /\ ~r.own /\ ~r.outputs
       /\ ~r.close /\ (r.acked <=> Confirmed(opOf[q], w[q].claim)) /\ r.says = None
  <2>1. w' = [w EXCEPT ![q] = [NewWorker EXCEPT !.pc = "done", !.acked = Confirmed(opOf[q], w[q].claim)]]
    BY <1>t DEF Confirm, Confirmed, Owned, Leave
  <2>2. (Confirmed(opOf[q], w[q].claim)) \in BOOLEAN
    BY <1>t DEF Confirmed, Owned
  <2> HIDE DEF StockInv
  <2> QED BY <2>1, <2>2, LeftOK, Zenon
<1>3. PICK e \in Ops :
       /\ op' = [op EXCEPT ![opOf[q]] = e]
       /\ e.st = "committed" /\ e.claim = op[opOf[q]].claim /\ e.lease = op[opOf[q]].lease
       /\ (e.lapsed <=> op[opOf[q]].lapsed)
       /\ (e.pend <=> op[opOf[q]].pend) /\ (e.retry <=> op[opOf[q]].retry)
       /\ (e.plan <=> op[opOf[q]].plan)
  <2>1. op' = [op EXCEPT ![opOf[q]].st = "committed"]
    BY DEF Confirm, Commits
  <2>2. op \in [Op -> Ops] /\ opOf[q] \in Op
    BY <1>t, <1>1
  <2>3. PICK d, f : d = op[opOf[q]] /\ f = [d EXCEPT !.st = "committed"]
    OBVIOUS
  <2>4. d \in Ops /\ op' = [op EXCEPT ![opOf[q]] = f]
    BY ONLY <2>1, <2>2, <2>3
  <2>5. f \in Ops
    BY ONLY <2>3, <2>4 DEF Ops, Terminal
  <2>6. op'[opOf[q]] \in Ops /\ op' = [op EXCEPT ![opOf[q]] = op'[opOf[q]]]
    BY ONLY <2>2, <2>4, <2>5
  <2>7. /\ op'[opOf[q]].st = "committed" /\ op'[opOf[q]].claim = op[opOf[q]].claim
        /\ op'[opOf[q]].lease = op[opOf[q]].lease /\ (op'[opOf[q]].lapsed <=> op[opOf[q]].lapsed)
        /\ (op'[opOf[q]].pend <=> op[opOf[q]].pend) /\ (op'[opOf[q]].retry <=> op[opOf[q]].retry)
        /\ (op'[opOf[q]].plan <=> op[opOf[q]].plan)
    BY <1>t, <2>1, <1>1 DEF Ops
  <2> QED BY <2>6, <2>7
<1>4. opOf[q] \in moved
  BY <1>1 DEF LandedOK
<1>5. reclease' \in RecoveryLeases
  BY RecoveredOK DEF Confirm, StoreTypes
<1>6. StoreTypes'
  BY <1>t, <1>1, <1>2, <1>3, <1>4, <1>5, <1>u DEF StoreTypes
<1>7. ActorTypes'
  BY <1>t, <1>1, <1>2, <1>3, <1>4, <1>5, <1>u DEF ActorTypes
<1>8. RecordsOK'
  BY <1>t, <1>1, <1>2, <1>3, <1>4, <1>5, <1>u DEF RecordsOK
<1>9. WorkersOK'
  BY <1>t, <1>1, <1>2, <1>3, <1>4, <1>5, <1>u DEF WorkersOK, Outside, Stock
<1>10. OwnersOK'
  BY <1>t, <1>1, <1>2, <1>3, <1>4, <1>5, <1>u DEF OwnersOK, WorkersOK, Outside, Stock
<1>11. TokensOK'
  BY <1>t, <1>1, <1>2, <1>3, <1>4, <1>5, <1>u DEF TokensOK, Used, Stock, WorkersOK, Outside
<1>12. FinsOK'
  BY <1>t, <1>1, <1>2, <1>3, <1>4, <1>5, <1>u DEF FinsOK, Claimed, Owned, Token
<1>13. LaneOK'
  BY <1>t, <1>1, <1>2, <1>3, <1>4, <1>5, <1>u DEF LaneOK, Ready, Claimed, Owned, Valid, FinsOK,
     Token
<1>14. LandedOK'
  BY <1>t, <1>1, <1>2, <1>3, <1>4, <1>5, <1>u DEF LandedOK
<1>15. AnswersOK'
  BY <1>t, <1>1, <1>2, <1>3, <1>4, <1>5, <1>u DEF AnswersOK, Served, Over, Terminal
<1>16. WalOK'
  BY <1>t, <1>1, <1>2, <1>3, <1>4, <1>5, <1>u DEF WalOK, Claimed, Owned, Valid, Runs, RecordsOK
<1>17. RowsOK'
  BY <1>t, <1>1, <1>2, <1>3, <1>4, <1>5, <1>u DEF RowsOK, RecordsOK
<1>18. DismissedOK'
  <2>1. DismissedOK
    OBVIOUS
  <2> QED BY ONLY <2>1, <1>t, <1>1, <1>2, <1>3, <1>u DEF DismissedOK, Unserved, Past, Over, Mine,
     Terminal
<1>19. StoredOK'
  BY <1>t, <1>1, <1>2, <1>3, <1>4, <1>5, <1>u DEF StoredOK, Mine
<1>20. TidyOK'
  BY <1>t, <1>1, <1>2, <1>3, <1>4, <1>5, <1>u DEF TidyOK, Tidy, Served, Terminal, LandedOK
<1>21. TasksOK'
  BY <1>t, <1>1, <1>2, <1>3, <1>4, <1>5, <1>u DEF TasksOK, Past, Over, Tidy, Served, Terminal
<1>22. LedgerOK'
  BY <1>t, <1>1, <1>2, <1>3, <1>4, <1>5, <1>u DEF LedgerOK
<1>23. PoolOK'
  <2>1. Prepared' \subseteq Prepared
    BY <1>t, <1>1, <1>2, <1>3, <1>4, <1>5, <1>u DEF Prepared
  <2>2. ActiveOps' \subseteq ActiveOps
    BY <1>t, <1>1, <1>2, <1>3, <1>4, <1>5, <1>u DEF ActiveOps
  <2> QED BY <2>1, <2>2, <1>u, PoolShrinks DEF InputTypes
<1>24. PromotionExclusive'
  BY <1>t, <1>1, <1>2, <1>3, <1>4, <1>5, <1>u DEF PromotionExclusive, Prepared, ActiveOps,
     WorkersOK, Outside, Stock
<1>25. InputTypes'
  BY <1>u, InputTypesFrame
<1> QED BY <1>6, <1>7, <1>8, <1>9, <1>10, <1>11, <1>12, <1>13, <1>14, <1>15, <1>16, <1>17, <1>18,
   <1>19, <1>20, <1>21, <1>22, <1>23, <1>24, <1>25

\* ... or is not the record's any more.
LEMMA ConfirmRefusedStep ==
  ASSUME StockInv, NEW q \in Request, Confirm(q), ~Confirmed(opOf[q], w[q].claim)
  PROVE  StockInv'
<1> USE DEF StockInv
<1>t. /\ None \notin Request \cup {"busy", "conflict", "cleanup", "rejected", "replayed", "pending"}
      /\ op \in [Op -> Ops] /\ w \in [Request -> Workers] /\ fin \in [Runs -> Fins]
      /\ (\A p \in Op : op[p].claim \in Nat /\ issued[p] \in Nat)
      /\ (\A b \in Request : w[b].claim \in Nat) /\ (\A y \in Runs : fin[y].claim \in Nat)
  BY FieldTypes DEF InputTypes, StoreTypes, ActorTypes
<1>u. UNCHANGED <<opOf, refOf, expect, refOnly, pool, retained, op, ledger, refs, version, seq, row,
   rlease, prep, please, intent, alarm, fin, bucket, queued, task, issued, landed, moved, last,
   late, forgotten, faults, edits>>
  BY DEF Confirm, Commits, inputs, leases, history
<1>1. PICK r \in Workers :
       /\ w' = [w EXCEPT ![q] = r]
       /\ r.pc = "done" /\ r.claim = 0 /\ ~r.own /\ ~r.outputs
       /\ ~r.close /\ (r.acked <=> Confirmed(opOf[q], w[q].claim)) /\ r.says = None
  <2>1. w' = [w EXCEPT ![q] = [NewWorker EXCEPT !.pc = "done", !.acked = Confirmed(opOf[q], w[q].claim)]]
    BY <1>t DEF Confirm, Confirmed, Owned, Leave
  <2>2. (Confirmed(opOf[q], w[q].claim)) \in BOOLEAN
    BY <1>t DEF Confirmed, Owned
  <2> HIDE DEF StockInv
  <2> QED BY <2>1, <2>2, LeftOK, Zenon
<1>2. reclease' \in RecoveryLeases
  BY RecoveredOK DEF Confirm, StoreTypes
<1>3. StoreTypes'
  BY <1>t, <1>1, <1>2, <1>u DEF StoreTypes
<1>4. ActorTypes'
  BY <1>t, <1>1, <1>2, <1>u DEF ActorTypes
<1>5. WorkersOK'
  BY <1>t, <1>1, <1>2, <1>u DEF WorkersOK, Outside, Stock
<1>6. OwnersOK'
  BY <1>t, <1>1, <1>2, <1>u DEF OwnersOK, WorkersOK, Outside, Stock
<1>7. TokensOK'
  BY <1>t, <1>1, <1>2, <1>u DEF TokensOK, Used, Stock, WorkersOK, Outside
<1>8. FinsOK'
  BY <1>t, <1>1, <1>2, <1>u DEF FinsOK, Claimed, Owned, Token
<1>9. AnswersOK'
  BY <1>t, <1>1, <1>2, <1>u DEF AnswersOK, Served, Over, Terminal
<1>10. DismissedOK'
  BY <1>t, <1>1, <1>2, <1>u DEF DismissedOK, Unserved, Past, Over, Mine, Terminal, Runs, WorkersOK,
     Outside, Stock
<1>11. StoredOK'
  BY <1>t, <1>1, <1>2, <1>u DEF StoredOK, Mine
<1>12. TidyOK'
  BY <1>t, <1>1, <1>2, <1>u DEF TidyOK, Tidy, Served, Terminal
<1>13. PromotionExclusive'
  BY <1>t, <1>1, <1>2, <1>u DEF PromotionExclusive, Prepared, ActiveOps, WorkersOK, Outside, Stock
<1>14. InputTypes' /\ RecordsOK' /\ LaneOK' /\ LandedOK' /\ WalOK' /\ RowsOK' /\ TasksOK' /\
   LedgerOK' /\ PoolOK'
  BY <1>u, InputTypesFrame, RecordsOKFrame, LaneOKFrame, LandedOKFrame, WalOKFrame, RowsOKFrame,
     TasksOKFrame, LedgerOKFrame, PoolOKFrame
<1> QED BY <1>3, <1>4, <1>5, <1>6, <1>7, <1>8, <1>9, <1>10, <1>11, <1>12, <1>13, <1>14

\* The outputs of a claim that is over are deleted.
LEMMA EraseClosingStep ==
  ASSUME StockInv, NEW q \in Request, Erase(q), w[q].close
  PROVE  StockInv'
<1> USE DEF StockInv
<1>t. /\ None \notin Request \cup {"busy", "conflict", "cleanup", "rejected", "replayed", "pending"}
      /\ op \in [Op -> Ops] /\ w \in [Request -> Workers] /\ fin \in [Runs -> Fins]
      /\ (\A p \in Op : op[p].claim \in Nat /\ issued[p] \in Nat)
      /\ (\A b \in Request : w[b].claim \in Nat) /\ (\A y \in Runs : fin[y].claim \in Nat)
  BY FieldTypes DEF InputTypes, StoreTypes, ActorTypes
<1>u. UNCHANGED <<opOf, refOf, expect, refOnly, pool, retained, op, ledger, refs, version, seq, row,
   rlease, prep, please, reclease, intent, alarm, fin, queued, task, issued, landed, moved, last,
   late, forgotten, faults, edits>>
  BY DEF Erase, inputs, leases, history
<1>1. /\ w[q].pc = "erase" /\ Stock(q) /\ opOf[q] \in Op /\ w[q].claim \in 1 .. MaxClaims
      /\ w[q].says = None
  BY <1>t DEF Erase, Stock, WorkersOK, Outside, Workers, AnswersOK
<1>2. PICK r \in Workers :
       /\ w' = [w EXCEPT ![q] = r]
       /\ r.pc = "complete" /\ r.claim = w[q].claim /\ (r.own <=> w[q].own)
       /\ (r.outputs <=> w[q].outputs)
       /\ (r.close <=> w[q].close) /\ (r.acked <=> w[q].acked) /\ r.says = w[q].says
  <2>1. w' = [w EXCEPT ![q].pc = "complete"]
    BY DEF Erase, Worker
  <2>2. w \in [Request -> Workers] /\ q \in Request
    BY <1>t
  <2>3. PICK d, f : d = w[q] /\ f = [d EXCEPT !.pc = "complete"]
    OBVIOUS
  <2>4. d \in Workers /\ w' = [w EXCEPT ![q] = f]
    BY ONLY <2>1, <2>2, <2>3
  <2>5. f \in Workers
    BY ONLY <2>3, <2>4 DEF Workers, Places, Answers
  <2>6. w'[q] \in Workers /\ w' = [w EXCEPT ![q] = w'[q]]
    BY ONLY <2>2, <2>4, <2>5
  <2>7. /\ w'[q].pc = "complete" /\ w'[q].claim = w[q].claim /\ (w'[q].own <=> w[q].own)
        /\ (w'[q].outputs <=> w[q].outputs)
        /\ (w'[q].close <=> w[q].close) /\ (w'[q].acked <=> w[q].acked) /\ w'[q].says = w[q].says
    BY <1>t, <2>1 DEF Workers
  <2> QED BY <2>6, <2>7
<1>3. /\ bucket' \subseteq bucket /\ (w[q].outputs => Mine(q) \notin bucket')
      /\ \A k \in bucket : k # Mine(q) \/ ~w[q].outputs => k \in bucket'
  BY DEF Erase
<1>4. /\ Mine(q) = <<opOf[q], w[q].claim>>
      /\ w[q].outputs => Unserved(opOf[q], w[q].claim)
  BY <1>1 DEF Mine, DismissedOK
<1>5. ActorTypes'
  BY <1>t, <1>1, <1>2, <1>3, <1>4, <1>u DEF ActorTypes
<1>6. WorkersOK'
  BY <1>t, <1>1, <1>2, <1>3, <1>4, <1>u DEF WorkersOK, Outside, Stock
<1>7. OwnersOK'
  BY <1>t, <1>1, <1>2, <1>3, <1>4, <1>u DEF OwnersOK, WorkersOK, Outside, Stock
<1>8. TokensOK'
  BY <1>t, <1>1, <1>2, <1>3, <1>4, <1>u DEF TokensOK, Used, Stock, WorkersOK, Outside
<1>9. FinsOK'
  BY <1>t, <1>1, <1>2, <1>3, <1>4, <1>u DEF FinsOK, Claimed, Owned, Token
<1>10. AnswersOK'
  BY <1>t, <1>1, <1>2, <1>3, <1>4, <1>u DEF AnswersOK, Served, Over, Terminal
<1>11. DismissedOK'
  BY <1>t, <1>1, <1>2, <1>3, <1>4, <1>u DEF DismissedOK, Unserved, Past, Over, Mine, Terminal, Runs,
     WorkersOK, Outside, Stock
<1>12. StoredOK'
  BY <1>t, <1>1, <1>2, <1>3, <1>4, <1>u DEF StoredOK, Mine, DismissedOK, Unserved, Past, Over,
     Terminal, Runs, Key
<1>13. TidyOK'
  BY <1>t, <1>1, <1>2, <1>3, <1>4, <1>u DEF TidyOK, Tidy, Served, Terminal
<1>14. TasksOK'
  BY <1>t, <1>1, <1>2, <1>3, <1>4, <1>u DEF TasksOK, Past, Over, Tidy, Served, Terminal
<1>15. PromotionExclusive'
  BY <1>t, <1>1, <1>2, <1>3, <1>4, <1>u DEF PromotionExclusive, Prepared, ActiveOps, WorkersOK,
     Outside, Stock
<1>16. InputTypes' /\ StoreTypes' /\ RecordsOK' /\ LaneOK' /\ LandedOK' /\ WalOK' /\ RowsOK' /\
   LedgerOK' /\ PoolOK'
  BY <1>u, InputTypesFrame, StoreTypesFrame, RecordsOKFrame, LaneOKFrame, LandedOKFrame, WalOKFrame,
     RowsOKFrame, LedgerOKFrame, PoolOKFrame
<1> QED BY <1>5, <1>6, <1>7, <1>8, <1>9, <1>10, <1>11, <1>12, <1>13, <1>14, <1>15, <1>16

\* ... by an attempt that leaves then.
LEMMA EraseLeavingStep ==
  ASSUME StockInv, NEW q \in Request, Erase(q), ~w[q].close
  PROVE  StockInv'
<1> USE DEF StockInv
<1>t. /\ None \notin Request \cup {"busy", "conflict", "cleanup", "rejected", "replayed", "pending"}
      /\ op \in [Op -> Ops] /\ w \in [Request -> Workers] /\ fin \in [Runs -> Fins]
      /\ (\A p \in Op : op[p].claim \in Nat /\ issued[p] \in Nat)
      /\ (\A b \in Request : w[b].claim \in Nat) /\ (\A y \in Runs : fin[y].claim \in Nat)
  BY FieldTypes DEF InputTypes, StoreTypes, ActorTypes
<1>u. UNCHANGED <<opOf, refOf, expect, refOnly, pool, retained, op, ledger, refs, version, seq, row,
   rlease, prep, please, reclease, intent, alarm, fin, queued, task, issued, landed, moved, last,
   late, forgotten, faults, edits>>
  BY DEF Erase, inputs, leases, history
<1>1. /\ w[q].pc = "erase" /\ Stock(q) /\ opOf[q] \in Op /\ w[q].claim \in 1 .. MaxClaims
      /\ w[q].says = None
  BY <1>t DEF Erase, Stock, WorkersOK, Outside, Workers, AnswersOK
<1>2. PICK r \in Workers :
       /\ w' = [w EXCEPT ![q] = r]
       /\ r.pc = "done" /\ r.claim = 0 /\ ~r.own /\ ~r.outputs
       /\ ~r.close /\ (r.acked <=> w[q].acked) /\ r.says = None
  <2>1. w' = [w EXCEPT ![q] = [NewWorker EXCEPT !.pc = "done", !.acked = w[q].acked]]
    BY <1>t DEF Erase, Leave
  <2>2. (w[q].acked) \in BOOLEAN
    BY <1>t DEF Workers
  <2> HIDE DEF StockInv
  <2> QED BY <2>1, <2>2, LeftOK, Zenon
<1>3. /\ bucket' \subseteq bucket /\ (w[q].outputs => Mine(q) \notin bucket')
      /\ \A k \in bucket : k # Mine(q) \/ ~w[q].outputs => k \in bucket'
  BY DEF Erase
<1>4. /\ Mine(q) = <<opOf[q], w[q].claim>>
      /\ w[q].outputs => Unserved(opOf[q], w[q].claim)
  BY <1>1 DEF Mine, DismissedOK
<1>5. ActorTypes'
  BY <1>t, <1>1, <1>2, <1>3, <1>4, <1>u DEF ActorTypes
<1>6. WorkersOK'
  BY <1>t, <1>1, <1>2, <1>3, <1>4, <1>u DEF WorkersOK, Outside, Stock
<1>7. OwnersOK'
  BY <1>t, <1>1, <1>2, <1>3, <1>4, <1>u DEF OwnersOK, WorkersOK, Outside, Stock
<1>8. TokensOK'
  BY <1>t, <1>1, <1>2, <1>3, <1>4, <1>u DEF TokensOK, Used, Stock, WorkersOK, Outside
<1>9. FinsOK'
  BY <1>t, <1>1, <1>2, <1>3, <1>4, <1>u DEF FinsOK, Claimed, Owned, Token
<1>10. AnswersOK'
  BY <1>t, <1>1, <1>2, <1>3, <1>4, <1>u DEF AnswersOK, Served, Over, Terminal
<1>11. DismissedOK'
  BY <1>t, <1>1, <1>2, <1>3, <1>4, <1>u DEF DismissedOK, Unserved, Past, Over, Mine, Terminal, Runs,
     WorkersOK, Outside, Stock
<1>12. StoredOK'
  BY <1>t, <1>1, <1>2, <1>3, <1>4, <1>u DEF StoredOK, Mine, DismissedOK, Unserved, Past, Over,
     Terminal, Runs, Key
<1>13. TidyOK'
  BY <1>t, <1>1, <1>2, <1>3, <1>4, <1>u DEF TidyOK, Tidy, Served, Terminal
<1>14. TasksOK'
  BY <1>t, <1>1, <1>2, <1>3, <1>4, <1>u DEF TasksOK, Past, Over, Tidy, Served, Terminal
<1>15. PromotionExclusive'
  BY <1>t, <1>1, <1>2, <1>3, <1>4, <1>u DEF PromotionExclusive, Prepared, ActiveOps, WorkersOK,
     Outside, Stock
<1>16. InputTypes' /\ StoreTypes' /\ RecordsOK' /\ LaneOK' /\ LandedOK' /\ WalOK' /\ RowsOK' /\
   LedgerOK' /\ PoolOK'
  BY <1>u, InputTypesFrame, StoreTypesFrame, RecordsOKFrame, LaneOKFrame, LandedOKFrame, WalOKFrame,
     RowsOKFrame, LedgerOKFrame, PoolOKFrame
<1> QED BY <1>5, <1>6, <1>7, <1>8, <1>9, <1>10, <1>11, <1>12, <1>13, <1>14, <1>15, <1>16

\* A retry that cleaned up asks for admission again.
LEMMA CompleteReturnsStep ==
  ASSUME StockInv, NEW q \in Request, Complete(q), Closes(opOf[q]), w[q].again /\ ~w[q].own
  PROVE  StockInv'
<1> USE DEF StockInv
<1>t. /\ None \notin Request \cup {"busy", "conflict", "cleanup", "rejected", "replayed", "pending"}
      /\ op \in [Op -> Ops] /\ w \in [Request -> Workers] /\ fin \in [Runs -> Fins]
      /\ (\A p \in Op : op[p].claim \in Nat /\ issued[p] \in Nat)
      /\ (\A b \in Request : w[b].claim \in Nat) /\ (\A y \in Runs : fin[y].claim \in Nat)
  BY FieldTypes DEF InputTypes, StoreTypes, ActorTypes
<1>u. UNCHANGED <<opOf, refOf, expect, refOnly, pool, retained, ledger, refs, version, seq, row,
   rlease, prep, please, reclease, intent, fin, bucket, queued, task, issued, landed, moved, last,
   forgotten, faults, edits>>
  BY DEF Complete, inputs, leases, history
<1>1. /\ w[q].pc = "complete" /\ Stock(q) /\ opOf[q] \in Op /\ w[q].claim \in 1 .. MaxClaims
      /\ w[q].says = None
  BY <1>t DEF Complete, Stock, WorkersOK, Outside, Workers, AnswersOK
<1>2. PICK r \in Workers :
       /\ w' = [w EXCEPT ![q] = r]
       /\ r.pc = "reserved" /\ r.claim = w[q].claim /\ (r.own <=> w[q].own) /\ ~r.outputs
       /\ ~r.close /\ (r.acked <=> w[q].acked) /\ r.says = w[q].says
  <2>1. w' = [w EXCEPT ![q].pc = "reserved", ![q].outputs = FALSE, ![q].close = FALSE]
    BY DEF Complete
  <2>2. w \in [Request -> Workers] /\ q \in Request
    BY <1>t
  <2>3. PICK d, f : d = w[q] /\ f = [d EXCEPT !.pc = "reserved", !.outputs = FALSE, !.close = FALSE]
    BY Zenon
  <2>4. d \in Workers /\ w' = [w EXCEPT ![q] = f]
    BY ONLY <2>1, <2>2, <2>3
  <2>5. f \in Workers
    BY ONLY <2>3, <2>4 DEF Workers, Places, Answers
  <2>6. w'[q] \in Workers /\ w' = [w EXCEPT ![q] = w'[q]]
    BY ONLY <2>2, <2>4, <2>5
  <2>7. /\ w'[q].pc = "reserved" /\ w'[q].claim = w[q].claim /\ (w'[q].own <=> w[q].own)
        /\ ~w'[q].outputs
        /\ ~w'[q].close /\ (w'[q].acked <=> w[q].acked) /\ w'[q].says = w[q].says
    BY <1>t, <2>1 DEF Workers
  <2> QED BY <2>6, <2>7
<1>3. PICK e \in Ops :
       /\ op' = [op EXCEPT ![opOf[q]] = e]
       /\ e.st = op[opOf[q]].st /\ e.claim = op[opOf[q]].claim /\ e.lease = op[opOf[q]].lease
       /\ (e.lapsed <=> op[opOf[q]].lapsed)
       /\ ~e.pend /\ (e.retry <=> op[opOf[q]].retry) /\ (e.plan <=> op[opOf[q]].plan)
  <2>0. op' = [op EXCEPT ![opOf[q]].pend = FALSE]
    BY DEF Complete, Closed
  <2>1. /\ op'[opOf[q]] = [op[opOf[q]] EXCEPT !.pend = FALSE] /\ op[opOf[q]] \in Ops
        /\ op' = [op EXCEPT ![opOf[q]] = op'[opOf[q]]]
    BY <1>t, <2>0, <1>1
  <2> HIDE DEF StockInv
  <2>2. PICK d, f : d = op[opOf[q]] /\ f = op'[opOf[q]]
    OBVIOUS
  <2>3. f = [d EXCEPT !.pend = FALSE] /\ d \in Ops
    BY <2>1, <2>2, Zenon
  <2>4. /\ f \in Ops /\ f.st = d.st /\ f.claim = d.claim /\ f.lease = d.lease /\ ~f.pend
        /\ (f.lapsed <=> d.lapsed) /\ (f.retry <=> d.retry) /\ (f.plan <=> d.plan)
    BY <2>3, CleanedOK
  <2> QED BY <2>1, <2>2, <2>4
<1>4. /\ late' = late \cup ClosedLate(opOf[q], w[q].claim)
      /\ ClosedLate(opOf[q], w[q].claim) \subseteq {opOf[q]}
      /\ op[opOf[q]].pend /\ op[opOf[q]].claim # w[q].claim => opOf[q] \in late'
      /\ alarm' \in BOOLEAN /\ op[opOf[q]].st \in Terminal
  BY DEF Complete, ClosedLate, Closes, Owned
<1>5. StoreTypes'
  BY <1>t, <1>1, <1>2, <1>3, <1>4, <1>u DEF StoreTypes
<1>6. ActorTypes'
  BY <1>t, <1>1, <1>2, <1>3, <1>4, <1>u DEF ActorTypes
<1>7. RecordsOK'
  BY <1>t, <1>1, <1>2, <1>3, <1>4, <1>u DEF RecordsOK, Terminal
<1>8. WorkersOK'
  BY <1>t, <1>1, <1>2, <1>3, <1>4, <1>u DEF WorkersOK, Outside, Stock
<1>9. OwnersOK'
  BY <1>t, <1>1, <1>2, <1>3, <1>4, <1>u DEF OwnersOK, WorkersOK, Outside, Stock
<1>10. TokensOK'
  BY <1>t, <1>1, <1>2, <1>3, <1>4, <1>u DEF TokensOK, Used, Stock, WorkersOK, Outside
<1>11. FinsOK'
  BY <1>t, <1>1, <1>2, <1>3, <1>4, <1>u DEF FinsOK, Claimed, Owned, Token
<1>12. LaneOK'
  BY <1>t, <1>1, <1>2, <1>3, <1>4, <1>u DEF LaneOK, Ready, Claimed, Owned, Valid, FinsOK, Token
<1>13. LandedOK'
  BY <1>t, <1>1, <1>2, <1>3, <1>4, <1>u DEF LandedOK
<1>14. AnswersOK'
  BY <1>t, <1>1, <1>2, <1>3, <1>4, <1>u DEF AnswersOK, Served, Over, Terminal
<1>15. WalOK'
  BY <1>t, <1>1, <1>2, <1>3, <1>4, <1>u DEF WalOK, Claimed, Owned, Valid, Runs, RecordsOK
<1>16. RowsOK'
  BY <1>t, <1>1, <1>2, <1>3, <1>4, <1>u DEF RowsOK, RecordsOK
<1>17. DismissedOK'
  <2>1. DismissedOK
    OBVIOUS
  <2> QED BY ONLY <2>1, <1>2, <1>3, <1>4, <1>u DEF DismissedOK, Unserved, Past, Over, Mine,
     Terminal
<1>18. StoredOK'
  BY <1>t, <1>1, <1>2, <1>3, <1>4, <1>u DEF StoredOK, Mine
<1>19. TidyOK'
  BY <1>t, <1>1, <1>2, <1>3, <1>4, <1>u DEF TidyOK, Tidy, Served, Terminal
<1>20. TasksOK'
  BY <1>t, <1>1, <1>2, <1>3, <1>4, <1>u DEF TasksOK, Past, Over, Tidy, Served, Terminal
<1>21. LedgerOK'
  BY <1>t, <1>1, <1>2, <1>3, <1>4, <1>u DEF LedgerOK
<1>22. PoolOK'
  <2>1. Prepared' \subseteq Prepared
    BY <1>t, <1>1, <1>2, <1>3, <1>4, <1>u DEF Prepared
  <2>2. ActiveOps' \subseteq ActiveOps
    BY <1>t, <1>1, <1>2, <1>3, <1>4, <1>u DEF ActiveOps
  <2> QED BY <2>1, <2>2, <1>u, PoolShrinks DEF InputTypes
<1>23. PromotionExclusive'
  BY <1>t, <1>1, <1>2, <1>3, <1>4, <1>u DEF PromotionExclusive, Prepared, ActiveOps, WorkersOK,
     Outside, Stock
<1>24. InputTypes'
  BY <1>u, InputTypesFrame
<1> QED BY <1>5, <1>6, <1>7, <1>8, <1>9, <1>10, <1>11, <1>12, <1>13, <1>14, <1>15, <1>16, <1>17,
   <1>18, <1>19, <1>20, <1>21, <1>22, <1>23, <1>24

\* An attempt that cleaned up leaves.
LEMMA CompleteLeavesStep ==
  ASSUME StockInv, NEW q \in Request, Complete(q), Closes(opOf[q]),
         ~(w[q].again /\ ~w[q].own)
  PROVE  StockInv'
<1> USE DEF StockInv
<1>t. /\ None \notin Request \cup {"busy", "conflict", "cleanup", "rejected", "replayed", "pending"}
      /\ op \in [Op -> Ops] /\ w \in [Request -> Workers] /\ fin \in [Runs -> Fins]
      /\ (\A p \in Op : op[p].claim \in Nat /\ issued[p] \in Nat)
      /\ (\A b \in Request : w[b].claim \in Nat) /\ (\A y \in Runs : fin[y].claim \in Nat)
  BY FieldTypes DEF InputTypes, StoreTypes, ActorTypes
<1>u. UNCHANGED <<opOf, refOf, expect, refOnly, pool, retained, ledger, refs, version, seq, row,
   rlease, prep, please, reclease, intent, fin, bucket, queued, task, issued, landed, moved, last,
   forgotten, faults, edits>>
  BY DEF Complete, inputs, leases, history
<1>1. /\ w[q].pc = "complete" /\ Stock(q) /\ opOf[q] \in Op /\ w[q].claim \in 1 .. MaxClaims
      /\ w[q].says = None
  BY <1>t DEF Complete, Stock, WorkersOK, Outside, Workers, AnswersOK
<1>2. PICK r \in Workers :
       /\ w' = [w EXCEPT ![q] = r]
       /\ r.pc = "done" /\ r.claim = 0 /\ ~r.own /\ ~r.outputs
       /\ ~r.close /\ (r.acked <=> w[q].acked) /\ r.says = None
  <2>1. w' = [w EXCEPT ![q] = [NewWorker EXCEPT !.pc = "done", !.acked = w[q].acked]]
    BY <1>t DEF Complete, Leave
  <2>2. (w[q].acked) \in BOOLEAN
    BY <1>t DEF Workers
  <2> HIDE DEF StockInv
  <2> QED BY <2>1, <2>2, LeftOK, Zenon
<1>3. PICK e \in Ops :
       /\ op' = [op EXCEPT ![opOf[q]] = e]
       /\ e.st = op[opOf[q]].st /\ e.claim = op[opOf[q]].claim /\ e.lease = op[opOf[q]].lease
       /\ (e.lapsed <=> op[opOf[q]].lapsed)
       /\ ~e.pend /\ (e.retry <=> op[opOf[q]].retry) /\ (e.plan <=> op[opOf[q]].plan)
  <2>0. op' = [op EXCEPT ![opOf[q]].pend = FALSE]
    BY DEF Complete, Closed
  <2>1. /\ op'[opOf[q]] = [op[opOf[q]] EXCEPT !.pend = FALSE] /\ op[opOf[q]] \in Ops
        /\ op' = [op EXCEPT ![opOf[q]] = op'[opOf[q]]]
    BY <1>t, <2>0, <1>1
  <2> HIDE DEF StockInv
  <2>2. PICK d, f : d = op[opOf[q]] /\ f = op'[opOf[q]]
    OBVIOUS
  <2>3. f = [d EXCEPT !.pend = FALSE] /\ d \in Ops
    BY <2>1, <2>2, Zenon
  <2>4. /\ f \in Ops /\ f.st = d.st /\ f.claim = d.claim /\ f.lease = d.lease /\ ~f.pend
        /\ (f.lapsed <=> d.lapsed) /\ (f.retry <=> d.retry) /\ (f.plan <=> d.plan)
    BY <2>3, CleanedOK
  <2> QED BY <2>1, <2>2, <2>4
<1>4. /\ late' = late \cup ClosedLate(opOf[q], w[q].claim)
      /\ ClosedLate(opOf[q], w[q].claim) \subseteq {opOf[q]}
      /\ op[opOf[q]].pend /\ op[opOf[q]].claim # w[q].claim => opOf[q] \in late'
      /\ alarm' \in BOOLEAN /\ op[opOf[q]].st \in Terminal
  BY DEF Complete, ClosedLate, Closes, Owned
<1>5. StoreTypes'
  BY <1>t, <1>1, <1>2, <1>3, <1>4, <1>u DEF StoreTypes
<1>6. ActorTypes'
  BY <1>t, <1>1, <1>2, <1>3, <1>4, <1>u DEF ActorTypes
<1>7. RecordsOK'
  BY <1>t, <1>1, <1>2, <1>3, <1>4, <1>u DEF RecordsOK, Terminal
<1>8. WorkersOK'
  BY <1>t, <1>1, <1>2, <1>3, <1>4, <1>u DEF WorkersOK, Outside, Stock
<1>9. OwnersOK'
  BY <1>t, <1>1, <1>2, <1>3, <1>4, <1>u DEF OwnersOK, WorkersOK, Outside, Stock
<1>10. TokensOK'
  BY <1>t, <1>1, <1>2, <1>3, <1>4, <1>u DEF TokensOK, Used, Stock, WorkersOK, Outside
<1>11. FinsOK'
  BY <1>t, <1>1, <1>2, <1>3, <1>4, <1>u DEF FinsOK, Claimed, Owned, Token
<1>12. LaneOK'
  BY <1>t, <1>1, <1>2, <1>3, <1>4, <1>u DEF LaneOK, Ready, Claimed, Owned, Valid, FinsOK, Token
<1>13. LandedOK'
  BY <1>t, <1>1, <1>2, <1>3, <1>4, <1>u DEF LandedOK
<1>14. AnswersOK'
  <2>1. \A o \in Op : \A c \in Nat : Over(o, c) => Over(o, c)'
    BY <1>t, <1>1, <1>2, <1>3, <1>4, <1>u DEF Over
  <2>2. \A x \in Runs : fin'[x].says = "replayed" =>
          (Served(fin[x].op, fin[x].claim) /\ Over(fin[x].op, fin[x].claim))'
    BY <2>1, <1>t, <1>u DEF AnswersOK, Served, FinsOK
  <2>3. ASSUME NEW b \in Request
        PROVE  /\ w'[b].acked => opOf'[b] \in moved'
               /\ w'[b].says # None => w'[b].pc = "refused"
               /\ w'[b].says = "replayed" =>
                    (Served(opOf[b], w[b].claim) /\ Over(opOf[b], w[b].claim))'
    <3>1. CASE b = q
      BY <3>1, <1>t, <1>1, <1>2, <1>u DEF AnswersOK
    <3>2. CASE b # q
      <4>1. w'[b] = w[b]
        BY <3>2, <1>t, <1>2
      <4> QED BY <4>1, <2>1, <1>t, <1>u DEF AnswersOK, Served, WorkersOK, Outside, Stock
    <3> QED BY <3>1, <3>2
  <2> QED BY <2>2, <2>3 DEF AnswersOK
<1>15. WalOK'
  BY <1>t, <1>1, <1>2, <1>3, <1>4, <1>u DEF WalOK, Claimed, Owned, Valid, Runs, RecordsOK
<1>16. RowsOK'
  BY <1>t, <1>1, <1>2, <1>3, <1>4, <1>u DEF RowsOK, RecordsOK
<1>17. DismissedOK'
  <2>1. DismissedOK
    OBVIOUS
  <2> QED BY ONLY <2>1, <1>t, <1>2, <1>3, <1>u DEF DismissedOK, Unserved, Past, Over, Mine
<1>18. StoredOK'
  BY <1>t, <1>1, <1>2, <1>3, <1>4, <1>u DEF StoredOK, Mine
<1>19. TidyOK'
  BY <1>t, <1>1, <1>2, <1>3, <1>4, <1>u DEF TidyOK, Tidy, Served, Terminal
<1>20. TasksOK'
  BY <1>t, <1>1, <1>2, <1>3, <1>4, <1>u DEF TasksOK, Past, Over, Tidy, Served, Terminal
<1>21. LedgerOK'
  BY <1>t, <1>1, <1>2, <1>3, <1>4, <1>u DEF LedgerOK
<1>22. PoolOK'
  <2>1. Prepared' \subseteq Prepared
    BY <1>t, <1>1, <1>2, <1>3, <1>4, <1>u DEF Prepared
  <2>2. ActiveOps' \subseteq ActiveOps
    BY <1>t, <1>1, <1>2, <1>3, <1>4, <1>u DEF ActiveOps
  <2> QED BY <2>1, <2>2, <1>u, PoolShrinks DEF InputTypes
<1>23. PromotionExclusive'
  BY <1>t, <1>1, <1>2, <1>3, <1>4, <1>u DEF PromotionExclusive, Prepared, ActiveOps, WorkersOK,
     Outside, Stock
<1>24. InputTypes'
  BY <1>u, InputTypesFrame
<1> QED BY <1>5, <1>6, <1>7, <1>8, <1>9, <1>10, <1>11, <1>12, <1>13, <1>14, <1>15, <1>16, <1>17,
   <1>18, <1>19, <1>20, <1>21, <1>22, <1>23, <1>24

\* The record is in use by a new attempt.
LEMMA CompleteRefusedStep ==
  ASSUME StockInv, NEW q \in Request, Complete(q), ~Closes(opOf[q])
  PROVE  StockInv'
<1> USE DEF StockInv
<1>t. /\ None \notin Request \cup {"busy", "conflict", "cleanup", "rejected", "replayed", "pending"}
      /\ op \in [Op -> Ops] /\ w \in [Request -> Workers] /\ fin \in [Runs -> Fins]
      /\ (\A p \in Op : op[p].claim \in Nat /\ issued[p] \in Nat)
      /\ (\A b \in Request : w[b].claim \in Nat) /\ (\A y \in Runs : fin[y].claim \in Nat)
  BY FieldTypes DEF InputTypes, StoreTypes, ActorTypes
<1>u. UNCHANGED <<opOf, refOf, expect, refOnly, pool, retained, op, ledger, refs, version, seq, row,
   rlease, prep, please, reclease, intent, fin, bucket, queued, task, issued, landed, moved, last,
   forgotten, faults, edits>>
  BY DEF Complete, Closed, inputs, leases, history
<1>1. /\ w[q].pc = "complete" /\ Stock(q) /\ opOf[q] \in Op /\ w[q].claim \in 1 .. MaxClaims
      /\ w[q].says = None
  BY <1>t DEF Complete, Stock, WorkersOK, Outside, Workers, AnswersOK
<1>2. PICK r \in Workers :
       /\ w' = [w EXCEPT ![q] = r]
       /\ r.pc = "done" /\ r.claim = 0 /\ ~r.own /\ ~r.outputs
       /\ ~r.close /\ (r.acked <=> w[q].acked) /\ r.says = None
  <2>1. w' = [w EXCEPT ![q] = [NewWorker EXCEPT !.pc = "done", !.acked = w[q].acked]]
    BY <1>t DEF Complete, Leave
  <2>2. (w[q].acked) \in BOOLEAN
    BY <1>t DEF Workers
  <2> HIDE DEF StockInv
  <2> QED BY <2>1, <2>2, LeftOK, Zenon
<1>3. late' = late /\ alarm' \in BOOLEAN
  BY DEF Complete, ClosedLate, StoreTypes
<1>4. StoreTypes'
  BY <1>t, <1>1, <1>2, <1>3, <1>u DEF StoreTypes
<1>5. ActorTypes'
  BY <1>t, <1>1, <1>2, <1>3, <1>u DEF ActorTypes
<1>6. WorkersOK'
  BY <1>t, <1>1, <1>2, <1>3, <1>u DEF WorkersOK, Outside, Stock
<1>7. OwnersOK'
  BY <1>t, <1>1, <1>2, <1>3, <1>u DEF OwnersOK, WorkersOK, Outside, Stock
<1>8. TokensOK'
  BY <1>t, <1>1, <1>2, <1>3, <1>u DEF TokensOK, Used, Stock, WorkersOK, Outside
<1>9. FinsOK'
  BY <1>t, <1>1, <1>2, <1>3, <1>u DEF FinsOK, Claimed, Owned, Token
<1>10. AnswersOK'
  BY <1>t, <1>1, <1>2, <1>3, <1>u DEF AnswersOK, Served, Over, Terminal
<1>11. DismissedOK'
  BY <1>t, <1>1, <1>2, <1>3, <1>u DEF DismissedOK, Unserved, Past, Over, Mine, Terminal, Runs,
     WorkersOK, Outside, Stock
<1>12. StoredOK'
  BY <1>t, <1>1, <1>2, <1>3, <1>u DEF StoredOK, Mine
<1>13. TidyOK'
  BY <1>t, <1>1, <1>2, <1>3, <1>u DEF TidyOK, Tidy, Served, Terminal
<1>14. TasksOK'
  BY <1>t, <1>1, <1>2, <1>3, <1>u DEF TasksOK, Past, Over, Tidy, Served, Terminal
<1>15. PromotionExclusive'
  BY <1>t, <1>1, <1>2, <1>3, <1>u DEF PromotionExclusive, Prepared, ActiveOps, WorkersOK, Outside,
     Stock
<1>16. InputTypes' /\ RecordsOK' /\ LaneOK' /\ LandedOK' /\ WalOK' /\ RowsOK' /\ LedgerOK' /\
   PoolOK'
  BY <1>u, InputTypesFrame, RecordsOKFrame, LaneOKFrame, LandedOKFrame, WalOKFrame, RowsOKFrame,
     LedgerOKFrame, PoolOKFrame
<1> QED BY <1>4, <1>5, <1>6, <1>7, <1>8, <1>9, <1>10, <1>11, <1>12, <1>13, <1>14, <1>15, <1>16

\* A preparation lease runs out.
LEMMA PreparationLapsesStep ==
  ASSUME StockInv, NEW q \in Request, PreparationLapses(q)
  PROVE  StockInv'
<1> USE DEF StockInv
<1>t. /\ None \notin Request \cup {"busy", "conflict", "cleanup", "rejected", "replayed", "pending"}
      /\ op \in [Op -> Ops] /\ w \in [Request -> Workers] /\ fin \in [Runs -> Fins]
      /\ (\A p \in Op : op[p].claim \in Nat /\ issued[p] \in Nat)
      /\ (\A b \in Request : w[b].claim \in Nat) /\ (\A y \in Runs : fin[y].claim \in Nat)
  BY FieldTypes DEF InputTypes, StoreTypes, ActorTypes
<1>u. UNCHANGED <<opOf, refOf, expect, refOnly, pool, retained, op, ledger, refs, version, seq, row,
   rlease, please, reclease, intent, alarm, fin, bucket, queued, task, w, issued, landed, moved,
   last, late, forgotten, edits>>
  BY DEF PreparationLapses, inputs, leases, history
<1>1. faults' \in Nat
  BY DEF PreparationLapses, Fault, ActorTypes
<1>2. prep' \subseteq Preparations /\ Prepared' \subseteq Prepared
  <2>1. prep' \subseteq prep \cup {[tok |-> q, live |-> FALSE]}
    BY DEF PreparationLapses, Unreserved
  <2>2. [tok |-> q, live |-> FALSE] \in Preparations /\ ~[tok |-> q, live |-> FALSE].live
    BY DEF Preparations
  <2>3. prep' \subseteq Preparations
    BY <2>1, <2>2 DEF StoreTypes
  <2> QED BY <2>1, <2>2, <2>3 DEF Prepared
<1>3. StoreTypes'
  BY <1>t, <1>1, <1>2, <1>u DEF StoreTypes
<1>4. ActorTypes'
  BY <1>t, <1>1, <1>2, <1>u DEF ActorTypes
<1>5. PoolOK'
  <2>1. ActiveOps' = ActiveOps
    BY <1>u DEF ActiveOps
  <2> QED BY <1>2, <2>1, <1>u, PoolShrinks DEF InputTypes
<1>6. PromotionExclusive'
  BY <1>t, <1>1, <1>2, <1>u DEF PromotionExclusive, ActiveOps
<1>7. InputTypes' /\ RecordsOK' /\ WorkersOK' /\ OwnersOK' /\ TokensOK' /\ FinsOK' /\ LaneOK' /\
   LandedOK' /\ AnswersOK' /\ WalOK' /\ RowsOK' /\ DismissedOK' /\ StoredOK' /\ TidyOK' /\ TasksOK'
   /\ LedgerOK'
  BY <1>u, InputTypesFrame, RecordsOKFrame, WorkersOKFrame, OwnersOKFrame, TokensOKFrame,
     FinsOKFrame, LaneOKFrame, LandedOKFrame, AnswersOKFrame, WalOKFrame, RowsOKFrame,
     DismissedOKFrame, StoredOKFrame, TidyOKFrame, TasksOKFrame, LedgerOKFrame
<1> QED BY <1>3, <1>4, <1>5, <1>6, <1>7

\* A new attempt: its claim is new, and it leaves the pool for the operations.
LEMMA AdmitStep ==
  ASSUME StockInv, NEW q \in Request, Admit(q)
  PROVE  StockInv'
<1> USE DEF StockInv
<1>t. /\ None \notin Request \cup {"busy", "conflict", "cleanup", "rejected", "replayed", "pending"}
      /\ op \in [Op -> Ops] /\ w \in [Request -> Workers] /\ fin \in [Runs -> Fins]
      /\ (\A p \in Op : op[p].claim \in Nat /\ issued[p] \in Nat)
      /\ (\A b \in Request : w[b].claim \in Nat) /\ (\A y \in Runs : fin[y].claim \in Nat)
  BY FieldTypes DEF InputTypes, StoreTypes, ActorTypes
<1>u. UNCHANGED <<opOf, refOf, expect, refOnly, pool, retained, refs, version, seq, row, please,
   reclease, intent, fin, bucket, queued, task, moved, last, late, faults, edits>>
  BY DEF Admit, inputs, leases, history
<1>1. /\ w[q].pc \in {"reserved", "recovering"} /\ Stock(q) /\ opOf[q] \in Op /\ ~Used(q)
      /\ rlease.tok # q
      /\ w[q].says = None /\ ~w[q].outputs
  BY <1>t DEF Admitting, Admit, Stock, WorkersOK, TokensOK, AnswersOK, Used, Outside
<1>2. /\ op[opOf[q]].st \in {"none", "aborted", "failed"} /\ HoldsLease(q) /\ ~LedgerFull(opOf[q])
      /\ op[opOf[q]].st \in {"aborted", "failed"} => ~op[opOf[q]].pend
      /\ \A p \in Op : op[p].st # "ready"
  <2>1. op[opOf[q]].st \in States
    BY <1>1, FieldTypes
  <2>2. Admission(q) = "admitted"
    BY DEF Admit
  <2>3. /\ op[opOf[q]].st \notin {"committed", "finalizing", "ready"}
        /\ op[opOf[q]].st = "none" \/ op[opOf[q]].retry
        /\ ~(op[opOf[q]].st \in Terminal /\ op[opOf[q]].pend)
        /\ \A p \in Op \ {opOf[q]} : op[p].st \notin {"ready", "finalizing"}
        /\ HoldsLease(q) /\ ~LedgerFull(opOf[q])
    BY <2>2, AdmissionOK
  <2> QED BY <1>1, <2>1, <2>3 DEF Terminal, RecordsOK
<1>3. PICK c \in 1 .. MaxClaims : c = issued[opOf[q]] + 1 /\ issued' = [issued EXCEPT ![opOf[q]] = c]
  <2>1. /\ issued[opOf[q]] + 1 <= MaxClaims
        /\ issued' = [issued EXCEPT ![opOf[q]] = issued[opOf[q]] + 1]
    BY DEF Admit
  <2>2. issued[opOf[q]] + 1 \in 1 .. MaxClaims
    BY <1>t, <1>1, <2>1, StockAssumption
  <2> QED BY <2>1, <2>2
<1>4. PICK r \in Workers :
       /\ w' = [w EXCEPT ![q] = r]
       /\ r.pc = "execute" /\ r.claim = c /\ r.own /\ (r.outputs <=> w[q].outputs)
       /\ (r.close <=> w[q].close) /\ (r.acked <=> w[q].acked) /\ r.says = w[q].says
  <2>1. w' = [w EXCEPT ![q].pc = "execute", ![q].claim = c, ![q].own = TRUE]
    BY <1>3 DEF Admit
  <2>8. c \in 0 .. MaxClaims
    BY <1>3, StockAssumption
  <2>2. w \in [Request -> Workers] /\ q \in Request
    BY <1>t
  <2>3. PICK d, f : d = w[q] /\ f = [d EXCEPT !.pc = "execute", !.claim = c, !.own = TRUE]
    BY Zenon
  <2>4. d \in Workers /\ w' = [w EXCEPT ![q] = f]
    BY ONLY <2>1, <2>2, <2>3
  <2>5. f \in Workers
    BY ONLY <2>3, <2>4, <2>8 DEF Workers, Places, Answers
  <2>6. w'[q] \in Workers /\ w' = [w EXCEPT ![q] = w'[q]]
    BY ONLY <2>2, <2>4, <2>5
  <2>7. /\ w'[q].pc = "execute" /\ w'[q].claim = c /\ w'[q].own /\ (w'[q].outputs <=> w[q].outputs)
        /\ (w'[q].close <=> w[q].close) /\ (w'[q].acked <=> w[q].acked) /\ w'[q].says = w[q].says
    BY <1>t, <2>1, <2>8 DEF Workers
  <2> QED BY <2>6, <2>7
<1>5. /\ Spared(opOf[q]) \in Seq(Op) /\ Distinct(Spared(opOf[q]))
      /\ \A p \in Evicted(opOf[q]) :
           p \in Op /\ p # opOf[q] /\ op[p].st \in {"committed", "aborted", "failed"} /\ ~op[p].pend
      /\ Range(Spared(opOf[q])) = {p \in Op : op[p].st # "none" /\ p # opOf[q] /\ p \notin Evicted(opOf[q])}
  BY <1>1, Retaining DEF StoreTypes, Evictable, Terminal
<1>6. PICK e \in Ops :
       /\ op' = [p \in Op |-> IF p = opOf[q] THEN e ELSE IF p \in Evicted(opOf[q]) THEN NoOp ELSE op[p]]
       /\ e.st = "processing" /\ e.claim = c /\ e.lease = q /\ ~e.pend /\ ~e.retry /\ ~e.plan
  <2>1. PICK e : e = [NoOp EXCEPT !.st = "processing", !.claim = c, !.lease = q]
    OBVIOUS
  <2>2. op' = [p \in Op |-> IF p = opOf[q] THEN e ELSE IF p \in Evicted(opOf[q]) THEN NoOp ELSE op[p]]
    BY <1>3, <2>1 DEF Admit
  <2>3. c \in 0 .. MaxClaims
    BY <1>3, StockAssumption
  <2>4. e \in Ops /\ e.st = "processing" /\ e.claim = c /\ e.lease = q /\ ~e.pend /\ ~e.retry /\ ~e.plan
    <3>1. e \in Ops
      BY <2>1, <2>3, NoOpOK DEF Ops
    <3> QED BY <2>1, <3>1, NoOpOK DEF Ops
  <2> QED BY <2>2, <2>4
<1>7. /\ op' \in [Op -> Ops] /\ op'[opOf[q]] = e
      /\ \A p \in Op \ {opOf[q]} : op'[p] = IF p \in Evicted(opOf[q]) THEN NoOp ELSE op[p]
  BY <1>t, <1>1, <1>5, <1>6, NoOpOK
<1>8. /\ NoOp.st = "none" /\ NoOp.claim = 0 /\ NoOp.lease = None /\ ~NoOp.pend /\ ~NoOp.retry
      /\ ~NoOp.plan
  BY NoOpOK
<1>9. /\ landed' = [p \in Op |-> IF p \in Evicted(opOf[q]) THEN 0 ELSE landed[p]]
      /\ forgotten' = forgotten \cup
           {p \in Evicted(opOf[q]) : \E b \in Request \ {q} : opOf[b] = p /\ w[b].claim # 0}
  BY DEF Admit
<1>10. ledger' = Append(Spared(opOf[q]), opOf[q]) /\ prep' = Unreserved(q)
  BY DEF Admit
<1>11. /\ rlease' = NoLease /\ rlease' \in ReceiveLeases /\ rlease'.tok = None /\ ~rlease'.live
       /\ alarm' = TRUE /\ prep' \subseteq prep
  BY NoLeases DEF Admit, Unreserved
<1>12. \A p \in Op : issued'[p] = (IF p = opOf[q] THEN c ELSE issued[p]) /\ issued[p] <= issued'[p]
  BY <1>t, <1>1, <1>3 DEF ActorTypes
<1>13. \A p \in Op : \A d \in Nat : 1 <= d /\ d <= issued[p] /\ op'[p].claim = d => op'[p] = op[p]
  BY <1>t, <1>1, <1>3, <1>6, <1>7, <1>8
<1>14. \A p \in Op : \A d \in Nat : 1 <= d /\ d <= issued[p] =>
        /\ Past(p, d) => Past(p, d)'
        /\ Unserved(p, d) => Unserved(p, d)'
        /\ Over(p, d) => Over(p, d)'
  BY <1>t, <1>3, <1>9, <1>12, <1>13, <1>u DEF Past, Unserved, Over
<1>15. StoreTypes'
  <2>1. ledger' \in Seq(Op)
    BY <1>1, <1>5, <1>10
  <2> QED BY <2>1, <1>7, <1>11, <1>u DEF StoreTypes
<1>16. ActorTypes'
  <2>1. ActorTypes
    OBVIOUS
  <2> QED BY ONLY <2>1, <1>1, <1>3, <1>4, <1>5, <1>9, <1>u DEF ActorTypes
<1>17. RecordsOK'
  BY <1>t, <1>1, <1>2, <1>3, <1>4, <1>5, <1>6, <1>7, <1>8, <1>9, <1>10, <1>11, <1>12, <1>13, <1>14,
     <1>u DEF RecordsOK
<1>18. WorkersOK'
  BY <1>t, <1>1, <1>2, <1>3, <1>4, <1>5, <1>6, <1>7, <1>8, <1>9, <1>10, <1>11, <1>12, <1>13, <1>14,
     <1>u DEF WorkersOK, Outside, Stock
<1>19. OwnersOK'
  BY <1>t, <1>1, <1>2, <1>3, <1>4, <1>5, <1>6, <1>7, <1>8, <1>9, <1>10, <1>11, <1>12, <1>13, <1>14,
     <1>u DEF OwnersOK, WorkersOK, Outside, Stock, RecordsOK
<1>20. TokensOK'
  BY <1>t, <1>1, <1>2, <1>3, <1>4, <1>5, <1>6, <1>7, <1>8, <1>9, <1>10, <1>11, <1>12, <1>13, <1>14,
     <1>u DEF TokensOK, Used, Stock, WorkersOK, Outside, RecordsOK
<1>21. FinsOK'
  BY <1>t, <1>1, <1>2, <1>3, <1>4, <1>5, <1>6, <1>7, <1>8, <1>9, <1>10, <1>11, <1>12, <1>13, <1>14,
     <1>u DEF FinsOK, Claimed, Owned, Token, TokensOK, Used, Stock
<1>22. LaneOK'
  BY <1>t, <1>1, <1>2, <1>3, <1>4, <1>5, <1>6, <1>7, <1>8, <1>9, <1>10, <1>11, <1>12, <1>13, <1>14,
     <1>u DEF LaneOK, Ready, Claimed, Owned, Valid, FinsOK, Token
<1>23. LandedOK'
  <2>1. refs' = last'
    BY <1>u DEF LandedOK
  <2>2. ASSUME NEW p \in Op
        PROVE  IF op'[p].st \in {"finalizing", "committed"}
               THEN landed'[p] = 1 /\ p \in moved' /\ (p \in refOnly' \/ row'[<<p, op'[p].claim>>] # 0)
               ELSE landed'[p] = 0
    <3>0. /\ landed'[p] = (IF p \in Evicted(opOf[q]) THEN 0 ELSE landed[p])
          /\ moved' = moved /\ refOnly' = refOnly /\ row' = row
      BY <1>9, <1>u
    <3>1. CASE p = opOf[q]
      <4>1. op'[p].st = "processing" /\ landed[p] = 0
        BY <3>1, <1>2, <1>6, <1>7 DEF LandedOK
      <4> QED BY ONLY <3>0, <4>1
    <3>2. CASE p # opOf[q] /\ p \in Evicted(opOf[q])
      <4>1. op'[p].st = "none"
        BY <3>2, <1>7, <1>8
      <4> QED BY ONLY <3>0, <3>2, <4>1
    <3>3. CASE p # opOf[q] /\ p \notin Evicted(opOf[q])
      <4>1. op'[p] = op[p]
        BY <3>3, <1>7
      <4>2. IF op[p].st \in {"finalizing", "committed"}
            THEN landed[p] = 1 /\ p \in moved /\ (p \in refOnly \/ row[<<p, op[p].claim>>] # 0)
            ELSE landed[p] = 0
        BY DEF LandedOK
      <4> QED BY ONLY <3>0, <3>3, <4>1, <4>2
    <3> QED BY <3>1, <3>2, <3>3
  <2> QED BY <2>1, <2>2 DEF LandedOK
<1>24. AnswersOK'
  <2>1. ASSUME NEW y \in Runs, fin'[y].says = "replayed"
        PROVE  (Served(fin[y].op, fin[y].claim) /\ Over(fin[y].op, fin[y].claim))'
    <3>1. /\ Served(fin[y].op, fin[y].claim) /\ Over(fin[y].op, fin[y].claim)
          /\ fin[y].op \in Op /\ fin[y].claim \in Nat /\ 1 <= fin[y].claim
          /\ fin[y].claim <= issued[fin[y].op]
      BY <2>1, <1>t, <1>u DEF AnswersOK, FinsOK
    <3>2. Over(fin[y].op, fin[y].claim)'
      BY <3>1, <1>14, <1>u DEF Over
    <3> QED BY <3>1, <3>2, <1>u DEF Served
  <2>2. ASSUME NEW b \in Request
        PROVE  /\ w'[b].acked => opOf'[b] \in moved'
               /\ w'[b].says # None => w'[b].pc = "refused"
               /\ w'[b].says = "replayed" =>
                    (Served(opOf[b], w[b].claim) /\ Over(opOf[b], w[b].claim))'
    <3>1. /\ w'[b].says = w[b].says /\ (w'[b].acked <=> w[b].acked) /\ opOf' = opOf /\ moved' = moved
          /\ w[b].says # None => w'[b] = w[b]
      BY <1>t, <1>1, <1>4, <1>u
    <3>2. /\ w[b].acked => opOf[b] \in moved
          /\ w[b].says # None => w[b].pc = "refused"
          /\ w[b].says = "replayed" => Served(opOf[b], w[b].claim) /\ Over(opOf[b], w[b].claim)
      BY DEF AnswersOK
    <3>3. w[b].says = "replayed" =>
            opOf[b] \in Op /\ w[b].claim \in Nat /\ 1 <= w[b].claim /\ w[b].claim <= issued[opOf[b]]
      BY <3>2, <1>t DEF WorkersOK, Outside, Stock
    <3>4. w[b].says = "replayed" => Over(opOf[b], w[b].claim)'
      BY <3>1, <3>2, <3>3, <1>14, <1>t DEF Over
    <3>5. w[b].says = "replayed" => Served(opOf[b], w[b].claim)'
      BY <3>1, <3>2, <1>t, <1>u DEF Served
    <3> QED BY <3>1, <3>2, <3>4, <3>5, <1>t
  <2> QED BY <2>1, <2>2 DEF AnswersOK
<1>25. WalOK'
  BY <1>t, <1>1, <1>2, <1>3, <1>4, <1>5, <1>6, <1>7, <1>8, <1>9, <1>10, <1>11, <1>12, <1>13, <1>14,
     <1>u DEF WalOK, Claimed, Owned, Valid, Runs, RecordsOK, TokensOK, Used, Stock
<1>26. RowsOK'
  <2>1. row[<<opOf[q], c>>] = 0
    <3>1. c > issued[opOf[q]] /\ c \in 1 .. MaxClaims /\ opOf[q] \in Op
      BY <1>t, <1>1, <1>3
    <3>2. \A p \in Op : \A d \in 1 .. MaxClaims : d > issued[p] => row[<<p, d>>] = 0
      BY DEF RowsOK
    <3> QED BY <3>1, <3>2
  <2>2. ASSUME NEW p \in Op, NEW d \in 1 .. MaxClaims, d > issued'[p]
        PROVE  row[<<p, d>>] = 0
    <3>1. d > issued[p]
      BY <2>2, <1>t, <1>3, <1>12
    <3> QED BY <3>1 DEF RowsOK
  <2>3. ASSUME NEW p \in Op
        PROVE  /\ op'[p].st \in {"processing", "aborted", "failed"} => row[<<p, op'[p].claim>>] = 0
               /\ op'[p].st = "ready" /\ ~op'[p].plan => row[<<p, op'[p].claim>>] = 0
    BY <1>1, <1>6, <1>7, <1>8, <2>1 DEF RowsOK
  <2> QED BY <2>2, <2>3, <1>u, Zenon DEF RowsOK
<1>27. DismissedOK'
  <2>1. \A x \in Request : fin'[x].says \in {"conflict", "cleanup", "rejected"}
          /\ w'[x].pc = "called" => Unserved(fin[x].op, fin[x].claim)'
    BY <1>t, <1>1, <1>4, <1>14, <1>u DEF DismissedOK, FinsOK, Runs
  <2>2. ASSUME NEW b \in Request, w'[b].claim >= 1, op'[opOf[b]].claim # w'[b].claim
        PROVE  row'[Mine(b)'] = 0 \/ opOf[b] \in forgotten'
    <3>1. b # q /\ w'[b] = w[b] /\ opOf[b] \in Op /\ w[b].claim >= 1
      BY <2>2, <1>t, <1>1, <1>4, <1>6, <1>7 DEF WorkersOK, Stock
    <3>2. CASE op[opOf[b]].claim # w[b].claim
      BY <3>1, <3>2, <1>9, <1>u DEF DismissedOK, Mine
    <3>3. CASE op[opOf[b]].claim = w[b].claim /\ opOf[b] = opOf[q]
      BY <3>1, <3>3, <1>2, <1>8, <1>u DEF RowsOK, RecordsOK, Mine
    <3>4. CASE op[opOf[b]].claim = w[b].claim /\ opOf[b] # opOf[q]
      <4>1. opOf[b] \in Evicted(opOf[q])
        BY <2>2, <3>1, <3>4, <1>7
      <4> QED BY <3>1, <4>1, <1>9
    <3> QED BY <3>2, <3>3, <3>4
  <2>3. ASSUME NEW b \in Request
        PROVE  /\ w'[b].says \in {"conflict", "cleanup", "rejected"} => Unserved(opOf[b], w[b].claim)'
               /\ w'[b].pc = "erase" /\ w'[b].outputs => Unserved(opOf[b], w[b].claim)'
               /\ w'[b].pc \in {"erase", "complete"} => Over(opOf[b], w[b].claim)'
               /\ w'[b].pc \in {"execute", "reject"} /\ op'[opOf[b]].claim = w'[b].claim =>
                    op'[opOf[b]].st \in {"processing", "aborted", "failed"}
               /\ w'[b].claim >= 1 /\ op'[opOf[b]].claim = w'[b].claim
                    /\ op'[opOf[b]].st = "processing" =>
                    w'[b].own /\ w'[b].pc \in {"execute", "reject", "finalize"}
    <3>1. CASE b = q
      BY <3>1, <1>t, <1>1, <1>4, <1>6, <1>7, <1>u
    <3>2. CASE b # q
      <4>1. w'[b] = w[b] /\ (w[b].claim >= 1 => opOf[b] \in Op /\ w[b].claim <= issued[opOf[b]])
        BY <3>2, <1>t, <1>4 DEF WorkersOK, Stock
      <4>2. w[b].says # None \/ w[b].pc \in {"erase", "complete", "execute", "reject"} => w[b].claim >= 1
        BY <1>t DEF WorkersOK, AnswersOK, Outside
      <4> QED BY <4>1, <4>2, <1>t, <1>13, <1>14, <1>u DEF DismissedOK
    <3> QED BY <3>1, <3>2
  <2> QED BY <2>1, <2>2, <2>3, <1>u DEF DismissedOK
<1>28. StoredOK'
  BY <1>t, <1>1, <1>2, <1>3, <1>4, <1>6, <1>7, <1>8, <1>9, <1>13, <1>u DEF StoredOK, Mine, WorkersOK, Outside, Stock
<1>29. TidyOK'
  BY <1>t, <1>1, <1>2, <1>3, <1>4, <1>5, <1>6, <1>7, <1>8, <1>9, <1>10, <1>11, <1>12, <1>13, <1>14,
     <1>u DEF TidyOK, Tidy, Served, Terminal, RecordsOK
<1>30. TasksOK'
  <2>1. \A p \in Op : task[p].claim \in Nat
    BY DEF ActorTypes, Tasks
  <2> QED BY <1>t, <2>1, <1>12, <1>14, <1>u DEF TasksOK, Tidy, Served, Past, Unserved
<1>31. LedgerOK'
  <2>1. PICK s : s = Spared(opOf[q])
    OBVIOUS
  <2>2. s \in Seq(Op) /\ Distinct(s) /\ Len(s) \in Nat /\ ledger' = Append(s, opOf[q])
    BY <1>5, <1>10, <2>1
  <2>3. ledger' \in Seq(Op) /\ Len(ledger') = Len(s) + 1 /\ ledger'[Len(s) + 1] = opOf[q]
        /\ \A j \in 1 .. Len(s) : ledger'[j] = s[j]
    BY <1>1, <2>2
  <2>4. Range(s) = {p \in Op : op[p].st # "none" /\ p # opOf[q] /\ p \notin Evicted(opOf[q])}
    BY <1>5, <2>1
  <2>5. \A j \in 1 .. Len(s) : s[j] \in Range(s) /\ s[j] # opOf[q]
    BY <2>2, <2>4 DEF Range
  <2>6. Distinct(ledger')
    <3>1. \A i \in 1 .. Len(ledger') : i = Len(s) + 1 \/ i \in 1 .. Len(s)
      BY <2>2, <2>3
    <3> QED BY <2>2, <2>3, <2>5, <3>1 DEF Distinct
  <2>7. Range(ledger') = Range(s) \cup {opOf[q]}
    <3>1. DOMAIN ledger' = 1 .. (Len(s) + 1) /\ DOMAIN s = 1 .. Len(s)
      BY <2>2, <2>3
    <3>2. \A i \in 1 .. (Len(s) + 1) : i = Len(s) + 1 \/ i \in 1 .. Len(s)
      BY <2>2
    <3>3. Len(s) + 1 \in 1 .. (Len(s) + 1) /\ 1 .. Len(s) \subseteq 1 .. (Len(s) + 1)
      BY <2>2
    <3>4. Range(ledger') \subseteq Range(s) \cup {opOf[q]}
      BY <2>3, <3>1, <3>2 DEF Range
    <3>5. opOf[q] \in Range(ledger')
      BY <2>3, <3>1, <3>3 DEF Range
    <3>6. Range(s) \subseteq Range(ledger')
      <4> SUFFICES ASSUME NEW j \in 1 .. Len(s) PROVE s[j] \in Range(ledger')
        BY <3>1 DEF Range
      <4>1. j \in DOMAIN ledger' /\ ledger'[j] = s[j]
        BY <2>3, <3>1, <3>3
      <4> QED BY <4>1 DEF Range
    <3> QED BY <3>4, <3>5, <3>6
  <2>8. {p \in Op : op'[p].st # "none"} = Range(s) \cup {opOf[q]}
    BY <1>1, <1>6, <1>7, <1>8, <2>4
  <2>9. Len(ledger') <= retained'
    BY <1>2, <1>u, <2>1, <2>2, <2>3 DEF LedgerFull, InputTypes
  <2> QED BY <2>6, <2>7, <2>8, <2>9 DEF LedgerOK
<1>32. PoolOK'
  <2>1. PICK l : l = [tok |-> q, live |-> TRUE]
    OBVIOUS
  <2>2. l \in Prepared
    <3>1. l \in prep \cup {rlease}
      BY <1>2, <2>1 DEF HoldsLease
    <3>2. l.tok = q /\ l.live
      BY <2>1
    <3> QED BY <1>1, <3>1, <3>2 DEF Prepared
  <2>3. Prepared' \subseteq Prepared \ {l}
    BY <1>10, <2>1 DEF Prepared, Unreserved
  <2>4. ActiveOps' \subseteq ActiveOps \cup {opOf[q]}
    BY <1>7, <1>8 DEF ActiveOps
  <2>5. /\ IsFiniteSet(Prepared \ {l}) /\ Cardinality(Prepared \ {l}) = Cardinality(Prepared) - 1
        /\ IsFiniteSet(ActiveOps \cup {opOf[q]})
        /\ Cardinality(ActiveOps \cup {opOf[q]}) \in {Cardinality(ActiveOps), Cardinality(ActiveOps) + 1}
    BY <2>2, FS_RemoveElement, FS_AddElement DEF PoolOK
  <2>6. /\ IsFiniteSet(Prepared') /\ Cardinality(Prepared') <= Cardinality(Prepared \ {l})
        /\ IsFiniteSet(ActiveOps') /\ Cardinality(ActiveOps') <= Cardinality(ActiveOps \cup {opOf[q]})
    BY <2>3, <2>4, <2>5, FS_Subset
  <2>7. /\ Cardinality(Prepared) \in Nat /\ Cardinality(Prepared') \in Nat
        /\ Cardinality(ActiveOps) \in Nat /\ Cardinality(ActiveOps') \in Nat
    BY <2>6, FS_CardinalityType DEF PoolOK
  <2>8. Cardinality(Prepared) + Cardinality(ActiveOps) <= pool /\ pool \in Nat /\ pool' = pool
    BY <1>u DEF PoolOK, PoolBounded, InputTypes
  <2>9. Cardinality(Prepared') + Cardinality(ActiveOps') <= pool
    BY <2>5, <2>6, <2>7, <2>8
  <2> QED BY <2>6, <2>8, <2>9 DEF PoolOK, PoolBounded
<1>33. PromotionExclusive'
  BY <1>t, <1>1, <1>4, <1>11, <1>u DEF PromotionExclusive, WorkersOK, Outside
<1>34. InputTypes'
  BY <1>u, InputTypesFrame
<1> QED BY <1>15, <1>16, <1>17, <1>18, <1>19, <1>20, <1>21, <1>22, <1>23, <1>24, <1>25, <1>26,
   <1>27, <1>28, <1>29, <1>30, <1>31, <1>32, <1>33, <1>34

==============================================================================
