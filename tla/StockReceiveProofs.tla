------------------------- MODULE StockReceiveProofs -------------------------
(***************************************************************************)
(* Proofs about StockReceive, for any operations, requests, refs and       *)
(* limits: the pool is never overcommitted and the promoted preparation is *)
(* alone, the refs, records and answers agree, and outputs are kept        *)
(* exactly as long as a row names them or someone is to clean them up.     *)
(* The runs of finalizeStockReceive, the consumers of the queue, the alarm *)
(* and the clocks keep the invariant of StockClaimsProofs.                 *)
(***************************************************************************)
EXTENDS StockClaimsProofs

\* What a run works on.
LEMMA RunOK ==
  ASSUME StockInv, NEW x \in Runs, fin[x].pc # "idle"
  PROVE  /\ fin[x].op \in Op /\ fin[x].claim \in 1 .. MaxClaims /\ fin[x].claim <= issued[fin[x].op]
         /\ Claimed(x) => /\ op[fin[x].op].st \in {"ready", "finalizing", "committed", "aborted", "failed"}
                          /\ Token(x) \in Request /\ opOf[Token(x)] = fin[x].op /\ Used(Token(x))
<1> USE DEF StockInv
<1>1. fin[x].op \in Op /\ fin[x].claim >= 1 /\ fin[x].claim <= issued[fin[x].op]
  BY DEF FinsOK
<1>2. fin[x].claim \in 0 .. MaxClaims
  BY DEF ActorTypes, Fins
<1>3. Claimed(x) => op[fin[x].op].st # "processing" /\ op[fin[x].op].st # "none"
  BY <1>1, <1>2, NoOpOK DEF FinsOK, RecordsOK, Claimed, Owned
<1>4. op[fin[x].op].st \in States
  BY <1>1, FieldTypes
<1>5. Claimed(x) => /\ op[fin[x].op].lease \in Request /\ opOf[op[fin[x].op].lease] = fin[x].op
                    /\ Used(op[fin[x].op].lease)
  <2>1. Claimed(x) => op[fin[x].op].lease \in Request /\ opOf[op[fin[x].op].lease] = fin[x].op
    BY <1>1, <1>3 DEF RecordsOK
  <2>2. None \notin Request
    BY FieldTypes
  <2> QED BY <1>1, <2>1, <2>2 DEF TokensOK
<1> QED BY <1>1, <1>2, <1>3, <1>4, <1>5, StockAssumption DEF States, Terminal, Token

\* A claim that a run finds over is not served.
LEMMA DismissedRun ==
  ASSUME StockInv, NEW x \in Request, w[x].pc = "called", fin[x].pc # "idle",
         ~Claimed(x) \/ op[fin[x].op].st \in {"aborted", "failed"}
  PROVE  Unserved(fin[x].op, fin[x].claim)
<1> USE DEF StockInv
<1>1. x \in Runs
  BY DEF Runs
<1>2. /\ fin[x].op \in Op /\ fin[x].claim \in 1 .. MaxClaims /\ fin[x].claim <= issued[fin[x].op]
      /\ fin[x].op = opOf[x] /\ fin[x].claim = w[x].claim
  BY <1>1, RunOK DEF FinsOK
<1>3. CASE ~Claimed(x)
  BY <1>2, <1>3 DEF Unserved, Past, Claimed, Owned, DismissedOK, Mine
<1>4. CASE Claimed(x) /\ op[fin[x].op].st \in {"aborted", "failed"}
  BY <1>2, <1>4 DEF Unserved, Past, Claimed, Owned, RowsOK
<1> QED BY <1>3, <1>4

\* A claim that a run finds committed is served.
LEMMA ReplayedRun ==
  ASSUME StockInv, NEW x \in Runs, fin[x].pc # "idle", Claimed(x),
         op[fin[x].op].st = "committed"
  PROVE  Served(fin[x].op, fin[x].claim) /\ Over(fin[x].op, fin[x].claim)
<1> USE DEF StockInv
<1>1. fin[x].op \in Op /\ op[fin[x].op].claim = fin[x].claim
  BY RunOK DEF Claimed, Owned
<1> QED BY <1>1 DEF LandedOK, Served, Over, Terminal

\* An answer preserves the invariant.
LEMMA SaysStep ==
  ASSUME StockInv, NEW x \in Runs, NEW a \in Said, fin[x].pc # "idle",
         fin' = [fin EXCEPT ![x].pc = "release", ![x].says = a],
         UNCHANGED <<inputs, op, ledger, refs, version, seq, row, leases, intent, alarm, bucket,
           queued, task, w, history>>,
         a = "busy" => fin[x].tok = None, a # "busy" => ~Ready(x),
         a = "replayed" => Claimed(x) /\ op[fin[x].op].st = "committed",
         a \in {"conflict", "cleanup", "rejected"} => ~Claimed(x)
           \/ op[fin[x].op].st \in {"aborted", "failed"}
  PROVE  StockInv'
<1> USE DEF StockInv
<1>t. /\ None \notin Request \cup {"busy", "conflict", "cleanup", "rejected", "replayed", "pending"}
      /\ op \in [Op -> Ops] /\ w \in [Request -> Workers] /\ fin \in [Runs -> Fins]
      /\ (\A p \in Op : op[p].claim \in Nat /\ issued[p] \in Nat)
      /\ (\A b \in Request : w[b].claim \in Nat) /\ (\A y \in Runs : fin[y].claim \in Nat)
  BY FieldTypes DEF InputTypes, StoreTypes, ActorTypes
<1>u. UNCHANGED <<opOf, refOf, expect, refOnly, pool, retained, op, ledger, refs, version, seq, row,
   rlease, prep, please, reclease, intent, alarm, bucket, queued, task, w, issued, landed, moved,
   last, late, forgotten, faults, edits>>
  BY DEF inputs, leases, history
<1>1. /\ fin[x].op \in Op /\ fin[x].claim \in 1 .. MaxClaims /\ fin[x].claim <= issued[fin[x].op]
      /\ a # None
  BY RunOK, StockAssumption
<1>2. PICK g \in Fins :
       /\ fin' = [fin EXCEPT ![x] = g]
       /\ g.pc = "release" /\ g.op = fin[x].op /\ g.claim = fin[x].claim /\ g.ver = fin[x].ver
       /\ g.seq = fin[x].seq /\ g.refs = fin[x].refs /\ g.tok = fin[x].tok /\ g.says = a
  <2>0. fin' = [fin EXCEPT ![x].pc = "release", ![x].says = a]
    OBVIOUS
  <2>1. fin'[x] \in Fins /\ fin' = [fin EXCEPT ![x] = fin'[x]]
    <3>1. fin[x] \in Fins /\ fin'[x] = [fin[x] EXCEPT !.pc = "release", !.says = a]
      BY <1>t
    <3>2. a \in Answers
      BY DEF Answers
    <3>3. fin'[x] \in Fins
      <4>1. PICK f, g : f = fin[x] /\ g = fin'[x]
        OBVIOUS
      <4>2. f \in Fins /\ g = [f EXCEPT !.pc = "release", !.says = a]
        BY <3>1, <4>1, Zenon
      <4>3. g \in Fins
        BY <3>2, <4>2 DEF Fins
      <4> QED BY <4>1, <4>3
    <3> QED BY <1>t, <3>3
  <2>2. /\ fin'[x].pc = "release" /\ fin'[x].op = fin[x].op /\ fin'[x].claim = fin[x].claim
        /\ fin'[x].ver = fin[x].ver
        /\ fin'[x].seq = fin[x].seq /\ fin'[x].refs = fin[x].refs /\ fin'[x].tok = fin[x].tok
        /\ fin'[x].says = a
    BY <1>t, <2>0 DEF Fins
  <2> QED BY <2>1, <2>2
<1>3. /\ a = "replayed" => Served(fin[x].op, fin[x].claim) /\ Over(fin[x].op, fin[x].claim)
      /\ a \in {"conflict", "cleanup", "rejected"} /\ x \in Request /\ w[x].pc = "called" =>
           Unserved(fin[x].op, fin[x].claim)
  BY ReplayedRun, DismissedRun
<1>4. ActorTypes'
  <2>1. fin' \in [Runs -> Fins]
    BY <1>t, <1>2
  <2> QED BY <2>1, <1>u DEF ActorTypes
<1>5. TokensOK'
  BY <1>t, <1>1, <1>2, <1>3, <1>u DEF TokensOK, Used, Stock, WorkersOK, Outside
<1>6. FinsOK'
  BY <1>t, <1>1, <1>2, <1>3, <1>u DEF FinsOK, Claimed, Owned, Token
<1>7. LaneOK'
  <2>1. LaneOK
    OBVIOUS
  <2> HIDE DEF StockInv
  <2> QED BY <2>1, <1>t, <1>u DEF LaneOK, Ready, Claimed, Owned, Valid
<1>8. AnswersOK'
  BY <1>t, <1>2, <1>3, <1>u DEF AnswersOK, Served, Over
<1>9. WalOK'
  BY <1>t, <1>1, <1>2, <1>3, <1>u DEF WalOK, Claimed, Owned, Valid, Runs, RecordsOK
<1>10. DismissedOK'
  <2>1. DismissedOK
    OBVIOUS
  <2> QED BY ONLY <2>1, <1>2, <1>3, <1>u DEF DismissedOK, Unserved, Past, Over, Mine
<1>11. InputTypes' /\ StoreTypes' /\ RecordsOK' /\ WorkersOK' /\ OwnersOK' /\ LandedOK' /\ RowsOK'
   /\ StoredOK' /\ TidyOK' /\ TasksOK' /\ LedgerOK' /\ PoolOK' /\ PromotionExclusive'
  BY <1>u, InputTypesFrame, StoreTypesFrame, RecordsOKFrame, WorkersOKFrame, OwnersOKFrame,
     LandedOKFrame, RowsOKFrame, StoredOKFrame, TidyOKFrame, TasksOKFrame, LedgerOKFrame,
     PoolOKFrame, PromotionExclusiveFrame
<1> QED BY <1>4, <1>5, <1>6, <1>7, <1>8, <1>9, <1>10, <1>11

\* A run that finds its claim over or published answers.
LEMMA FinAcquireAnswersStep ==
  ASSUME StockInv, NEW x \in Runs, FinAcquire(x),
         ~Claimed(x) \/ op[fin[x].op].st \in {"committed", "finalizing"}
  PROVE  StockInv'
<1>1. PICK a \in Said : a = Disposition(x)
  BY DispositionOK DEF Said, Settled
<1>2. /\ fin[x].pc # "idle" /\ fin' = [fin EXCEPT ![x].pc = "release", ![x].says = a]
  BY <1>1 DEF FinAcquire, Says
<1>3. UNCHANGED <<inputs, op, ledger, refs, version, seq, row, leases, intent, alarm, bucket, queued, task, w, history>>
  BY DEF FinAcquire, inputs, leases, history
<1>4. /\ a = "busy" => fin[x].tok = None
      /\ a # "busy" => ~Ready(x)
      /\ a = "replayed" => Claimed(x) /\ op[fin[x].op].st = "committed"
      /\ a \in {"conflict", "cleanup", "rejected"} => ~Claimed(x) \/ op[fin[x].op].st \in {"aborted", "failed"}
  BY <1>1, DispositionOK DEF Ready
<1> QED BY <1>1, <1>2, <1>3, <1>4, SaysStep

\* A run that finds the lane busy says so.
LEMMA FinAcquireBusyStep ==
  ASSUME StockInv, NEW x \in Runs, FinAcquire(x), Claimed(x),
         op[fin[x].op].st \notin {"committed", "finalizing"}, LaneBusy(op[fin[x].op].lease)
  PROVE  StockInv'
<1>1. PICK a \in Said : a = "busy"
  BY DispositionOK DEF Said, Settled
<1>2. /\ fin[x].pc # "idle" /\ fin' = [fin EXCEPT ![x].pc = "release", ![x].says = a]
  BY <1>1 DEF FinAcquire, Says
<1>3. UNCHANGED <<inputs, op, ledger, refs, version, seq, row, leases, intent, alarm, bucket, queued, task, w, history>>
  BY DEF FinAcquire, inputs, leases, history
<1>4. /\ a = "busy" => fin[x].tok = None
      /\ a # "busy" => ~Ready(x)
      /\ a = "replayed" => Claimed(x) /\ op[fin[x].op].st = "committed"
      /\ a \in {"conflict", "cleanup", "rejected"} => ~Claimed(x) \/ op[fin[x].op].st \in {"aborted", "failed"}
  BY <1>1 DEF FinAcquire, StockInv, FinsOK
<1> QED BY <1>1, <1>2, <1>3, <1>4, SaysStep

\* A run that finds its operation settled answers.
LEMMA FinReadSettledStep ==
  ASSUME StockInv, NEW x \in Runs, FinRead(x), ~Ready(x)
  PROVE  StockInv'
<1>1. PICK a \in Said : a = Settled(x)
  BY DispositionOK DEF Said, Settled
<1>2. /\ fin[x].pc # "idle" /\ fin' = [fin EXCEPT ![x].pc = "release", ![x].says = a]
  BY <1>1 DEF FinRead, Says
<1>3. UNCHANGED <<inputs, op, ledger, refs, version, seq, row, leases, intent, alarm, bucket, queued, task, w, history>>
  BY DEF FinRead, inputs, leases, history
<1>4. /\ a = "busy" => fin[x].tok = None
      /\ a # "busy" => ~Ready(x)
      /\ a = "replayed" => Claimed(x) /\ op[fin[x].op].st = "committed"
      /\ a \in {"conflict", "cleanup", "rejected"} => ~Claimed(x) \/ op[fin[x].op].st \in {"aborted", "failed"}
  <2>1. Claimed(x) => op[fin[x].op].st \in {"ready", "finalizing", "committed", "aborted", "failed"}
    BY <1>2, RunOK
  <2> QED BY <1>1, <2>1, DispositionOK DEF Ready, Settled
<1> QED BY <1>1, <1>2, <1>3, <1>4, SaysStep

\* ... after the digest, too.
LEMMA FinPlanSettledStep ==
  ASSUME StockInv, NEW x \in Runs, FinPlan(x), ~Valid(fin[x].op, fin[x].refs), ~Ready(x)
  PROVE  StockInv'
<1>1. PICK a \in Said : a = Settled(x)
  BY DispositionOK DEF Said, Settled
<1>2. /\ fin[x].pc # "idle" /\ fin' = [fin EXCEPT ![x].pc = "release", ![x].says = a]
  BY <1>1 DEF FinPlan, Says
<1>3. UNCHANGED <<inputs, op, ledger, refs, version, seq, row, leases, intent, alarm, bucket, queued, task, w, history>>
  BY DEF FinPlan, inputs, leases, history
<1>4. /\ a = "busy" => fin[x].tok = None
      /\ a # "busy" => ~Ready(x)
      /\ a = "replayed" => Claimed(x) /\ op[fin[x].op].st = "committed"
      /\ a \in {"conflict", "cleanup", "rejected"} => ~Claimed(x) \/ op[fin[x].op].st \in {"aborted", "failed"}
  <2>1. Claimed(x) => op[fin[x].op].st \in {"ready", "finalizing", "committed", "aborted", "failed"}
    BY <1>2, RunOK
  <2> QED BY <1>1, <2>1, DispositionOK DEF Ready, Settled
<1> QED BY <1>1, <1>2, <1>3, <1>4, SaysStep

\* ... and before the first transaction.
LEMMA FinPublishSettledStep ==
  ASSUME StockInv, NEW x \in Runs, FinPublish(x), ~WalHolds(x)
  PROVE  StockInv'
<1>1. PICK a \in Said : a = Disposition(x)
  BY DispositionOK DEF Said, Settled
<1>2. /\ fin[x].pc # "idle" /\ fin' = [fin EXCEPT ![x].pc = "release", ![x].says = a]
  BY <1>1 DEF FinPublish, Says
<1>3. UNCHANGED <<inputs, op, ledger, refs, version, seq, row, leases, intent, alarm, bucket, queued, task, w, history>>
  BY DEF FinPublish, inputs, leases, history
<1>4. /\ a = "busy" => fin[x].tok = None
      /\ a # "busy" => ~Ready(x)
      /\ a = "replayed" => Claimed(x) /\ op[fin[x].op].st = "committed"
      /\ a \in {"conflict", "cleanup", "rejected"} => ~Claimed(x) \/ op[fin[x].op].st \in {"aborted", "failed"}
  <2>1. Claimed(x) => op[fin[x].op].st \in {"ready", "finalizing", "committed", "aborted", "failed"}
    BY <1>2, RunOK
  <2>2. ~Ready(x)
    BY DEF StockInv, FinPublish, WalHolds, LaneOK
  <2> QED BY <1>1, <2>1, <2>2, DispositionOK DEF Ready
<1> QED BY <1>1, <1>2, <1>3, <1>4, SaysStep

\* A record that is aborted.
LEMMA AbortedOK ==
  ASSUME NEW e \in Ops, NEW f, f = [e EXCEPT !.st = "aborted", !.pend = TRUE]
  PROVE  /\ f \in Ops /\ f.st = "aborted" /\ f.claim = e.claim /\ f.lease = e.lease /\ f.pend
         /\ (f.lapsed <=> e.lapsed) /\ (f.retry <=> e.retry) /\ (f.plan <=> e.plan)
<1>1. f \in Ops
  BY DEF Ops, Terminal
<1>2. f.st = "aborted" /\ f.claim = e.claim /\ f.lease = e.lease /\ f.pend
  BY DEF Ops
<1>3. (f.lapsed <=> e.lapsed) /\ (f.retry <=> e.retry) /\ (f.plan <=> e.plan)
  BY DEF Ops
<1> QED BY <1>1, <1>2, <1>3

\* A run takes the lane.
LEMMA FinAcquireTakenStep ==
  ASSUME StockInv, NEW x \in Runs, FinAcquire(x), Claimed(x),
         op[fin[x].op].st \notin {"committed", "finalizing"}, ~LaneBusy(op[fin[x].op].lease)
  PROVE  StockInv'
<1> USE DEF StockInv
<1>t. /\ None \notin Request \cup {"busy", "conflict", "cleanup", "rejected", "replayed", "pending"}
      /\ op \in [Op -> Ops] /\ w \in [Request -> Workers] /\ fin \in [Runs -> Fins]
      /\ (\A p \in Op : op[p].claim \in Nat /\ issued[p] \in Nat)
      /\ (\A b \in Request : w[b].claim \in Nat) /\ (\A y \in Runs : fin[y].claim \in Nat)
  BY FieldTypes DEF InputTypes, StoreTypes, ActorTypes
<1>u. UNCHANGED <<opOf, refOf, expect, refOnly, pool, retained, op, ledger, refs, version, seq, row,
   prep, reclease, intent, alarm, bucket, queued, task, w, issued, landed, moved, last, late,
   forgotten, faults, edits>>
  BY DEF FinAcquire, inputs, leases, history
<1>1. /\ fin[x].op \in Op /\ fin[x].claim \in 1 .. MaxClaims /\ fin[x].claim <= issued[fin[x].op]
      /\ fin[x].pc = "acquire"
  BY RunOK DEF FinAcquire
<1>2. PICK t \in Request :
       /\ t = op[fin[x].op].lease /\ t # None /\ opOf[t] = fin[x].op /\ Stock(t) /\ Used(t)
       /\ op[fin[x].op].claim = fin[x].claim /\ op[fin[x].op].st \in {"ready", "aborted", "failed"}
  BY <1>t, <1>1, RunOK DEF Claimed, Owned, Token, Stock
<1>3. PICK g \in Fins :
       /\ fin' = [fin EXCEPT ![x] = g]
       /\ g.pc = "read" /\ g.op = fin[x].op /\ g.claim = fin[x].claim /\ g.ver = fin[x].ver
       /\ g.seq = fin[x].seq /\ g.refs = fin[x].refs /\ g.tok = t /\ g.says = fin[x].says
  <2>1. fin' = [fin EXCEPT ![x].pc = "read", ![x].tok = t]
    BY <1>2 DEF FinAcquire
  <2>2. fin \in [Runs -> Fins] /\ x \in Runs
    BY <1>t
  <2>3. PICK d, f : d = fin[x] /\ f = [d EXCEPT !.pc = "read", !.tok = t]
    BY Zenon
  <2>4. d \in Fins /\ fin' = [fin EXCEPT ![x] = f]
    BY ONLY <2>1, <2>2, <2>3
  <2>5. f \in Fins
    <3>1. t \in Request
      BY <1>t, <2>1
    <3> QED BY ONLY <2>3, <2>4, <3>1 DEF Fins, Answers, Said
  <2>6. fin'[x] \in Fins /\ fin' = [fin EXCEPT ![x] = fin'[x]]
    BY ONLY <2>2, <2>4, <2>5
  <2>7. /\ fin'[x].pc = "read" /\ fin'[x].op = fin[x].op /\ fin'[x].claim = fin[x].claim
        /\ fin'[x].ver = fin[x].ver
        /\ fin'[x].seq = fin[x].seq /\ fin'[x].refs = fin[x].refs /\ fin'[x].tok = t
        /\ fin'[x].says = fin[x].says
    BY <1>t, <2>1 DEF Fins
  <2> QED BY <2>6, <2>7
<1>4. rlease' \in ReceiveLeases /\ rlease'.tok = t /\ rlease'.live
  <2>1. rlease' = [tok |-> t, live |-> TRUE]
    BY <1>2 DEF FinAcquire
  <2> QED BY <2>1 DEF ReceiveLeases
<1>5. please' \in PublicationLeases
  <2>1. please' = [tok |-> <<fin[x].op, fin[x].claim>>, live |-> TRUE]
    BY DEF FinAcquire, OutKey
  <2>2. <<fin[x].op, fin[x].claim>> \in Key
    BY <1>1 DEF Key
  <2> QED BY <2>1, <2>2 DEF PublicationLeases
<1>6. rlease.tok = None \/ rlease.tok = t \/ (~rlease.live /\ ~Unfinished(rlease.tok))
  BY <1>2 DEF LaneBusy
<1>7. fin[x].tok = None /\ fin[x].says = None
  BY <1>1 DEF FinsOK
<1>8. StoreTypes'
  BY <1>t, <1>1, <1>2, <1>3, <1>4, <1>5, <1>6, <1>7, <1>u DEF StoreTypes
<1>9. ActorTypes'
  BY <1>t, <1>1, <1>2, <1>3, <1>4, <1>5, <1>6, <1>7, <1>u DEF ActorTypes
<1>10. TokensOK'
  <2>1. TokensOK
    OBVIOUS
  <2> QED BY ONLY <2>1, <1>2, <1>3, <1>4, <1>u DEF TokensOK, Used, Stock
<1>11. FinsOK'
  BY <1>t, <1>1, <1>2, <1>3, <1>4, <1>5, <1>6, <1>7, <1>u DEF FinsOK, Claimed, Owned, Token
<1>12. LaneOK'
  <2>1. LaneOK /\ FinsOK
    OBVIOUS
  <2> QED BY ONLY <2>1, <1>3, <1>4, <1>6, <1>u DEF LaneOK, Ready, Claimed, Owned, Valid, FinsOK
<1>13. AnswersOK'
  <2>1. AnswersOK
    OBVIOUS
  <2> QED BY ONLY <2>1, <1>3, <1>u DEF AnswersOK, Served, Over
<1>14. WalOK'
  <2>1. WalOK /\ RecordsOK
    OBVIOUS
  <2> QED BY ONLY <2>1, <1>t, <1>3, <1>4, <1>6, <1>u DEF WalOK, Claimed, Owned, Valid, RecordsOK,
     Unfinished
<1>15. DismissedOK'
  <2>1. \A y \in Request : /\ fin'[y].says = fin[y].says /\ fin'[y].op = fin[y].op
                           /\ fin'[y].claim = fin[y].claim
    BY <1>t, <1>3 DEF Runs
  <2> QED BY <2>1, <1>u DEF DismissedOK, Unserved, Past, Over, Mine
<1>16. PromotionExclusive'
  BY <1>t, <1>1, <1>2, <1>3, <1>4, <1>5, <1>6, <1>7, <1>u DEF PromotionExclusive, Prepared,
     ActiveOps, WorkersOK, Outside, Stock
<1>17. InputTypes' /\ RecordsOK' /\ WorkersOK' /\ OwnersOK' /\ LandedOK' /\ RowsOK' /\ StoredOK' /\
   TidyOK' /\ TasksOK' /\ LedgerOK' /\ PoolOK'
  BY <1>u, InputTypesFrame, RecordsOKFrame, WorkersOKFrame, OwnersOKFrame, LandedOKFrame,
     RowsOKFrame, StoredOKFrame, TidyOKFrame, TasksOKFrame, LedgerOKFrame, PoolOKFrame
<1> QED BY <1>8, <1>9, <1>10, <1>11, <1>12, <1>13, <1>14, <1>15, <1>16, <1>17

\* A run reads the refs.
LEMMA FinReadRefsStep ==
  ASSUME StockInv, NEW x \in Runs, FinRead(x), Ready(x)
  PROVE  StockInv'
<1> USE DEF StockInv
<1>t. /\ None \notin Request \cup {"busy", "conflict", "cleanup", "rejected", "replayed", "pending"}
      /\ op \in [Op -> Ops] /\ w \in [Request -> Workers] /\ fin \in [Runs -> Fins]
      /\ (\A p \in Op : op[p].claim \in Nat /\ issued[p] \in Nat)
      /\ (\A b \in Request : w[b].claim \in Nat) /\ (\A y \in Runs : fin[y].claim \in Nat)
  BY FieldTypes DEF InputTypes, StoreTypes, ActorTypes
<1>u. UNCHANGED <<opOf, refOf, expect, refOnly, pool, retained, op, ledger, refs, version, seq, row,
   rlease, prep, please, reclease, intent, alarm, bucket, queued, task, w, issued, landed, moved,
   last, late, forgotten, faults, edits>>
  BY DEF FinRead, inputs, leases, history
<1>1. /\ fin[x].op \in Op /\ fin[x].claim \in 1 .. MaxClaims /\ fin[x].claim <= issued[fin[x].op]
      /\ fin[x].pc = "read"
  BY RunOK DEF FinRead
<1>2. PICK g \in Fins :
       /\ fin' = [fin EXCEPT ![x] = g]
       /\ g.pc = "plan" /\ g.op = fin[x].op /\ g.claim = fin[x].claim /\ g.ver = fin[x].ver
       /\ g.seq = fin[x].seq /\ g.refs = refs /\ g.tok = fin[x].tok /\ g.says = fin[x].says
  <2>1. fin' = [fin EXCEPT ![x].pc = "plan", ![x].refs = refs] /\ refs \in [Ref -> Value]
    BY DEF FinRead, StoreTypes
  <2>2. fin \in [Runs -> Fins] /\ x \in Runs
    BY <1>t
  <2>3. PICK d, f : d = fin[x] /\ f = [d EXCEPT !.pc = "plan", !.refs = refs]
    BY Zenon
  <2>4. d \in Fins /\ fin' = [fin EXCEPT ![x] = f]
    BY ONLY <2>1, <2>2, <2>3
  <2>5. f \in Fins
    <3>1. refs \in [Ref -> Value]
      BY <1>t, <2>1
    <3> QED BY ONLY <2>3, <2>4, <3>1 DEF Fins, Answers, Said
  <2>6. fin'[x] \in Fins /\ fin' = [fin EXCEPT ![x] = fin'[x]]
    BY ONLY <2>2, <2>4, <2>5
  <2>7. /\ fin'[x].pc = "plan" /\ fin'[x].op = fin[x].op /\ fin'[x].claim = fin[x].claim
        /\ fin'[x].ver = fin[x].ver
        /\ fin'[x].seq = fin[x].seq /\ fin'[x].refs = refs /\ fin'[x].tok = fin[x].tok
        /\ fin'[x].says = fin[x].says
    BY <1>t, <2>1 DEF Fins
  <2> QED BY <2>6, <2>7
<1>3. fin[x].says = None
  BY <1>1 DEF FinsOK
<1>4. ActorTypes'
  BY <1>t, <1>1, <1>2, <1>3, <1>u DEF ActorTypes
<1>5. TokensOK'
  BY <1>t, <1>1, <1>2, <1>3, <1>u DEF TokensOK, Used, Stock, WorkersOK, Outside
<1>6. FinsOK'
  BY <1>t, <1>1, <1>2, <1>3, <1>u DEF FinsOK, Claimed, Owned, Token
<1>7. LaneOK'
  BY <1>t, <1>1, <1>2, <1>3, <1>u DEF LaneOK, Ready, Claimed, Owned, Valid, FinsOK, Token
<1>8. AnswersOK'
  BY <1>t, <1>1, <1>2, <1>3, <1>u DEF AnswersOK, Served, Over, Terminal
<1>9. WalOK'
  BY <1>t, <1>1, <1>2, <1>3, <1>u DEF WalOK, Claimed, Owned, Valid, Runs, RecordsOK
<1>10. DismissedOK'
  BY <1>t, <1>1, <1>2, <1>3, <1>u DEF DismissedOK, Unserved, Past, Over, Mine, Terminal, Runs,
     WorkersOK, Outside, Stock
<1>11. InputTypes' /\ StoreTypes' /\ RecordsOK' /\ WorkersOK' /\ OwnersOK' /\ LandedOK' /\ RowsOK'
   /\ StoredOK' /\ TidyOK' /\ TasksOK' /\ LedgerOK' /\ PoolOK' /\ PromotionExclusive'
  BY <1>u, InputTypesFrame, StoreTypesFrame, RecordsOKFrame, WorkersOKFrame, OwnersOKFrame,
     LandedOKFrame, RowsOKFrame, StoredOKFrame, TidyOKFrame, TasksOKFrame, LedgerOKFrame,
     PoolOKFrame, PromotionExclusiveFrame
<1> QED BY <1>4, <1>5, <1>6, <1>7, <1>8, <1>9, <1>10, <1>11

\* A run reads the versions.
LEMMA FinPlanValidStep ==
  ASSUME StockInv, NEW x \in Runs, FinPlan(x), Valid(fin[x].op, fin[x].refs)
  PROVE  StockInv'
<1> USE DEF StockInv
<1>t. /\ None \notin Request \cup {"busy", "conflict", "cleanup", "rejected", "replayed", "pending"}
      /\ op \in [Op -> Ops] /\ w \in [Request -> Workers] /\ fin \in [Runs -> Fins]
      /\ (\A p \in Op : op[p].claim \in Nat /\ issued[p] \in Nat)
      /\ (\A b \in Request : w[b].claim \in Nat) /\ (\A y \in Runs : fin[y].claim \in Nat)
  BY FieldTypes DEF InputTypes, StoreTypes, ActorTypes
<1>u. UNCHANGED <<opOf, refOf, expect, refOnly, pool, retained, op, ledger, refs, version, seq, row,
   rlease, prep, please, reclease, intent, alarm, bucket, queued, task, w, issued, landed, moved,
   last, late, forgotten, faults, edits>>
  BY DEF FinPlan, inputs, leases, history
<1>1. /\ fin[x].op \in Op /\ fin[x].claim \in 1 .. MaxClaims /\ fin[x].claim <= issued[fin[x].op]
      /\ fin[x].pc = "plan"
  BY RunOK DEF FinPlan
<1>2. PICK g \in Fins :
       /\ fin' = [fin EXCEPT ![x] = g]
       /\ g.pc = "publish" /\ g.op = fin[x].op /\ g.claim = fin[x].claim /\ g.ver = version
       /\ g.seq = seq /\ g.refs = fin[x].refs /\ g.tok = fin[x].tok /\ g.says = fin[x].says
  <2>1. fin' = [fin EXCEPT ![x].pc = "publish", ![x].ver = version, ![x].seq = seq] /\ version \in Nat /\ seq \in Nat
    BY DEF FinPlan, StoreTypes
  <2>2. fin \in [Runs -> Fins] /\ x \in Runs
    BY <1>t
  <2>3. PICK d, f : d = fin[x] /\ f = [d EXCEPT !.pc = "publish", !.ver = version, !.seq = seq]
    BY Zenon
  <2>4. d \in Fins /\ fin' = [fin EXCEPT ![x] = f]
    BY ONLY <2>1, <2>2, <2>3
  <2>5. f \in Fins
    <3>1. version \in Nat /\ seq \in Nat
      BY <1>t, <2>1
    <3> QED BY ONLY <2>3, <2>4, <3>1 DEF Fins, Answers, Said
  <2>6. fin'[x] \in Fins /\ fin' = [fin EXCEPT ![x] = fin'[x]]
    BY ONLY <2>2, <2>4, <2>5
  <2>7. /\ fin'[x].pc = "publish" /\ fin'[x].op = fin[x].op /\ fin'[x].claim = fin[x].claim
        /\ fin'[x].ver = version
        /\ fin'[x].seq = seq /\ fin'[x].refs = fin[x].refs /\ fin'[x].tok = fin[x].tok
        /\ fin'[x].says = fin[x].says
    BY <1>t, <2>1 DEF Fins
  <2> QED BY <2>6, <2>7
<1>3. fin[x].says = None
  BY <1>1 DEF FinsOK
<1>4. ActorTypes'
  BY <1>t, <1>1, <1>2, <1>3, <1>u DEF ActorTypes
<1>5. TokensOK'
  BY <1>t, <1>1, <1>2, <1>3, <1>u DEF TokensOK, Used, Stock, WorkersOK, Outside
<1>6. FinsOK'
  BY <1>t, <1>1, <1>2, <1>3, <1>u DEF FinsOK, Claimed, Owned, Token
<1>7. LaneOK'
  BY <1>t, <1>1, <1>2, <1>3, <1>u DEF LaneOK, Ready, Claimed, Owned, Valid, FinsOK, Token
<1>8. AnswersOK'
  BY <1>t, <1>1, <1>2, <1>3, <1>u DEF AnswersOK, Served, Over, Terminal
<1>9. WalOK'
  BY <1>t, <1>1, <1>2, <1>3, <1>u DEF WalOK, Claimed, Owned, Valid, Runs, RecordsOK
<1>10. DismissedOK'
  BY <1>t, <1>1, <1>2, <1>3, <1>u DEF DismissedOK, Unserved, Past, Over, Mine, Terminal, Runs,
     WorkersOK, Outside, Stock
<1>11. InputTypes' /\ StoreTypes' /\ RecordsOK' /\ WorkersOK' /\ OwnersOK' /\ LandedOK' /\ RowsOK'
   /\ StoredOK' /\ TidyOK' /\ TasksOK' /\ LedgerOK' /\ PoolOK' /\ PromotionExclusive'
  BY <1>u, InputTypesFrame, StoreTypesFrame, RecordsOKFrame, WorkersOKFrame, OwnersOKFrame,
     LandedOKFrame, RowsOKFrame, StoredOKFrame, TidyOKFrame, TasksOKFrame, LedgerOKFrame,
     PoolOKFrame, PromotionExclusiveFrame
<1> QED BY <1>4, <1>5, <1>6, <1>7, <1>8, <1>9, <1>10, <1>11

\* An operation whose old value is stale is aborted.
LEMMA FinPlanAbortsStep ==
  ASSUME StockInv, NEW x \in Runs, FinPlan(x), ~Valid(fin[x].op, fin[x].refs), Ready(x)
  PROVE  StockInv'
<1> USE DEF StockInv
<1>t. /\ None \notin Request \cup {"busy", "conflict", "cleanup", "rejected", "replayed", "pending"}
      /\ op \in [Op -> Ops] /\ w \in [Request -> Workers] /\ fin \in [Runs -> Fins]
      /\ (\A p \in Op : op[p].claim \in Nat /\ issued[p] \in Nat)
      /\ (\A b \in Request : w[b].claim \in Nat) /\ (\A y \in Runs : fin[y].claim \in Nat)
  BY FieldTypes DEF InputTypes, StoreTypes, ActorTypes
<1>u. UNCHANGED <<opOf, refOf, expect, refOnly, pool, retained, ledger, refs, version, seq, row,
   prep, please, reclease, intent, alarm, bucket, queued, task, w, issued, landed, moved, last,
   late, forgotten, faults, edits>>
  BY DEF FinPlan, inputs, leases, history
<1>1. /\ fin[x].op \in Op /\ fin[x].claim \in 1 .. MaxClaims /\ fin[x].claim <= issued[fin[x].op]
      /\ fin[x].pc = "plan"
  BY RunOK DEF FinPlan
<1>2. PICK t \in Request :
       /\ t = op[fin[x].op].lease /\ t # None /\ opOf[t] = fin[x].op /\ Stock(t) /\ Used(t)
       /\ op[fin[x].op].claim = fin[x].claim /\ op[fin[x].op].st \in {"ready"}
  BY <1>t, <1>1, RunOK DEF Claimed, Owned, Token, Stock, Ready
<1>3. /\ Ready(x) /\ rlease.tok = t /\ fin[x].tok = t /\ refs = fin[x].refs
  BY <1>1, <1>2 DEF LaneOK, FinsOK, Claimed, Owned, Token
<1>4. PICK g \in Fins :
       /\ fin' = [fin EXCEPT ![x] = g]
       /\ g.pc = "release" /\ g.op = fin[x].op /\ g.claim = fin[x].claim /\ g.ver = fin[x].ver
       /\ g.seq = fin[x].seq /\ g.refs = fin[x].refs /\ g.tok = fin[x].tok /\ g.says = "conflict"
  <2>1. fin' = [fin EXCEPT ![x].pc = "release", ![x].says = "conflict"]
    BY DEF FinPlan, Says
  <2>2. fin \in [Runs -> Fins] /\ x \in Runs
    BY <1>t
  <2>3. PICK d, f : d = fin[x] /\ f = [d EXCEPT !.pc = "release", !.says = "conflict"]
    BY Zenon
  <2>4. d \in Fins /\ fin' = [fin EXCEPT ![x] = f]
    BY ONLY <2>1, <2>2, <2>3
  <2>5. f \in Fins
    BY ONLY <2>3, <2>4 DEF Fins, Answers, Said
  <2>6. fin'[x] \in Fins /\ fin' = [fin EXCEPT ![x] = fin'[x]]
    BY ONLY <2>2, <2>4, <2>5
  <2>7. /\ fin'[x].pc = "release" /\ fin'[x].op = fin[x].op /\ fin'[x].claim = fin[x].claim
        /\ fin'[x].ver = fin[x].ver
        /\ fin'[x].seq = fin[x].seq /\ fin'[x].refs = fin[x].refs /\ fin'[x].tok = fin[x].tok
        /\ fin'[x].says = "conflict"
    BY <1>t, <2>1 DEF Fins
  <2> QED BY <2>6, <2>7
<1>5. PICK e \in Ops :
       /\ op' = [op EXCEPT ![fin[x].op] = e]
       /\ e.st = "aborted" /\ e.claim = op[fin[x].op].claim /\ e.lease = op[fin[x].op].lease
       /\ (e.lapsed <=> op[fin[x].op].lapsed)
       /\ e.pend /\ (e.retry <=> op[fin[x].op].retry) /\ (e.plan <=> op[fin[x].op].plan)
  <2>0. op' = [op EXCEPT ![fin[x].op].st = "aborted", ![fin[x].op].pend = TRUE] /\ fin[x].op \in Op
    BY <1>1 DEF FinPlan, Abort
  <2>1. /\ op'[fin[x].op] = [op[fin[x].op] EXCEPT !.st = "aborted", !.pend = TRUE]
        /\ op[fin[x].op] \in Ops
        /\ op' = [op EXCEPT ![fin[x].op] = op'[fin[x].op]]
    BY <1>t, <2>0
  <2> HIDE DEF StockInv
  <2>2. PICK d, f : d = op[fin[x].op] /\ f = op'[fin[x].op]
    OBVIOUS
  <2>3. f = [d EXCEPT !.st = "aborted", !.pend = TRUE] /\ d \in Ops
    BY <2>1, <2>2, Zenon
  <2>4. /\ f \in Ops /\ f.st = "aborted" /\ f.claim = d.claim /\ f.lease = d.lease /\ f.pend
        /\ (f.lapsed <=> d.lapsed) /\ (f.retry <=> d.retry) /\ (f.plan <=> d.plan)
    <3>1. d \in Ops /\ f = [d EXCEPT !.st = "aborted", !.pend = TRUE]
      BY <2>3
    <3> QED BY ONLY <3>1, AbortedOK, ZenonT(60)
  <2> QED BY <2>1, <2>2, <2>4
<1>6. /\ rlease' \in ReceiveLeases /\ rlease'.tok = None /\ ~rlease'.live
  <2>1. rlease' = Dropped(t)
    BY <1>2 DEF FinPlan, Abort, Token
  <2> QED BY <2>1, <1>3, DroppedOK DEF StoreTypes
<1>7. ~op[fin[x].op].plan /\ row[<<fin[x].op, fin[x].claim>>] = 0
  BY <1>1, <1>2, <1>3 DEF WalOK, RowsOK
<1>8. StoreTypes'
  BY <1>t, <1>1, <1>2, <1>3, <1>4, <1>5, <1>6, <1>7, <1>u DEF StoreTypes
<1>9. ActorTypes'
  BY <1>t, <1>1, <1>2, <1>3, <1>4, <1>5, <1>6, <1>7, <1>u DEF ActorTypes
<1>10. RecordsOK'
  BY <1>t, <1>1, <1>2, <1>3, <1>4, <1>5, <1>6, <1>7, <1>u DEF RecordsOK
<1>11. OwnersOK'
  BY <1>t, <1>1, <1>2, <1>3, <1>4, <1>5, <1>6, <1>7, <1>u DEF OwnersOK, WorkersOK, Outside, Stock
<1>12. TokensOK'
  <2>1. TokensOK
    OBVIOUS
  <2> QED BY ONLY <2>1, <1>t, <1>4, <1>5, <1>6, <1>u DEF TokensOK, Used, Stock
<1>13. FinsOK'
  BY <1>t, <1>1, <1>2, <1>3, <1>4, <1>5, <1>6, <1>7, <1>u DEF FinsOK, Claimed, Owned, Token
<1>14. LaneOK'
  <2>1. LaneOK /\ FinsOK
    OBVIOUS
  <2> QED BY ONLY <2>1, <1>t, <1>3, <1>4, <1>5 DEF LaneOK, Ready, Claimed, Owned, FinsOK
<1>15. LandedOK'
  BY <1>t, <1>1, <1>2, <1>3, <1>4, <1>5, <1>6, <1>7, <1>u DEF LandedOK
<1>16. AnswersOK'
  <2>1. AnswersOK
    OBVIOUS
  <2> QED BY ONLY <2>1, <1>4, <1>5, <1>u DEF AnswersOK, Served, Over, Terminal
<1>17. WalOK'
  <2>1. WalOK /\ RecordsOK
    OBVIOUS
  <2> QED BY ONLY <2>1, <1>2, <1>3, <1>5, <1>7, <1>u DEF WalOK, RecordsOK
<1>18. RowsOK'
  BY <1>t, <1>1, <1>2, <1>3, <1>4, <1>5, <1>6, <1>7, <1>u DEF RowsOK, RecordsOK
<1>19. DismissedOK'
  <2>0. \A o \in Op : /\ op'[o].claim = op[o].claim
                      /\ op'[o].st = op[o].st \/ (op[o].st = "ready" /\ op'[o].st = "aborted")
    BY <1>t, <1>1, <1>2, <1>3, <1>4, <1>5, <1>6, <1>7, <1>u
  <2>1. \A o \in Op : \A c \in Nat : /\ Past(o, c) => Past(o, c)'
                                  /\ Over(o, c) => Over(o, c)'
    BY <2>0, <1>t, <1>u DEF Past, Over, Terminal
  <2>2. \A o \in Op : \A c \in Nat : Unserved(o, c) => Unserved(o, c)'
    BY <2>0, <1>t, <1>u DEF Unserved, Past
  <2>3. Unserved(fin[x].op, fin[x].claim)'
    BY <1>t, <1>1, <1>2, <1>3, <1>4, <1>5, <1>6, <1>7, <1>u DEF Unserved, Past
  <2>4. ASSUME NEW y \in Request, fin'[y].says \in {"conflict", "cleanup", "rejected"}, w'[y].pc = "called"
        PROVE  Unserved(fin[y].op, fin[y].claim)' /\ fin'[y].op = fin[y].op /\ fin'[y].claim = fin[y].claim
    <3>1. y \in Runs /\ fin'[y].op = fin[y].op /\ fin'[y].claim = fin[y].claim
      BY <1>t, <1>1, <1>4 DEF Runs
    <3>2. CASE y = x
      BY <2>3, <3>1, <3>2
    <3>3. CASE y # x
      <4>1. fin'[y] = fin[y] /\ w'[y] = w[y] /\ fin[y].op \in Op /\ fin[y].claim \in Nat
        BY <3>1, <3>3, <2>4, <1>t, <1>4, <1>u DEF FinsOK
      <4>2. Unserved(fin[y].op, fin[y].claim)
        BY <4>1, <2>4 DEF DismissedOK
      <4> QED BY <4>1, <4>2, <2>2, <3>1
    <3> QED BY <3>2, <3>3
  <2>5. ASSUME NEW b \in Request
        PROVE  /\ (w[b].claim >= 1 /\ op[opOf[b]].claim # w[b].claim =>
                    row[Mine(b)] = 0 \/ opOf[b] \in forgotten)'
               /\ (w[b].says \in {"conflict", "cleanup", "rejected"} => Unserved(opOf[b], w[b].claim))'
               /\ (w[b].pc = "erase" /\ w[b].outputs => Unserved(opOf[b], w[b].claim))'
               /\ (w[b].pc \in {"erase", "complete"} => Over(opOf[b], w[b].claim))'
               /\ (w[b].pc \in {"execute", "reject"} /\ op[opOf[b]].claim = w[b].claim =>
                    op[opOf[b]].st \in {"processing", "aborted", "failed"})'
               /\ (w[b].claim >= 1 /\ op[opOf[b]].claim = w[b].claim /\ op[opOf[b]].st = "processing" =>
                    w[b].own /\ w[b].pc \in {"execute", "reject", "finalize"})'
    <3>1. CASE w[b].claim >= 1 /\ opOf[b] \in Op
      <4>1. w[b].claim \in Nat /\ w'[b] = w[b] /\ opOf'[b] = opOf[b]
        BY <1>t, <1>u
      <4>2. row'[Mine(b)'] = row[Mine(b)] /\ forgotten' = forgotten
        BY <1>u DEF Mine
      <4>3. /\ Unserved(opOf[b], w[b].claim) => Unserved(opOf[b], w[b].claim)'
            /\ Over(opOf[b], w[b].claim) => Over(opOf[b], w[b].claim)'
        BY <3>1, <4>1, <2>0, <1>u DEF Unserved, Past, Over, Terminal
      <4>4. (w[b].claim >= 1 /\ op[opOf[b]].claim # w[b].claim =>
               row[Mine(b)] = 0 \/ opOf[b] \in forgotten)'
        BY <3>1, <4>1, <4>2, <2>0 DEF DismissedOK
      <4>5. (w[b].says \in {"conflict", "cleanup", "rejected"} => Unserved(opOf[b], w[b].claim))'
        BY <4>1, <4>3 DEF DismissedOK
      <4>6. (w[b].pc = "erase" /\ w[b].outputs => Unserved(opOf[b], w[b].claim))'
        BY <4>1, <4>3 DEF DismissedOK
      <4>7. (w[b].pc \in {"erase", "complete"} => Over(opOf[b], w[b].claim))'
        BY <4>1, <4>3 DEF DismissedOK
      <4>8. (w[b].pc \in {"execute", "reject"} /\ op[opOf[b]].claim = w[b].claim =>
               op[opOf[b]].st \in {"processing", "aborted", "failed"})'
        BY <3>1, <4>1, <2>0 DEF DismissedOK
      <4>9. (w[b].claim >= 1 /\ op[opOf[b]].claim = w[b].claim /\ op[opOf[b]].st = "processing" =>
               w[b].own /\ w[b].pc \in {"execute", "reject", "finalize"})'
        BY <3>1, <4>1, <2>0 DEF DismissedOK
      <4> QED BY <4>4, <4>5, <4>6, <4>7, <4>8, <4>9
    <3>2. CASE ~(w[b].claim >= 1 /\ opOf[b] \in Op)
      BY <3>2, <1>t, <1>u DEF WorkersOK, AnswersOK, Outside, Stock
    <3> QED BY <3>1, <3>2
  <2> QED BY <2>4, <2>5 DEF DismissedOK
<1>20. StoredOK'
  BY <1>t, <1>1, <1>2, <1>3, <1>4, <1>5, <1>6, <1>7, <1>u DEF StoredOK, Mine
<1>21. TidyOK'
  BY <1>t, <1>1, <1>2, <1>3, <1>4, <1>5, <1>6, <1>7, <1>u DEF TidyOK, Tidy, Served, Terminal
<1>22. TasksOK'
  BY <1>t, <1>1, <1>2, <1>3, <1>4, <1>5, <1>6, <1>7, <1>u DEF TasksOK, Past, Over, Tidy, Served,
     Terminal
<1>23. LedgerOK'
  BY <1>t, <1>1, <1>2, <1>3, <1>4, <1>5, <1>6, <1>7, <1>u DEF LedgerOK
<1>24. PoolOK'
  <2>1. Prepared' \subseteq Prepared
    BY <1>t, <1>1, <1>2, <1>3, <1>4, <1>5, <1>6, <1>7, <1>u DEF Prepared
  <2>2. ActiveOps' \subseteq ActiveOps
    BY <1>t, <1>1, <1>2, <1>3, <1>4, <1>5, <1>6, <1>7, <1>u DEF ActiveOps
  <2> QED BY <2>1, <2>2, <1>u, PoolShrinks DEF InputTypes
<1>25. PromotionExclusive'
  BY <1>t, <1>1, <1>2, <1>3, <1>4, <1>5, <1>6, <1>7, <1>u DEF PromotionExclusive, Prepared,
     ActiveOps, WorkersOK, Outside, Stock
<1>26. InputTypes' /\ WorkersOK'
  BY <1>u, InputTypesFrame, WorkersOKFrame
<1> QED BY <1>8, <1>9, <1>10, <1>11, <1>12, <1>13, <1>14, <1>15, <1>16, <1>17, <1>18, <1>19, <1>20,
   <1>21, <1>22, <1>23, <1>24, <1>25, <1>26

\* A run that may publish holds the lane, and has read what is stored.
LEMMA PublishFacts ==
  ASSUME StockInv, NEW x \in Runs, fin[x].pc = "publish", WalHolds(x)
  PROVE  /\ fin[x].op \in Op /\ fin[x].claim \in 1 .. MaxClaims /\ fin[x].claim <= issued[fin[x].op]
         /\ OutKey(x) = <<fin[x].op, fin[x].claim>> /\ OutKey(x) \in Key
         /\ op[fin[x].op].st = "ready" /\ op[fin[x].op].claim = fin[x].claim
         /\ op[fin[x].op].lease \in Request /\ opOf[op[fin[x].op].lease] = fin[x].op
         /\ Used(op[fin[x].op].lease) /\ rlease.tok = op[fin[x].op].lease
         /\ fin[x].tok = op[fin[x].op].lease /\ fin[x].says = None
         /\ fin[x].refs = refs /\ fin[x].ver = version /\ fin[x].seq = seq /\ Valid(fin[x].op, refs)
         /\ Wal(x) = [intent EXCEPT ![op[fin[x].op].lease] = [ver |-> version, seq |-> seq]]
         /\ row[OutKey(x)] \in {0, seq} /\ ~Drifted(x) /\ CasHolds(x)
<1> USE DEF StockInv
<1>1. /\ fin[x].op \in Op /\ fin[x].claim \in 1 .. MaxClaims /\ fin[x].claim <= issued[fin[x].op]
      /\ Claimed(x) /\ Ready(x) /\ op[fin[x].op].st = "ready" /\ op[fin[x].op].claim = fin[x].claim
      /\ Token(x) = op[fin[x].op].lease
  BY RunOK DEF WalHolds, Ready, Claimed, Owned, Token
<1>2. /\ op[fin[x].op].lease \in Request /\ opOf[op[fin[x].op].lease] = fin[x].op
      /\ Used(op[fin[x].op].lease)
  BY <1>1, RunOK
<1>3. /\ OutKey(x) = <<fin[x].op, fin[x].claim>> /\ OutKey(x) \in Key
  BY <1>1 DEF OutKey, Key
<1>4. /\ rlease.tok = op[fin[x].op].lease /\ fin[x].tok = op[fin[x].op].lease
      /\ fin[x].says = None
  BY <1>1 DEF FinsOK, LaneOK
<1>5. fin[x].refs = refs /\ fin[x].ver = version /\ fin[x].seq = seq /\ Valid(fin[x].op, refs)
  BY <1>1 DEF LaneOK
<1>6. Planned(x) => intent[op[fin[x].op].lease] = [ver |-> version, seq |-> seq]
  BY <1>1, <1>2 DEF Planned, WalOK
<1>7. Wal(x) = [intent EXCEPT ![op[fin[x].op].lease] = [ver |-> version, seq |-> seq]]
  <2>1. CASE Planned(x)
    <3>1. Wal(x) = [intent EXCEPT ![op[fin[x].op].lease] = intent[op[fin[x].op].lease]]
      BY <1>1, <2>1 DEF Wal
    <3> QED BY <1>6, <2>1, <3>1
  <2>2. CASE ~Planned(x)
    BY <1>1, <1>5, <2>2 DEF Wal, Foreseen
  <2> QED BY <2>1, <2>2
<1>8. row[OutKey(x)] \in {0, seq}
  <2>1. CASE op[fin[x].op].plan
    BY <1>1, <1>3, <2>1 DEF WalOK
  <2>2. CASE ~op[fin[x].op].plan
    BY <1>1, <1>3, <2>2 DEF RowsOK
  <2> QED BY <2>1, <2>2
<1>9. Wal(x)[Token(x)] = [ver |-> version, seq |-> seq]
  BY <1>1, <1>2, <1>7 DEF StoreTypes
<1>10. ~Drifted(x)
  <2>1. Wal(x)[Token(x)].ver = version /\ Wal(x)[Token(x)].seq = seq
    BY <1>9
  <2> HIDE DEF StockInv
  <2> QED BY <2>1, <1>5, <1>8 DEF Drifted
<1>11. CasHolds(x)
  BY <1>1, <1>5 DEF CasHolds
<1> QED BY <1>1, <1>2, <1>3, <1>4, <1>5, <1>7, <1>8, <1>10, <1>11

\* The claims that requests, runs and consumers work on.
LEMMA ClaimTypes ==
  ASSUME StockInv
  PROVE  /\ \A y \in Runs : fin[y].pc # "idle" \/ fin[y].says # None =>
              fin[y].op \in Op /\ fin[y].claim \in 1 .. MaxClaims
         /\ \A b \in Request :
              w[b].claim >= 1 \/ w[b].says # None \/ w[b].pc \notin Outside \cup {"done"} =>
                opOf[b] \in Op /\ w[b].claim \in 1 .. MaxClaims
         /\ \A p \in Op : task[p].pc # "idle" => task[p].claim \in 1 .. MaxClaims
<1> USE DEF StockInv
<1>1. ASSUME NEW y \in Runs, fin[y].pc # "idle" \/ fin[y].says # None
      PROVE  fin[y].op \in Op /\ fin[y].claim \in 1 .. MaxClaims
  <2>1. fin[y].pc # "idle"
    BY <1>1, NoFinOK DEF FinsOK
  <2> QED BY <2>1, RunOK
<1>2. ASSUME NEW b \in Request,
             w[b].claim >= 1 \/ w[b].says # None \/ w[b].pc \notin Outside \cup {"done"}
      PROVE  opOf[b] \in Op /\ w[b].claim \in 1 .. MaxClaims
  <2>1. w[b].claim \in 0 .. MaxClaims
    BY DEF ActorTypes, Workers
  <2>2. w[b].claim >= 1
    BY <1>2 DEF WorkersOK, AnswersOK, Outside
  <2> QED BY <2>1, <2>2 DEF WorkersOK, Stock
<1>3. ASSUME NEW p \in Op, task[p].pc # "idle"
      PROVE  task[p].claim \in 1 .. MaxClaims
  <2>1. task[p].claim \in 0 .. MaxClaims
    BY DEF ActorTypes, Tasks
  <2>2. task[p].claim >= 1
    BY <1>3 DEF TasksOK
  <2> QED BY <2>1, <2>2
<1> QED BY <1>1, <1>2, <1>3

\* The row of the publication in progress does not concern the claims that are over.
LEMMA PublishingRow ==
  ASSUME StockInv, NEW o \in Op, NEW c \in 1 .. MaxClaims, op[o].st = "ready",
         op[o].claim = c, refOnly' = refOnly, forgotten' = forgotten, issued' = issued,
         moved \subseteq moved',
         \A p \in Op : op'[p].claim = op[p].claim /\ (p # o => op'[p].st = op[p].st),
         op'[o].st \in {"ready", "finalizing"},
         \A k \in Key : k # <<o, c>> => row'[k] = row[k],
         row'[<<o, c>>] = row[<<o, c>>] \/ row'[<<o, c>>] # 0
  PROVE  \A p \in Op : \A d \in 1 .. MaxClaims :
           /\ row[<<p, d>>] # 0 => row'[<<p, d>>] # 0
           /\ Past(p, d) => row'[<<p, d>>] = row[<<p, d>>]
           /\ (Served(p, d) => Served(p, d)') /\ (Over(p, d) => Over(p, d)')
           /\ (Past(p, d) => Past(p, d)') /\ (Unserved(p, d) => Unserved(p, d)')
<1> SUFFICES ASSUME NEW p \in Op, NEW d \in 1 .. MaxClaims
             PROVE  /\ row[<<p, d>>] # 0 => row'[<<p, d>>] # 0
                    /\ Past(p, d) => row'[<<p, d>>] = row[<<p, d>>]
                    /\ (Served(p, d) => Served(p, d)') /\ (Over(p, d) => Over(p, d)')
                    /\ (Past(p, d) => Past(p, d)') /\ (Unserved(p, d) => Unserved(p, d)')
  BY Zenon
<1>1. <<p, d>> \in Key
  BY DEF Key
<1>2. \/ <<p, d>> # <<o, c>> /\ row'[<<p, d>>] = row[<<p, d>>]
      \/ p = o /\ d = c /\ (row'[<<p, d>>] = row[<<p, d>>] \/ row'[<<p, d>>] # 0)
  BY <1>1
<1>3. op'[p].claim = op[p].claim /\ (op'[p].st = op[p].st \/ (p = o /\ op'[p].st = "finalizing"))
  BY DEF Terminal
<1>4. (row[<<p, d>>] # 0 => row'[<<p, d>>] # 0) /\ (Past(p, d) => row'[<<p, d>>] = row[<<p, d>>])
  BY <1>2 DEF Past
<1>5. (Served(p, d) => Served(p, d)') /\ (Over(p, d) => Over(p, d)')
  BY <1>3, <1>4 DEF Served, Over, Terminal
<1>6. (Past(p, d) => Past(p, d)')
  BY <1>3 DEF Past
<1>7. Unserved(p, d) => Unserved(p, d)'
  BY <1>4, <1>6 DEF Unserved
<1> QED BY <1>4, <1>5, <1>6, <1>7

\* The publication moves the ref.
LEMMA FinPublishLandsStep ==
  ASSUME StockInv, NEW x \in Runs, FinPublish(x), WalHolds(x)
  PROVE  StockInv'
<1> USE DEF StockInv
<1>t. /\ None \notin Request \cup {"busy", "conflict", "cleanup", "rejected", "replayed", "pending"}
      /\ op \in [Op -> Ops] /\ w \in [Request -> Workers] /\ fin \in [Runs -> Fins]
      /\ (\A p \in Op : op[p].claim \in Nat /\ issued[p] \in Nat)
      /\ (\A b \in Request : w[b].claim \in Nat) /\ (\A y \in Runs : fin[y].claim \in Nat)
  BY FieldTypes DEF InputTypes, StoreTypes, ActorTypes
<1>u. UNCHANGED <<opOf, refOf, expect, refOnly, pool, retained, ledger, prep, please, reclease,
   bucket, queued, task, w, issued, late, forgotten, faults, edits>>
  BY DEF FinPublish, inputs, leases, history
<1>1. PICK o \in Op, c \in 1 .. MaxClaims, t \in Request :
       /\ o = fin[x].op /\ c = fin[x].claim /\ t = op[o].lease /\ opOf[t] = o /\ Used(t)
       /\ op[o].st = "ready" /\ op[o].claim = c /\ c <= issued[o] /\ OutKey(x) = <<o, c>>
       /\ <<o, c>> \in Key
  <2>1. /\ fin[x].op \in Op /\ fin[x].claim \in 1 .. MaxClaims /\ op[fin[x].op].lease \in Request
        /\ opOf[op[fin[x].op].lease] = fin[x].op /\ Used(op[fin[x].op].lease)
        /\ op[fin[x].op].st = "ready" /\ op[fin[x].op].claim = fin[x].claim
        /\ fin[x].claim <= issued[fin[x].op] /\ OutKey(x) = <<fin[x].op, fin[x].claim>>
        /\ <<fin[x].op, fin[x].claim>> \in Key
    BY PublishFacts, Zenon DEF FinPublish
  <2> HIDE DEF StockInv
  <2> QED BY <2>1
<1>2. /\ rlease.tok = t /\ fin[x].tok = t /\ fin[x].says = None /\ fin[x].pc = "publish"
      /\ fin[x].refs = refs /\ fin[x].ver = version /\ fin[x].seq = seq /\ Valid(o, refs)
      /\ row[<<o, c>>] \in {0, seq}
  BY <1>1, PublishFacts, Zenon DEF FinPublish
<1>3. PICK i \in Intents : intent' = [intent EXCEPT ![t] = i] /\ i.ver >= 0 /\ i # NoIntent /\ alarm' = TRUE
  <2>1. intent' = [intent EXCEPT ![t] = [ver |-> version, seq |-> seq]]
    BY <1>1, PublishFacts, Zenon DEF FinPublish
  <2>2. version \in Nat /\ seq \in Nat
    BY DEF StoreTypes
  <2>3. PICK i : i = [ver |-> version, seq |-> seq]
    OBVIOUS
  <2>4. i \in Intents /\ i.ver = version /\ i.ver >= 0
    BY <2>2, <2>3 DEF Intents
  <2>5. NoIntent.ver = -1
    BY DEF NoIntent
  <2> HIDE DEF StockInv
  <2>6. alarm' = TRUE
    BY DEF FinPublish
  <2>7. i # NoIntent
    BY <2>2, <2>4, <2>5
  <2> QED BY <2>6, <2>7, <2>1, <2>2, <2>3, <2>4, <2>5, Zenon
<1>4. /\ row' \in [Key -> Nat] /\ (\A k \in Key : k # <<o, c>> => row'[k] = row[k])
      /\ (o \in refOnly => row' = row) /\ (o \notin refOnly => row'[<<o, c>>] # 0)
  <2>1. row' = IF o \in refOnly THEN row ELSE [row EXCEPT ![<<o, c>>] = seq]
    BY <1>1, <1>2, PublishFacts, Zenon DEF FinPublish, Upserted
  <2>2. row \in [Key -> Nat] /\ seq \in Nat /\ seq # 0
    BY DEF StoreTypes
  <2> QED BY <1>1, <2>1, <2>2
<1>5. /\ refs' = [refs EXCEPT ![refOf[o]] = o] /\ last' = [last EXCEPT ![refOf[o]] = o]
      /\ landed' = [landed EXCEPT ![o] = landed[o] + 1] /\ moved' = moved \cup {o}
      /\ version' \in Nat /\ seq' \in Nat \ {0}
  <2>1. /\ refs' = [refs EXCEPT ![refOf[o]] = o] /\ last' = [last EXCEPT ![refOf[o]] = o]
        /\ landed' = [landed EXCEPT ![o] = landed[o] + 1] /\ moved' = moved \cup {o}
        /\ version' = version + 1 /\ seq' = IF o \in refOnly THEN seq ELSE seq + 1
    BY <1>1, <1>2, PublishFacts, Zenon DEF FinPublish
  <2> QED BY <2>1 DEF StoreTypes
<1>6. refOf[o] \in Ref /\ o \in Value /\ landed[o] = 0
  BY <1>1 DEF InputTypes, Value, LandedOK
<1>7. PICK e \in Ops :
       /\ op' = [op EXCEPT ![o] = e]
       /\ e.st = "finalizing" /\ e.claim = op[o].claim /\ e.lease = op[o].lease
       /\ (e.lapsed <=> op[o].lapsed)
       /\ (e.pend <=> op[o].pend) /\ (e.retry <=> op[o].retry) /\ e.plan
  <2>1. op' = [op EXCEPT ![o].st = "finalizing", ![o].plan = TRUE]
    BY <1>1, PublishFacts, Zenon DEF FinPublish
  <2>2. op \in [Op -> Ops] /\ o \in Op
    BY <1>t, <1>1
  <2>3. PICK d, f : d = op[o] /\ f = [d EXCEPT !.st = "finalizing", !.plan = TRUE]
    BY Zenon
  <2>4. d \in Ops /\ op' = [op EXCEPT ![o] = f]
    BY ONLY <2>1, <2>2, <2>3
  <2>5. f \in Ops
    BY ONLY <2>3, <2>4 DEF Ops, Terminal
  <2>6. op'[o] \in Ops /\ op' = [op EXCEPT ![o] = op'[o]]
    BY ONLY <2>2, <2>4, <2>5
  <2>7. /\ op'[o].st = "finalizing" /\ op'[o].claim = op[o].claim /\ op'[o].lease = op[o].lease
        /\ (op'[o].lapsed <=> op[o].lapsed)
        /\ (op'[o].pend <=> op[o].pend) /\ (op'[o].retry <=> op[o].retry) /\ op'[o].plan
    BY <1>t, <2>1, <1>1 DEF Ops
  <2> QED BY <2>6, <2>7
<1>8. /\ rlease' \in ReceiveLeases /\ rlease'.tok = None /\ ~rlease'.live
  <2>1. rlease' = Dropped(t)
    BY <1>1, PublishFacts, Zenon DEF FinPublish
  <2> QED BY <2>1, <1>2, DroppedOK DEF StoreTypes
<1>9. PICK g \in Fins :
       /\ fin' = [fin EXCEPT ![x] = g]
       /\ g.pc = "release" /\ g.op = fin[x].op /\ g.claim = fin[x].claim /\ g.ver = fin[x].ver
       /\ g.seq = fin[x].seq /\ g.refs = fin[x].refs /\ g.tok = fin[x].tok /\ g.says = "pending"
  <2>1. fin' = [fin EXCEPT ![x].pc = "release", ![x].says = "pending"]
    BY PublishFacts, Zenon DEF FinPublish, Says
  <2>2. fin \in [Runs -> Fins] /\ x \in Runs
    BY <1>t
  <2>3. PICK d, f : d = fin[x] /\ f = [d EXCEPT !.pc = "release", !.says = "pending"]
    BY Zenon
  <2>4. d \in Fins /\ fin' = [fin EXCEPT ![x] = f]
    BY ONLY <2>1, <2>2, <2>3
  <2>5. f \in Fins
    BY ONLY <2>3, <2>4 DEF Fins, Answers, Said
  <2>6. fin'[x] \in Fins /\ fin' = [fin EXCEPT ![x] = fin'[x]]
    BY ONLY <2>2, <2>4, <2>5
  <2>7. /\ fin'[x].pc = "release" /\ fin'[x].op = fin[x].op /\ fin'[x].claim = fin[x].claim
        /\ fin'[x].ver = fin[x].ver
        /\ fin'[x].seq = fin[x].seq /\ fin'[x].refs = fin[x].refs /\ fin'[x].tok = fin[x].tok
        /\ fin'[x].says = "pending"
    BY <1>t, <2>1 DEF Fins
  <2> QED BY <2>6, <2>7
<1>10. \A p \in Op : \A d \in 1 .. MaxClaims :
       /\ row[<<p, d>>] # 0 => row'[<<p, d>>] # 0
       /\ Past(p, d) => row'[<<p, d>>] = row[<<p, d>>]
       /\ (Served(p, d) => Served(p, d)') /\ (Over(p, d) => Over(p, d)')
       /\ (Past(p, d) => Past(p, d)') /\ (Unserved(p, d) => Unserved(p, d)')
  <2>1. /\ op[o].st = "ready" /\ op[o].claim = c /\ op'[o].st \in {"ready", "finalizing"}
        /\ \A p \in Op : op'[p].claim = op[p].claim /\ (p # o => op'[p].st = op[p].st)
    BY <1>t, <1>1, <1>7
  <2>2. /\ refOnly' = refOnly /\ forgotten' = forgotten /\ issued' = issued /\ moved \subseteq moved'
    BY <1>5, <1>u
  <2>3. /\ \A k \in Key : k # <<o, c>> => row'[k] = row[k]
        /\ row'[<<o, c>>] = row[<<o, c>>] \/ row'[<<o, c>>] # 0
    BY <1>4
  <2> HIDE DEF StockInv
  <2> QED BY <2>1, <2>2, <2>3, PublishingRow, Zenon
<1>11. /\ \A y \in Runs : fin[y].pc # "idle" \/ fin[y].says # None =>
            fin[y].op \in Op /\ fin[y].claim \in 1 .. MaxClaims
       /\ \A b \in Request :
            w[b].claim >= 1 \/ w[b].says # None \/ w[b].pc \notin Outside \cup {"done"} =>
              opOf[b] \in Op /\ w[b].claim \in 1 .. MaxClaims
       /\ \A p \in Op : task[p].pc # "idle" => task[p].claim \in 1 .. MaxClaims
  BY ClaimTypes
<1>12. StoreTypes'
  BY <1>t, <1>1, <1>2, <1>3, <1>4, <1>5, <1>6, <1>7, <1>8, <1>9, <1>u DEF StoreTypes
<1>13. ActorTypes'
  BY <1>t, <1>1, <1>2, <1>3, <1>4, <1>5, <1>6, <1>7, <1>8, <1>9, <1>u DEF ActorTypes
<1>14. RecordsOK'
  BY <1>t, <1>1, <1>2, <1>3, <1>4, <1>5, <1>6, <1>7, <1>8, <1>9, <1>u DEF RecordsOK
<1>15. OwnersOK'
  BY <1>t, <1>1, <1>2, <1>3, <1>4, <1>5, <1>6, <1>7, <1>8, <1>9, <1>u DEF OwnersOK, WorkersOK,
     Outside, Stock
<1>16. TokensOK'
  <2>1. TokensOK
    OBVIOUS
  <2> QED BY ONLY <2>1, <1>t, <1>2, <1>3, <1>7, <1>8, <1>9, <1>u DEF TokensOK, Used, Stock
<1>17. FinsOK'
  <2>1. FinsOK
    OBVIOUS
  <2> QED BY ONLY <2>1, <1>t, <1>2, <1>7, <1>9, <1>u DEF FinsOK, Claimed, Owned, Token
<1>18. LaneOK'
  <2>1. LaneOK /\ FinsOK
    OBVIOUS
  <2> QED BY ONLY <2>1, <1>t, <1>1, <1>2, <1>7, <1>9 DEF LaneOK, Ready, Claimed, Owned, FinsOK
<1>19. LandedOK'
  <2>1. refs' = last'
    BY <1>5 DEF LandedOK
  <2>2. ASSUME NEW p \in Op
        PROVE  IF op'[p].st \in {"finalizing", "committed"}
               THEN landed'[p] = 1 /\ p \in moved' /\ (p \in refOnly' \/ row'[<<p, op'[p].claim>>] # 0)
               ELSE landed'[p] = 0
    <3>1. CASE p = o
      <4>1. landed'[o] = 1 /\ o \in moved' /\ refOnly' = refOnly
        BY <1>5, <1>6, <1>u DEF ActorTypes
      <4>2. op'[o].st = "finalizing" /\ op'[o].claim = c
        BY <1>t, <1>1, <1>7
      <4> QED BY <3>1, <4>1, <4>2, <1>4
    <3>2. CASE p # o
      <4>1. op'[p] = op[p] /\ landed'[p] = landed[p] /\ op[p].claim \in Nat
        BY <3>2, <1>t, <1>5, <1>7 DEF ActorTypes
      <4>2. op[p].st \in {"finalizing", "committed"} => <<p, op[p].claim>> \in Key
        <5>1. op[p].claim \in 0 .. MaxClaims
          BY <1>t DEF Ops
        <5>2. op[p].st # "none" => op[p].claim >= 1
          BY DEF RecordsOK
        <5> QED BY <5>1, <5>2 DEF Key
      <4>3. <<p, op[p].claim>> # <<o, c>>
        BY <3>2
      <4> QED BY <4>1, <4>2, <4>3, <1>4, <1>5, <1>u DEF LandedOK
    <3> QED BY <3>1, <3>2
  <2> QED BY <2>1, <2>2 DEF LandedOK
<1>20. AnswersOK'
  <2>1. ASSUME NEW y \in Runs, fin'[y].says = "replayed"
        PROVE  (Served(fin[y].op, fin[y].claim) /\ Over(fin[y].op, fin[y].claim))'
    <3>1. fin'[y] = fin[y]
      BY <2>1, <1>t, <1>9
    <3>2. /\ Served(fin[y].op, fin[y].claim) /\ Over(fin[y].op, fin[y].claim)
          /\ fin[y].op \in Op /\ fin[y].claim \in 1 .. MaxClaims
      BY <2>1, <3>1, <1>t, <1>11 DEF AnswersOK
    <3> QED BY ONLY <3>1, <3>2, <1>10
  <2>2. ASSUME NEW b \in Request
        PROVE  /\ w'[b].acked => opOf'[b] \in moved'
               /\ w'[b].says # None => w'[b].pc = "refused"
               /\ w'[b].says = "replayed" =>
                    (Served(opOf[b], w[b].claim) /\ Over(opOf[b], w[b].claim))'
    <3>1. w'[b] = w[b] /\ opOf'[b] = opOf[b] /\ moved \subseteq moved'
      BY <1>5, <1>u
    <3>2. /\ w[b].acked => opOf[b] \in moved
          /\ w[b].says # None => w[b].pc = "refused"
          /\ w[b].says = "replayed" =>
               Served(opOf[b], w[b].claim) /\ Over(opOf[b], w[b].claim)
      BY DEF AnswersOK
    <3>3. w[b].says = "replayed" => opOf[b] \in Op /\ w[b].claim \in 1 .. MaxClaims
      BY <1>t, <1>11
    <3>4. w[b].says = "replayed" =>
            Served(opOf[b], w[b].claim)' /\ Over(opOf[b], w[b].claim)'
      BY ONLY <3>1, <3>2, <3>3, <1>10
    <3> QED BY ONLY <3>1, <3>2, <3>4
  <2> QED BY <2>1, <2>2 DEF AnswersOK
<1>21. WalOK'
  <2>1. WalOK /\ RecordsOK
    OBVIOUS
  <2> QED BY ONLY <2>1, <1>t, <1>1, <1>2, <1>3, <1>7 DEF WalOK, RecordsOK
<1>22. RowsOK'
  <2> SUFFICES ASSUME NEW p \in Op
               PROVE  /\ op'[p].st \in {"processing", "aborted", "failed"} => row'[<<p, op'[p].claim>>] = 0
                      /\ op'[p].st = "ready" /\ ~op'[p].plan => row'[<<p, op'[p].claim>>] = 0
                      /\ \A d \in 1 .. MaxClaims : d > issued'[p] => row'[<<p, d>>] = 0
    BY Zenon DEF RowsOK
  <2>1. \A d \in 1 .. MaxClaims : d > issued'[p] => row'[<<p, d>>] = 0
    <3>1. ASSUME NEW d \in 1 .. MaxClaims, d > issued'[p] PROVE row'[<<p, d>>] = 0
      <4>1. <<p, d>> \in Key /\ <<p, d>> # <<o, c>>
        BY <3>1, <1>t, <1>1, <1>u DEF Key
      <4> QED BY <3>1, <4>1, <1>4, <1>u DEF RowsOK
    <3> QED BY <3>1
  <2>2. CASE p = o
    BY <2>1, <2>2, <1>t, <1>1, <1>7
  <2>3. CASE p # o
    <3>1. op'[p] = op[p] /\ <<p, op[p].claim>> # <<o, c>>
      BY <2>3, <1>t, <1>7
    <3>2. op[p].st # "none" => <<p, op[p].claim>> \in Key
      <4>1. op[p].claim \in 0 .. MaxClaims
        BY <1>t DEF Ops
      <4>2. op[p].st # "none" => op[p].claim >= 1
        BY DEF RecordsOK
      <4> QED BY <4>1, <4>2 DEF Key
    <3> QED BY <2>1, <3>1, <3>2, <1>4 DEF RowsOK
  <2> QED BY <2>2, <2>3
<1>23. DismissedOK'
  <2>1. ASSUME NEW y \in Request, fin'[y].says \in {"conflict", "cleanup", "rejected"}, w'[y].pc = "called"
        PROVE  Unserved(fin[y].op, fin[y].claim)'
    <3>1. y \in Runs /\ fin'[y] = fin[y] /\ w'[y] = w[y]
      BY <2>1, <1>t, <1>9, <1>u, <1>u DEF Runs
    <3>2. Unserved(fin[y].op, fin[y].claim) /\ fin[y].op \in Op /\ fin[y].claim \in 1 .. MaxClaims
      BY <2>1, <3>1, <1>t, <1>11 DEF DismissedOK
    <3> QED BY <3>1, <3>2, <1>10
  <2>2. ASSUME NEW b \in Request
        PROVE  /\ (w[b].claim >= 1 /\ op[opOf[b]].claim # w[b].claim =>
                    row[Mine(b)] = 0 \/ opOf[b] \in forgotten)'
               /\ (w[b].says \in {"conflict", "cleanup", "rejected"} => Unserved(opOf[b], w[b].claim))'
               /\ (w[b].pc = "erase" /\ w[b].outputs => Unserved(opOf[b], w[b].claim))'
               /\ (w[b].pc \in {"erase", "complete"} => Over(opOf[b], w[b].claim))'
               /\ (w[b].pc \in {"execute", "reject"} /\ op[opOf[b]].claim = w[b].claim =>
                    op[opOf[b]].st \in {"processing", "aborted", "failed"})'
               /\ (w[b].claim >= 1 /\ op[opOf[b]].claim = w[b].claim /\ op[opOf[b]].st = "processing" =>
                    w[b].own /\ w[b].pc \in {"execute", "reject", "finalize"})'
    <3>1. CASE w[b].claim >= 1 /\ w'[b] = w[b]
      <4>1. /\ opOf[b] \in Op /\ w[b].claim \in 1 .. MaxClaims /\ opOf'[b] = opOf[b]
            /\ Mine(b) = <<opOf[b], w[b].claim>> /\ Mine(b)' = <<opOf[b], w[b].claim>>
        BY <3>1, <1>u, <1>11 DEF Mine
      <4>2. /\ Unserved(opOf[b], w[b].claim) => Unserved(opOf[b], w[b].claim)'
            /\ Over(opOf[b], w[b].claim) => Over(opOf[b], w[b].claim)'
        BY <3>1, <4>1, <1>10
      <4>3. /\ op'[opOf[b]].claim = op[opOf[b]].claim
            /\ op'[opOf[b]].st = op[opOf[b]].st \/ (op[opOf[b]].st = "ready" /\ op'[opOf[b]].st = "finalizing")
        BY <4>1, <1>t, <1>1, <1>7
      <4>4. op[opOf[b]].claim # w[b].claim => row'[<<opOf[b], w[b].claim>>] = row[<<opOf[b], w[b].claim>>]
        BY <4>1, <1>1, <1>4 DEF Key
      <4>5. (w[b].claim >= 1 /\ op[opOf[b]].claim # w[b].claim => row[Mine(b)] = 0 \/ opOf[b] \in forgotten)'
        BY <3>1, <4>1, <4>3, <4>4, <1>u DEF DismissedOK
      <4>6. /\ (w[b].says \in {"conflict", "cleanup", "rejected"} => Unserved(opOf[b], w[b].claim))'
            /\ (w[b].pc = "erase" /\ w[b].outputs => Unserved(opOf[b], w[b].claim))'
            /\ (w[b].pc \in {"erase", "complete"} => Over(opOf[b], w[b].claim))'
        BY <3>1, <4>1, <4>2 DEF DismissedOK
      <4>7. /\ (w[b].pc \in {"execute", "reject"} /\ op[opOf[b]].claim = w[b].claim =>
                 op[opOf[b]].st \in {"processing", "aborted", "failed"})'
            /\ (w[b].claim >= 1 /\ op[opOf[b]].claim = w[b].claim /\ op[opOf[b]].st = "processing" =>
                 w[b].own /\ w[b].pc \in {"execute", "reject", "finalize"})'
        BY <3>1, <4>1, <4>3 DEF DismissedOK
      <4> QED BY <4>5, <4>6, <4>7
    <3>2. CASE ~(w[b].claim >= 1 /\ w'[b] = w[b])
      BY <3>2, <1>t, <1>u, <1>u DEF WorkersOK, AnswersOK, Outside, Stock
    <3> QED BY <3>1, <3>2
  <2> QED BY <2>1, <2>2 DEF DismissedOK
<1>24. StoredOK'
  BY <1>t, <1>1, <1>2, <1>3, <1>4, <1>5, <1>6, <1>7, <1>8, <1>9, <1>u DEF StoredOK, Mine, Key
<1>25. TidyOK'
  <2>1. \A p \in Op : \A d \in 1 .. MaxClaims : Tidy(p, d) => Tidy(p, d)'
    BY <1>10, <1>u DEF Tidy
  <2>2. \A p \in Op : op'[p].claim = op[p].claim /\ (op'[p].st \in Terminal => op[p].st \in Terminal)
          /\ (op'[p].pend <=> op[p].pend)
    BY <1>t, <1>1, <1>7 DEF Terminal
  <2>3. \A p \in Op \ late : \A d \in 1 .. MaxClaims :
       <<p, d>> \in bucket /\ row'[<<p, d>>] = 0 =>
         op'[p].claim = d /\ (op'[p].st \in Terminal => op'[p].pend)
    BY <1>10, <2>2 DEF TidyOK
  <2>4. ASSUME NEW b \in Request
        PROVE  /\ (w[b].pc = "erase" /\ w[b].close /\ ~w[b].outputs => Served(opOf[b], w[b].claim))'
               /\ (w[b].pc = "complete" => Tidy(opOf[b], w[b].claim))'
    <3>1. CASE w[b].pc \in {"erase", "complete"} /\ w'[b] = w[b]
      <4>1. opOf[b] \in Op /\ w[b].claim \in 1 .. MaxClaims /\ opOf'[b] = opOf[b]
        BY <3>1, <1>u, <1>11 DEF Outside
      <4> QED BY <3>1, <4>1, <2>1, <1>10 DEF TidyOK
    <3>2. CASE ~(w[b].pc \in {"erase", "complete"} /\ w'[b] = w[b])
      BY <3>2, <1>t, <1>u, <1>u
    <3> QED BY <3>1, <3>2
  <2> QED BY <2>3, <2>4, <1>u DEF TidyOK
<1>26. TasksOK'
  <2> SUFFICES ASSUME NEW p \in Op
               PROVE  /\ (task[p].pc # "idle" => task[p].claim >= 1 /\ task[p].claim <= issued[p])'
                      /\ (task[p].outputs => task[p].pc \in {"erase", "complete"})'
                      /\ (task[p].pc = "erase" /\ task[p].outputs =>
                           Past(p, task[p].claim) /\ row[<<p, task[p].claim>>] = 0)'
                      /\ (task[p].pc = "erase" /\ ~task[p].outputs => Served(p, task[p].claim))'
                      /\ (task[p].pc \in {"erase", "complete"} => Over(p, task[p].claim))'
                      /\ (task[p].pc = "complete" => Tidy(p, task[p].claim))'
    BY Zenon DEF TasksOK
  <2>1. CASE task[p].pc = "idle"
    BY <2>1, <1>u DEF TasksOK
  <2>2. CASE task[p].pc # "idle"
    <3>1. task'[p] = task[p] /\ task[p].claim \in 1 .. MaxClaims
      BY <2>2, <1>u, <1>11
    <3>2. Tidy(p, task[p].claim) => Tidy(p, task[p].claim)'
      BY <3>1, <1>10, <1>u DEF Tidy
    <3> QED BY <3>1, <3>2, <1>10, <1>u DEF TasksOK
  <2> QED BY <2>1, <2>2
<1>27. LedgerOK'
  BY <1>t, <1>1, <1>2, <1>3, <1>4, <1>5, <1>6, <1>7, <1>8, <1>9, <1>u DEF LedgerOK
<1>28. PoolOK'
  <2>1. Prepared' \subseteq Prepared
    BY <1>t, <1>1, <1>2, <1>3, <1>4, <1>5, <1>6, <1>7, <1>8, <1>9, <1>u DEF Prepared
  <2>2. ActiveOps' \subseteq ActiveOps
    BY <1>t, <1>1, <1>2, <1>3, <1>4, <1>5, <1>6, <1>7, <1>8, <1>9, <1>u DEF ActiveOps
  <2> QED BY <2>1, <2>2, <1>u, PoolShrinks DEF InputTypes
<1>29. PromotionExclusive'
  BY <1>t, <1>1, <1>2, <1>3, <1>4, <1>5, <1>6, <1>7, <1>8, <1>9, <1>u DEF PromotionExclusive,
     Prepared, ActiveOps, WorkersOK, Outside, Stock
<1>30. InputTypes' /\ WorkersOK'
  BY <1>u, InputTypesFrame, WorkersOKFrame
<1> QED BY <1>12, <1>13, <1>14, <1>15, <1>16, <1>17, <1>18, <1>19, <1>20, <1>21, <1>22, <1>23,
   <1>24, <1>25, <1>26, <1>27, <1>28, <1>29, <1>30

\* An eviction ends all runs and the requests that wait for one.
LEMMA StoppedFacts ==
  ASSUME StockInv, Stopped
  PROVE  /\ fin' \in [Runs -> Fins] /\ w' \in [Request -> Workers] /\ faults' \in Nat
         /\ \A y \in Runs : fin'[y] = NoFin
         /\ \A b \in Request :
              \/ w'[b] = w[b] /\ w[b].pc # "called"
              \/ /\ w[b].pc = "called" /\ w'[b].pc = "done" /\ w'[b].claim = 0 /\ ~w'[b].own
                 /\ ~w'[b].outputs /\ ~w'[b].close /\ ~w'[b].acked /\ w'[b].says = None
<1> USE DEF StockInv
<1>1. fin' = [y \in Runs |-> NoFin]
  BY DEF Stopped, Runs
<1>2. w' = [b \in Request |-> IF w[b].pc = "called" THEN [NewWorker EXCEPT !.pc = "done"] ELSE w[b]]
  BY DEF Stopped
<1>3. faults' \in Nat
  BY DEF Stopped, Fault, ActorTypes
<1> HIDE DEF StockInv
<1>4. PICK r : r = [NewWorker EXCEPT !.pc = "done"]
  OBVIOUS
<1>5. /\ r \in Workers /\ r.pc = "done" /\ r.claim = 0 /\ ~r.own /\ ~r.outputs
      /\ ~r.close /\ ~r.acked /\ r.says = None
  BY <1>4, DoneOK
<1>6. w' = [b \in Request |-> IF w[b].pc = "called" THEN r ELSE w[b]]
  BY <1>2, <1>4, Zenon
<1>7. w \in [Request -> Workers]
  BY DEF StockInv, ActorTypes
<1>8. ASSUME NEW b \in Request
      PROVE  \/ w'[b] = w[b] /\ w[b].pc # "called"
             \/ /\ w[b].pc = "called" /\ w'[b].pc = "done" /\ w'[b].claim = 0 /\ ~w'[b].own
                /\ ~w'[b].outputs /\ ~w'[b].close /\ ~w'[b].acked /\ w'[b].says = None
  <2>1. CASE w[b].pc = "called"
    <3>1. w'[b] = r
      BY <1>6, <2>1
    <3> QED BY <2>1, <3>1, <1>5
  <2>2. CASE w[b].pc # "called"
    BY <1>6, <2>2
  <2> QED BY <2>1, <2>2
<1>9. w' \in [Request -> Workers]
  BY <1>5, <1>6, <1>7
<1>10. fin' \in [Runs -> Fins] /\ \A y \in Runs : fin'[y] = NoFin
  BY <1>1, NoFinOK
<1> QED BY <1>3, <1>8, <1>9, <1>10

\* An eviction preserves the invariant.
LEMMA EvictStep ==
  ASSUME StockInv, Evict
  PROVE  StockInv'
<1> USE DEF StockInv
<1>t. /\ None \notin Request \cup {"busy", "conflict", "cleanup", "rejected", "replayed", "pending"}
      /\ op \in [Op -> Ops] /\ w \in [Request -> Workers] /\ fin \in [Runs -> Fins]
      /\ (\A p \in Op : op[p].claim \in Nat /\ issued[p] \in Nat)
      /\ (\A b \in Request : w[b].claim \in Nat) /\ (\A y \in Runs : fin[y].claim \in Nat)
  BY FieldTypes DEF InputTypes, StoreTypes, ActorTypes
<1>u. UNCHANGED <<opOf, refOf, expect, refOnly, pool, retained, op, ledger, refs, version, seq, row,
   rlease, prep, please, reclease, intent, bucket, queued, task, issued, landed, moved, last, late,
   forgotten, edits>>
  BY DEF Evict, Stopped, inputs, leases, history
<1>1. /\ fin' \in [Runs -> Fins] /\ w' \in [Request -> Workers] /\ faults' \in Nat
      /\ \A y \in Runs : /\ fin'[y] = NoFin /\ fin'[y].pc = "idle" /\ fin'[y].op = None
                        /\ fin'[y].tok = None /\ fin'[y].says = None /\ fin'[y].claim = 0
  BY StoppedFacts, NoFinOK DEF Evict
<1>2. \A b \in Request :
       \/ w'[b] = w[b] /\ w[b].pc # "called"
       \/ /\ w[b].pc = "called" /\ w'[b].pc = "done" /\ w'[b].claim = 0 /\ ~w'[b].own
          /\ ~w'[b].outputs /\ ~w'[b].close /\ ~w'[b].acked /\ w'[b].says = None
  BY StoppedFacts DEF Evict
<1>3. None \notin Op /\ Alarm \in Runs
  BY StockAssumption DEF Runs
<1>4. alarm' \in BOOLEAN
  BY DEF Evict, StoreTypes
<1>5. StoreTypes'
  BY <1>t, <1>1, <1>2, <1>3, <1>4, <1>u DEF StoreTypes
<1>6. ActorTypes'
  BY <1>t, <1>1, <1>2, <1>3, <1>4, <1>u DEF ActorTypes
<1>7. WorkersOK'
  BY <1>t, <1>1, <1>2, <1>3, <1>4, <1>u DEF WorkersOK, Outside, Stock
<1>8. OwnersOK'
  BY <1>t, <1>1, <1>2, <1>3, <1>4, <1>u DEF OwnersOK, WorkersOK, Outside, Stock
<1>9. TokensOK'
  <2>1. \A b \in Request : Used(b) => Used(b)'
    BY <1>t, <1>2 DEF Used
  <2>2. /\ \A p \in Op : op'[p].lease = op[p].lease /\ op[p].lease \in Request \cup {None}
        /\ rlease.tok \in Request \cup {None}
    BY <1>t, <1>u, FieldTypes
  <2>3. \A y \in Runs : fin'[y].tok = None
    BY <1>1
  <2> HIDE DEF StockInv
  <2>4. /\ \A p \in Op : op[p].lease # None => Used(op[p].lease)
        /\ rlease.tok # None /\ Stock(rlease.tok) => Used(rlease.tok)
        /\ \A q \in Request : intent[q] # NoIntent => Used(q) /\ intent[q].ver >= 0
    BY DEF StockInv, TokensOK
  <2>5. (\A p \in Op : op[p].lease # None => Used(op[p].lease))'
    BY <2>1, <2>2, <2>4
  <2>6. (rlease.tok # None /\ Stock(rlease.tok) => Used(rlease.tok))'
    BY <2>1, <2>2, <2>4, <1>u DEF Stock
  <2>7. (\A q \in Request : intent[q] # NoIntent => Used(q) /\ intent[q].ver >= 0)'
    BY <2>1, <2>4, <1>u
  <2> QED BY <2>3, <2>5, <2>6, <2>7 DEF TokensOK
<1>10. FinsOK'
  BY <1>t, <1>1, <1>2, <1>3, <1>4, <1>u DEF FinsOK, Claimed, Owned, Token
<1>11. LaneOK'
  BY <1>t, <1>1, <1>2, <1>3, <1>4, <1>u DEF LaneOK, Ready, Claimed, Owned, Valid, FinsOK, Token
<1>12. AnswersOK'
  BY <1>t, <1>1, <1>2, <1>3, <1>4, <1>u DEF AnswersOK, Served, Over, Terminal
<1>13. WalOK'
  BY <1>t, <1>1, <1>2, <1>3, <1>4, <1>u DEF WalOK, Claimed, Owned, Valid, Runs, RecordsOK
<1>14. DismissedOK'
  BY <1>t, <1>1, <1>2, <1>3, <1>4, <1>u DEF DismissedOK, Unserved, Past, Over, Mine, Terminal, Runs,
     WorkersOK, Outside, Stock
<1>15. StoredOK'
  BY <1>t, <1>1, <1>2, <1>3, <1>4, <1>u DEF StoredOK, Mine
<1>16. TidyOK'
  BY <1>t, <1>1, <1>2, <1>3, <1>4, <1>u DEF TidyOK, Tidy, Served, Terminal
<1>17. PromotionExclusive'
  BY <1>t, <1>1, <1>2, <1>3, <1>4, <1>u DEF PromotionExclusive, Prepared, ActiveOps, WorkersOK,
     Outside, Stock
<1>18. InputTypes' /\ RecordsOK' /\ LandedOK' /\ RowsOK' /\ TasksOK' /\ LedgerOK' /\ PoolOK'
  BY <1>u, InputTypesFrame, RecordsOKFrame, LandedOKFrame, RowsOKFrame, TasksOKFrame, LedgerOKFrame,
     PoolOKFrame
<1> QED BY <1>5, <1>6, <1>7, <1>8, <1>9, <1>10, <1>11, <1>12, <1>13, <1>14, <1>15, <1>16, <1>17,
   <1>18

\* ... and so does one in the middle of a publication.
LEMMA EvictPublishingStep ==
  ASSUME StockInv, NEW x \in Runs, EvictPublishing(x)
  PROVE  StockInv'
<1> USE DEF StockInv
<1>t. /\ None \notin Request \cup {"busy", "conflict", "cleanup", "rejected", "replayed", "pending"}
      /\ op \in [Op -> Ops] /\ w \in [Request -> Workers] /\ fin \in [Runs -> Fins]
      /\ (\A p \in Op : op[p].claim \in Nat /\ issued[p] \in Nat)
      /\ (\A b \in Request : w[b].claim \in Nat) /\ (\A y \in Runs : fin[y].claim \in Nat)
  BY FieldTypes DEF InputTypes, StoreTypes, ActorTypes
<1>u. UNCHANGED <<opOf, refOf, expect, refOnly, pool, retained, ledger, refs, version, seq, rlease,
   prep, please, reclease, bucket, queued, task, issued, landed, moved, last, late, forgotten,
   edits>>
  BY DEF EvictPublishing, Stopped, inputs, leases, history
<1>1. PICK o \in Op, c \in 1 .. MaxClaims, t \in Request :
       /\ o = fin[x].op /\ c = fin[x].claim /\ t = op[o].lease /\ opOf[t] = o /\ Used(t)
       /\ op[o].st = "ready" /\ op[o].claim = c /\ c <= issued[o] /\ OutKey(x) = <<o, c>>
       /\ <<o, c>> \in Key
  <2>1. /\ fin[x].op \in Op /\ fin[x].claim \in 1 .. MaxClaims /\ op[fin[x].op].lease \in Request
        /\ opOf[op[fin[x].op].lease] = fin[x].op /\ Used(op[fin[x].op].lease)
        /\ op[fin[x].op].st = "ready" /\ op[fin[x].op].claim = fin[x].claim
        /\ fin[x].claim <= issued[fin[x].op] /\ OutKey(x) = <<fin[x].op, fin[x].claim>>
        /\ <<fin[x].op, fin[x].claim>> \in Key
    BY PublishFacts DEF EvictPublishing
  <2> HIDE DEF StockInv
  <2> QED BY <2>1
<1>2. /\ rlease.tok = t /\ fin[x].tok = t /\ fin[x].says = None /\ fin[x].pc = "publish"
      /\ fin[x].refs = refs /\ fin[x].ver = version /\ fin[x].seq = seq /\ Valid(o, refs)
      /\ row[<<o, c>>] \in {0, seq}
  BY <1>1, PublishFacts, Zenon DEF EvictPublishing
<1>3. PICK i \in Intents : intent' = [intent EXCEPT ![t] = i] /\ i = [ver |-> version, seq |-> seq] /\ i # NoIntent /\ i.ver >= 0
  <2>1. intent' = [intent EXCEPT ![t] = [ver |-> version, seq |-> seq]]
    BY <1>1, PublishFacts, Zenon DEF EvictPublishing
  <2>2. version \in Nat /\ seq \in Nat
    BY DEF StoreTypes
  <2>3. PICK i : i = [ver |-> version, seq |-> seq]
    OBVIOUS
  <2>4. i \in Intents /\ i.ver = version /\ i.ver >= 0
    BY <2>2, <2>3 DEF Intents
  <2>5. NoIntent.ver = -1
    BY DEF NoIntent
  <2> HIDE DEF StockInv
  <2>7. i # NoIntent
    BY <2>2, <2>4, <2>5
  <2> QED BY <2>7, <2>1, <2>2, <2>3, <2>4, <2>5
<1>4. /\ row' \in [Key -> Nat] /\ (\A k \in Key : k # <<o, c>> => row'[k] = row[k])
      /\ (o \in refOnly => row' = row)
      /\ row'[<<o, c>>] \in {0, seq} /\ (row'[<<o, c>>] = row[<<o, c>>] \/ row'[<<o, c>>] # 0)
  <2>1. row' = row \/ row' = IF o \in refOnly THEN row ELSE [row EXCEPT ![<<o, c>>] = seq]
    BY <1>1, <1>2, PublishFacts, Zenon DEF EvictPublishing, Upserted
  <2>2. row \in [Key -> Nat] /\ seq \in Nat /\ seq # 0
    BY DEF StoreTypes
  <2> QED BY <1>1, <1>2, <2>1, <2>2
<1>5. alarm' = TRUE
  BY DEF EvictPublishing
<1>6. PICK e \in Ops :
       /\ op' = [op EXCEPT ![o] = e]
       /\ e.st = op[o].st /\ e.claim = op[o].claim /\ e.lease = op[o].lease
       /\ (e.lapsed <=> op[o].lapsed)
       /\ (e.pend <=> op[o].pend) /\ (e.retry <=> op[o].retry) /\ e.plan
  <2>1. op' = [op EXCEPT ![o].plan = TRUE]
    BY <1>1 DEF EvictPublishing
  <2>2. op \in [Op -> Ops] /\ o \in Op
    BY <1>t, <1>1
  <2>3. PICK d, f : d = op[o] /\ f = [d EXCEPT !.plan = TRUE]
    OBVIOUS
  <2>4. d \in Ops /\ op' = [op EXCEPT ![o] = f]
    BY ONLY <2>1, <2>2, <2>3
  <2>5. f \in Ops
    BY ONLY <2>3, <2>4 DEF Ops, Terminal
  <2>6. op'[o] \in Ops /\ op' = [op EXCEPT ![o] = op'[o]]
    BY ONLY <2>2, <2>4, <2>5
  <2>7. /\ op'[o].st = op[o].st /\ op'[o].claim = op[o].claim /\ op'[o].lease = op[o].lease
        /\ (op'[o].lapsed <=> op[o].lapsed)
        /\ (op'[o].pend <=> op[o].pend) /\ (op'[o].retry <=> op[o].retry) /\ op'[o].plan
    BY <1>t, <2>1, <1>1 DEF Ops
  <2> QED BY <2>6, <2>7
<1>7. /\ fin' \in [Runs -> Fins] /\ w' \in [Request -> Workers] /\ faults' \in Nat
      /\ \A y \in Runs : /\ fin'[y] = NoFin /\ fin'[y].pc = "idle" /\ fin'[y].op = None
                        /\ fin'[y].tok = None /\ fin'[y].says = None /\ fin'[y].claim = 0
  BY StoppedFacts, NoFinOK DEF EvictPublishing
<1>8. \A b \in Request :
       \/ w'[b] = w[b] /\ w[b].pc # "called"
       \/ /\ w[b].pc = "called" /\ w'[b].pc = "done" /\ w'[b].claim = 0 /\ ~w'[b].own
          /\ ~w'[b].outputs /\ ~w'[b].close /\ ~w'[b].acked /\ w'[b].says = None
  BY StoppedFacts DEF EvictPublishing
<1>9. None \notin Op /\ Alarm \in Runs
  BY StockAssumption DEF Runs
<1>10. \A p \in Op : \A d \in 1 .. MaxClaims :
       /\ row[<<p, d>>] # 0 => row'[<<p, d>>] # 0
       /\ Past(p, d) => row'[<<p, d>>] = row[<<p, d>>]
       /\ (Served(p, d) => Served(p, d)') /\ (Over(p, d) => Over(p, d)')
       /\ (Past(p, d) => Past(p, d)') /\ (Unserved(p, d) => Unserved(p, d)')
  <2>1. /\ op[o].st = "ready" /\ op[o].claim = c /\ op'[o].st \in {"ready", "finalizing"}
        /\ \A p \in Op : op'[p].claim = op[p].claim /\ (p # o => op'[p].st = op[p].st)
    BY <1>t, <1>1, <1>6
  <2>2. /\ refOnly' = refOnly /\ forgotten' = forgotten /\ issued' = issued /\ moved \subseteq moved'
    BY <1>u
  <2>3. /\ \A k \in Key : k # <<o, c>> => row'[k] = row[k]
        /\ row'[<<o, c>>] = row[<<o, c>>] \/ row'[<<o, c>>] # 0
    BY <1>4
  <2> HIDE DEF StockInv
  <2> QED BY <2>1, <2>2, <2>3, PublishingRow, Zenon
<1>11. /\ \A y \in Runs : fin[y].pc # "idle" \/ fin[y].says # None =>
            fin[y].op \in Op /\ fin[y].claim \in 1 .. MaxClaims
       /\ \A b \in Request :
            w[b].claim >= 1 \/ w[b].says # None \/ w[b].pc \notin Outside \cup {"done"} =>
              opOf[b] \in Op /\ w[b].claim \in 1 .. MaxClaims
       /\ \A p \in Op : task[p].pc # "idle" => task[p].claim \in 1 .. MaxClaims
  BY ClaimTypes
<1>12. StoreTypes'
  BY <1>t, <1>1, <1>2, <1>3, <1>4, <1>5, <1>6, <1>7, <1>8, <1>9, <1>u DEF StoreTypes
<1>13. ActorTypes'
  BY <1>t, <1>1, <1>2, <1>3, <1>4, <1>5, <1>6, <1>7, <1>8, <1>9, <1>u DEF ActorTypes
<1>14. RecordsOK'
  BY <1>t, <1>1, <1>2, <1>3, <1>4, <1>5, <1>6, <1>7, <1>8, <1>9, <1>u DEF RecordsOK
<1>15. WorkersOK'
  BY <1>t, <1>1, <1>2, <1>3, <1>4, <1>5, <1>6, <1>7, <1>8, <1>9, <1>u DEF WorkersOK, Outside, Stock
<1>16. OwnersOK'
  BY <1>t, <1>1, <1>2, <1>3, <1>4, <1>5, <1>6, <1>7, <1>8, <1>9, <1>u DEF OwnersOK, WorkersOK,
     Outside, Stock
<1>17. TokensOK'
  <2>1. \A b \in Request : Used(b) => Used(b)'
    BY <1>t, <1>8 DEF Used
  <2>0. intent \in [Request -> Intents]
    BY DEF StoreTypes
  <2>2. /\ \A p \in Op : op'[p].lease = op[p].lease /\ op[p].lease \in Request \cup {None}
        /\ rlease.tok \in Request \cup {None}
    BY <1>1, <1>6, <1>t, <1>u, FieldTypes
  <2>3. \A y \in Runs : fin'[y].tok = None
    BY <1>7
  <2> HIDE DEF StockInv
  <2>4. /\ \A p \in Op : op[p].lease # None => Used(op[p].lease)
        /\ rlease.tok # None /\ Stock(rlease.tok) => Used(rlease.tok)
        /\ \A q \in Request : intent[q] # NoIntent => Used(q) /\ intent[q].ver >= 0
    BY DEF StockInv, TokensOK
  <2>5. (\A p \in Op : op[p].lease # None => Used(op[p].lease))'
    BY <2>1, <2>2, <2>4
  <2>6. (rlease.tok # None /\ Stock(rlease.tok) => Used(rlease.tok))'
    BY <2>1, <2>2, <2>4, <1>u DEF Stock
  <2>7. (\A q \in Request : intent[q] # NoIntent => Used(q) /\ intent[q].ver >= 0)'
    BY <1>1, <1>3, <2>0, <2>1, <2>4, <1>u
  <2> QED BY <2>3, <2>5, <2>6, <2>7 DEF TokensOK
<1>18. FinsOK'
  <2>1. FinsOK
    OBVIOUS
  <2> QED BY ONLY <2>1, <1>7 DEF FinsOK
<1>19. LaneOK'
  <2>1. RecordsOK
    OBVIOUS
  <2> QED BY ONLY <2>1, <1>7 DEF LaneOK, RecordsOK
<1>20. LandedOK'
  <2>1. refs' = last'
    BY <1>u DEF LandedOK
  <2>2. ASSUME NEW p \in Op
        PROVE  IF op'[p].st \in {"finalizing", "committed"}
               THEN landed'[p] = 1 /\ p \in moved' /\ (p \in refOnly' \/ row'[<<p, op'[p].claim>>] # 0)
               ELSE landed'[p] = 0
    <3>1. op'[p].st = op[p].st /\ op'[p].claim = op[p].claim
      BY <1>t, <1>1, <1>6
    <3>2. op[p].st \in {"finalizing", "committed"} => op[p].claim \in 1 .. MaxClaims
      <4>1. op[p].claim \in 0 .. MaxClaims
        BY <1>t DEF Ops
      <4>2. op[p].st # "none" => op[p].claim >= 1
        BY DEF RecordsOK
      <4> QED BY <4>1, <4>2
    <3> QED BY <3>1, <3>2, <1>10, <1>u DEF LandedOK
  <2> QED BY <2>1, <2>2 DEF LandedOK
<1>21. AnswersOK'
  <2>1. ASSUME NEW y \in Runs, fin'[y].says = "replayed"
        PROVE  (Served(fin[y].op, fin[y].claim) /\ Over(fin[y].op, fin[y].claim))'
    <3>1. fin'[y] = fin[y]
      BY <2>1, <1>t, <1>7
    <3>2. /\ Served(fin[y].op, fin[y].claim) /\ Over(fin[y].op, fin[y].claim)
          /\ fin[y].op \in Op /\ fin[y].claim \in 1 .. MaxClaims
      BY <2>1, <3>1, <1>t, <1>11 DEF AnswersOK
    <3> QED BY ONLY <3>1, <3>2, <1>10
  <2>2. ASSUME NEW b \in Request
        PROVE  /\ w'[b].acked => opOf'[b] \in moved'
               /\ w'[b].says # None => w'[b].pc = "refused"
               /\ w'[b].says = "replayed" =>
                    (Served(opOf[b], w[b].claim) /\ Over(opOf[b], w[b].claim))'
    <3>1. CASE w'[b] = w[b]
      <4>1. w'[b] = w[b] /\ opOf'[b] = opOf[b] /\ moved' = moved
        BY <3>1, <1>u
      <4>2. /\ w[b].acked => opOf[b] \in moved
            /\ w[b].says # None => w[b].pc = "refused"
            /\ w[b].says = "replayed" =>
                 Served(opOf[b], w[b].claim) /\ Over(opOf[b], w[b].claim)
        BY DEF AnswersOK
      <4>3. w[b].says = "replayed" => opOf[b] \in Op /\ w[b].claim \in 1 .. MaxClaims
        BY <1>t, <1>11
      <4>4. w[b].says = "replayed" =>
              Served(opOf[b], w[b].claim)' /\ Over(opOf[b], w[b].claim)'
        BY ONLY <4>1, <4>2, <4>3, <1>10
      <4> QED BY ONLY <4>1, <4>2, <4>4
    <3>2. CASE w'[b] # w[b]
      BY <3>2, <1>t, <1>8
    <3> QED BY <3>1, <3>2
  <2> QED BY <2>1, <2>2 DEF AnswersOK
<1>22. WalOK'
  <2> SUFFICES ASSUME NEW p \in Op
               PROVE  /\ op'[p].st = "processing" => ~op'[p].plan
                      /\ op'[p].st \in {"processing", "ready"} =>
                           (op'[p].plan <=> intent'[op'[p].lease] # NoIntent)
                      /\ op'[p].st = "ready" /\ op'[p].plan =>
                           /\ rlease'.tok = op'[p].lease
                           /\ intent'[op'[p].lease] = [ver |-> version', seq |-> seq']
                           /\ row'[<<p, op'[p].claim>>] \in {0, seq'} /\ Valid(p, refs)'
                           /\ fin'[Alarm].op = p => Claimed(Alarm)'
    BY Zenon DEF WalOK
  <2>0. intent \in [Request -> Intents] /\ fin'[Alarm].op # p
    BY <1>7, <1>9 DEF StoreTypes
  <2>1. CASE p = o
    <3>1. op'[p].st = "ready" /\ op'[p].plan /\ op'[p].lease = t /\ op'[p].claim = c
      BY <2>1, <1>t, <1>1, <1>6
    <3>2. intent'[t] = [ver |-> version', seq |-> seq'] /\ intent'[t] # NoIntent
      BY <2>0, <1>1, <1>3, <1>u
    <3>3. Valid(p, refs)'
      BY <2>1, <1>2, <1>u DEF Valid
    <3> QED BY <2>0, <2>1, <3>1, <3>2, <3>3, <1>2, <1>4, <1>u
  <2>2. CASE p # o
    <3>1. op'[p] = op[p]
      BY <2>2, <1>t, <1>6
    <3>2. op[p].st \in {"processing", "ready"} => op[p].lease # t /\ op[p].lease \in Request
      BY <2>2, <1>1 DEF RecordsOK
    <3>3. op[p].st \in {"processing", "ready"} => intent'[op[p].lease] = intent[op[p].lease]
      BY <2>0, <3>2, <1>3
    <3>4. ~(op[p].st = "ready" /\ op[p].plan)
      BY <3>2, <1>2 DEF WalOK
    <3> QED BY <3>1, <3>3, <3>4 DEF WalOK
  <2> QED BY <2>1, <2>2
<1>23. RowsOK'
  <2> SUFFICES ASSUME NEW p \in Op
               PROVE  /\ op'[p].st \in {"processing", "aborted", "failed"} => row'[<<p, op'[p].claim>>] = 0
                      /\ op'[p].st = "ready" /\ ~op'[p].plan => row'[<<p, op'[p].claim>>] = 0
                      /\ \A d \in 1 .. MaxClaims : d > issued'[p] => row'[<<p, d>>] = 0
    BY Zenon DEF RowsOK
  <2>1. \A d \in 1 .. MaxClaims : d > issued'[p] => row'[<<p, d>>] = 0
    <3>1. ASSUME NEW d \in 1 .. MaxClaims, d > issued'[p] PROVE row'[<<p, d>>] = 0
      <4>1. <<p, d>> \in Key /\ <<p, d>> # <<o, c>>
        BY <3>1, <1>t, <1>1, <1>u DEF Key
      <4> QED BY <3>1, <4>1, <1>4, <1>u DEF RowsOK
    <3> QED BY <3>1
  <2>2. CASE p = o
    BY <2>1, <2>2, <1>t, <1>1, <1>6
  <2>3. CASE p # o
    <3>1. op'[p] = op[p] /\ <<p, op[p].claim>> # <<o, c>>
      BY <2>3, <1>t, <1>6
    <3>2. op[p].st # "none" => <<p, op[p].claim>> \in Key
      <4>1. op[p].claim \in 0 .. MaxClaims
        BY <1>t DEF Ops
      <4>2. op[p].st # "none" => op[p].claim >= 1
        BY DEF RecordsOK
      <4> QED BY <4>1, <4>2 DEF Key
    <3> QED BY <2>1, <3>1, <3>2, <1>4 DEF RowsOK
  <2> QED BY <2>2, <2>3
<1>24. DismissedOK'
  <2>1. ASSUME NEW y \in Request, fin'[y].says \in {"conflict", "cleanup", "rejected"}, w'[y].pc = "called"
        PROVE  Unserved(fin[y].op, fin[y].claim)'
    <3>1. y \in Runs /\ fin'[y] = fin[y] /\ w'[y] = w[y]
      BY <2>1, <1>t, <1>7, <1>8, <1>u DEF Runs
    <3>2. Unserved(fin[y].op, fin[y].claim) /\ fin[y].op \in Op /\ fin[y].claim \in 1 .. MaxClaims
      BY <2>1, <3>1, <1>t, <1>11 DEF DismissedOK
    <3> QED BY <3>1, <3>2, <1>10
  <2>2. ASSUME NEW b \in Request
        PROVE  /\ (w[b].claim >= 1 /\ op[opOf[b]].claim # w[b].claim =>
                    row[Mine(b)] = 0 \/ opOf[b] \in forgotten)'
               /\ (w[b].says \in {"conflict", "cleanup", "rejected"} => Unserved(opOf[b], w[b].claim))'
               /\ (w[b].pc = "erase" /\ w[b].outputs => Unserved(opOf[b], w[b].claim))'
               /\ (w[b].pc \in {"erase", "complete"} => Over(opOf[b], w[b].claim))'
               /\ (w[b].pc \in {"execute", "reject"} /\ op[opOf[b]].claim = w[b].claim =>
                    op[opOf[b]].st \in {"processing", "aborted", "failed"})'
               /\ (w[b].claim >= 1 /\ op[opOf[b]].claim = w[b].claim /\ op[opOf[b]].st = "processing" =>
                    w[b].own /\ w[b].pc \in {"execute", "reject", "finalize"})'
    <3>1. CASE w[b].claim >= 1 /\ w'[b] = w[b]
      <4>1. /\ opOf[b] \in Op /\ w[b].claim \in 1 .. MaxClaims /\ opOf'[b] = opOf[b]
            /\ Mine(b) = <<opOf[b], w[b].claim>> /\ Mine(b)' = <<opOf[b], w[b].claim>>
        BY <3>1, <1>u, <1>11 DEF Mine
      <4>2. /\ Unserved(opOf[b], w[b].claim) => Unserved(opOf[b], w[b].claim)'
            /\ Over(opOf[b], w[b].claim) => Over(opOf[b], w[b].claim)'
        BY <3>1, <4>1, <1>10
      <4>3. /\ op'[opOf[b]].claim = op[opOf[b]].claim
            /\ op'[opOf[b]].st = op[opOf[b]].st \/ (op[opOf[b]].st = "ready" /\ op'[opOf[b]].st = "finalizing")
        BY <4>1, <1>t, <1>1, <1>6
      <4>4. op[opOf[b]].claim # w[b].claim => row'[<<opOf[b], w[b].claim>>] = row[<<opOf[b], w[b].claim>>]
        BY <4>1, <1>1, <1>4 DEF Key
      <4>5. (w[b].claim >= 1 /\ op[opOf[b]].claim # w[b].claim => row[Mine(b)] = 0 \/ opOf[b] \in forgotten)'
        BY <3>1, <4>1, <4>3, <4>4, <1>u DEF DismissedOK
      <4>6. /\ (w[b].says \in {"conflict", "cleanup", "rejected"} => Unserved(opOf[b], w[b].claim))'
            /\ (w[b].pc = "erase" /\ w[b].outputs => Unserved(opOf[b], w[b].claim))'
            /\ (w[b].pc \in {"erase", "complete"} => Over(opOf[b], w[b].claim))'
        BY <3>1, <4>1, <4>2 DEF DismissedOK
      <4>7. /\ (w[b].pc \in {"execute", "reject"} /\ op[opOf[b]].claim = w[b].claim =>
                 op[opOf[b]].st \in {"processing", "aborted", "failed"})'
            /\ (w[b].claim >= 1 /\ op[opOf[b]].claim = w[b].claim /\ op[opOf[b]].st = "processing" =>
                 w[b].own /\ w[b].pc \in {"execute", "reject", "finalize"})'
        BY <3>1, <4>1, <4>3 DEF DismissedOK
      <4> QED BY <4>5, <4>6, <4>7
    <3>2. CASE ~(w[b].claim >= 1 /\ w'[b] = w[b])
      BY <3>2, <1>t, <1>8, <1>u DEF WorkersOK, AnswersOK, Outside, Stock
    <3> QED BY <3>1, <3>2
  <2> QED BY <2>1, <2>2 DEF DismissedOK
<1>25. StoredOK'
  <2>1. \A k \in Key : row'[k] # 0 /\ k[1] \notin forgotten => k \in bucket
    <3>1. o \notin refOnly => <<o, c>> \in bucket
      BY <1>1 DEF StoredOK
    <3>2. ASSUME NEW k \in Key, row'[k] # 0, k[1] \notin forgotten PROVE k \in bucket
      BY <3>1, <3>2, <1>4 DEF StoredOK
    <3> QED BY <3>2
  <2>2. \A p \in Op : op'[p].claim = op[p].claim /\ op'[p].st = op[p].st
    BY <1>t, <1>1, <1>6
  <2>3. \A b \in Request : w'[b].pc = "finalize" => w'[b] = w[b]
    BY <1>8
  <2>4. ASSUME NEW b \in Request, w'[b].pc = "finalize", opOf[b] \notin refOnly,
               op'[opOf[b]].claim = w'[b].claim, op'[opOf[b]].st = "processing"
        PROVE  Mine(b)' \in bucket
    <3>1. w'[b] = w[b] /\ opOf[b] \in Op /\ opOf'[b] = opOf[b]
      BY <2>3, <2>4, <1>11, <1>u DEF Outside
    <3> QED BY <2>2, <2>4, <3>1 DEF StoredOK, Mine
  <2> QED BY <2>1, <2>2, <2>4, <1>u DEF StoredOK
<1>26. TidyOK'
  <2>1. \A p \in Op : \A d \in 1 .. MaxClaims : Tidy(p, d) => Tidy(p, d)'
    BY <1>10, <1>u DEF Tidy
  <2>2. \A p \in Op : op'[p].claim = op[p].claim /\ (op'[p].st \in Terminal => op[p].st \in Terminal)
          /\ (op'[p].pend <=> op[p].pend)
    BY <1>t, <1>1, <1>6 DEF Terminal
  <2>3. \A p \in Op \ late : \A d \in 1 .. MaxClaims :
       <<p, d>> \in bucket /\ row'[<<p, d>>] = 0 =>
         op'[p].claim = d /\ (op'[p].st \in Terminal => op'[p].pend)
    BY <1>10, <2>2 DEF TidyOK
  <2>4. ASSUME NEW b \in Request
        PROVE  /\ (w[b].pc = "erase" /\ w[b].close /\ ~w[b].outputs => Served(opOf[b], w[b].claim))'
               /\ (w[b].pc = "complete" => Tidy(opOf[b], w[b].claim))'
    <3>1. CASE w[b].pc \in {"erase", "complete"} /\ w'[b] = w[b]
      <4>1. opOf[b] \in Op /\ w[b].claim \in 1 .. MaxClaims /\ opOf'[b] = opOf[b]
        BY <3>1, <1>u, <1>11 DEF Outside
      <4> QED BY <3>1, <4>1, <2>1, <1>10 DEF TidyOK
    <3>2. CASE ~(w[b].pc \in {"erase", "complete"} /\ w'[b] = w[b])
      BY <3>2, <1>t, <1>8, <1>u
    <3> QED BY <3>1, <3>2
  <2> QED BY <2>3, <2>4, <1>u DEF TidyOK
<1>27. TasksOK'
  <2> SUFFICES ASSUME NEW p \in Op
               PROVE  /\ (task[p].pc # "idle" => task[p].claim >= 1 /\ task[p].claim <= issued[p])'
                      /\ (task[p].outputs => task[p].pc \in {"erase", "complete"})'
                      /\ (task[p].pc = "erase" /\ task[p].outputs =>
                           Past(p, task[p].claim) /\ row[<<p, task[p].claim>>] = 0)'
                      /\ (task[p].pc = "erase" /\ ~task[p].outputs => Served(p, task[p].claim))'
                      /\ (task[p].pc \in {"erase", "complete"} => Over(p, task[p].claim))'
                      /\ (task[p].pc = "complete" => Tidy(p, task[p].claim))'
    BY Zenon DEF TasksOK
  <2>1. CASE task[p].pc = "idle"
    BY <2>1, <1>u DEF TasksOK
  <2>2. CASE task[p].pc # "idle"
    <3>1. task'[p] = task[p] /\ task[p].claim \in 1 .. MaxClaims
      BY <2>2, <1>u, <1>11
    <3>2. Tidy(p, task[p].claim) => Tidy(p, task[p].claim)'
      BY <3>1, <1>10, <1>u DEF Tidy
    <3> QED BY <3>1, <3>2, <1>10, <1>u DEF TasksOK
  <2> QED BY <2>1, <2>2
<1>28. LedgerOK'
  BY <1>t, <1>1, <1>2, <1>3, <1>4, <1>5, <1>6, <1>7, <1>8, <1>9, <1>u DEF LedgerOK
<1>29. PoolOK'
  <2>1. Prepared' \subseteq Prepared
    BY <1>t, <1>1, <1>2, <1>3, <1>4, <1>5, <1>6, <1>7, <1>8, <1>9, <1>u DEF Prepared
  <2>2. ActiveOps' \subseteq ActiveOps
    BY <1>t, <1>1, <1>2, <1>3, <1>4, <1>5, <1>6, <1>7, <1>8, <1>9, <1>u DEF ActiveOps
  <2> QED BY <2>1, <2>2, <1>u, PoolShrinks DEF InputTypes
<1>30. PromotionExclusive'
  BY <1>t, <1>1, <1>2, <1>3, <1>4, <1>5, <1>6, <1>7, <1>8, <1>9, <1>u DEF PromotionExclusive,
     Prepared, ActiveOps, WorkersOK, Outside, Stock
<1>31. InputTypes'
  BY <1>u, InputTypesFrame
<1> QED BY <1>12, <1>13, <1>14, <1>15, <1>16, <1>17, <1>18, <1>19, <1>20, <1>21, <1>22, <1>23,
   <1>24, <1>25, <1>26, <1>27, <1>28, <1>29, <1>30, <1>31

\* What a run gives back.
LEMMA ReleaseFacts ==
  ASSUME StockInv, NEW x \in Runs, FinRelease(x)
  PROVE  /\ fin[x].op \in Op /\ fin[x].claim \in 1 .. MaxClaims /\ fin[x].claim <= issued[fin[x].op]
         /\ rlease' \in ReceiveLeases /\ please' \in PublicationLeases
         /\ fin' = [fin EXCEPT ![x] = NoFin] /\ (fin[x].says # "busy" => ~Ready(x))
         /\ \/ rlease' = rlease
            \/ /\ rlease'.tok = None /\ ~rlease'.live /\ rlease.tok = fin[x].tok
               /\ fin[x].tok # None /\ opOf[fin[x].tok] = fin[x].op /\ ~Ready(x)
               /\ Claimed(x) <=> fin[x].tok = op[fin[x].op].lease
<1> USE DEF StockInv
<1>1. fin[x].pc = "release" /\ fin' = [fin EXCEPT ![x] = NoFin]
  BY DEF FinRelease
<1>2. fin[x].op \in Op /\ fin[x].claim \in 1 .. MaxClaims /\ fin[x].claim <= issued[fin[x].op]
  BY <1>1, RunOK
<1>3. rlease \in ReceiveLeases /\ please \in PublicationLeases
  BY DEF StoreTypes
<1>4. please' \in PublicationLeases
  BY <1>3, NoLeases DEF FinRelease
<1>5. fin[x].tok = None => rlease' = rlease
  BY DEF FinRelease
<1>6. fin[x].says # "busy" => ~Ready(x)
  BY <1>1 DEF LaneOK
<1>7. fin[x].tok # None => /\ rlease' = Dropped(fin[x].tok) /\ opOf[fin[x].tok] = fin[x].op
                           /\ ~Ready(x) /\ (Claimed(x) <=> fin[x].tok = op[fin[x].op].lease)
  BY <1>6 DEF FinRelease, FinsOK, Token
<1> HIDE DEF StockInv
<1>8. Dropped(fin[x].tok) \in ReceiveLeases
      /\ (rlease.tok = fin[x].tok => Dropped(fin[x].tok).tok = None /\ ~Dropped(fin[x].tok).live)
      /\ (rlease.tok # fin[x].tok => Dropped(fin[x].tok) = rlease)
  BY <1>3, DroppedOK
<1>9. rlease' \in ReceiveLeases
  BY <1>3, <1>5, <1>7, <1>8
<1>10. \/ rlease' = rlease
       \/ /\ rlease'.tok = None /\ ~rlease'.live /\ rlease.tok = fin[x].tok
          /\ fin[x].tok # None /\ opOf[fin[x].tok] = fin[x].op /\ ~Ready(x)
          /\ Claimed(x) <=> fin[x].tok = op[fin[x].op].lease
  <2>1. CASE fin[x].tok = None \/ rlease.tok # fin[x].tok
    BY <2>1, <1>5, <1>7, <1>8
  <2>2. CASE fin[x].tok # None /\ rlease.tok = fin[x].tok
    <3>1. rlease'.tok = None /\ ~rlease'.live
      BY <2>2, <1>7, <1>8
    <3> QED BY <2>2, <3>1, <1>7
  <2> QED BY <2>1, <2>2
<1> QED BY <1>1, <1>2, <1>4, <1>6, <1>9, <1>10

\* The run of the alarm ends.
LEMMA FinReleaseAlarmStep ==
  ASSUME StockInv, NEW x \in Runs, FinRelease(x), x = Alarm,
         ~(fin[x].says \in {"rejected", "cleanup"} /\ op[fin[x].op].st = "ready")
  PROVE  StockInv'
<1> USE DEF StockInv
<1>t. /\ None \notin Request \cup {"busy", "conflict", "cleanup", "rejected", "replayed", "pending"}
      /\ op \in [Op -> Ops] /\ w \in [Request -> Workers] /\ fin \in [Runs -> Fins]
      /\ (\A p \in Op : op[p].claim \in Nat /\ issued[p] \in Nat)
      /\ (\A b \in Request : w[b].claim \in Nat) /\ (\A y \in Runs : fin[y].claim \in Nat)
  BY FieldTypes DEF InputTypes, StoreTypes, ActorTypes
<1>u. UNCHANGED <<opOf, refOf, expect, refOnly, pool, retained, op, ledger, refs, version, seq, row,
   prep, reclease, intent, bucket, queued, task, w, issued, landed, moved, last, late, forgotten,
   faults, edits>>
  BY DEF FinRelease, inputs, leases, history
<1>1. /\ fin[x].op \in Op /\ fin[x].claim \in 1 .. MaxClaims /\ fin[x].claim <= issued[fin[x].op]
      /\ rlease' \in ReceiveLeases /\ please' \in PublicationLeases /\ fin[x].pc = "release"
      /\ \/ rlease' = rlease
         \/ /\ rlease'.tok = None /\ ~rlease'.live /\ rlease.tok = fin[x].tok
            /\ fin[x].tok # None /\ opOf[fin[x].tok] = fin[x].op /\ ~Ready(x)
            /\ Claimed(x) <=> fin[x].tok = op[fin[x].op].lease
  BY ReleaseFacts DEF FinRelease
<1>2. PICK g \in Fins : /\ fin' = [fin EXCEPT ![x] = g] /\ g = NoFin /\ g.pc = "idle" /\ g.op = None
                      /\ g.tok = None /\ g.says = None /\ g.claim = 0
  BY NoFinOK DEF FinRelease
<1>3. None \notin Op /\ Alarm \in Runs
  BY StockAssumption DEF Runs
<1>4. alarm' = TRUE
  BY DEF FinRelease
<1>5. StoreTypes'
  BY <1>t, <1>1, <1>2, <1>3, <1>4, <1>u DEF StoreTypes
<1>6. ActorTypes'
  BY <1>t, <1>1, <1>2, <1>3, <1>4, <1>u DEF ActorTypes
<1>7. TokensOK'
  BY <1>t, <1>1, <1>2, <1>3, <1>4, <1>u DEF TokensOK, Used, Stock, WorkersOK, Outside
<1>8. FinsOK'
  BY <1>t, <1>1, <1>2, <1>3, <1>4, <1>u DEF FinsOK, Claimed, Owned, Token
<1>9. LaneOK'
  BY <1>t, <1>1, <1>2, <1>3, <1>4, <1>u DEF LaneOK, Ready, Claimed, Owned, Valid, FinsOK, Token,
     RecordsOK
<1>10. AnswersOK'
  BY <1>t, <1>1, <1>2, <1>3, <1>4, <1>u DEF AnswersOK, Served, Over, Terminal
<1>11. WalOK'
  BY <1>t, <1>1, <1>2, <1>3, <1>4, <1>u DEF WalOK, Claimed, Owned, Valid, Runs, RecordsOK, FinsOK,
     Token, Ready
<1>12. DismissedOK'
  <2>1. DismissedOK
    OBVIOUS
  <2> QED BY ONLY <2>1, <1>t, <1>2, <1>u DEF DismissedOK, Unserved, Past, Over, Mine
<1>13. PromotionExclusive'
  BY <1>t, <1>1, <1>2, <1>3, <1>4, <1>u DEF PromotionExclusive, Prepared, ActiveOps, WorkersOK,
     Outside, Stock
<1>14. InputTypes' /\ RecordsOK' /\ WorkersOK' /\ OwnersOK' /\ LandedOK' /\ RowsOK' /\ StoredOK' /\
   TidyOK' /\ TasksOK' /\ LedgerOK' /\ PoolOK'
  BY <1>u, InputTypesFrame, RecordsOKFrame, WorkersOKFrame, OwnersOKFrame, LandedOKFrame,
     RowsOKFrame, StoredOKFrame, TidyOKFrame, TasksOKFrame, LedgerOKFrame, PoolOKFrame
<1> QED BY <1>5, <1>6, <1>7, <1>8, <1>9, <1>10, <1>11, <1>12, <1>13, <1>14

\* A run ends whose request is gone.
LEMMA FinReleaseLostStep ==
  ASSUME StockInv, NEW x \in Runs, FinRelease(x), x # Alarm, w[x].pc # "called"
  PROVE  StockInv'
<1> USE DEF StockInv
<1>t. /\ None \notin Request \cup {"busy", "conflict", "cleanup", "rejected", "replayed", "pending"}
      /\ op \in [Op -> Ops] /\ w \in [Request -> Workers] /\ fin \in [Runs -> Fins]
      /\ (\A p \in Op : op[p].claim \in Nat /\ issued[p] \in Nat)
      /\ (\A b \in Request : w[b].claim \in Nat) /\ (\A y \in Runs : fin[y].claim \in Nat)
  BY FieldTypes DEF InputTypes, StoreTypes, ActorTypes
<1>u. UNCHANGED <<opOf, refOf, expect, refOnly, pool, retained, op, ledger, refs, version, seq, row,
   prep, reclease, intent, alarm, bucket, queued, task, w, issued, landed, moved, last, late,
   forgotten, faults, edits>>
  BY DEF FinRelease, inputs, leases, history
<1>1. /\ fin[x].op \in Op /\ fin[x].claim \in 1 .. MaxClaims /\ fin[x].claim <= issued[fin[x].op]
      /\ rlease' \in ReceiveLeases /\ please' \in PublicationLeases /\ fin[x].pc = "release"
      /\ \/ rlease' = rlease
         \/ /\ rlease'.tok = None /\ ~rlease'.live /\ rlease.tok = fin[x].tok
            /\ fin[x].tok # None /\ opOf[fin[x].tok] = fin[x].op /\ ~Ready(x)
            /\ Claimed(x) <=> fin[x].tok = op[fin[x].op].lease
  BY ReleaseFacts DEF FinRelease
<1>2. PICK g \in Fins : /\ fin' = [fin EXCEPT ![x] = g] /\ g = NoFin /\ g.pc = "idle" /\ g.op = None
                      /\ g.tok = None /\ g.says = None /\ g.claim = 0
  BY NoFinOK DEF FinRelease
<1>3. None \notin Op /\ Alarm \in Runs
  BY StockAssumption DEF Runs
<1>4. x \in Request
  BY DEF Runs
<1>5. StoreTypes'
  BY <1>t, <1>1, <1>2, <1>3, <1>4, <1>u DEF StoreTypes
<1>6. ActorTypes'
  BY <1>t, <1>1, <1>2, <1>3, <1>4, <1>u DEF ActorTypes
<1>7. TokensOK'
  BY <1>t, <1>1, <1>2, <1>3, <1>4, <1>u DEF TokensOK, Used, Stock, WorkersOK, Outside
<1>8. FinsOK'
  BY <1>t, <1>1, <1>2, <1>3, <1>4, <1>u DEF FinsOK, Claimed, Owned, Token
<1>9. LaneOK'
  BY <1>t, <1>1, <1>2, <1>3, <1>4, <1>u DEF LaneOK, Ready, Claimed, Owned, Valid, FinsOK, Token,
     RecordsOK
<1>10. AnswersOK'
  BY <1>t, <1>1, <1>2, <1>3, <1>4, <1>u DEF AnswersOK, Served, Over, Terminal
<1>11. WalOK'
  BY <1>t, <1>1, <1>2, <1>3, <1>4, <1>u DEF WalOK, Claimed, Owned, Valid, Runs, RecordsOK, FinsOK,
     Token, Ready
<1>12. DismissedOK'
  <2>1. DismissedOK
    OBVIOUS
  <2> QED BY ONLY <2>1, <1>t, <1>2, <1>u DEF DismissedOK, Unserved, Past, Over, Mine
<1>13. PromotionExclusive'
  BY <1>t, <1>1, <1>2, <1>3, <1>4, <1>u DEF PromotionExclusive, Prepared, ActiveOps, WorkersOK,
     Outside, Stock
<1>14. InputTypes' /\ RecordsOK' /\ WorkersOK' /\ OwnersOK' /\ LandedOK' /\ RowsOK' /\ StoredOK' /\
   TidyOK' /\ TasksOK' /\ LedgerOK' /\ PoolOK'
  BY <1>u, InputTypesFrame, RecordsOKFrame, WorkersOKFrame, OwnersOKFrame, LandedOKFrame,
     RowsOKFrame, StoredOKFrame, TidyOKFrame, TasksOKFrame, LedgerOKFrame, PoolOKFrame
<1> QED BY <1>5, <1>6, <1>7, <1>8, <1>9, <1>10, <1>11, <1>12, <1>13, <1>14

\* A run answers its request.
LEMMA FinReleaseAnswersStep ==
  ASSUME StockInv, NEW x \in Runs, FinRelease(x), x # Alarm, w[x].pc = "called"
  PROVE  StockInv'
<1> USE DEF StockInv
<1>t. /\ None \notin Request \cup {"busy", "conflict", "cleanup", "rejected", "replayed", "pending"}
      /\ op \in [Op -> Ops] /\ w \in [Request -> Workers] /\ fin \in [Runs -> Fins]
      /\ (\A p \in Op : op[p].claim \in Nat /\ issued[p] \in Nat)
      /\ (\A b \in Request : w[b].claim \in Nat) /\ (\A y \in Runs : fin[y].claim \in Nat)
  BY FieldTypes DEF InputTypes, StoreTypes, ActorTypes
<1>u. UNCHANGED <<opOf, refOf, expect, refOnly, pool, retained, op, ledger, refs, version, seq, row,
   prep, reclease, intent, alarm, bucket, queued, task, issued, landed, moved, last, late,
   forgotten, faults, edits>>
  BY DEF FinRelease, inputs, leases, history
<1>1. /\ fin[x].op \in Op /\ fin[x].claim \in 1 .. MaxClaims /\ fin[x].claim <= issued[fin[x].op]
      /\ rlease' \in ReceiveLeases /\ please' \in PublicationLeases /\ fin[x].pc = "release"
      /\ \/ rlease' = rlease
         \/ /\ rlease'.tok = None /\ ~rlease'.live /\ rlease.tok = fin[x].tok
            /\ fin[x].tok # None /\ opOf[fin[x].tok] = fin[x].op /\ ~Ready(x)
            /\ Claimed(x) <=> fin[x].tok = op[fin[x].op].lease
  BY ReleaseFacts DEF FinRelease
<1>2. PICK g \in Fins : /\ fin' = [fin EXCEPT ![x] = g] /\ g = NoFin /\ g.pc = "idle" /\ g.op = None
                      /\ g.tok = None /\ g.says = None /\ g.claim = 0
  BY NoFinOK DEF FinRelease
<1>3. None \notin Op /\ Alarm \in Runs
  BY StockAssumption DEF Runs
<1>4. x \in Request
  BY DEF Runs
<1>5. PICK r \in Workers :
       /\ w' = [w EXCEPT ![x] = r]
       /\ r.pc = "refused" /\ r.claim = w[x].claim /\ (r.own <=> w[x].own)
       /\ (r.outputs <=> w[x].outputs)
       /\ (r.close <=> w[x].close) /\ (r.acked <=> w[x].acked) /\ r.says = fin[x].says
  <2>1. w' = [w EXCEPT ![x].pc = "refused", ![x].says = fin[x].says] /\ fin[x].says \in Answers
    BY <1>t, <1>4 DEF FinRelease, Fins
  <2>2. w \in [Request -> Workers] /\ x \in Request
    BY <1>t, <1>4
  <2>3. PICK d, f : d = w[x] /\ f = [d EXCEPT !.pc = "refused", !.says = fin[x].says]
    BY Zenon
  <2>4. d \in Workers /\ w' = [w EXCEPT ![x] = f]
    BY ONLY <2>1, <2>2, <2>3
  <2>5. f \in Workers
    <3>1. fin[x].says \in Answers
      BY <1>t, <2>1
    <3> QED BY ONLY <2>3, <2>4, <3>1 DEF Workers, Places, Answers
  <2>6. w'[x] \in Workers /\ w' = [w EXCEPT ![x] = w'[x]]
    BY ONLY <2>2, <2>4, <2>5
  <2>7. /\ w'[x].pc = "refused" /\ w'[x].claim = w[x].claim /\ (w'[x].own <=> w[x].own)
        /\ (w'[x].outputs <=> w[x].outputs)
        /\ (w'[x].close <=> w[x].close) /\ (w'[x].acked <=> w[x].acked) /\ w'[x].says = fin[x].says
    BY <1>t, <2>1, <1>4 DEF Workers
  <2> QED BY <2>6, <2>7
<1>6. /\ fin[x].op = opOf[x] /\ fin[x].claim = w[x].claim /\ ~w[x].outputs /\ Stock(x)
      /\ fin[x].says = "replayed" => Served(opOf[x], w[x].claim) /\ Over(opOf[x], w[x].claim)
      /\ fin[x].says \in {"conflict", "cleanup", "rejected"} => Unserved(opOf[x], w[x].claim)
  BY <1>1, <1>4 DEF FinsOK, AnswersOK, DismissedOK, WorkersOK, Outside
<1>7. StoreTypes'
  BY <1>t, <1>1, <1>2, <1>3, <1>4, <1>5, <1>6, <1>u DEF StoreTypes
<1>8. ActorTypes'
  BY <1>t, <1>1, <1>2, <1>3, <1>4, <1>5, <1>6, <1>u DEF ActorTypes
<1>9. WorkersOK'
  BY <1>t, <1>1, <1>2, <1>3, <1>4, <1>5, <1>6, <1>u DEF WorkersOK, Outside, Stock
<1>10. OwnersOK'
  BY <1>t, <1>1, <1>2, <1>3, <1>4, <1>5, <1>6, <1>u DEF OwnersOK, WorkersOK, Outside, Stock
<1>11. TokensOK'
  BY <1>t, <1>1, <1>2, <1>3, <1>4, <1>5, <1>6, <1>u DEF TokensOK, Used, Stock, WorkersOK, Outside
<1>12. FinsOK'
  BY <1>t, <1>1, <1>2, <1>3, <1>4, <1>5, <1>6, <1>u DEF FinsOK, Claimed, Owned, Token
<1>13. LaneOK'
  BY <1>t, <1>1, <1>2, <1>3, <1>4, <1>5, <1>6, <1>u DEF LaneOK, Ready, Claimed, Owned, Valid,
     FinsOK, Token, RecordsOK
<1>14. AnswersOK'
  BY <1>t, <1>1, <1>2, <1>3, <1>4, <1>5, <1>6, <1>u DEF AnswersOK, Served, Over, Terminal
<1>15. WalOK'
  BY <1>t, <1>1, <1>2, <1>3, <1>4, <1>5, <1>6, <1>u DEF WalOK, Claimed, Owned, Valid, Runs,
     RecordsOK, FinsOK, Token, Ready
<1>16. DismissedOK'
  <2>1. DismissedOK
    OBVIOUS
  <2> HIDE DEF StockInv
  <2> QED BY <2>1, <1>t, <1>2, <1>5, <1>6, <1>u DEF DismissedOK, Unserved, Past, Over, Mine
<1>17. StoredOK'
  BY <1>t, <1>1, <1>2, <1>3, <1>4, <1>5, <1>6, <1>u DEF StoredOK, Mine
<1>18. TidyOK'
  BY <1>t, <1>1, <1>2, <1>3, <1>4, <1>5, <1>6, <1>u DEF TidyOK, Tidy, Served, Terminal
<1>19. PromotionExclusive'
  BY <1>t, <1>1, <1>2, <1>3, <1>4, <1>5, <1>6, <1>u DEF PromotionExclusive, Prepared, ActiveOps,
     WorkersOK, Outside, Stock
<1>20. InputTypes' /\ RecordsOK' /\ LandedOK' /\ RowsOK' /\ TasksOK' /\ LedgerOK' /\ PoolOK'
  BY <1>u, InputTypesFrame, RecordsOKFrame, LandedOKFrame, RowsOKFrame, TasksOKFrame, LedgerOKFrame,
     PoolOKFrame
<1> QED BY <1>7, <1>8, <1>9, <1>10, <1>11, <1>12, <1>13, <1>14, <1>15, <1>16, <1>17, <1>18, <1>19,
   <1>20

\* The alarm aborts an operation that nobody publishes.
LEMMA FinReleaseAbortsStep ==
  ASSUME StockInv, NEW x \in Runs, FinRelease(x), x = Alarm,
         fin[x].says \in {"rejected", "cleanup"}, op[fin[x].op].st = "ready"
  PROVE  StockInv'
<1> USE DEF StockInv
<1>t. /\ None \notin Request \cup {"busy", "conflict", "cleanup", "rejected", "replayed", "pending"}
      /\ op \in [Op -> Ops] /\ w \in [Request -> Workers] /\ fin \in [Runs -> Fins]
      /\ (\A p \in Op : op[p].claim \in Nat /\ issued[p] \in Nat)
      /\ (\A b \in Request : w[b].claim \in Nat) /\ (\A y \in Runs : fin[y].claim \in Nat)
  BY FieldTypes DEF InputTypes, StoreTypes, ActorTypes
<1>u. UNCHANGED <<opOf, refOf, expect, refOnly, pool, retained, ledger, refs, version, seq, row,
   prep, reclease, intent, bucket, queued, task, w, issued, landed, moved, last, late, forgotten,
   faults, edits>>
  BY DEF FinRelease, inputs, leases, history
<1>1. /\ fin[x].op \in Op /\ fin[x].claim \in 1 .. MaxClaims /\ fin[x].claim <= issued[fin[x].op]
      /\ rlease' \in ReceiveLeases /\ please' \in PublicationLeases /\ fin[x].pc = "release"
      /\ \/ rlease' = rlease
         \/ /\ rlease'.tok = None /\ ~rlease'.live /\ rlease.tok = fin[x].tok
            /\ fin[x].tok # None /\ opOf[fin[x].tok] = fin[x].op /\ ~Ready(x)
            /\ Claimed(x) <=> fin[x].tok = op[fin[x].op].lease
  BY ReleaseFacts DEF FinRelease
<1>2. PICK g \in Fins : /\ fin' = [fin EXCEPT ![x] = g] /\ g = NoFin /\ g.pc = "idle" /\ g.op = None
                      /\ g.tok = None /\ g.says = None /\ g.claim = 0
  BY NoFinOK DEF FinRelease
<1>3. None \notin Op /\ Alarm \in Runs
  BY StockAssumption DEF Runs
<1>4. PICK e \in Ops :
       /\ op' = [op EXCEPT ![fin[x].op] = e]
       /\ e.st = "aborted" /\ e.claim = op[fin[x].op].claim /\ e.lease = op[fin[x].op].lease
       /\ (e.lapsed <=> op[fin[x].op].lapsed)
       /\ e.pend /\ (e.retry <=> op[fin[x].op].retry) /\ (e.plan <=> op[fin[x].op].plan)
  <2>0. op' = [op EXCEPT ![fin[x].op].st = "aborted", ![fin[x].op].pend = TRUE] /\ fin[x].op \in Op
    BY <1>1 DEF FinRelease
  <2>1. /\ op'[fin[x].op] = [op[fin[x].op] EXCEPT !.st = "aborted", !.pend = TRUE]
        /\ op[fin[x].op] \in Ops
        /\ op' = [op EXCEPT ![fin[x].op] = op'[fin[x].op]]
    BY <1>t, <2>0
  <2> HIDE DEF StockInv
  <2>2. PICK d, f : d = op[fin[x].op] /\ f = op'[fin[x].op]
    OBVIOUS
  <2>3. f = [d EXCEPT !.st = "aborted", !.pend = TRUE] /\ d \in Ops
    BY <2>1, <2>2, Zenon
  <2>4. /\ f \in Ops /\ f.st = "aborted" /\ f.claim = d.claim /\ f.lease = d.lease /\ f.pend
        /\ (f.lapsed <=> d.lapsed) /\ (f.retry <=> d.retry) /\ (f.plan <=> d.plan)
    <3>1. d \in Ops /\ f = [d EXCEPT !.st = "aborted", !.pend = TRUE]
      BY <2>3
    <3> QED BY ONLY <3>1, AbortedOK, ZenonT(60)
  <2> QED BY <2>1, <2>2, <2>4
<1>5. alarm' = TRUE /\ ~Claimed(x) /\ ~Ready(x)
  BY ReleaseFacts DEF FinRelease, Ready
<1>6. ~op[fin[x].op].plan /\ row[<<fin[x].op, op[fin[x].op].claim>>] = 0
  BY <1>1, <1>5 DEF WalOK, RowsOK
<1>7. StoreTypes'
  BY <1>t, <1>1, <1>2, <1>3, <1>4, <1>5, <1>6, <1>u DEF StoreTypes
<1>8. ActorTypes'
  BY <1>t, <1>1, <1>2, <1>3, <1>4, <1>5, <1>6, <1>u DEF ActorTypes
<1>9. RecordsOK'
  BY <1>t, <1>1, <1>2, <1>3, <1>4, <1>5, <1>6, <1>u DEF RecordsOK
<1>10. OwnersOK'
  BY <1>t, <1>1, <1>2, <1>3, <1>4, <1>5, <1>6, <1>u DEF OwnersOK, WorkersOK, Outside, Stock
<1>11. TokensOK'
  BY <1>t, <1>1, <1>2, <1>3, <1>4, <1>5, <1>6, <1>u DEF TokensOK, Used, Stock, WorkersOK, Outside
<1>12. FinsOK'
  BY <1>t, <1>1, <1>2, <1>3, <1>4, <1>5, <1>6, <1>u DEF FinsOK, Claimed, Owned, Token
<1>13. LaneOK'
  BY <1>t, <1>1, <1>2, <1>3, <1>4, <1>5, <1>6, <1>u DEF LaneOK, Ready, Claimed, Owned, Valid,
     FinsOK, Token, RecordsOK
<1>14. LandedOK'
  BY <1>t, <1>1, <1>2, <1>3, <1>4, <1>5, <1>6, <1>u DEF LandedOK
<1>15. AnswersOK'
  BY <1>t, <1>1, <1>2, <1>3, <1>4, <1>5, <1>6, <1>u DEF AnswersOK, Served, Over, Terminal
<1>16. WalOK'
  <2>1. WalOK /\ RecordsOK
    OBVIOUS
  <2> QED BY ONLY <2>1, <1>1, <1>2, <1>3, <1>4, <1>u DEF WalOK, Claimed, Owned, Valid, RecordsOK,
     Ready
<1>17. RowsOK'
  BY <1>t, <1>1, <1>2, <1>3, <1>4, <1>5, <1>6, <1>u DEF RowsOK, RecordsOK
<1>18. DismissedOK'
  <2>0. \A o \in Op : /\ op'[o].claim = op[o].claim
                      /\ op'[o].st = op[o].st \/ (op[o].st = "ready" /\ op'[o].st = "aborted")
    BY <1>t, <1>1, <1>2, <1>3, <1>4, <1>5, <1>6, <1>u
  <2>1. \A o \in Op : \A c \in Nat : /\ Past(o, c) => Past(o, c)'
                                  /\ Over(o, c) => Over(o, c)'
    BY <2>0, <1>t, <1>u DEF Past, Over, Terminal
  <2>2. \A o \in Op : \A c \in Nat : Unserved(o, c) => Unserved(o, c)'
    BY <2>0, <1>t, <1>u DEF Unserved, Past
  <2>4. ASSUME NEW y \in Request, fin'[y].says \in {"conflict", "cleanup", "rejected"}, w'[y].pc = "called"
        PROVE  Unserved(fin[y].op, fin[y].claim)'
    <3>1. y \in Runs /\ fin'[y] = fin[y] /\ w'[y] = w[y]
      BY <2>4, <1>t, <1>2, <1>u DEF Runs
    <3>2. Unserved(fin[y].op, fin[y].claim) /\ fin[y].op \in Op /\ fin[y].claim \in Nat
      BY <2>4, <3>1, <1>t DEF DismissedOK, FinsOK
    <3> QED BY <3>1, <3>2, <2>2
  <2>5. ASSUME NEW b \in Request
        PROVE  /\ (w[b].claim >= 1 /\ op[opOf[b]].claim # w[b].claim =>
                    row[Mine(b)] = 0 \/ opOf[b] \in forgotten)'
               /\ (w[b].says \in {"conflict", "cleanup", "rejected"} => Unserved(opOf[b], w[b].claim))'
               /\ (w[b].pc = "erase" /\ w[b].outputs => Unserved(opOf[b], w[b].claim))'
               /\ (w[b].pc \in {"erase", "complete"} => Over(opOf[b], w[b].claim))'
               /\ (w[b].pc \in {"execute", "reject"} /\ op[opOf[b]].claim = w[b].claim =>
                    op[opOf[b]].st \in {"processing", "aborted", "failed"})'
               /\ (w[b].claim >= 1 /\ op[opOf[b]].claim = w[b].claim /\ op[opOf[b]].st = "processing" =>
                    w[b].own /\ w[b].pc \in {"execute", "reject", "finalize"})'
    <3>1. CASE w[b].claim >= 1 /\ opOf[b] \in Op
      <4>1. w[b].claim \in Nat /\ w'[b] = w[b] /\ opOf'[b] = opOf[b]
        BY <1>t, <1>u
      <4>2. row'[Mine(b)'] = row[Mine(b)] /\ forgotten' = forgotten
        BY <1>u DEF Mine
      <4>3. /\ Unserved(opOf[b], w[b].claim) => Unserved(opOf[b], w[b].claim)'
            /\ Over(opOf[b], w[b].claim) => Over(opOf[b], w[b].claim)'
        BY <3>1, <4>1, <2>0, <1>u DEF Unserved, Past, Over, Terminal
      <4>4. (w[b].claim >= 1 /\ op[opOf[b]].claim # w[b].claim =>
               row[Mine(b)] = 0 \/ opOf[b] \in forgotten)'
        BY <3>1, <4>1, <4>2, <2>0 DEF DismissedOK
      <4>5. (w[b].says \in {"conflict", "cleanup", "rejected"} => Unserved(opOf[b], w[b].claim))'
        BY <4>1, <4>3 DEF DismissedOK
      <4>6. (w[b].pc = "erase" /\ w[b].outputs => Unserved(opOf[b], w[b].claim))'
        BY <4>1, <4>3 DEF DismissedOK
      <4>7. (w[b].pc \in {"erase", "complete"} => Over(opOf[b], w[b].claim))'
        BY <4>1, <4>3 DEF DismissedOK
      <4>8. (w[b].pc \in {"execute", "reject"} /\ op[opOf[b]].claim = w[b].claim =>
               op[opOf[b]].st \in {"processing", "aborted", "failed"})'
        BY <3>1, <4>1, <2>0 DEF DismissedOK
      <4>9. (w[b].claim >= 1 /\ op[opOf[b]].claim = w[b].claim /\ op[opOf[b]].st = "processing" =>
               w[b].own /\ w[b].pc \in {"execute", "reject", "finalize"})'
        BY <3>1, <4>1, <2>0 DEF DismissedOK
      <4> QED BY <4>4, <4>5, <4>6, <4>7, <4>8, <4>9
    <3>2. CASE ~(w[b].claim >= 1 /\ opOf[b] \in Op)
      BY <3>2, <1>t, <1>u DEF WorkersOK, AnswersOK, Outside, Stock
    <3> QED BY <3>1, <3>2
  <2> QED BY <2>4, <2>5 DEF DismissedOK
<1>19. StoredOK'
  BY <1>t, <1>1, <1>2, <1>3, <1>4, <1>5, <1>6, <1>u DEF StoredOK, Mine
<1>20. TidyOK'
  BY <1>t, <1>1, <1>2, <1>3, <1>4, <1>5, <1>6, <1>u DEF TidyOK, Tidy, Served, Terminal
<1>21. TasksOK'
  BY <1>t, <1>1, <1>2, <1>3, <1>4, <1>5, <1>6, <1>u DEF TasksOK, Past, Over, Tidy, Served, Terminal
<1>22. LedgerOK'
  BY <1>t, <1>1, <1>2, <1>3, <1>4, <1>5, <1>6, <1>u DEF LedgerOK
<1>23. PoolOK'
  <2>1. Prepared' \subseteq Prepared
    BY <1>t, <1>1, <1>2, <1>3, <1>4, <1>5, <1>6, <1>u DEF Prepared
  <2>2. ActiveOps' \subseteq ActiveOps
    BY <1>t, <1>1, <1>2, <1>3, <1>4, <1>5, <1>6, <1>u DEF ActiveOps
  <2> QED BY <2>1, <2>2, <1>u, PoolShrinks DEF InputTypes
<1>24. PromotionExclusive'
  BY <1>t, <1>1, <1>2, <1>3, <1>4, <1>5, <1>6, <1>u DEF PromotionExclusive, Prepared, ActiveOps,
     WorkersOK, Outside, Stock
<1>25. InputTypes' /\ WorkersOK'
  BY <1>u, InputTypesFrame, WorkersOKFrame
<1> QED BY <1>7, <1>8, <1>9, <1>10, <1>11, <1>12, <1>13, <1>14, <1>15, <1>16, <1>17, <1>18, <1>19,
   <1>20, <1>21, <1>22, <1>23, <1>24, <1>25

------------------------------------------------------------------------------
(* The queue *)

\* A consumer that is not there.
LEMMA NoTaskOK ==
  NoTask \in Tasks /\ NoTask.pc = "idle" /\ NoTask.claim = 0 /\ ~NoTask.outputs
<1>1. NoTask \in Tasks /\ NoTask.pc = "idle" /\ NoTask.claim = 0
  BY StockAssumption DEF NoTask, Tasks
<1>2. ~NoTask.outputs
  BY Zenon DEF NoTask
<1> QED BY <1>1, <1>2

\* A message about a publication starts a consumer.
LEMMA DeliverPublishesStep ==
  ASSUME StockInv, NEW o \in Op, Deliver(o), op[o].st = "finalizing", op[o].plan
  PROVE  StockInv'
<1> USE DEF StockInv
<1>t. /\ None \notin Request \cup {"busy", "conflict", "cleanup", "rejected", "replayed", "pending"}
      /\ op \in [Op -> Ops] /\ w \in [Request -> Workers] /\ fin \in [Runs -> Fins]
      /\ (\A p \in Op : op[p].claim \in Nat /\ issued[p] \in Nat)
      /\ (\A b \in Request : w[b].claim \in Nat) /\ (\A y \in Runs : fin[y].claim \in Nat)
  BY FieldTypes DEF InputTypes, StoreTypes, ActorTypes
<1>u. UNCHANGED <<opOf, refOf, expect, refOnly, pool, retained, op, ledger, refs, version, seq, row,
   rlease, prep, please, reclease, intent, alarm, fin, bucket, queued, w, issued, landed, moved,
   last, late, forgotten, faults, edits>>
  BY DEF Deliver, inputs, leases, history
<1>1. /\ task \in [Op -> Tasks] /\ op[o].claim \in 0 .. MaxClaims
      /\ (op[o].st # "none" => op[o].claim >= 1)
      /\ (task[o].pc # "idle" => task[o].claim \in 1 .. MaxClaims)
  BY <1>t, ClaimTypes DEF ActorTypes, Ops, RecordsOK
<1>2. PICK k \in Tasks :
       /\ task' = [task EXCEPT ![o] = k] /\ k.pc = "publish" /\ k.claim = op[o].claim /\ ~k.outputs
  <2>1. task' = [task EXCEPT ![o] = [pc |-> "publish", claim |-> op[o].claim, outputs |-> FALSE]]
    BY DEF Deliver
  <2>2. task'[o] \in Tasks /\ task' = [task EXCEPT ![o] = task'[o]]
    BY <1>1, <2>1 DEF Tasks
  <2>3. task'[o].pc = "publish" /\ task'[o].claim = op[o].claim /\ ~task'[o].outputs
    BY <1>1, <2>1 DEF Tasks
  <2> QED BY <2>2, <2>3
<1>3. ActorTypes'
  BY <1>t, <1>1, <1>2, <1>u DEF ActorTypes
<1>4. TasksOK'
  BY <1>t, <1>1, <1>2, <1>u DEF TasksOK, Past, Over, Tidy, Served, Terminal, RecordsOK
<1>5. InputTypes' /\ StoreTypes' /\ RecordsOK' /\ WorkersOK' /\ OwnersOK' /\ TokensOK' /\ FinsOK' /\
   LaneOK' /\ LandedOK' /\ AnswersOK' /\ WalOK' /\ RowsOK' /\ DismissedOK' /\ StoredOK' /\ TidyOK'
   /\ LedgerOK' /\ PoolOK' /\ PromotionExclusive'
  BY <1>u, InputTypesFrame, StoreTypesFrame, RecordsOKFrame, WorkersOKFrame, OwnersOKFrame,
     TokensOKFrame, FinsOKFrame, LaneOKFrame, LandedOKFrame, AnswersOKFrame, WalOKFrame,
     RowsOKFrame, DismissedOKFrame, StoredOKFrame, TidyOKFrame, LedgerOKFrame, PoolOKFrame,
     PromotionExclusiveFrame
<1> QED BY <1>3, <1>4, <1>5

\* ... and so does one about a cleanup.
LEMMA DeliverErasesStep ==
  ASSUME StockInv, NEW o \in Op, Deliver(o), op[o].st \in Terminal, op[o].pend
  PROVE  StockInv'
<1> USE DEF StockInv
<1>t. /\ None \notin Request \cup {"busy", "conflict", "cleanup", "rejected", "replayed", "pending"}
      /\ op \in [Op -> Ops] /\ w \in [Request -> Workers] /\ fin \in [Runs -> Fins]
      /\ (\A p \in Op : op[p].claim \in Nat /\ issued[p] \in Nat)
      /\ (\A b \in Request : w[b].claim \in Nat) /\ (\A y \in Runs : fin[y].claim \in Nat)
  BY FieldTypes DEF InputTypes, StoreTypes, ActorTypes
<1>u. UNCHANGED <<opOf, refOf, expect, refOnly, pool, retained, op, ledger, refs, version, seq, row,
   rlease, prep, please, reclease, intent, alarm, fin, bucket, queued, w, issued, landed, moved,
   last, late, forgotten, faults, edits>>
  BY DEF Deliver, Terminal, inputs, leases, history
<1>1. /\ task \in [Op -> Tasks] /\ op[o].claim \in 0 .. MaxClaims
      /\ (op[o].st # "none" => op[o].claim >= 1)
      /\ (task[o].pc # "idle" => task[o].claim \in 1 .. MaxClaims)
  BY <1>t, ClaimTypes DEF ActorTypes, Ops, RecordsOK
<1>2. PICK k \in Tasks :
       /\ task' = [task EXCEPT ![o] = k] /\ k.pc = "erase" /\ k.claim = op[o].claim
       /\ (k.outputs <=> op[o].st # "committed")
  <2>1. task' = [task EXCEPT ![o] = [pc |-> "erase", claim |-> op[o].claim,
                                      outputs |-> op[o].st # "committed"]]
    BY DEF Deliver, Terminal
  <2>2. task'[o] \in Tasks /\ task' = [task EXCEPT ![o] = task'[o]]
    BY <1>1, <2>1 DEF Tasks
  <2>3. task'[o].pc = "erase" /\ task'[o].claim = op[o].claim /\ (task'[o].outputs <=> op[o].st # "committed")
    BY <1>1, <2>1 DEF Tasks
  <2> QED BY <2>2, <2>3
<1>3. ActorTypes'
  BY <1>t, <1>1, <1>2, <1>u DEF ActorTypes
<1>4. TasksOK'
  BY <1>t, <1>1, <1>2, <1>u DEF TasksOK, Past, Over, Tidy, Served, Terminal, RecordsOK, RowsOK,
     LandedOK
<1>5. InputTypes' /\ StoreTypes' /\ RecordsOK' /\ WorkersOK' /\ OwnersOK' /\ TokensOK' /\ FinsOK' /\
   LaneOK' /\ LandedOK' /\ AnswersOK' /\ WalOK' /\ RowsOK' /\ DismissedOK' /\ StoredOK' /\ TidyOK'
   /\ LedgerOK' /\ PoolOK' /\ PromotionExclusive'
  BY <1>u, InputTypesFrame, StoreTypesFrame, RecordsOKFrame, WorkersOKFrame, OwnersOKFrame,
     TokensOKFrame, FinsOKFrame, LaneOKFrame, LandedOKFrame, AnswersOKFrame, WalOKFrame,
     RowsOKFrame, DismissedOKFrame, StoredOKFrame, TidyOKFrame, LedgerOKFrame, PoolOKFrame,
     PromotionExclusiveFrame
<1> QED BY <1>3, <1>4, <1>5

\* A message with nothing left to do is dropped.
LEMMA DeliverDropsStep ==
  ASSUME StockInv, NEW o \in Op, Deliver(o), ~(op[o].st = "finalizing" /\ op[o].plan),
         ~(op[o].st \in Terminal /\ op[o].pend)
  PROVE  StockInv'
<1> USE DEF StockInv
<1>t. /\ None \notin Request \cup {"busy", "conflict", "cleanup", "rejected", "replayed", "pending"}
      /\ op \in [Op -> Ops] /\ w \in [Request -> Workers] /\ fin \in [Runs -> Fins]
      /\ (\A p \in Op : op[p].claim \in Nat /\ issued[p] \in Nat)
      /\ (\A b \in Request : w[b].claim \in Nat) /\ (\A y \in Runs : fin[y].claim \in Nat)
  BY FieldTypes DEF InputTypes, StoreTypes, ActorTypes
<1>u. UNCHANGED <<opOf, refOf, expect, refOnly, pool, retained, op, ledger, refs, version, seq, row,
   rlease, prep, please, reclease, intent, alarm, fin, bucket, task, w, issued, landed, moved, last,
   late, forgotten, faults, edits>>
  BY DEF Deliver, inputs, leases, history
<1>1. queued' \subseteq queued
  BY DEF Deliver
<1>2. ActorTypes'
  BY <1>t, <1>1, <1>u DEF ActorTypes
<1>3. InputTypes' /\ StoreTypes' /\ RecordsOK' /\ WorkersOK' /\ OwnersOK' /\ TokensOK' /\ FinsOK' /\
   LaneOK' /\ LandedOK' /\ AnswersOK' /\ WalOK' /\ RowsOK' /\ DismissedOK' /\ StoredOK' /\ TidyOK'
   /\ TasksOK' /\ LedgerOK' /\ PoolOK' /\ PromotionExclusive'
  BY <1>u, InputTypesFrame, StoreTypesFrame, RecordsOKFrame, WorkersOKFrame, OwnersOKFrame,
     TokensOKFrame, FinsOKFrame, LaneOKFrame, LandedOKFrame, AnswersOKFrame, WalOKFrame,
     RowsOKFrame, DismissedOKFrame, StoredOKFrame, TidyOKFrame, TasksOKFrame, LedgerOKFrame,
     PoolOKFrame, PromotionExclusiveFrame
<1> QED BY <1>2, <1>3

\* A consumer confirms a publication.
LEMMA TaskConfirmsCommittedStep ==
  ASSUME StockInv, NEW o \in Op, TaskConfirms(o), Confirmed(o, task[o].claim)
  PROVE  StockInv'
<1> USE DEF StockInv
<1>t. /\ None \notin Request \cup {"busy", "conflict", "cleanup", "rejected", "replayed", "pending"}
      /\ op \in [Op -> Ops] /\ w \in [Request -> Workers] /\ fin \in [Runs -> Fins]
      /\ (\A p \in Op : op[p].claim \in Nat /\ issued[p] \in Nat)
      /\ (\A b \in Request : w[b].claim \in Nat) /\ (\A y \in Runs : fin[y].claim \in Nat)
  BY FieldTypes DEF InputTypes, StoreTypes, ActorTypes
<1>u. UNCHANGED <<opOf, refOf, expect, refOnly, pool, retained, ledger, refs, version, seq, row,
   rlease, prep, please, reclease, intent, alarm, fin, bucket, queued, w, issued, landed, moved,
   last, late, forgotten, faults, edits>>
  BY DEF TaskConfirms, inputs, leases, history
<1>1. /\ task \in [Op -> Tasks] /\ op[o].claim \in 0 .. MaxClaims
      /\ (op[o].st # "none" => op[o].claim >= 1)
      /\ (task[o].pc # "idle" => task[o].claim \in 1 .. MaxClaims)
  BY <1>t, ClaimTypes DEF ActorTypes, Ops, RecordsOK
<1>2. /\ op[o].st \in {"finalizing", "committed"} /\ op[o].claim = task[o].claim
      /\ task[o].pc = "publish"
      /\ ~task[o].outputs
  BY DEF TaskConfirms, Confirmed, Owned, TasksOK
<1>3. PICK k \in Tasks :
       /\ task' = [task EXCEPT ![o] = k] /\ k.pc = "erase" /\ k.claim = task[o].claim /\ ~k.outputs
  <2>1. task' = [task EXCEPT ![o].pc = "erase"] /\ ~task[o].outputs
    BY DEF TaskConfirms, Task, TasksOK
  <2>2. task'[o] \in Tasks /\ task' = [task EXCEPT ![o] = task'[o]]
    BY <1>1, <2>1 DEF Tasks
  <2>3. task'[o].pc = "erase" /\ task'[o].claim = task[o].claim /\ ~task'[o].outputs
    BY <1>1, <2>1 DEF Tasks
  <2> QED BY <2>2, <2>3
<1>4. PICK e \in Ops :
       /\ op' = [op EXCEPT ![o] = e]
       /\ e.st = "committed" /\ e.claim = op[o].claim /\ e.lease = op[o].lease
       /\ (e.lapsed <=> op[o].lapsed)
       /\ (e.pend <=> op[o].pend) /\ (e.retry <=> op[o].retry) /\ (e.plan <=> op[o].plan)
  <2>1. op' = [op EXCEPT ![o].st = "committed"]
    BY DEF TaskConfirms, Commits
  <2>2. op \in [Op -> Ops] /\ o \in Op
    BY <1>t
  <2>3. PICK d, f : d = op[o] /\ f = [d EXCEPT !.st = "committed"]
    OBVIOUS
  <2>4. d \in Ops /\ op' = [op EXCEPT ![o] = f]
    BY ONLY <2>1, <2>2, <2>3
  <2>5. f \in Ops
    BY ONLY <2>3, <2>4 DEF Ops, Terminal
  <2>6. op'[o] \in Ops /\ op' = [op EXCEPT ![o] = op'[o]]
    BY ONLY <2>2, <2>4, <2>5
  <2>7. /\ op'[o].st = "committed" /\ op'[o].claim = op[o].claim /\ op'[o].lease = op[o].lease
        /\ (op'[o].lapsed <=> op[o].lapsed)
        /\ (op'[o].pend <=> op[o].pend) /\ (op'[o].retry <=> op[o].retry)
        /\ (op'[o].plan <=> op[o].plan)
    BY <1>t, <2>1 DEF Ops
  <2> QED BY <2>6, <2>7
<1>5. StoreTypes'
  BY <1>t, <1>1, <1>2, <1>3, <1>4, <1>u DEF StoreTypes
<1>6. ActorTypes'
  BY <1>t, <1>1, <1>2, <1>3, <1>4, <1>u DEF ActorTypes
<1>7. RecordsOK'
  BY <1>t, <1>1, <1>2, <1>3, <1>4, <1>u DEF RecordsOK
<1>8. OwnersOK'
  BY <1>t, <1>1, <1>2, <1>3, <1>4, <1>u DEF OwnersOK, WorkersOK, Outside, Stock
<1>9. TokensOK'
  BY <1>t, <1>1, <1>2, <1>3, <1>4, <1>u DEF TokensOK, Used, Stock, WorkersOK, Outside
<1>10. FinsOK'
  BY <1>t, <1>1, <1>2, <1>3, <1>4, <1>u DEF FinsOK, Claimed, Owned, Token
<1>11. LaneOK'
  BY <1>t, <1>1, <1>2, <1>3, <1>4, <1>u DEF LaneOK, Ready, Claimed, Owned, Valid, FinsOK, Token
<1>12. LandedOK'
  BY <1>t, <1>1, <1>2, <1>3, <1>4, <1>u DEF LandedOK
<1>13. AnswersOK'
  BY <1>t, <1>1, <1>2, <1>3, <1>4, <1>u DEF AnswersOK, Served, Over, Terminal
<1>14. WalOK'
  BY <1>t, <1>1, <1>2, <1>3, <1>4, <1>u DEF WalOK, Claimed, Owned, Valid, Runs, RecordsOK
<1>15. RowsOK'
  BY <1>t, <1>1, <1>2, <1>3, <1>4, <1>u DEF RowsOK, RecordsOK
<1>16. DismissedOK'
  BY <1>t, <1>1, <1>2, <1>3, <1>4, <1>u DEF DismissedOK, Unserved, Past, Over, Mine, Terminal, Runs,
     WorkersOK, Outside, Stock
<1>17. StoredOK'
  BY <1>t, <1>1, <1>2, <1>3, <1>4, <1>u DEF StoredOK, Mine
<1>18. TidyOK'
  BY <1>t, <1>1, <1>2, <1>3, <1>4, <1>u DEF TidyOK, Tidy, Served, Terminal, LandedOK
<1>19. TasksOK'
  BY <1>t, <1>1, <1>2, <1>3, <1>4, <1>u DEF TasksOK, Past, Over, Tidy, Served, Terminal, LandedOK
<1>20. LedgerOK'
  BY <1>t, <1>1, <1>2, <1>3, <1>4, <1>u DEF LedgerOK
<1>21. PoolOK'
  <2>1. Prepared' \subseteq Prepared
    BY <1>t, <1>1, <1>2, <1>3, <1>4, <1>u DEF Prepared
  <2>2. ActiveOps' \subseteq ActiveOps
    BY <1>t, <1>1, <1>2, <1>3, <1>4, <1>u DEF ActiveOps
  <2> QED BY <2>1, <2>2, <1>u, PoolShrinks DEF InputTypes
<1>22. PromotionExclusive'
  BY <1>t, <1>1, <1>2, <1>3, <1>4, <1>u DEF PromotionExclusive, Prepared, ActiveOps, WorkersOK,
     Outside, Stock
<1>23. InputTypes' /\ WorkersOK'
  BY <1>u, InputTypesFrame, WorkersOKFrame
<1> QED BY <1>5, <1>6, <1>7, <1>8, <1>9, <1>10, <1>11, <1>12, <1>13, <1>14, <1>15, <1>16, <1>17,
   <1>18, <1>19, <1>20, <1>21, <1>22, <1>23

\* ... or finds that it is over.
LEMMA TaskConfirmsRefusedStep ==
  ASSUME StockInv, NEW o \in Op, TaskConfirms(o), ~Confirmed(o, task[o].claim)
  PROVE  StockInv'
<1> USE DEF StockInv
<1>t. /\ None \notin Request \cup {"busy", "conflict", "cleanup", "rejected", "replayed", "pending"}
      /\ op \in [Op -> Ops] /\ w \in [Request -> Workers] /\ fin \in [Runs -> Fins]
      /\ (\A p \in Op : op[p].claim \in Nat /\ issued[p] \in Nat)
      /\ (\A b \in Request : w[b].claim \in Nat) /\ (\A y \in Runs : fin[y].claim \in Nat)
  BY FieldTypes DEF InputTypes, StoreTypes, ActorTypes
<1>u. UNCHANGED <<opOf, refOf, expect, refOnly, pool, retained, op, ledger, refs, version, seq, row,
   rlease, prep, please, reclease, intent, alarm, fin, bucket, queued, w, issued, landed, moved,
   last, late, forgotten, faults, edits>>
  BY DEF TaskConfirms, Commits, inputs, leases, history
<1>1. /\ task \in [Op -> Tasks] /\ op[o].claim \in 0 .. MaxClaims
      /\ (op[o].st # "none" => op[o].claim >= 1)
      /\ (task[o].pc # "idle" => task[o].claim \in 1 .. MaxClaims)
  BY <1>t, ClaimTypes DEF ActorTypes, Ops, RecordsOK
<1>2. PICK k \in Tasks :
       task' = [task EXCEPT ![o] = k] /\ k.pc = "idle" /\ k.claim = 0 /\ ~k.outputs
  BY NoTaskOK DEF TaskConfirms
<1>3. ActorTypes'
  BY <1>t, <1>1, <1>2, <1>u DEF ActorTypes
<1>4. TasksOK'
  BY <1>t, <1>1, <1>2, <1>u DEF TasksOK, Past, Over, Tidy, Served, Terminal
<1>5. InputTypes' /\ StoreTypes' /\ RecordsOK' /\ WorkersOK' /\ OwnersOK' /\ TokensOK' /\ FinsOK' /\
   LaneOK' /\ LandedOK' /\ AnswersOK' /\ WalOK' /\ RowsOK' /\ DismissedOK' /\ StoredOK' /\ TidyOK'
   /\ LedgerOK' /\ PoolOK' /\ PromotionExclusive'
  BY <1>u, InputTypesFrame, StoreTypesFrame, RecordsOKFrame, WorkersOKFrame, OwnersOKFrame,
     TokensOKFrame, FinsOKFrame, LaneOKFrame, LandedOKFrame, AnswersOKFrame, WalOKFrame,
     RowsOKFrame, DismissedOKFrame, StoredOKFrame, TidyOKFrame, LedgerOKFrame, PoolOKFrame,
     PromotionExclusiveFrame
<1> QED BY <1>3, <1>4, <1>5

\* A consumer deletes the outputs.
LEMMA TaskErasesStep ==
  ASSUME StockInv, NEW o \in Op, TaskErases(o)
  PROVE  StockInv'
<1> USE DEF StockInv
<1>t. /\ None \notin Request \cup {"busy", "conflict", "cleanup", "rejected", "replayed", "pending"}
      /\ op \in [Op -> Ops] /\ w \in [Request -> Workers] /\ fin \in [Runs -> Fins]
      /\ (\A p \in Op : op[p].claim \in Nat /\ issued[p] \in Nat)
      /\ (\A b \in Request : w[b].claim \in Nat) /\ (\A y \in Runs : fin[y].claim \in Nat)
  BY FieldTypes DEF InputTypes, StoreTypes, ActorTypes
<1>u. UNCHANGED <<opOf, refOf, expect, refOnly, pool, retained, op, ledger, refs, version, seq, row,
   rlease, prep, please, reclease, intent, alarm, fin, queued, w, issued, landed, moved, last, late,
   forgotten, faults, edits>>
  BY DEF TaskErases, inputs, leases, history
<1>1. /\ task \in [Op -> Tasks] /\ op[o].claim \in 0 .. MaxClaims
      /\ (op[o].st # "none" => op[o].claim >= 1)
      /\ (task[o].pc # "idle" => task[o].claim \in 1 .. MaxClaims)
  BY <1>t, ClaimTypes DEF ActorTypes, Ops, RecordsOK
<1>2. task[o].pc = "erase"
  BY DEF TaskErases
<1>3. PICK k \in Tasks :
       /\ task' = [task EXCEPT ![o] = k] /\ k.pc = "complete" /\ k.claim = task[o].claim
       /\ (k.outputs <=> task[o].outputs)
  <2>1. task' = [task EXCEPT ![o].pc = "complete"]
    BY DEF TaskErases, Task
  <2>2. task'[o] \in Tasks /\ task' = [task EXCEPT ![o] = task'[o]]
    BY <1>1, <2>1 DEF Tasks
  <2>3. task'[o].pc = "complete" /\ task'[o].claim = task[o].claim /\ (task'[o].outputs <=> task[o].outputs)
    BY <1>1, <2>1 DEF Tasks
  <2> QED BY <2>2, <2>3
<1>4. /\ bucket' \subseteq bucket /\ (task[o].outputs => <<o, task[o].claim>> \notin bucket')
      /\ \A k1 \in bucket : k1 # <<o, task[o].claim>> \/ ~task[o].outputs => k1 \in bucket'
  BY DEF TaskErases
<1>5. /\ task[o].outputs => Past(o, task[o].claim) /\ row[<<o, task[o].claim>>] = 0
      /\ ~task[o].outputs => Served(o, task[o].claim)
  BY <1>2 DEF TasksOK
<1>6. ActorTypes'
  BY <1>t, <1>1, <1>2, <1>3, <1>4, <1>5, <1>u DEF ActorTypes
<1>7. StoredOK'
  BY <1>t, <1>1, <1>2, <1>3, <1>4, <1>5, <1>u DEF StoredOK, Mine, Past
<1>8. TidyOK'
  BY <1>t, <1>1, <1>2, <1>3, <1>4, <1>5, <1>u DEF TidyOK, Tidy, Served, Terminal
<1>9. TasksOK'
  <2>0. task'[o].claim = task[o].claim
    BY <1>1, <1>3
  <2>1. Tidy(o, task[o].claim)'
    <3>1. CASE task[o].outputs
      BY <3>1, <2>0, <1>4, <1>u DEF Tidy
    <3>2. CASE ~task[o].outputs /\ o \in refOnly
      <4>1. <<o, task[o].claim>> \notin bucket
        BY <3>2 DEF TidyOK
      <4> QED BY <4>1, <2>0, <1>4, <1>u DEF Tidy
    <3>3. CASE ~task[o].outputs /\ o \notin refOnly
      BY <3>3, <2>0, <1>5, <1>u DEF Tidy, Served
    <3> QED BY <3>1, <3>2, <3>3
  <2>2. Over(o, task[o].claim)'
    BY <1>2, <1>3, <1>1, <1>u DEF TasksOK, Over
  <2> SUFFICES ASSUME NEW p \in Op
               PROVE  /\ (task[p].pc # "idle" => task[p].claim >= 1 /\ task[p].claim <= issued[p])'
                      /\ (task[p].outputs => task[p].pc \in {"erase", "complete"})'
                      /\ (task[p].pc = "erase" /\ task[p].outputs =>
                           Past(p, task[p].claim) /\ row[<<p, task[p].claim>>] = 0)'
                      /\ (task[p].pc = "erase" /\ ~task[p].outputs => Served(p, task[p].claim))'
                      /\ (task[p].pc \in {"erase", "complete"} => Over(p, task[p].claim))'
                      /\ (task[p].pc = "complete" => Tidy(p, task[p].claim))'
    BY Zenon DEF TasksOK
  <2>3. CASE p = o
    <3>1. task'[o].pc = "complete" /\ task'[o].claim = task[o].claim /\ (task'[o].outputs <=> task[o].outputs)
      BY <1>1, <1>3
    <3>2. Tidy(o, task[o].claim)' /\ Over(o, task[o].claim)'
      BY <2>1, <2>2
    <3> QED BY <2>3, <3>1, <3>2, <1>1, <1>2, <1>u DEF TasksOK
  <2>4. CASE p # o
    <3>1. task'[p] = task[p]
      BY <2>4, <1>1, <1>3
    <3>2. Tidy(p, task[p].claim) => Tidy(p, task[p].claim)'
      BY <3>1, <1>4, <1>u DEF Tidy
    <3> QED BY <3>1, <3>2, <1>u DEF TasksOK, Past, Over, Served
  <2> QED BY <2>3, <2>4
<1>10. InputTypes' /\ StoreTypes' /\ RecordsOK' /\ WorkersOK' /\ OwnersOK' /\ TokensOK' /\ FinsOK'
   /\ LaneOK' /\ LandedOK' /\ AnswersOK' /\ WalOK' /\ RowsOK' /\ DismissedOK' /\ LedgerOK' /\
   PoolOK' /\ PromotionExclusive'
  BY <1>u, InputTypesFrame, StoreTypesFrame, RecordsOKFrame, WorkersOKFrame, OwnersOKFrame,
     TokensOKFrame, FinsOKFrame, LaneOKFrame, LandedOKFrame, AnswersOKFrame, WalOKFrame,
     RowsOKFrame, DismissedOKFrame, LedgerOKFrame, PoolOKFrame, PromotionExclusiveFrame
<1> QED BY <1>6, <1>7, <1>8, <1>9, <1>10

\* A consumer closes the record.
LEMMA TaskCompletesClosesStep ==
  ASSUME StockInv, NEW o \in Op, TaskCompletes(o), Closes(o)
  PROVE  StockInv'
<1> USE DEF StockInv
<1>t. /\ None \notin Request \cup {"busy", "conflict", "cleanup", "rejected", "replayed", "pending"}
      /\ op \in [Op -> Ops] /\ w \in [Request -> Workers] /\ fin \in [Runs -> Fins]
      /\ (\A p \in Op : op[p].claim \in Nat /\ issued[p] \in Nat)
      /\ (\A b \in Request : w[b].claim \in Nat) /\ (\A y \in Runs : fin[y].claim \in Nat)
  BY FieldTypes DEF InputTypes, StoreTypes, ActorTypes
<1>u. UNCHANGED <<opOf, refOf, expect, refOnly, pool, retained, ledger, refs, version, seq, row,
   rlease, prep, please, reclease, intent, fin, bucket, w, issued, landed, moved, last, forgotten,
   faults, edits>>
  BY DEF TaskCompletes, inputs, leases, history
<1>1. /\ task \in [Op -> Tasks] /\ op[o].claim \in 0 .. MaxClaims
      /\ (op[o].st # "none" => op[o].claim >= 1)
      /\ (task[o].pc # "idle" => task[o].claim \in 1 .. MaxClaims)
  BY <1>t, ClaimTypes DEF ActorTypes, Ops, RecordsOK
<1>2. PICK k \in Tasks :
       task' = [task EXCEPT ![o] = k] /\ k.pc = "idle" /\ k.claim = 0 /\ ~k.outputs
  BY NoTaskOK DEF TaskCompletes
<1>3. PICK e \in Ops :
       /\ op' = [op EXCEPT ![o] = e]
       /\ e.st = op[o].st /\ e.claim = op[o].claim /\ e.lease = op[o].lease
       /\ (e.lapsed <=> op[o].lapsed)
       /\ ~e.pend /\ (e.retry <=> op[o].retry) /\ (e.plan <=> op[o].plan)
  <2>0. op' = [op EXCEPT ![o].pend = FALSE]
    BY DEF TaskCompletes, Closed
  <2>1. /\ op'[o] = [op[o] EXCEPT !.pend = FALSE] /\ op[o] \in Ops
        /\ op' = [op EXCEPT ![o] = op'[o]]
    BY <1>t, <2>0
  <2> HIDE DEF StockInv
  <2>2. PICK d, f : d = op[o] /\ f = op'[o]
    OBVIOUS
  <2>3. f = [d EXCEPT !.pend = FALSE] /\ d \in Ops
    BY <2>1, <2>2, Zenon
  <2>4. /\ f \in Ops /\ f.st = d.st /\ f.claim = d.claim /\ f.lease = d.lease /\ ~f.pend
        /\ (f.lapsed <=> d.lapsed) /\ (f.retry <=> d.retry) /\ (f.plan <=> d.plan)
    BY <2>3, CleanedOK
  <2> QED BY <2>1, <2>2, <2>4
<1>4. /\ late' = late \cup ClosedLate(o, task[o].claim) /\ ClosedLate(o, task[o].claim) \subseteq {o}
      /\ op[o].pend /\ op[o].claim # task[o].claim => o \in late'
      /\ alarm' \in BOOLEAN /\ op[o].st \in Terminal /\ queued' \subseteq queued
      /\ task[o].pc = "complete"
  BY DEF TaskCompletes, ClosedLate, Closes, Owned
<1>5. o \in late \/ (<<o, task[o].claim>> \in bucket => row[<<o, task[o].claim>>] # 0)
  BY <1>4 DEF TasksOK, Tidy
<1>6. StoreTypes'
  BY <1>t, <1>1, <1>2, <1>3, <1>4, <1>5, <1>u DEF StoreTypes
<1>7. ActorTypes'
  BY <1>t, <1>1, <1>2, <1>3, <1>4, <1>5, <1>u DEF ActorTypes
<1>8. RecordsOK'
  BY <1>t, <1>1, <1>2, <1>3, <1>4, <1>5, <1>u DEF RecordsOK, Terminal
<1>9. OwnersOK'
  BY <1>t, <1>1, <1>2, <1>3, <1>4, <1>5, <1>u DEF OwnersOK, WorkersOK, Outside, Stock
<1>10. TokensOK'
  BY <1>t, <1>1, <1>2, <1>3, <1>4, <1>5, <1>u DEF TokensOK, Used, Stock, WorkersOK, Outside
<1>11. FinsOK'
  BY <1>t, <1>1, <1>2, <1>3, <1>4, <1>5, <1>u DEF FinsOK, Claimed, Owned, Token
<1>12. LaneOK'
  BY <1>t, <1>1, <1>2, <1>3, <1>4, <1>5, <1>u DEF LaneOK, Ready, Claimed, Owned, Valid, FinsOK,
     Token
<1>13. LandedOK'
  BY <1>t, <1>1, <1>2, <1>3, <1>4, <1>5, <1>u DEF LandedOK
<1>14. AnswersOK'
  BY <1>t, <1>1, <1>2, <1>3, <1>4, <1>5, <1>u DEF AnswersOK, Served, Over, Terminal
<1>15. WalOK'
  BY <1>t, <1>1, <1>2, <1>3, <1>4, <1>5, <1>u DEF WalOK, Claimed, Owned, Valid, Runs, RecordsOK
<1>16. RowsOK'
  BY <1>t, <1>1, <1>2, <1>3, <1>4, <1>5, <1>u DEF RowsOK, RecordsOK
<1>17. DismissedOK'
  BY <1>t, <1>1, <1>2, <1>3, <1>4, <1>5, <1>u DEF DismissedOK, Unserved, Past, Over, Mine, Terminal,
     Runs, WorkersOK, Outside, Stock
<1>18. StoredOK'
  BY <1>t, <1>1, <1>2, <1>3, <1>4, <1>5, <1>u DEF StoredOK, Mine
<1>19. TidyOK'
  BY <1>t, <1>1, <1>2, <1>3, <1>4, <1>5, <1>u DEF TidyOK, Tidy, Served, Terminal
<1>20. TasksOK'
  BY <1>t, <1>1, <1>2, <1>3, <1>4, <1>5, <1>u DEF TasksOK, Past, Over, Tidy, Served, Terminal
<1>21. LedgerOK'
  BY <1>t, <1>1, <1>2, <1>3, <1>4, <1>5, <1>u DEF LedgerOK
<1>22. PoolOK'
  <2>1. Prepared' \subseteq Prepared
    BY <1>t, <1>1, <1>2, <1>3, <1>4, <1>5, <1>u DEF Prepared
  <2>2. ActiveOps' \subseteq ActiveOps
    BY <1>t, <1>1, <1>2, <1>3, <1>4, <1>5, <1>u DEF ActiveOps
  <2> QED BY <2>1, <2>2, <1>u, PoolShrinks DEF InputTypes
<1>23. PromotionExclusive'
  BY <1>t, <1>1, <1>2, <1>3, <1>4, <1>5, <1>u DEF PromotionExclusive, Prepared, ActiveOps,
     WorkersOK, Outside, Stock
<1>24. InputTypes' /\ WorkersOK'
  BY <1>u, InputTypesFrame, WorkersOKFrame
<1> QED BY <1>6, <1>7, <1>8, <1>9, <1>10, <1>11, <1>12, <1>13, <1>14, <1>15, <1>16, <1>17, <1>18,
   <1>19, <1>20, <1>21, <1>22, <1>23, <1>24

\* ... unless a new attempt uses it.
LEMMA TaskCompletesRefusedStep ==
  ASSUME StockInv, NEW o \in Op, TaskCompletes(o), ~Closes(o)
  PROVE  StockInv'
<1> USE DEF StockInv
<1>t. /\ None \notin Request \cup {"busy", "conflict", "cleanup", "rejected", "replayed", "pending"}
      /\ op \in [Op -> Ops] /\ w \in [Request -> Workers] /\ fin \in [Runs -> Fins]
      /\ (\A p \in Op : op[p].claim \in Nat /\ issued[p] \in Nat)
      /\ (\A b \in Request : w[b].claim \in Nat) /\ (\A y \in Runs : fin[y].claim \in Nat)
  BY FieldTypes DEF InputTypes, StoreTypes, ActorTypes
<1>u. UNCHANGED <<opOf, refOf, expect, refOnly, pool, retained, op, ledger, refs, version, seq, row,
   rlease, prep, please, reclease, intent, fin, bucket, queued, w, issued, landed, moved, last,
   forgotten, faults, edits>>
  BY DEF TaskCompletes, Closed, inputs, leases, history
<1>1. /\ task \in [Op -> Tasks] /\ op[o].claim \in 0 .. MaxClaims
      /\ (op[o].st # "none" => op[o].claim >= 1)
      /\ (task[o].pc # "idle" => task[o].claim \in 1 .. MaxClaims)
  BY <1>t, ClaimTypes DEF ActorTypes, Ops, RecordsOK
<1>2. PICK k \in Tasks :
       task' = [task EXCEPT ![o] = k] /\ k.pc = "idle" /\ k.claim = 0 /\ ~k.outputs
  BY NoTaskOK DEF TaskCompletes
<1>3. late' = late /\ alarm' \in BOOLEAN
  BY DEF TaskCompletes, ClosedLate, StoreTypes
<1>4. StoreTypes'
  BY <1>t, <1>1, <1>2, <1>3, <1>u DEF StoreTypes
<1>5. ActorTypes'
  BY <1>t, <1>1, <1>2, <1>3, <1>u DEF ActorTypes
<1>6. TidyOK'
  BY <1>t, <1>1, <1>2, <1>3, <1>u DEF TidyOK, Tidy, Served, Terminal
<1>7. TasksOK'
  BY <1>t, <1>1, <1>2, <1>3, <1>u DEF TasksOK, Past, Over, Tidy, Served, Terminal
<1>8. InputTypes' /\ RecordsOK' /\ WorkersOK' /\ OwnersOK' /\ TokensOK' /\ FinsOK' /\ LaneOK' /\
   LandedOK' /\ AnswersOK' /\ WalOK' /\ RowsOK' /\ DismissedOK' /\ StoredOK' /\ LedgerOK' /\ PoolOK'
   /\ PromotionExclusive'
  BY <1>u, InputTypesFrame, RecordsOKFrame, WorkersOKFrame, OwnersOKFrame, TokensOKFrame,
     FinsOKFrame, LaneOKFrame, LandedOKFrame, AnswersOKFrame, WalOKFrame, RowsOKFrame,
     DismissedOKFrame, StoredOKFrame, LedgerOKFrame, PoolOKFrame, PromotionExclusiveFrame
<1> QED BY <1>4, <1>5, <1>6, <1>7, <1>8

\* A consumer fails.
LEMMA TaskFailsStep ==
  ASSUME StockInv, NEW o \in Op, TaskFails(o)
  PROVE  StockInv'
<1> USE DEF StockInv
<1>t. /\ None \notin Request \cup {"busy", "conflict", "cleanup", "rejected", "replayed", "pending"}
      /\ op \in [Op -> Ops] /\ w \in [Request -> Workers] /\ fin \in [Runs -> Fins]
      /\ (\A p \in Op : op[p].claim \in Nat /\ issued[p] \in Nat)
      /\ (\A b \in Request : w[b].claim \in Nat) /\ (\A y \in Runs : fin[y].claim \in Nat)
  BY FieldTypes DEF InputTypes, StoreTypes, ActorTypes
<1>u. UNCHANGED <<opOf, refOf, expect, refOnly, pool, retained, op, ledger, refs, version, seq, row,
   rlease, prep, please, reclease, intent, alarm, fin, bucket, queued, w, issued, landed, moved,
   last, late, forgotten, edits>>
  BY DEF TaskFails, inputs, leases, history
<1>1. /\ task \in [Op -> Tasks] /\ op[o].claim \in 0 .. MaxClaims
      /\ (op[o].st # "none" => op[o].claim >= 1)
      /\ (task[o].pc # "idle" => task[o].claim \in 1 .. MaxClaims)
  BY <1>t, ClaimTypes DEF ActorTypes, Ops, RecordsOK
<1>2. PICK k \in Tasks :
       task' = [task EXCEPT ![o] = k] /\ k.pc = "idle" /\ k.claim = 0 /\ ~k.outputs
  BY NoTaskOK DEF TaskFails
<1>3. faults' \in Nat
  BY DEF TaskFails, Fault, ActorTypes
<1>4. ActorTypes'
  BY <1>t, <1>1, <1>2, <1>3, <1>u DEF ActorTypes
<1>5. TasksOK'
  BY <1>t, <1>1, <1>2, <1>3, <1>u DEF TasksOK, Past, Over, Tidy, Served, Terminal
<1>6. InputTypes' /\ StoreTypes' /\ RecordsOK' /\ WorkersOK' /\ OwnersOK' /\ TokensOK' /\ FinsOK' /\
   LaneOK' /\ LandedOK' /\ AnswersOK' /\ WalOK' /\ RowsOK' /\ DismissedOK' /\ StoredOK' /\ TidyOK'
   /\ LedgerOK' /\ PoolOK' /\ PromotionExclusive'
  BY <1>u, InputTypesFrame, StoreTypesFrame, RecordsOKFrame, WorkersOKFrame, OwnersOKFrame,
     TokensOKFrame, FinsOKFrame, LaneOKFrame, LandedOKFrame, AnswersOKFrame, WalOKFrame,
     RowsOKFrame, DismissedOKFrame, StoredOKFrame, TidyOKFrame, LedgerOKFrame, PoolOKFrame,
     PromotionExclusiveFrame
<1> QED BY <1>4, <1>5, <1>6

\* A claim runs out.
LEMMA ClaimLapsesStep ==
  ASSUME StockInv, NEW o \in Op, ClaimLapses(o)
  PROVE  StockInv'
<1> USE DEF StockInv
<1>t. /\ None \notin Request \cup {"busy", "conflict", "cleanup", "rejected", "replayed", "pending"}
      /\ op \in [Op -> Ops] /\ w \in [Request -> Workers] /\ fin \in [Runs -> Fins]
      /\ (\A p \in Op : op[p].claim \in Nat /\ issued[p] \in Nat)
      /\ (\A b \in Request : w[b].claim \in Nat) /\ (\A y \in Runs : fin[y].claim \in Nat)
  BY FieldTypes DEF InputTypes, StoreTypes, ActorTypes
<1>u. UNCHANGED <<opOf, refOf, expect, refOnly, pool, retained, ledger, refs, version, seq, row,
   rlease, prep, please, reclease, intent, alarm, fin, bucket, queued, task, w, issued, landed,
   moved, last, late, forgotten, edits>>
  BY DEF ClaimLapses, inputs, leases, history
<1>1. op[o].st = "processing"
  BY DEF ClaimLapses
<1>2. PICK e \in Ops :
       /\ op' = [op EXCEPT ![o] = e]
       /\ e.st = op[o].st /\ e.claim = op[o].claim /\ e.lease = op[o].lease /\ e.lapsed
       /\ (e.pend <=> op[o].pend) /\ (e.retry <=> op[o].retry) /\ (e.plan <=> op[o].plan)
  <2>1. op' = [op EXCEPT ![o].lapsed = TRUE]
    BY DEF ClaimLapses
  <2>2. op \in [Op -> Ops] /\ o \in Op
    BY <1>t
  <2>3. PICK d, f : d = op[o] /\ f = [d EXCEPT !.lapsed = TRUE]
    OBVIOUS
  <2>4. d \in Ops /\ op' = [op EXCEPT ![o] = f]
    BY ONLY <2>1, <2>2, <2>3
  <2>5. f \in Ops
    BY ONLY <2>3, <2>4 DEF Ops, Terminal
  <2>6. op'[o] \in Ops /\ op' = [op EXCEPT ![o] = op'[o]]
    BY ONLY <2>2, <2>4, <2>5
  <2>7. /\ op'[o].st = op[o].st /\ op'[o].claim = op[o].claim /\ op'[o].lease = op[o].lease
        /\ op'[o].lapsed
        /\ (op'[o].pend <=> op[o].pend) /\ (op'[o].retry <=> op[o].retry)
        /\ (op'[o].plan <=> op[o].plan)
    BY <1>t, <2>1 DEF Ops
  <2> QED BY <2>6, <2>7
<1>3. faults' \in Nat
  BY DEF ClaimLapses, Fault, ActorTypes
<1>4. StoreTypes'
  BY <1>t, <1>1, <1>2, <1>3, <1>u DEF StoreTypes
<1>5. ActorTypes'
  BY <1>t, <1>1, <1>2, <1>3, <1>u DEF ActorTypes
<1>6. RecordsOK'
  BY <1>t, <1>1, <1>2, <1>3, <1>u DEF RecordsOK
<1>7. OwnersOK'
  BY <1>t, <1>1, <1>2, <1>3, <1>u DEF OwnersOK, WorkersOK, Outside, Stock
<1>8. TokensOK'
  BY <1>t, <1>1, <1>2, <1>3, <1>u DEF TokensOK, Used, Stock, WorkersOK, Outside
<1>9. FinsOK'
  BY <1>t, <1>1, <1>2, <1>3, <1>u DEF FinsOK, Claimed, Owned, Token
<1>10. LaneOK'
  BY <1>t, <1>1, <1>2, <1>3, <1>u DEF LaneOK, Ready, Claimed, Owned, Valid, FinsOK, Token
<1>11. LandedOK'
  BY <1>t, <1>1, <1>2, <1>3, <1>u DEF LandedOK
<1>12. AnswersOK'
  BY <1>t, <1>1, <1>2, <1>3, <1>u DEF AnswersOK, Served, Over, Terminal
<1>13. WalOK'
  BY <1>t, <1>1, <1>2, <1>3, <1>u DEF WalOK, Claimed, Owned, Valid, Runs, RecordsOK
<1>14. RowsOK'
  BY <1>t, <1>1, <1>2, <1>3, <1>u DEF RowsOK, RecordsOK
<1>15. DismissedOK'
  BY <1>t, <1>1, <1>2, <1>3, <1>u DEF DismissedOK, Unserved, Past, Over, Mine, Terminal, Runs,
     WorkersOK, Outside, Stock
<1>16. StoredOK'
  BY <1>t, <1>1, <1>2, <1>3, <1>u DEF StoredOK, Mine
<1>17. TidyOK'
  BY <1>t, <1>1, <1>2, <1>3, <1>u DEF TidyOK, Tidy, Served, Terminal
<1>18. TasksOK'
  BY <1>t, <1>1, <1>2, <1>3, <1>u DEF TasksOK, Past, Over, Tidy, Served, Terminal
<1>19. LedgerOK'
  BY <1>t, <1>1, <1>2, <1>3, <1>u DEF LedgerOK
<1>20. PoolOK'
  <2>1. Prepared' \subseteq Prepared
    BY <1>t, <1>1, <1>2, <1>3, <1>u DEF Prepared
  <2>2. ActiveOps' \subseteq ActiveOps
    BY <1>t, <1>1, <1>2, <1>3, <1>u DEF ActiveOps
  <2> QED BY <2>1, <2>2, <1>u, PoolShrinks DEF InputTypes
<1>21. PromotionExclusive'
  BY <1>t, <1>1, <1>2, <1>3, <1>u DEF PromotionExclusive, Prepared, ActiveOps, WorkersOK, Outside,
     Stock
<1>22. InputTypes' /\ WorkersOK'
  BY <1>u, InputTypesFrame, WorkersOKFrame
<1> QED BY <1>4, <1>5, <1>6, <1>7, <1>8, <1>9, <1>10, <1>11, <1>12, <1>13, <1>14, <1>15, <1>16,
   <1>17, <1>18, <1>19, <1>20, <1>21, <1>22

------------------------------------------------------------------------------
(* The alarm, time and the administrator *)

\* The alarm hands an operation to the queue.
LEMMA AlarmQueuesStep ==
  ASSUME StockInv, AlarmQueues
  PROVE  StockInv'
<1> USE DEF StockInv
<1>t. /\ None \notin Request \cup {"busy", "conflict", "cleanup", "rejected", "replayed", "pending"}
      /\ op \in [Op -> Ops] /\ w \in [Request -> Workers] /\ fin \in [Runs -> Fins]
      /\ (\A p \in Op : op[p].claim \in Nat /\ issued[p] \in Nat)
      /\ (\A b \in Request : w[b].claim \in Nat) /\ (\A y \in Runs : fin[y].claim \in Nat)
  BY FieldTypes DEF InputTypes, StoreTypes, ActorTypes
<1>u. UNCHANGED <<opOf, refOf, expect, refOnly, pool, retained, op, ledger, refs, version, seq, row,
   rlease, prep, please, reclease, intent, fin, bucket, task, w, issued, landed, moved, last, late,
   forgotten, faults, edits>>
  BY DEF AlarmQueues, inputs, leases, history
<1>1. queued' \subseteq Op /\ alarm' = FALSE
  BY ToRecoverOp DEF AlarmQueues, StoreTypes, ActorTypes
<1>2. StoreTypes'
  BY <1>t, <1>1, <1>u DEF StoreTypes
<1>3. ActorTypes'
  BY <1>t, <1>1, <1>u DEF ActorTypes
<1>4. InputTypes' /\ RecordsOK' /\ WorkersOK' /\ OwnersOK' /\ TokensOK' /\ FinsOK' /\ LaneOK' /\
   LandedOK' /\ AnswersOK' /\ WalOK' /\ RowsOK' /\ DismissedOK' /\ StoredOK' /\ TidyOK' /\ TasksOK'
   /\ LedgerOK' /\ PoolOK' /\ PromotionExclusive'
  BY <1>u, InputTypesFrame, RecordsOKFrame, WorkersOKFrame, OwnersOKFrame, TokensOKFrame,
     FinsOKFrame, LaneOKFrame, LandedOKFrame, AnswersOKFrame, WalOKFrame, RowsOKFrame,
     DismissedOKFrame, StoredOKFrame, TidyOKFrame, TasksOKFrame, LedgerOKFrame, PoolOKFrame,
     PromotionExclusiveFrame
<1> QED BY <1>2, <1>3, <1>4

\* The alarm resumes a ready operation.
LEMMA AlarmResumesStep ==
  ASSUME StockInv, AlarmResumes
  PROVE  StockInv'
<1> USE DEF StockInv
<1>t. /\ None \notin Request \cup {"busy", "conflict", "cleanup", "rejected", "replayed", "pending"}
      /\ op \in [Op -> Ops] /\ w \in [Request -> Workers] /\ fin \in [Runs -> Fins]
      /\ (\A p \in Op : op[p].claim \in Nat /\ issued[p] \in Nat)
      /\ (\A b \in Request : w[b].claim \in Nat) /\ (\A y \in Runs : fin[y].claim \in Nat)
  BY FieldTypes DEF InputTypes, StoreTypes, ActorTypes
<1>u. UNCHANGED <<opOf, refOf, expect, refOnly, pool, retained, op, ledger, refs, version, seq, row,
   rlease, prep, please, reclease, intent, bucket, queued, task, w, issued, landed, moved, last,
   late, forgotten, faults, edits>>
  BY DEF AlarmResumes, inputs, leases, history
<1>1. PICK o \in Op, c \in 1 .. MaxClaims :
       o = ToResume /\ c = op[o].claim /\ op[o].st = "ready" /\ c <= issued[o]
  <2>1. ToResume \in Op /\ op[ToResume].st = "ready"
    BY ToResumeReady DEF AlarmResumes, StoreTypes
  <2>2. op[ToResume].claim >= 1 /\ op[ToResume].claim <= issued[ToResume]
    BY <2>1 DEF RecordsOK
  <2>3. op[ToResume].claim \in 0 .. MaxClaims
    BY <1>t, <2>1 DEF Ops
  <2> HIDE DEF StockInv
  <2>4. op[ToResume].claim \in 1 .. MaxClaims
    BY <2>2, <2>3
  <2> QED BY <2>1, <2>2, <2>4
<1>2. PICK g \in Fins :
       /\ fin' = [fin EXCEPT ![Alarm] = g]
       /\ g.pc = "acquire" /\ g.op = o /\ g.claim = c /\ g.tok = None /\ g.says = None
  <2>1. fin' = [fin EXCEPT ![Alarm] = [NoFin EXCEPT !.pc = "acquire", !.op = o, !.claim = c]]
    BY <1>1 DEF AlarmResumes
  <2> HIDE DEF StockInv
  <2>3. PICK g : g = [NoFin EXCEPT !.pc = "acquire", !.op = o, !.claim = c]
    OBVIOUS
  <2>4. g \in Fins /\ g.pc = "acquire" /\ g.op = o /\ g.claim = c /\ g.tok = None /\ g.says = None
    <3>1. c \in 0 .. MaxClaims
      BY <1>1, StockAssumption
    <3>2. g \in Fins
      BY <2>3, <3>1, <1>1, NoFinOK DEF Fins
    <3> QED BY <2>3, <3>2, NoFinOK DEF Fins
  <2>5. fin' = [fin EXCEPT ![Alarm] = g]
    BY <2>1, <2>3, Zenon
  <2> QED BY <2>4, <2>5
<1>3. Alarm \in Runs /\ Alarm \notin Request /\ None \notin Op /\ alarm' = FALSE /\ fin[Alarm] = NoFin /\ NoFin.op = None
  BY StockAssumption, NoFinOK DEF Runs, AlarmResumes
<1>4. StoreTypes'
  BY <1>t, <1>1, <1>2, <1>3, <1>u DEF StoreTypes
<1>5. ActorTypes'
  BY <1>t, <1>1, <1>2, <1>3, <1>u DEF ActorTypes
<1>6. TokensOK'
  BY <1>t, <1>1, <1>2, <1>3, <1>u DEF TokensOK, Used, Stock, WorkersOK, Outside
<1>7. FinsOK'
  BY <1>t, <1>1, <1>2, <1>3, <1>u DEF FinsOK, Claimed, Owned, Token
<1>8. LaneOK'
  BY <1>t, <1>1, <1>2, <1>3, <1>u DEF LaneOK, Ready, Claimed, Owned, Valid, FinsOK, Token
<1>9. AnswersOK'
  BY <1>t, <1>1, <1>2, <1>3, <1>u DEF AnswersOK, Served, Over, Terminal
<1>10. WalOK'
  BY <1>t, <1>1, <1>2, <1>3, <1>u DEF WalOK, Claimed, Owned, Valid, Runs, RecordsOK
<1>11. DismissedOK'
  <2>1. \A y \in Request : fin'[y] = fin[y]
    BY <1>t, <1>2, <1>3 DEF Runs
  <2> QED BY <2>1, <1>u DEF DismissedOK, Unserved, Past, Over, Mine
<1>12. InputTypes' /\ RecordsOK' /\ WorkersOK' /\ OwnersOK' /\ LandedOK' /\ RowsOK' /\ StoredOK' /\
   TidyOK' /\ TasksOK' /\ LedgerOK' /\ PoolOK' /\ PromotionExclusive'
  BY <1>u, InputTypesFrame, RecordsOKFrame, WorkersOKFrame, OwnersOKFrame, LandedOKFrame,
     RowsOKFrame, StoredOKFrame, TidyOKFrame, TasksOKFrame, LedgerOKFrame, PoolOKFrame,
     PromotionExclusiveFrame
<1> QED BY <1>4, <1>5, <1>6, <1>7, <1>8, <1>9, <1>10, <1>11, <1>12

\* The alarm aborts an attempt whose claim ran out.
LEMMA AlarmAbortsStep ==
  ASSUME StockInv, AlarmAborts
  PROVE  StockInv'
<1> USE DEF StockInv
<1>t. /\ None \notin Request \cup {"busy", "conflict", "cleanup", "rejected", "replayed", "pending"}
      /\ op \in [Op -> Ops] /\ w \in [Request -> Workers] /\ fin \in [Runs -> Fins]
      /\ (\A p \in Op : op[p].claim \in Nat /\ issued[p] \in Nat)
      /\ (\A b \in Request : w[b].claim \in Nat) /\ (\A y \in Runs : fin[y].claim \in Nat)
  BY FieldTypes DEF InputTypes, StoreTypes, ActorTypes
<1>u. UNCHANGED <<opOf, refOf, expect, refOnly, pool, retained, ledger, refs, version, seq, row,
   prep, please, reclease, intent, alarm, fin, bucket, queued, task, w, issued, landed, moved, last,
   late, forgotten, faults, edits>>
  BY DEF AlarmAborts, inputs, leases, history
<1>1. PICK z \in Op :
       /\ op[z].st = "processing" /\ rlease' = Dropped(op[z].lease) /\ opOf[op[z].lease] = z
       /\ z = ledger[FirstProcessing]
  <2>1. ledger[FirstProcessing] \in Op /\ op[ledger[FirstProcessing]].st = "processing"
    BY FirstProcessingOK DEF AlarmAborts, StoreTypes
  <2> QED BY <2>1 DEF AlarmAborts, RecordsOK
<1>2. PICK e \in Ops :
       /\ op' = [op EXCEPT ![z] = e]
       /\ e.st = "aborted" /\ e.claim = op[z].claim /\ e.lease = op[z].lease /\ e.pend /\ e.retry
  <2>1. /\ op'[z] = [op[z] EXCEPT !.st = "aborted", !.pend = TRUE, !.retry = TRUE]
        /\ op' = [op EXCEPT ![z] = op'[z]] /\ op[z] \in Ops
    <3>1. op' = [op EXCEPT ![z].st = "aborted", ![z].pend = TRUE, ![z].retry = TRUE]
      BY <1>1 DEF AlarmAborts
    <3> QED BY <1>t, <1>1, <3>1
  <2> HIDE DEF StockInv
  <2>2. PICK d, f : d = op[z] /\ f = op'[z]
    OBVIOUS
  <2>3. f = [d EXCEPT !.st = "aborted", !.pend = TRUE, !.retry = TRUE] /\ d \in Ops
    BY <2>1, <2>2, Zenon
  <2>4. f \in Ops
    BY <2>3 DEF Ops, Terminal
  <2>5. f.st = "aborted" /\ f.claim = d.claim /\ f.lease = d.lease /\ f.pend /\ f.retry
    BY <2>3 DEF Ops
  <2> QED BY <2>1, <2>2, <2>4, <2>5
<1>3. /\ rlease' \in ReceiveLeases /\ (rlease.tok # op[z].lease => rlease' = rlease)
      /\ (rlease.tok = op[z].lease => rlease'.tok = None /\ ~rlease'.live)
  BY <1>1, DroppedOK DEF StoreTypes
<1>4. StoreTypes'
  BY <1>t, <1>1, <1>2, <1>3, <1>u DEF StoreTypes
<1>5. RecordsOK'
  BY <1>t, <1>1, <1>2, <1>3, <1>u DEF RecordsOK
<1>6. OwnersOK'
  BY <1>t, <1>1, <1>2, <1>3, <1>u DEF OwnersOK, WorkersOK, Outside, Stock
<1>7. TokensOK'
  BY <1>t, <1>1, <1>2, <1>3, <1>u DEF TokensOK, Used, Stock, WorkersOK, Outside
<1>8. FinsOK'
  BY <1>t, <1>1, <1>2, <1>3, <1>u DEF FinsOK, Claimed, Owned, Token
<1>9. LaneOK'
  BY <1>t, <1>1, <1>2, <1>3, <1>u DEF LaneOK, Ready, Claimed, Owned, Valid, FinsOK, Token, RecordsOK
<1>10. LandedOK'
  BY <1>t, <1>1, <1>2, <1>3, <1>u DEF LandedOK
<1>11. AnswersOK'
  BY <1>t, <1>1, <1>2, <1>3, <1>u DEF AnswersOK, Served, Over, Terminal
<1>12. WalOK'
  BY <1>t, <1>1, <1>2, <1>3, <1>u DEF WalOK, Claimed, Owned, Valid, Runs, RecordsOK
<1>13. RowsOK'
  BY <1>t, <1>1, <1>2, <1>3, <1>u DEF RowsOK, RecordsOK
<1>14. DismissedOK'
  <2>0. \A o \in Op : /\ op'[o].claim = op[o].claim
                      /\ op'[o].st = op[o].st \/ (op[o].st \in {"ready", "processing"} /\ op'[o].st = "aborted")
    BY <1>t, <1>1, <1>2, <1>3, <1>u
  <2>1. \A o \in Op : \A c \in Nat : /\ Past(o, c) => Past(o, c)'
                                  /\ Over(o, c) => Over(o, c)'
    BY <2>0, <1>t, <1>u DEF Past, Over, Terminal
  <2>2. \A o \in Op : \A c \in Nat : Unserved(o, c) => Unserved(o, c)'
    BY <2>0, <1>t, <1>u DEF Unserved, Past
  <2>4. ASSUME NEW y \in Request, fin'[y].says \in {"conflict", "cleanup", "rejected"}, w'[y].pc = "called"
        PROVE  Unserved(fin[y].op, fin[y].claim)'
    <3>1. y \in Runs /\ fin'[y] = fin[y] /\ w'[y] = w[y]
      BY <1>u DEF Runs
    <3>2. Unserved(fin[y].op, fin[y].claim) /\ fin[y].op \in Op /\ fin[y].claim \in Nat
      BY <2>4, <3>1, <1>t DEF DismissedOK, FinsOK
    <3> QED BY <3>1, <3>2, <2>2
  <2>5. ASSUME NEW b \in Request
        PROVE  /\ (w[b].claim >= 1 /\ op[opOf[b]].claim # w[b].claim =>
                    row[Mine(b)] = 0 \/ opOf[b] \in forgotten)'
               /\ (w[b].says \in {"conflict", "cleanup", "rejected"} => Unserved(opOf[b], w[b].claim))'
               /\ (w[b].pc = "erase" /\ w[b].outputs => Unserved(opOf[b], w[b].claim))'
               /\ (w[b].pc \in {"erase", "complete"} => Over(opOf[b], w[b].claim))'
               /\ (w[b].pc \in {"execute", "reject"} /\ op[opOf[b]].claim = w[b].claim =>
                    op[opOf[b]].st \in {"processing", "aborted", "failed"})'
               /\ (w[b].claim >= 1 /\ op[opOf[b]].claim = w[b].claim /\ op[opOf[b]].st = "processing" =>
                    w[b].own /\ w[b].pc \in {"execute", "reject", "finalize"})'
    <3>1. CASE w[b].claim >= 1 /\ opOf[b] \in Op
      <4>1. w[b].claim \in Nat /\ w'[b] = w[b] /\ opOf'[b] = opOf[b]
        BY <1>t, <1>u
      <4>2. row'[Mine(b)'] = row[Mine(b)] /\ forgotten' = forgotten
        BY <1>u DEF Mine
      <4>3. /\ Unserved(opOf[b], w[b].claim) => Unserved(opOf[b], w[b].claim)'
            /\ Over(opOf[b], w[b].claim) => Over(opOf[b], w[b].claim)'
        BY <3>1, <4>1, <2>0, <1>u DEF Unserved, Past, Over, Terminal
      <4>4. (w[b].claim >= 1 /\ op[opOf[b]].claim # w[b].claim =>
               row[Mine(b)] = 0 \/ opOf[b] \in forgotten)'
        BY <3>1, <4>1, <4>2, <2>0 DEF DismissedOK
      <4>5. (w[b].says \in {"conflict", "cleanup", "rejected"} => Unserved(opOf[b], w[b].claim))'
        BY <4>1, <4>3 DEF DismissedOK
      <4>6. (w[b].pc = "erase" /\ w[b].outputs => Unserved(opOf[b], w[b].claim))'
        BY <4>1, <4>3 DEF DismissedOK
      <4>7. (w[b].pc \in {"erase", "complete"} => Over(opOf[b], w[b].claim))'
        BY <4>1, <4>3 DEF DismissedOK
      <4>8. (w[b].pc \in {"execute", "reject"} /\ op[opOf[b]].claim = w[b].claim =>
               op[opOf[b]].st \in {"processing", "aborted", "failed"})'
        BY <3>1, <4>1, <2>0 DEF DismissedOK
      <4>9. (w[b].claim >= 1 /\ op[opOf[b]].claim = w[b].claim /\ op[opOf[b]].st = "processing" =>
               w[b].own /\ w[b].pc \in {"execute", "reject", "finalize"})'
        BY <3>1, <4>1, <2>0 DEF DismissedOK
      <4> QED BY <4>4, <4>5, <4>6, <4>7, <4>8, <4>9
    <3>2. CASE ~(w[b].claim >= 1 /\ opOf[b] \in Op)
      BY <3>2, <1>t, <1>u DEF WorkersOK, AnswersOK, Outside, Stock
    <3> QED BY <3>1, <3>2
  <2> QED BY <2>4, <2>5 DEF DismissedOK
<1>15. StoredOK'
  BY <1>t, <1>1, <1>2, <1>3, <1>u DEF StoredOK, Mine
<1>16. TidyOK'
  BY <1>t, <1>1, <1>2, <1>3, <1>u DEF TidyOK, Tidy, Served, Terminal
<1>17. TasksOK'
  BY <1>t, <1>1, <1>2, <1>3, <1>u DEF TasksOK, Past, Over, Tidy, Served, Terminal
<1>18. LedgerOK'
  BY <1>t, <1>1, <1>2, <1>3, <1>u DEF LedgerOK
<1>19. PoolOK'
  <2>1. Prepared' \subseteq Prepared
    BY <1>t, <1>1, <1>2, <1>3, <1>u DEF Prepared
  <2>2. ActiveOps' \subseteq ActiveOps
    BY <1>t, <1>1, <1>2, <1>3, <1>u DEF ActiveOps
  <2> QED BY <2>1, <2>2, <1>u, PoolShrinks DEF InputTypes
<1>20. PromotionExclusive'
  BY <1>t, <1>1, <1>2, <1>3, <1>u DEF PromotionExclusive, Prepared, ActiveOps, WorkersOK, Outside,
     Stock
<1>21. InputTypes' /\ ActorTypes' /\ WorkersOK'
  BY <1>u, InputTypesFrame, ActorTypesFrame, WorkersOKFrame
<1> QED BY <1>4, <1>5, <1>6, <1>7, <1>8, <1>9, <1>10, <1>11, <1>12, <1>13, <1>14, <1>15, <1>16,
   <1>17, <1>18, <1>19, <1>20, <1>21

\* The alarm clears leases that ran out.
LEMMA AlarmClearsStep ==
  ASSUME StockInv, AlarmClears
  PROVE  StockInv'
<1> USE DEF StockInv
<1>t. /\ None \notin Request \cup {"busy", "conflict", "cleanup", "rejected", "replayed", "pending"}
      /\ op \in [Op -> Ops] /\ w \in [Request -> Workers] /\ fin \in [Runs -> Fins]
      /\ (\A p \in Op : op[p].claim \in Nat /\ issued[p] \in Nat)
      /\ (\A b \in Request : w[b].claim \in Nat) /\ (\A y \in Runs : fin[y].claim \in Nat)
  BY FieldTypes DEF InputTypes, StoreTypes, ActorTypes
<1>u. UNCHANGED <<opOf, refOf, expect, refOnly, pool, retained, op, ledger, refs, version, seq, row,
   reclease, intent, fin, bucket, queued, task, w, issued, landed, moved, last, late, forgotten,
   faults, edits>>
  BY DEF AlarmClears, inputs, leases, history
<1>1. /\ rlease' \in ReceiveLeases /\ please' \in PublicationLeases /\ prep' = Prepared
      /\ alarm' \in BOOLEAN
      /\ \A p \in Op : op[p].st \notin {"processing", "ready", "finalizing"}
  BY NoLeases DEF AlarmClears, StoreTypes, ActiveOps
<1>2. rlease' = rlease \/ (rlease' = NoLease /\ rlease'.tok = None /\ ~rlease'.live)
  BY NoLeases DEF AlarmClears
<1>3. StoreTypes'
  BY <1>t, <1>1, <1>2, <1>u DEF StoreTypes, Prepared
<1>4. TokensOK'
  BY <1>t, <1>1, <1>2, <1>u DEF TokensOK, Used, Stock, WorkersOK, Outside
<1>5. LaneOK'
  BY <1>t, <1>1, <1>2, <1>u DEF LaneOK, Ready, Claimed, Owned, Valid, FinsOK, Token
<1>6. WalOK'
  BY <1>t, <1>1, <1>2, <1>u DEF WalOK, Claimed, Owned, Valid, Runs, RecordsOK
<1>7. PoolOK'
  <2>1. Prepared' \subseteq Prepared
    BY <1>t, <1>1, <1>2, <1>u DEF Prepared
  <2>2. ActiveOps' \subseteq ActiveOps
    BY <1>t, <1>1, <1>2, <1>u DEF ActiveOps
  <2> QED BY <2>1, <2>2, <1>u, PoolShrinks DEF InputTypes
<1>8. PromotionExclusive'
  BY <1>t, <1>1, <1>2, <1>u DEF PromotionExclusive, Prepared, ActiveOps, WorkersOK, Outside, Stock
<1>9. InputTypes' /\ ActorTypes' /\ RecordsOK' /\ WorkersOK' /\ OwnersOK' /\ FinsOK' /\ LandedOK' /\
   AnswersOK' /\ RowsOK' /\ DismissedOK' /\ StoredOK' /\ TidyOK' /\ TasksOK' /\ LedgerOK'
  BY <1>u, InputTypesFrame, ActorTypesFrame, RecordsOKFrame, WorkersOKFrame, OwnersOKFrame,
     FinsOKFrame, LandedOKFrame, AnswersOKFrame, RowsOKFrame, DismissedOKFrame, StoredOKFrame,
     TidyOKFrame, TasksOKFrame, LedgerOKFrame
<1> QED BY <1>3, <1>4, <1>5, <1>6, <1>7, <1>8, <1>9

\* The publication lease runs out.
LEMMA PublicationLapsesStep ==
  ASSUME StockInv, PublicationLapses
  PROVE  StockInv'
<1> USE DEF StockInv
<1>t. /\ None \notin Request \cup {"busy", "conflict", "cleanup", "rejected", "replayed", "pending"}
      /\ op \in [Op -> Ops] /\ w \in [Request -> Workers] /\ fin \in [Runs -> Fins]
      /\ (\A p \in Op : op[p].claim \in Nat /\ issued[p] \in Nat)
      /\ (\A b \in Request : w[b].claim \in Nat) /\ (\A y \in Runs : fin[y].claim \in Nat)
  BY FieldTypes DEF InputTypes, StoreTypes, ActorTypes
<1>u. UNCHANGED <<opOf, refOf, expect, refOnly, pool, retained, op, ledger, refs, version, seq, row,
   rlease, prep, reclease, intent, alarm, fin, bucket, queued, task, w, issued, landed, moved, last,
   late, forgotten, edits>>
  BY DEF PublicationLapses, inputs, leases, history
<1>1. faults' \in Nat
  BY DEF PublicationLapses, Fault, ActorTypes
<1>2. please' \in PublicationLeases
  BY DEF PublicationLapses, StoreTypes, PublicationLeases
<1>3. StoreTypes'
  BY <1>t, <1>1, <1>2, <1>u DEF StoreTypes
<1>4. ActorTypes'
  BY <1>t, <1>1, <1>2, <1>u DEF ActorTypes
<1>5. InputTypes' /\ RecordsOK' /\ WorkersOK' /\ OwnersOK' /\ TokensOK' /\ FinsOK' /\ LaneOK' /\
   LandedOK' /\ AnswersOK' /\ WalOK' /\ RowsOK' /\ DismissedOK' /\ StoredOK' /\ TidyOK' /\ TasksOK'
   /\ LedgerOK' /\ PoolOK' /\ PromotionExclusive'
  BY <1>u, InputTypesFrame, RecordsOKFrame, WorkersOKFrame, OwnersOKFrame, TokensOKFrame,
     FinsOKFrame, LaneOKFrame, LandedOKFrame, AnswersOKFrame, WalOKFrame, RowsOKFrame,
     DismissedOKFrame, StoredOKFrame, TidyOKFrame, TasksOKFrame, LedgerOKFrame, PoolOKFrame,
     PromotionExclusiveFrame
<1> QED BY <1>3, <1>4, <1>5

\* The receive lease runs out under nobody who publishes.
LEMMA ReceiveLeaseLapsesStep ==
  ASSUME StockInv, ReceiveLeaseLapses
  PROVE  StockInv'
<1> USE DEF StockInv
<1>t. /\ None \notin Request \cup {"busy", "conflict", "cleanup", "rejected", "replayed", "pending"}
      /\ op \in [Op -> Ops] /\ w \in [Request -> Workers] /\ fin \in [Runs -> Fins]
      /\ (\A p \in Op : op[p].claim \in Nat /\ issued[p] \in Nat)
      /\ (\A b \in Request : w[b].claim \in Nat) /\ (\A y \in Runs : fin[y].claim \in Nat)
  BY FieldTypes DEF InputTypes, StoreTypes, ActorTypes
<1>u. UNCHANGED <<opOf, refOf, expect, refOnly, pool, retained, op, ledger, refs, version, seq, row,
   prep, please, reclease, intent, alarm, fin, bucket, queued, task, w, issued, landed, moved, last,
   late, forgotten, edits>>
  BY DEF ReceiveLeaseLapses, inputs, leases, history
<1>1. faults' \in Nat
  BY DEF ReceiveLeaseLapses, Fault, ActorTypes
<1>2. /\ rlease' \in ReceiveLeases /\ rlease'.tok = rlease.tok /\ ~rlease'.live
      /\ \A y \in Runs : fin[y].tok # rlease.tok
  BY DEF ReceiveLeaseLapses, StoreTypes, ReceiveLeases, Runs
<1>3. StoreTypes'
  BY <1>t, <1>1, <1>2, <1>u DEF StoreTypes
<1>4. ActorTypes'
  BY <1>t, <1>1, <1>2, <1>u DEF ActorTypes
<1>5. TokensOK'
  BY <1>t, <1>1, <1>2, <1>u DEF TokensOK, Used, Stock, WorkersOK, Outside
<1>6. LaneOK'
  BY <1>t, <1>1, <1>2, <1>u DEF LaneOK, Ready, Claimed, Owned, Valid, FinsOK, Token
<1>7. WalOK'
  BY <1>t, <1>1, <1>2, <1>u DEF WalOK, Claimed, Owned, Valid, Runs, RecordsOK
<1>8. PromotionExclusive'
  BY <1>t, <1>1, <1>2, <1>u DEF PromotionExclusive, Prepared, ActiveOps, WorkersOK, Outside, Stock
<1>9. InputTypes' /\ RecordsOK' /\ WorkersOK' /\ OwnersOK' /\ FinsOK' /\ LandedOK' /\ AnswersOK' /\
   RowsOK' /\ DismissedOK' /\ StoredOK' /\ TidyOK' /\ TasksOK' /\ LedgerOK' /\ PoolOK'
  BY <1>u, InputTypesFrame, RecordsOKFrame, WorkersOKFrame, OwnersOKFrame, FinsOKFrame,
     LandedOKFrame, AnswersOKFrame, RowsOKFrame, DismissedOKFrame, StoredOKFrame, TidyOKFrame,
     TasksOKFrame, LedgerOKFrame, PoolOKFrame
<1> QED BY <1>3, <1>4, <1>5, <1>6, <1>7, <1>8, <1>9

\* A recovery runs out.
LEMMA RecoveryLapsesStep ==
  ASSUME StockInv, RecoveryLapses
  PROVE  StockInv'
<1> USE DEF StockInv
<1>t. /\ None \notin Request \cup {"busy", "conflict", "cleanup", "rejected", "replayed", "pending"}
      /\ op \in [Op -> Ops] /\ w \in [Request -> Workers] /\ fin \in [Runs -> Fins]
      /\ (\A p \in Op : op[p].claim \in Nat /\ issued[p] \in Nat)
      /\ (\A b \in Request : w[b].claim \in Nat) /\ (\A y \in Runs : fin[y].claim \in Nat)
  BY FieldTypes DEF InputTypes, StoreTypes, ActorTypes
<1>u. UNCHANGED <<opOf, refOf, expect, refOnly, pool, retained, op, ledger, refs, version, seq, row,
   rlease, prep, please, intent, alarm, fin, bucket, queued, task, w, issued, landed, moved, last,
   late, forgotten, edits>>
  BY DEF RecoveryLapses, inputs, leases, history
<1>1. faults' \in Nat
  BY DEF RecoveryLapses, Fault, ActorTypes
<1>2. reclease' \in RecoveryLeases
  BY DEF RecoveryLapses, StoreTypes, RecoveryLeases
<1>3. StoreTypes'
  BY <1>t, <1>1, <1>2, <1>u DEF StoreTypes
<1>4. ActorTypes'
  BY <1>t, <1>1, <1>2, <1>u DEF ActorTypes
<1>5. InputTypes' /\ RecordsOK' /\ WorkersOK' /\ OwnersOK' /\ TokensOK' /\ FinsOK' /\ LaneOK' /\
   LandedOK' /\ AnswersOK' /\ WalOK' /\ RowsOK' /\ DismissedOK' /\ StoredOK' /\ TidyOK' /\ TasksOK'
   /\ LedgerOK' /\ PoolOK' /\ PromotionExclusive'
  BY <1>u, InputTypesFrame, RecordsOKFrame, WorkersOKFrame, OwnersOKFrame, TokensOKFrame,
     FinsOKFrame, LaneOKFrame, LandedOKFrame, AnswersOKFrame, WalOKFrame, RowsOKFrame,
     DismissedOKFrame, StoredOKFrame, TidyOKFrame, TasksOKFrame, LedgerOKFrame, PoolOKFrame,
     PromotionExclusiveFrame
<1> QED BY <1>3, <1>4, <1>5

\* An administrator sets a ref while no receive is active.
LEMMA SetRefsStep ==
  ASSUME StockInv, SetRefs
  PROVE  StockInv'
<1> USE DEF StockInv
<1>t. /\ None \notin Request \cup {"busy", "conflict", "cleanup", "rejected", "replayed", "pending"}
      /\ op \in [Op -> Ops] /\ w \in [Request -> Workers] /\ fin \in [Runs -> Fins]
      /\ (\A p \in Op : op[p].claim \in Nat /\ issued[p] \in Nat)
      /\ (\A b \in Request : w[b].claim \in Nat) /\ (\A y \in Runs : fin[y].claim \in Nat)
  BY FieldTypes DEF InputTypes, StoreTypes, ActorTypes
<1>u. UNCHANGED <<opOf, refOf, expect, refOnly, pool, retained, op, ledger, seq, row, prep, please,
   reclease, intent, alarm, fin, bucket, queued, task, w, issued, landed, moved, late, forgotten,
   faults>>
  BY DEF SetRefs, inputs, leases, history
<1>1. PICK z \in Ref : refs' = [refs EXCEPT ![z] = None] /\ last' = refs' /\ version' = version + 1 /\ edits' = edits - 1 /\ edits > 0
  BY DEF SetRefs
<1>2. /\ rlease' \in ReceiveLeases /\ rlease'.tok = None /\ ~rlease'.live /\ None \in Value
      /\ \A p \in Op : op[p].st \notin {"processing", "ready", "finalizing"}
  BY NoLeases DEF SetRefs, ActiveOps, Value
<1>3. StoreTypes'
  BY <1>t, <1>1, <1>2, <1>u DEF StoreTypes
<1>4. ActorTypes'
  BY <1>t, <1>1, <1>2, <1>u DEF ActorTypes, StoreTypes
<1>5. TokensOK'
  BY <1>t, <1>1, <1>2, <1>u DEF TokensOK, Used, Stock, WorkersOK, Outside
<1>6. LaneOK'
  BY <1>t, <1>1, <1>2, <1>u DEF LaneOK, Ready, Claimed, Owned, Valid, FinsOK, Token
<1>7. LandedOK'
  BY <1>t, <1>1, <1>2, <1>u DEF LandedOK
<1>8. WalOK'
  BY <1>t, <1>1, <1>2, <1>u DEF WalOK, Claimed, Owned, Valid, Runs, RecordsOK
<1>9. PromotionExclusive'
  BY <1>t, <1>1, <1>2, <1>u DEF PromotionExclusive, Prepared, ActiveOps, WorkersOK, Outside, Stock
<1>10. InputTypes' /\ RecordsOK' /\ WorkersOK' /\ OwnersOK' /\ FinsOK' /\ AnswersOK' /\ RowsOK' /\
   DismissedOK' /\ StoredOK' /\ TidyOK' /\ TasksOK' /\ LedgerOK' /\ PoolOK'
  BY <1>u, InputTypesFrame, RecordsOKFrame, WorkersOKFrame, OwnersOKFrame, FinsOKFrame,
     AnswersOKFrame, RowsOKFrame, DismissedOKFrame, StoredOKFrame, TidyOKFrame, TasksOKFrame,
     LedgerOKFrame, PoolOKFrame
<1> QED BY <1>3, <1>4, <1>5, <1>6, <1>7, <1>8, <1>9, <1>10

------------------------------------------------------------------------------
(* The invariant *)

\* The initial state satisfies the invariant.
LEMMA StockInit == Init => StockInv
<1> SUFFICES ASSUME Init PROVE StockInv
  OBVIOUS
<1>1. /\ InputTypes /\ faults \in Nat /\ edits \in Nat
      /\ reclease \in RecoveryLeases
  <2>1. PICK m \in Mixes :
          /\ opOf = m.opOf /\ refOf = m.refOf /\ expect = m.expect
          /\ refOnly = m.refOnly /\ pool = m.pool /\ retained = m.retained
          /\ faults = m.faults /\ edits = m.edits /\ reclease = m.recovery
    BY DEF Init
  <2>2. /\ opOf \in [Request -> Op \cup {None, Idle}] /\ refOf \in [Op -> Ref]
        /\ expect \in [Op -> Value] /\ refOnly \subseteq Op /\ pool \in Nat /\ retained \in Nat
        /\ faults \in Nat /\ edits \in Nat
    BY <2>1, MixesAssumption DEF Value
  <2>3. reclease = NoRecovery \/ reclease \in [op : Op, tok : Request, live : {FALSE}]
    BY <2>1, MixesAssumption
  <2>4. reclease \in RecoveryLeases
    BY <2>3, NoLeases DEF RecoveryLeases
  <2> QED BY <2>2, <2>4 DEF InputTypes
<1>2. /\ op = [o \in Op |-> NoOp] /\ ledger = <<>>
      /\ refs = [r \in Ref |-> None] /\ version = 0 /\ seq = 1 /\ row = [k \in Key |-> 0]
      /\ rlease = NoLease /\ prep = {} /\ please = NoLease
      /\ intent = [q \in Request |-> NoIntent] /\ alarm = FALSE
      /\ fin = [x \in Runs |-> NoFin] /\ bucket = {} /\ queued = {} /\ task = [o \in Op |-> NoTask]
      /\ w = [q \in Request |-> NewWorker] /\ issued = [o \in Op |-> 0]
      /\ landed = [o \in Op |-> 0] /\ moved = {} /\ last = refs /\ late = {} /\ forgotten = {}
  BY DEF Init, Runs
<1>3. /\ NewWorker \in Workers /\ NewWorker.pc = "idle" /\ NewWorker.claim = 0 /\ NewWorker.says = None
      /\ ~NewWorker.own /\ ~NewWorker.outputs /\ ~NewWorker.close /\ ~NewWorker.acked
  <2>1. NewWorker \in Workers
    BY StockAssumption DEF NewWorker, Workers, Places, Answers
  <2>2. NewWorker.pc = "idle" /\ NewWorker.claim = 0 /\ NewWorker.says = None
    BY DEF NewWorker
  <2>3. ~NewWorker.own /\ ~NewWorker.outputs /\ ~NewWorker.close /\ ~NewWorker.acked
    BY Zenon DEF NewWorker
  <2> QED BY <2>1, <2>2, <2>3
<1>4. /\ \A q \in Request : /\ w[q] \in Workers /\ w[q].pc = "idle" /\ w[q].claim = 0 /\ w[q].says = None
                            /\ ~w[q].own /\ ~w[q].outputs /\ ~w[q].close /\ ~w[q].acked
                            /\ intent[q] = NoIntent
      /\ \A x \in Runs : fin[x] = NoFin
      /\ \A o \in Op : op[o] = NoOp /\ task[o] = NoTask /\ issued[o] = 0 /\ landed[o] = 0
      /\ \A k \in Key : row[k] = 0
  BY <1>2, <1>3
<1>5. StoreTypes
  <2>1. NoIntent \in Intents
    BY DEF NoIntent, Intents
  <2>2. ledger \in Seq(Op) /\ refs \in [Ref -> Value]
    BY <1>2 DEF Value
  <2>3. op \in [Op -> Ops] /\ intent \in [Request -> Intents] /\ row \in [Key -> Nat]
    BY <1>2, <2>1, NoOpOK
  <2>4. version \in Nat /\ seq \in Nat \ {0} /\ prep \subseteq Preparations
    BY <1>2
  <2>6. alarm \in BOOLEAN
    BY <1>2, Zenon
  <2>5. rlease \in ReceiveLeases /\ please \in PublicationLeases
    BY <1>2, NoLeases
  <2> QED BY <1>1, <2>2, <2>3, <2>4, <2>5, <2>6 DEF StoreTypes
<1>6. ActorTypes
  <2>1. refs \in [Ref -> Value]
    BY <1>2 DEF Value
  <2> QED BY <1>1, <1>2, <1>3, <2>1, NoFinOK, NoTaskOK, StockAssumption DEF ActorTypes
<1>7. None \notin {"busy", "conflict", "cleanup", "rejected", "replayed", "pending"} /\ Alarm \in Runs
  BY StockAssumption DEF Said, Runs
<1>8. RecordsOK
  BY <1>4, NoOpOK DEF RecordsOK
<1>9. WorkersOK /\ OwnersOK
  BY <1>4 DEF WorkersOK, OwnersOK, Outside
<1>10. TokensOK
  BY <1>2, <1>4, NoOpOK, NoFinOK, NoLeases DEF TokensOK
<1>11. FinsOK
  BY <1>4, <1>7, NoFinOK DEF FinsOK
<1>12. LaneOK
  BY <1>4, NoFinOK DEF LaneOK
<1>13. LandedOK
  BY <1>2, <1>4, NoOpOK DEF LandedOK
<1>14. AnswersOK /\ DismissedOK
  BY <1>4, <1>7, NoFinOK DEF AnswersOK, DismissedOK, Runs
<1>15. WalOK
  BY <1>4, NoOpOK DEF WalOK
<1>16. RowsOK
  <2>1. ASSUME NEW o \in Op, NEW c \in 1 .. MaxClaims PROVE row[<<o, c>>] = 0
    <3>1. <<o, c>> \in Key
      BY DEF Key
    <3> QED BY <1>4, <3>1
  <2> QED BY <1>4, <2>1, NoOpOK DEF RowsOK
<1>17. StoredOK /\ TidyOK
  BY <1>2, <1>4, NoOpOK DEF StoredOK, TidyOK
<1>18. TasksOK
  BY <1>4, NoTaskOK DEF TasksOK
<1>19. LedgerOK
  <2>1. Len(ledger) = 0 /\ DOMAIN ledger = {} /\ retained \in Nat
    BY <1>1, <1>2 DEF InputTypes
  <2>2. Range(ledger) = {} /\ Distinct(ledger) /\ Len(ledger) <= retained
    BY <2>1 DEF Range, Distinct
  <2> QED BY <1>4, <2>2, NoOpOK DEF LedgerOK
<1>20. PoolOK
  <2>1. Prepared = {} /\ ActiveOps = {}
    BY <1>2, <1>4, NoOpOK DEF Prepared, ActiveOps
  <2> QED BY <1>1, <2>1, FS_EmptySet DEF PoolOK, PoolBounded, InputTypes
<1>21. PromotionExclusive
  BY <1>4 DEF PromotionExclusive
<1> QED BY <1>1, <1>5, <1>6, <1>8, <1>9, <1>10, <1>11, <1>12, <1>13, <1>14, <1>15, <1>16, <1>17,
           <1>18, <1>19, <1>20, <1>21 DEF StockInv

\* The steps of a request preserve the invariant.
LEMMA ClientStepOK ==
  ASSUME StockInv, NEW q \in Request,
         BeginReceive(q) \/ BeginRecovery(q) \/ CloseStaleRecovery(q) \/ Promote(q)
           \/ FinishExclusive(q) \/ StageFails(q) \/ Admit(q) \/ AdmitRetained(q)
           \/ AdmitRejected(q) \/ Execute(q) \/ ExecuteFails(q) \/ RejectExecution(q)
           \/ CallFinalize(q) \/ HandleAnswer(q) \/ Confirm(q) \/ Erase(q) \/ Complete(q)
           \/ WorkerDies(q) \/ PreparationLapses(q)
  PROVE  StockInv'
<1>1. CASE BeginReceive(q)
  BY <1>1, BeginReceiveStep
<1>2. CASE BeginRecovery(q)
  BY <1>2, BeginRecoveryStep
<1>3. CASE CloseStaleRecovery(q)
  BY <1>3, CloseStaleRecoveryStep
<1>4. CASE Promote(q)
  BY <1>4, PromoteAloneStep, PromoteRefusedStep
<1>5. CASE FinishExclusive(q)
  BY <1>5, FinishExclusivePublishedStep, FinishExclusiveLostStep
<1>6. CASE StageFails(q)
  BY <1>6, StageFailsStep
<1>7. CASE Admit(q)
  BY <1>7, AdmitStep
<1>8. CASE AdmitRetained(q)
  BY Zenon, <1>8, AdmitRetainedPendingStep, AdmitRetainedFinalizeStep, AdmitRetainedReplayedStep,
     AdmitRetainedAgainStep, AdmitRetainedCleanupStep DEF AdmitRetained
<1>9. CASE AdmitRejected(q)
  BY <1>9, AdmitRejectedStep
<1>10. CASE Execute(q)
  BY <1>10, ExecuteRefOnlyStep, ExecuteStep
<1>11. CASE ExecuteFails(q)
  BY <1>11, ExecuteFailsLateStep, ExecuteFailsEarlyStep
<1>12. CASE RejectExecution(q)
  BY <1>12, RejectExecutionClaimStep, RejectExecutionSettledStep, RejectExecutionSupersededStep DEF
     RejectsClaim
<1>13. CASE CallFinalize(q)
  BY <1>13, CallFinalizeReadyStep, CallFinalizeLateStep
<1>14. CASE HandleAnswer(q)
  BY Zenon, <1>14, HandleAnswerBusyStep, HandleAnswerPendingStep, HandleAnswerReplayedStep,
     HandleAnswerDismissedStep DEF HandleAnswer
<1>15. CASE Confirm(q)
  BY <1>15, ConfirmCommittedStep, ConfirmRefusedStep
<1>16. CASE Erase(q)
  BY <1>16, EraseClosingStep, EraseLeavingStep
<1>17. CASE Complete(q)
  BY <1>17, CompleteReturnsStep, CompleteLeavesStep, CompleteRefusedStep
<1>18. CASE WorkerDies(q)
  BY <1>18, WorkerDiesStep
<1>19. CASE PreparationLapses(q)
  BY <1>19, PreparationLapsesStep
<1> QED BY <1>1, <1>2, <1>3, <1>4, <1>5, <1>6, <1>7, <1>8, <1>9, <1>10, <1>11, <1>12, <1>13, <1>14,
   <1>15, <1>16, <1>17, <1>18, <1>19

\* ... so do those of a run.
LEMMA FinStepOK ==
  ASSUME StockInv, NEW x \in Runs,
         FinAcquire(x) \/ FinRead(x) \/ FinPlan(x) \/ FinPublish(x) \/ FinRelease(x)
           \/ EvictPublishing(x)
  PROVE  StockInv'
<1>1. CASE FinAcquire(x)
  BY <1>1, FinAcquireAnswersStep, FinAcquireBusyStep, FinAcquireTakenStep
<1>2. CASE FinRead(x)
  BY <1>2, FinReadSettledStep, FinReadRefsStep
<1>3. CASE FinPlan(x)
  BY <1>3, FinPlanSettledStep, FinPlanValidStep, FinPlanAbortsStep
<1>4. CASE FinPublish(x)
  BY <1>4, FinPublishSettledStep, FinPublishLandsStep
<1>5. CASE FinRelease(x)
  BY <1>5, FinReleaseAlarmStep, FinReleaseLostStep, FinReleaseAnswersStep, FinReleaseAbortsStep
<1>6. CASE EvictPublishing(x)
  BY <1>6, EvictPublishingStep
<1> QED BY <1>1, <1>2, <1>3, <1>4, <1>5, <1>6

\* ... and those about an operation.
LEMMA TaskStepOK ==
  ASSUME StockInv, NEW o \in Op,
         Deliver(o) \/ TaskConfirms(o) \/ TaskErases(o) \/ TaskCompletes(o) \/ ClaimLapses(o)
           \/ TaskFails(o)
  PROVE  StockInv'
<1>1. CASE Deliver(o)
  BY <1>1, DeliverPublishesStep, DeliverErasesStep, DeliverDropsStep
<1>2. CASE TaskConfirms(o)
  BY <1>2, TaskConfirmsCommittedStep, TaskConfirmsRefusedStep
<1>3. CASE TaskErases(o)
  BY <1>3, TaskErasesStep
<1>4. CASE TaskCompletes(o)
  BY <1>4, TaskCompletesClosesStep, TaskCompletesRefusedStep
<1>5. CASE ClaimLapses(o)
  BY <1>5, ClaimLapsesStep
<1>6. CASE TaskFails(o)
  BY <1>6, TaskFailsStep
<1> QED BY <1>1, <1>2, <1>3, <1>4, <1>5, <1>6

\* A step that changes nothing.
LEMMA StutterOK ==
  ASSUME StockInv, UNCHANGED vars
  PROVE  StockInv'
<1>1. UNCHANGED <<opOf, refOf, expect, refOnly, pool, retained, op, ledger, refs, version, seq, row,
                 rlease, prep, please, reclease, intent, alarm, fin, bucket, queued, task, w,
                 issued, landed, moved, last, late, forgotten, faults, edits>>
  BY DEF vars, inputs, leases, history
<1>2. InputTypes' /\ StoreTypes' /\ ActorTypes' /\ RecordsOK' /\ WorkersOK' /\ OwnersOK' /\ TokensOK' /\ FinsOK' /\ LaneOK' /\ LandedOK'
  BY <1>1, InputTypesFrame, StoreTypesFrame, ActorTypesFrame, RecordsOKFrame, WorkersOKFrame, OwnersOKFrame, TokensOKFrame, FinsOKFrame, LaneOKFrame, LandedOKFrame DEF StockInv
<1>3. AnswersOK' /\ WalOK' /\ RowsOK' /\ DismissedOK' /\ StoredOK' /\ TidyOK' /\ TasksOK' /\ LedgerOK' /\ PoolOK' /\ PromotionExclusive'
  BY <1>1, AnswersOKFrame, WalOKFrame, RowsOKFrame, DismissedOKFrame, StoredOKFrame, TidyOKFrame, TasksOKFrame, LedgerOKFrame, PoolOKFrame, PromotionExclusiveFrame DEF StockInv
<1> QED BY <1>2, <1>3 DEF StockInv

\* Every step preserves the invariant.
LEMMA StockStep ==
  ASSUME StockInv, [Next]_vars
  PROVE  StockInv'
<1>1. CASE UNCHANGED vars
  BY <1>1, StutterOK
<1>2. ASSUME NEW q \in Request, ClientStep(q) \/ PreparationLapses(q) PROVE StockInv'
  BY <1>2, ClientStepOK DEF ClientStep
<1>3. ASSUME NEW x \in Runs, FinStep(x) \/ EvictPublishing(x) PROVE StockInv'
  BY <1>3, FinStepOK DEF FinStep
<1>4. ASSUME NEW o \in Op, TaskStep(o) \/ ClaimLapses(o) \/ TaskFails(o) PROVE StockInv'
  BY <1>4, TaskStepOK DEF TaskStep
<1>5. CASE AlarmStep
  BY <1>5, AlarmQueuesStep, AlarmResumesStep, AlarmAbortsStep, AlarmClearsStep DEF AlarmStep
<1>6. CASE Expiry \/ Evict \/ SetRefs
  BY <1>6, PublicationLapsesStep, ReceiveLeaseLapsesStep, RecoveryLapsesStep, EvictStep, SetRefsStep
     DEF Expiry
<1> QED BY <1>1, <1>2, <1>3, <1>4, <1>5, <1>6 DEF Next, Runs

\* Every reachable state satisfies the invariant.
THEOREM StockInvariant == Spec => []StockInv
<1>1. StockInv /\ [Next]_vars => StockInv'
  BY StockStep
<1> QED BY StockInit, <1>1, PTL DEF Spec

------------------------------------------------------------------------------
(* What follows *)

\* Preparations and operations past admission share the pool within its bound
\* (beginReceiveLease), and a preparation that was promoted to the exclusive
\* receive is alone as long as it holds its lease (promoteStockPreparationLease).
THEOREM PoolIsFenced == Spec => []PoolFenced
<1>1. StockInv => PoolFenced
  BY DEF StockInv, PoolOK, PoolFenced
<1> QED BY <1>1, StockInvariant, PTL

\* The refs are the ones published last, an operation moves its ref exactly once
\* and is then served, one that was given up did not move it, and a client hears
\* of success only then, however publications, retries, recoveries and evictions
\* interleave (finalizeStockReceive).
THEOREM OutcomesAreTrue == Spec => []OutcomesTrue
<1>1. StockInv => OutcomesTrue
  <2> SUFFICES ASSUME StockInv PROVE OutcomesTrue
    OBVIOUS
  <2>1. NothingLost
    BY DEF StockInv, LandedOK, NothingLost
  <2>2. VisibleIffLanded
    BY DEF StockInv, LandedOK, VisibleIffLanded
  <2>3. AckedLanded
    BY DEF StockInv, AnswersOK, AckedLanded
  <2> QED BY <2>1, <2>2, <2>3 DEF OutcomesTrue
<1> QED BY <1>1, StockInvariant, PTL

\* A sequence without repetitions is as long as its range is large.
LEMMA DistinctLength ==
  ASSUME NEW S, NEW s \in Seq(S), Distinct(s)
  PROVE  Len(s) = Cardinality(Range(s))
<1>1. Len(s) \in Nat /\ DOMAIN s = 1 .. Len(s)
  OBVIOUS
<1>2. s \in Bijection(1 .. Len(s), Range(s))
  <2>1. s \in [1 .. Len(s) -> Range(s)]
    BY <1>1 DEF Range
  <2>2. \A i, j \in 1 .. Len(s) : s[i] = s[j] => i = j
    BY DEF Distinct
  <2>3. \A e \in Range(s) : \E i \in 1 .. Len(s) : s[i] = e
    BY <1>1 DEF Range
  <2>4. IsInjective(s)
    BY <1>1, <2>2 DEF IsInjective
  <2> QED BY <2>1, <2>3, <2>4 DEF Bijection, Injection, Surjection
<1>3. ExistsBijection(1 .. Len(s), Range(s))
  BY <1>2 DEF ExistsBijection
<1> QED BY <1>1, <1>3, FS_CountingElements

\* The outputs that a served row names are stored, and a record that is cleaned
\* up leaves none behind that no row names (cleanupStockReceiveWorkerDataPlane,
\* completeStockReceiveCleanup).
THEOREM ArtifactsAreKept == Spec => []ArtifactsKept
<1>1. StockInv => ArtifactsKept
  <2> SUFFICES ASSUME StockInv PROVE ArtifactsKept
    OBVIOUS
  <2> USE DEF StockInv
  <2>1. ActiveStored
    BY DEF StoredOK, ActiveStored
  <2>2. CleanedUp
    BY DEF TidyOK, CleanedUp
  <2>3. op \in [Op -> Ops] /\ refs \in [Ref -> Op \cup Request \cup {None}]
        /\ version \in Nat /\ seq \in Nat \ {0} /\ row \in [Key -> Nat]
        /\ bucket \subseteq Key /\ queued \subseteq Op
    BY DEF StoreTypes, ActorTypes, Value
  <2>4. {rlease, please} \cup prep \subseteq Leases
    <3>1. rlease \in ReceiveLeases /\ please \in PublicationLeases /\ prep \subseteq Preparations
      BY DEF StoreTypes
    <3>2. ReceiveLeases \subseteq Leases
      BY DEF ReceiveLeases, Leases
    <3>3. PublicationLeases \subseteq Leases
      BY DEF PublicationLeases, Leases
    <3>4. Preparations \subseteq Leases
      BY DEF Preparations, Leases
    <3> QED BY <3>1, <3>2, <3>3, <3>4
  <2>5. /\ Range(ledger) = {o \in Op : op[o].st # "none"}
        /\ Len(ledger) = Cardinality(Range(ledger)) /\ Len(ledger) <= retained
    BY DistinctLength DEF StoreTypes, LedgerOK
  <2>6. ASSUME NEW x \in Request \cup {Alarm}
        PROVE  /\ fin[x].pc \in {"idle", "acquire", "read", "plan", "publish", "release"}
               /\ fin[x].says \in Answers /\ (fin[x].pc = "idle") = (fin[x] = NoFin)
    <3>1. x \in Runs /\ fin[x] \in Fins
      BY DEF Runs, ActorTypes
    <3>2. fin[x].pc = "idle" <=> fin[x] = NoFin
      BY <3>1, NoFinOK DEF FinsOK
    <3> QED BY <3>1, <3>2 DEF Fins
  <2>7. \A q \in Request : w[q].pc \in Places
    BY DEF ActorTypes, Workers
  <2>8. TypeOK
    BY <2>3, <2>4, <2>5, <2>6, <2>7 DEF TypeOK, Places
  <2> QED BY <2>1, <2>2, <2>8 DEF ArtifactsKept
<1> QED BY <1>1, StockInvariant, PTL
=============================================================================
