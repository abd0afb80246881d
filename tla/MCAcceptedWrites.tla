--------------------------- MODULE MCAcceptedWrites ---------------------------
EXTENDS AcceptedWrites, TLC

CONSTANTS main, qual, c1, c2, q1, q2, q3, k1, k2

Push(ref_, old_, new_) == [kind |-> "push", ref |-> ref_, old |-> old_, new |-> new_, key |-> None]
Ingest(key_, old_, new_) ==
  [kind |-> "ingest", ref |-> main, old |-> old_, new |-> new_, key |-> key_]
Mix(ask_, probe_, n, kinds_) ==
  [ask |-> ask_, probe |-> probe_, events |-> n, kinds |-> kinds_, unfit |-> {}]

\* Pushes that move main forward and back.
BackAndForth == q1 :> Push(main, None, c1) @@ q2 :> Push(main, c1, c2) @@ q3 :> Push(main, c2, c1)
\* A retry of an ingestion, around a push that undoes it.
Retried == q1 :> Ingest(k1, None, c1) @@ q2 :> Ingest(k1, None, c1) @@ q3 :> Push(main, c1, None)
\* Two keys, more than the receipts kept.
TwoKeys == q1 :> Ingest(k1, None, c1) @@ q2 :> Ingest(k2, c1, c2) @@ q3 :> Ingest(k1, None, c1)
\* A disposable ref whose commit main takes over.
Disposable == q1 :> Push(qual, None, c1) @@ q2 :> Push(main, None, c1) @@ q3 :> Push(qual, c1, None)

\* One key for two contents, the second based on the first.
Reused == q1 :> Ingest(k1, None, c1) @@ q2 :> Ingest(k1, c1, c2)
Forth == q1 :> Push(main, None, c1) @@ q2 :> Push(main, c1, c2)

MCMixes ==
  {Mix(BackAndForth, FALSE, 3, {"gc", "release", "lapse"}),
   Mix(Forth, TRUE, 3, {"gc", "release", "lapse", "probe"}),
   Mix(BackAndForth, FALSE, 2, {"unsent", "fail", "duplicate"}),
   Mix(Forth, FALSE, 3, {"admin", "release"}),
   Mix(Retried, FALSE, 2, {"evict", "gc", "release"}),
   Mix(TwoKeys, FALSE, 2, {"evict", "admin"}),
   Mix(Reused, FALSE, 1, {"evict"}),
   Mix(Disposable, FALSE, 3, {"reset", "release", "gc"}),
   Mix(Retried, FALSE, 2, {"reset", "release"}),
   [Mix(BackAndForth, FALSE, 1, {"fail"}) EXCEPT !.unfit = {c1}]}
==============================================================================
