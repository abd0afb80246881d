-------------------------- MODULE MCStockReceive --------------------------
(* StockReceive over the request mixes that contend for something. *)
EXTENDS StockReceive

CONSTANTS o1, o2, q1, q2, q3, r1, r2

Asks(a, b, c) == (q1 :> a) @@ (q2 :> b) @@ (q3 :> c)
On(a, b) == (o1 :> a) @@ (o2 :> b)

Mix(asks, on, after, only, limits, left) ==
  [opOf |-> asks, refOf |-> on, expect |-> after, refOnly |-> only,
   pool |-> limits[1], retained |-> limits[2], faults |-> limits[3], edits |-> limits[4],
   recovery |-> left]

Abandoned == [op |-> o2, tok |-> q3, live |-> FALSE]

MCMixes == {
  \* an operation and its retry
  Mix(Asks(o1, o1, Idle), On(r1, r1), On(None, None), {}, <<2, 2, 1, 0>>, Abandoned),
  \* two operations race for a ref
  Mix(Asks(o1, o2, Idle), On(r1, r1), On(None, None), {o2}, <<2, 2, 0, 0>>, NoRecovery),
  \* ... move two refs
  Mix(Asks(o1, o2, Idle), On(r1, r2), On(None, None), {o2}, <<2, 2, 1, 0>>, NoRecovery),
  \* ... or the second continues the first, beside an administrator, and only
  \* one record is retained
  Mix(Asks(o1, o2, Idle), On(r1, r1), On(None, o1), {}, <<1, 1, 0, 1>>, NoRecovery),
  \* a push that is not eligible, beside one that is
  Mix(Asks(o1, None, Idle), On(r1, r2), On(None, None), {}, <<2, 2, 1, 0>>, NoRecovery)}
====
