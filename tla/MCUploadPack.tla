---------------------------- MODULE MCUploadPack ---------------------------
(* Fetches over at most five objects.  ClosureRequests vary the object     *)
(* graph, where objects lie and what the client has; RewriteRequests vary  *)
(* how two packs encode the objects; FaultyRequests lose leases, clients   *)
(* and sidecars.                                                           *)
EXTENDS UploadPack

CONSTANTS a, b, c, d, o5

Whole(o) == [oid |-> o, kind |-> "full", base |-> Absent]
Ofs(o, at) == [oid |-> o, kind |-> "ofs", base |-> at]
Ref(o, base) == [oid |-> o, kind |-> "ref", base |-> base]

Flat == [o \in OID |-> {}]

-----------------------------------------------------------------------------
Graphs == {[Flat EXCEPT ![b] = x, ![c] = y] : x \in SUBSET {a}, y \in SUBSET {a, b}}

PackOf(s) == [i \in 1..Cardinality(s) |-> Whole(SetToSeq(s)[i])]

Placements == {SelectSeq(<<PackOf({o \in {a, b, c} : f[o] = 1}), PackOf({o \in {a, b, c} : f[o] = 2})>>,
                         LAMBDA p : p # <<>>) : f \in [{a, b, c} -> 0..2]}

ClosureRequests ==
    [packs : Placements, refs : Graphs, wants : {{c}, {b, c}}, haves : {<<>>, <<a>>, <<b>>, <<b, a>>, <<c>>},
     done : BOOLEAN, bare : {{}}, faulty : {FALSE}, large : {{}}]

-----------------------------------------------------------------------------
(* Packs a client can have sent: bases inside a pack never lead back.      *)
Encodings(os, i) ==
    {Whole(os[i])} \cup {Ofs(os[i], j) : j \in 1..(i - 1)} \cup {Ref(os[i], o) : o \in {a, b, c} \ {os[i]}}

InPack(p, i) ==
    CASE p[i].kind = "ofs" -> {p[i].base}
      [] p[i].kind = "ref" -> {j \in 1..Len(p) : p[j].oid = p[i].base}
      [] OTHER -> {}

Acyclic(p) == \A i \in 1..Len(p) :
    LET chase[n \in 0..Len(p)] == IF n = 0 THEN {i} ELSE UNION {InPack(p, j) : j \in chase[n - 1]}
    IN chase[Len(p)] = {}

Encoded(os) ==
    {p \in [1..Len(os) -> UNION {Encodings(os, i) : i \in 1..Len(os)}] :
        (\A i \in 1..Len(os) : p[i] \in Encodings(os, i)) /\ Acyclic(p)}

Orders(n) == {os \in [1..n -> {a, b, c}] : \A i, j \in 1..n : os[i] = os[j] => i = j}

Snapshots ==
    {ps \in {<<x, y>> : x \in Encoded(<<a, b>>), y \in UNION {Encoded(os) : os \in Orders(3)}} :
        \A at \in Positions(ps) : Materializes(ps, at, {})}

(* Two chains that run in opposite directions through the same objects. *)
Opposed == <<<<Whole(a), Ofs(b, 1), Ofs(c, 2)>>, <<Whole(b), Ofs(a, 1), Ofs(d, 2)>>>>

RewriteRequests ==
    [packs : Snapshots, refs : {Flat}, wants : {{a}, {b}, {c}, {a, b, c}}, haves : {<<>>},
     done : {TRUE}, bare : {{}}, faulty : {FALSE}, large : {{}}]

OpposedRequests ==
    [packs : {Opposed}, refs : {Flat}, wants : SUBSET {a, b, c, d}, haves : {<<>>},
     done : {TRUE}, bare : {{}}, faulty : {FALSE}, large : {{}}]

(* Objects too large to be made whole where a cycle needs that, and two    *)
(* cycles.                                                                 *)
LargeRequests ==
    [packs : Snapshots, refs : {Flat}, wants : {{c}}, haves : {<<>>},
     done : {TRUE}, bare : {{}}, faulty : {FALSE}, large : {{a, b}}]

TwoCycles == <<<<Whole(a), Ref(b, c), Ref(d, o5)>>,
               <<Whole(a), Ofs(b, 1), Ref(c, b), Ofs(d, 1), Ref(o5, d)>>>>

CycleRequests ==
    [packs : {TwoCycles}, refs : {Flat}, wants : {{c}, {o5}, {c, o5}}, haves : {<<>>},
     done : {TRUE}, bare : {{}}, faulty : {FALSE}, large : {{}}]

FaultyRequests ==
    [packs : {<<<<Whole(a), Ofs(b, 1)>>>>, <<<<Whole(a), Ofs(b, 1)>>, <<Ref(c, b)>>>>},
     refs : {Flat}, wants : {{a, b}, {b}, {c}}, haves : {<<>>}, done : {TRUE},
     bare : SUBSET {1}, faulty : {TRUE}, large : {{}}]
    \cup
    [packs : {<<<<Whole(a), Ofs(b, 1)>>, <<Ref(c, b)>>>>}, refs : {Flat}, wants : {{b, c}},
     haves : {<<>>, <<a>>}, done : {TRUE}, bare : SUBSET {1, 2}, faulty : {FALSE}, large : {{}}]

AllRequests == ClosureRequests \cup RewriteRequests \cup OpposedRequests \cup LargeRequests
                  \cup CycleRequests \cup FaultyRequests
=============================================================================
