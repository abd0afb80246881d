---------------------------- MODULE MCStockPlan ----------------------------
(* An advertised commit 1 (tree 2, blobs 3 and 4) on a branch, the pushed  *)
(* commit 5 (tree 6, blob 7) on top of it, blob 8 that no reference names, *)
(* a commit 11 whose tree 10 holds it, and the branch's earlier commit 9.  *)
EXTENDS StockPlan

MCRefs ==
    [o \in 0..11 |->
        CASE o = 1 -> {2, 9} [] o = 2 -> {3, 4} [] o = 5 -> {6, 1} [] o = 6 -> {7, 4}
          [] o = 9 -> {2} [] o = 10 -> {8} [] o = 11 -> {10, 1} [] OTHER -> {}]

Full(o) == [oid |-> o, kind |-> "full", base |-> 0]
Ofs(o, i) == [oid |-> o, kind |-> "ofs", base |-> i]
Ref(o, b) == [oid |-> o, kind |-> "ref", base |-> b]
Pack(size, entries) == [size |-> size, entries |-> entries]

(* Full objects; chains by place, with 4 under 3 under 2; the same ones    *)
(* spread over two packs with copies of 2 and 4, by name; bases that run   *)
(* in a circle between two packs; a chain longer than MaxDepth; a second   *)
(* copy of a root under another.                                           *)
Plain == <<Full(1), Full(2), Full(3), Full(4), Full(8), Full(9)>>
Chained == <<Full(8), Full(4), Ofs(3, 2), Ofs(2, 3), Full(1), Ofs(9, 5)>>
Spread == <<Pack(3, <<Ref(3, 4), Ref(2, 3), Full(9)>>), Pack(9, <<Full(4), Full(1), Full(2), Full(8)>>)>>
Circle == <<Pack(9, <<Ref(3, 4), Full(1), Full(9)>>), Pack(9, <<Ref(4, 3), Full(2), Full(8)>>),
            Pack(3, <<Full(3), Full(4)>>)>>
Deep == <<Full(8), Full(4), Ofs(3, 2), Ofs(2, 3), Ofs(9, 4), Full(1)>>
Twins == <<Pack(9, <<Full(1), Full(4), Full(9)>>), Pack(9, <<Full(4), Ofs(3, 1), Full(2), Full(8)>>)>>
Lacking == <<Pack(9, <<Full(1), Full(2), Full(3), Full(9)>>)>>

Catalogs == {<<Pack(3, Plain)>>, <<Pack(9, Chained)>>, Spread, Circle, Twins, Lacking}

Push(packs, commands, pack, direct) ==
    [packs |-> packs, refs |-> {1}, commands |-> commands, pack |-> pack, direct |-> direct,
     corrupt |-> {}, bad |-> FALSE, over |-> {}]
Update == {[old |-> 1, new |-> 5]}

Ordinary == <<Full(5), Ref(6, 2), Full(7)>>
ThinBlob == <<Full(5), Full(6), Ref(7, 3)>>

Pushes ==
    {Push(c, Update, p, d) : c \in Catalogs, p \in {Ordinary, ThinBlob}, d \in BOOLEAN}
    \cup {Push(<<Pack(9, Chained)>>, Update, p, d) : d \in BOOLEAN,
            p \in {<<Full(5), Full(6), Ref(7, 4)>>,            \* overlap
                   <<Full(5), Full(6), Full(7), Full(4)>>,     \* partly new
                   <<Full(5), Full(6), Full(7), Full(10)>>,    \* unreachable
                   <<Full(5), Full(6)>>}}                      \* open
    \cup {Push(<<Pack(9, Chained)>>, {[old |-> 1, new |-> 11]}, <<Full(11), Full(10)>>, d) : d \in BOOLEAN}
    \cup {Push(<<Pack(9, Chained)>>, {[old |-> o, new |-> 9]}, << >>, FALSE) : o \in {0, 1}}
    \cup {Push(<<Pack(9, Plain)>>, {[old |-> 1, new |-> 0], [old |-> 0, new |-> 5]}, Ordinary, TRUE)}
    \cup {Push(<<Pack(9, c)>>, {[old |-> 1, new |-> 5], [old |-> 0, new |-> 9]},
               <<b[1], Ref(6, 2), b[2]>>, FALSE) : c \in {Chained, Deep},
               b \in {<<Full(5), Full(7)>>, <<Full(5), Ref(7, 8)>>, <<Ref(5, 3), Ref(7, 8)>>}}
    \cup {Push(<<Pack(9, Deep)>>, Update, <<Full(5), Ref(6, 2), Ref(7, 9)>>, TRUE)}
    \cup {Push([p \in 1..4 |-> Pack(9, Plain)], Update, Ordinary, FALSE)}
    \cup {Push(<<Pack(9, Deep)>>, {[old |-> 0, new |-> 9]}, << >>, FALSE)}
    \cup {[Push(<<Pack(9, Chained)>>, Update, Ordinary, FALSE) EXCEPT !.corrupt = {<<1, i>>}] : i \in {2, 3}}
    \cup {[Push(<<Pack(9, Plain)>>, Update, Ordinary, FALSE) EXCEPT !.bad = TRUE]}
    \cup {[Push(<< >>, {[old |-> 0, new |-> 9]}, <<Full(9), Full(2), Full(3), Full(4)>>, d)
             EXCEPT !.refs = {}] : d \in BOOLEAN}
    \cup {[Push(<<Pack(9, Plain)>>, Update, p, d) EXCEPT !.over = {limit}] :
             p \in {Ordinary, ThinBlob}, d \in BOOLEAN, limit \in ByteLimits}
    \cup {[Push(<<Pack(9, Append(Plain, Full(7)))>>, Update, Ordinary, FALSE) EXCEPT !.refs = {1, 7, 8}]}
    \cup {Push(<<Pack(9, Plain)>>, {[old |-> 1, new |-> 5], [old |-> 0, new |-> 11]},
               <<Full(5), Full(6), Full(7), Full(11), Full(10), Full(8)>>, FALSE)}
=============================================================================
