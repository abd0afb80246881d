-------------------------- MODULE MCPackIndexer --------------------------
(* Packs of up to four entries: every mixture of full objects and deltas   *)
(* by place and by name, in every order, thin or not, with duplicates, and *)
(* read through windows shorter and longer than an entry.                  *)
EXTENDS PackIndexer

Trees == {"x", "y", "z", "w"}
AllOids == Trees \cup {"b", "c1", "c2", "t1", "t2", "t3"}

ObjectOf(t, r, l) == [type |-> t, refs |-> r, links |-> l]
Objects ==
    [o \in AllOids |->
        CASE o = "b" -> ObjectOf("blob", <<>>, {})
          [] o = "z" -> ObjectOf("tree", <<"b", "submodule">>, {"submodule"})
          [] o = "c1" -> ObjectOf("commit", <<"x">>, {})
          [] o = "c2" -> ObjectOf("commit", <<"y", "c1">>, {})
          [] o = "t1" -> ObjectOf("tag", <<"c2">>, {})
          [] o = "t2" -> ObjectOf("tag", <<"t1">>, {})
          [] o = "t3" -> ObjectOf("tag", <<"t2">>, {})
          [] OTHER -> ObjectOf("tree", <<"b">>, {})]

Size(o) == IF o = "y" THEN 2 ELSE IF o = "w" THEN 4 ELSE 1

Whole(o) == [oid |-> o, kind |-> "full", base |-> 0, header |-> 1, payload |-> 1 + Size(o), size |-> Size(o)]
Ofs(o, b) == [oid |-> o, kind |-> "ofs", base |-> b, header |-> 2, payload |-> 2, size |-> Size(o)]
Ref(o, b) == [oid |-> o, kind |-> "ref", base |-> b, header |-> 3, payload |-> 3, size |-> Size(o)]

Forms(o, place, bases) ==
    {Whole(o)} \cup {Ofs(o, b) : b \in 1..(place - 1)} \cup {Ref(o, b) : b \in bases}

Job(pack, external, chunk) ==
    [pack |-> pack, external |-> external, backfill |-> FALSE, chunk |-> chunk, slack |-> 0,
     corrupt |-> FALSE, targets |-> <<>>, fence |-> "none", faults |-> 0]

Threes == {<<p, q, r>> : p \in Forms("x", 1, {"y", "z", "w"}), q \in Forms("y", 2, {"x", "z", "w"}),
                         r \in Forms("z", 3, {"x", "y", "w"})}
Fours == {<<p, q, r, s>> : p \in Forms("x", 1, {"y", "w"}), q \in Forms("y", 2, {"x", "z"}),
                           r \in Forms("z", 3, {"x", "w"}), s \in Forms("w", 4, {"x", "y"})}
Twins == {<<p, q, r>> : p \in Forms("x", 1, {"x", "y"}), q \in Forms("y", 2, {"x"}),
                        r \in Forms("x", 3, {"x", "y"})}
Blobs == {<<Whole("b"), Ofs("b", 1), Ref("y", "b")>>, <<Ref("b", "x"), Ref("y", "x")>>}

Ordinary ==
    {Job(p, e, c) : p \in Threes, e \in {{}, {"w"}}, c \in {1, 5}}
    \cup {Job(p, e, 3) : p \in Fours, e \in {{}, {"w"}}}
    \cup {Job(p, e, 3) : p \in Twins, e \in {{}, {"x"}}}

Backfills ==
    {[Job(p, e, 3) EXCEPT !.backfill = TRUE] : p \in Threes \cup Twins \cup Blobs, e \in {{}, {"w"}, {"x", "y"}}}

Small == <<Whole("x"), Ref("y", "x"), Ofs("z", 2)>>
Faulty ==
    {[Job(p, {"w"}, 2) EXCEPT !.backfill = b, !.faults = 1, !.fence = f] :
         p \in {Small, <<Whole("x")>>}, b \in BOOLEAN, f \in {"none", "begin", "renew"}}
    \cup {[Job(Small, {}, 2) EXCEPT !.slack = n, !.backfill = b] : n \in {-12, -9, -7, -1, 1}, b \in BOOLEAN}
    \cup {[Job(Small, {}, 2) EXCEPT !.corrupt = TRUE, !.backfill = b] : b \in BOOLEAN}
    \cup {[Job(<<Whole("x"), Ofs("y", n)>>, {}, 2) EXCEPT !.backfill = b] : n \in {-1, 0, 7}, b \in BOOLEAN}

Pushed == {<<Whole("c2"), Whole("t1"), Whole("t2"), Whole("t3")>>, <<Whole("t1"), Whole("t2"), Whole("t3")>>}
Connected ==
    {[Job(p, e, 5) EXCEPT !.targets = <<"c2", "t1", "t2", "t3">>, !.faults = n] :
         p \in Pushed, e \in SUBSET {"x", "y", "c1"}, n \in 0..1}

AllJobs == Ordinary \cup Backfills \cup Faulty \cup Connected
=============================================================================
