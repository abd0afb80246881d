---------------------------- MODULE MCPushUpload ----------------------------
(***************************************************************************)
(* Requests for PushUpload: every way a body can be good or bad, each with *)
(* the faults and the disconnects that matter to it.                       *)
(***************************************************************************)
EXTENDS PushUpload

U(tags) == [i \in 1..Len(tags) |-> <<tags[i], <<>>>>]

Commands == U(<<"line1", "x", "flush">>)
TwoCommands == U(<<"line2", "x", "x", "line1", "x", "flush">>)
Delimited == U(<<"line1", "x", "delim">>)
Unfinished == U(<<"line1", "x">>)
TooLong == U(<<"line2", "x", "x", "line2", "x", "x", "line2", "x", "x", "flush">>)

Content == Header \o U(<<"a", "b">>)
Small == PackOf(Content)                              \* two full parts
Odd == PackOf(Content \o U(<<"c", "d">>))
Other == PackOf(Content \o U(<<"d", "c">>))
Least == PackOf(Header)
BadHeader == PackOf(U(<<"PACK", "junk", "a">>))
BadTrailer == Content \o Trailer(Header)
TooShort == PackOf(U(<<"PACK">>))
Garbled == U(<<"PACK">>)

Req(way, section, body, length, verdict, again, n, aborts) ==
  [way |-> way, section |-> section, pack |-> body, length |-> length,
   verdict |-> verdict, again |-> again, faults |-> n, aborts |-> aborts]

Known(section, body, verdict, n, aborts) ==
  Req("push", section, body, Len(section) + Len(body), verdict, <<>>, n, aborts)
Parts(section, body, verdict, n, aborts) ==
  Req("push", section, body, Chunked, verdict, <<>>, n, aborts)
Stock(section, body, n, aborts) ==
  Req("stock", section, body, Len(section) + Len(body), "ok", <<>>, n, aborts)

MCRequests ==
  { Known(Commands, Odd, "ok", 3, TRUE), Parts(Commands, Odd, "ok", 3, TRUE),
    Parts(Commands, Small, "ok", 3, TRUE), Stock(Commands, Odd, 3, TRUE) }
  \cup { Known(Commands, Small, v, 2, TRUE) : v \in {"disconnected", "conflict"} }
  \cup { Known(Commands, <<>>, v, 2, TRUE) : v \in {"refused", "deletes"} }
  \cup { Known(TwoCommands, b, "ok", 2, TRUE) : b \in {Least, BadHeader, BadTrailer, TooShort} }
  \cup { Parts(TwoCommands, b, "ok", 2, TRUE) :
           b \in {Least, BadHeader, BadTrailer, TooShort, Garbled, <<>>} }
  \cup { Stock(TwoCommands, b, 2, TRUE) : b \in {BadHeader, BadTrailer, TooShort, <<>>} }
  \cup { Known(s, Least, "ok", 0, FALSE) : s \in {Delimited, TooLong} }
  \cup { Known(Unfinished, <<>>, "ok", 0, TRUE) }
  \cup { Req(w, Commands, Least, Len(Commands) + Len(Least) + d, "ok", <<>>, 2, TRUE) :
           w \in {"push", "stock"}, d \in {-1, 1} }
  \cup { Req("stock", Commands, Odd \o Odd, l, "ok", <<>>, 0, FALSE) :
           l \in {Chunked, Len(Commands) + 2 * Len(Odd)} }
  \cup { Req("durable", <<>>, Small, Len(Small), "ok", Small, 3, FALSE),
         Req("durable", <<>>, Odd, Len(Odd), "ok", Other, 3, FALSE) }
=============================================================================
