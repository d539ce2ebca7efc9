--------------------------- MODULE MCHttpResponse ---------------------------
(***************************************************************************)
(* TLC instance of HttpResponse: the kinds of responses the service sends  *)
(* (az.c 29-36, 430-432), each alone, and a read behind every tail of two    *)
(* responses that a timed-out task left on the connection.                 *)
(***************************************************************************)
EXTENDS HttpResponse

Header(status, length) ==
  <<"HT", "TP", "sp", status, "sp", "R">> \o CRLF
    \o <<"X", "sp", "2", "y">> \o CRLF
    \o (IF length = <<>> THEN <<>> ELSE <<"Content", "Length", "sp">> \o length \o CRLF)

LastLine == <<"Z", "sp", "y">> \o CRLF

Answer(head, body, code, reads) ==
  [stale |-> <<>>, response |-> head \o CRLF \o body, code |-> code,
   head |-> Len(head) + 2, reads |-> reads]

Data == {<<"b", "b", "b", "b", "b", "b", "b", "b", "b", "b">>,
         <<"nul", "b", "nul", "b", "b", "b", "b", "b", "b", "nul">>,
         <<"b", "cr", "lf", "cr", "lf", "b", "b", "cr", "lf", "b">>,
         <<"Content", "Length", "sp", "8", "cr", "lf", "b", "b", "b", "b">>}

Mark == <<"0">> \o CRLF \o CRLF

Read(last, body) == Answer(Header("206", <<"1", "0">>) \o last, body, 206, 10)
Throttled == Answer(Header("503", <<"3">>), <<"b", "sp", "b">>, 503, 0)

\* Reads, with Content-Length last or not; writes of both kinds of accounts;
\* a throttled request and a lost lease.
Answers ==
  {Read(z, b) : b \in Data, z \in {<<>>, LastLine}}
    \cup {Throttled,
          Answer(Header("201", <<>>), Mark, 201, 0),
          Answer(Header("201", <<"0">>), <<>>, 201, 0),
          Answer(Header("201", <<"0">>) \o LastLine, <<>>, 201, 0),
          Answer(Header("412", <<"2">>) \o LastLine, <<"b", "b">>, 412, 0)}

\* What is left of a response, a read's or a throttled request's, whose task
\* received none or a part of it, and the read that follows.
Short(body) == Answer(Header("206", <<"5">>), body, 206, 5)

Tails ==
  UNION {{SubSeq(a.response, i, Len(a.response)) : i \in 1..Len(a.response)} :
           a \in {Short(<<"b", "cr", "lf", "cr", "lf">>), Throttled}}

Followers == {Short(<<"nul", "b", "nul", "b", "b">>)}

InstanceStreams ==
  Answers \cup {[a EXCEPT !.stale = t] : a \in Followers, t \in Tails}

InstanceValue ==
  [c \in {"0", "1", "2", "3", "5", "8", "201", "206", "412", "503"} |->
     CASE c = "0" -> 0 [] c = "1" -> 1 [] c = "2" -> 2 [] c = "3" -> 3 [] c = "5" -> 5 [] c = "8" -> 8
       [] c = "201" -> 201 [] c = "206" -> 206 [] c = "412" -> 412 [] c = "503" -> 503]
=============================================================================
