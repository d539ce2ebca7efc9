---------------------------- MODULE HttpResponse ----------------------------
(***************************************************************************)
(* The parser of the server's answers (module/az.c: process_response,      *)
(* http_response_completed and the loop of __receive_az_response that      *)
(* feeds them; get_until of module/dysk_utils.c).  TCP delivers a response *)
(* in fragments of any size, and the parser runs after each of them on     *)
(* everything that has arrived, keeping what it found in an http_response. *)
(*                                                                         *)
(* A response is a sequence of cells: a word or a part of one, a number, a *)
(* space, a carriage return, a line feed or a zero byte each count as one. *)
(*                                                                         *)
(* A connection whose task timed out goes back to the pool with the rest   *)
(* of its response still to come (az.c 540), so what a task reads may      *)
(* start with the tail of another one's response: `stale' of the cells.    *)
(***************************************************************************)
EXTENDS DyskUtils, FiniteSets, FiniteSetsExt

CONSTANTS
  Streams,     \* what a connection may deliver: see Stream
  Value,       \* the number a digit or a status cell stands for
  HeaderRoom,  \* RESPONSE_HEADER_LENGTH, and how far Content-Length is looked for
  LineRoom,    \* the longest line get_until() looks for
  TempRoom,    \* temp[32], for the third word of the status line
  StatusRoom,  \* status[256] of the http_response, for the line from there on
  PutMark      \* chunked_body_mark, the whole body of a 201

\* code: the status; head: cells before the body; reads: the data asked for.
Stream == [stale : Seq(STRING), response : Seq(STRING), code : Nat, head : Nat, reads : Nat]

ASSUME HttpParametersAssumption ==
  /\ \A s \in Streams : /\ s \in Stream
                        /\ s.head \in 1..Len(s.response)
  /\ HeaderRoom \in Nat /\ LineRoom \in Nat /\ TempRoom \in Nat /\ StatusRoom \in Nat
  /\ \A c \in DOMAIN Value : Value[c] \in Nat

VARIABLES
  stream,   \* what the server sends
  arrived,  \* the cells sock_recvmsg() returned so far: bytes_received
  safe,     \* history: no fragment ended where it may do harm: SafeEnd
  res,      \* the http_response
  outcome   \* what the loop came to

vars == <<stream, arrived, safe, res, outcome>>

\* content_length is -1 and body is NULL (-1 here) until they are found.
Response == [status_code : Nat, content_length : Int, body : Int, idx : Nat]

Blank == [status_code |-> 0, content_length |-> -1, body |-> -1, idx |-> 0]

Sent == stream.stale \o stream.response

-----------------------------------------------------------------------------
(***************************************************************************)
(* What is looked for in what has arrived, buf.                            *)
(***************************************************************************)
CRLF == <<"cr", "lf">>

IsLineEnd(buf, i) == StandsAt(buf, i, CRLF)

Spaces == {"sp", "cr", "lf"}

\* The number the digits of text from first on stand for, -1 when there is none.
NumberAt(text, first) ==
  LET digits == {i \in first..Len(text) : \A j \in first..i : text[j] \in DOMAIN Value}
      last == CHOOSE i \in digits : \A j \in digits : i >= j
      number[k \in 1..last] == IF k < first THEN 0 ELSE 10 * number[k - 1] + Value[text[k]]
  IN
  IF digits = {} THEN -1 ELSE number[last]

\* The cells of the words of text behind its first space: the kernel's "%*s"
\* skips what comes before a space, and that may be nothing.
LaterWords(text) ==
  {i \in DOMAIN text : text[i] \notin Spaces /\ \E j \in 1..(i - 1) : text[j] \in Spaces}

\* sscanf(line, "%*s %d"): the number that is the second word, or -1.
SecondWord(line) ==
  LET text == SubSeq(line, 1, StrLen(line))
      second == LaterWords(text)
  IN
  IF second = {} THEN -1
  ELSE NumberAt(text, CHOOSE i \in second : \A j \in second : i <= j)

\* sscanf(line, "%*s %d %s"): the word behind the number, empty if there is none.
ThirdWord(line) ==
  LET text   == SubSeq(line, 1, StrLen(line))
      second == Min(LaterWords(text))
      later  == {i \in second..Len(text) :
                   text[i] \notin Spaces /\ \E k \in second..i : text[k] \notin DOMAIN Value}
      first  == Min(later)
      word   == {i \in first..Len(text) : \A k \in first..i : text[k] \notin Spaces}
  IN
  IF SecondWord(line) = -1 \/ later = {} THEN <<>>
  ELSE SubSeq(text, first, first + Cardinality(word) - 1)

IsName(buf, i) == At(buf, i) = "Content" /\ At(buf, i + 1) = "Length"

HasName(buf, room) == \E i \in 0..(room - 2) : i + 1 < Len(buf) /\ IsName(buf, i)

-----------------------------------------------------------------------------
(***************************************************************************)
(* process_response.                                                       *)
(***************************************************************************)
CompletedEarly(buf, r) ==
  /\ r.status_code # 0
  /\ r.body # -1
  /\ \/ r.content_length = -1 /\ r.status_code = 201
     \/ r.content_length >= Len(buf) - r.body

\* http_response_completed().
completed(buf, r) ==
  /\ r.status_code # 0
  /\ r.body # -1
  /\ \/ /\ r.content_length = -1
        /\ r.status_code = 201
        /\ \A k \in 1..Len(PutMark) : At(buf, r.body + k - 1) = PutMark[k]
     \/ r.content_length = Len(buf) - r.body

\* The status line, when it was not found before; a status that is not a
\* number leaves it 0, and the index moves all the same.
StatusLine(buf, r) ==
  LET cut  == get_until(buf, 0, CRLF, LineRoom + 2)
      code == SecondWord(Line(buf, 0, cut))
  IN
  [r EXCEPT !.status_code = IF code = -1 THEN @ ELSE code, !.idx = @ + cut + 2]

StatusOverrunsWhole(buf, r) ==
  LET cut == get_until(buf, 0, CRLF, LineRoom + 2) IN
  /\ r.status_code = 0 /\ cut > 0
  /\ StrLen(Line(buf, 0, cut)) > StatusRoom

\* Whether what the status line's third word, and the line from its place on
\* (strnstr: from its start when there is none), are copied to is too short.
StatusOverruns(buf, r) ==
  /\ r.status_code = 0
  /\ LET cut    == get_until(buf, 0, CRLF, LineRoom + 2)
         line   == Line(buf, 0, cut)
         word   == ThirdWord(line)
         copied == StrLen(line) - Min({i \in 0..Len(line) : StandsAt(line, i, word)})
     IN
     cut > 0 /\ (Len(word) >= TempRoom \/ copied > StatusRoom)

\* The two loops over the lines.  get_until() returns -1 for a line that has
\* not arrived, and the index then moves by one.  The first loop is entered
\* again after the length was found: it takes one line, blank or not.
FindContentLength(buf, r) ==
  LET from[i \in Nat] ==
        LET cut  == get_until(buf, i, CRLF, LineRoom)
            line == Line(buf, i, cut)
            read == IF HasName(line, Len(line)) THEN SecondWord(line) ELSE -1
            length == IF read = -1 THEN r.content_length ELSE read
            next == i + cut + 2
        IN
        IF length # -1 \/ next >= StrLen(buf)
          THEN [r EXCEPT !.content_length = length, !.idx = next]
          ELSE from[next]
  IN
  IF r.idx >= StrLen(buf) THEN r ELSE from[r.idx]

FindBody(buf, r) ==
  LET from[i \in Nat] ==
        LET cut  == get_until(buf, i, CRLF, LineRoom)
            next == i + cut + 2
        IN
        IF cut = 0 THEN [r EXCEPT !.body = next, !.idx = next]
        ELSE IF next >= StrLen(buf) THEN [r EXCEPT !.idx = next]
        ELSE from[next]
  IN
  IF r.idx >= StrLen(buf) THEN r ELSE from[r.idx]

ProcessWithLengthOnly(buf, r) ==
  LET status == IF r.status_code = 0 THEN StatusLine(buf, r) ELSE r
      header == IF status.status_code # 0 /\ HasName(buf, Len(buf))
                  THEN FindContentLength(buf, status) ELSE status
  IN
  IF r.status_code = 0 /\ get_until(buf, 0, CRLF, LineRoom + 2) <= 0 THEN r
  ELSE IF header.content_length # -1 /\ header.body = -1 THEN FindBody(buf, header)
  ELSE header

process_response(buf, r) ==
  LET status == IF r.status_code = 0 THEN StatusLine(buf, r) ELSE r
      scanned == IF Len(buf) > HeaderRoom THEN HeaderRoom ELSE Len(buf)
      header == IF status.status_code # 0 /\ HasName(buf, scanned)
                  THEN FindContentLength(buf, status) ELSE status
      wanted == header.content_length # -1 \/ header.status_code = 201
  IN
  IF r.status_code = 0 /\ get_until(buf, 0, CRLF, LineRoom + 2) <= 0 THEN r
  ELSE IF header.status_code # 0 /\ wanted /\ header.body = -1 THEN FindBody(buf, header)
  ELSE header

-----------------------------------------------------------------------------
(***************************************************************************)
(* The loop of __receive_az_response.                                      *)
(***************************************************************************)
\* az_is_done, az_is_throttle; every other status fails the dysk.
Verdict(code) ==
  CASE code \in {201, 206}      -> "done"
    [] code \in {429, 500, 503} -> "throttle"
    [] OTHER                    -> "catastrophe"

\* response_size, the iovec sock_recvmsg() fills.
BufferSize == stream.reads + HeaderRoom

\* What sock_recvmsg() is told it may fill.
RoomLeft == BufferSize - arrived

\* The parser looks at every line of the body, too, for a length.
LengthInBody == \E i \in stream.head..(Len(stream.response) - 2) : IsName(stream.response, i)

\* Places where a fragment may end, after n cells, without harm to a response
\* that comes alone: in the status line, in a body that names no length, after
\* a header line that another one follows, and, unless the status is 201,
\* anywhere before the name Content-Length.
StatusEnd == 2 + CHOOSE i \in 0..Len(Sent) :
                   IsLineEnd(Sent, i) /\ \A j \in 0..(i - 1) : ~IsLineEnd(Sent, j)

SafeEnd(n) ==
  /\ stream.stale = <<>>
  /\ \/ n < StatusEnd
     \/ n >= stream.head /\ ~LengthInBody
     \/ n = Len(Sent)
     \/ n < stream.head /\ IsLineEnd(Sent, n - 2) /\ ~IsLineEnd(Sent, n)
     \/ stream.code # 201 /\ \A i \in 0..n : IsName(Sent, i) => n < i + 2

\* sock_recvmsg() returns the next n cells.  What happens after an array was
\* overrun is undefined, and the model stops.
Receive(n) ==
  /\ outcome = "reading"
  /\ arrived + n <= Len(Sent)
  /\ n <= RoomLeft
  /\ arrived' = arrived + n
  /\ LET buf == SubSeq(Sent, 1, arrived') IN
       \/ /\ StatusOverruns(buf, res)
          /\ outcome' = "overrun"
          /\ UNCHANGED res
       \/ /\ ~StatusOverruns(buf, res)
          /\ res' = process_response(buf, res)
          /\ outcome' = IF completed(buf, res') THEN Verdict(res'.status_code) ELSE "reading"
  /\ safe' = (safe /\ SafeEnd(arrived'))
  /\ UNCHANGED stream

\* The connection is closed, or there is no room left to receive into and
\* sock_recvmsg() returns 0: the connection is dropped and the request sent
\* again.
Dropped ==
  /\ outcome = "reading"
  /\ outcome' = "dropped"
  /\ UNCHANGED <<stream, arrived, safe, res>>

Init ==
  /\ stream \in Streams
  /\ arrived = 0
  /\ safe = TRUE
  /\ res = Blank
  /\ outcome = "reading"

Next == (\E n \in 1..Len(Sent) : Receive(n)) \/ Dropped

Spec == Init /\ [][Next]_vars

-----------------------------------------------------------------------------
(***************************************************************************)
(* Properties                                                              *)
(***************************************************************************)
Answered == outcome \in {"done", "throttle", "catastrophe"}

\* The types, and no more received than the buffer has room for.
HttpTypeOK ==
  /\ arrived \in 0..BufferSize
  /\ safe \in BOOLEAN
  /\ res \in Response
  /\ outcome \in {"reading", "done", "throttle", "catastrophe", "dropped", "overrun"}

\* However a response that comes alone was cut, its status line is kept in the
\* arrays for it.  Behind the tail of another one a header line or a body can
\* be taken for the status line, and overruns them (process_response 409-420).
StatusInArrays == outcome = "overrun" => stream.stale # <<>>

\* The tail begins with what reads as the status line of a success.
TailIsSuccess ==
  SecondWord(Line(stream.stale, 0, get_until(stream.stale, 0, CRLF, LineRoom + 2))) \in {201, 206}

\* However a response was cut, what it is taken for is what was sent: its
\* status, its body at its place, and nothing of it left on the connection
\* the next request will use; unless its body names a length and a fragment
\* ended in it (process_response 428-441: the parser looks for a length there,
\* too, and takes the response for whole as soon as so much is there).  And even behind
\* the tail of another request's response no data but its own ends a request:
\* the parser finds its own response, or nothing, or fails the dysk; unless
\* that tail was cut so early that it is an answer itself (409-420).
AnswerIsWhole ==
  /\ (stream.stale = <<>> /\ Answered) => res.status_code = stream.code
  /\ \/ stream.stale = <<>> /\ Answered /\ (LengthInBody => safe)
     \/ stream.stale # <<>> /\ outcome = "done" /\ ~TailIsSuccess /\ ~LengthInBody
     => /\ res.body = Len(stream.stale) + stream.head
        /\ arrived = Len(Sent)

\* When every fragment ends at a place of SafeEnd, the response is recognised
\* as soon as all of it is there.
SafeFragmentsComplete ==
  (stream.stale = <<>> /\ safe /\ arrived = Len(Sent)) => outcome # "reading"
=============================================================================
