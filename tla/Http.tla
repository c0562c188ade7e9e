-------------------------------- MODULE Http --------------------------------
(***************************************************************************)
(* HttpServer, HttpContext, HttpRequest and HttpResponse on one            *)
(* connection.  The stream is a sequence of lines, of which only what the  *)
(* parser makes of them matters; a line without its CRLF is nothing to     *)
(* findCRLF(), so that all it can do is to have onMessage() called.        *)
(***************************************************************************)
EXTENDS Integers, Sequences, FiniteSets

CONSTANTS
  MaxRequests, \* bound: requests the client sends
  MaxHeaders   \* bound: headers of one, and of two together

ASSUME HttpAssumption == MaxRequests \in Nat /\ MaxHeaders \in Nat

VARIABLES
  httpAsked,   \* requests the client has sent, oldest first
  coming,      \* their lines that have not arrived, each with its place
  input,       \* the lines in the input buffer
  parseState,  \* state_
  request,     \* request_
  parsingHttp, \* parseRequest() runs
  httpConn,    \* "connected", or "disconnecting" after shutdown()
  responses,   \* history: what was sent, oldest first
  pipelined    \* history: the client sent on before it had its answer

httpVars == <<httpAsked, coming, input, parseState, request, parsingHttp, httpConn,
              responses, pipelined>>

\* Request lines: method, version and whether both are known.
RequestLines == {"GET 1.1", "GET 1.0", "GET 2.0", "FOO 1.1"}
HeaderLines == {"Connection: close", "Connection: Keep-Alive"}

\* A request is ended by an empty line or by one without a colon, which the
\* parser takes for the end too.
EndLines == {"", "text"}
Requests ==
  [line : RequestLines, end : EndLines,
   headers : UNION {[1..n -> HeaderLines] : n \in 0..MaxHeaders}]

\* The lines of a request.
LinesIn(r) == Len(r.headers) + 2
TextAt(r, k) ==
  IF k = 1 THEN r.line ELSE IF k = LinesIn(r) THEN r.end ELSE r.headers[k - 1]
LinesOf(i, r) == [k \in 1..LinesIn(r) |-> [of |-> i, at |-> k]]

HttpRequestType ==
  [method : {"kInvalid", "kGet"}, version : {"kUnknown", "kHttp10", "kHttp11"},
   connection : {"", "close", "Keep-Alive"}]
EmptyRequest == [method |-> "kInvalid", version |-> "kUnknown", connection |-> ""]

HttpTypeOK ==
  /\ Len(httpAsked) <= MaxRequests
  /\ \A i \in DOMAIN httpAsked : httpAsked[i] \in Requests
  /\ Len(coming) + Len(input) <= MaxRequests * (MaxHeaders + 2)
  /\ parseState \in {"kExpectRequestLine", "kExpectHeaders"}
  /\ request \in HttpRequestType
  /\ httpConn \in {"connected", "disconnecting"}
  /\ responses \in Seq({"400", "keep", "close"})
  /\ {parsingHttp, pipelined} \subseteq BOOLEAN

HttpInit ==
  /\ httpAsked = <<>> /\ coming = <<>> /\ input = <<>> /\ responses = <<>>
  /\ parseState = "kExpectRequestLine" /\ request = EmptyRequest
  /\ parsingHttp = FALSE /\ httpConn = "connected" /\ pipelined = FALSE

-----------------------------------------------------------------------------
(* The client.                                                             *)

ClientAsks(r) ==
  /\ Len(httpAsked) < MaxRequests
  /\ \A i \in DOMAIN httpAsked :
       Len(httpAsked[i].headers) + Len(r.headers) <= MaxHeaders
  /\ httpAsked' = Append(httpAsked, r)
  /\ coming' = coming \o LinesOf(Len(httpAsked'), r)
  /\ pipelined' = (pipelined \/ Len(httpAsked) # Len(responses))
  /\ UNCHANGED <<input, parseState, request, parsingHttp, httpConn, responses>>

-----------------------------------------------------------------------------
(* HttpContext: parseRequest(), a line at a time.                          *)

\* setMethod() and setVersion(); the method stays even if the version is bad.
ProcessRequestLine(line, r) ==
  [r EXCEPT
     !.method = IF line \in {"GET 1.1", "GET 1.0", "GET 2.0"} THEN "kGet"
                ELSE "kInvalid",
     !.version = CASE line = "GET 1.1" -> "kHttp11"
                   [] line = "GET 1.0" -> "kHttp10"
                   [] OTHER -> @]
GoodRequestLine(line) == line \in {"GET 1.1", "GET 1.0"}

HasColon(line) == line \in HeaderLines

\* addHeader(): a second header of a name replaces the first.
AddHeader(line, r) ==
  [r EXCEPT !.connection = CASE line = "Connection: close" -> "close"
                             [] line = "Connection: Keep-Alive" -> "Keep-Alive"
                             [] OTHER -> @]

\* Some lines arrive, or a part of one.
OnHttpMessage(n) ==
  /\ ~parsingHttp /\ coming # <<>> /\ n \in 0..Len(coming)
  /\ input' = input \o SubSeq(coming, 1, n)
  /\ coming' = SubSeq(coming, n + 1, Len(coming))
  /\ parsingHttp' = TRUE
  /\ UNCHANGED <<httpAsked, parseState, request, httpConn, responses, pipelined>>

\* findCRLF() and the text before it.
HasLine == parsingHttp /\ input # <<>>
Text == TextAt(httpAsked[Head(input).of], Head(input).at)
RetrieveLine == input' = Tail(input)

NoLine ==
  /\ parsingHttp /\ input = <<>>
  /\ parsingHttp' = FALSE
  /\ UNCHANGED <<httpAsked, coming, input, parseState, request, httpConn, responses,
                 pipelined>>

TakeRequestLine ==
  /\ HasLine /\ parseState = "kExpectRequestLine" /\ GoodRequestLine(Text)
  /\ request' = ProcessRequestLine(Text, request)
  /\ RetrieveLine
  /\ parseState' = "kExpectHeaders"
  /\ UNCHANGED <<httpAsked, coming, parsingHttp, httpConn, responses, pipelined>>

TakeHeader ==
  /\ HasLine /\ parseState = "kExpectHeaders" /\ HasColon(Text)
  /\ request' = AddHeader(Text, request)
  /\ RetrieveLine
  /\ UNCHANGED <<httpAsked, coming, parseState, parsingHttp, httpConn, responses,
                 pipelined>>

-----------------------------------------------------------------------------
(* HttpServer.                                                             *)

\* send() and, for an answer that closes, shutdown(), after which send() is
\* ignored.
Send(response) ==
  IF httpConn = "connected" THEN responses' = Append(responses, response)
  ELSE UNCHANGED responses
ShutdownIf(closes) == httpConn' = IF closes THEN "disconnecting" ELSE httpConn

\* parseRequest() fails; the line stays in the buffer.
BadRequestLine ==
  /\ HasLine /\ parseState = "kExpectRequestLine" /\ ~GoodRequestLine(Text)
  /\ request' = ProcessRequestLine(Text, request)
  /\ parsingHttp' = FALSE
  /\ Send("400") /\ ShutdownIf(TRUE)
  /\ UNCHANGED <<httpAsked, coming, input, parseState, pipelined>>

\* onRequest(): close, whatever the callback does not change.
CloseAfter(r) ==
  r.connection = "close" \/ (r.version = "kHttp10" /\ r.connection # "Keep-Alive")

\* Mutant of ResetContext: the request is kept.
ResetContextState == parseState' = "kExpectRequestLine" /\ UNCHANGED request

\* reset() after a request.
ResetContext == parseState' = "kExpectRequestLine" /\ request' = EmptyRequest

\* kGotAll: onRequest() and reset(); what follows in the buffer stays there.
GotAll ==
  /\ HasLine /\ parseState = "kExpectHeaders" /\ ~HasColon(Text)
  /\ RetrieveLine
  /\ parsingHttp' = FALSE
  /\ Send(IF CloseAfter(request) THEN "close" ELSE "keep")
  /\ ShutdownIf(CloseAfter(request))
  /\ ResetContext
  /\ UNCHANGED <<httpAsked, coming, pipelined>>

HttpNext ==
  \/ \E r \in Requests : ClientAsks(r)
  \/ \E n \in 0..Len(coming) : OnHttpMessage(n)
  \/ NoLine \/ TakeRequestLine \/ TakeHeader \/ BadRequestLine \/ GotAll

HttpSpec == HttpInit /\ [][HttpNext]_httpVars

-----------------------------------------------------------------------------
(* Properties                                                              *)

\* What a request asks for: its last header of a name counts.
ConnectionWanted(r) == IF r.headers = <<>> THEN "" ELSE r.headers[Len(r.headers)]
AnswerTo(r) ==
  CASE r.line \notin {"GET 1.1", "GET 1.0"} -> "400"
    [] r.line = "GET 1.1" ->
         IF ConnectionWanted(r) = "Connection: close" THEN "close" ELSE "keep"
    [] r.line = "GET 1.0" ->
         IF ConnectionWanted(r) = "Connection: Keep-Alive" THEN "keep" ELSE "close"

\* Enough of the request has arrived to answer it: all, or a bad first line.
HasArrived(i) ==
  \A k \in DOMAIN coming : coming[k].of = i =>
    AnswerTo(httpAsked[i]) = "400" /\ coming[k].at > 1

\* However the bytes arrive, requests are answered in order, each from its own
\* headers, none before it is complete or after an answer that closes; and at
\* once unless the client pipelines: what came with an answered request then
\* waits for more bytes (HttpServer.cc:78).
HttpRight ==
  /\ \A i \in DOMAIN responses :
       /\ i \in DOMAIN httpAsked /\ HasArrived(i)
       /\ responses[i] = AnswerTo(httpAsked[i])
       /\ i < Len(responses) => responses[i] = "keep"
  /\ ~pipelined /\ ~parsingHttp =>
       \A i \in DOMAIN httpAsked :
         /\ HasArrived(i)
         /\ \A j \in 1..i - 1 : AnswerTo(httpAsked[j]) = "keep"
         => i \in DOMAIN responses
=============================================================================
