----------------------------- MODULE HttpServer ------------------------------
(***************************************************************************)
(* One connection of the HttpServer (src/http/HttpServer.cc): a client's   *)
(* requests arrive cut into reads at any place, onMessage parses what the  *)
(* input buffer holds with a context of its own for every message, and     *)
(* answers.  Connections share nothing but the callback, so one is enough. *)
(* Of the TcpConnection the model has state_ and what send lets through    *)
(* (module TcpConnection has the rest).                                    *)
(***************************************************************************)
EXTENDS HttpContext

CONSTANTS
    Clients,    \* what clients may send: sequences of requests
    Callbacks   \* the values of httpCallback_

(* What a client may write.  A word is one token; a query has its question *)
(* mark; the blanks around a header's value are not part of it.            *)
Words == STRING \ {"SP", "?", ":", "CR", "LF"}

Headers == [field : Words, value : Seq(STRING \ {"CR", "LF"})]

IsHeader(h) ==
    /\ h \in Headers
    /\ h.value # <<>> => h.value[1] # "SP" /\ h.value[Len(h.value)] # "SP"

RequestType ==
    [method : Words, version : Words, headers : Seq(Headers),
     path : Seq(STRING \ {"SP", "?", "CR", "LF"}),
     query : Seq(STRING \ {"SP", "CR", "LF"})]

IsRequest(r) ==
    /\ r \in RequestType
    /\ r.query # <<>> => r.query[1] = "?"
    /\ \A i \in 1..Len(r.headers) : IsHeader(r.headers[i])

ASSUME HttpServerAssumptions ==
    /\ Callbacks \subseteq {"defaultHttpCallback", "onRequest", "keepAlive"}
    /\ \A c \in Clients :
         c \in Seq(RequestType) /\ \A i \in 1..Len(c) : IsRequest(c[i])

VARIABLES
    requests,       \* the client's requests
    httpCallback,   \* httpCallback_
    rest,           \* text the server has not read
    inputBuffer,    \* inputBuffer_ of the connection
    connState,      \* state_ of the connection
    pc,             \* the loop thread: "idle", "parse" or "parsed"
    context,        \* the HttpContext of this message, and ok of parseRequest
    begin,          \* history: where in the text this message's parse began
    cut,            \* history: some read has ended inside a request
    sent            \* history: the responses that went out

vars == <<requests, httpCallback, rest, inputBuffer, connState, pc, context,
          begin, cut, sent>>
fixed == <<requests, httpCallback>>

(* A request as the client writes it: a line of its own for the request    *)
(* and for each header, and an empty one.                                  *)
Line(tokens) == tokens \o <<"CR", "LF">>
RequestLine(r) ==
    Line(<<r.method, "SP">> \o r.path \o r.query \o <<"SP", r.version>>)
HeaderLine(h) == Line(<<h.field, ":", "SP">> \o h.value \o <<"SP">>)

LineCount(r) == Len(r.headers) + 2
LinesOf(r) ==
    [k \in 1..LineCount(r) |->
        IF k = 1 THEN RequestLine(r)
        ELSE IF k < LineCount(r) THEN HeaderLine(r.headers[k - 1])
        ELSE Line(<<>>)]

(* The first i of some sequences, one behind the other. *)
Joined(seqs) ==
    LET Upto[i \in 0..Len(seqs)] ==
            IF i = 0 THEN <<>> ELSE Upto[i - 1] \o seqs[i]
    IN  Upto

Text(r) == Joined(LinesOf(r))[LineCount(r)]

Texts(client) == [i \in 1..Len(client) |-> Text(client[i])]
Stream(client) == Joined(Texts(client))[Len(client)]

(* How much of the text has been read, or parsed. *)
Received == Len(Stream(requests)) - Len(rest)
Parsed == Received - Len(inputBuffer)

(* The places where a request ends. *)
EndOf(client, i) == Len(Joined(Texts(client))[i])
Ends(client) == {EndOf(client, i) : i \in 0..Len(client)}

Init ==
    /\ requests \in Clients
    /\ httpCallback \in Callbacks
    /\ rest = Stream(requests)
    /\ inputBuffer = <<>>
    /\ connState = "kConnected"
    /\ pc = "idle"
    /\ context = NewContext
    /\ begin = 0 /\ cut = FALSE /\ sent = <<>>

-----------------------------------------------------------------------------
(* The callbacks: the library's own, the demo's (main.cc) and an           *)
(* application's that keeps the connection.                                *)

defaultHttpCallback(resp) == [setStatus(resp, "404") EXCEPT !.close = TRUE]

onRequestDemo(req, resp) ==
    LET Page(type, body) == setBody(setStatus(resp, "200"), type, body)
        ByMuduo(r) == addResponseHeader(r, "Server", "Muduo")
    IN  CASE req.path = <<"/">> -> ByMuduo(Page("text/html", "page"))
          [] req.path = <<"/favicon.ico">> -> Page("image/png", "favicon")
          [] req.path = <<"/hello">> -> ByMuduo(Page("text/plain", "hello"))
          [] OTHER -> [setStatus(resp, "404") EXCEPT !.close = TRUE]

keepAlive(req, resp) ==
    [setBody(setStatus(resp, "200"), "text/plain", req.path) EXCEPT
        !.close = getHeader(req, <<"Connection">>) = <<"close">>]

Respond(req, resp) ==
    CASE httpCallback = "defaultHttpCallback" -> defaultHttpCallback(resp)
      [] httpCallback = "onRequest" -> onRequestDemo(req, resp)
      [] httpCallback = "keepAlive" -> keepAlive(req, resp)

(* HttpServer::onRequest: close is computed and then set to true. *)
ResponseTo(req) == Respond(req, HttpResponse(TRUE))

BadRequest ==
    [status |-> "400", headers |-> <<>>, body |-> "none", connection |-> "none",
     length |-> "none"]

-----------------------------------------------------------------------------
(* handleRead appends what has come and calls onMessage: a new context.    *)
Read(n) ==
    /\ pc = "idle" /\ connState # "kDisconnected"
    /\ inputBuffer' = inputBuffer \o SubSeq(rest, 1, n)
    /\ rest' = From(rest, n + 1)
    /\ pc' = "parse"
    /\ context' = NewContext
    /\ begin' = Parsed
    /\ cut' = (cut \/ Received + n \notin Ends(requests))
    /\ UNCHANGED <<fixed, connState, sent>>

PeerCloses ==
    /\ pc = "idle" /\ connState # "kDisconnected"
    /\ connState' = "kDisconnected"
    /\ UNCHANGED <<fixed, rest, inputBuffer, pc, context, begin, cut, sent>>

ParseStep ==
    /\ pc = "parse"
    /\ UNCHANGED <<fixed, rest, connState, begin, cut, sent>>

(* retrieveUtil(crlf + 2). *)
RetrieveLine == inputBuffer' = From(inputBuffer, findCRLF(inputBuffer) + 2)

(* parseRequest in kExpectRequestLine.  A line that cannot be used, or is  *)
(* not complete, ends the loop with ok = false.                            *)
ParseRequestLine ==
    /\ ParseStep /\ context.state = "kExpectRequestLine"
    /\ \E crlf \in {findCRLF(inputBuffer)} :
       \E parsed \in {processRequestLine(Before(inputBuffer, crlf))} :
           IF crlf # 0 /\ parsed.ok
           THEN /\ context' = [state |-> "kExpectHeaders", ok |-> TRUE,
                               request |-> parsed.request]
                /\ RetrieveLine
                /\ UNCHANGED pc
           ELSE pc' = "parsed" /\ UNCHANGED <<context, inputBuffer>>

(* Fault for TypeOK and StreamAnswered: a body is expected, which the loop *)
(* of parseRequest has no step for.                                        *)
EndOfHeadersBody == [context EXCEPT !.state = "kExpectBody"]

EndOfHeaders == [context EXCEPT !.state = "kGotAll"]

(* parseRequest in kExpectHeaders: a line without a colon ends them. *)
ParseHeaders ==
    /\ ParseStep /\ context.state = "kExpectHeaders"
    /\ \E crlf \in {findCRLF(inputBuffer)} :
       \E line \in {Before(inputBuffer, crlf)} :
       \E colon \in {Find(line, 1, Len(line) + 1, ":")} :
           \/ /\ crlf = 0
              /\ pc' = "parsed" /\ UNCHANGED <<context, inputBuffer>>
           \/ /\ crlf # 0 /\ colon <= Len(line)
              /\ context' = [context EXCEPT !.request =
                                addHeader(@, line, colon)]
              /\ RetrieveLine
              /\ UNCHANGED pc
           \/ /\ crlf # 0 /\ colon > Len(line)
              /\ context' = EndOfHeaders
              /\ RetrieveLine
              /\ pc' = IF gotAll(context') THEN "parsed" ELSE "parse"

(* send: nothing goes out unless connected; then shutdown, if asked for.   *)
SendAndShutdown(response, close) ==
    /\ sent' = IF connState = "kConnected" THEN Append(sent, response) ELSE sent
    /\ connState' = IF close /\ connState = "kConnected" THEN "kDisconnecting"
                                                         ELSE connState

(* The end of onMessage.  What was parsed of an incomplete request is      *)
(* dropped with its context.                                               *)
OnMessageEnds ==
    /\ pc = "parsed"
    /\ pc' = "idle"
    /\ \/ ~context.ok /\ SendAndShutdown(BadRequest, TRUE)
       \/ /\ context.ok /\ gotAll(context)
          /\ \E resp \in {ResponseTo(context.request)} :
                SendAndShutdown(appendToBuffer(resp), resp.close)
       \/ context.ok /\ ~gotAll(context) /\ UNCHANGED <<sent, connState>>
    /\ UNCHANGED <<fixed, rest, inputBuffer, context, begin, cut>>

LoopThread == ParseRequestLine \/ ParseHeaders \/ OnMessageEnds

Next == LoopThread \/ PeerCloses \/ \E n \in 1..Len(rest) : Read(n)

Spec == Init /\ [][Next]_vars

(* The loop thread goes on with a message it has begun. *)
FairSpec == Spec /\ WF_vars(LoopThread)

-----------------------------------------------------------------------------
(* Properties.                                                             *)

TypeOK ==
    /\ requests \in Clients /\ httpCallback \in Callbacks
    /\ connState \in {"kConnected", "kDisconnecting", "kDisconnected"}
    /\ pc \in {"idle", "parse", "parsed"}
    /\ context.state \in {"kExpectRequestLine", "kExpectHeaders", "kGotAll"}
    /\ inputBuffer \o rest = From(Stream(requests), Parsed + 1)
    /\ begin \in 0..Parsed

(* What the client's request means, without any parsing. *)
WellFormed(r) ==
    r.method \in DOMAIN Methods /\ r.version \in {"HTTP/1.0", "HTTP/1.1"}

(* The first k headers of a request; of two for a field the last one.      *)
HeadersUpto(r, k) ==
    LET LastFor(f) == Max({i \in 1..k : r.headers[i].field = f})
    IN  [f \in {<<r.headers[i].field>> : i \in 1..k} |->
            r.headers[LastFor(f[1])].value]

Meaning(r) ==
    [method |-> Methods[r.method], path |-> r.path, query |-> r.query,
     version |-> setVersion(<<r.version>>),
     headers |-> HeadersUpto(r, Len(r.headers))]

Answer(r) ==
    IF WellFormed(r) THEN appendToBuffer(ResponseTo(Meaning(r))) ELSE BadRequest

(* However the text was cut, a request is handed to the callback only as   *)
(* one that the client wrote: from its first to its last line, with the    *)
(* method, target, version and headers it has.                             *)
ParsedIsWritten ==
    pc = "parsed" /\ gotAll(context) =>
        \E i \in DOMAIN requests :
            /\ begin = EndOf(requests, i - 1) /\ Parsed = EndOf(requests, i)
            /\ WellFormed(requests[i])
            /\ context.request = Meaning(requests[i])

(* As long as no read ended inside a request, the responses are the ones   *)
(* to the client's requests, in their order, and none follows a response   *)
(* that closes the connection.                                             *)
ResponsesInOrder ==
    /\ ~cut => IsPrefix(sent, [i \in DOMAIN requests |-> Answer(requests[i])])
    /\ \A i \in 1..(Len(sent) - 1) : sent[i].connection = "Keep-Alive"

(* 400 goes to a client that wrote something else than HTTP, or to one     *)
(* whose request was cut by a read (HttpServer.cc:57 starts every message  *)
(* with a new context, and an incomplete request line counts as an error). *)
BadRequestHasCause ==
    BadRequest \in {sent[i] : i \in DOMAIN sent}
        => cut \/ \E i \in DOMAIN requests : ~WellFormed(requests[i])

(* A client whose requests have all been read gets an answer, even if they *)
(* were cut so that a part of them was dropped.                            *)
StreamAnswered == rest = <<>> ~> sent # <<>> \/ connState = "kDisconnected"
=============================================================================
