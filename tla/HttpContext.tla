----------------------------- MODULE HttpContext -----------------------------
(***************************************************************************)
(* HttpRequest, HttpResponse and the parser's steps of HttpContext         *)
(* (src/http) as operators.  Text is a sequence of tokens: words, "SP",    *)
(* "?", ":", "CR" and "LF".  A word is never cut: the parser looks at a    *)
(* line only when its CR LF is there.                                      *)
(***************************************************************************)
EXTENDS Integers, Sequences, SequencesExt

(* Where token t is in s[i..end-1]; end when it is not, as std::find. *)
Find(s, i, end, t) == Min({j \in i..(end - 1) : s[j] = t} \cup {end})

From(s, i) == SubSeq(s, i, Len(s))
Before(s, i) == SubSeq(s, 1, i - 1)

(* Buffer::findCRLF; 0 for NULL. *)
findCRLF(buf) ==
    LET I == {i \in 1..(Len(buf) - 1) : buf[i] = "CR" /\ buf[i + 1] = "LF"}
    IN  IF I = {} THEN 0 ELSE Min(I)

-----------------------------------------------------------------------------
(* HttpRequest.                                                            *)

Methods == [GET |-> "kGet", POST |-> "kPost", HEAD |-> "kHead", PUT |-> "kPut",
            DELETE |-> "kDelete"]

(* Fault for ResponsesInOrder: any method will do. *)
setMethodAny(word) == "kGet"

setMethod(word) ==
    IF Len(word) = 1 /\ word[1] \in DOMAIN Methods THEN Methods[word[1]]
                                                   ELSE "kInvalid"

(* Fault for BadRequestHasCause: HTTP/1.0 is not known. *)
setVersionOnly11(word) ==
    IF word = <<"HTTP/1.1">> THEN "kHttp11" ELSE "kUnknown"

(* The version at the end of the request line. *)
setVersion(word) ==
    CASE word = <<"HTTP/1.1">> -> "kHttp11"
      [] word = <<"HTTP/1.0">> -> "kHttp10"
      [] OTHER -> "kUnknown"

NewRequest ==
    [method |-> "kInvalid", version |-> "kUnknown", path |-> <<>>,
     query |-> <<>>, headers |-> <<>>]

(* The blanks around a value are dropped. *)
Trim(s) ==
    LET word == {i \in DOMAIN s : s[i] # "SP"}
    IN  IF word = {} THEN <<>> ELSE SubSeq(s, Min(word), Max(word))

(* headers_[field] = value: the last one wins. *)
WithHeader(headers, field, value) ==
    [f \in DOMAIN headers \cup {field} |->
        IF f = field THEN value ELSE headers[f]]

(* Fault for ParsedIsWritten: the blanks stay. *)
addHeaderUntrimmed(req, line, colon) ==
    [req EXCEPT !.headers = WithHeader(@, Before(line, colon),
                                       From(line, colon + 1))]

addHeader(req, line, colon) ==
    [req EXCEPT !.headers = WithHeader(@, Before(line, colon),
                                       Trim(From(line, colon + 1)))]

getHeader(req, field) ==
    IF field \in DOMAIN req.headers THEN req.headers[field] ELSE <<>>

-----------------------------------------------------------------------------
(* HttpContext.                                                            *)

(* HttpContext's constructor, and reset. *)
NewContext == [state |-> "kExpectRequestLine", request |-> NewRequest,
               ok |-> FALSE]

gotAll(ctx) == ctx.state = "kGotAll"

(* Method, target and version; setQuery keeps the question mark. *)
processRequestLine(line) ==
    LET end == Len(line) + 1
        sp1 == Find(line, 1, end, "SP")
        sp2 == Find(line, sp1 + 1, end, "SP")
        q == Find(line, sp1 + 1, sp2, "?")
        method == setMethod(Before(line, sp1))
        version == setVersion(From(line, sp2 + 1))
    IN  [ok |-> sp1 < end /\ method # "kInvalid" /\ sp2 < end
                    /\ version # "kUnknown",
         request |-> [NewRequest EXCEPT !.method = method, !.version = version,
                         !.path = SubSeq(line, sp1 + 1, q - 1),
                         !.query = SubSeq(line, q, sp2 - 1)]]

-----------------------------------------------------------------------------
(* HttpResponse.                                                           *)

HttpResponse(close) ==
    [status |-> "kUnknown", close |-> close, headers |-> <<>>, body |-> "none"]

setStatus(resp, code) == [resp EXCEPT !.status = code]
addResponseHeader(resp, key, value) ==
    [resp EXCEPT !.headers = WithHeader(@, key, value)]
setBody(resp, type, body) ==
    [addResponseHeader(resp, "Content-Type", type) EXCEPT !.body = body]

(* What goes out: Content-Length only on a connection that is kept. *)
appendToBuffer(resp) ==
    [status |-> resp.status, headers |-> resp.headers, body |-> resp.body,
     connection |-> IF resp.close THEN "close" ELSE "Keep-Alive",
     length |-> IF resp.close THEN "none" ELSE resp.body]
=============================================================================
