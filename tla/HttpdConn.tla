----------------------------- MODULE HttpdConn -----------------------------
(***************************************************************************)
(* libesphttpd/core/httpd.c: one connection of the web server, from        *)
(* httpdConnectCb to httpdRetireConn.  A CGI function is called again from *)
(* every sent callback until it is done; what the socket does not take     *)
(* waits in the backlog; post->len doubles as the parser's state.          *)
(*                                                                         *)
(* The client sends its requests one after the other, each cut into        *)
(* segments anywhere; httpdRecvCb is one RecvBegin .. RecvEnd, an item of  *)
(* the segment at a time, and nothing else happens in between.  Output is  *)
(* a sequence of marks: "head" (status and headers), "data" (a chunk, or   *)
(* plain body) and "end" (the empty chunk).  CGI functions are those of    *)
(* the repository, by how they answer; websockets' recvHdl is not mounted. *)
(***************************************************************************)
EXTENDS Integers, Sequences, FiniteSets, SequencesExt

CONSTANTS Requests,    \* lists of requests a client may send
          MaxPost,     \* MAX_POST
          MaxBacklog,  \* MAX_BACKLOG_SIZE, in marks
          MaxCalls     \* calls of one CGI (bound)

ASSUME LimitAssumption ==
  MaxPost \in Nat \ {0} /\ MaxBacklog \in Nat /\ MaxCalls \in Nat \ {0}

\* A request is its version (chunked or not), body length and a CRLF behind it.
RequestType == [chunked : BOOLEAN, body : Nat, crlf : BOOLEAN]

ASSUME RequestAssumption == Requests \subseteq Seq(RequestType)

VARIABLES
  link,      \* "open", "closing" (espconn_disconnect called) or "closed"
  toSend,    \* what the client has yet to send: requests, then body bytes
  asked,     \* requests the client has sent
  recv,      \* httpdRecvCb: "no", at the "first" or a further
             \* "byte", or about to "call"; "sent" in httpdSentCb
  len,       \* post->len: -1 while headers are expected
  received,  \* post->received
  buffLen,   \* post->buffLen
  junk,      \* head holds bytes that are no request line
  url,       \* conn->url is not NULL
  cgi,       \* conn->cgi is not NULL
  calls,     \* calls of the CGI since its headers
  chunked, sendingBody, disconAfterSent,          \* HFL_ flags
  sendBuff,  \* marks in the callback's send buffer
  backlog,   \* packets the socket refused
  inflight,  \* a send whose sent callback is due
  wire,      \* history: marks handed to the socket
  produced,  \* history: marks the server has produced
  dropped,   \* history: the backlog overflowed
  early,     \* history: a CGI answered before its POST was complete
  mute       \* history: the last call of a CGI sent nothing

parser == <<len, received, buffLen, junk, url>>
flags  == <<chunked, sendingBody, disconAfterSent>>
output == <<sendBuff, backlog, inflight, wire, produced, dropped>>
vars   == <<link, toSend, asked, recv, parser, cgi, calls, flags, output,
            early, mute>>

\* What the client sends of a request: its head, a byte of its body, the CRLF.
Item(kind, request) == [kind |-> kind, request |-> request]

Items(requests) ==
  FlattenSeq([i \in DOMAIN requests |->
    LET rq == requests[i] IN
    <<Item("head", rq)>> \o [b \in 1 .. rq.body |-> Item("body", rq)]
      \o (IF rq.crlf THEN <<Item("crlf", rq)>> ELSE << >>)])

\* httpdConnectCb
Init ==
  /\ link = "open" /\ recv = "no" /\ asked = 0
  /\ \E rs \in Requests : toSend = Items(rs)
  /\ len = -1 /\ received = 0 /\ buffLen = 0 /\ junk = FALSE /\ url = FALSE
  /\ cgi = FALSE /\ calls = 0
  /\ chunked = FALSE /\ sendingBody = FALSE /\ disconAfterSent = FALSE
  /\ sendBuff = << >> /\ backlog = << >> /\ inflight = FALSE
  /\ wire = << >> /\ produced = << >> /\ dropped = FALSE
  /\ early = FALSE /\ mute = FALSE
-----------------------------------------------------------------------------
(* Output.                                                                 *)

Size(packets) == Len(FlattenSeq(packets))

\* Mutated form: a packet the socket refuses is thrown away.
RefusedLost(packet) == UNCHANGED <<backlog, dropped>>

\* The backlog half of httpdFlushSendBuffer.
Refused(packet) ==
  IF Size(backlog) + Len(packet) > MaxBacklog
  THEN dropped' = TRUE /\ UNCHANGED backlog
  ELSE backlog' = Append(backlog, packet) /\ UNCHANGED dropped

\* httpdFlushSendBuffer of a packet: the socket takes one at a time.
HandOver(packet) ==
  IF packet = << >> THEN UNCHANGED <<backlog, inflight, wire, dropped>>
  ELSE IF inflight THEN Refused(packet) /\ UNCHANGED <<inflight, wire>>
  ELSE /\ inflight' = TRUE
       /\ wire' = wire \o packet
       /\ UNCHANGED <<backlog, dropped>>

\* Mutated form: no empty chunk ends the response.
NoTerminator(hasBody) == << >>

\* The empty chunk that httpdFlushSendBuffer adds once conn->cgi is NULL.
Terminator(hasBody) == IF hasBody THEN <<"end">> ELSE << >>
-----------------------------------------------------------------------------
(* A CGI call and what becomes of its result.                              *)

Call(out, done) == [out |-> out, done |-> done]

\* What the CGI functions of the repository do: templates, files and the list of
\* access points send their headers first, that list with its first piece, and a
\* piece per call, a file perhaps nothing last; pages answer in one call, on the
\* first part of a POST, or without an argument they know send nothing at all;
\* uploads wait for all of it.  (Files are not gzipped unless GZIP_COMPRESSION is
\* set, which it is not: nobody is refused one, httpdespfs.c:58-62.)
Outcomes(complete) ==
  IF ~complete
  THEN {Call(<< >>, FALSE), Call(<<"head", "data">>, TRUE), Call(<< >>, TRUE)}
  ELSE IF cgi /\ sendingBody
  THEN {Call(<<"data">>, TRUE), Call(<< >>, TRUE)} \cup
       (IF calls + 1 < MaxCalls THEN {Call(<<"data">>, FALSE)} ELSE {})
  ELSE {Call(<<"head">>, TRUE), Call(<<"head", "data">>, TRUE), Call(<< >>, TRUE),
        Call(<<"head">>, FALSE), Call(<<"head", "data">>, FALSE)}

\* Mutated form: only the CGI pointer is reset for the next request.
NotReset == UNCHANGED <<len, received, flags>>

\* httpdCgiIsDone makes a chunked connection ready for the next request.
ReadyForNext ==
  /\ len' = -1 /\ received' = 0
  /\ chunked' = FALSE /\ sendingBody' = FALSE /\ disconAfterSent' = FALSE

\* Headers are over once httpdEndHeaders was called.
BodyAfter(out) == sendingBody \/ "head" \in Range(out)

\* Output that is flushed at once, or left in the send buffer.
Emit(out, flush) ==
  /\ produced' = produced \o out
  /\ IF flush
     THEN HandOver(sendBuff \o out) /\ sendBuff' = << >>
     ELSE /\ sendBuff' = sendBuff \o out
          /\ UNCHANGED <<backlog, inflight, wire, dropped>>

\* httpdCgiIsDone, which flushes a chunked response itself; another one is
\* flushed at the end of the callback.
CgiIsDone(out) ==
  /\ cgi' = FALSE
  /\ \/ /\ chunked
        /\ Emit(out \o Terminator(BodyAfter(out)), TRUE)
        /\ ReadyForNext
     \/ /\ ~chunked
        /\ Emit(out, recv = "sent")
        /\ disconAfterSent' = TRUE
        /\ sendingBody' = BodyAfter(out)
        /\ UNCHANGED <<len, received, chunked>>

\* conn->cgi stays set.
Remembered == cgi' = TRUE

\* HTTPD_CGI_MORE: httpdRecvCb flushes only after the call for a further part.
CgiHasMore(out) ==
  /\ Remembered
  /\ Emit(out, recv = "sent" \/ ~cgi)
  /\ sendingBody' = BodyAfter(out)
  /\ UNCHANGED <<len, received, chunked, disconAfterSent>>

\* A call of the CGI: its first one comes from httpdProcessRequest.
RunCgi ==
  /\ calls' = IF cgi /\ sendingBody THEN calls + 1 ELSE 0
  /\ \E o \in Outcomes(received >= len) :
       /\ early' = (early \/ (o.done /\ received < len))
       /\ mute' = (mute \/ (o.done /\ o.out = << >>))
       /\ IF o.done THEN CgiIsDone(o.out) ELSE CgiHasMore(o.out)
-----------------------------------------------------------------------------
(* httpdRecvCb                                                             *)

\* The client waits for the end of a response before it asks again, or sends the
\* next request at once; never behind a POST.
Answered == asked = Cardinality({i \in DOMAIN wire : wire[i] = "end"})

MaySend ==
  toSend # << >> /\ (Head(toSend).kind = "head" => Answered \/ len <= 0)

Receiving == recv \in {"first", "byte"}

RecvBegin ==
  /\ recv = "no" /\ link = "open" /\ MaySend
  /\ recv' = "first"
  /\ sendBuff' = << >>
  /\ UNCHANGED <<link, toSend, asked, parser, cgi, calls, flags, backlog,
                 inflight, wire, produced, dropped, early, mute>>

\* The flush before free(sendBuff)
RecvEnd ==
  /\ recv = "byte"
  /\ recv' = "no"
  /\ Emit(<< >>, TRUE)
  /\ UNCHANGED <<link, toSend, asked, parser, cgi, calls, flags, early,
                 mute>>

\* A head arrives where one is expected and is parsed; behind other bytes its
\* request line is not recognised, its Content-Length is.
RecvHead ==
  /\ Receiving /\ MaySend /\ Head(toSend).kind = "head" /\ len < 0
  /\ url' = ~junk /\ junk' = FALSE
  /\ chunked' = (~junk /\ Head(toSend).request.chunked)
  /\ len' = Head(toSend).request.body
  /\ recv' = IF len' = 0 THEN "call" ELSE "byte"
  /\ asked' = asked + 1
  /\ toSend' = Tail(toSend)
  /\ UNCHANGED <<link, received, buffLen, cgi, calls, sendingBody,
                 disconAfterSent, output, early, mute>>

\* The POST buffer (of post->buffSize bytes) is full, or the POST complete.
PartComplete ==
  \/ buffLen' >= IF len > MaxPost THEN MaxPost ELSE len
  \/ received' = len

\* A POST byte, or what comes behind the POST
RecvPost ==
  /\ Receiving /\ MaySend /\ Head(toSend).kind # "head" /\ len > 0
  /\ received' = received + 1
  /\ buffLen' = buffLen + 1
  /\ recv' = IF PartComplete THEN "call" ELSE "byte"
  /\ toSend' = Tail(toSend)
  /\ UNCHANGED <<link, asked, len, junk, url, cgi, calls, flags, output, early, mute>>

\* A byte where a head is expected joins the head (an empty line does no harm
\* there); after a request without a body whatever comes is ignored.
RecvStray ==
  /\ Receiving /\ MaySend
  /\ len = 0 \/ (len < 0 /\ Head(toSend).kind # "head")
  /\ junk' = (junk \/ (len < 0 /\ Head(toSend).kind = "body"))
  /\ recv' = "byte"
  /\ toSend' = Tail(toSend)
  /\ UNCHANGED <<link, asked, len, received, buffLen, url, cgi, calls,
                 flags, output, early, mute>>

\* httpdProcessRequest, or the call for a further part of the POST.
RecvCall ==
  /\ recv = "call"
  /\ recv' = "byte"
  /\ buffLen' = 0
  /\ IF url \/ cgi
     THEN RunCgi
     ELSE UNCHANGED <<len, received, cgi, calls, flags, output, early,
                      mute>>
  /\ UNCHANGED <<link, toSend, asked, junk, url>>

httpdRecvCb == RecvEnd \/ RecvHead \/ RecvPost \/ RecvStray \/ RecvCall
-----------------------------------------------------------------------------
(* The other callbacks.                                                    *)

\* httpdPlatSendData of the oldest packet of the backlog
SendBacklog == wire' = wire \o Head(backlog) /\ UNCHANGED inflight

BacklogSent == backlog = << >>

\* httpdSentCb with a backlog
SentBacklog ==
  /\ recv = "no" /\ inflight /\ backlog # << >>
  /\ SendBacklog
  /\ backlog' = Tail(backlog)
  /\ UNCHANGED <<link, toSend, asked, recv, parser, cgi, calls, flags, sendBuff,
                 produced, dropped, early, mute>>

\* ... with everything sent on a connection marked for destruction
SentClose ==
  /\ recv = "no" /\ inflight /\ BacklogSent /\ disconAfterSent
  /\ inflight' = FALSE
  /\ link' = IF link = "open" THEN "closing" ELSE link
  /\ UNCHANGED <<toSend, asked, recv, parser, cgi, calls, flags, sendBuff,
                 backlog, wire, produced, dropped, early, mute>>

\* ... with nothing to do but wait for the client
SentIdle ==
  /\ recv = "no" /\ inflight /\ BacklogSent /\ ~disconAfterSent /\ ~cgi
  /\ inflight' = FALSE
  /\ UNCHANGED <<link, toSend, asked, recv, parser, cgi, calls, flags, sendBuff,
                 backlog, wire, produced, dropped, early, mute>>

\* ... with a CGI that has more to send.  The send buffer is a new one.
SentMore ==
  /\ recv = "no" /\ inflight /\ BacklogSent /\ ~disconAfterSent /\ cgi
  /\ recv' = "sent" /\ inflight' = FALSE /\ sendBuff' = << >>
  /\ UNCHANGED <<link, toSend, asked, parser, cgi, calls, flags, backlog, wire,
                 produced, dropped, early, mute>>

SentCall ==
  /\ recv = "sent"
  /\ recv' = "no"
  /\ RunCgi
  /\ IF cgi' \/ ~chunked THEN UNCHANGED buffLen ELSE buffLen' = 0
  /\ UNCHANGED <<link, toSend, asked, junk, url>>

httpdSentCb == SentBacklog \/ SentClose \/ SentIdle \/ SentMore

\* httpdDisconCb, at any time, and httpdRetireConn
httpdDisconCb ==
  /\ recv = "no" /\ link # "closed"
  /\ link' = "closed"
  /\ cgi' = FALSE /\ backlog' = << >> /\ inflight' = FALSE
  /\ toSend' = << >> /\ sendBuff' = << >>
  /\ UNCHANGED <<asked, recv, parser, calls, flags, wire, produced, dropped,
                 early, mute>>

Next ==
  \/ RecvBegin \/ httpdRecvCb
  \/ httpdSentCb \/ SentCall
  \/ httpdDisconCb

\* Callbacks run to their end, every send is reported, a disconnection asked
\* for happens.
Fairness ==
  /\ WF_vars(httpdRecvCb) /\ WF_vars(SentCall)
  /\ WF_vars(httpdSentCb)
  /\ WF_vars(link = "closing" /\ httpdDisconCb)
  /\ WF_vars(RecvBegin)

Spec == Init /\ [][Next]_vars /\ Fairness
-----------------------------------------------------------------------------
Marks == {"head", "data", "end"}

TypeOK ==
  /\ link \in {"open", "closing", "closed"}
  /\ recv \in {"no", "first", "byte", "call", "sent"}
  /\ len \in Nat \cup {-1} /\ received \in Nat
  /\ buffLen \in 0 .. MaxPost
  /\ {cgi, junk, url, inflight, dropped, early, mute} \subseteq BOOLEAN
  /\ {chunked, sendingBody, disconAfterSent} \subseteq BOOLEAN
  /\ calls \in Nat /\ asked \in Nat
  /\ toSend \in Seq([kind : {"head", "body", "crlf"}, request : RequestType])
  /\ {sendBuff, wire, produced} \subseteq Seq(Marks)
  /\ backlog \in Seq(Seq(Marks)) /\ Size(backlog) <= MaxBacklog

\* What the client gets and what waits, in this order, is what was produced:
\* nothing is overtaken, lost or sent twice unless the backlog overflowed.
StreamIntact ==
  link = "open" /\ ~dropped =>
    wire \o FlattenSeq(backlog) \o sendBuff = produced

\* A client of HTTP/1.0 sent bytes behind its POST: they are counted on, and with
\* a buffer full of them the request is processed once more.
Overrun == len > 0 /\ received > len

\* A response: the head, then a body, and, chunked, exactly one end; the next
\* one starts only after that.
WellFramed ==
  early \/ Overrun \/ \A i \in DOMAIN produced :
    CASE produced[i] = "head" -> i = 1 \/ produced[i - 1] = "end"
      [] produced[i] = "data" -> i > 1 /\ produced[i - 1] \in {"head", "data"}
      [] produced[i] = "end"  -> i > 1 /\ produced[i - 1] \in {"head", "data"}

\* "Mark to get it killed after all data is sent": the sent callback that kills
\* a marked connection is due.
MarkedIsKilled ==
  disconAfterSent /\ recv = "no" /\ link = "open" => inflight

\* A request received completely is answered to its end and leaves the backlog,
\* or the connection ends; CGIs wait for their requests and send something last.
Due ==
  /\ link = "open" /\ ~early /\ ~mute
  /\ backlog # << >> \/ (len >= 0 /\ received >= len)
EveryRequestAnswered == Due ~> ~Due
=============================================================================
