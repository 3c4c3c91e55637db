----------------------------- MODULE HttpServer -----------------------------
(***************************************************************************)
(* net/http: one connection of HttpServer with its HttpContext.  A client  *)
(* sends requests; what arrives in one read is handed to msg_cb, which     *)
(* parses, answers and empties the input buffer at once, so that the only  *)
(* state between two reads is the context.  A text is two halves, cut by a *)
(* segment or not: request line, header line, body.  Headers other than    *)
(* Connection are left out.  What TcpConnection makes of the answers is in *)
(* its own module.                                                         *)
(***************************************************************************)
EXTENDS Integers, Sequences, SequencesExt, FiniteSets

CONSTANTS
    Request,        \* [method, query, version, connection, padded, body]
    MaxRequests,    \* bound: requests the client sends
    Largest         \* bound: the pieces in one read

VARIABLES
    sent,       \* the requests, as the client sent them
    received,   \* how many pieces of them were read
    m_status,   \* of the HttpContext
    m_req,      \* of the HttpContext
    connected,  \* the TcpConnection is e_connected, or e_disconnecting
    answers,    \* what was sent back
    whole       \* history: each read brought one whole request

vars == <<sent, received, m_status, m_req, connected, answers, whole>>

Method == {"GET", "POST", "HEAD", "PUT", "DELETE"}

NoRequest == [path |-> 0, query |-> "", version |-> "unknow", connection |-> ""]

-----------------------------------------------------------------------------
(* What is on the wire.  A piece is the request it belongs to, the text,   *)
(* and the half.                                                           *)

CR == <<0, "CR", 1>>
LF == <<0, "LF", 1>>

Text(i, what) == << <<i, what, 1>>, <<i, what, 2>> >>

Wire(r, i) ==
    Text(i, "line") \o <<CR, LF>>
        \o (IF r.connection = "" THEN << >> ELSE Text(i, "header") \o <<CR, LF>>)
        \o <<CR, LF>>
        \o (IF r.body THEN Text(i, "body") ELSE << >>)

Stream == FlattenSeq([i \in DOMAIN sent |-> Wire(sent[i], i)])

\* The ends of the requests in the stream.
Ends == {Len(FlattenSeq([i \in 1 .. n |-> Wire(sent[i], i)])) :
            n \in 0 .. Len(sent)}

-----------------------------------------------------------------------------
(* HttpRequest and HttpContext.                                            *)

\* The lines of a buffer that end with CRLF.
Lines(buf) ==
    LET crlf == {k \in 1 .. Len(buf) - 1 : buf[k] = CR /\ buf[k + 1] = LF}
        ends == SetToSortSeq(crlf, <)
    IN  [j \in DOMAIN ends |->
            SubSeq(buf, IF j = 1 THEN 1 ELSE ends[j - 1] + 2, ends[j] - 1)]

\* HttpRequest::header skips leading blanks; those at the end stay, because
\* its second loop looks at the CR.
header(r) == IF r.padded THEN r.connection \o " " ELSE r.connection

IsText(line, what) == line # << >> /\ line = Text(line[1][1], what)

SetLine(req, r, i) ==
    [req EXCEPT !.path = i,
                !.query = IF r.query # "" THEN r.query ELSE @,
                !.version = IF r.version \in {"HTTP/1.1", "HTTP/2.1"} THEN "http11"
                            ELSE IF r.version \in {"HTTP/1.0", "HTTP/2.0"}
                                 THEN "http10" ELSE @]

parse_line(c, line) ==
    IF ~IsText(line, "line") THEN [c EXCEPT !.ok = FALSE, !.has_more = FALSE]
    ELSE LET i == line[1][1]
             r == sent[i]
         IN  IF r.method \notin Method
             THEN [c EXCEPT !.ok = FALSE, !.has_more = FALSE]
             ELSE IF r.version \in {"HTTP/1.1", "HTTP/1.0"}
             THEN [c EXCEPT !.m_req = SetLine(@, r, i), !.m_status = "header"]
             ELSE [c EXCEPT !.m_req = SetLine(@, r, i), !.ok = FALSE,
                            !.has_more = FALSE]

\* Faulty variant: the blank line would end the parsing, and not the request.
BlankLineStops(c, line) ==
    IF \E k \in DOMAIN line : line[k][2] = "header"
    THEN [c EXCEPT !.m_req.connection = header(sent[line[1][1]])]
    ELSE [c EXCEPT !.has_more = FALSE]

parse_header(c, line) ==
    IF \E k \in DOMAIN line : line[k][2] = "header"
    THEN [c EXCEPT !.m_req.connection = header(sent[line[1][1]])]
    ELSE [c EXCEPT !.m_status = "over", !.has_more = FALSE]

parse_next(c, line) ==
    IF ~c.has_more THEN c
    ELSE IF c.m_status = "line" THEN parse_line(c, line)
    ELSE parse_header(c, line)

\* What is left of the buffer after the last line that is looked at is
\* dropped; if the header ends with it, the request counts as complete.
parse_req(buf) ==
    LET c == FoldLeft(parse_next,
                      [m_status |-> m_status, m_req |-> m_req, ok |-> TRUE,
                       has_more |-> TRUE],
                      Lines(buf))
    IN  IF c.has_more /\ c.m_status = "header"
        THEN [c EXCEPT !.m_status = "over"] ELSE c

-----------------------------------------------------------------------------
(* HttpServer.                                                             *)

Init ==
    /\ sent = << >>
    /\ received = 0
    /\ m_status = "line"
    /\ m_req = NoRequest
    /\ connected = TRUE
    /\ answers = << >>
    /\ whole = TRUE

BadRequest == [status |-> 400, connection |-> "close", req |-> NoRequest]

\* HttpResponse::build_res; what request_cb was given is noted with it.
build_res(close, req) ==
    [status |-> 200, connection |-> IF close THEN "close" ELSE "Keep-Alive",
     req |-> req]

needs_close(req) ==
    \/ req.connection = "close"
    \/ req.version = "http10" /\ req.connection # "Keep-Alive"

\* TcpConnection::send takes nothing once shutdown was called.
SendAndMaybeShutdown(a) ==
    /\ answers' = IF connected THEN Append(answers, a) ELSE answers
    /\ connected' = (connected /\ a.connection # "close")

\* Faulty variant: what the request said would be left to the next one.
ResetStatusOnly(c) == [c EXCEPT !.m_status = "line"]

reset(c) == [c EXCEPT !.m_status = "line", !.m_req = NoRequest]

Keep(c) == m_status' = c.m_status /\ m_req' = c.m_req

\* msg_cb with the next n pieces of the stream.
Receive(n) ==
    /\ received + n <= Len(Stream)
    /\ received' = received + n
    /\ whole' = /\ whole
                /\ {received, received + n} \subseteq Ends
                /\ \A e \in Ends : ~(received < e /\ e < received + n)
    /\ LET c == parse_req(SubSeq(Stream, received + 1, received + n))
       IN  \/ /\ ~c.ok
              /\ SendAndMaybeShutdown(BadRequest)
              /\ Keep(c)
           \/ /\ c.ok
              /\ c.m_status = "over"
              /\ SendAndMaybeShutdown(build_res(needs_close(c.m_req), c.m_req))
              /\ Keep(reset(c))
           \/ /\ c.ok
              /\ c.m_status # "over"
              /\ Keep(c)
              /\ UNCHANGED <<connected, answers>>
    /\ UNCHANGED sent

\* The client sends its next request.
ClientSends ==
    /\ Len(sent) < MaxRequests
    /\ \E r \in Request : sent' = Append(sent, r)
    /\ UNCHANGED <<received, m_status, m_req, connected, answers, whole>>

Next == ClientSends \/ \E n \in 1 .. Largest : Receive(n)

Spec == Init /\ [][Next]_vars

\* What was sent is read, for the peer's TCP delivers it.
FairSpec == Spec /\ WF_vars(\E n \in 1 .. Largest : Receive(n))

-----------------------------------------------------------------------------
(* Properties.                                                             *)

WellFormed(r) == r.method \in Method /\ r.version \in {"HTTP/1.1", "HTTP/1.0"}

MustClose(r) ==
    \/ r.connection = "close"
    \/ r.version = "HTTP/1.0" /\ r.connection # "Keep-Alive"

\* What a request looks like to request_cb, its header possibly cut off.
Seen(r, i) ==
    {[path |-> i, query |-> r.query,
      version |-> IF r.version = "HTTP/1.1" THEN "http11" ELSE "http10",
      connection |-> c] : c \in {"", r.connection}}

Answered ==
    LET ok == SelectSeq(answers, LAMBDA a : a.status = 200)
    IN  IF ok = << >> THEN 0 ELSE ok[Len(ok)].req.path

\* The server answers as HttpService says, whatever is cut where: each answer
\* is to one request, in order, once, and by its own fields; nothing follows
\* an answer that closes; and requests that arrive whole are all answered.
Service == INSTANCE HttpService WITH answered <- Answered, open <- connected
ImplementsHttpService == Service!Spec

\* A client that sends each request in a segment of its own gets an answer to
\* each, unless an earlier one closed the connection.
RequestsAreAnswered ==
    \A i \in 1 .. MaxRequests :
        (i \in DOMAIN sent) ~> (Answered >= i \/ ~connected \/ ~whole)
=============================================================================
