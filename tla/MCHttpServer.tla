---------------------------- MODULE MCHttpServer ----------------------------
(***************************************************************************)
(* HttpServer with a request for each way to keep or close a connection,   *)
(* with and without a query and a body, and with bad lines.                *)
(***************************************************************************)
EXTENDS HttpServer

Req(method, query, version, connection, body) ==
    [method |-> method, query |-> query, version |-> version,
     connection |-> connection, padded |-> FALSE, body |-> body]

MCRequest ==
    {Req("GET", "", "HTTP/1.1", "", FALSE),
     Req("GET", "?q", "HTTP/1.1", "", FALSE),
     Req("POST", "", "HTTP/1.1", "close", TRUE),
     Req("GET", "", "HTTP/1.0", "", FALSE),
     Req("POST", "", "HTTP/1.0", "Keep-Alive", TRUE),
     Req("BREW", "", "HTTP/1.1", "", FALSE),
     Req("GET", "?q", "HTTP/2.0", "", FALSE)}
=============================================================================
