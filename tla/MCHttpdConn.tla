---------------------------- MODULE MCHttpdConn ----------------------------
(* HttpdConn for clients that send one or two requests.                     *)
EXTENDS HttpdConn

Request(version11, length, emptyLine) ==
  [chunked |-> version11, body |-> length, crlf |-> emptyLine]

\* GETs and POSTs, one behind the other on a connection of HTTP/1.1, the last
\* perhaps of 1.0, and four GETs in a row; an empty line behind a request.
OneByOne ==
  {<<Request(TRUE, a, FALSE), Request(v, b, FALSE)>> :
     a, b \in {0, 2, 3}, v \in BOOLEAN} \cup
  {<<Request(v, 0, TRUE), Request(TRUE, 0, FALSE)>> : v \in BOOLEAN} \cup
  {<<Request(v, a, TRUE), Request(TRUE, 0, FALSE)>> :
     v \in BOOLEAN, a \in {1, 3}} \cup
  {<<Request(FALSE, a, FALSE)>> : a \in {2, 3}} \cup
  {[i \in 1 .. 4 |-> Request(i # 4, 0, FALSE)]}
=============================================================================
