----------------------------- MODULE Connection -----------------------------
(***************************************************************************)
(* A TCP connection as the server's send() and recv() see it (Linux).  The *)
(* states of a connection, from the server's end:                          *)
(*   "closed"   no connection: not accepted yet, or closed by the server   *)
(*   "up"       the client is there                                        *)
(*   "fin"      the client closed in order; nothing was sent since         *)
(*   "finsent"  the client closed in order and the server sent to it since *)
(*              (the client's kernel is about to answer with a reset)      *)
(*   "rst"      the client reset the connection (it closed with bytes of   *)
(*              the server unread); the error is not reported yet          *)
(*   "down"     the error was reported, or a reset followed the fin        *)
(* A process that sends on a "down" connection receives SIGPIPE; the       *)
(* server installs no handler for it (server.c:35-39), so it is killed.    *)
(***************************************************************************)

Links == {"closed", "up", "fin", "finsent", "rst", "down"}

\* send() returns the number of bytes, fails with -1, raises SIGPIPE.
SendOK(l)   == l \in {"up", "fin", "finsent"}
SendErr(l)  == l \in {"rst", "closed"}
SendPipe(l) == l = "down"

\* The connection after a send().
AfterSend(l) == IF l = "fin" THEN "finsent" ELSE IF l = "rst" THEN "down" ELSE l

\* recv() of a connection with nothing to read: it returns 0 (end of the
\* stream) or -1; on an "up" connection it blocks.
RecvEnd(l) == l \in {"fin", "finsent", "down", "rst"}
RecvEOF(l) == l \in {"fin", "finsent", "down"}
RecvErr(l) == l \in {"rst", "closed"}
=============================================================================
