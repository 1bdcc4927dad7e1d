------------------------------ MODULE Stapling ------------------------------
(***************************************************************************)
(* Server-side OCSP stapling (tools/cert.cpp): serverOCSPCallback, which   *)
(* stapleOcspResponse installs as the context's status callback, over      *)
(* successive handshakes and connection closes, with the server's own      *)
(* status changing in between.                                             *)
(*                                                                         *)
(* OpenSSL's side is the contract of its API, not code of this repository: *)
(* the status callback runs only for a handshake whose client sent a      *)
(* status_request, and then SSL_get_tlsext_status_type returns            *)
(* TLSEXT_STATUSTYPE_ocsp; a callback result other than                   *)
(* SSL_TLSEXT_ERR_OK (or NOACK) aborts the handshake.                      *)
(*                                                                         *)
(* The callback's first test, type != -1, is true for every call OpenSSL   *)
(* makes, so the code after it (the comparison with, and replacement of,  *)
(* server->cached_ocsp_response) is never reached; the model keeps only   *)
(* the two early returns and so has no heap.                              *)
(***************************************************************************)
EXTENDS Integers, FiniteSets

CONSTANTS
    Tokens,     \* the server's signed statuses (ocsp_bytes)
    Conns,      \* the connections, each with one handshake
    NoStatus    \* model value: server->current_status is null

TLSEXT_STATUSTYPE_ocsp == 1

VARIABLES
    current,    \* server->current_status->ocsp_bytes, or NoStatus
    conn        \* connection -> its handshake's state

vars == <<current, conn>>

\* stapleOcspResponse has installed serverOCSPCallback as the context's
\* status callback; no connection has shaken hands yet.
Init ==
    /\ current \in Tokens \cup {NoStatus}
    /\ conn = [c \in Conns |-> [st |-> "none", req |-> FALSE, had |-> FALSE]]

-----------------------------------------------------------------------------
\* The server's own status changes (its status monitor, not in this file).
SetServerStatus ==
    /\ \E t \in Tokens : current' = t
    /\ UNCHANGED conn

\* A client that does not ask for stapling: the callback is not called.
HandshakeNoStapling(c) ==
    /\ conn[c].st = "none"
    /\ conn' = [conn EXCEPT ![c].st = "open", ![c].had = current # NoStatus]
    /\ UNCHANGED current

\* if (SSL_get_tlsext_status_type(ssl) != -1) return ALERT_WARNING
EarlyReturn(type) == type # -1

\* serverOCSPCallback for the handshake of connection c, whose client asked
\* for stapling: ALERT_WARNING on the type test, ALERT_FATAL without a
\* server status, else (never reached, see above) the cached buffer is
\* refreshed and stapled and the result is SSL_TLSEXT_ERR_OK.
ServerOCSPCallback(c) ==
    /\ conn[c].st = "none"
    /\ LET had == current # NoStatus
           ok  == ~EarlyReturn(TLSEXT_STATUSTYPE_ocsp) /\ had
       IN  conn' = [conn EXCEPT ![c] = [st |-> IF ok THEN "open" ELSE "failed",
                                        req |-> TRUE, had |-> had]]
    /\ UNCHANGED current

\* SSL_free: the connection ends.
Close(c) ==
    /\ conn[c].st \in {"open", "failed"}
    /\ conn' = [conn EXCEPT ![c].st = "closed"]
    /\ UNCHANGED current

Next ==
    \/ SetServerStatus
    \/ \E c \in Conns : HandshakeNoStapling(c) \/ ServerOCSPCallback(c) \/ Close(c)

Spec == Init /\ [][Next]_vars

-----------------------------------------------------------------------------
(* Properties                                                              *)

\* A client that asks for the server's status while the server has one
\* completes its handshake (spec: stapling attaches the server's signed
\* status to the handshake).
StapleOnRequest ==
    \A c \in Conns : conn[c].req /\ conn[c].had => conn[c].st # "failed"

=============================================================================
