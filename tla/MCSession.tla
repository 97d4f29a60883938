---------------------------- MODULE MCSession ----------------------------
(* Sessions that connect, with and without ZMQ_IMMEDIATE, once or again and *)
(* again, and sessions that a listener has accepted, also for raw sockets.  *)
EXTENDS Session

Option(active, immediate, reconnects, raw_sock, linger) ==
    [active |-> active, immediate |-> immediate, reconnects |-> reconnects,
     raw_sock |-> raw_sock, linger |-> linger]

SomeOptions ==
    {Option(TRUE, immediate, TRUE, FALSE, linger) :
        immediate \in BOOLEAN, linger \in {"zero", "finite", "infinite"}}
    \cup {Option(TRUE, immediate, FALSE, FALSE, "infinite") : immediate \in BOOLEAN}
    \cup {Option(FALSE, FALSE, TRUE, raw, linger) :
        raw \in BOOLEAN, linger \in {"zero", "infinite"}}
=============================================================================
