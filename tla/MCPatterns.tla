---------------------------- MODULE MCPatterns ----------------------------
(***************************************************************************)
(* The messaging patterns, and a program made of them.  A behaviour is     *)
(* that of one of them; the others stay as they were created.              *)
(*   "pubsub"  a publisher with two subscribers, with the options and      *)
(*             bounds of one of the setups                                 *)
(*   "tries"   the tries by themselves, on more topics                     *)
(*   "reqrep"  a REQ with two REPs, in its four modes, or with one,        *)
(*             relaxed; and two clients with one REP                       *)
(*   "server"  the data server with one or two projects behind one         *)
(*             service, and one client that makes the calls of             *)
(*             mdclient_GDS's main, or the last of them                    *)
(***************************************************************************)
EXTENDS Integers, TLC

CONSTANTS Uses, x, y, c1, c2, d1, s1, s2, Nobody, w1, w2

VARIABLES
    use,
    setup, pub, peer, sub, short, sent, breaks,
    trie, wanted, mtrie, held,
    mode, req, rep, link, asked, lost, faults,
    broker, wrk, cli, up, down, id, router, second, slow, failures, clashes

pubVars == <<setup, pub, peer, sub, short, sent, breaks>>
trieVars == <<trie, wanted, mtrie, held>>
reqVars == <<mode, req, rep, link, asked, lost, faults>>
serverVars ==
    <<broker, wrk, cli, up, down, id, router, second, slow, failures, clashes>>

S == INSTANCE Subscriptions
    WITH Topics <- {<<>>} \cup {<<a>> : a \in 0 .. 3}
                   \cup {<<a, b>> : a \in {0, 2}, b \in {0, 1, 2}},
         Pipes <- {x, y}, MaxWanted <- 4, MaxHeld <- 3

Mode(links, strict, correlate, times) ==
    [links |-> links, strict |-> strict, correlate |-> correlate,
     faults |-> times]
Modes ==
    {Mode({<<c1, s1>>, <<c1, s2>>}, strict, correlate, 1) :
        strict \in BOOLEAN, correlate \in BOOLEAN}
    \cup {Mode({<<c1, s1>>}, FALSE, correlate, 2) : correlate \in BOOLEAN}
    \cup {Mode({<<c1, s1>>, <<c2, s1>>}, TRUE, FALSE, 1),
          Mode({<<c1, s1>>, <<d1, s1>>}, TRUE, FALSE, 0)}

R == INSTANCE ReqRep
    WITH Setups <- Modes, Requesters <- {c1, c2}, Dealers <- {d1},
         Repliers <- {s1, s2}, Hwm <- 1, MaxParts <- 2, MaxRequests <- 2,
         setup <- mode, breaks <- faults

Setup(type, verbose, lossy, filter, commands, sends, brk) ==
    [type |-> type, verbose |-> verbose, lossy |-> lossy, filter |-> filter,
     commands |-> commands, sends |-> sends, breaks |-> brk]
Of(nx, ny) == (x :> nx) @@ (y :> ny)
MCSetups ==
    {Setup("XPUB", FALSE, TRUE, TRUE, Of(3, 1), 0, Of(1, 0)),
     Setup("XPUB", TRUE, TRUE, TRUE, Of(2, 1), 0, Of(1, 1)),
     Setup("PUB", FALSE, TRUE, TRUE, Of(2, 0), 1, Of(1, 0)),
     Setup("PUB", FALSE, FALSE, FALSE, Of(1, 1), 2, Of(0, 0)),
     Setup("PUB", FALSE, FALSE, FALSE, Of(2, 0), 2, Of(0, 0)),
     Setup("PUB", FALSE, FALSE, FALSE, Of(1, 0), 2, Of(1, 0))}
P == INSTANCE PubSub
    WITH Subscribers <- {x, y}, Setups <- MCSetups, Topics <- {<<1>>, <<1, 2>>},
         UpHwm <- 2, DownHwm <- 2

Server(workers, first, ticks, failing, same) ==
    [workers |-> workers, first |-> first, slow |-> ticks, faults |-> failing, clashes |-> same]
Servers ==
    {Server({w1, w2}, 1, 1, 0, 0), Server({w1, w2}, 2, 0, 1, 0), Server({w1}, 2, 1, 1, 0),
     Server({w1}, 2, 2, 0, 0), Server({w1}, 1, 0, 2, 0), Server({w1, w2}, 2, 0, 0, 2),
     Server({w1}, 2, 0, 1, 2), Server({w1}, 3, 0, 2, 1)}
D == INSTANCE DataServer
    WITH Workers <- {w1, w2}, Clients <- {c1}, Service <- [w \in {w1, w2} |-> "Map"],
         HEARTBEAT_LIVENESS <- 2, m_retries <- 2,
         Calls <- <<"connect", "info", "open", "lock">>, Setups <- Servers,
         faults <- failures

MCInit ==
    /\ use \in Uses
    /\ P!Init /\ S!Init /\ R!Init /\ D!Init
    /\ use # "pubsub" => setup = CHOOSE s \in MCSetups : TRUE
    /\ use # "reqrep" => mode = CHOOSE s \in Modes : TRUE
    /\ use # "server" => slow = 2
MCNext ==
    \/ use = "pubsub" /\ P!Next /\ UNCHANGED <<use, trieVars, reqVars, serverVars>>
    \/ use = "tries" /\ S!Next /\ UNCHANGED <<use, pubVars, reqVars, serverVars>>
    \/ use = "reqrep" /\ R!Next /\ UNCHANGED <<use, pubVars, trieVars, serverVars>>
    \/ use = "server" /\ D!Next /\ UNCHANGED <<use, pubVars, trieVars, reqVars>>
\* The fairness of the patterns, and that the server's time goes on: Tick
\* makes the broker due, and is the only step that does.
MCSpec ==
    /\ MCInit /\ [][MCNext]_<<use, pubVars, trieVars, reqVars, serverVars>>
    /\ []<>(CASE use = "reqrep" -> R!AtRest [] use = "server" -> broker.due
              [] OTHER -> P!Idle)
    /\ []<>(use = "server" => ~broker.due)

\* The two tries find, and call back with, the topics they were given.
TriesExact == use = "tries" => S!TriesExact

\* Replies go to who asked and answer the request made last, and the ROUTER
\* of a REP never mixes up the pipes it reads from and writes to.
RepliesMatch == use = "reqrep" => R!RepliesMatch

\* A REQ that waits gets its reply, unless the network lost it or the socket
\* itself gave it up.
EveryRequestAnswered == R!EveryRequestAnswered

\* What the publisher tells its user, and whom it sends to, fit the
\* subscriptions of its pipes.
PublisherExact == use = "pubsub" => P!PublisherExact

\* In the end the publisher knows the subscriptions of every subscriber, and
\* no others.
SubscriptionsConverge == <>[](use = "pubsub" => P!Converged)

\* Whatever fails, the broker's tables agree, no request is in two places, and
\* what is on its way to a client answers the last request of its socket.
AnswersMatch == use = "server" => D!AnswersMatch

\* In the end every worker is available and every client has made its calls,
\* unless an assertion on a reply has ended its process.
ServiceRestored == <>[](use = "server" => D!Restored)

\* What reaches a client waiting in send () is the reply to the request it
\* was called with (violated, see DataServer).
AnswersCurrent == use = "server" => D!AnswersCurrent

\* The reply names the service of the request (violated, see DataServer).
NoClientAborts == use = "server" => D!NoClientAborts
============================================================================
