---------------------------- MODULE DataServer ----------------------------
(***************************************************************************)
(* The data server of src/zguide/examples/gDataServer: a broker            *)
(* (mdbroker_GDS.cpp) between clients (mdcliapi.hpp, mdclient_GDS.cpp) and *)
(* workers (mdwrkapi_GDS.hpp, mdworker_GDS.cpp), each of which serves one  *)
(* project under a UUID.  Heartbeats, expiry, reconnection and the         *)
(* client's retries are there; messages can be late, and a connection can  *)
(* break and lose what it carries.                                         *)
(*                                                                         *)
(* A socket is a number, which is also the UUID of its project when it is  *)
(* a worker's.  Its identity is random, but from a generator that is       *)
(* seeded with the time in seconds just before: the sockets made in one    *)
(* second have one identity, which is the number of the first of them, and *)
(* the broker's ROUTER ignores a peer whose identity another has.          *)
(*                                                                         *)
(* Time is counted in heartbeat intervals, of more than a second: Tick     *)
(* marks every process due, and comes when all messages are dealt with,    *)
(* but for a bounded number of times.                                      *)
(***************************************************************************)
EXTENDS Integers, Sequences, SequencesExt, TLC

CONSTANTS
    Workers, Clients,
    Service,             \* name of the service of each worker
    HEARTBEAT_LIVENESS,  \* intervals of silence before the other is given up
    m_retries,           \* attempts of a client
    Calls,               \* the calls of mdclient_GDS's main, in order
    Setups               \* which workers there are, the client's first call,
                         \* and the bounds: ticks that come early, failures,
                         \* sockets made in the same second as another

VARIABLES
    broker,  \* the broker's tables
    wrk,     \* the workers
    cli,     \* the clients
    up,      \* per socket, messages on their way to the broker
    down,    \* per socket, messages on their way from it
    id,      \* per socket, its identity
    router,  \* the sockets whose identity the broker's ROUTER has accepted
    second,  \* the identity of sockets made this second (0: none was made)
    slow,    \* ticks that may still come before the work of the last is done
    faults,  \* failures that may still happen
    clashes  \* sockets that may still be made in the same second as another

names == <<id, router, second, clashes>>
vars == <<broker, wrk, cli, up, down, names, slow, faults>>

Services == {Service[w] : w \in Workers}
Virtual == "GDS.VIRTUAL_SERVICE"
Finished(c) == cli[c].call > Len(Calls)
Sockets == {wrk[w].socket : w \in DOMAIN wrk} \cup {cli[c].socket : c \in {c \in Clients : ~Finished(c)}}
Without(seq, ids) == SelectSeq(seq, LAMBDA i : i \notin ids)
Only(f, ids) == [i \in DOMAIN f \cap ids |-> f[i]]

----------------------------------------------------------------------------
\* The broker, in a record s with what it sends.  Its peers are identities.  A
\* ROUTER drops what is for one that no open socket has.
Send(s, i, m) ==
    IF \A k \in s.open : id[k] # i THEN s
    ELSE LET k == CHOOSE j \in s.open : id[j] = i IN [s EXCEPT !.down[k] = Append(@, m)]
Disconnect(s, i) == Send(s, i, [t |-> "DISCONNECT"])

\* (mutant) an expired worker stays in the list of its service.
DeletedButServed(s, ids) ==
    [s EXCEPT !.workers = Only(@, DOMAIN @ \ ids), !.waiting = Without(@, ids)]

\* worker_delete for a set of workers.
Deleted(s, ids) ==
    [s EXCEPT !.workers = Only(@, DOMAIN @ \ ids),
              !.waiting = Without(@, ids),
              !.served = [n \in Services |-> Without(@[n], ids)]]

purge_workers(s) == Deleted(s, {i \in Range(s.waiting) : s.workers[i].expiry = 0})

\* service_dispatch: the first waiting worker whose project has a request.
RECURSIVE DispatchAll(_, _)
DispatchAll(s, n) ==
    LET Ready(k) == s.workers[s.served[n][k]].uuid \in DOMAIN s.requests[n]
    IN  IF \A k \in DOMAIN s.served[n] : ~Ready(k) THEN s
        ELSE LET k == CHOOSE j \in DOMAIN s.served[n] : Ready(j) /\ \A h \in 1..(j - 1) : ~Ready(h)
                 i == s.served[n][k]
                 q == s.requests[n][s.workers[i].uuid]
                 rest == [u \in DOMAIN s.requests[n] \ (IF Len(q) = 1 THEN {s.workers[i].uuid} ELSE {})
                            |-> IF u = s.workers[i].uuid THEN Tail(q) ELSE s.requests[n][u]]
             IN  DispatchAll([Send(s, i, [t |-> "REQUEST", req |-> Head(q).req])
                                EXCEPT !.requests[n] = rest, !.waiting = Without(@, {i}),
                                       !.served[n] = RemoveAt(@, k)], n)

service_dispatch(s, n) == DispatchAll(purge_workers(s), n)

worker_waiting(s, i) ==
    LET n == s.workers[i].service
    IN  service_dispatch([s EXCEPT !.waiting = Append(@, i), !.served[n] = Append(@, i),
                                   !.workers[i].expiry = HEARTBEAT_LIVENESS], n)

\* worker_process
WorkerReady(s, i, m) ==
    IF i \in DOMAIN s.workers THEN Deleted(Disconnect(s, i), {i})
    ELSE worker_waiting(
            [s EXCEPT !.workers = @ @@ (i :> [uuid |-> m.uuid, service |-> m.service, expiry |-> 0])], i)

WorkerReplied(s, i, m) ==
    IF i \notin DOMAIN s.workers THEN Disconnect(s, i)
    ELSE worker_waiting(Send(s, m.req.to, [t |-> "ANSWER", service |-> s.workers[i].service,
                                             req |-> m.req, ok |-> TRUE, list |-> {}]), i)

WorkerBeat(s, i) ==
    IF i \notin DOMAIN s.workers THEN Disconnect(s, i)
    ELSE [s EXCEPT !.workers[i].expiry = HEARTBEAT_LIVENESS]

\* client_process: the virtual service answers at once, the others queue.
\* GMT_OPEN_PROJECT succeeds as soon as there is a worker: the comparison of
\* the UUIDs is an expression statement.
Projects(s) == {[service |-> s.workers[j].service, uuid |-> s.workers[j].uuid] : j \in DOMAIN s.workers}

service_virtual(s, i, m) ==
    Send(s, i, [t |-> "ANSWER", service |-> Virtual, req |-> m.req,
                ok |-> Calls[m.req.call] = "open" => Projects(s) # {},
                list |-> IF Calls[m.req.call] = "info" THEN Projects(s) ELSE {}])

client_process(s, i, m) ==
    LET old == IF m.uuid \in DOMAIN s.requests[m.service] THEN s.requests[m.service][m.uuid] ELSE <<>>
    IN  IF m.service = Virtual THEN service_virtual(s, i, m)
        ELSE service_dispatch([s EXCEPT !.requests[m.service] =
                                  (m.uuid :> Append(old, [m EXCEPT !.req.to = i])) @@ @],
                              m.service)

Processed(s, i, m) ==
    CASE m.t = "READY" -> WorkerReady(s, i, m)
      [] m.t = "REPLY" -> WorkerReplied(s, i, m)
      [] m.t = "HEARTBEAT" -> WorkerBeat(s, i)
      [] m.t = "CLIENT" -> client_process(s, i, m)

\* The end of an iteration of start_brokering, when heartbeats are due.
Beaten(s) ==
    LET p == purge_workers(s)
    IN  IF ~s.due THEN s
        ELSE [FoldLeft(LAMBDA x, i : Send(x, i, [t |-> "HEARTBEAT"]), p, p.waiting)
                EXCEPT !.due = FALSE]

State == broker @@ [down |-> down, open |-> Sockets \cap router]
Does(s) == /\ broker' = [f \in DOMAIN broker |-> s[f]]
           /\ down' = s.down

BrokerReceives(i) ==
    /\ up[i] # <<>>
    /\ Does(Beaten(Processed(State, id[i], Head(up[i]))))
    /\ up' = [up EXCEPT ![i] = Tail(@)]
    /\ UNCHANGED <<wrk, cli, names, slow, faults>>

BrokerTimer ==
    /\ broker.due /\ Does(Beaten(State))
    /\ UNCHANGED <<wrk, cli, up, names, slow, faults>>
----------------------------------------------------------------------------
New == Len(up) + 1

\* A socket is closed (linger 0: what it has not sent may be lost) and
\* another is made, with an identity k and a first message m of its own.
Replaced(i, k, kept, accepted, m) ==
    /\ up' = Append([up EXCEPT ![i] = kept], IF accepted THEN <<m>> ELSE <<>>)
    /\ down' = Append([down EXCEPT ![i] = <<>>], <<>>)
    /\ id' = Append(id, k)
    /\ router' = IF accepted THEN router \cup {New} ELSE router

\* The identity is new ...
Fresh(i, m) ==
    /\ \E kept \in {up[i], <<>>} : Replaced(i, New, kept, TRUE, m)
    /\ second' = IF clashes > 0 THEN New ELSE 0
    /\ UNCHANGED clashes

\* ... or that of the other sockets of this second.  It is ignored if one of
\* them is open, or closed without the ROUTER having noticed, which it has
\* only when it has no message left of it.
SameSecond(i, m) ==
    LET holders == {j \in router : id[j] = second}
    IN  /\ clashes > 0 /\ second # 0
        /\ \E kept \in {up[i], <<>>}, accepted \in BOOLEAN :
              /\ accepted => /\ holders \cap Sockets \subseteq {i}
                             /\ \A j \in holders : (IF j = i THEN kept ELSE up[j]) = <<>>
              /\ Replaced(i, second, kept, accepted, m)
        /\ clashes' = clashes - 1
        /\ second' = IF clashes = 1 THEN 0 ELSE second

Reconnected(i, m) == Fresh(i, m) \/ SameSecond(i, m)

\* connect_to_broker of a worker.
Connected(w) ==
    /\ Reconnected(wrk[w].socket, [t |-> "READY", service |-> Service[w], uuid |-> New])
    /\ wrk' = [wrk EXCEPT ![w] = [socket |-> New, m_liveness |-> HEARTBEAT_LIVENESS,
                                  heard |-> TRUE, due |-> FALSE, job |-> <<>>]]

Beats(w) == IF wrk[w].due THEN <<[t |-> "HEARTBEAT"]>> ELSE <<>>
\* What a socket sends that the ROUTER ignores is never read.
ToBroker(i, ms) ==
    /\ up' = IF i \in router THEN [up EXCEPT ![i] = @ \o ms] ELSE up
    /\ UNCHANGED names

\* recv of the worker: a message, and the heartbeat if it is time.  An
\* assertion ends the worker when it gets what was for a client.
WorkerReceives(w) ==
    LET i == wrk[w].socket
        m == Head(down[i])
    IN  /\ wrk[w].job = <<>> /\ down[i] # <<>>
        /\ \/ /\ m.t = "DISCONNECT" /\ Connected(w)
           \/ /\ m.t = "HEARTBEAT" /\ ToBroker(i, Beats(w))
              /\ wrk' = [wrk EXCEPT ![w].m_liveness = HEARTBEAT_LIVENESS, ![w].heard = TRUE,
                                    ![w].due = FALSE]
              /\ down' = [down EXCEPT ![i] = Tail(@)]
           \/ /\ m.t \in {"REQUEST", "ANSWER"}
              /\ wrk' = IF m.t = "ANSWER" THEN Only(wrk, DOMAIN wrk \ {w})
                        ELSE [wrk EXCEPT ![w].m_liveness = HEARTBEAT_LIVENESS, ![w].heard = TRUE,
                                         ![w].job = <<m.req>>]
              /\ down' = [down EXCEPT ![i] = Tail(@)]
              /\ UNCHANGED <<up, names>>
        /\ UNCHANGED <<broker, cli, slow, faults>>

\* (mutant) Silence does not count.
TimedOutNever(w) == wrk[w].m_liveness
\* recv of the worker: its poll times out.
TimedOut(w) ==
    IF wrk[w].heard THEN wrk[w].m_liveness ELSE wrk[w].m_liveness - 1

WorkerTimer(w) ==
    /\ wrk[w].job = <<>> /\ wrk[w].due /\ down[wrk[w].socket] = <<>>
    /\ \/ TimedOut(w) = 0 /\ Connected(w)
       \/ /\ TimedOut(w) > 0 /\ ToBroker(wrk[w].socket, Beats(w))
          /\ wrk' = [wrk EXCEPT ![w].m_liveness = TimedOut(w), ![w].heard = FALSE, ![w].due = FALSE]
          /\ UNCHANGED down
    /\ UNCHANGED <<broker, cli, slow, faults>>

\* (mutant) The worker keeps the request, and its reply is sent again.
WorkerRepliesAgain(w) ==
    /\ wrk[w].job # <<>> /\ up[wrk[w].socket] = <<>>
    /\ ToBroker(wrk[w].socket, <<[t |-> "REPLY", req |-> wrk[w].job[1]]>>)
    /\ UNCHANGED <<broker, wrk, cli, down, slow, faults>>
\* The worker has done the request: recv sends the reply.
WorkerReplies(w) ==
    /\ wrk[w].job # <<>>
    /\ ToBroker(wrk[w].socket, <<[t |-> "REPLY", req |-> wrk[w].job[1]]>>)
    /\ wrk' = [wrk EXCEPT ![w].job = <<>>]
    /\ UNCHANGED <<broker, cli, down, slow, faults>>

----------------------------------------------------------------------------
\* The client: its calls one by one.  A REQ socket that waits for a reply
\* (sent # 0) refuses to send, which zmsg::send passes over in silence.
Needs(c) == Calls[cli[c].call] \in {"open", "lock"}
Message(c, i) ==
    [t |-> "CLIENT", req |-> [from |-> i, call |-> cli[c].call, to |-> 0]]
    @@ (IF Calls[cli[c].call] = "lock" THEN cli[c].project[1] ELSE [service |-> Virtual])

\* (mutant) The socket sends a request before it has the last reply.
SendsAnyway(c) == <<Message(c, cli[c].socket)>>
Sends(c) == IF cli[c].sent = 0 THEN <<Message(c, cli[c].socket)>> ELSE <<>>
SentNow(c) == IF cli[c].sent = 0 THEN cli[c].call ELSE cli[c].sent

ClientSends(c) ==
    /\ ~cli[c].waiting /\ ~Finished(c)
    /\ IF Needs(c) /\ cli[c].project = <<>>
       THEN cli' = [cli EXCEPT ![c].call = @ + 1] /\ UNCHANGED <<up, names>>
       ELSE /\ cli' = [cli EXCEPT ![c].waiting = TRUE, ![c].retries_left = m_retries,
                                  ![c].due = FALSE, ![c].sent = SentNow(c)]
            /\ ToBroker(cli[c].socket, Sends(c))
    /\ UNCHANGED <<broker, wrk, down, slow, faults>>

\* The reply names the service, without the UUID the request had in its name:
\* send's assertion then ends the client, as it does when the client gets what
\* was for a worker.
Named(m) == IF "uuid" \in DOMAIN m THEN <<m.service, m.uuid>> ELSE <<m.service>>

\* GetProjectList: the first of the projects in the broker's order, which is
\* any, is the one the client opens and locks.
ProjectsAfter(c, m) ==
    IF Calls[cli[c].call] = "info" /\ m.list # {} THEN {<<p>> : p \in m.list} ELSE {cli[c].project}

ClientReceives(c) ==
    LET i == cli[c].socket
        m == Head(down[i])
    IN  /\ cli[c].waiting /\ down[i] # <<>>
        /\ down' = [down EXCEPT ![i] = Tail(@)]
        /\ IF m.t # "ANSWER" \/ Named(m) # Named(Message(c, i))
           THEN cli' = [cli EXCEPT ![c].aborted = TRUE, ![c].waiting = FALSE,
                                   ![c].call = Len(Calls) + 1, ![c].sent = 0]
           ELSE \E p \in ProjectsAfter(c, m) :
                   cli' = [cli EXCEPT ![c].waiting = FALSE, ![c].sent = 0, ![c].call = @ + 1,
                                      ![c].project = p]
        /\ UNCHANGED <<broker, wrk, up, names, slow, faults>>

\* No reply in time: again over another socket, or give up and keep this one.
ClientTimer(c) ==
    LET left == cli[c].retries_left - 1
    IN  /\ cli[c].waiting /\ cli[c].due /\ down[cli[c].socket] = <<>>
        /\ \/ /\ left > 0
              /\ Reconnected(cli[c].socket, Message(c, New))
              /\ cli' = [cli EXCEPT ![c].retries_left = left, ![c].socket = New,
                                    ![c].sent = cli[c].call, ![c].due = FALSE]
           \/ /\ left = 0
              /\ cli' = [cli EXCEPT ![c].waiting = FALSE, ![c].call = @ + 1]
              /\ UNCHANGED <<up, down, names>>
        /\ UNCHANGED <<broker, wrk, slow, faults>>
----------------------------------------------------------------------------
\* Failures: a connection breaks and loses what it carries (the sockets
\* reconnect by themselves under the same identity, which the ROUTER accepts
\* when no other has it), a worker's process or the broker's is restarted.
Fails == faults > 0 /\ faults' = faults - 1
Rivals(i) == {j \in DOMAIN id \ {i} : id[j] = id[i] /\ (j \in Sockets \/ up[j] # <<>>)}

Drop(i) ==
    /\ Fails
    /\ IF i \in router THEN <<up[i], down[i]>> # <<<<>>, <<>>>> ELSE i \in Sockets
    /\ up' = [up EXCEPT ![i] = <<>>] /\ down' = [down EXCEPT ![i] = <<>>]
    /\ router' = IF Rivals(i) \cap router = {} THEN router \cup {i} ELSE router
    /\ UNCHANGED <<broker, wrk, cli, id, second, slow, clashes>>

WorkerRestarts(w) ==
    /\ Fails /\ Connected(w)
    /\ UNCHANGED <<broker, cli, slow>>

NewBroker ==
    [workers |-> <<>>, waiting |-> <<>>, served |-> [n \in Services |-> <<>>],
     requests |-> [n \in Services |-> <<>>], due |-> FALSE]

BrokerRestarts ==
    /\ Fails /\ broker' = NewBroker
    /\ up' = [i \in DOMAIN up |-> <<>>] /\ down' = [i \in DOMAIN down |-> <<>>]
    /\ router' \in {R \in SUBSET Sockets :
                       \A i \in Sockets : i \in R <=> Rivals(i) \cap R = {}}
    /\ UNCHANGED <<wrk, cli, id, second, slow, clashes>>

\* A heartbeat interval passes.
Settled ==
    /\ \A i \in DOMAIN up : up[i] = <<>> /\ (i \in Sockets => down[i] = <<>>)
    /\ ~broker.due
    /\ \A w \in DOMAIN wrk : ~wrk[w].due /\ wrk[w].job = <<>>
    /\ \A c \in Clients : IF cli[c].waiting THEN ~cli[c].due ELSE Finished(c)

Tick ==
    /\ \/ Settled /\ UNCHANGED slow
       \/ ~Settled /\ slow > 0 /\ slow' = slow - 1
    /\ broker' = [broker EXCEPT !.due = TRUE,
                     !.workers = [i \in DOMAIN @ |-> [@[i] EXCEPT !.expiry = IF @ = 0 THEN 0 ELSE @ - 1]]]
    /\ wrk' = [w \in DOMAIN wrk |-> [wrk[w] EXCEPT !.due = TRUE]]
    /\ cli' = [c \in Clients |-> [cli[c] EXCEPT !.due = cli[c].waiting]]
    /\ second' = 0
    /\ UNCHANGED <<up, down, id, router, faults, clashes>>

----------------------------------------------------------------------------
\* Every worker has connected and sent READY, every client has its socket; of
\* those made in the same second the ROUTER has accepted one.  A client that
\* has its first calls behind it made them when no project was there.
Init ==
    \E setup \in Setups :
        LET order == SetToSeq(setup.workers) \o SetToSeq(Clients)
            Of(x) == CHOOSE k \in DOMAIN order : order[k] = x
        IN  /\ broker = NewBroker
            /\ wrk = [w \in setup.workers |->
                        [socket |-> Of(w), m_liveness |-> HEARTBEAT_LIVENESS, heard |-> TRUE,
                         due |-> FALSE, job |-> <<>>]]
            /\ cli = [c \in Clients |->
                        [socket |-> Of(c), call |-> setup.first, waiting |-> FALSE, sent |-> 0,
                         retries_left |-> 0, due |-> FALSE, project |-> <<>>, aborted |-> FALSE]]
            /\ id \in [DOMAIN order -> DOMAIN order]
            /\ \A k \in DOMAIN order : id[id[k]] = id[k]
            /\ clashes = setup.clashes - Cardinality({k \in DOMAIN order : id[k] # k})
            /\ clashes >= 0
            /\ router \in {R \in SUBSET DOMAIN order :
                              \A k \in DOMAIN order : Cardinality({j \in R : id[j] = id[k]}) = 1}
            /\ second \in IF clashes > 0 THEN Range(id) ELSE {0}
            /\ up = [k \in DOMAIN order |->
                        IF order[k] \in Clients \/ k \notin router THEN <<>>
                        ELSE <<[t |-> "READY", service |-> Service[order[k]], uuid |-> k]>>]
            /\ down = [k \in DOMAIN order |-> <<>>]
            /\ slow = setup.slow /\ faults = setup.faults

Next ==
    \/ BrokerTimer \/ BrokerRestarts \/ Tick
    \/ \E i \in DOMAIN up : BrokerReceives(i) \/ Drop(i)
    \/ \E w \in DOMAIN wrk : WorkerReceives(w) \/ WorkerTimer(w) \/ WorkerReplies(w) \/ WorkerRestarts(w)
    \/ \E c \in Clients : ClientSends(c) \/ ClientReceives(c) \/ ClientTimer(c)

\* Time goes on, and a tick waits for the work of the last one but slow
\* times: the processes poll with a timeout and never block otherwise.
Spec == Init /\ [][Next]_vars /\ []<><<Tick>>_vars

----------------------------------------------------------------------------
\* The broker's two kinds of waiting list agree with one another and with its
\* table of workers (purge_workers reads m_waiting, service_dispatch reads the
\* service's list and m_workers owns the object both point to); a worker with
\* a request is in neither; and no request waits while its worker does.
BrokerConsistent ==
    /\ IsInjective(broker.waiting)
    /\ Range(broker.waiting) \subseteq DOMAIN broker.workers
    /\ \A n \in Services :
          broker.served[n] = SelectSeq(broker.waiting, LAMBDA i : broker.workers[i].service = n)
    /\ \A i \in Range(broker.waiting) :
          LET known == broker.workers[i]
          IN  /\ known.uuid \notin DOMAIN broker.requests[known.service]
              /\ \A k \in {k \in router : id[k] = i} :
                    /\ \A m \in Range(down[k]) : m.t # "REQUEST"
                    /\ \A m \in Range(up[k]) : m.t # "REPLY"
                    /\ \A w \in DOMAIN wrk : wrk[w].socket = k => wrk[w].job = <<>>

\* A request a client has sent is in one place at most, from the client's
\* socket through the broker's queue, the worker and back.
Places(r) ==
    LET Same(x) == x.from = r.from /\ x.call = r.call
        In(q) == UNION {{<<i, k>> : k \in {k \in DOMAIN q[i] : "req" \in DOMAIN q[i][k] /\ Same(q[i][k].req)}}
                          : i \in DOMAIN q}
    IN  [up |-> In(up), down |-> In(down),
         queues |-> UNION {{<<n, p>> : p \in In(broker.requests[n])} : n \in Services},
         jobs |-> {w \in DOMAIN wrk : wrk[w].job # <<>> /\ Same(wrk[w].job[1])}]

Requests == [from : DOMAIN up, call : 1..Len(Calls)]
JobsUnique ==
    \A r \in Requests : LET p == Places(r)
                        IN  Cardinality(p.up) + Cardinality(p.down) + Cardinality(p.queues)
                            + Cardinality(p.jobs) <= 1

\* No failure, expiry, reconnection or clash of identities mixes requests up.
\* The broker's tables agree; one request is never in two places; and what is
\* on its way to the socket a client holds is the reply, one, to the last
\* request sent over that socket: a late reply to an attempt that the client
\* gave up by reconnecting never gets there.  Whether that request is the one
\* the client is waiting for is the question of AnswersCurrent.
AnswersMatch ==
    /\ BrokerConsistent
    /\ JobsUnique
    /\ \A c \in Clients :
          LET q == SelectSeq(down[cli[c].socket], LAMBDA m : m.t = "ANSWER")
          IN  q # <<>> => /\ Len(q) = 1
                          /\ q[1].req.from = cli[c].socket /\ q[1].req.call = cli[c].sent

\* What reaches a client that waits in send () is the reply to the request it
\* was called with ("Send request to broker and get reply by hook or crook ...
\* Returns the reply message or NULL if there was no reply").
AnswersCurrent ==
    \A c \in Clients :
        cli[c].waiting => \A m \in Range(down[cli[c].socket]) :
                             m.t = "ANSWER" => m.req.call = cli[c].call

\* Whatever fails, in the end each worker is at the broker's disposal again
\* and each client has come to the end of its calls, or of its process
\* where an assertion on the reply ended it (NoClientAborts).
Restored ==
    /\ \A w \in DOMAIN wrk : /\ wrk[w].socket \in router
                             /\ id[wrk[w].socket] \in Range(broker.waiting)
    /\ \A c \in Clients : Finished(c)
ServiceRestored == <>[]Restored

\* send asserts that the reply names the service of the request.
NoClientAborts == \A c \in Clients : ~cli[c].aborted
============================================================================
