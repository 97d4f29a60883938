------------------------------ MODULE Session ------------------------------
(***************************************************************************)
(* session_base_t (session_base.cpp) between a socket and an engine: it    *)
(* starts connecters, takes the engines they make, reconnects when an      *)
(* engine fails, and at the end holds the socket up for the linger period  *)
(* while messages are still in its pipe.  The socket, the session and its  *)
(* connecters run in three threads.                                        *)
(*                                                                         *)
(* The session terminates by the rules of Own, and its pipes by those of   *)
(* Pipe.  From Own we take launch_child () as one step.  From Pipe we take *)
(* that a reader with something to read is woken up, so that an end can    *)
(* read whatever has been written.  Messages to the socket, the zap pipe,  *)
(* the multicast transports and the hiccup of SUB sockets are left out.    *)
(***************************************************************************)
EXTENDS Integers, Sequences, FiniteSets, SequencesExt

CONSTANTS
    Options,     \* the options of the socket, and who connects: active,
                 \* immediate, reconnects (reconnect_ivl is not -1),
                 \* raw_sock and linger
    Connecters,  \* at most so many are launched
    NoOne,       \* the NULL pointer
    MaxSends     \* how many messages the application sends

ASSUME SessionAssumption ==
    /\ Options \subseteq [active : BOOLEAN, immediate : BOOLEAN,
                          reconnects : BOOLEAN, raw_sock : BOOLEAN,
                          linger : {"zero", "finite", "infinite"}]
    /\ MaxSends \in Nat

VARIABLES
    options,     \* the same in the whole behaviour
    session,     \* the fields of the session
    socket,      \* what matters of the socket
    pipe,        \* the pipes between the two, numbered
    connecter,   \* the state of each connecter
    mailbox,     \* the commands on their way to each of the three threads
    aborted,     \* the assertion that has failed
    sends        \* messages the application has sent

vars == <<options, session, socket, pipe, connecter, mailbox, aborted, sends>>

Ends == {"session", "socket"}
Peer(e) == IF e = "session" THEN "socket" ELSE "session"

\* Both ends delay their termination until the delimiter, unless told not to.
NewPipe ==
    [state |-> [e \in Ends |-> "active"], delay |-> [e \in Ends |-> TRUE],
     queue |-> [e \in Ends |-> <<>>], hiccuped |-> FALSE]

\* connect () makes the pipe unless ZMQ_IMMEDIATE is set; a listener makes
\* none, and sends the engine along.
Init ==
    /\ options \in Options
    /\ LET early == options.active /\ ~options.immediate IN
       /\ pipe = IF early THEN <<NewPipe>> ELSE <<>>
       /\ socket = [owned |-> TRUE, terminating |-> FALSE, endpoint |-> TRUE,
                    pipe |-> IF early THEN 1 ELSE NoOne,
                    pipes |-> IF early THEN {1} ELSE {}]
       /\ session =
            [exists |-> TRUE, pipe |-> IF early THEN 1 ELSE NoOne,
             terminating_pipes |-> {}, engine |-> FALSE, pending |-> FALSE,
             has_linger_timer |-> FALSE, incomplete_in |-> FALSE,
             owned |-> {}, terminating |-> FALSE, term_acks |-> 0,
             sent_seqnum |-> IF options.active THEN 1 ELSE 2,
             processed_seqnum |-> 0]
    /\ connecter = [c \in Connecters |-> "none"]
    /\ mailbox =
         [t \in {"socket", "session", "connecter"} |->
            IF t # "session" THEN <<>>
            ELSE <<[type |-> "plug", arg |-> NoOne]>> \o
                 (IF options.active THEN <<>> ELSE <<[type |-> "attach", arg |-> NoOne]>>)]
    /\ aborted = "none"
    /\ sends = 0

---------------------------------------------------------------------------
(* The methods are operators on the state w of everything.                 *)

World ==
    [session |-> session, socket |-> socket, pipe |-> pipe,
     connecter |-> connecter, mailbox |-> mailbox, aborted |-> aborted]
Install(w) ==
    /\ session' = w.session /\ socket' = w.socket /\ pipe' = w.pipe
    /\ connecter' = w.connecter /\ mailbox' = w.mailbox /\ aborted' = w.aborted
    /\ UNCHANGED options

\* send_command ()
Send(w, thread, type, arg) ==
    [w EXCEPT !.mailbox[thread] = Append(@, [type |-> type, arg |-> arg])]
Abort(w, assertion) == [w EXCEPT !.aborted = assertion]

---------------------------------------------------------------------------
(* pipe_t, end e of pipe p                                                 *)

Readable(w, p, e) ==
    /\ w.pipe[p].state[e] \in {"active", "waiting_for_delimiter"}
    /\ w.pipe[p].queue[e] # <<>>
Dropped(w, p, e) == [w EXCEPT !.pipe[p].queue[e] = Tail(@)]

\* What is written while a hiccup is on its way is lost with the old ypipe.
WriteDelimiter(w, p, e) ==
    IF e = "socket" /\ w.pipe[p].hiccuped THEN w
    ELSE [w EXCEPT !.pipe[p].queue[Peer(e)] = Append(@, "delimiter")]

ToState(w, p, e, state) == [w EXCEPT !.pipe[p].state[e] = state]
Acked(w, p, e, state) ==
    Send(ToState(w, p, e, state), Peer(e), "pipe_term_ack", p)

\* terminate (delay_)
PipeTerminate(w, p, e, delay) ==
    LET v == [w EXCEPT !.pipe[p].delay[e] = delay]
        state == w.pipe[p].state[e]
    IN  CASE state \in {"active", "delimiter_received"} ->
               WriteDelimiter(Send(ToState(v, p, e, "term_req_sent1"),
                                   Peer(e), "pipe_term", p), p, e)
          [] state = "waiting_for_delimiter" /\ ~delay -> Acked(v, p, e, "term_ack_sent")
          [] state = "waiting_for_delimiter" /\ delay -> WriteDelimiter(v, p, e)
          [] OTHER -> v

\* process_pipe_term ()
ProcessPipeTerm(w, p, e) ==
    CASE w.pipe[p].state[e] = "active" /\ w.pipe[p].delay[e] ->
            ToState(w, p, e, "waiting_for_delimiter")
      [] w.pipe[p].state[e] = "term_req_sent1" -> Acked(w, p, e, "term_req_sent2")
      [] OTHER -> Acked(w, p, e, "term_ack_sent")

\* process_delimiter ()
ProcessDelimiter(w, p, e) ==
    IF w.pipe[p].state[e] = "active" THEN ToState(w, p, e, "delimiter_received")
    ELSE Acked(w, p, e, "term_ack_sent")

\* check_read ()
CheckRead(w, p, e) ==
    IF Readable(w, p, e) /\ Head(w.pipe[p].queue[e]) = "delimiter"
    THEN ProcessDelimiter(Dropped(w, p, e), p, e)
    ELSE w

\* hiccup (), by the session
Hiccup(w, p) ==
    IF w.pipe[p].state["session"] # "active" THEN w
    ELSE Send([w EXCEPT !.pipe[p].queue["session"] = <<>>,
                        !.pipe[p].hiccuped = TRUE], "socket", "hiccup", p)

---------------------------------------------------------------------------
(* session_base_t and the own_t it is built on                             *)

\* check_term_acks () and ~session_base_t ()
CheckTermAcks(w) ==
    LET s == w.session IN
    IF s.terminating /\ s.sent_seqnum = s.processed_seqnum /\ s.term_acks = 0
    THEN Send([w EXCEPT !.session.exists = FALSE,
                        !.session.has_linger_timer = FALSE,
                        !.session.engine = FALSE], "socket", "term_ack", NoOne)
    ELSE w

ProcessSeqnum(w) ==
    CheckTermAcks([w EXCEPT !.session.processed_seqnum = @ + 1])

\* own_t::process_term ()
OwnProcessTerm(w) ==
    CheckTermAcks(
        [w EXCEPT
            !.mailbox["connecter"] = @ \o
                [i \in 1..Cardinality(w.session.owned) |->
                    [type |-> "term", arg |-> SetToSeq(w.session.owned)[i]]],
            !.session.term_acks = @ + Cardinality(w.session.owned),
            !.session.owned = {},
            !.session.terminating = TRUE])

\* own_t::terminate ()
Terminate(w) ==
    IF w.session.terminating THEN w ELSE Send(w, "socket", "term_req", NoOne)

\* start_connecting (), with launch_child ()
StartConnecting(w) ==
    LET c == CHOOSE x \in Connecters : w.connecter[x] = "none"
    IN  Send(Send([w EXCEPT !.connecter[c] = "launched",
                            !.session.sent_seqnum = @ + 1],
                  "connecter", "plug", c), "session", "own", c)

\* process_own () and process_term_req () for connecter c
ProcessOwn(w, c) ==
    IF w.session.terminating
    THEN Send([w EXCEPT !.session.term_acks = @ + 1], "connecter", "term", c)
    ELSE [w EXCEPT !.session.owned = @ \cup {c}]
ProcessTermReq(w, c) ==
    IF w.session.terminating \/ c \notin w.session.owned THEN w
    ELSE Send([w EXCEPT !.session.owned = @ \ {c}, !.session.term_acks = @ + 1],
              "connecter", "term", c)

\* process_term_ack ()
ProcessTermAck(w) == CheckTermAcks([w EXCEPT !.session.term_acks = @ - 1])

\* process_attach (): there is a pipe, or the session makes one.
ProcessAttach(w) ==
    LET p == Len(w.pipe) + 1
        piped == Send([w EXCEPT !.pipe = Append(@, NewPipe),
                                !.session.pipe = p], "socket", "bind", p)
        v == IF w.session.pipe = NoOne /\ ~w.session.terminating THEN piped ELSE w
    IN  IF w.session.engine THEN Abort(w, "engine")
        ELSE [v EXCEPT !.session.engine = TRUE]

\* (mutant) The pipes that were given up are not waited for.
DetachedFromCurrent(s) == s.pipe = NoOne
Detached(s) == s.pipe = NoOne /\ s.terminating_pipes = {}

\* (mutants) A negative linger period counts as none; no timer is set.
ProcessTermImpatient(w) ==
    LET p == w.session.pipe
        v == [w EXCEPT !.session.pending = TRUE,
                       !.session.has_linger_timer =
                            p # NoOne /\ options.linger = "finite"]
    IN  IF w.session.pending THEN Abort(w, "pending")
        ELSE IF Detached(w.session) THEN OwnProcessTerm(w)
        ELSE IF p = NoOne THEN v
        ELSE CheckRead(PipeTerminate(v, p, "session", options.linger = "finite"),
                       p, "session")
ProcessTermUntimed(w) ==
    LET p == w.session.pipe
        v == [w EXCEPT !.session.pending = TRUE]
    IN  IF w.session.pending THEN Abort(w, "pending")
        ELSE IF Detached(w.session) THEN OwnProcessTerm(w)
        ELSE IF p = NoOne THEN v
        ELSE CheckRead(PipeTerminate(v, p, "session", options.linger # "zero"),
                       p, "session")
\* process_term (linger_)
ProcessTerm(w) ==
    LET p == w.session.pipe
        v == [w EXCEPT !.session.pending = TRUE,
                       !.session.has_linger_timer =
                            p # NoOne /\ options.linger = "finite"]
    IN  IF w.session.pending THEN Abort(w, "pending")
        ELSE IF Detached(w.session) THEN OwnProcessTerm(w)
        ELSE IF p = NoOne THEN v
        ELSE CheckRead(PipeTerminate(v, p, "session", options.linger # "zero"),
                       p, "session")

\* (mutant) A session that waits for its pipes does not go on when they are gone.
SessionPipeTerminatedWaits(w, p) ==
    LET current == w.session.pipe = p
        v == [w EXCEPT !.session.pipe = IF current THEN NoOne ELSE @,
                       !.session.has_linger_timer = @ /\ ~current,
                       !.session.terminating_pipes = @ \ {p}]
    IN  IF ~v.session.terminating /\ options.raw_sock
        THEN Terminate([v EXCEPT !.session.engine = FALSE]) ELSE v
\* pipe_terminated (pipe_)
SessionPipeTerminated(w, p) ==
    LET current == w.session.pipe = p
        v == [w EXCEPT !.session.pipe = IF current THEN NoOne ELSE @,
                       !.session.has_linger_timer = @ /\ ~current,
                       !.session.terminating_pipes = @ \ {p}]
        u == IF ~v.session.terminating /\ options.raw_sock
             THEN Terminate([v EXCEPT !.session.engine = FALSE]) ELSE v
    IN  IF ~current /\ p \notin w.session.terminating_pipes
        THEN Abort(w, "pipe_terminated")
        ELSE IF u.session.pending /\ Detached(u.session)
        THEN OwnProcessTerm([u EXCEPT !.session.pending = FALSE])
        ELSE u

\* clean_pipes (): the rest of a half-read message is read and dropped.
CleanPipes(w) ==
    LET p == w.session.pipe
        q == w.pipe[p].queue["session"]
        end == CHOOSE i \in DOMAIN q : q[i] = "last" /\ \A j \in 1..i - 1 : q[j] # "last"
    IN  IF p = NoOne \/ ~w.session.incomplete_in THEN w
        ELSE IF ~Readable(w, p, "session") THEN Abort(w, "clean_pipes")
        ELSE [w EXCEPT !.session.incomplete_in = FALSE,
                       !.pipe[p].queue["session"] = SubSeq(@, end + 1, Len(@))]

\* reconnect ()
Reconnect(w) ==
    LET p == w.session.pipe
        given_up == PipeTerminate(Hiccup(w, p), p, "session", FALSE)
        v == IF p = NoOne \/ ~options.immediate THEN w
             ELSE [given_up EXCEPT !.session.pipe = NoOne,
                                   !.session.terminating_pipes = @ \cup {p}]
    IN  IF options.reconnects THEN StartConnecting(v) ELSE v

\* engine_error (reason)
EngineError(w, reason) ==
    LET v == CleanPipes([w EXCEPT !.session.engine = FALSE])
        u == IF options.active /\ reason # "protocol_error" THEN Reconnect(v)
             ELSE Terminate(v)
    IN  IF v.aborted # "none" THEN v
        ELSE IF u.session.pipe = NoOne THEN u
        ELSE CheckRead(u, u.session.pipe, "session")

---------------------------------------------------------------------------
(* socket_base_t                                                           *)

\* attach_pipe ()
AttachPipe(w, p) ==
    LET v == [w EXCEPT !.socket.pipes = @ \cup {p}]
    IN  IF w.socket.terminating THEN PipeTerminate(v, p, "socket", FALSE) ELSE v

\* pipe_t::process_hiccup () and hiccuped ()
ProcessHiccup(w, p) ==
    LET v == [w EXCEPT !.pipe[p].hiccuped = FALSE]
    IN  IF v.pipe[p].state["socket"] = "active" /\ options.immediate
        THEN PipeTerminate(v, p, "socket", FALSE) ELSE v

\* (mutant) A session that has been asked is asked again.
TermChildAgain(w) ==
    IF w.socket.terminating THEN w
    ELSE Send([w EXCEPT !.socket.owned = FALSE], "session", "term", NoOne)
\* term_child (session), also as process_term_req ()
TermChild(w) ==
    IF w.socket.terminating \/ ~w.socket.owned THEN w
    ELSE Send([w EXCEPT !.socket.owned = FALSE], "session", "term", NoOne)

\* process_term ()
SocketProcessTerm(w) ==
    LET asked == FoldSet(LAMBDA p, v : PipeTerminate(v, p, "socket", FALSE),
                         w, w.socket.pipes)
    IN  [TermChild(asked) EXCEPT !.socket.terminating = TRUE]

\* term_endpoint (): the session and the pipe are those that were made then.
TermEndpoint(w) ==
    LET p == w.socket.pipe
        v == [w EXCEPT !.socket.endpoint = FALSE]
    IN  IF p = NoOne THEN TermChild(v)
        ELSE IF w.pipe[p].state["socket"] = "gone" THEN Abort(v, "dangling")
        ELSE TermChild(PipeTerminate(v, p, "socket", FALSE))

---------------------------------------------------------------------------
(* The threads                                                             *)

\* pipe_t::process_pipe_term_ack ()
ProcessPipeTermAck(w, p, e) ==
    LET v == IF e = "session" THEN SessionPipeTerminated(w, p)
             ELSE [w EXCEPT !.socket.pipes = @ \ {p}]
    IN  IF w.pipe[p].state[e] = "term_req_sent1" THEN Acked(v, p, e, "gone")
        ELSE ToState(v, p, e, "gone")

ProcessPipeCommand(w, cmd, e) ==
    IF cmd.type = "pipe_term" THEN ProcessPipeTerm(w, cmd.arg, e)
    ELSE ProcessPipeTermAck(w, cmd.arg, e)

Received(t) == [World EXCEPT !.mailbox[t] = Tail(@)]
Runs == aborted = "none"

SessionProcess ==
    /\ Runs /\ mailbox["session"] # <<>>
    /\ LET w == Received("session")
           cmd == Head(mailbox["session"])
       IN Install(
            CASE cmd.type = "plug" ->
                    ProcessSeqnum(IF options.active THEN StartConnecting(w) ELSE w)
              [] cmd.type = "own" -> ProcessSeqnum(ProcessOwn(w, cmd.arg))
              [] cmd.type = "attach" -> ProcessSeqnum(ProcessAttach(w))
              [] cmd.type = "term_req" -> ProcessTermReq(w, cmd.arg)
              [] cmd.type = "term" -> ProcessTerm(w)
              [] cmd.type = "term_ack" -> ProcessTermAck(w)
              [] OTHER -> ProcessPipeCommand(w, cmd, "session"))
    /\ UNCHANGED sends

SocketProcess ==
    /\ Runs /\ mailbox["socket"] # <<>>
    /\ LET w == Received("socket")
           cmd == Head(mailbox["socket"])
       IN Install(
            CASE cmd.type = "bind" -> AttachPipe(w, cmd.arg)
              [] cmd.type = "hiccup" -> ProcessHiccup(w, cmd.arg)
              [] cmd.type = "term_req" -> TermChild(w)
              [] cmd.type = "term_ack" -> w
              [] OTHER -> ProcessPipeCommand(w, cmd, "socket"))
    /\ UNCHANGED sends

\* A connecter tries until it is told to stop, which it confirms.
ConnecterProcess ==
    /\ Runs /\ mailbox["connecter"] # <<>>
    /\ LET w == Received("connecter")
           cmd == Head(mailbox["connecter"])
       IN Install(
            IF cmd.type = "plug" THEN [w EXCEPT !.connecter[cmd.arg] = "connecting"]
            ELSE Send([w EXCEPT !.connecter[cmd.arg] = "deleted"],
                      "session", "term_ack", NoOne))
    /\ UNCHANGED sends

\* out_event (): it has connected.
Connected(c) ==
    /\ Runs /\ connecter[c] = "connecting"
    /\ Install(Send(Send([World EXCEPT !.connecter[c] = "connected",
                                       !.session.sent_seqnum = @ + 1],
                         "session", "attach", NoOne), "session", "term_req", c))
    /\ UNCHANGED sends

\* The engine pulls the next part of a message, or the delimiter.
EnginePull ==
    /\ Runs /\ session.engine /\ session.pipe # NoOne
    /\ Readable(World, session.pipe, "session")
    /\ LET p == session.pipe
           part == Head(pipe[p].queue["session"])
           w == Dropped(World, p, "session")
       IN Install(IF part = "delimiter" THEN ProcessDelimiter(w, p, "session")
                  ELSE [w EXCEPT !.session.incomplete_in = part = "more"])
    /\ UNCHANGED sends

\* Without an engine, read_activated () looks for the delimiter.
ReadActivated ==
    /\ Runs /\ session.exists /\ ~session.engine /\ session.pipe # NoOne
    /\ Install(CheckRead(World, session.pipe, "session"))
    /\ pipe' # pipe
    /\ UNCHANGED sends

EngineFails(reason) ==
    /\ Runs /\ session.engine
    /\ \E c \in Connecters : connecter[c] = "none"
    /\ Install(EngineError(World, reason))
    /\ UNCHANGED sends

\* timer_event ()
LingerExpires ==
    /\ Runs /\ session.has_linger_timer
    /\ LET w == [World EXCEPT !.session.has_linger_timer = FALSE]
       IN Install(IF session.pipe = NoOne THEN Abort(w, "timer")
                  ELSE PipeTerminate(w, session.pipe, "session", FALSE))
    /\ UNCHANGED sends

\* The application sends a message of one or two parts, reads up to the
\* delimiter, disconnects and closes the socket.
SocketSend(p, msg) ==
    /\ Runs /\ sends < MaxSends /\ ~socket.terminating
    /\ p \in socket.pipes /\ pipe[p].state["socket"] = "active"
    /\ sends' = sends + 1
    /\ Install(IF pipe[p].hiccuped THEN World
               ELSE [World EXCEPT !.pipe[p].queue["session"] = @ \o msg])

SocketRead(p) ==
    /\ Runs /\ ~socket.terminating /\ p \in socket.pipes
    /\ Install(CheckRead(World, p, "socket"))
    /\ pipe' # pipe
    /\ UNCHANGED sends

Disconnect ==
    /\ Runs /\ options.active /\ socket.endpoint /\ ~socket.terminating
    /\ Install(TermEndpoint(World))
    /\ UNCHANGED sends
Close ==
    /\ Runs /\ ~socket.terminating
    /\ Install(SocketProcessTerm(World))
    /\ UNCHANGED sends

Next ==
    \/ SessionProcess \/ SocketProcess \/ ConnecterProcess
    \/ \E c \in Connecters : Connected(c)
    \/ EnginePull \/ ReadActivated
    \/ \E reason \in {"connection_error", "protocol_error"} : EngineFails(reason)
    \/ LingerExpires
    \/ \E p \in socket.pipes :
          \/ \E msg \in {<<"last">>, <<"more", "last">>} : SocketSend(p, msg)
          \/ SocketRead(p)
    \/ Disconnect \/ Close

Spec == Init /\ [][Next]_vars

\* The threads process their mailboxes, engines send what there is to send,
\* and timers expire: with so many connections and messages, they come to
\* rest again and again.  Connections need not be made, nor last.
AtRest ==
    /\ \A t \in {"session", "socket", "connecter"} : mailbox[t] = <<>>
    /\ session.pipe # NoOne =>
          IF session.engine THEN ~Readable(World, session.pipe, "session")
          ELSE session.exists =>
                  CheckRead(World, session.pipe, "session").pipe = pipe
    /\ ~session.has_linger_timer
FairSpec == Spec /\ []<>(Runs => AtRest)

---------------------------------------------------------------------------
(* Properties                                                              *)

Commands(t) == Range(mailbox[t])
Messages(p) == SelectSeq(pipe[p].queue["session"], LAMBDA m : m # "delimiter")

\* An object that is gone is not referred to: not by a command on its way and
\* not by the session's pointers.  The session goes last: ~session_base_t ()
\* finds no pipe, and the connecters are gone.
NothingDangles ==
    /\ session.terminating_pipes \subseteq DOMAIN pipe \ {session.pipe}
    /\ session.processed_seqnum <= session.sent_seqnum /\ session.term_acks >= 0
    /\ \A p \in DOMAIN pipe : \A e \in Ends :
          pipe[p].state[e] = "gone" =>
             /\ \A cmd \in Commands(e) :
                   cmd.type \in {"hiccup", "pipe_term", "pipe_term_ack"} => cmd.arg # p
             /\ e = "session" => p \notin session.terminating_pipes \cup {session.pipe}
    /\ ~session.exists =>
          /\ mailbox["session"] = <<>>
          /\ \A p \in DOMAIN pipe : pipe[p].state["session"] = "gone"
          /\ \A c \in Connecters : connecter[c] \in {"none", "deleted"}

\* The assertions of process_attach (), process_term (), pipe_terminated () and
\* of the pipe's handlers hold: there is one engine at a time, term comes
\* once, and a pipe hears of its termination in the states it expects.  Neither
\* do they meet an object that is gone.
AssertionsHold ==
    /\ NothingDangles
    /\ aborted \notin {"engine", "pending", "pipe_terminated"}
    /\ \A e \in Ends : mailbox[e] # <<>> =>
          LET cmd == Head(mailbox[e]) IN
          /\ cmd.type = "pipe_term" => pipe[cmd.arg].state[e] \in
                {"active", "delimiter_received", "term_req_sent1"}
          /\ cmd.type = "pipe_term_ack" => pipe[cmd.arg].state[e] \in
                {"term_req_sent1", "term_req_sent2", "term_ack_sent"}

\* ZMQ_LINGER -1: when the socket closes or disconnects, the session does not
\* let go of its pipe before an engine has taken every message.
LingerHonoured ==
    options.linger = "infinite" /\ ~options.immediate =>
        \A p \in DOMAIN pipe :
            pipe[p].state["session"] = "term_ack_sent" => Messages(p) = <<>>

\* A closed socket gets rid of its session, whatever the connection does in
\* the mean time.  With ZMQ_LINGER -1 only it may wait, for a connection to
\* send the remaining messages to.  (A session with ZMQ_IMMEDIATE that has
\* been disconnected first may make a new pipe for a late engine and is not
\* covered.)
HangsOnlyForMessages ==
    <>[](/\ socket.terminating /\ session.exists
         /\ options.immediate => socket.endpoint) =>
        \/ <>(aborted # "none")
        \/ /\ options.linger = "infinite"
           /\ <>[](~session.engine /\ session.pipe # NoOne
                   /\ Messages(session.pipe) # <<>>)

\* clean_pipes () asserts that a half-read message can be read to its end.
HalfReadIsRead == aborted # "clean_pipes"

\* term_endpoint () terminates the pipe that belongs to the endpoint, "if we
\* have an associated pipe": the pipe is still there.
EndpointHasItsPipe == aborted # "dangling"
=============================================================================
