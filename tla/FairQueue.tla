----------------------------- MODULE FairQueue -----------------------------
(***************************************************************************)
(* fq_t (fq.cpp): messages are received from the inbound pipes of a        *)
(* socket in turn, skipping the pipes that have none.  Only whole messages *)
(* are visible in a pipe (YPipe), so the queue of a pipe is a sequence of  *)
(* messages, each given by its number of parts, and of delimiters.         *)
(***************************************************************************)
EXTENDS PipeArray

CONSTANTS
    Pipes,        \* the pipe objects there are
    MaxParts,     \* bound: parts of a message
    MaxQueue,     \* bound: messages waiting in a pipe
    NULL

VARIABLES
    pipes, active, last_in, current, more,  \* the fields of fq_t
    open,       \* pipes that can be read: active or waiting_for_delimiter
    in_active,  \* pipes whose in_active flag is set
    queue,      \* what waits in each pipe
    parts,      \* parts read of the message at the head of each pipe
    aborted,    \* a zmq_assert has failed
    passed,     \* messages other pipes gave since a pipe had its turn
    cut         \* zmq_disconnect has interfered with a half-read message

fqvars == <<pipes, active, last_in, current, more>>
pipevars == <<open, in_active, queue, parts>>
vars == <<fqvars, pipevars, aborted, passed, cut>>

Delimiter == 0

Init ==
    /\ pipes = <<>>
    /\ active = 0
    /\ last_in = NULL
    /\ current = 0
    /\ more = FALSE
    /\ open = {} /\ in_active = {}
    /\ queue = [p \in Pipes |-> <<>>]
    /\ parts = [p \in Pipes |-> 0]
    /\ aborted = FALSE
    /\ passed = [p \in Pipes |-> 0]
    /\ cut = FALSE

---------------------------------------------------------------------------
List == [pipes |-> pipes, active |-> active, current |-> current]
Install(l) ==
    /\ pipes' = l.pipes
    /\ active' = l.active
    /\ current' = l.current

\* read () and check_read () succeed.
CanRead(p) ==
    /\ p \in open /\ p \in in_active
    /\ queue[p] # <<>> /\ Head(queue[p]) # Delimiter
\* They fail for every pipe of ps: an empty pipe goes passive, a delimiter
\* is taken out and ends the reading.
ReadFails(ps) ==
    /\ in_active' = in_active \ {p \in ps \cap open : queue[p] = <<>>}
    /\ open' = open \ {p \in ps \cap in_active :
                           queue[p] # <<>> /\ Head(queue[p]) = Delimiter}

\* The current pipe leaves the active ones.
Deactivated(l) ==
    [l EXCEPT !.active = @ - 1,
              !.pipes = Swap(@, l.current, l.active - 1),
              !.current = IF @ = l.active - 1 THEN 0 ELSE @]
\* (mutant) The first pipe is looked at first every time.
SettledFromStart(l) ==
    LET after[n \in 0 .. l.active] ==
            IF n = 0 THEN [l EXCEPT !.current = 0]
            ELSE LET m == after[n - 1]
                 IN  IF m.active > 0 /\ ~CanRead(At(m.pipes, m.current))
                     THEN Deactivated(m) ELSE m
    IN  after[l.active]
\* The loop of recvpipe () and has_in ().
Settled(l) ==
    LET after[n \in 0 .. l.active] ==
            IF n = 0 THEN l
            ELSE LET m == after[n - 1]
                 IN  IF m.active > 0 /\ ~CanRead(At(m.pipes, m.current))
                     THEN Deactivated(m) ELSE m
    IN  after[l.active]
Skipped(l) == Prefix(pipes, active) \ Prefix(l.pipes, l.active)
Advanced(l) == [l EXCEPT !.current = (@ + 1) % l.active]

\* (mutant) The pipe takes the last place of the active ones.
ActivatedUncounted(l, p) ==
    [l EXCEPT !.pipes = Swap(@, IndexOf(@, p), l.active)]
\* activated ()
Activated(l, p) ==
    [l EXCEPT !.pipes = Swap(@, IndexOf(@, p), l.active), !.active = @ + 1]

\* (mutant) The cursor is left beyond the active pipes.
WithoutDangling(l, p) ==
    LET index == IndexOf(l.pipes, p)
        m == IF index >= l.active THEN l
             ELSE [l EXCEPT !.active = @ - 1,
                            !.pipes = Swap(@, index, l.active - 1)]
    IN  [m EXCEPT !.pipes = Erase(@, IndexOf(@, p))]
\* pipe_terminated (): the pipe leaves the array.
Without(l, p) ==
    LET index == IndexOf(l.pipes, p)
        m == IF index >= l.active THEN l
             ELSE [l EXCEPT !.active = @ - 1,
                            !.pipes = Swap(@, index, l.active - 1),
                            !.current = IF @ = l.active - 1 THEN 0 ELSE @]
    IN  [m EXCEPT !.pipes = Erase(@, IndexOf(@, p))]

---------------------------------------------------------------------------
(* What the user calls.                                                    *)

\* (mutant) The turn passes on after every part.
RecvAnyPart ==
    LET l == Settled(List)
        p == At(l.pipes, l.current)
        again == parts[p] + 1 < Head(queue[p])
    IN  /\ ~aborted /\ l.active > 0
        /\ ReadFails(Skipped(l))
        /\ parts' = [parts EXCEPT ![p] = IF again THEN @ + 1 ELSE 0]
        /\ queue' = [queue EXCEPT ![p] = IF again THEN @ ELSE Tail(@)]
        /\ more' = again
        /\ last_in' = IF again THEN last_in ELSE p
        /\ Install(Advanced(l))
        /\ passed' = [q \in Pipes |->
               IF q = p \/ q \notin Prefix(l.pipes, l.active) THEN 0
               ELSE IF again THEN passed[q] ELSE passed[q] + 1]
        /\ UNCHANGED <<aborted, cut>>
\* recvpipe () that reads a part.
Recv ==
    LET l == Settled(List)
        p == At(l.pipes, l.current)
        again == parts[p] + 1 < Head(queue[p])
    IN  /\ ~aborted /\ l.active > 0
        /\ more => l = List
        /\ ReadFails(Skipped(l))
        /\ parts' = [parts EXCEPT ![p] = IF again THEN @ + 1 ELSE 0]
        /\ queue' = [queue EXCEPT ![p] = IF again THEN @ ELSE Tail(@)]
        /\ more' = again
        /\ last_in' = IF again THEN last_in ELSE p
        /\ Install(IF again THEN l ELSE Advanced(l))
        /\ passed' = [q \in Pipes |->
               IF q = p \/ q \notin Prefix(l.pipes, l.active) THEN 0
               ELSE IF again THEN passed[q] ELSE passed[q] + 1]
        /\ UNCHANGED <<aborted, cut>>

\* recvpipe () that finds nothing to read: EAGAIN.
RecvBlocked ==
    /\ ~aborted /\ Settled(List).active = 0
    /\ more => active = 0
    /\ Install(Settled(List))
    /\ ReadFails(Skipped(Settled(List)))
    /\ UNCHANGED <<last_in, more, queue, parts, aborted, passed, cut>>

\* recvpipe () in the middle of a message whose rest is not there:
\* zmq_assert (!more).
RecvAborts ==
    /\ ~aborted /\ more
    /\ active > 0 /\ ~CanRead(At(pipes, current))
    /\ aborted' = TRUE
    /\ UNCHANGED <<fqvars, pipevars, passed, cut>>

\* has_in (): zmq_poll and the ZMQ_EVENTS option.
HasIn ==
    /\ ~aborted /\ ~more
    /\ Install(Settled(List))
    /\ ReadFails(Skipped(Settled(List)))
    /\ UNCHANGED <<last_in, more, queue, parts, aborted, passed, cut>>

\* term_endpoint (): terminate () on the socket's end of the pipe, which
\* can be read no more.
Disconnect(p) ==
    /\ ~aborted /\ p \in open
    /\ open' = open \ {p}
    /\ cut' = (cut \/ more)
    /\ UNCHANGED <<fqvars, in_active, queue, parts, aborted, passed>>

---------------------------------------------------------------------------
(* What the pipes tell the socket.                                         *)

\* attach ()
Attach(p) ==
    /\ ~aborted /\ p \notin Members(pipes)
    /\ open' = open \cup {p}
    /\ in_active' = in_active \cup {p}
    /\ queue' = [queue EXCEPT ![p] = <<>>]
    /\ parts' = [parts EXCEPT ![p] = 0]
    /\ Install(Activated([List EXCEPT !.pipes = Append(@, p)], p))
    /\ passed' = [passed EXCEPT ![p] = 0]
    /\ UNCHANGED <<last_in, more, aborted, cut>>

\* The peer flushes a message or, when it terminates, a delimiter; a passive
\* end gets activate_read and activated () is called.
Arrive(p, msg) ==
    /\ ~aborted /\ p \in open
    /\ Len(queue[p]) < MaxQueue
    /\ \A i \in DOMAIN queue[p] : queue[p][i] # Delimiter
    /\ queue' = [queue EXCEPT ![p] = Append(@, msg)]
    /\ in_active' = in_active \cup {p}
    /\ Install(IF p \in in_active THEN List ELSE Activated(List, p))
    /\ passed' = IF p \in in_active THEN passed
                 ELSE [passed EXCEPT ![p] = 0]
    /\ UNCHANGED <<last_in, more, open, parts, aborted, cut>>

\* (mutant) last_in is not looked at.
PipeTerminatedKeepsLast(p) ==
    /\ ~aborted /\ p \in Members(pipes) \ open
    /\ in_active' = in_active \ {p}
    /\ queue' = [queue EXCEPT ![p] = <<>>]
    /\ parts' = [parts EXCEPT ![p] = 0]
    /\ Install(Without(List, p))
    /\ passed' = [q \in Pipes |-> 0]
    /\ cut' = (cut \/ (more /\ IndexOf(pipes, p) < active))
    /\ UNCHANGED <<more, last_in, open, aborted>>
\* process_pipe_term_ack and pipe_terminated ()
PipeTerminated(p) ==
    /\ ~aborted /\ p \in Members(pipes) \ open
    /\ in_active' = in_active \ {p}
    /\ queue' = [queue EXCEPT ![p] = <<>>]
    /\ parts' = [parts EXCEPT ![p] = 0]
    /\ Install(Without(List, p))
    /\ last_in' = IF last_in = p THEN NULL ELSE last_in
    /\ passed' = [q \in Pipes |-> 0]
    /\ cut' = (cut \/ (more /\ IndexOf(pipes, p) < active))
    /\ UNCHANGED <<more, open, aborted>>

Next ==
    \/ Recv \/ RecvBlocked \/ RecvAborts \/ HasIn
    \/ \E p \in Pipes :
           \/ Disconnect(p) \/ Attach(p) \/ PipeTerminated(p)
           \/ \E msg \in 0 .. MaxParts : Arrive(p, msg)

Spec == Init /\ [][Next]_vars

---------------------------------------------------------------------------
(* Properties.                                                             *)

\* The cursors stay within the array whatever joins, leaves or runs dry.
TypeOK ==
    /\ Members(pipes) \subseteq Pipes /\ NoDuplicates(pipes)
    /\ active \in 0 .. Len(pipes)
    /\ current \in 0 .. active
    /\ active > 0 => current < active
    /\ more \in BOOLEAN /\ aborted \in BOOLEAN
    /\ open \subseteq Members(pipes)
    /\ \A p \in Pipes : \A i \in DOMAIN queue[p] :
           queue[p][i] \in 0 .. MaxParts

\* No message is forgotten: a pipe is among the active ones, which recvpipe ()
\* and has_in () look at, exactly when its in_active flag is set; the other
\* pipes are empty and activate_read will add them.
ActiveIffReadable ==
    \A p \in open :
        /\ IndexOf(pipes, p) < active <=> p \in in_active
        /\ p \notin in_active => queue[p] = <<>>

\* The parts of a message are received one after the other: a message is
\* half read only in the current pipe, and while more is set it is.  A user
\* who disconnects an endpoint loses this for a message that is being read at
\* the time, or when the pipe goes: more stays set and the cursor may move.
MessagesWhole ==
    ~cut => \A p \in open : parts[p] > 0 <=> more /\ p = At(pipes, current)

\* Fair queueing is fair, also when has_in () moves the cursor ("messing with
\* current doesn't break the fairness", fq.cpp): as long as no pipe is
\* removed, a pipe with messages gives one before any other gives two.
RoundRobin ==
    \A p \in Prefix(pipes, active) : passed[p] < Len(pipes)

\* get_credential () never looks at a deallocated pipe.
LastInExists == last_in # NULL => last_in \in Members(pipes)
============================================================================
