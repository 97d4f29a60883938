---------------------------- MODULE LoadBalancer ----------------------------
(***************************************************************************)
(* lb_t (lb.cpp): messages are sent to the outbound pipes of a PUSH,       *)
(* DEALER or REQ socket in turn, skipping the pipes that cannot take one.  *)
(* Everything here runs in the socket's thread, but the handlers of the    *)
(* pipes' commands run between any two calls of the user, also between     *)
(* two parts of one message.                                               *)
(***************************************************************************)
EXTENDS OutPipes

VARIABLES
    pipes, active, current, more, dropping,  \* the fields of lb_t
    aborted,   \* a zmq_assert has failed
    passed,    \* messages other pipes got since a pipe had its turn or joined
    switched   \* the pipe a message was going to has been exchanged

lbvars == <<pipes, active, current, more, dropping>>
vars == <<pipevars, uservars, lbvars, aborted, passed, switched>>

Init ==
    /\ OutInit
    /\ pipes = <<>>
    /\ active = 0
    /\ current = 0
    /\ more = FALSE
    /\ dropping = FALSE
    /\ aborted = FALSE
    /\ passed = [p \in Pipes |-> 0]
    /\ switched = FALSE

---------------------------------------------------------------------------
(* Helpers.  A list is the array with its two cursors.                     *)

List == [pipes |-> pipes, active |-> active, current |-> current]
Install(l) ==
    /\ pipes' = l.pipes
    /\ active' = l.active
    /\ current' = l.current

\* The current pipe leaves the active ones.
Deactivated(l) ==
    [l EXCEPT !.active = @ - 1,
              !.pipes = Swap(@, l.current, l.active - 1),
              !.current = IF @ < l.active - 1 THEN @ ELSE 0]

\* The loop of sendpipe () and has_out (): pipes that cannot be written are
\* deactivated until one can or none is left.
Settled(l) ==
    LET after[n \in 0 .. l.active] ==
            IF n = 0 THEN l
            ELSE LET m == after[n - 1]
                 IN  IF m.active > 0 /\ ~CanWrite(At(m.pipes, m.current))
                     THEN Deactivated(m) ELSE m
    IN  after[l.active]
Skipped(l) == Prefix(pipes, active) \ Prefix(l.pipes, l.active)

\* (mutant) The same pipe goes on.
NotAdvanced(l) == l
\* The turn passes to the next active pipe.
Advanced(l) == [l EXCEPT !.current = (@ + 1) % l.active]

\* (mutant) The pipe is swapped in place of an active one.
ActivatedUncounted(l, p) ==
    [l EXCEPT !.pipes = Swap(@, IndexOf(@, p), l.active)]
\* activated (): the pipe joins the active ones.
Activated(l, p) ==
    [l EXCEPT !.pipes = Swap(@, IndexOf(@, p), l.active), !.active = @ + 1]

\* (mutant) The cursor is left beyond the active pipes.
WithoutDangling(l, p) ==
    LET index == IndexOf(l.pipes, p)
        m == IF index >= l.active THEN l
             ELSE [l EXCEPT !.active = @ - 1,
                            !.pipes = Swap(@, index, l.active - 1)]
    IN  [m EXCEPT !.pipes = Erase(@, IndexOf(@, p))]
\* pipe_terminated (): the pipe leaves the array.
Without(l, p) ==
    LET index == IndexOf(l.pipes, p)
        m == IF index >= l.active THEN l
             ELSE [l EXCEPT !.active = @ - 1,
                            !.pipes = Swap(@, index, l.active - 1),
                            !.current = IF @ = l.active - 1 THEN 0 ELSE @]
    IN  [m EXCEPT !.pipes = Erase(@, IndexOf(@, p))]

---------------------------------------------------------------------------
(* What the user calls.                                                    *)

\* sendpipe () of a part that is dropped.
SendDropped(msg) ==
    /\ dropping
    /\ more' = msg.more
    /\ dropping' = msg.more
    /\ PartTaken(msg.more)
    /\ UNCHANGED <<pipevars, pipes, active, current, aborted, passed,
                   switched>>

\* sendpipe () in the middle of a message whose pipe cannot be written:
\* zmq_assert (!more).
SendAborts ==
    /\ ~dropping /\ more
    /\ active > 0 /\ ~CanWrite(At(pipes, current))
    /\ aborted' = TRUE
    /\ UNCHANGED <<pipevars, uservars, lbvars, passed, switched>>

\* sendpipe () that finds no pipe to write to: EAGAIN.
SendBlocked ==
    /\ ~dropping /\ Settled(List).active = 0
    /\ more => active = 0
    /\ Install(Settled(List))
    /\ CheckWriteFails(Skipped(Settled(List)))
    /\ UNCHANGED <<open, batch, arrived, room, uservars, more, dropping,
                   aborted, passed, switched>>

\* sendpipe () that writes the part.
SendWritten(msg) ==
    LET l == Settled(List)
        p == At(l.pipes, l.current)
    IN  /\ ~dropping /\ l.active > 0
        /\ more => l = List
        /\ CheckWriteFails(Skipped(l))
        /\ WriteTo({p}, msg)
        /\ Install(IF msg.more THEN l ELSE Advanced(l))
        /\ more' = msg.more
        /\ passed' = [q \in Pipes |->
               IF q = p \/ q \notin Prefix(l.pipes, l.active) THEN 0
               ELSE IF msg.more THEN passed[q] ELSE passed[q] + 1]
        /\ PartTaken(msg.more)
        /\ UNCHANGED <<open, dropping, aborted, switched>>

Send(again) ==
    /\ ~aborted /\ MayStart
    /\ again => part + 1 < MaxParts
    /\ \/ SendDropped(NextPart(again))
       \/ SendAborts
       \/ SendBlocked
       \/ SendWritten(NextPart(again))

\* has_out (): zmq_poll and the ZMQ_EVENTS option.
HasOut ==
    /\ ~aborted /\ ~more
    /\ Install(Settled(List))
    /\ CheckWriteFails(Skipped(Settled(List)))
    /\ UNCHANGED <<open, batch, arrived, room, uservars, more, dropping,
                   aborted, passed, switched>>

---------------------------------------------------------------------------
(* What the pipes tell the socket.                                         *)

\* attach ()
Attach(p) ==
    /\ ~aborted /\ p \notin Members(pipes)
    /\ OpenPipe(p)
    /\ Install(Activated([List EXCEPT !.pipes = Append(@, p)], p))
    /\ passed' = [passed EXCEPT ![p] = 0]
    /\ UNCHANGED <<uservars, more, dropping, aborted, switched>>

\* process_activate_write, and activated () if the pipe was stopped.
WriteActivated(p) ==
    /\ ~aborted /\ p \in Members(pipes)
    /\ Credit(p)
    /\ Install(IF p \in out_active THEN List ELSE Activated(List, p))
    /\ passed' = IF p \in out_active THEN passed
                 ELSE [passed EXCEPT ![p] = 0]
    /\ UNCHANGED <<more, dropping, aborted, switched>>

PipeCloses(p) ==
    /\ ~aborted /\ p \in Members(pipes)
    /\ Close(p)
    /\ UNCHANGED <<lbvars, aborted, passed, switched>>

\* (mutant) The rest of the message goes to another pipe.
PipeTerminatedKeepsSending(p) ==
    /\ ~aborted /\ p \in Members(pipes)
    /\ PipeGone(p)
    /\ Install(Without(List, p))
    /\ passed' = [q \in Pipes |-> 0]
    /\ UNCHANGED <<more, dropping, aborted, switched>>
\* process_pipe_term_ack and pipe_terminated ()
PipeTerminated(p) ==
    /\ ~aborted /\ p \in Members(pipes)
    /\ PipeGone(p)
    /\ dropping' = (dropping \/ (IndexOf(pipes, p) = current /\ more))
    /\ Install(Without(List, p))
    /\ passed' = [q \in Pipes |-> 0]
    /\ switched' = (switched \/ (more /\ ~dropping' /\
           At(pipes', current') # At(pipes, current)))
    /\ UNCHANGED <<more, aborted>>

Next ==
    \/ \E again \in BOOLEAN : Send(again)
    \/ HasOut
    \/ \E p \in Pipes :
           Attach(p) \/ WriteActivated(p) \/ PipeCloses(p) \/ PipeTerminated(p)

Spec == Init /\ [][Next]_vars

---------------------------------------------------------------------------
(* Properties.                                                             *)

\* The cursors stay within the array whatever joins, leaves or fills up:
\* current is an active pipe (or 0 when there is none), so that sendpipe ()
\* never looks beyond the active pipes.
TypeOK ==
    /\ Members(pipes) \subseteq Pipes /\ NoDuplicates(pipes)
    /\ active \in 0 .. Len(pipes)
    /\ current \in 0 .. active
    /\ active > 0 => current < active
    /\ more \in BOOLEAN /\ dropping \in BOOLEAN /\ aborted \in BOOLEAN
    /\ open \subseteq Members(pipes)
    /\ room \in [Pipes -> 0 .. Hwm]

\* A pipe is among the active ones exactly when its out_active flag is set:
\* a stopped pipe is not among them when write_activated adds it, and a pipe
\* that is not among them is one that write_activated will add.
ActiveIffWritable ==
    \A p \in open : IndexOf(pipes, p) < active <=> p \in out_active

\* All the parts of a message go to one pipe: what reaches a peer in one
\* flush is one message from its first part on, and an unfinished message
\* lies only in the pipe that gets the next part.  Only the exchange of the
\* current pipe, which CursorFollowsPipe is about, breaks this.
MessagesWhole ==
    switched \/
    /\ \A p \in Pipes : OneMessage(arrived[p]) /\ OneMessage(batch[p])
    /\ \A p \in open : batch[p] # <<>> => more /\ p = At(pipes, current)

\* current "Points to the last pipe that the most recent message was sent to"
\* (lb.hpp): in the middle of a message it stays on the pipe the first parts
\* went to, whatever other pipes are removed.
CursorFollowsPipe == ~switched

\* Load balancing is fair: as long as no pipe is removed, a pipe that stays
\* active gets its turn before any other pipe has a second one.
RoundRobin ==
    \A p \in Prefix(pipes, active) :
        passed[p] < Len(pipes)
============================================================================
