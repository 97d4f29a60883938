----------------------------- MODULE OutPipes -----------------------------
(***************************************************************************)
(* The outbound side of a set of pipes, as the socket that owns them and   *)
(* writes to them sees it.  Pipe is the detailed model of one of them;     *)
(* here a pipe is what decides whether a write succeeds (its state, its    *)
(* out_active flag and the room below its high watermark) and what became  *)
(* of the parts written.                                                   *)
(*                                                                         *)
(* The watermark counts whole messages, so it stops a write only at the    *)
(* first part of a message.                                                *)
(***************************************************************************)
EXTENDS PipeArray

CONSTANTS
    Pipes,     \* the pipe objects there are
    Hwm,       \* high watermark of every pipe
    MaxParts,  \* bound: parts of a message
    MaxSent    \* bound: messages the user starts

VARIABLES
    open,        \* pipes whose state is active
    out_active,  \* pipes whose out_active flag is set
    room,        \* messages each pipe still takes before its watermark
    batch,       \* parts written to each pipe and not flushed
    arrived,     \* the last batch each pipe has flushed to its peer
    sent,        \* messages the user has started
    part         \* parts of the current message the user has sent

pipevars == <<open, out_active, room, batch, arrived>>
uservars == <<sent, part>>

OutInit ==
    /\ open = {} /\ out_active = {}
    /\ room = [p \in Pipes |-> 0]
    /\ batch = [p \in Pipes |-> <<>>]
    /\ arrived = [p \in Pipes |-> <<>>]
    /\ sent = 0
    /\ part = 0

\* check_write () succeeds.
CanWrite(p) == p \in open /\ p \in out_active /\ room[p] > 0
\* check_write () fails for every pipe of ps.
CheckWriteFails(ps) == out_active' = out_active \ (ps \cap open)

\* write () of one part to every pipe of ps and, after the last one, flush ().
\* The batch that leaves is what the peer reads as one message.
WriteTo(ps, msg) ==
    /\ batch' = [p \in Pipes |->
           IF p \notin ps THEN batch[p]
           ELSE IF msg.more THEN Append(batch[p], msg) ELSE <<>>]
    /\ arrived' = [p \in Pipes |->
           IF p \in ps /\ ~msg.more THEN Append(batch[p], msg)
           ELSE arrived[p]]
    /\ room' = [p \in Pipes |->
           IF p \in ps /\ ~msg.more THEN room[p] - 1 ELSE room[p]]

\* A new pipe.
OpenPipe(p) ==
    /\ open' = open \cup {p}
    /\ out_active' = out_active \cup {p}
    /\ room' = [room EXCEPT ![p] = Hwm]
    /\ batch' = [batch EXCEPT ![p] = <<>>]
    /\ arrived' = [arrived EXCEPT ![p] = <<>>]

\* process_activate_write: the peer has read everything.
Credit(p) ==
    /\ p \in open /\ room[p] < Hwm
    /\ room' = [room EXCEPT ![p] = Hwm]
    /\ out_active' = out_active \cup {p}
    /\ UNCHANGED <<open, batch, arrived, uservars>>

\* The pipe leaves state active: process_pipe_term, or terminate () called
\* by the socket (zmq_disconnect).
Close(p) ==
    /\ p \in open
    /\ open' = open \ {p}
    /\ UNCHANGED <<out_active, room, batch, arrived, uservars>>

\* The pipe is deallocated, with what is left in it.
PipeGone(p) ==
    /\ p \notin open
    /\ out_active' = out_active \ {p}
    /\ room' = [room EXCEPT ![p] = 0]
    /\ batch' = [batch EXCEPT ![p] = <<>>]
    /\ arrived' = [arrived EXCEPT ![p] = <<>>]
    /\ UNCHANGED <<open, uservars>>

---------------------------------------------------------------------------
\* The part the user sends next.
NextPart(more) ==
    [n |-> IF part = 0 THEN sent + 1 ELSE sent, part |-> part + 1,
     more |-> more]
MayStart == part > 0 \/ sent < MaxSent
\* The user goes on to the next part, or is through with the message.
PartTaken(more) ==
    /\ sent' = NextPart(more).n
    /\ part' = IF more THEN part + 1 ELSE 0

\* A batch holds part 1, 2, ... of one and the same message.
OneMessage(b) ==
    \A i \in DOMAIN b : b[i].part = i /\ b[i].n = b[1].n
============================================================================
