------------------------------- MODULE Pipe -------------------------------
(***************************************************************************)
(* pipe_t (pipe.cpp): the two ends of a bidirectional message pipe, each   *)
(* in a thread of its own.  Messages travel through two ypipes, one per    *)
(* direction; everything else (wakeups, flow-control credit, replacement   *)
(* of a ypipe, termination) travels as commands through the mailboxes,     *)
(* which deliver the commands of one end to the other in order.            *)
(*                                                                         *)
(* A ypipe is the BatchQueue that YPipe implements; a mailbox is the FIFO  *)
(* that Mailbox implements.  The owners of the two ends (a socket and a    *)
(* session, or two sockets) are free to call any method of pipe_t that     *)
(* their code calls, in any order it allows.                               *)
(***************************************************************************)
EXTENDS Integers, Sequences

CONSTANTS
    MaxWmDelta,  \* max_wm_delta of config.hpp
    Setups       \* what the pipe is made with and how its owners use it

Ends == {1, 2}
Peer(e) == 3 - e
NULL == 0

ASSUME PipeAssumption ==
    /\ MaxWmDelta \in Nat
    /\ \A s \in Setups :
          /\ s.hwm \in [Ends -> Nat] /\ s.latehwm \in [Ends -> Nat]
          /\ s.identified \in BOOLEAN
          /\ s.nodelay \subseteq Ends
          /\ s.latehwm # s.hwm => 2 \notin s.nodelay
          /\ s.hiccupers \subseteq Ends /\ s.readers \subseteq Ends
          /\ s.delays \in [Ends -> SUBSET BOOLEAN]
          /\ s.kinds \subseteq {"data", "identity", "credential"}
          /\ s.parts \in Nat \ {0} /\ s.sent \in [Ends -> Nat]
          /\ s.hiccups \in Nat /\ s.closes \in Nat

VARIABLES
    setup,     \* one of Setups, chosen once and for all
    \* the fields of pipe_t, for each end
    state, inpipe, outpipe, in_active, out_active, delay,
    hwm, lwm, msgs_read, msgs_written, peers_msgs_read,
    \* what connects the ends
    ypipes,    \* every ypipe ever allocated
    mailbox,   \* commands on their way to each end
    \* what the owners have done
    sent,      \* whole messages the owner has written
    writing,   \* parts written of a message that is not complete
    got,       \* number of the last message the owner has read
    reading,   \* parts read of a message that is not complete
    closes     \* calls of terminate ()

fields == <<state, inpipe, outpipe, in_active, out_active, delay,
            hwm, lwm, msgs_read, msgs_written, peers_msgs_read>>
owners == <<sent, writing, got, reading, closes>>
vars == <<setup, fields, ypipes, mailbox, owners>>

InitHwm == setup.hwm         \* high watermark of each end (0: none)
LateHwm == setup.latehwm     \* the watermarks set_hwms () installs later on
Identified == setup.identified \* the socket that binds later keeps identities
NoDelay == setup.nodelay     \* ends made with set_nodelay ()
Hiccupers == setup.hiccupers \* ends whose owner calls hiccup ()
Readers == setup.readers     \* ends whose owner keeps reading
Delays == setup.delays       \* the arguments each end's terminate () gets
Kinds == setup.kinds         \* kinds of message the owners write
MaxParts == setup.parts      \* bound: parts of a message
MaxSent == setup.sent        \* bound: messages each end's owner writes
MaxHiccups == setup.hiccups  \* bound: calls of hiccup ()
MaxCloses == setup.closes    \* bound: calls of terminate () on each end

---------------------------------------------------------------------------
(* Messages, commands and ypipes.                                          *)

\* Part number part of the n-th message.
Message(kind, n, part, more) ==
    [kind |-> kind, n |-> n, part |-> part, more |-> more]
Delimiter == Message("delimiter", 0, 0, FALSE)

Command(type) == [type |-> type, arg |-> 0]
ActivateWrite(n) == [type |-> "activate_write", arg |-> n]
HiccupTo(id) == [type |-> "hiccup", arg |-> id]

\* ypipe_t: what BatchQueue keeps, and whether the object still exists.
NewYPipe ==
    [ready |-> <<>>, batch |-> <<>>, complete |-> 0, asleep |-> FALSE,
     exists |-> TRUE]

\* (mutant) Every part completes the message.
WrittenWhole(q, msg) ==
    [q EXCEPT !.batch = Append(@, msg), !.complete = Len(q.batch) + 1]
Written(q, msg) ==
    [q EXCEPT !.batch = Append(@, msg),
              !.complete = IF msg.more THEN @ ELSE Len(q.batch) + 1]
\* (mutant) Completed messages are taken back as well.
UnwrittenAll(q) == [q EXCEPT !.batch = <<>>, !.complete = 0]
Unwritten(q) == [q EXCEPT !.batch = SubSeq(@, 1, q.complete)]
Flushed(q) ==
    [q EXCEPT !.ready = @ \o SubSeq(q.batch, 1, q.complete),
              !.batch = SubSeq(@, q.complete + 1, Len(@)),
              !.complete = 0,
              !.asleep = @ /\ q.complete = 0]
\* flush () returns false.
WakesReader(q) == q.complete > 0 /\ q.asleep
Deleted(q) == [NewYPipe EXCEPT !.exists = FALSE]

\* Commands cs go to end e.
Send(e, cs) == mailbox' = [mailbox EXCEPT ![e] = @ \o cs]
\* The command at the head of e's mailbox is taken and cs go to the peer.
Process(e, cs) ==
    mailbox' = [mailbox EXCEPT ![e] = Tail(@), ![Peer(e)] = @ \o cs]
IsNext(e, type) == mailbox[e] # <<>> /\ Head(mailbox[e]).type = type

\* (mutant) The result of the ypipe's flush () is ignored.
NoWakeup(q) == <<>>
\* flush () tells the peer to start reading again.
Wakeup(q) ==
    IF WakesReader(q) THEN <<Command("activate_read")>> ELSE <<>>

\* (mutant) Small pipes get no low watermark below the high one.
compute_lwmHigh(h) == IF h > MaxWmDelta * 2 THEN h - MaxWmDelta ELSE h
compute_lwm(h) == IF h > MaxWmDelta * 2 THEN h - MaxWmDelta ELSE (h + 1) \div 2

---------------------------------------------------------------------------
\* pipepair ()
Init ==
    /\ setup \in Setups
    /\ state = [e \in Ends |-> "active"]
    /\ inpipe = [e \in Ends |-> e]
    /\ outpipe = [e \in Ends |-> Peer(e)]
    /\ in_active = [e \in Ends |-> TRUE]
    /\ out_active = [e \in Ends |-> TRUE]
    /\ delay = [e \in Ends |-> e \notin NoDelay]
    /\ hwm = InitHwm
    /\ lwm = [e \in Ends |-> compute_lwm(InitHwm[Peer(e)])]
    /\ msgs_read = [e \in Ends |-> 0]
    /\ msgs_written = [e \in Ends |-> 0]
    /\ peers_msgs_read = [e \in Ends |-> 0]
    /\ ypipes = <<NewYPipe, NewYPipe>>
    /\ mailbox = [e \in Ends |-> <<>>]
    /\ sent = [e \in Ends |-> 0]
    /\ writing = [e \in Ends |-> 0]
    /\ got = [e \in Ends |-> 0]
    /\ reading = [e \in Ends |-> 0]
    /\ closes = [e \in Ends |-> 0]

Exists(e) == state[e] # "deleted"
Readable(e) == in_active[e] /\ state[e] \in {"active", "waiting_for_delimiter"}
Writable(e) == out_active[e] /\ state[e] = "active"
\* (mutant) One message too many.
FullLate(e) == hwm[e] > 0 /\ msgs_written[e] - peers_msgs_read[e] > hwm[e]
Full(e) == hwm[e] > 0 /\ msgs_written[e] - peers_msgs_read[e] = hwm[e]

\* An inproc pipe whose address nobody has bound yet: its water marks are the
\* connecting socket's own, and end 2 waits for its owner.
Unbound == hwm # LateHwm
Owned(e) == e = 1 \/ ~Unbound

---------------------------------------------------------------------------
(* The methods the owner of an end calls.                                  *)

\* The messages the owner may write next: a message of several parts goes
\* on until its last one, a credential comes before everything else, and a
\* socket that connects before the bind writes its identity at once.
Writes(e) ==
    {Message(k, sent[e] + 1, writing[e] + 1, more) :
        k \in IF writing[e] > 0 THEN {"data"}
              ELSE IF Unbound /\ sent[e] = 0 THEN {"identity"}
              ELSE IF msgs_written[e] > 0 THEN Kinds \ {"credential"}
              ELSE Kinds,
        more \in IF writing[e] + 1 < MaxParts THEN BOOLEAN ELSE {FALSE}}

\* write () that succeeds
Write(e, msg) ==
    /\ Writable(e)
    /\ ~Full(e)
    /\ sent[e] < MaxSent[e]
    /\ msg.more => msg.kind = "data"
    /\ ypipes' = [ypipes EXCEPT ![outpipe[e]] = Written(@, msg)]
    /\ msgs_written' = [msgs_written EXCEPT ![e] =
          IF msg.more \/ msg.kind = "identity" THEN @ ELSE @ + 1]
    /\ sent' = [sent EXCEPT ![e] =
          IF msg.more \/ msg.kind = "credential" THEN @ ELSE @ + 1]
    /\ writing' = [writing EXCEPT ![e] = IF msg.more THEN @ + 1 ELSE 0]
    /\ UNCHANGED <<state, inpipe, outpipe, in_active, out_active, delay, hwm,
                   lwm, msgs_read, peers_msgs_read, mailbox, got, reading,
                   closes>>

\* write () or check_write () that finds the pipe full
WriteFull(e) ==
    /\ Writable(e)
    /\ Full(e)
    /\ out_active' = [out_active EXCEPT ![e] = FALSE]
    /\ UNCHANGED <<state, inpipe, outpipe, in_active, delay, hwm, lwm,
                   msgs_read, msgs_written, peers_msgs_read, ypipes, mailbox,
                   owners>>

\* rollback ()
Rollback(e) ==
    /\ Exists(e)
    /\ outpipe[e] # NULL
    /\ ypipes' = [ypipes EXCEPT ![outpipe[e]] = Unwritten(@)]
    /\ writing' = [writing EXCEPT ![e] = 0]
    /\ UNCHANGED <<fields, mailbox, sent, got, reading, closes>>

\* flush ()
Flush(e) ==
    /\ Exists(e)
    /\ state[e] # "term_ack_sent"
    /\ outpipe[e] # NULL
    /\ ypipes' = [ypipes EXCEPT ![outpipe[e]] = Flushed(@)]
    /\ Send(Peer(e), Wakeup(ypipes[outpipe[e]]))
    /\ UNCHANGED <<fields, owners>>

\* process_delimiter (), with q what is left of the inbound ypipe
ProcessDelimiter(e, q) ==
    /\ ypipes' = [ypipes EXCEPT ![inpipe[e]] = q]
    /\ IF state[e] = "active"
          THEN /\ state' = [state EXCEPT ![e] = "delimiter_received"]
               /\ UNCHANGED <<outpipe, mailbox>>
          ELSE /\ state' = [state EXCEPT ![e] = "term_ack_sent"]
               /\ outpipe' = [outpipe EXCEPT ![e] = NULL]
               /\ Send(Peer(e), <<Command("pipe_term_ack")>>)
    /\ UNCHANGED <<inpipe, in_active, out_active, delay, hwm, lwm, msgs_read,
                   msgs_written, peers_msgs_read, owners>>

\* There is nothing to read: the ypipe records its reader as asleep.
GoPassive(e, q) ==
    /\ ypipes' = [ypipes EXCEPT ![inpipe[e]] = [q EXCEPT !.asleep = TRUE]]
    /\ in_active' = [in_active EXCEPT ![e] = FALSE]
    /\ UNCHANGED <<state, inpipe, outpipe, out_active, delay, hwm, lwm,
                   msgs_read, msgs_written, peers_msgs_read, mailbox, owners>>

\* check_read (); one that finds a message changes nothing.
CheckRead(e) ==
    LET q == ypipes[inpipe[e]] IN
    /\ Readable(e)
    /\ \/ q.ready = <<>> /\ GoPassive(e, q)
       \/ /\ q.ready # <<>> /\ Head(q.ready) = Delimiter
          /\ ProcessDelimiter(e, [q EXCEPT !.ready = Tail(@)])

\* The inbound ypipe after the credentials at its front have been read.
SkipCredentials(q) ==
    LET creds == CHOOSE k \in 0 .. Len(q.ready) :
                    /\ \A i \in 1 .. k : q.ready[i].kind = "credential"
                    /\ k < Len(q.ready) => q.ready[k + 1].kind # "credential"
    IN  [q EXCEPT !.ready = SubSeq(@, creds + 1, Len(@))]

\* (mutant) Credit is sent before the message is counted.
DeliverCreditsFirst(e, q) ==
    LET msg == Head(q.ready)
        n == IF msg.more \/ msg.kind = "identity" THEN msgs_read[e]
             ELSE msgs_read[e] + 1
    IN
    /\ ypipes' = [ypipes EXCEPT ![inpipe[e]] = [q EXCEPT !.ready = Tail(@)]]
    /\ msgs_read' = [msgs_read EXCEPT ![e] = n]
    /\ Send(Peer(e), IF lwm[e] > 0 /\ msgs_read[e] % lwm[e] = 0
                        THEN <<ActivateWrite(msgs_read[e])>> ELSE <<>>)
    /\ got' = [got EXCEPT ![e] = IF msg.more THEN @ ELSE msg.n]
    /\ reading' = [reading EXCEPT ![e] = IF msg.more THEN @ + 1 ELSE 0]
    /\ UNCHANGED <<state, inpipe, outpipe, in_active, out_active, delay, hwm,
                   lwm, msgs_written, peers_msgs_read, sent, writing, closes>>

\* The rest of read () once a message that is neither a credential nor a
\* delimiter has been taken from q.
Deliver(e, q) ==
    LET msg == Head(q.ready)
        n == IF msg.more \/ msg.kind = "identity" THEN msgs_read[e]
             ELSE msgs_read[e] + 1
    IN
    /\ ypipes' = [ypipes EXCEPT ![inpipe[e]] = [q EXCEPT !.ready = Tail(@)]]
    /\ msgs_read' = [msgs_read EXCEPT ![e] = n]
    /\ Send(Peer(e), IF lwm[e] > 0 /\ n % lwm[e] = 0
                        THEN <<ActivateWrite(n)>> ELSE <<>>)
    /\ got' = [got EXCEPT ![e] = IF msg.more THEN @ ELSE msg.n]
    /\ reading' = [reading EXCEPT ![e] = IF msg.more THEN @ + 1 ELSE 0]
    /\ UNCHANGED <<state, inpipe, outpipe, in_active, out_active, delay, hwm,
                   lwm, msgs_written, peers_msgs_read, sent, writing,
                   closes>>

\* read ()
Read(e) ==
    LET q == SkipCredentials(ypipes[inpipe[e]]) IN
    /\ Readable(e)
    /\ \/ q.ready = <<>> /\ GoPassive(e, q)
       \/ /\ q.ready # <<>> /\ Head(q.ready) = Delimiter
          /\ ProcessDelimiter(e, [q EXCEPT !.ready = Tail(@)])
       \/ /\ q.ready # <<>> /\ Head(q.ready) # Delimiter
          /\ Deliver(e, q)

\* (mutant) A second terminate () asks the peer again.
TerminateAgainAsks(e, delay_) ==
    /\ state[e] \in {"term_req_sent1", "term_req_sent2", "term_ack_sent"}
    /\ closes[e] < MaxCloses
    /\ closes' = [closes EXCEPT ![e] = @ + 1]
    /\ delay' = [delay EXCEPT ![e] = delay_]
    /\ Send(Peer(e), <<Command("pipe_term")>>)
    /\ UNCHANGED <<state, inpipe, outpipe, in_active, out_active, hwm, lwm,
                   msgs_read, msgs_written, peers_msgs_read, ypipes,
                   sent, writing, got, reading>>

\* terminate (delay_) in a state in which it only records its argument
TerminateAgain(e, delay_) ==
    /\ state[e] \in {"term_req_sent1", "term_req_sent2", "term_ack_sent"}
    /\ closes[e] < MaxCloses
    /\ closes' = [closes EXCEPT ![e] = @ + 1]
    /\ delay' = [delay EXCEPT ![e] = delay_]
    /\ UNCHANGED <<state, inpipe, outpipe, in_active, out_active, hwm, lwm,
                   msgs_read, msgs_written, peers_msgs_read, ypipes, mailbox,
                   sent, writing, got, reading>>

\* terminate (delay_): ask the peer, or, when it has asked already and
\* nothing pending is wanted, answer it; then end the outbound stream.
Terminate(e, delay_) ==
    LET asks == state[e] \in {"active", "delimiter_received"}
        answers == state[e] = "waiting_for_delimiter" /\ ~delay_
        q == Written(Unwritten(ypipes[outpipe[e]]), Delimiter)
    IN
    /\ state[e] \in {"active", "delimiter_received", "waiting_for_delimiter"}
    /\ Unbound => sent[e] > 0
    /\ closes[e] < MaxCloses
    /\ closes' = [closes EXCEPT ![e] = @ + 1]
    /\ delay' = [delay EXCEPT ![e] = delay_]
    /\ out_active' = [out_active EXCEPT ![e] = FALSE]
    /\ state' = [state EXCEPT ![e] =
          CASE asks -> "term_req_sent1"
            [] answers -> "term_ack_sent"
            [] OTHER -> @]
    /\ IF answers
          THEN /\ outpipe' = [outpipe EXCEPT ![e] = NULL]
               /\ Send(Peer(e), <<Command("pipe_term_ack")>>)
               /\ UNCHANGED ypipes
          ELSE /\ ypipes' = [ypipes EXCEPT ![outpipe[e]] = Flushed(q)]
               /\ Send(Peer(e), (IF asks THEN <<Command("pipe_term")>>
                                 ELSE <<>>) \o Wakeup(q))
               /\ UNCHANGED outpipe
    /\ writing' = [writing EXCEPT ![e] = 0]
    /\ UNCHANGED <<inpipe, in_active, hwm, lwm, msgs_read, msgs_written,
                   peers_msgs_read, sent, got, reading>>

\* (mutant) The old inpipe is kept.
HiccupKeepsInpipe(e) ==
    /\ state[e] = "active"
    /\ reading[e] = 0
    /\ Len(ypipes) < 2 + MaxHiccups
    /\ ypipes' = Append(ypipes, NewYPipe)
    /\ in_active' = [in_active EXCEPT ![e] = TRUE]
    /\ Send(Peer(e), <<HiccupTo(Len(ypipes) + 1)>>)
    /\ UNCHANGED <<state, inpipe, outpipe, out_active, delay, hwm, lwm,
                   msgs_read, msgs_written, peers_msgs_read, owners>>

\* hiccup (): the owner has first read any message it was in the middle of.
Hiccup(e) ==
    /\ state[e] = "active"
    /\ reading[e] = 0
    /\ Len(ypipes) < 2 + MaxHiccups
    /\ ypipes' = Append(ypipes, NewYPipe)
    /\ inpipe' = [inpipe EXCEPT ![e] = Len(ypipes) + 1]
    /\ in_active' = [in_active EXCEPT ![e] = TRUE]
    /\ Send(Peer(e), <<HiccupTo(Len(ypipes) + 1)>>)
    /\ UNCHANGED <<state, outpipe, out_active, delay, hwm, lwm, msgs_read,
                   msgs_written, peers_msgs_read, owners>>

\* connect_inproc_sockets (), in the thread of the bind or the connect that
\* comes second: end 2 reads the identity if its socket wants none, and then
\* both ends get the sum of the two sockets' watermarks, or none.
DropIdentity ==
    /\ Unbound /\ ~Identified
    /\ got[2] = 0 /\ ypipes[inpipe[2]].ready # <<>>
    /\ Read(2)

SetHwms ==
    /\ Unbound
    /\ IF Identified THEN ypipes[inpipe[2]].ready # <<>> ELSE got[2] = 1
    /\ hwm' = LateHwm
    /\ lwm' = [e \in Ends |-> compute_lwm(LateHwm[Peer(e)])]
    /\ UNCHANGED <<state, inpipe, outpipe, in_active, out_active, delay,
                   msgs_read, msgs_written, peers_msgs_read, ypipes, mailbox,
                   owners>>

---------------------------------------------------------------------------
(* The command handlers.                                                   *)

\* process_activate_read (); the owner's read_activated () lets it read on.
ProcessActivateRead(e) ==
    /\ IsNext(e, "activate_read")
    /\ Process(e, <<>>)
    /\ in_active' = [in_active EXCEPT ![e] =
          @ \/ state[e] \in {"active", "waiting_for_delimiter"}]
    /\ UNCHANGED <<state, inpipe, outpipe, out_active, delay, hwm, lwm,
                   msgs_read, msgs_written, peers_msgs_read, ypipes, owners>>

\* process_activate_write (msgs_read_)
ProcessActivateWrite(e) ==
    /\ IsNext(e, "activate_write")
    /\ Process(e, <<>>)
    /\ peers_msgs_read' =
          [peers_msgs_read EXCEPT ![e] = Head(mailbox[e]).arg]
    /\ out_active' = [out_active EXCEPT ![e] = @ \/ state[e] = "active"]
    /\ UNCHANGED <<state, inpipe, outpipe, in_active, delay, hwm, lwm,
                   msgs_read, msgs_written, ypipes, owners>>

\* (mutant) The old outpipe is not deleted.
ProcessHiccupKeeps(e) ==
    /\ IsNext(e, "hiccup")
    /\ outpipe[e] # NULL
    /\ Process(e, <<>>)
    /\ outpipe' = [outpipe EXCEPT ![e] = Head(mailbox[e]).arg]
    /\ out_active' = [out_active EXCEPT ![e] = TRUE]
    /\ UNCHANGED <<state, inpipe, in_active, delay, hwm, lwm, msgs_read,
                   msgs_written, peers_msgs_read, ypipes, owners>>

\* process_hiccup (pipe_): the old ypipe is flushed, drained and deleted.
ProcessHiccup(e) ==
    /\ IsNext(e, "hiccup")
    /\ outpipe[e] # NULL
    /\ Process(e, <<>>)
    /\ ypipes' = [ypipes EXCEPT ![outpipe[e]] = Deleted(@)]
    /\ outpipe' = [outpipe EXCEPT ![e] = Head(mailbox[e]).arg]
    /\ out_active' = [out_active EXCEPT ![e] = TRUE]
    /\ UNCHANGED <<state, inpipe, in_active, delay, hwm, lwm, msgs_read,
                   msgs_written, peers_msgs_read, owners>>

\* (mutants) outpipe keeps pointing to what the peer is going to delete;
\* delay is not looked at.
ProcessPipeTermKeeps(e) ==
    LET waits == state[e] = "active" /\ delay[e] IN
    /\ IsNext(e, "pipe_term")
    /\ state[e] \in {"active", "delimiter_received", "term_req_sent1"}
    /\ state' = [state EXCEPT ![e] =
          CASE waits -> "waiting_for_delimiter"
            [] @ = "term_req_sent1" -> "term_req_sent2"
            [] OTHER -> "term_ack_sent"]
    /\ Process(e, IF waits THEN <<>> ELSE <<Command("pipe_term_ack")>>)
    /\ UNCHANGED <<inpipe, outpipe, in_active, out_active, delay, hwm, lwm,
                   msgs_read, msgs_written, peers_msgs_read, ypipes, owners>>
ProcessPipeTermAtOnce(e) ==
    /\ IsNext(e, "pipe_term")
    /\ state[e] \in {"active", "delimiter_received", "term_req_sent1"}
    /\ state' = [state EXCEPT ![e] =
          IF @ = "term_req_sent1" THEN "term_req_sent2" ELSE "term_ack_sent"]
    /\ outpipe' = [outpipe EXCEPT ![e] = NULL]
    /\ Process(e, <<Command("pipe_term_ack")>>)
    /\ UNCHANGED <<inpipe, in_active, out_active, delay, hwm, lwm, msgs_read,
                   msgs_written, peers_msgs_read, ypipes, owners>>

\* process_pipe_term (): wait for the delimiter if anything may be pending,
\* otherwise acknowledge at once.
ProcessPipeTerm(e) ==
    LET waits == state[e] = "active" /\ delay[e] IN
    /\ IsNext(e, "pipe_term")
    /\ state[e] \in {"active", "delimiter_received", "term_req_sent1"}
    /\ state' = [state EXCEPT ![e] =
          CASE waits -> "waiting_for_delimiter"
            [] @ = "term_req_sent1" -> "term_req_sent2"
            [] OTHER -> "term_ack_sent"]
    /\ outpipe' = [outpipe EXCEPT ![e] = IF waits THEN @ ELSE NULL]
    /\ Process(e, IF waits THEN <<>> ELSE <<Command("pipe_term_ack")>>)
    /\ UNCHANGED <<inpipe, in_active, out_active, delay, hwm, lwm, msgs_read,
                   msgs_written, peers_msgs_read, ypipes, owners>>

\* (mutant) The end that asked does not acknowledge in turn.
ProcessPipeTermAckSilent(e) ==
    /\ IsNext(e, "pipe_term_ack")
    /\ state[e] \in {"term_req_sent1", "term_ack_sent", "term_req_sent2"}
    /\ Process(e, <<>>)
    /\ state' = [state EXCEPT ![e] = "deleted"]
    /\ outpipe' = [outpipe EXCEPT ![e] = NULL]
    /\ inpipe' = [inpipe EXCEPT ![e] = NULL]
    /\ ypipes' = [ypipes EXCEPT ![inpipe[e]] = Deleted(@)]
    /\ UNCHANGED <<in_active, out_active, delay, hwm, lwm, msgs_read,
                   msgs_written, peers_msgs_read, owners>>

\* process_pipe_term_ack (): the last act of an end.
ProcessPipeTermAck(e) ==
    /\ IsNext(e, "pipe_term_ack")
    /\ state[e] \in {"term_req_sent1", "term_ack_sent", "term_req_sent2"}
    /\ Process(e, IF state[e] = "term_req_sent1"
                     THEN <<Command("pipe_term_ack")>> ELSE <<>>)
    /\ state' = [state EXCEPT ![e] = "deleted"]
    /\ outpipe' = [outpipe EXCEPT ![e] = NULL]
    /\ inpipe' = [inpipe EXCEPT ![e] = NULL]
    /\ ypipes' = [ypipes EXCEPT ![inpipe[e]] = Deleted(@)]
    /\ UNCHANGED <<in_active, out_active, delay, hwm, lwm, msgs_read,
                   msgs_written, peers_msgs_read, owners>>

ProcessCommand(e) ==
    \/ ProcessActivateRead(e)
    \/ ProcessActivateWrite(e)
    \/ ProcessHiccup(e)
    \/ ProcessPipeTerm(e)
    \/ ProcessPipeTermAck(e)

OwnerNext(e) ==
    \/ \E msg \in Writes(e) : Write(e, msg)
    \/ WriteFull(e)
    \/ Rollback(e)
    \/ Flush(e)
    \/ CheckRead(e)
    \/ Read(e)
    \/ \E d \in Delays[e] : Terminate(e, d) \/ TerminateAgain(e, d)
    \/ e \in Hiccupers /\ Hiccup(e)

Next ==
    /\ \/ \E e \in Ends : (Owned(e) /\ OwnerNext(e)) \/ ProcessCommand(e)
       \/ DropIdentity
       \/ SetHwms
    /\ UNCHANGED setup

Spec == Init /\ [][Next]_vars

(* Commands are processed, and the owners in Readers keep reading.         *)
FairSpec ==
    /\ Spec
    /\ \A e \in Ends :
          /\ WF_vars(ProcessCommand(e) /\ UNCHANGED setup)
          /\ WF_vars(Owned(e) /\ e \in Readers /\ Read(e) /\ UNCHANGED setup)

---------------------------------------------------------------------------
States == {"active", "delimiter_received", "waiting_for_delimiter",
           "term_ack_sent", "term_req_sent1", "term_req_sent2", "deleted"}
CommandTypes == {"activate_read", "activate_write", "hiccup", "pipe_term",
                 "pipe_term_ack"}
Messages ==
    [kind : {"data", "identity", "credential", "delimiter"},
     n : Nat, part : Nat, more : BOOLEAN]
YPipes ==
    [ready : Seq(Messages), batch : Seq(Messages), complete : Nat,
     asleep : BOOLEAN, exists : BOOLEAN]

TypeOK ==
    /\ setup \in Setups
    /\ state \in [Ends -> States]
    /\ ypipes \in Seq(YPipes)
    /\ \A i \in 1 .. Len(ypipes) : ypipes[i].complete <= Len(ypipes[i].batch)
    /\ inpipe \in [Ends -> 0 .. Len(ypipes)]
    /\ outpipe \in [Ends -> 0 .. Len(ypipes)]
    /\ in_active \in [Ends -> BOOLEAN]
    /\ out_active \in [Ends -> BOOLEAN]
    /\ delay \in [Ends -> BOOLEAN]
    /\ hwm \in [Ends -> Nat] /\ lwm \in [Ends -> Nat]
    /\ msgs_read \in [Ends -> Nat]
    /\ msgs_written \in [Ends -> Nat]
    /\ peers_msgs_read \in [Ends -> Nat]
    /\ mailbox \in [Ends -> Seq([type : CommandTypes, arg : Nat])]
    /\ sent \in [Ends -> Nat] /\ writing \in [Ends -> Nat]
    /\ got \in [Ends -> Nat] /\ reading \in [Ends -> Nat]
    /\ closes \in [Ends -> Nat]

\* A command of this type is among those in q.
Has(q, type) == \E i \in 1 .. Len(q) : q[i].type = type
InTransit(e, type) == Has(mailbox[e], type)
NoHiccup == Len(ypipes) = 2

(* No end ever follows a dangling pointer: what inpipe, outpipe or a       *)
(* hiccup command points to exists, and no command is on its way to an end *)
(* that has deleted itself.                                                *)
NothingDangles ==
    \A e \in Ends :
        /\ inpipe[e] # NULL => ypipes[inpipe[e]].exists
        /\ outpipe[e] # NULL => ypipes[outpipe[e]].exists
        /\ \A i \in 1 .. Len(mailbox[e]) :
              mailbox[e][i].type = "hiccup" => ypipes[mailbox[e][i].arg].exists
        /\ state[e] = "deleted" => mailbox[e] = <<>>

(* Each ypipe is deleted by exactly one of the ends: none is left when     *)
(* both are gone, hiccups included.                                        *)
NothingLeaks ==
    (\A e \in Ends : state[e] = "deleted") =>
        \A i \in 1 .. Len(ypipes) : ~ypipes[i].exists

(* A ypipe is safe with one reader and one writer only.  In particular the *)
(* end that drains its old outpipe in process_hiccup is its only reader.   *)
SoleReader ==
    /\ inpipe[1] # NULL => inpipe[1] \notin {inpipe[2], outpipe[1]}
    /\ inpipe[2] # NULL => inpipe[2] # outpipe[2]
    /\ outpipe[1] # NULL => outpipe[1] # outpipe[2]
    /\ \A e \in Ends : IsNext(e, "hiccup") => inpipe[Peer(e)] # outpipe[e]

(* The assertions of the command handlers: a command never finds its end   *)
(* in a state that the handler does not expect.                            *)
CommandsExpected ==
    \A e \in Ends :
        /\ IsNext(e, "pipe_term") =>
              state[e] \in {"active", "delimiter_received", "term_req_sent1"}
        /\ IsNext(e, "pipe_term_ack") =>
              state[e] \in {"term_req_sent1", "term_ack_sent", "term_req_sent2"}
        /\ IsNext(e, "hiccup") => outpipe[e] # NULL

(* No lost wakeup: an end that believes there is nothing to read, while    *)
(* its ypipe holds something, has been told or is about to be.             *)
WakeupOnItsWay ==
    \A e \in Ends :
        /\ state[e] \in {"active", "waiting_for_delimiter"}
        /\ ~in_active[e]
        /\ ypipes[inpipe[e]].ready # <<>>
        => InTransit(e, "activate_read")

(* The two ends share the ypipes without ever getting into each other's    *)
(* way, through hiccups and termination in any order: nothing dangles,     *)
(* nothing leaks, every ypipe has one reader and one writer, the           *)
(* assertions of the handlers hold, and no reader misses a wakeup.         *)
SharedSafely ==
    /\ TypeOK
    /\ NothingDangles /\ NothingLeaks /\ SoleReader
    /\ CommandsExpected /\ WakeupOnItsWay

(* What makes SharedSafely inductive.                                      *)

\* What an end's state tells about the other one's.
Agreeing ==
    ({"active", "delimiter_received"} \X
        {"active", "delimiter_received", "term_req_sent1"})
    \cup ({"term_req_sent1"} \X (States \ {"deleted"}))
    \cup ({"waiting_for_delimiter"} \X {"term_req_sent1"})
    \cup ({"term_ack_sent"} \X {"term_req_sent1", "deleted"})
    \cup ({"term_req_sent2"} \X {"term_req_sent1", "term_req_sent2", "deleted"})
    \cup ({"deleted"} \X {"term_ack_sent", "term_req_sent2", "deleted"})

\* The states of an end that has asked its peer to terminate, that has still
\* to see the peer's request if there is one, and that has acknowledged it.
Asked == {"term_req_sent1", "term_req_sent2"}
Unasked == {"active", "delimiter_received", "term_req_sent1"}
Acked == {"term_ack_sent", "term_req_sent2", "deleted"}

\* The termination handshake: which of its commands are on their way follows
\* from the states of the two ends, and so does which pointers are there.
Handshake ==
    \A e \in Ends :
        /\ <<state[e], state[Peer(e)]>> \in Agreeing
        /\ InTransit(e, "pipe_term") <=>
              state[Peer(e)] \in Asked /\ state[e] \in Unasked
        /\ InTransit(e, "pipe_term_ack") <=>
              state[Peer(e)] \in Acked /\ state[e] # "deleted"
        /\ InTransit(e, "hiccup") => state[e] \in Unasked
        /\ outpipe[e] = NULL <=> state[e] \in Acked
        /\ inpipe[e] = NULL <=> state[e] = "deleted"
        /\ state[e] = "deleted" => mailbox[e] = <<>>

\* An acknowledgement is the last command an end sends, hiccups come before
\* its request to terminate, and each with a newer ypipe than the one before.
InSequence(q) ==
    \A i, j \in 1 .. Len(q) : i < j =>
        /\ q[i].type # "pipe_term_ack"
        /\ q[i].type = "pipe_term" => q[j].type \notin {"hiccup", "pipe_term"}
        /\ q[i].type = "hiccup" /\ q[j].type = "hiccup" => q[i].arg < q[j].arg

\* The ypipes that commands in q bring; those e writes to, has been told to
\* write to, or its peer reads.
Brought(q) == {q[i].arg : i \in {j \in 1 .. Len(q) : q[j].type = "hiccup"}}
Replacements(e) == Brought(mailbox[e])
Stream(e) == ({outpipe[e], inpipe[Peer(e)]} \cup Replacements(e)) \ {NULL}

\* The peer reads what e writes to, or the newest replacement on its way.
Replaced ==
    \A e \in Ends :
        /\ \A r \in Replacements(e) : outpipe[e] < r /\ r <= inpipe[Peer(e)]
        /\ outpipe[e] # NULL =>
              inpipe[Peer(e)] \in {outpipe[e]} \cup Replacements(e)

\* The ypipes that exist are those of the two streams, which share none.
Kept ==
    /\ Stream(1) \cap Stream(2) = {}
    /\ \A i \in 1 .. Len(ypipes) :
          ypipes[i].exists <=> i \in Stream(1) \cup Stream(2)

SharedInv ==
    /\ TypeOK /\ Handshake /\ Replaced /\ Kept
    /\ \A e \in Ends : InSequence(mailbox[e])

\* A reader that is not awake is asleep in front of an empty ypipe, or is
\* about to be woken.
Sleeping ==
    \A e \in Ends :
        state[e] \in {"active", "waiting_for_delimiter"} /\ ~in_active[e] =>
            \/ InTransit(e, "activate_read")
            \/ ypipes[inpipe[e]].asleep /\ ypipes[inpipe[e]].ready = <<>>

Counted(m) == ~m.more /\ m.kind # "identity" /\ m.kind # "delimiter"
Backlog(q) == Len(SelectSeq(q.ready \o q.batch, Counted))

(* Flow control: the credit a writer counts on was really given, and no    *)
(* more whole messages than the high watermark wait in the pipe.           *)
WithinHwm ==
    \A e \in Ends :
        /\ peers_msgs_read[e] <= msgs_read[Peer(e)]
        /\ msgs_read[Peer(e)] <= msgs_written[e]
        /\ hwm[e] > 0 /\ outpipe[e] # NULL =>
              Backlog(ypipes[outpipe[e]]) <= hwm[e]

\* The peer of e has read everything there was and told e all it will tell,
\* and still e does not write on.  Messages that a hiccup has dropped stay
\* counted: nothing is said of what comes after one.
Stalled(e) ==
    /\ NoHiccup
    /\ state[e] = "active"
    /\ Backlog(ypipes[outpipe[e]]) = 0
    /\ ~InTransit(e, "activate_write")
    /\ ~out_active[e] \/ Full(e)

(* A writer stopped by the high watermark is released at the latest when   *)
(* its peer has read everything ("after filling the queue it would start   *)
(* to refill only after all the messages are read from it", says           *)
(* compute_lwm of a low LWM).                                              *)
RefillsWhenDrained == \A e \in Ends : ~Stalled(e)

\* A credential is counted when written and not when read: with a watermark
\* of one it fills the pipe for good.
CredentialFills(e) == hwm[e] = 1 /\ msgs_written[e] > msgs_read[Peer(e)]

\* The connecting socket had filled the pipe before the bind: the credit of
\* the new watermarks is too coarse to wake it, or there is none.
StoppedUnbound(e) == hwm[e] # InitHwm[e] /\ msgs_written[e] = InitHwm[e]

(* A writer gets back the room that was read, and never more, whatever the *)
(* watermarks, and whether or not a late bind changes them; it is left     *)
(* without in the two cases described above, and in no other.              *)
FlowControl ==
    /\ WithinHwm
    /\ \A e \in Ends : Stalled(e) => CredentialFills(e) \/ StoppedUnbound(e)

(* The owner reads each part right after the one before it, and never a    *)
(* part of a message whose first parts it has not been given.              *)
MessagesWhole ==
    \A e \in Ends :
        LET q == SkipCredentials(ypipes[inpipe[e]]) IN
        /\ Readable(e) /\ q.ready # <<>> /\ Head(q.ready) # Delimiter
        => Head(q.ready).part = reading[e] + 1

(* Messages are read in the order they were written, each once; only a     *)
(* hiccup loses any.                                                       *)
InOrder ==
    [][\A e \in Ends :
          \/ got'[e] \in {got[e], got[e] + 1}
          \/ ~NoHiccup /\ got'[e] > got[e]]_vars

(* The stream of messages arrives as it was written: parts together,       *)
(* messages in order, each once.                                           *)
StreamIntact == []MessagesWhole /\ InOrder

(* With delay, an end lets go of the pipe only when its owner has read     *)
(* every message the peer's owner had written.                             *)
PendingAreRead ==
    [][\A e \in Ends :
          /\ NoHiccup
          /\ \/ state'[e] = "delimiter_received"
             \/ /\ state[e] \in {"active", "waiting_for_delimiter"}
                /\ state'[e] = "term_ack_sent" /\ delay'[e]
          => got'[e] = sent[Peer(e)]]_vars

(* Termination, once begun on either end, completes on both, provided that *)
(* the owners keep reading and no hiccup interferes.                       *)
TerminationCompletesIfRead ==
    ((\E e \in Ends : state[e] # "active") /\ Readers = Ends /\ Hiccupers = {})
        ~> (\A e \in Ends : state[e] = "deleted")

(* What pipe.hpp promises of terminate (): "The termination will happen    *)
(* asynchronously and user will be notified about actual deallocation".    *)
TerminationCompletes ==
    \A e \in Ends : (state[e] # "active") ~> (state[e] = "deleted")
============================================================================
