-------------------------------- MODULE Own --------------------------------
(***************************************************************************)
(* own_t (own.cpp): the ownership tree in which 0MQ objects live and die.  *)
(* A socket owns listeners and sessions, a listener owns the sessions it   *)
(* has accepted, a session owns the connecters it starts.  Every object    *)
(* runs in one thread and is reached only by commands through the mailbox  *)
(* of that thread.                                                         *)
(*                                                                         *)
(* Two counters keep an object from being deleted too early: term_acks,    *)
(* the owned objects that have not confirmed their termination yet, and    *)
(* the difference of sent_seqnum, which any thread increments when it      *)
(* sends a counted command, and processed_seqnum.                          *)
(*                                                                         *)
(* The objects here are any that follow the rules of own_t; Session adds   *)
(* what sockets, sessions, connecters and their pipes do on top of it.     *)
(***************************************************************************)
EXTENDS Integers, Sequences, FiniteSets, SequencesExt

CONSTANTS
    Objects,    \* the addresses objects may have, the root's among them
    Root,       \* the socket; it runs behind a mailbox of its own
    IOThreads,  \* the I/O threads
    NoOne,      \* the NULL pointer
    Budgets     \* bounds: how often objects are launched, post attach and
                \* bind commands, and ask for termination in a behaviour

Threads == {Root} \cup IOThreads

ASSUME OwnAssumption ==
    /\ Root \in Objects
    /\ Root \notin IOThreads
    /\ NoOne \notin Objects
    /\ Budgets \subseteq [launches : Nat, posts : Nat, asks : Nat]

VARIABLES
    obj,        \* the fields of every object
    mailbox,    \* the commands on their way to each thread
    launching,  \* what launch_child () of a thread has still to do
    left        \* what is left of the budget

vars == <<obj, mailbox, launching, left>>

Stages == {"none", "launched", "plugged", "destroyed"}

\* life tells the objects that have had the same address apart.
Unborn ==
    [stage |-> "none", thread |-> Root, owner |-> NoOne, owned |-> {},
     terminating |-> FALSE, sent_seqnum |-> 0, processed_seqnum |-> 0,
     term_acks |-> 0, life |-> 0]

Exists(o) == obj[o].stage \in {"launched", "plugged"}

Command(to, type, arg) == [to |-> to, type |-> type, arg |-> arg]

\* A term_req names the object by its address; its life is not in the code.
TermReq(x, c) ==
    [to |-> x.owner, type |-> "term_req", arg |-> c, life |-> x.life]

---------------------------------------------------------------------------
(* The methods of own_t, on a heap h: the objects and the mailboxes.       *)

Heap == [obj |-> obj, mailbox |-> mailbox]

\* send_command ()
Send(h, cmd) ==
    [h EXCEPT !.mailbox[h.obj[cmd.to].thread] = Append(@, cmd)]

\* inc_seqnum ()
IncSeqnum(h, o) == [h EXCEPT !.obj[o].sent_seqnum = @ + 1]

SendCounted(h, cmd) == Send(IncSeqnum(h, cmd.to), cmd)

\* The term commands to the objects os of one thread, in the order of the
\* set that holds them.
Terms(os) ==
    LET order == SetToSeq(os)
    IN  [i \in DOMAIN order |-> Command(order[i], "term", NoOne)]

SendTerms(h, os) ==
    [h EXCEPT !.mailbox =
        [t \in DOMAIN @ |-> @[t] \o Terms({c \in os : h.obj[c].thread = t})]]

\* (mutants) The sequence numbers are not looked at; neither are the acks.
CheckAcksOnly(h, o) ==
    LET x == h.obj[o]
        acked == IF x.owner = NoOne THEN h
                 ELSE Send(h, Command(x.owner, "term_ack", o))
    IN  IF x.terminating /\ x.term_acks = 0
           THEN [acked EXCEPT !.obj[o].stage = "destroyed"]
           ELSE h
CheckSeqnumOnly(h, o) ==
    LET x == h.obj[o]
        acked == IF x.owner = NoOne THEN h
                 ELSE Send(h, Command(x.owner, "term_ack", o))
    IN  IF x.terminating /\ x.processed_seqnum = x.sent_seqnum
           THEN [acked EXCEPT !.obj[o].stage = "destroyed"]
           ELSE h
\* check_term_acks ()
CheckTermAcks(h, o) ==
    LET x == h.obj[o]
        acked == IF x.owner = NoOne THEN h
                 ELSE Send(h, Command(x.owner, "term_ack", o))
    IN  IF /\ x.terminating
           /\ x.processed_seqnum = x.sent_seqnum
           /\ x.term_acks = 0
           THEN [acked EXCEPT !.obj[o].stage = "destroyed"]
           ELSE h

\* process_seqnum ()
ProcessSeqnum(h, o) ==
    CheckTermAcks([h EXCEPT !.obj[o].processed_seqnum = @ + 1], o)

\* own_t::process_term ()
ProcessTerm(h, o) ==
    LET owned == h.obj[o].owned IN
    CheckTermAcks(
        [SendTerms(h, owned) EXCEPT
            !.obj[o].term_acks = @ + Cardinality(owned),
            !.obj[o].owned = {},
            !.obj[o].terminating = TRUE], o)

\* (mutants) The ack is not registered; the object stays among the owned ones.
ProcessTermReqUncounted(h, o, c) ==
    IF h.obj[o].terminating \/ c \notin h.obj[o].owned
       THEN h
       ELSE Send([h EXCEPT !.obj[o].owned = @ \ {c}],
                 Command(c, "term", NoOne))
ProcessTermReqKeeps(h, o, c) ==
    IF h.obj[o].terminating \/ c \notin h.obj[o].owned
       THEN h
       ELSE Send([h EXCEPT !.obj[o].term_acks = @ + 1],
                 Command(c, "term", NoOne))
\* process_term_req (object_)
ProcessTermReq(h, o, c) ==
    IF h.obj[o].terminating \/ c \notin h.obj[o].owned
       THEN h
       ELSE Send([h EXCEPT !.obj[o].owned = @ \ {c},
                           !.obj[o].term_acks = @ + 1],
                 Command(c, "term", NoOne))

\* (mutant) A late object is kept although everybody has been asked to go.
ProcessOwnKeeps(h, o, c) == [h EXCEPT !.obj[o].owned = @ \cup {c}]
\* process_own (object_)
ProcessOwn(h, o, c) ==
    IF h.obj[o].terminating
       THEN Send([h EXCEPT !.obj[o].term_acks = @ + 1],
                 Command(c, "term", NoOne))
       ELSE [h EXCEPT !.obj[o].owned = @ \cup {c}]

\* process_term_ack ()
ProcessTermAck(h, o) ==
    CheckTermAcks([h EXCEPT !.obj[o].term_acks = @ - 1], o)

\* process_command () for the commands every object understands
ProcessCommand(h, cmd) ==
    LET o == cmd.to IN
    CASE cmd.type = "plug" ->
            ProcessSeqnum([h EXCEPT !.obj[o].stage = "plugged"], o)
      [] cmd.type = "own" -> ProcessSeqnum(ProcessOwn(h, o, cmd.arg), o)
      [] cmd.type \in {"attach", "bind"} -> ProcessSeqnum(h, o)
      [] cmd.type = "term_req" -> ProcessTermReq(h, o, cmd.arg)
      [] cmd.type = "term" -> ProcessTerm(h, o)
      [] cmd.type = "term_ack" -> ProcessTermAck(h, o)

\* The first half of launch_child (c) by o, up to send_plug: thread t may
\* handle the new object before the second half, send_own, has been done.
\* A listener counts the attach it is going to send in advance.
LaunchPlug(h, o, c, t, counted, life) ==
    SendCounted([h EXCEPT !.obj[c] =
                    [Unborn EXCEPT !.stage = "launched", !.thread = t,
                                   !.owner = o, !.sent_seqnum = counted,
                                   !.life = life]],
                Command(c, "plug", NoOne))

\* (mutant) The owner takes the object at once instead of by a command.
LaunchOwnDirect(h, o, c) == [h EXCEPT !.obj[o].owned = @ \cup {c}]
LaunchOwn(h, o, c) == SendCounted(h, Command(o, "own", c))

---------------------------------------------------------------------------
(* The specification: any objects that keep to the rules.                  *)

Init ==
    /\ obj = [o \in Objects |->
                IF o = Root THEN [Unborn EXCEPT !.stage = "plugged"]
                ELSE Unborn]
    /\ mailbox = [t \in Threads |-> <<>>]
    /\ launching = [t \in Threads |-> <<>>]
    /\ left \in Budgets

\* The thread of o is between two events and o can act.
Ready(o) == obj[o].stage = "plugged" /\ launching[obj[o].thread] = <<>>

Becomes(h) == obj' = h.obj /\ mailbox' = h.mailbox

\* launch_child (): the socket only while it is open; other objects also
\* when they are shutting down (a session whose engine fails reconnects).
\* The new object may get the address of one that has been deleted.
Launch(o, c, t, counted) ==
    /\ Ready(o)
    /\ o = Root => ~obj[Root].terminating
    /\ c # Root /\ ~Exists(c)
    /\ left.launches > 0
    /\ Becomes(LaunchPlug(Heap, o, c, t, counted, left.launches))
    /\ launching' = [launching EXCEPT ![obj[o].thread] =
          <<[owner |-> o, child |-> c, counted |-> counted]>>]
    /\ left' = [left EXCEPT !.launches = @ - 1]

\* The second half of launch_child (), and the attach of a listener
FinishLaunch(t) ==
    /\ launching[t] # <<>>
    /\ LET l == launching[t][1]
           h == LaunchOwn(Heap, l.owner, l.child)
       IN  Becomes(IF l.counted = 0 THEN h
                   ELSE Send(h, Command(l.child, "attach", NoOne)))
    /\ launching' = [launching EXCEPT ![t] = <<>>]
    /\ UNCHANGED left

\* A connecter attaches an engine to its session; a session asks the
\* socket, which may be further up, to take one end of a pipe.
Post(o, to) ==
    /\ Ready(o)
    /\ ~obj[o].terminating
    /\ left.posts > 0
    /\ o # Root
    /\ to \in {obj[o].owner, Root}
    /\ Becomes(SendCounted(Heap, Command(to,
                   IF to = Root THEN "bind" ELSE "attach", NoOne)))
    /\ left' = [left EXCEPT !.posts = @ - 1]
    /\ UNCHANGED launching

\* terminate () of an object that has an owner
Terminate(o) ==
    /\ Ready(o)
    /\ ~obj[o].terminating
    /\ left.asks > 0
    /\ o # Root
    /\ Becomes(Send(Heap, TermReq(obj[o], o)))
    /\ left' = [left EXCEPT !.asks = @ - 1]
    /\ UNCHANGED launching

\* term_child (object_), which the socket calls for an endpoint
TermChild(c) ==
    /\ Ready(Root)
    /\ ~obj[Root].terminating
    /\ left.asks > 0
    /\ Exists(c) /\ obj[c].owner = Root
    /\ Becomes(ProcessTermReq(Heap, Root, c))
    /\ left' = [left EXCEPT !.asks = @ - 1]
    /\ UNCHANGED launching

\* terminate () of the root, from start_reaping ()
Close ==
    /\ Ready(Root)
    /\ ~obj[Root].terminating
    /\ Becomes(ProcessTerm(Heap, Root))
    /\ UNCHANGED <<launching, left>>

\* in_event () of an I/O thread, or process_commands () of a socket
Process(t) ==
    /\ launching[t] = <<>>
    /\ mailbox[t] # <<>>
    /\ Becomes(ProcessCommand([Heap EXCEPT !.mailbox[t] = Tail(@)],
                              Head(mailbox[t])))
    /\ UNCHANGED <<launching, left>>

Next ==
    \/ \E o, c \in Objects, t \in IOThreads, counted \in {0, 1} :
          Launch(o, c, t, counted)
    \/ \E t \in Threads : FinishLaunch(t) \/ Process(t)
    \/ \E o, to \in Objects : Post(o, to)
    \/ \E o \in Objects : Terminate(o) \/ TermChild(o)
    \/ Close

Spec == Init /\ [][Next]_vars

\* Threads that have work do it: an I/O thread polls its mailbox, and a
\* socket is polled by its user and then by the reaper.  With so many objects
\* and commands, they come to rest.
AtRest == \A t \in Threads : launching[t] = <<>> /\ mailbox[t] = <<>>
FairSpec == Spec /\ []<>AtRest

---------------------------------------------------------------------------
Commands == UNION {Range(mailbox[t]) : t \in Threads}

TypeOK ==
    /\ obj \in [Objects ->
          [stage : Stages, thread : Threads, owner : Objects \cup {NoOne},
           owned : SUBSET Objects, terminating : BOOLEAN, sent_seqnum : Nat,
           processed_seqnum : Nat, term_acks : Nat, life : Nat]]
    /\ \A c \in Commands :
          /\ c.to \in Objects
          /\ c.type \in {"plug", "own", "attach", "bind", "term_req", "term",
                         "term_ack"}

\* No command is on its way to an object that has been deleted, an object
\* still exists when its owner gets to know it, and it outlives everything it
\* owns and everything a thread is in the middle of launching for it: what the
\* sequence numbers and the acknowledgements of own.cpp are for.
NoCommandToDeleted ==
    /\ \A c \in Commands :
          /\ Exists(c.to)
          /\ c.type = "own" => Exists(c.arg)
    /\ \A c \in Objects \ {Root} : Exists(c) => Exists(obj[c].owner)
    /\ \A t \in Threads : launching[t] # <<>> => Exists(launching[t][1].owner)

\* A term_req may name an object that is gone, and whose address a new
\* object has got: process_term_req () never takes the one for the other.
RequestMeansItsSender(cmd) ==
    /\ cmd.type = "term_req"
    /\ ~obj[cmd.to].terminating
    /\ cmd.arg \in obj[cmd.to].owned
    => cmd.life = obj[cmd.arg].life

\* Every command means what its handler takes it for.  The assertions of
\* own.cpp: process_term () is not called twice, an ack is expected when it
\* comes, and nothing is owned when the object is deleted.  A term command
\* finds its object plugged, as the listener's process_term () removes the
\* handle that process_plug () adds; a term_req means who sent it.
AssertionsHold ==
    /\ TypeOK
    /\ \A t \in Threads : mailbox[t] # <<>> =>
          LET cmd == Head(mailbox[t]) IN
          /\ cmd.type = "term" => /\ ~obj[cmd.to].terminating
                                  /\ obj[cmd.to].stage = "plugged"
          /\ cmd.type = "term_ack" => obj[cmd.to].term_acks > 0
          /\ RequestMeansItsSender(cmd)
    /\ \A o \in Objects :
          obj[o].stage = "destroyed" => obj[o].owned = {}

\* Closing the socket deletes the whole tree.
TreeIsTornDown ==
    obj[Root].terminating ~> \A o \in Objects : ~Exists(o)
=============================================================================
