------------------------------ MODULE Context ------------------------------
(***************************************************************************)
(* ctx_t (ctx.cpp), reaper_t (reaper.cpp) and what socket_base_t does with *)
(* them: sockets are created, bound and connected to an inproc address,    *)
(* closed and handed to the reaper thread, while other threads call        *)
(* zmq_ctx_shutdown () and zmq_ctx_term ().                                *)
(*                                                                         *)
(* Every socket is used by a thread of its own until it is closed.  What   *)
(* slot_sync or endpoints_sync protects is one step; whatever another      *)
(* thread may do in between is possible in between.  The objects below a   *)
(* socket are left to Own, and how the two ends of a pipe agree to go      *)
(* away is left to Pipe: here a pipe both ends of which have an owner goes *)
(* away some time after one of them has asked for it.                      *)
(***************************************************************************)
EXTENDS Integers, Sequences, FiniteSets

CONSTANTS
    Apps,         \* sockets the application may create
    Pairs,        \* PAIR sockets that terminate () may create
    NoOne,        \* the NULL pointer
    Budgets       \* bounds, and what the application does: max_sockets, how
                  \* often it connects and binds, whether it calls shutdown (),
                  \* how often its wait is interrupted

Sockets == Apps \cup Pairs

ASSUME ContextAssumption ==
    /\ Apps \cap Pairs = {} /\ NoOne \notin Sockets
    /\ Budgets \subseteq [max_sockets : Nat, connects : Nat, binds : Nat,
                          shutdowns : Nat, interrupts : Nat]

VARIABLES
    \* ctx_t
    starting, terminating,
    sockets,      \* the sockets registered with the context
    endpoint,     \* the socket bound to the inproc address
    pending,      \* pipes of connections that wait for the bind
    term_mailbox, \* done commands
    \* socket_base_t
    life,         \* of each socket: none, open, closed, reaping, deleted
    calls,        \* the call each socket is in the middle of
    mailbox,      \* the commands on their way to each socket
    stopped,      \* sockets with ctx_terminated set
    sent_seqnum, processed_seqnum,
    \* pipe_t: pipe n connects pipe[n].from to pipe[n].to
    pipe,
    \* reaper_t
    reaper_mailbox, reaped,
    reaper,       \* running, terminating or stopped
    \* the thread inside terminate ()
    tpc, copy, tpair,
    left          \* what is left of the budget

socketVars == <<life, calls, mailbox, stopped, sent_seqnum, processed_seqnum>>
reaperVars == <<reaper_mailbox, reaped, reaper>>
termVars == <<tpc, copy, tpair>>
ctxVars == <<starting, terminating, sockets, endpoint, pending, term_mailbox>>
vars == <<ctxVars, socketVars, pipe, reaperVars, termVars, left>>

Init ==
    /\ starting = TRUE
    /\ terminating = FALSE
    /\ sockets = {}
    /\ endpoint = NoOne
    /\ pending = {}
    /\ term_mailbox = 0
    /\ life = [s \in Sockets |-> "none"]
    /\ calls = [s \in Sockets |-> "none"]
    /\ mailbox = [s \in Sockets |-> <<>>]
    /\ stopped = {}
    /\ sent_seqnum = [s \in Sockets |-> 0]
    /\ processed_seqnum = [s \in Sockets |-> 0]
    /\ pipe = <<>>
    /\ reaper_mailbox = <<>>
    /\ reaped = 0
    /\ reaper = "running"
    /\ tpc = "idle"
    /\ copy = {}
    /\ tpair = NoOne
    /\ left \in Budgets

Command(type, arg) == [type |-> type, arg |-> arg]
\* Where the commands of a type are in a mailbox.
At(q, type) == {i \in 1 .. Len(q) : q[i].type = type}
Spend(what) == left' = [left EXCEPT ![what] = @ - 1]
ToReaper(cmds) == reaper_mailbox' = reaper_mailbox \o cmds

---------------------------------------------------------------------------
(* Creating and deleting sockets, under slot_sync.                         *)

\* (mutant) A terminating context still creates sockets.
CanCreateAnyTime == Cardinality(sockets) < left.max_sockets
CanCreate == ~terminating /\ Cardinality(sockets) < left.max_sockets

\* create_socket () that succeeds; the first one starts the threads.
Create(s) ==
    /\ life[s] = "none"
    /\ CanCreate
    /\ starting' = FALSE
    /\ sockets' = sockets \cup {s}
    /\ life' = [life EXCEPT ![s] = "open"]
    /\ UNCHANGED <<terminating, endpoint, pending, term_mailbox, calls,
                   mailbox, stopped, sent_seqnum, processed_seqnum, pipe,
                   reaperVars>>

CreateApp(s) ==
    /\ s \in Apps
    /\ tpc # "finished"
    /\ Create(s)
    /\ UNCHANGED <<termVars, left>>

\* The pipes that s has an end of and that are not gone.
PipesOf(s) ==
    {n \in DOMAIN pipe : ~pipe[n].gone /\ s \in {pipe[n].from, pipe[n].to}}

\* (mutant) Commands on their way to the socket are not waited for.
CanDeleteEarly(s) == life[s] = "reaping" /\ PipesOf(s) = {}
\* check_term_acks (): every pipe is gone and every counted command is in.
CanDelete(s) ==
    /\ life[s] = "reaping"
    /\ PipesOf(s) = {}
    /\ sent_seqnum[s] = processed_seqnum[s]

\* (mutant) The reaper is stopped when the context terminates only.
StopsReaperNever(left_over) == FALSE
StopsReaper(left_over) == terminating /\ left_over = {}

\* check_destroy (): destroy_socket (), send_reaped () and delete
Delete(s) ==
    /\ CanDelete(s)
    /\ sockets' = sockets \ {s}
    /\ life' = [life EXCEPT ![s] = "deleted"]
    /\ ToReaper((IF StopsReaper(sockets \ {s}) THEN <<Command("stop", NoOne)>>
                 ELSE <<>>) \o <<Command("reaped", NoOne)>>)
    /\ UNCHANGED <<starting, terminating, endpoint, pending, term_mailbox,
                   calls, mailbox, stopped, sent_seqnum, processed_seqnum,
                   pipe, reaped, reaper, termVars, left>>

---------------------------------------------------------------------------
(* The calls of the application, each on a socket it has not closed.  A    *)
(* call first processes the socket's mailbox and gives up if the context   *)
(* is terminating.                                                         *)

MayCall(s) ==
    /\ s \in Apps
    /\ life[s] = "open" /\ calls[s] = "none"
    /\ mailbox[s] = <<>> /\ s \notin stopped

Enter(s, call) ==
    /\ calls' = [calls EXCEPT ![s] = call]
    /\ UNCHANGED <<ctxVars, life, mailbox, stopped, sent_seqnum,
                   processed_seqnum, pipe, reaperVars, termVars>>

ConnectStart(s) ==
    MayCall(s) /\ left.connects > 0 /\ Spend("connects") /\ Enter(s, "find")
BindStart(s) ==
    MayCall(s) /\ left.binds > 0 /\ Spend("binds") /\ Enter(s, "register")

\* (mutant) The peer is not told to expect the bind command.
IncSeqnumNot(seq, s) == seq
IncSeqnum(seq, s) == [seq EXCEPT ![s] = @ + 1]

\* pipepair (), and attach_pipe () to the connecting socket
NewPipe(from, peer) ==
    [from |-> from, peer |-> peer, to |-> NoOne, asked |-> FALSE, gone |-> FALSE]

\* The pipes whose other end is attached to s, and those of ns among them
\* that s asks to terminate: all if it is shutting down, and a PAIR socket
\* keeps no more than one.
Attached(s, ns) ==
    LET kept == IF life[s] = "reaping" THEN {}
                ELSE IF s \notin Pairs THEN ns
                ELSE IF PipesOf(s) # {} \/ ns = {} THEN {}
                ELSE {CHOOSE n \in ns : TRUE}
    IN  [n \in DOMAIN pipe |->
            IF n \notin ns THEN pipe[n]
            ELSE [pipe[n] EXCEPT !.to = s, !.asked = @ \/ n \notin kept]]

\* find_endpoint () has an answer, and the pipe is there.  A peer is told to
\* wait for the bind command.
ConnectFind(s) ==
    /\ calls[s] = "find"
    /\ pipe' = Append(pipe, NewPipe(s, endpoint))
    /\ IF endpoint = NoOne
       THEN /\ calls' = [calls EXCEPT ![s] = "pend"]
            /\ UNCHANGED sent_seqnum
       ELSE /\ calls' = [calls EXCEPT ![s] = "bind"]
            /\ sent_seqnum' = IncSeqnum(sent_seqnum, endpoint)
    /\ UNCHANGED <<ctxVars, life, mailbox, stopped, processed_seqnum,
                   reaperVars, termVars, left>>

\* The pipe of the call that s is in: the last one it made.
PipeInCall(s) ==
    CHOOSE n \in DOMAIN pipe :
        pipe[n].from = s /\ \A k \in DOMAIN pipe : pipe[k].from = s => k <= n

SendBind(s, peer) ==
    mailbox' = [mailbox EXCEPT ![peer] = Append(@, Command("bind", PipeInCall(s)))]

\* connect (): the bind command to the peer that was found
ConnectBind(s) ==
    /\ calls[s] = "bind"
    /\ SendBind(s, pipe[PipeInCall(s)].peer)
    /\ calls' = [calls EXCEPT ![s] = "none"]
    /\ UNCHANGED <<ctxVars, life, stopped, sent_seqnum, processed_seqnum,
                   pipe, reaperVars, termVars, left>>

\* (mutant) A bind that has happened in the mean time is not noticed.
BoundMeanwhileNever == FALSE
BoundMeanwhile == endpoint # NoOne

\* pend_connection (): the connection waits for a bind, and the socket for the
\* connection; or the bind has happened in the mean time.
ConnectPend(s) ==
    /\ calls[s] = "pend"
    /\ IF BoundMeanwhile
       THEN /\ sent_seqnum' = IncSeqnum(sent_seqnum, endpoint)
            /\ SendBind(s, endpoint)
            /\ UNCHANGED pending
       ELSE /\ sent_seqnum' = IncSeqnum(sent_seqnum, s)
            /\ pending' = pending \cup {PipeInCall(s)}
            /\ UNCHANGED mailbox
    /\ calls' = [calls EXCEPT ![s] = "none"]
    /\ UNCHANGED <<starting, terminating, sockets, endpoint, term_mailbox,
                   life, stopped, processed_seqnum, pipe, reaperVars,
                   termVars, left>>

\* register_endpoint ()
Register(s) == IF endpoint = NoOne THEN s ELSE endpoint

BindRegister(s) ==
    /\ calls[s] = "register"
    /\ endpoint' = Register(s)
    /\ calls' = [calls EXCEPT ![s] = IF endpoint = NoOne THEN "connect_pending"
                                     ELSE "none"]
    /\ UNCHANGED <<starting, terminating, sockets, pending, term_mailbox, life,
                   mailbox, stopped, sent_seqnum, processed_seqnum, pipe,
                   reaperVars, termVars, left>>

\* How many of the pending connections are of socket s.
PendingOf(s) == Cardinality({n \in pending : pipe[n].from = s})

\* connect_pending (): the waiting pipes are attached to s, and each of the
\* connecting sockets is told that it need not wait any longer.
ConnectPending(s) ==
    /\ pipe' = Attached(s, pending)
    /\ sent_seqnum' = [sent_seqnum EXCEPT ![s] = @ + Cardinality(pending)]
    /\ processed_seqnum' = [processed_seqnum EXCEPT ![s] = @ + Cardinality(pending)]
    /\ mailbox' = [c \in Sockets |-> mailbox[c] \o
                     [i \in 1..PendingOf(c) |-> Command("inproc_connected", NoOne)]]
    /\ pending' = {}

BindPending(s) ==
    /\ calls[s] = "connect_pending"
    /\ ConnectPending(s)
    /\ calls' = [calls EXCEPT ![s] = "none"]
    /\ UNCHANGED <<starting, terminating, sockets, endpoint, term_mailbox,
                   life, stopped, reaperVars, termVars, left>>

\* term_endpoint (): an endpoint of the socket is unbound, or its connections
\* are asked to terminate.
TermEndpoint(s) ==
    /\ MayCall(s)
    /\ IF endpoint = s
       THEN endpoint' = NoOne /\ UNCHANGED pipe
       ELSE /\ \E n \in DOMAIN pipe : pipe[n].from = s /\ ~pipe[n].asked
            /\ pipe' = [n \in DOMAIN pipe |->
                           [pipe[n] EXCEPT !.asked = @ \/ pipe[n].from = s]]
            /\ UNCHANGED endpoint
    /\ UNCHANGED <<starting, terminating, sockets, pending, term_mailbox,
                   socketVars, reaperVars, termVars, left>>

\* close (): the socket is handed to the reaper.
Close(s) ==
    /\ life[s] = "open" /\ calls[s] = "none"
    /\ life' = [life EXCEPT ![s] = "closed"]
    /\ ToReaper(<<Command("reap", s)>>)

CloseApp(s) ==
    /\ s \in Apps
    /\ Close(s)
    /\ UNCHANGED <<ctxVars, calls, mailbox, stopped, sent_seqnum,
                   processed_seqnum, pipe, reaped, reaper,
                   termVars, left>>

---------------------------------------------------------------------------
(* What happens to a socket in the thread that has it: the application's   *)
(* while it is open and has not seen ETERM, the reaper's after that.       *)

InThread(s) ==
    \/ life[s] = "open" /\ calls[s] = "none" /\ s \notin stopped
    \/ life[s] = "reaping"

Has(s, type) == At(mailbox[s], type) # {}
Counted(q) == Cardinality({i \in 1 .. Len(q) : q[i].type # "stop"})

\* process_commands (): bind, inproc_connected and stop
Process(s) ==
    /\ InThread(s)
    /\ mailbox[s] # <<>>
    /\ mailbox' = [mailbox EXCEPT ![s] = <<>>]
    /\ stopped' = IF Has(s, "stop") THEN stopped \cup {s} ELSE stopped
    /\ processed_seqnum' = [processed_seqnum EXCEPT ![s] = @ + Counted(mailbox[s])]
    /\ pipe' = Attached(s, {mailbox[s][i].arg : i \in At(mailbox[s], "bind")})
    /\ UNCHANGED <<ctxVars, life, calls, sent_seqnum, reaperVars, termVars, left>>

\* The two ends of a pipe agree that it is gone (module Pipe), and
\* pipe_terminated () is called on both sides.
PipeTerminated(n) ==
    /\ pipe[n].asked /\ ~pipe[n].gone
    /\ InThread(pipe[n].from)
    /\ pipe[n].to # NoOne /\ InThread(pipe[n].to)
    /\ pipe' = [pipe EXCEPT ![n] = [@ EXCEPT !.gone = TRUE]]
    /\ UNCHANGED <<ctxVars, socketVars, reaperVars, termVars, left>>

---------------------------------------------------------------------------
(* reaper_t::in_event ()                                                   *)

\* (mutant) The endpoint stays registered while the socket is reaped.
UnregisteredNot(s) == endpoint
\* unregister_endpoints ()
Unregistered(s) == IF endpoint = s THEN NoOne ELSE endpoint

\* process_reap (): start_reaping (), with the socket's process_term ()
ReaperReap ==
    LET s == Head(reaper_mailbox).arg
    IN  /\ Head(reaper_mailbox).type = "reap"
        /\ life' = [life EXCEPT ![s] = "reaping"]
        /\ endpoint' = Unregistered(s)
        /\ pipe' = [n \in DOMAIN pipe |->
                       [pipe[n] EXCEPT !.asked = @ \/ n \in PipesOf(s)]]
        /\ reaped' = reaped + 1
        /\ UNCHANGED <<term_mailbox, reaper>>

\* (mutant) A reaper that is asked to stop does not wait for its sockets.
FinishesAtOnce(reaping) == TRUE
Finishes(reaping) == reaping = 0

\* process_stop (), process_reaped () and send_done ()
ReaperStop ==
    /\ Head(reaper_mailbox).type = "stop"
    /\ IF Finishes(reaped)
       THEN reaper' = "stopped" /\ term_mailbox' = term_mailbox + 1
       ELSE reaper' = "terminating" /\ UNCHANGED term_mailbox
    /\ UNCHANGED <<life, endpoint, pipe, reaped>>

ReaperReaped ==
    /\ Head(reaper_mailbox).type = "reaped"
    /\ reaped' = reaped - 1
    /\ IF reaper = "terminating" /\ Finishes(reaped - 1)
       THEN reaper' = "stopped" /\ term_mailbox' = term_mailbox + 1
       ELSE UNCHANGED <<reaper, term_mailbox>>
    /\ UNCHANGED <<life, endpoint, pipe>>

Reaper ==
    /\ reaper # "stopped"
    /\ reaper_mailbox # <<>>
    /\ ReaperReap \/ ReaperStop \/ ReaperReaped
    /\ reaper_mailbox' = Tail(reaper_mailbox)
    /\ UNCHANGED <<starting, terminating, sockets, pending, calls, mailbox,
                   stopped, sent_seqnum, processed_seqnum, termVars, left>>

---------------------------------------------------------------------------
(* shutdown () and terminate ()                                            *)

\* (mutant) Only sockets that wait for a command are told.
ToldIfIdle(s) == s \in sockets /\ calls[s] = "none"
Told(s) == s \in sockets

\* What both do under slot_sync the first time.
SendStops ==
    /\ mailbox' = [s \in Sockets |->
                     IF Told(s) THEN Append(mailbox[s], Command("stop", NoOne))
                     ELSE mailbox[s]]
    /\ ToReaper(IF sockets = {} THEN <<Command("stop", NoOne)>> ELSE <<>>)

Shutdown ==
    /\ left.shutdowns > 0 /\ tpc # "finished"
    /\ Spend("shutdowns")
    /\ IF starting \/ terminating THEN UNCHANGED <<mailbox, reaper_mailbox, terminating>>
       ELSE SendStops /\ terminating' = TRUE
    /\ UNCHANGED <<starting, sockets, endpoint, pending, term_mailbox, life,
                   calls, stopped, sent_seqnum, processed_seqnum, pipe, reaped,
                   reaper, termVars>>

\* The copy of pending_connections, made without a lock.
TermStart ==
    /\ tpc = "idle"
    /\ tpc' = "pairs"
    /\ copy' = pending
    /\ UNCHANGED <<ctxVars, socketVars, pipe, reaperVars, tpair, left>>

\* A PAIR socket for each of them.  create_socket () may return NULL, which
\* terminate () dereferences.
TermCreate ==
    /\ tpc = "pairs" /\ copy # {}
    /\ \E n \in copy : copy' = copy \ {n}
    /\ IF CanCreate
       THEN /\ tpc' = "bind"
            /\ \E p \in Pairs : life[p] = "none"
            /\ tpair' = CHOOSE p \in Pairs : life[p] = "none"
            /\ Create(tpair')
       ELSE /\ tpc' = "crashed"
            /\ UNCHANGED <<ctxVars, socketVars, pipe, reaperVars, tpair>>
    /\ UNCHANGED left

\* bind () fails if shutdown () has been called or the address is in use.
TermBind ==
    /\ tpc = "bind"
    /\ mailbox' = [mailbox EXCEPT ![tpair] = <<>>]
    /\ IF Has(tpair, "stop")
       THEN stopped' = stopped \cup {tpair} /\ UNCHANGED endpoint /\ tpc' = "close"
       ELSE /\ endpoint' = Register(tpair)
            /\ tpc' = IF endpoint = NoOne THEN "connect_pending" ELSE "close"
            /\ UNCHANGED stopped
    /\ UNCHANGED <<starting, terminating, sockets, pending, term_mailbox, life,
                   calls, sent_seqnum, processed_seqnum, pipe, reaperVars,
                   copy, tpair, left>>

TermPending ==
    /\ tpc = "connect_pending"
    /\ ConnectPending(tpair)
    /\ tpc' = "close"
    /\ UNCHANGED <<starting, terminating, sockets, endpoint, term_mailbox,
                   life, calls, stopped, reaperVars, copy, tpair, left>>

TermClose ==
    /\ tpc = "close"
    /\ Close(tpair)
    /\ tpc' = "pairs"
    /\ UNCHANGED <<ctxVars, calls, mailbox, stopped, sent_seqnum,
                   processed_seqnum, pipe, reaped, reaper, copy, tpair, left>>

\* slot_sync is taken: a context that was never used is deleted at once, the
\* others stop their sockets unless a previous attempt, or shutdown (), has.
TermStop ==
    /\ tpc = "pairs" /\ copy = {}
    /\ tpc' = IF starting THEN "finished" ELSE "waiting"
    /\ terminating' = ~starting
    /\ IF starting \/ terminating THEN UNCHANGED <<mailbox, reaper_mailbox>>
       ELSE SendStops
    /\ UNCHANGED <<starting, sockets, endpoint, pending, term_mailbox, life,
                   calls, stopped, sent_seqnum, processed_seqnum, pipe, reaped,
                   reaper, copy, tpair, left>>

\* The wait for the reaper ends, or a signal ends it and the application
\* calls terminate () again.
TermDone ==
    /\ tpc = "waiting" /\ term_mailbox > 0
    /\ tpc' = "finished"
    /\ term_mailbox' = term_mailbox - 1
    /\ UNCHANGED <<starting, terminating, sockets, endpoint, pending,
                   socketVars, pipe, reaperVars, copy, tpair, left>>
TermInterrupted ==
    /\ tpc = "waiting" /\ left.interrupts > 0
    /\ Spend("interrupts")
    /\ tpc' = "idle"
    /\ UNCHANGED <<ctxVars, socketVars, pipe, reaperVars, copy, tpair>>

Terminate ==
    \/ TermStart \/ TermCreate \/ TermBind \/ TermPending \/ TermClose
    \/ TermStop \/ TermDone \/ TermInterrupted

---------------------------------------------------------------------------
Socket(s) ==
    \/ CreateApp(s) \/ ConnectStart(s) \/ ConnectFind(s) \/ ConnectBind(s)
    \/ ConnectPend(s) \/ BindStart(s) \/ BindRegister(s) \/ BindPending(s)
    \/ TermEndpoint(s) \/ CloseApp(s) \/ Process(s) \/ Delete(s)

Runs == tpc # "crashed"

Next ==
    /\ Runs
    /\ \/ \E s \in Sockets : Socket(s)
       \/ \E n \in DOMAIN pipe : PipeTerminated(n)
       \/ Reaper
       \/ Shutdown
       \/ Terminate

Spec == Init /\ [][Next]_vars

\* Calls return, threads process their mailboxes, and the application closes
\* a socket that answers ETERM, as it is responsible for.
FairSpec ==
    /\ Spec
    /\ \A s \in Sockets :
          /\ WF_vars(Runs /\ (ConnectFind(s) \/ ConnectBind(s) \/ ConnectPend(s)))
          /\ WF_vars(Runs /\ (BindRegister(s) \/ BindPending(s)))
          /\ WF_vars(Runs /\ Process(s))
          /\ WF_vars(Runs /\ Delete(s))
          /\ WF_vars(Runs /\ s \in stopped /\ CloseApp(s))
    /\ \A n \in 1..Cardinality(Pairs) :
          WF_vars(Runs /\ n \in DOMAIN pipe /\ PipeTerminated(n))
    /\ WF_vars(Runs /\ Reaper)
    /\ WF_vars(Runs /\ Terminate)

---------------------------------------------------------------------------
(* Properties                                                              *)

\* The connections that s is waited for: bind commands a call is about to send.
Binding == {c \in Apps : calls[c] = "bind"}
ToBeBound(s) == Cardinality({c \in Binding : pipe[PipeInCall(c)].peer = s})

\* find_endpoint () and pend_connection () count a command before it is sent,
\* so that "it won't get deallocated until bind command is issued" (ctx.cpp):
\* a socket is ahead of the commands it has processed by exactly those that
\* are on their way, will be sent or wait for a bind, and a deleted socket,
\* whose address may be anybody's, is in none of them.
DeletedIsForgotten ==
    \A s \in Sockets :
        /\ sent_seqnum[s] - processed_seqnum[s] =
              Counted(mailbox[s]) + ToBeBound(s) + PendingOf(s)
        /\ life[s] = "deleted" =>
              /\ sent_seqnum[s] = processed_seqnum[s]
              /\ endpoint # s

\* A connection does not wait for an address that is bound: whichever way
\* connect () and bind () interleave, the one that comes second sees the
\* other.  While it is bound, only the binding thread may still have to take
\* the waiting connections.
NoneWaitsForBound ==
    pending # {} /\ endpoint # NoOne =>
        \/ calls[endpoint] = "connect_pending"
        \/ tpc = "connect_pending" /\ tpair = endpoint

\* The sockets the reaper has.
Reaping == {s \in Sockets : life[s] = "reaping"}

\* The context lists the sockets that exist and the reaper counts those it
\* has.  The reaper reports once, and only when nothing is left of any socket: the
\* assertions of terminate () and ~ctx_t () hold, and the context can be freed.
DoneMeansDone ==
    /\ sockets = {s \in Sockets : life[s] \notin {"none", "deleted"}}
    /\ reaped = Cardinality(Reaping) + Cardinality(At(reaper_mailbox, "reaped"))
    /\ term_mailbox + (IF tpc = "finished" /\ ~starting THEN 1 ELSE 0) <= 1
    /\ term_mailbox > 0 \/ tpc = "finished" =>
          sockets = {} /\ reaper_mailbox = <<>> /\ reaped = 0

(* What makes NoneWaitsForBound and DoneMeansDone inductive.               *)

ContextTypeOK ==
    /\ starting \in BOOLEAN /\ terminating \in BOOLEAN
    /\ sockets \subseteq Sockets
    /\ endpoint \in Sockets \cup {NoOne}
    /\ term_mailbox \in Nat
    /\ life \in [Sockets -> {"none", "open", "closed", "reaping", "deleted"}]
    /\ calls \in [Sockets -> {"none", "find", "bind", "pend", "register",
                              "connect_pending"}]
    /\ reaper_mailbox \in Seq([type : {"reap", "stop", "reaped"},
                                arg : Sockets \cup {NoOne}])
    /\ reaped \in Nat
    /\ reaper \in {"running", "terminating", "stopped"}
    /\ tpc \in {"idle", "pairs", "bind", "connect_pending", "close", "waiting",
               "finished", "crashed"}
    /\ tpc \in {"bind", "connect_pending", "close"} => tpair \in Pairs

\* A socket is handed to the reaper once.
ReapsClosed ==
    /\ \A i \in At(reaper_mailbox, "reap") :
          reaper_mailbox[i].arg \in Sockets /\ life[reaper_mailbox[i].arg] = "closed"
    /\ \A i, j \in At(reaper_mailbox, "reap") :
          reaper_mailbox[i].arg = reaper_mailbox[j].arg => i = j

\* The reaper is told to stop once, by whoever sees that the context is
\* terminating and that there is no socket, and none can be created then.
StopsOnce ==
    /\ \A i, j \in At(reaper_mailbox, "stop") : i = j
    /\ At(reaper_mailbox, "stop") # {} => reaper = "running"
    /\ At(reaper_mailbox, "stop") # {} \/ reaper # "running" =>
          terminating /\ sockets = {}

\* It reports once, when there is nothing left to do for it; nothing has
\* happened in a context that was never used.
ReportsOnce ==
    /\ term_mailbox + (IF tpc = "finished" /\ ~starting THEN 1 ELSE 0) =
          IF reaper = "stopped" THEN 1 ELSE 0
    /\ reaper = "stopped" => reaper_mailbox = <<>>
    /\ starting => ~terminating /\ sockets = {} /\ reaper_mailbox = <<>>

ContextInv ==
    /\ ContextTypeOK
    /\ sockets = {s \in Sockets : life[s] \notin {"none", "deleted"}}
    /\ IsFiniteSet(Reaping)
    /\ reaped = Cardinality(Reaping) + Cardinality(At(reaper_mailbox, "reaped"))
    /\ ReapsClosed /\ StopsOnce /\ ReportsOnce

(* What makes DeletedIsForgotten inductive, in addition to that.           *)

CountsTypeOK ==
    /\ sent_seqnum \in [Sockets -> Nat] /\ processed_seqnum \in [Sockets -> Nat]
    /\ mailbox \in [Sockets -> Seq([type : {"bind", "inproc_connected", "stop"},
                                    arg : Nat \cup {NoOne}])]
    /\ pipe \in Seq([from : Apps, peer : Sockets \cup {NoOne}, to : Sockets \cup {NoOne},
                      asked : BOOLEAN, gone : BOOLEAN])
    /\ pending \subseteq DOMAIN pipe /\ IsFiniteSet(pending)
    /\ IsFiniteSet(Binding)

\* A socket in a call or bound is one that somebody may use.
UsedAreOpen ==
    /\ \A s \in Sockets : calls[s] # "none" => s \in Apps /\ life[s] = "open"
    /\ tpc \in {"bind", "connect_pending", "close"} => life[tpair] = "open"
    /\ endpoint # NoOne => life[endpoint] \in {"open", "closed"}

\* The pipe of a call is not pending, and a peer that was found is a socket.
CallsHavePipes ==
    \A s \in Sockets : calls[s] \in {"bind", "pend"} =>
        \E n \in DOMAIN pipe :
            /\ pipe[n].from = s /\ n \notin pending
            /\ \A k \in DOMAIN pipe : pipe[k].from = s => k <= n
            /\ calls[s] = "bind" => pipe[n].peer \in Sockets

\* Nobody sends a command to a socket that is not there yet, or to the PAIR
\* socket that terminate () is about to bind.
NewAreUnknown ==
    /\ tpc = "bind" => endpoint # tpair /\ sent_seqnum[tpair] = processed_seqnum[tpair]
    /\ \A s \in Sockets : life[s] \in {"none", "deleted"} =>
          sent_seqnum[s] = processed_seqnum[s]

Balanced ==
    \A s \in Sockets :
        sent_seqnum[s] = processed_seqnum[s] + Counted(mailbox[s]) + ToBeBound(s) + PendingOf(s)

CountsInv ==
    CountsTypeOK /\ UsedAreOpen /\ CallsHavePipes /\ NewAreUnknown /\ Balanced

\* zmq_ctx_term () returns once the application has closed its sockets, each of
\* which learns from ETERM that it has to.  The only thing that makes it wait
\* for ever is a connection to an address that nobody binds, made after it has
\* looked for such connections.
HangsOnlyForPending ==
    <>[](tpc = "waiting") => <>[](pending # {})

\* "Use zmq_ctx_term to finalise the process" after zmq_ctx_shutdown () (NEWS):
\* terminate () gets the PAIR sockets it wants.
PairsAreCreated == tpc # "crashed"
=============================================================================
