------------------------------ MODULE MCPipe ------------------------------
(* A pipe, the lock-free queue by itself, a mailbox that is built on one,  *)
(* and a pipe that conflates.  A behaviour is that of one of them; the     *)
(* others stay as they were created.                                       *)
(*                                                                         *)
(* The pipe is in one of the situations of interest below.  A pair of      *)
(* values per end is written as a sequence, which is a function on {1, 2}; *)
(* end 1 is the session's where one of them is.  The queue has two         *)
(* payloads, so that a swap of two items is visible, and enough positions  *)
(* for several flushes and sleeps.  The mailbox has room for every         *)
(* command, so that its bound never limits a sender.                       *)
EXTENDS Pipe

CONSTANTS
    Uses,               \* what is looked at, of the four
    Values, MaxWrites,  \* of the queue
    Senders             \* of the mailbox

VARIABLES
    use,                                            \* one of Uses
    \* the queue
    buf, front, back, w, f, r, c, wpc, out,
    \* the mailbox, its queue first
    mbuf, mfront, mback, mw, mf, mr, mc, mwpc, mout,
    sync, spc, msent, active, signals, rpc, received,
    \* the conflating pipe
    cback, cfront, has_msg, csync, written, cwpc, stored, cmailbox,
    cin_active, cstate, cdelay, call, at, cgot, aborted

queueVars == <<buf, front, back, w, f, r, c, wpc, out>>
mailboxVars == <<mbuf, mfront, mback, mw, mf, mr, mc, mwpc, mout,
                 sync, spc, msent, active, signals, rpc, received>>
conflateVars == <<cback, cfront, has_msg, csync, written, cwpc, stored, cmailbox,
                  cin_active, cstate, cdelay, call, at, cgot, aborted>>
allVars == <<use, vars, queueVars, mailboxVars, conflateVars>>

Y == INSTANCE YPipe

M == INSTANCE Mailbox WITH
    MaxSends <- 3, MaxCommands <- 8,
    buf <- mbuf, front <- mfront, back <- mback, w <- mw, f <- mf, r <- mr,
    c <- mc, wpc <- mwpc, out <- mout, sent <- msent

C == INSTANCE Conflate WITH
    MaxMessages <- 3,
    back <- cback, front <- cfront, sync <- csync, wpc <- cwpc,
    mailbox <- cmailbox, in_active <- cin_active, state <- cstate,
    delay <- cdelay, got <- cgot

---------------------------------------------------------------------------
Both(n) == <<n, n>>
AnyDelay == <<BOOLEAN, BOOLEAN>>

\* Both owners terminate, twice, with messages pending either way.
Closing ==
    [hwm |-> Both(1), latehwm |-> Both(1), identified |-> FALSE, nodelay |-> {},
     hiccupers |-> {}, readers |-> {1, 2}, delays |-> AnyDelay,
     kinds |-> {"data"}, parts |-> 1, sent |-> Both(1),
     hiccups |-> 0, closes |-> 2]
\* The same with messages for a session that hiccups twice.
Reconnecting ==
    [Closing EXCEPT !.hiccupers = {1}, !.readers = {}, !.sent = <<0, 1>>,
                    !.hiccups = 2]
\* A stream of messages of all kinds one way, ended by the writer; the reader
\* does not wait for pending messages.
Streaming ==
    [Closing EXCEPT !.hwm = Both(2), !.latehwm = Both(2), !.nodelay = {2},
                    !.readers = {}, !.delays = <<{TRUE}, {}>>,
                    !.kinds = {"data", "identity", "credential"},
                    !.parts = 2, !.sent = <<4, 0>>, !.closes = 1]
\* Whole messages one way, after a credential or without, enough to fill the
\* pipe and refill it after the credit of several messages at once.
Filling(h, n) ==
    [Streaming EXCEPT !.hwm = Both(h), !.latehwm = Both(h), !.parts = 1,
                      !.kinds = {"data", "credential"}, !.sent = <<n, 0>>,
                      !.closes = 0]
\* A socket connects, and writes, before the address is bound.
Binding(h, late, identified) ==
    [Filling(h, late + 3) EXCEPT !.latehwm = Both(late), !.kinds = {"data"},
                                 !.identified = identified, !.nodelay = {},
                                 !.closes = 1]
\* A session with linger hiccups while the socket closes.
Crossing ==
    [Closing EXCEPT !.hiccupers = {1}, !.delays = <<{TRUE}, {FALSE}>>,
                    !.sent = <<0, 0>>, !.hiccups = 1, !.closes = 1]

AllSetups ==
    {Closing, Reconnecting, Streaming, Filling(1, 2), Filling(3, 6), Filling(5, 9)}
    \cup {Binding(h, late, identified) :
             h \in {1, 2}, late \in {0, 3, 5}, identified \in BOOLEAN}
CrossingOnly == {Crossing}
UnlimitedOnly == {Binding(1, 0, TRUE)}

---------------------------------------------------------------------------
MCInit ==
    /\ use \in Uses
    /\ Init /\ (use # "pipe" => setup = CHOOSE s \in Setups : TRUE)
    /\ (use # "pipe" => delay = [e \in Ends |-> TRUE])
    /\ Y!Init /\ M!Init
    /\ C!ConflateInit /\ (use # "conflate" => cdelay)

UsesPipe == UNCHANGED <<use, queueVars, mailboxVars, conflateVars>>
UsesQueue == UNCHANGED <<use, vars, mailboxVars, conflateVars>>
UsesMailbox == UNCHANGED <<use, vars, queueVars, conflateVars>>
UsesConflate == UNCHANGED <<use, vars, queueVars, mailboxVars>>

MCNext ==
    \/ use = "pipe" /\ Next /\ UsesPipe
    \/ use = "queue" /\ Y!Next /\ UsesQueue
    \/ use = "mailbox" /\ M!Next /\ UsesMailbox
    \/ use = "conflate" /\ C!ConflateNext /\ UsesConflate

\* The fairness of Pipe's FairSpec, and of M!FairSpec: a thread inside send ()
\* finishes it, the owner calls recv () again and again, and a wait is not
\* interrupted every time.
OfPipe(A) == use = "pipe" /\ A /\ UNCHANGED setup /\ UsesPipe
OfMailbox(A) == use = "mailbox" /\ A /\ UsesMailbox

MCSpec ==
    /\ MCInit /\ [][MCNext]_allVars
    /\ \A e \in Ends :
          /\ WF_vars(OfPipe(ProcessCommand(e)))
          /\ WF_vars(OfPipe(Owned(e) /\ e \in Readers /\ Read(e)))
    /\ \A s \in Senders : WF_mailboxVars(OfMailbox(M!SendNext(s)))
    /\ WF_mailboxVars(OfMailbox(M!RecvStart))
    /\ WF_mailboxVars(OfMailbox(M!RecvCheck))
    /\ WF_mailboxVars(OfMailbox(M!RecvCommand))
    /\ SF_mailboxVars(OfMailbox(M!RecvSignal))
    /\ WF_mailboxVars(OfMailbox(M!Destroy))

---------------------------------------------------------------------------
(* What YPipe states of ypipe_t, Mailbox of mailbox_t, and Conflate of     *)
(* dbuffer_t.                                                              *)

\* Every pointer the two threads of a ypipe may follow or compare lies in the
\* live part of the queue.
PointersLive == Y!PointersLive

\* A failed cas in flush () means a reader that is asleep and has read
\* everything that was published.
AsleepMeansDrained == Y!AsleepMeansDrained

\* No boundary at which the reader of a ypipe can stop lies inside an item of
\* several parts.
NeverSplit == Y!NeverSplit

\* The lock-free queue is, step by step, the batch queue it promises.
ImplementsBatchQueue == Y!ImplementsBatchQueue

\* A receiver that sleeps while there is work has been woken or is about to
\* be, once, finds the work when it looks, and looks at a sleeping pipe only
\* then; and no sender is inside the mailbox when it is destroyed.
WakeupPerSleep == M!WakeupPerSleep

\* Commands of one sender are received each exactly once, in their order.
CommandsInOrder == M!CommandsInOrder

\* Every command sent is received.
EveryCommandReceived == M!EveryCommandReceived

\* A pipe that conflates offers the newest item that was stored, once, and a
\* reader that sleeps in front of one is about to be woken.
NewestOffered == C!NewestOffered

\* A terminated pipe with nothing left to do has been acknowledged: "the
\* termination will happen asynchronously and user will be notified about
\* actual deallocation" (pipe.hpp:112).
TerminationAnswered == C!TerminationAnswered
============================================================================
