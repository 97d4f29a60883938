----------------------------- MODULE Mailbox -----------------------------
(***************************************************************************)
(* mailbox_t (mailbox.cpp) over ypipe_t and signaler_t: how one thread     *)
(* receives commands from any number of others.  Senders take turns on the *)
(* mutex sync to write and flush the command pipe; the one that finds the  *)
(* receiver asleep raises the signaler, after it has released the mutex.   *)
(* The receiver reads the pipe for as long as it is active and waits on    *)
(* the signaler otherwise.                                                 *)
(*                                                                         *)
(* The pipe is YPipe itself: its variables are declared here and each step *)
(* of send () or recv () that touches the pipe is one of its actions.      *)
(***************************************************************************)
EXTENDS Naturals

CONSTANTS
    Senders,    \* threads that send commands to this mailbox
    MaxSends,   \* bound: commands each of them sends
    MaxCommands \* bound: terminator position the command pipe may reach

VARIABLES
    buf, front, back, w, f, r, c, wpc, out,  \* cpipe
    sync,      \* the sender holding the mutex, if any
    spc,       \* where each sender is in send ()
    sent,      \* commands each sender has begun to send
    active,    \* the receiver believes the pipe may hold commands
    signals,   \* value of the eventfd
    rpc,       \* where the receiver is in recv ()
    received   \* number of the last command received from each sender

pipeVars == <<buf, front, back, w, f, r, c, wpc, out>>
senderVars == <<sync, spc, sent>>
receiverVars == <<active, rpc, received>>
vars == <<pipeVars, senderVars, receiverVars, signals>>

Command == Senders \X Nat
CPipe == INSTANCE YPipe WITH Values <- Command, MaxWrites <- MaxCommands

SenderPC == {"idle", "flush", "unlock", "unlockThenSignal", "signal"}
ReceiverPC == {"idle", "tryRead", "wait", "mustRead", "gone"}

TypeOK ==
    /\ CPipe!TypeOK
    /\ sync \in SUBSET Senders
    /\ spc \in [Senders -> SenderPC]
    /\ sent \in [Senders -> 0 .. MaxSends]
    /\ active \in BOOLEAN
    /\ signals \in Nat
    /\ rpc \in ReceiverPC
    /\ received \in [Senders -> Nat]

---------------------------------------------------------------------------
\* The constructor reads once, which puts the pipe into its passive state.
Init ==
    /\ front = 1
    /\ back = 1
    /\ buf = [i \in 1 .. 0 |-> {}]
    /\ w = 1
    /\ f = 1
    /\ r = 1
    /\ c = CPipe!NULL
    /\ wpc = "idle"
    /\ out = <<>>
    /\ sync = {}
    /\ spc = [s \in Senders |-> "idle"]
    /\ sent = [s \in Senders |-> 0]
    /\ active = FALSE
    /\ signals = 0
    /\ rpc = "idle"
    /\ received = [s \in Senders |-> 0]

---------------------------------------------------------------------------
(* send ()                                                                 *)

\* sync.lock (); cpipe.write (cmd_, false)
SendWrite(s) ==
    /\ spc[s] = "idle"
    /\ sync = {}
    /\ sent[s] < MaxSends
    /\ sync' = {s}
    /\ sent' = [sent EXCEPT ![s] = @ + 1]
    /\ spc' = [spc EXCEPT ![s] = "flush"]
    /\ CPipe!Write([val |-> <<s, sent[s] + 1>>, incomplete |-> FALSE])
    /\ UNCHANGED <<receiverVars, signals>>

\* cpipe.flush () that finds the receiver awake
SendFlushAwake(s) ==
    /\ spc[s] = "flush"
    /\ CPipe!FlushAwake
    /\ spc' = [spc EXCEPT ![s] = "unlock"]
    /\ UNCHANGED <<sync, sent, receiverVars, signals>>

\* cpipe.flush () whose cas fails
SendFlushAsleep(s) ==
    /\ spc[s] = "flush"
    /\ CPipe!FlushAsleep
    /\ UNCHANGED <<senderVars, receiverVars, signals>>

\* ... and its store to c: flush () returns false
SendFlushSet(s) ==
    /\ spc[s] = "flush"
    /\ CPipe!FlushSet
    /\ spc' = [spc EXCEPT ![s] = "unlockThenSignal"]
    /\ UNCHANGED <<sync, sent, receiverVars, signals>>

\* (mutant) The result of flush () is ignored: nobody is signalled ...
SendUnlockForgetsSignal(s) ==
    /\ spc[s] \in {"unlock", "unlockThenSignal"}
    /\ sync' = {}
    /\ spc' = [spc EXCEPT ![s] = "idle"]
    /\ UNCHANGED <<pipeVars, sent, receiverVars, signals>>

\* (mutant) ... or everybody always signals.
SendUnlockAlwaysSignals(s) ==
    /\ spc[s] \in {"unlock", "unlockThenSignal"}
    /\ sync' = {}
    /\ spc' = [spc EXCEPT ![s] = "signal"]
    /\ UNCHANGED <<pipeVars, sent, receiverVars, signals>>

\* sync.unlock ()
SendUnlock(s) ==
    /\ spc[s] \in {"unlock", "unlockThenSignal"}
    /\ sync' = {}
    /\ spc' = [spc EXCEPT ![s] = IF @ = "unlock" THEN "idle" ELSE "signal"]
    /\ UNCHANGED <<pipeVars, sent, receiverVars, signals>>

\* signaler.send (), outside the mutex
SendSignal(s) ==
    /\ spc[s] = "signal"
    /\ signals' = signals + 1
    /\ spc' = [spc EXCEPT ![s] = "idle"]
    /\ UNCHANGED <<pipeVars, sync, sent, receiverVars>>

---------------------------------------------------------------------------
(* recv ()                                                                 *)

\* (mutant) recv () reads whether or not the mailbox is active.
RecvStartAlwaysReads ==
    /\ rpc = "idle"
    /\ rpc' = "tryRead"
    /\ UNCHANGED <<pipeVars, senderVars, active, received, signals>>

\* The owner calls recv (): read straight away if active, else wait.
RecvStart ==
    /\ rpc = "idle"
    /\ rpc' = IF active THEN "tryRead" ELSE "wait"
    /\ UNCHANGED <<pipeVars, senderVars, active, received, signals>>

\* check_read () inside cpipe.read (): with nothing there, go passive.
RecvCheck ==
    /\ rpc \in {"tryRead", "mustRead"}
    /\ CPipe!CheckRead
    /\ IF rpc = "tryRead" /\ ~CPipe!Prefetched'
          THEN active' = FALSE /\ rpc' = "wait"
          ELSE UNCHANGED <<active, rpc>>
    /\ UNCHANGED <<senderVars, received, signals>>

\* (mutant) A command read straight away is not handed to the caller.
RecvCommandDropped ==
    /\ rpc \in {"tryRead", "mustRead"}
    /\ CPipe!Read
    /\ LET cmd == buf[front].val IN
          received' = IF rpc = "tryRead" THEN received
                      ELSE [received EXCEPT ![cmd[1]] = cmd[2]]
    /\ rpc' = "idle"
    /\ UNCHANGED <<senderVars, active, signals>>

\* cpipe.read () succeeds and recv () returns the command.
RecvCommand ==
    /\ rpc \in {"tryRead", "mustRead"}
    /\ CPipe!Read
    /\ LET cmd == buf[front].val IN
          received' = [received EXCEPT ![cmd[1]] = cmd[2]]
    /\ rpc' = "idle"
    /\ UNCHANGED <<senderVars, active, signals>>

\* signaler.wait () succeeds; signaler.recv () empties the eventfd, and
\* puts one signal back if it took two.
RecvSignal ==
    /\ rpc = "wait"
    /\ signals > 0
    /\ signals' = IF signals = 2 THEN 1 ELSE 0
    /\ active' = TRUE
    /\ rpc' = "mustRead"
    /\ UNCHANGED <<pipeVars, senderVars, received>>

\* signaler.wait () times out (EAGAIN) ...
RecvTimeout ==
    /\ rpc = "wait"
    /\ signals = 0
    /\ rpc' = "idle"
    /\ UNCHANGED <<pipeVars, senderVars, active, received, signals>>

\* ... or is interrupted (EINTR), possibly with a signal already there.
RecvInterrupted ==
    /\ rpc = "wait"
    /\ signals > 0
    /\ rpc' = "idle"
    /\ UNCHANGED <<pipeVars, senderVars, active, received, signals>>

\* (mutant) The destructor does not pass through the mutex.
DestroyAtOnce ==
    /\ rpc = "idle"
    /\ received = [s \in Senders |-> MaxSends]
    /\ rpc' = "gone"
    /\ UNCHANGED <<pipeVars, senderVars, active, received, signals>>

\* The owner has had its last command and destroys the mailbox.  The
\* destructor passes through the mutex once.
Destroy ==
    /\ rpc = "idle"
    /\ received = [s \in Senders |-> MaxSends]
    /\ sync = {}
    /\ rpc' = "gone"
    /\ UNCHANGED <<pipeVars, senderVars, active, received, signals>>

SendNext(s) ==
    \/ SendWrite(s)
    \/ SendFlushAwake(s)
    \/ SendFlushAsleep(s)
    \/ SendFlushSet(s)
    \/ SendUnlock(s)
    \/ SendSignal(s)

RecvNext ==
    \/ RecvStart
    \/ RecvCheck
    \/ RecvCommand
    \/ RecvSignal
    \/ RecvTimeout
    \/ RecvInterrupted

Next ==
    \/ \E s \in Senders : SendNext(s)
    \/ RecvNext
    \/ Destroy

Spec == Init /\ [][Next]_vars

(* A thread inside send () finishes it; the owner calls recv () again and  *)
(* again; and a wait is not interrupted every time a signal is there.      *)
FairSpec ==
    /\ Spec
    /\ \A s \in Senders : WF_vars(SendNext(s))
    /\ WF_vars(RecvStart) /\ WF_vars(RecvCheck) /\ WF_vars(RecvCommand)
    /\ SF_vars(RecvSignal)
    /\ WF_vars(Destroy)

---------------------------------------------------------------------------
(* The assertion at the end of recv (): once a signal has been received,   *)
(* the read that follows finds a command.  Nothing but the order of flush, *)
(* signal and sleep makes it true.                                         *)
ReadAfterSignal ==
    rpc = "mustRead" => front < w

(* No lost wakeup: while the receiver is passive and commands are          *)
(* published, a signal is raised or a sender is on its way to raise one.   *)
NoLostWakeup ==
    (~active /\ front < w) =>
        \/ signals > 0
        \/ \E s \in Senders : spc[s] \in {"unlockThenSignal", "signal"}

(* At most one wakeup is outstanding, raised or about to be: signaler.recv *)
(* asserts that it never takes more than two signals from the eventfd, and *)
(* in fact it never takes more than one.                                   *)
OneWakeup ==
    /\ signals <= 1
    /\ \A s, t \in Senders :
          /\ spc[s] \in {"unlockThenSignal", "signal"}
          /\ spc[t] \in {"unlockThenSignal", "signal"}
          => s = t /\ signals = 0

(* ypipe.hpp says of check_read that r should never be NULL during the     *)
(* pipe's lifetime.  It holds because recv () does not look at a pipe it   *)
(* has found empty until it has been signalled.                            *)
ReaderNeverSeesNull == r # CPipe!NULL

(* The destructor's workaround is enough: once the mailbox is gone, no     *)
(* sender is still inside send (), holding the mutex or about to signal.   *)
NobodyInsideWhenGone ==
    rpc = "gone" => \A s \in Senders : spc[s] = "idle"

(* The inductive invariant behind it.  Senders exclude each other; the     *)
(* receiver is awake, asleep, or being woken by one signal or one sender;  *)
(* and the pipe holds just the commands sent and not received, those of    *)
(* each sender in order.                                                   *)
HoldsMutex(s) == spc[s] \in {"flush", "unlock", "unlockThenSignal"}
Wakes(s) == spc[s] \in {"unlockThenSignal", "signal"}

Mutex ==
    /\ \A s \in Senders : s \in sync <=> HoldsMutex(s)
    /\ \A s, t \in sync : s = t

Awake ==
    /\ active /\ c # CPipe!NULL
    /\ signals = 0 /\ \A s \in Senders : ~Wakes(s)
    /\ rpc \in {"idle", "tryRead", "mustRead", "gone"}
    /\ rpc = "mustRead" => front < w
Asleep ==
    /\ ~active /\ c = CPipe!NULL
    /\ signals = 0 /\ \A s \in Senders : ~Wakes(s)
    /\ rpc \in {"idle", "wait", "gone"}
Woken ==
    /\ ~active /\ c # CPipe!NULL
    /\ front < w
    /\ \/ signals = 1 /\ \A s \in Senders : ~Wakes(s)
       \/ /\ signals = 0
          /\ \E s \in Senders : \A t \in Senders : Wakes(t) <=> t = s
    /\ rpc \in {"idle", "wait"}

Sender(i) == buf[i].val[1]
Number(i) == buf[i].val[2]

Pending ==
    /\ \A s \in Senders : received[s] <= sent[s]
    /\ \A i \in front .. back - 1 :
          received[Sender(i)] < Number(i) /\ Number(i) <= sent[Sender(i)]
    /\ \A i, j \in front .. back - 1 :
          i < j /\ Sender(i) = Sender(j) => Number(i) < Number(j)
    /\ \A s \in Senders : \A n \in received[s] + 1 .. sent[s] :
          \E i \in front .. back - 1 : Sender(i) = s /\ Number(i) = n

Gone ==
    rpc = "gone" =>
        \A s \in Senders : spc[s] = "idle" /\ received[s] = MaxSends

Inv ==
    /\ TypeOK /\ CPipe!Inv /\ r # CPipe!NULL
    /\ Mutex
    /\ Awake \/ Asleep \/ Woken
    /\ Pending
    /\ Gone

(* Sleeps and wakeups match: a receiver that sleeps while there is work    *)
(* has been woken or is about to be, once, and finds the work when it      *)
(* looks, although senders signal after they have released the mutex and   *)
(* the mailbox may be destroyed after the last command.                    *)
WakeupPerSleep ==
    /\ TypeOK
    /\ ReadAfterSignal /\ NoLostWakeup /\ OneWakeup
    /\ ReaderNeverSeesNull
    /\ NobodyInsideWhenGone

(* Commands of one sender are received each exactly once, in the order     *)
(* they were sent.                                                         *)
CommandsInOrder ==
    [][\A s \in Senders :
          received'[s] \in {received[s], received[s] + 1}]_vars

(* Every command sent is received, however sends, sleeps, timeouts and     *)
(* interrupted waits interleave: again and again, and for good when the    *)
(* senders are done, nothing that was sent is still to be received.        *)
EveryCommandReceived == []<>(\A s \in Senders : received[s] = sent[s])
============================================================================
