------------------------------ MODULE Conflate ------------------------------
(***************************************************************************)
(* A pipe with the conflate option, in one direction: pipe_t (pipe.cpp) on *)
(* a ypipe_conflate_t, which is a dbuffer_t.  The writer puts a message    *)
(* into the back buffer and swaps the buffers if it gets the lock; the     *)
(* reader takes the message in the front buffer, with the lock.  In the    *)
(* end the writer's owner terminates the pipe.                             *)
(*                                                                         *)
(* The messages are 1, 2, ..., and the delimiter is the next number; 0 is  *)
(* a message just initialised.  The writer's time with the lock is one     *)
(* step: the reader can only wait for it.  A conflating pipe has no        *)
(* watermarks and no multi-part messages.                                  *)
(***************************************************************************)
EXTENDS Integers, Sequences

CONSTANT MaxMessages    \* the writer's messages

Delimiter == MaxMessages + 1

VARIABLES
    back, front, has_msg, sync,   \* dbuffer_t; sync: the reader has the lock
    written, wpc,                 \* the writer: its last item, what comes next
    stored,                       \* the last item that reached the front
    mailbox,                      \* commands to the reader's end
    in_active, state, delay,      \* pipe_t of the reader
    call, at,                     \* the method the reader is in, and where
    got, aborted                  \* the reader's last item; a failed assertion

writer == <<back, written, wpc, stored>>
reader == <<in_active, state, call, at, got, aborted>>
conflateVars == <<back, front, has_msg, sync, written, wpc, stored, mailbox,
                  in_active, state, delay, call, at, got, aborted>>

ConflateInit ==
    /\ back = 0 /\ front = 0 /\ has_msg = FALSE /\ sync = FALSE
    /\ written = 0 /\ wpc = "idle" /\ stored = 0 /\ mailbox = <<>>
    /\ in_active = TRUE /\ state = "active" /\ delay \in BOOLEAN
    /\ call = "none" /\ at = "none" /\ got = 0 /\ aborted = FALSE

----------------------------------------------------------------------------
\* dbuffer_t::write: the item waits in the back buffer if the reader has the
\* lock, and the next one replaces it.
Store(v) ==
    /\ written' = v
    /\ IF sync THEN back' = v /\ UNCHANGED <<front, has_msg, stored>>
       ELSE back' = front /\ front' = v /\ has_msg' = TRUE /\ stored' = v

\* pipe_t::write.
Write ==
    /\ wpc = "idle" /\ written < MaxMessages
    /\ Store(written + 1)
    /\ wpc' = "flush"
    /\ UNCHANGED <<sync, mailbox, delay, reader>>

\* pipe_t::flush: reader_awake is never set, so the reader is always woken.
\* Mutant: the flag says that the reader is awake.
FlushAwake ==
    /\ wpc = "flush"
    /\ wpc' = IF written = Delimiter THEN "done" ELSE "idle"
    /\ UNCHANGED <<back, front, has_msg, sync, written, stored, mailbox, delay, reader>>

Flush ==
    /\ wpc = "flush"
    /\ wpc' = IF written = Delimiter THEN "done" ELSE "idle"
    /\ mailbox' = Append(mailbox, "activate_read")
    /\ UNCHANGED <<back, front, has_msg, sync, written, stored, delay, reader>>

\* pipe_t::terminate by the writer's owner: pipe_term goes first.
Terminate ==
    /\ wpc = "idle"
    /\ wpc' = "delimiter"
    /\ mailbox' = Append(mailbox, "pipe_term")
    /\ UNCHANGED <<back, front, has_msg, sync, written, stored, delay, reader>>

WriteDelimiter ==
    /\ wpc = "delimiter"
    /\ Store(Delimiter)
    /\ wpc' = "flush"
    /\ UNCHANGED <<sync, mailbox, delay, reader>>

----------------------------------------------------------------------------
\* pipe_t::check_read and pipe_t::read of the reader's owner.
Calls ==
    /\ call = "none" /\ in_active /\ state \in {"active", "waiting_for_delimiter"}
    /\ \/ call' = "check_read" /\ at' = "check"
       \/ call' = "read" /\ at' = "read_check"
    /\ UNCHANGED <<writer, front, has_msg, sync, mailbox, delay, in_active, state, got, aborted>>

Lock ==
    /\ call # "none" /\ ~sync
    /\ sync' = TRUE
    /\ UNCHANGED <<writer, front, has_msg, mailbox, delay, reader>>

Unlocks == sync /\ sync' = FALSE

\* The call finds nothing: the reader sleeps.
Sleeps == in_active' = FALSE /\ call' = "none" /\ at' = "none"

\* dbuffer_t::check_read, for check_read and within ypipe_conflate_t::read.
CheckRead ==
    /\ at = "check" /\ Unlocks
    /\ IF has_msg THEN at' = "probe" /\ UNCHANGED <<call, in_active>> ELSE Sleeps
    /\ UNCHANGED <<writer, front, has_msg, mailbox, delay, state, got, aborted>>

ReadCheck ==
    /\ at = "read_check" /\ Unlocks
    /\ IF has_msg THEN at' = "read" /\ UNCHANGED <<call, in_active>> ELSE Sleeps
    /\ aborted' = (call = "check_read" /\ ~has_msg)   \* zmq_assert (ok)
    /\ UNCHANGED <<writer, front, has_msg, mailbox, delay, state, got>>

Probe ==
    /\ at = "probe" /\ Unlocks
    /\ IF front = Delimiter THEN at' = "read_check" /\ UNCHANGED call
       ELSE call' = "none" /\ at' = "none"
    /\ UNCHANGED <<writer, front, has_msg, mailbox, delay, in_active, state, got, aborted>>

\* process_delimiter.
AfterDelimiter == IF state = "active" THEN "delimiter_received" ELSE "term_ack_sent"

\* Mutant: dbuffer_t::read forgets that the message is gone.
ReadAgain ==
    /\ at = "read" /\ Unlocks
    /\ got' = front /\ front' = 0
    /\ state' = IF front = Delimiter THEN AfterDelimiter ELSE state
    /\ call' = "none" /\ at' = "none"
    /\ UNCHANGED <<writer, has_msg, mailbox, delay, in_active, aborted>>

\* dbuffer_t::read, and what the two methods of pipe_t do with the item.
Read ==
    /\ at = "read" /\ Unlocks
    /\ IF has_msg
       THEN /\ got' = front /\ front' = 0 /\ has_msg' = FALSE
            /\ state' = IF front = Delimiter THEN AfterDelimiter ELSE state
            /\ call' = "none" /\ at' = "none"
            /\ UNCHANGED <<in_active, aborted>>
       ELSE /\ Sleeps
            /\ aborted' = (call = "check_read")
            /\ UNCHANGED <<got, front, has_msg, state>>
    /\ UNCHANGED <<writer, mailbox, delay>>

\* process_activate_read and process_pipe_term, between two calls.
ProcessCommand ==
    /\ call = "none" /\ mailbox # <<>>
    /\ mailbox' = Tail(mailbox)
    /\ IF Head(mailbox) = "activate_read"
       THEN /\ in_active' = (in_active \/ state \in {"active", "waiting_for_delimiter"})
            /\ UNCHANGED state
       ELSE /\ state' = IF state = "active" /\ delay THEN "waiting_for_delimiter"
                        ELSE "term_ack_sent"
            /\ UNCHANGED in_active
    /\ UNCHANGED <<writer, front, has_msg, sync, delay, call, at, got, aborted>>

ConflateNext ==
    \/ Write \/ Flush \/ Terminate \/ WriteDelimiter
    \/ Calls \/ Lock \/ CheckRead \/ Probe \/ ReadCheck \/ Read \/ ProcessCommand

ConflateSpec == ConflateInit /\ [][ConflateNext]_conflateVars

----------------------------------------------------------------------------
Reading == state \in {"active", "waiting_for_delimiter"}

\* The front buffer offers the newest item that was stored, once: it is newer
\* than what the reader got before, nothing newer was stored, and nothing is
\* offered when the newest was read.  A reader that sleeps while there is
\* something to read is about to be woken, and a delimiter that was seen is
\* still there when it is taken (dbuffer_t, ypipe_conflate_t::flush,
\* pipe_t::check_read).
NewestOffered ==
    /\ ~aborted
    /\ IF has_msg THEN got < front /\ front = stored ELSE got = stored
    /\ has_msg /\ Reading =>
         in_active \/ wpc = "flush" \/ \E i \in 1 .. Len(mailbox) : mailbox[i] = "activate_read"

\* What makes NewestOffered inductive: items are numbered as they are written
\* and reach the front in that order; a call is made only by a reader that is
\* awake; and check_read goes on to read only what it has seen, which nobody
\* else takes.
ConflateTypeOK ==
    /\ back \in Nat /\ front \in Nat /\ written \in Nat /\ stored \in Nat /\ got \in Nat
    /\ has_msg \in BOOLEAN /\ sync \in BOOLEAN /\ in_active \in BOOLEAN
    /\ delay \in BOOLEAN /\ aborted \in BOOLEAN
    /\ wpc \in {"idle", "flush", "delimiter", "done"}
    /\ mailbox \in Seq({"activate_read", "pipe_term"})
    /\ state \in {"active", "waiting_for_delimiter", "delimiter_received", "term_ack_sent"}
    /\ <<call, at>> \in {<<"none", "none">>, <<"check_read", "check">>,
                         <<"check_read", "probe">>, <<"check_read", "read_check">>,
                         <<"check_read", "read">>, <<"read", "read_check">>,
                         <<"read", "read">>}

ConflateInv ==
    /\ ConflateTypeOK /\ NewestOffered
    /\ stored <= written /\ written <= Delimiter
    /\ wpc \in {"idle", "delimiter"} => written < Delimiter
    /\ call # "none" => in_active
    /\ call = "check_read" /\ at \in {"probe", "read_check", "read"} => has_msg

\* When the pipe has been terminated and there is nothing left to do, the
\* reader has acknowledged it: "the termination will happen asynchronously
\* and user will be notified about actual deallocation" (pipe.hpp:112).
TerminationAnswered ==
    wpc = "done" /\ mailbox = <<>> /\ call = "none" /\ ~(in_active /\ Reading)
        => state = "term_ack_sent"
=============================================================================
