-------------------------------- MODULE Msg --------------------------------
(***************************************************************************)
(* msg_t (msg.cpp) in several threads: messages that share a content, and  *)
(* the metadata of their connection, by reference counts.  A step is one   *)
(* operation on a counter, or freeing what it counts.                      *)
(*                                                                         *)
(* A slot is a msg_t.  It belongs to a thread: one of the user's messages, *)
(* that of an engine, or the place in a pipe that the thread will read.    *)
(* A long message has a content; the other kinds (vsm, cmsg, delimiter)    *)
(* have none.  A message is not moved or copied onto itself.               *)
(***************************************************************************)
EXTENDS Integers, FiniteSets

CONSTANTS
    Threads,
    Slots,
    Owner,      \* the thread of a slot
    Contents,   \* content_t to allocate; freed, it may be allocated again
    Metas,      \* metadata_t, one for each engine
    None

ASSUME MsgAssumption ==
    /\ IsFiniteSet(Slots) /\ Owner \in [Slots -> Threads]
    /\ Contents \cap Metas = {}
    /\ None \notin Slots \cup Contents \cup Metas

VARIABLES
    content, shared, metadata,   \* the messages
    refcnt,     \* content_t::refcnt, or -1 if the content is not allocated
    ref_cnt,    \* metadata_t::ref_cnt, or -1
    engines,    \* the metadata whose engine is still there
    \* what each thread is in the middle of:
    call, at,     \* the operation, and where it is
    slot, from,   \* the message it is for, and the source of a move or copy
    todo, failed, \* the pipes still to write to, and those that refused
    last          \* what it is about to free

msgs == <<content, shared, metadata>>
counters == <<refcnt, ref_cnt>>
args == <<call, slot, from>>
dist == <<todo, failed>>
ops == <<args, at, dist, last>>
msgVars == <<msgs, counters, engines, ops>>

Is(s) == content[s] # None \/ metadata[s] # None
Busy(s) == \E t \in Threads : call[t] # "idle" /\ s \in {slot[t], from[t]}
Free(t, s) == Owner[s] = t /\ call[t] = "idle"

MsgInit ==
    /\ content = [s \in Slots |-> None] /\ shared = [s \in Slots |-> FALSE]
    /\ metadata = [s \in Slots |-> None]
    /\ refcnt = [c \in Contents |-> -1]
    /\ ref_cnt = [m \in Metas |-> 1] /\ engines = Metas
    /\ call = [t \in Threads |-> "idle"] /\ at = [t \in Threads |-> "done"]
    /\ slot = [t \in Threads |-> None] /\ from = [t \in Threads |-> None]
    /\ todo = [t \in Threads |-> {}] /\ failed = [t \in Threads |-> {}]
    /\ last = [t \in Threads |-> None]

----------------------------------------------------------------------------
\* init_size, init_data: a new content, which nobody counts yet.
InitSize(t, s, c) ==
    /\ Free(t, s) /\ ~Is(s) /\ refcnt[c] = -1
    /\ content' = [content EXCEPT ![s] = c]
    /\ refcnt' = [refcnt EXCEPT ![c] = 0]
    /\ UNCHANGED <<shared, metadata, ref_cnt, engines, ops>>

\* decode_and_push: a message of this engine.
SetMetadata(t, s, m) ==
    /\ Free(t, s) /\ metadata[s] = None /\ m \in engines
    /\ metadata' = [metadata EXCEPT ![s] = m]
    /\ ref_cnt' = [ref_cnt EXCEPT ![m] = @ + 1]
    /\ UNCHANGED <<content, shared, refcnt, engines, ops>>

\* A pipe: the writer's message is copied as it is into a place the reader
\* owns, and initialised.
Pass(t, s, d) ==
    /\ Free(t, s) /\ Is(s)
    /\ Owner[d] # t /\ ~Is(d) /\ ~Busy(d)
    /\ content' = [content EXCEPT ![s] = None, ![d] = content[s]]
    /\ shared' = [shared EXCEPT ![s] = FALSE, ![d] = shared[s]]
    /\ metadata' = [metadata EXCEPT ![s] = None, ![d] = metadata[s]]
    /\ UNCHANGED <<counters, engines, ops>>

\* close, move and copy: each closes a message first.
Starts(t, name, where, s, source) ==
    /\ call' = [call EXCEPT ![t] = name] /\ at' = [at EXCEPT ![t] = where]
    /\ slot' = [slot EXCEPT ![t] = s] /\ from' = [from EXCEPT ![t] = source]
    /\ UNCHANGED <<msgs, counters, engines, failed, last>>

Close(t, s) ==
    /\ Free(t, s) /\ Is(s)
    /\ Starts(t, "close", "content", s, None) /\ UNCHANGED todo

Move(t, s, source) ==
    /\ Free(t, s) /\ Owner[source] = t /\ s # source
    /\ Starts(t, "move", "content", s, source) /\ UNCHANGED todo

Copy(t, s, source) ==
    /\ Free(t, s) /\ Owner[source] = t /\ s # source
    /\ Starts(t, "copy", "content", s, source) /\ UNCHANGED todo

\* socket_base_t::send and dist_t::distribute: one message to several pipes.
\* First reset_metadata.
Send(t, s, pipes) ==
    /\ Free(t, s) /\ content[s] # None
    /\ Starts(t, "send", "metadata", s, None)
    /\ todo' = [todo EXCEPT ![t] = pipes]

----------------------------------------------------------------------------
Goto(t, where) == at' = [at EXCEPT ![t] = where] /\ UNCHANGED last
Frees(t, where, object) ==
    at' = [at EXCEPT ![t] = where] /\ last' = [last EXCEPT ![t] = object]
Returns(t) ==
    /\ call' = [call EXCEPT ![t] = "idle"] /\ at' = [at EXCEPT ![t] = "done"]
    /\ slot' = [slot EXCEPT ![t] = None] /\ from' = [from EXCEPT ![t] = None]
    /\ todo' = [todo EXCEPT ![t] = {}] /\ failed' = [failed EXCEPT ![t] = {}]
    /\ UNCHANGED last

\* The rest of close, and of reset_metadata.  The message has lost its
\* content from the start: no other thread can see it.
CloseContent(t) ==
    LET s == slot[t]
        c == content[s]
    IN  /\ at[t] = "content"
        /\ content' = [content EXCEPT ![s] = None]
        /\ shared' = [shared EXCEPT ![s] = FALSE]
        /\ refcnt' = IF shared[s] THEN [refcnt EXCEPT ![c] = @ - 1] ELSE refcnt
        /\ IF c = None \/ (shared[s] /\ refcnt[c] # 1) THEN Goto(t, "metadata")
           ELSE Frees(t, "free", c)
        /\ UNCHANGED <<metadata, ref_cnt, engines, args, dist>>

FreeContent(t) ==
    /\ at[t] = "free"
    /\ refcnt' = [refcnt EXCEPT ![last[t]] = -1]
    /\ Frees(t, IF call[t] = "send" THEN "done" ELSE "metadata", None)
    /\ UNCHANGED <<msgs, ref_cnt, engines, args, dist>>

AfterMetadata(t) == IF call[t] = "send" THEN "add_refs" ELSE "done"

DropMetadata(t) ==
    LET s == slot[t]
        m == metadata[s]
    IN  /\ at[t] = "metadata"
        /\ metadata' = [metadata EXCEPT ![s] = None]
        /\ ref_cnt' = IF m = None THEN ref_cnt ELSE [ref_cnt EXCEPT ![m] = @ - 1]
        /\ IF m = None \/ ref_cnt[m] # 1 THEN Goto(t, AfterMetadata(t))
           ELSE Frees(t, "delete", m)
        /\ UNCHANGED <<content, shared, refcnt, engines, args, dist>>

DeleteMetadata(t) ==
    /\ at[t] = "delete"
    /\ ref_cnt' = [ref_cnt EXCEPT ![last[t]] = -1]
    /\ Frees(t, AfterMetadata(t), None)
    /\ UNCHANGED <<msgs, refcnt, engines, args, dist>>

\* What follows the close.
CloseDone(t) ==
    /\ at[t] = "done" /\ call[t] \in {"close", "send"}
    /\ Returns(t)
    /\ UNCHANGED <<msgs, counters, engines>>

MoveDone(t) ==
    LET s == slot[t]
        f == from[t]
    IN  /\ at[t] = "done" /\ call[t] = "move"
        /\ content' = [content EXCEPT ![s] = content[f], ![f] = None]
        /\ shared' = [shared EXCEPT ![s] = shared[f], ![f] = FALSE]
        /\ metadata' = [metadata EXCEPT ![s] = metadata[f], ![f] = None]
        /\ Returns(t)
        /\ UNCHANGED <<counters, engines>>

\* Mutant: only the copy knows that the content is shared now.
CopyContentOnly(t) ==
    LET s == slot[t]
        f == from[t]
        c == content[f]
    IN  /\ at[t] = "done" /\ call[t] = "copy"
        /\ content' = [content EXCEPT ![s] = c]
        /\ shared' = [shared EXCEPT ![s] = c # None]
        /\ refcnt' = IF c = None THEN refcnt
                     ELSE [refcnt EXCEPT ![c] = IF shared[f] THEN @ + 1 ELSE 2]
        /\ Goto(t, "add_ref")
        /\ UNCHANGED <<metadata, ref_cnt, engines, args, dist>>

\* A content that was not shared is from now on, in both messages.
CopyContent(t) ==
    LET s == slot[t]
        f == from[t]
        c == content[f]
    IN  /\ at[t] = "done" /\ call[t] = "copy"
        /\ content' = [content EXCEPT ![s] = c]
        /\ shared' = [shared EXCEPT ![s] = c # None, ![f] = c # None]
        /\ refcnt' = IF c = None THEN refcnt
                     ELSE [refcnt EXCEPT ![c] = IF shared[f] THEN @ + 1 ELSE 2]
        /\ Goto(t, "add_ref")
        /\ UNCHANGED <<metadata, ref_cnt, engines, args, dist>>

CopyMetadata(t) ==
    LET m == metadata[from[t]]
    IN  /\ at[t] = "add_ref"
        /\ metadata' = [metadata EXCEPT ![slot[t]] = m]
        /\ ref_cnt' = IF m = None THEN ref_cnt ELSE [ref_cnt EXCEPT ![m] = @ + 1]
        /\ Returns(t)
        /\ UNCHANGED <<content, shared, refcnt, engines>>

----------------------------------------------------------------------------
\* distribute: the references are added before the first pipe is written to.
\* With no pipe to write to, the message is closed.
AddRefs(t) ==
    LET s == slot[t]
        c == content[s]
        n == Cardinality(todo[t])
    IN  /\ at[t] = "add_refs"
        /\ shared' = [shared EXCEPT ![s] = @ \/ n > 1]
        /\ refcnt' = IF n <= 1 THEN refcnt
                     ELSE [refcnt EXCEPT ![c] = IF shared[s] THEN @ + n - 1 ELSE n]
        /\ Goto(t, IF n = 0 THEN "content" ELSE "write")
        /\ call' = [call EXCEPT ![t] = IF n = 0 THEN "close" ELSE @]
        /\ UNCHANGED <<content, metadata, ref_cnt, engines, slot, from, dist>>

WritePipe(t, d) ==
    LET s == slot[t]
    IN  /\ at[t] = "write" /\ d \in todo[t] /\ ~Is(d) /\ ~Busy(d)
        /\ content' = [content EXCEPT ![d] = content[s]]
        /\ shared' = [shared EXCEPT ![d] = shared[s]]
        /\ todo' = [todo EXCEPT ![t] = @ \ {d}]
        /\ UNCHANGED <<metadata, counters, engines, args, at, failed, last>>

WriteFails(t, d) ==
    /\ at[t] = "write" /\ d \in todo[t]
    /\ todo' = [todo EXCEPT ![t] = @ \ {d}]
    /\ failed' = [failed EXCEPT ![t] = @ \cup {d}]
    /\ UNCHANGED <<msgs, counters, engines, args, at, last>>

\* rm_refs gives back the references of the pipes that refused.  The message
\* itself is initialised and not closed: its references are all used.
RmRefs(t) ==
    LET s == slot[t]
        c == content[s]
        n == Cardinality(failed[t])
    IN  /\ at[t] = "write" /\ todo[t] = {}
        /\ content' = [content EXCEPT ![s] = None]
        /\ shared' = [shared EXCEPT ![s] = FALSE]
        /\ refcnt' = IF shared[s] THEN [refcnt EXCEPT ![c] = @ - n] ELSE refcnt
        /\ IF n = 0 \/ (shared[s] /\ refcnt[c] # n) THEN Goto(t, "done") ELSE Frees(t, "free", c)
        /\ UNCHANGED <<metadata, ref_cnt, engines, args, dist>>

\* ~stream_engine_t.
EngineGoes(m) ==
    /\ m \in engines
    /\ engines' = engines \ {m}
    /\ ref_cnt' = [ref_cnt EXCEPT ![m] = IF @ = 1 THEN -1 ELSE @ - 1]
    /\ UNCHANGED <<msgs, refcnt, ops>>

MsgStarts(t) ==
    \/ \E s \in Slots, c \in Contents : InitSize(t, s, c)
    \/ \E s \in Slots, m \in Metas : SetMetadata(t, s, m)
    \/ \E s, d \in Slots : Pass(t, s, d)
    \/ \E s \in Slots : Close(t, s)
    \/ \E s, d \in Slots : Move(t, s, d)
    \/ \E s, d \in Slots : Copy(t, s, d)
    \/ \E s \in Slots, pipes \in SUBSET {d \in Slots : Owner[d] # t} : Send(t, s, pipes)

MsgContinues(t) ==
    \/ CloseContent(t) \/ FreeContent(t) \/ DropMetadata(t) \/ DeleteMetadata(t)
    \/ CloseDone(t) \/ MoveDone(t) \/ CopyContent(t) \/ CopyMetadata(t)
    \/ AddRefs(t) \/ RmRefs(t)
    \/ \E d \in Slots : WritePipe(t, d)
    \/ \E d \in Slots : WriteFails(t, d)

MsgNext ==
    \/ \E t \in Threads : MsgStarts(t)
    \/ \E t \in Threads : MsgContinues(t)
    \/ \E m \in Metas : EngineGoes(m)

MsgSpec == MsgInit /\ [][MsgNext]_msgVars

----------------------------------------------------------------------------
\* The references to a content: a message that has it, or, for a message that
\* is being distributed, each pipe that has not got its copy.
Shares(s) ==
    LET t == Owner[s]
    IN  IF slot[t] = s /\ at[t] = "write" THEN todo[t] \cup failed[t] ELSE {s}
Refs(c) == {p \in Slots \X Slots : content[p[1]] = c /\ p[2] \in Shares(p[1])}
MetaRefs(m) == {s \in Slots : metadata[s] = m}
Freeing(x) == {t \in Threads : last[t] = x}

\* A content lives exactly as long as somebody refers to it or is about to
\* free it; just one thread frees it, after the last reference is gone; and
\* the same holds of metadata, whose engine has a reference too.  So no
\* message is left with a freed content, none is freed twice and none leaks,
\* whichever threads close, copy and distribute it at the same time
\* (msg_t::close, copy, add_refs and rm_refs, metadata_t::drop_ref).
FreedByTheLast ==
    /\ \A c \in Contents :
         /\ refcnt[c] # -1 <=> Refs(c) # {} \/ Freeing(c) # {}
         /\ Freeing(c) # {} => Refs(c) = {} /\ Cardinality(Freeing(c)) = 1
    /\ \A m \in Metas :
         /\ ref_cnt[m] # -1 <=> MetaRefs(m) # {} \/ m \in engines \/ Freeing(m) # {}
         /\ Freeing(m) # {} => MetaRefs(m) = {} /\ m \notin engines /\ Cardinality(Freeing(m)) = 1

----------------------------------------------------------------------------
(* Why it holds: the inductive invariant.                                  *)

MsgTypeOK ==
    /\ content \in [Slots -> Contents \cup {None}] /\ shared \in [Slots -> BOOLEAN]
    /\ metadata \in [Slots -> Metas \cup {None}]
    /\ refcnt \in [Contents -> Int] /\ ref_cnt \in [Metas -> Int] /\ engines \subseteq Metas
    /\ call \in [Threads -> {"idle", "close", "move", "copy", "send"}]
    /\ at \in [Threads -> {"content", "free", "metadata", "delete", "done",
                           "add_ref", "add_refs", "write"}]
    /\ slot \in [Threads -> Slots \cup {None}] /\ from \in [Threads -> Slots \cup {None}]
    /\ todo \in [Threads -> SUBSET Slots] /\ failed \in [Threads -> SUBSET Slots]
    /\ last \in [Threads -> Contents \cup Metas \cup {None}]

\* Where an operation may be, and whose messages it is about.
OpOK(t) ==
    /\ call[t] = "idle" => at[t] = "done" /\ slot[t] = None
    /\ call[t] # "idle" => slot[t] \in Slots /\ Owner[slot[t]] = t
    /\ call[t] \in {"move", "copy"} =>
         from[t] \in Slots /\ Owner[from[t]] = t /\ from[t] # slot[t]
    /\ call[t] = "send" => at[t] \notin {"content", "add_ref"}
    /\ call[t] # "send" => at[t] \notin {"add_refs", "write"}
    /\ at[t] = "add_ref" => call[t] = "copy"
    /\ at[t] \in {"metadata", "delete", "add_refs"} \/ call[t] # "send" => failed[t] = {}
    /\ todo[t] \cap failed[t] = {} /\ \A d \in todo[t] \cup failed[t] : Owner[d] # t
    /\ at[t] = "free" => last[t] \in Contents
    /\ at[t] = "delete" => last[t] \in Metas
    /\ at[t] \notin {"free", "delete"} => last[t] = None

\* What is left of its message there.
LeftOK(t) ==
    LET s == slot[t]
    IN  /\ call[t] \in {"close", "move", "copy"} /\ at[t] \in {"free", "metadata", "delete", "done"}
              => content[s] = None
        /\ call[t] = "send" /\ at[t] \in {"metadata", "delete", "add_refs", "write"}
              => content[s] # None
        /\ call[t] = "send" /\ at[t] \in {"free", "done"} => content[s] = None
        /\ at[t] \in {"delete", "add_ref", "add_refs", "write"}
              \/ (at[t] = "done" /\ call[t] # "idle")
              \/ (at[t] = "free" /\ call[t] = "send")
              => metadata[s] = None

\* The counter of a content that is not free: the number of references, if
\* they know that they share it; and there is one if it does not.
CountOK(c) ==
    \/ refcnt[c] = -1 /\ Refs(c) = {} /\ Freeing(c) = {}
    \/ refcnt[c] # -1 /\ Refs(c) = {} /\ \E t \in Threads : Freeing(c) = {t}
    \/ /\ Refs(c) # {} /\ Freeing(c) = {} /\ refcnt[c] = Cardinality(Refs(c))
       /\ \A p \in Refs(c) : shared[p[1]]
    \/ /\ refcnt[c] # -1 /\ Freeing(c) = {}
       /\ \E p \in Slots \X Slots : Refs(c) = {p} /\ ~shared[p[1]]

EngineRef(m) == IF m \in engines THEN 1 ELSE 0
MetaCountOK(m) ==
    \/ ref_cnt[m] = -1 /\ MetaRefs(m) = {} /\ m \notin engines /\ Freeing(m) = {}
    \/ /\ ref_cnt[m] # -1 /\ MetaRefs(m) = {} /\ m \notin engines
       /\ \E t \in Threads : Freeing(m) = {t}
    \/ /\ MetaRefs(m) # {} \/ m \in engines
       /\ Freeing(m) = {} /\ ref_cnt[m] = Cardinality(MetaRefs(m)) + EngineRef(m)

MsgInv ==
    /\ MsgTypeOK
    /\ \A s \in Slots : content[s] = None => ~shared[s]
    /\ \A t \in Threads : OpOK(t) /\ LeftOK(t)
    /\ \A c \in Contents : CountOK(c)
    /\ \A m \in Metas : MetaCountOK(m)
============================================================================
