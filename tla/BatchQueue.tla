---------------------------- MODULE BatchQueue ----------------------------
(***************************************************************************)
(* What ypipe_t promises its users: a FIFO between one writer and one      *)
(* reader, in which items travel in batches.  Items the writer has written *)
(* stay private to it until a flush; a flush publishes every completed     *)
(* item at once; an item continued by a later one ("incomplete") is never  *)
(* published before its last part.  A reader that finds nothing published  *)
(* is recorded as asleep, and the next flush that publishes something      *)
(* learns that the reader must be woken.                                   *)
(***************************************************************************)
EXTENDS Naturals, Sequences

CONSTANT Values          \* payloads of the items

VARIABLES
    ready,     \* items published and not read yet
    batch,     \* items written and not published yet
    complete,  \* how many items of batch the next flush publishes
    asleep,    \* the reader found the queue empty since the last publication
    out        \* the last item handed to the reader (<<>> before the first)

vars == <<ready, batch, complete, asleep, out>>

Item == [val : Values, incomplete : BOOLEAN]

Init ==
    /\ ready = <<>>
    /\ batch = <<>>
    /\ complete = 0
    /\ asleep = FALSE
    /\ out = <<>>

Write(item) ==
    /\ batch' = Append(batch, item)
    /\ complete' = IF item.incomplete THEN complete ELSE Len(batch) + 1
    /\ UNCHANGED <<ready, asleep, out>>

\* Only parts of an item that is still incomplete can be taken back.
Unwrite ==
    /\ Len(batch) > complete
    /\ batch' = SubSeq(batch, 1, Len(batch) - 1)
    /\ UNCHANGED <<ready, complete, asleep, out>>

Flush ==
    /\ complete > 0
    /\ ready' = ready \o SubSeq(batch, 1, complete)
    /\ batch' = SubSeq(batch, complete + 1, Len(batch))
    /\ complete' = 0
    /\ asleep' = FALSE
    /\ UNCHANGED out

\* The reader looks and finds nothing.
Sleep ==
    /\ ready = <<>>
    /\ asleep' = TRUE
    /\ UNCHANGED <<ready, batch, complete, out>>

Read ==
    /\ ready # <<>>
    /\ ~asleep
    /\ out' = Head(ready)
    /\ ready' = Tail(ready)
    /\ UNCHANGED <<batch, complete, asleep>>

Next ==
    \/ \E item \in Item : Write(item)
    \/ Unwrite
    \/ Flush
    \/ Sleep
    \/ Read

Spec == Init /\ [][Next]_vars
============================================================================
