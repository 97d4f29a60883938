------------------------------ MODULE YPipe ------------------------------
(***************************************************************************)
(* ypipe_t (ypipe.hpp): the lock-free queue under every pipe and mailbox.  *)
(* One writer thread owns w and f, one reader thread owns r, and c is the  *)
(* single word both touch, by compare-and-swap.  Pointers into the queue   *)
(* are positions 1, 2, ...: the queue holds the items at positions front   *)
(* to back - 1, and position back is the terminator slot.                  *)
(*                                                                         *)
(* Every action is one atomic access to c together with the accesses to    *)
(* thread-private words that follow it.                                    *)
(***************************************************************************)
EXTENDS Naturals

CONSTANTS
    Values,     \* payloads of the items
    MaxWrites   \* bound: position the terminator slot may reach

VARIABLES
    buf,     \* the slots in use, a function on front .. back - 1
    front,   \* &queue.front ()
    back,    \* &queue.back ()
    w,       \* first un-flushed item                      (writer)
    f,       \* first item to be flushed in the future     (writer)
    r,       \* first un-prefetched item                   (reader)
    c,       \* past the last flushed item, NULL when the reader is asleep
    wpc,     \* "idle", or "set": inside flush, after the failed cas
    out      \* the last item read () returned (<<>> before the first)

vars == <<buf, front, back, w, f, r, c, wpc, out>>

NULL == 0
Position == Nat \ {NULL}
Item == [val : Values, incomplete : BOOLEAN]

TypeOK ==
    /\ front \in Position
    /\ back \in Position
    /\ buf \in [front .. back - 1 -> Item]
    /\ w \in Position
    /\ f \in Position
    /\ r \in Nat
    /\ c \in Nat
    /\ wpc \in {"idle", "set"}
    /\ out \in Item \cup {<<>>}

---------------------------------------------------------------------------
\* The constructor: every pointer is on the terminator.
Init ==
    /\ front = 1
    /\ back = 1
    /\ buf = [i \in 1 .. 0 |-> {}]
    /\ w = 1
    /\ f = 1
    /\ r = 1
    /\ c = 1
    /\ wpc = "idle"
    /\ out = <<>>

\* (mutant) f moves whether or not the item is continued.
WriteIgnoresIncomplete(item) ==
    /\ wpc = "idle"
    /\ back < MaxWrites
    /\ buf' = [i \in front .. back |-> IF i = back THEN item ELSE buf[i]]
    /\ back' = back + 1
    /\ f' = back + 1
    /\ UNCHANGED <<front, w, r, c, wpc, out>>

\* write (value_, incomplete_)
Write(item) ==
    /\ wpc = "idle"
    /\ back < MaxWrites
    /\ buf' = [i \in front .. back |-> IF i = back THEN item ELSE buf[i]]
    /\ back' = back + 1
    /\ f' = IF item.incomplete THEN f ELSE back + 1
    /\ UNCHANGED <<front, w, r, c, wpc, out>>

\* (mutant) unwrite without its test.
UnwriteUnguarded ==
    /\ wpc = "idle"
    /\ back' = back - 1
    /\ buf' = [i \in front .. back - 2 |-> buf[i]]
    /\ UNCHANGED <<front, w, f, r, c, wpc, out>>

\* (mutant) unwrite of any item not flushed yet, completed ones included.
UnwriteFlushed ==
    /\ wpc = "idle"
    /\ w # back
    /\ back' = back - 1
    /\ buf' = [i \in front .. back - 2 |-> buf[i]]
    /\ UNCHANGED <<front, w, f, r, c, wpc, out>>

\* unwrite (): only past f, so only parts of an incomplete item.
Unwrite ==
    /\ wpc = "idle"
    /\ f # back
    /\ back' = back - 1
    /\ buf' = [i \in front .. back - 2 |-> buf[i]]
    /\ UNCHANGED <<front, w, f, r, c, wpc, out>>

\* flush () whose cas finds the reader awake.
FlushAwake ==
    /\ wpc = "idle"
    /\ w # f
    /\ c = w
    /\ c' = f
    /\ w' = f
    /\ UNCHANGED <<buf, front, back, f, r, wpc, out>>

\* flush () whose cas fails: the reader is asleep ...
FlushAsleep ==
    /\ wpc = "idle"
    /\ w # f
    /\ c # w
    /\ wpc' = "set"
    /\ UNCHANGED <<buf, front, back, w, f, r, c, out>>

\* (mutant) c is set but w is left behind.
FlushSetStale ==
    /\ wpc = "set"
    /\ c' = f
    /\ wpc' = "idle"
    /\ UNCHANGED <<buf, front, back, w, f, r, out>>

\* ... so c is stored without a cas, and flush () returns false.
FlushSet ==
    /\ wpc = "set"
    /\ c' = f
    /\ w' = f
    /\ wpc' = "idle"
    /\ UNCHANGED <<buf, front, back, f, r, out>>

Prefetched == front # r /\ r # NULL

\* (mutant) c is exchanged with NULL instead of compared and swapped.
CheckReadAlwaysSleeps ==
    /\ ~Prefetched
    /\ r' = c
    /\ c' = NULL
    /\ UNCHANGED <<buf, front, back, w, f, wpc, out>>

\* check_read () with nothing prefetched: r is whatever c held.
CheckRead ==
    /\ ~Prefetched
    /\ r' = c
    /\ c' = IF c = front THEN NULL ELSE c
    /\ UNCHANGED <<buf, front, back, w, f, wpc, out>>

\* read () once check_read () has returned true.
Read ==
    /\ Prefetched
    /\ out' = buf[front]
    /\ front' = front + 1
    /\ buf' = [i \in front + 1 .. back - 1 |-> buf[i]]
    /\ UNCHANGED <<back, w, f, r, c, wpc>>

WriterNext ==
    \/ \E item \in Item : Write(item)
    \/ Unwrite
    \/ FlushAwake
    \/ FlushAsleep
    \/ FlushSet

ReaderNext == CheckRead \/ Read

Next == WriterNext \/ ReaderNext

Spec == Init /\ [][Next]_vars

---------------------------------------------------------------------------
(* Every pointer either thread may follow or compare stays inside the live *)
(* part of the queue, in the order reader, flushed, completed, terminator. *)
(* The chunks behind front are recycled by yqueue_t, so a pointer left     *)
(* behind front would be compared against a reused address.                *)
PointersLive ==
    /\ front <= w
    /\ w <= f
    /\ f <= back
    /\ r = NULL \/ (front <= r /\ r <= w)
    /\ c = NULL \/ c = w

(* flush () treats a failed cas as "the reader is asleep" and then stores  *)
(* c without a cas.  That is sound only if a failed cas always means that  *)
(* c is NULL, that c cannot change before the store, and that a sleeping   *)
(* reader has read everything published, so that waking it loses nothing.  *)
AsleepMeansDrained ==
    /\ c = NULL => front = w /\ r \in {NULL, front}
    /\ wpc = "set" => c = NULL /\ w # f

(* "Incomplete items are never flushed down the stream": no boundary the   *)
(* reader can stop at lies in the middle of a multi-part item.             *)
NeverSplit ==
    \A p \in {w, f, r} :
        front < p => ~buf[p - 1].incomplete

(* The conjunction that is inductive: each part needs the others.          *)
Inv ==
    /\ TypeOK
    /\ PointersLive
    /\ AsleepMeansDrained
    /\ NeverSplit

---------------------------------------------------------------------------
(* Refinement: the lock-free queue implements BatchQueue.                  *)

\* The items in positions from .. to - 1 of b, as a sequence.
Cut(b, from, to) == [i \in 1 .. to - from |-> b[from + i - 1]]

Abstract == INSTANCE BatchQueue WITH
    ready <- Cut(buf, front, w),
    batch <- Cut(buf, w, back),
    complete <- f - w,
    asleep <- c = NULL,
    out <- out

(* The lock-free queue, step by step, is the batch queue it promises.      *)
ImplementsBatchQueue == Abstract!Spec
============================================================================
