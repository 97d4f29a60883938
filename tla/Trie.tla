------------------------------- MODULE Trie -------------------------------
(***************************************************************************)
(* trie_t (trie.cpp), the subscriptions of an XSUB, and mtrie_t            *)
(* (mtrie.cpp), those of the pipes of an XPUB.  A node is a record; here   *)
(* is its refcnt or its set of pipes (none is 0 or {}, pipes = NULL), and  *)
(* next its table of count children, the first one for the character min.  *)
(* The single child that the code keeps without a table is a table of one. *)
(***************************************************************************)
EXTENDS Integers, Sequences, SequencesExt

Null == [null |-> TRUE]
NewNode(none) == [here |-> none, min |-> 0, count |-> 0, live |-> 0, next |-> <<>>]
is_redundant(n, none) == n.here = none /\ n.live = 0

InTable(n, c) == c >= n.min /\ c < n.min + n.count
Child(n, c) == IF InTable(n, c) THEN n.next[c - n.min + 1] ELSE Null
Nulls(k) == [i \in 1 .. k |-> Null]
Live(table) == {i \in DOMAIN table : table[i] # Null}
Lowest(ns) == CHOOSE i \in ns : \A j \in ns : i <= j
Highest(ns) == CHOOSE i \in ns : \A j \in ns : i >= j

---------------------------------------------------------------------------
(* add ()                                                                  *)

\* (mutant) memmove () to the wrong end
ExtendedUnmoved(n, c) ==
    IF InTable(n, c) THEN n
    ELSE IF n.count = 0
    THEN [n EXCEPT !.min = c, !.count = 1, !.next = <<Null>>]
    ELSE IF n.min < c
    THEN [n EXCEPT !.count = c - n.min + 1, !.next = @ \o Nulls(c - n.min + 1 - n.count)]
    ELSE [n EXCEPT !.min = c, !.count = n.min + n.count - c, !.next = @ \o Nulls(n.min - c)]
\* The table is extended so that it has a slot for c.
Extended(n, c) ==
    IF InTable(n, c) THEN n
    ELSE IF n.count = 0
    THEN [n EXCEPT !.min = c, !.count = 1, !.next = <<Null>>]
    ELSE IF n.min < c
    THEN [n EXCEPT !.count = c - n.min + 1, !.next = @ \o Nulls(c - n.min + 1 - n.count)]
    ELSE [n EXCEPT !.min = c, !.count = n.min + n.count - c, !.next = Nulls(n.min - c) \o @]

\* The trie in which the node of prefix, made if need be, holds here.
RECURSIVE Put(_, _, _, _)
Put(n, prefix, here, none) ==
    IF prefix = <<>> THEN [n EXCEPT !.here = here]
    ELSE LET e == Extended(n, Head(prefix))
             kid == Child(e, Head(prefix))
         IN  [e EXCEPT
                !.next[Head(prefix) - e.min + 1] =
                   Put(IF kid = Null THEN NewNode(none) ELSE kid, Tail(prefix), here, none),
                !.live = IF kid = Null THEN @ + 1 ELSE @]

\* The node of prefix
RECURSIVE Find(_, _)
Find(n, prefix) ==
    IF n = Null \/ prefix = <<>> THEN n
    ELSE Find(Child(n, Head(prefix)), Tail(prefix))
Here(n, prefix, none) ==
    IF Find(n, prefix) = Null THEN none ELSE Find(n, prefix).here

TrieAdd(n, prefix) == Put(n, prefix, Here(n, prefix, 0) + 1, 0)
MtrieAdd(n, prefix, pipe) == Put(n, prefix, Here(n, prefix, {}) \cup {pipe}, {})

---------------------------------------------------------------------------
(* rm () of a prefix                                                       *)

\* Slots first to last of the table become the table.
Window(n, table, first, last) ==
    [n EXCEPT !.min = @ + first - 1, !.count = last - first + 1,
              !.next = SubSeq(table, first, last)]
Emptied(n) == [n EXCEPT !.count = 0, !.next = <<>>]

\* The slot that stays when one is left: trie_t takes the end opposite to
\* the pruned node, mtrie_t looks for it.
KeptEnd(n, c) == IF c = n.min THEN n.count ELSE 1
KeptFound(n, c) == Lowest(Live(n.next) \ {c - n.min + 1})

\* The child for c has become redundant and is deleted.
Pruned(n, c, kept) ==
    LET table == [n.next EXCEPT ![c - n.min + 1] = Null]
        less == [n EXCEPT !.live = @ - 1]
    IN  IF n.count = 1 THEN Emptied(less)
        ELSE IF less.live = 1 THEN Window(less, table, kept, kept)
        ELSE IF c = n.min THEN Window(less, table, Lowest(Live(table)), n.count)
        ELSE IF c = n.min + n.count - 1
        THEN Window(less, table, 1, Highest(Live(table)))
        ELSE [less EXCEPT !.next = table]

RECURSIVE TrieRm(_, _)
TrieRm(n, prefix) ==
    IF prefix = <<>> THEN [n EXCEPT !.here = IF @ = 0 THEN 0 ELSE @ - 1]
    ELSE IF Child(n, Head(prefix)) = Null THEN n
    ELSE LET c == Head(prefix)
             kid == TrieRm(Child(n, c), Tail(prefix))
         IN  IF is_redundant(kid, 0) THEN Pruned(n, c, KeptEnd(n, c))
             ELSE [n EXCEPT !.next[c - n.min + 1] = kid]

RECURSIVE MtrieRm(_, _, _)
MtrieRm(n, prefix, pipe) ==
    IF prefix = <<>> THEN [n EXCEPT !.here = @ \ {pipe}]
    ELSE IF Child(n, Head(prefix)) = Null THEN n
    ELSE LET c == Head(prefix)
             kid == MtrieRm(Child(n, c), Tail(prefix), pipe)
         IN  IF is_redundant(kid, {})
             THEN Pruned(n, c, KeptFound(n, c))
             ELSE [n EXCEPT !.next[c - n.min + 1] = kid]

\* What rm () returns, and its assertion that the pipe was subscribed
TrieRmLast(n, prefix) == Here(n, prefix, 0) = 1
MtrieRmLast(n, prefix, pipe) ==
    Find(n, prefix) # Null /\ Here(n, prefix, {}) \subseteq {pipe}
MtrieRmFails(n, prefix, pipe) ==
    Here(n, prefix, {}) # {} /\ pipe \notin Here(n, prefix, {})

---------------------------------------------------------------------------
(* mtrie_t::rm () of a pipe                                                *)

\* The trie without the pipe; redundant nodes go and tables shrink.
RECURSIVE WithoutPipe(_, _)
WithoutPipe(n, pipe) ==
    LET kid(i) == WithoutPipe(n.next[i], pipe)
        table == [i \in DOMAIN n.next |->
                    IF n.next[i] = Null THEN Null
                    ELSE IF is_redundant(kid(i), {}) THEN Null ELSE kid(i)]
        left == Live(table)
        less == [n EXCEPT !.here = @ \ {pipe}, !.next = table,
                          !.live = @ - (Len(SelectSeq(n.next, LAMBDA k : k # Null))
                                        - Len(SelectSeq(table, LAMBDA k : k # Null)))]
    IN  IF left = {} THEN Emptied(less)
        ELSE IF n.count = 1 THEN less
        ELSE Window(less, table, Lowest(left), Highest(left))

\* The prefixes only this pipe had, in the order func_ is called with them
RECURSIVE Orphans(_, _, _)
Orphans(n, pipe, path) ==
    (IF n.here = {pipe} THEN <<path>> ELSE <<>>)
    \o FlattenSeq([i \in DOMAIN n.next |->
         IF n.next[i] = Null THEN <<>>
         ELSE Orphans(n.next[i], pipe, Append(path, n.min + i - 1))])

---------------------------------------------------------------------------
(* Looking things up                                                       *)

\* trie_t::check ()
RECURSIVE Checked(_, _)
Checked(n, data) ==
    \/ n.here > 0
    \/ /\ data # <<>>
       /\ Child(n, Head(data)) # Null
       /\ Checked(Child(n, Head(data)), Tail(data))

\* mtrie_t::match (): the pipes func_ is called with
RECURSIVE Matches(_, _)
Matches(n, data) ==
    n.here \cup
      (IF data = <<>> THEN {}
       ELSE IF Child(n, Head(data)) = Null THEN {}
       ELSE Matches(Child(n, Head(data)), Tail(data)))

\* trie_t::apply (): the prefixes func_ is called with
RECURSIVE Applied(_, _)
Applied(n, path) ==
    (IF n.here > 0 THEN <<path>> ELSE <<>>)
    \o FlattenSeq([i \in DOMAIN n.next |->
         IF n.next[i] = Null THEN <<>>
         ELSE Applied(n.next[i], Append(path, n.min + i - 1))])

---------------------------------------------------------------------------
\* The shape that the assertions of add (), rm () and the destructor rely
\* on: live_nodes counts the children, both ends of a table are in use and
\* no node but the root is redundant.
RECURSIVE Compact(_, _)
Compact(n, none) ==
    LET live == Live(n.next) IN
    /\ Len(n.next) = n.count
    /\ n.live = Len(SelectSeq(n.next, LAMBDA k : k # Null))
    /\ n.count > 0 => {1, n.count} \subseteq live
    /\ \A i \in live : ~is_redundant(n.next[i], none) /\ Compact(n.next[i], none)
============================================================================
