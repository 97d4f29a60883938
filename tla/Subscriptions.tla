--------------------------- MODULE Subscriptions ---------------------------
(***************************************************************************)
(* The two tries beside what they stand for: a bag of topics (wanted) and  *)
(* a set of topics for each pipe (held).  Every sequence of calls the      *)
(* sockets make is a behaviour; the one call left out is an unsubscription *)
(* from a pipe that is not subscribed, which PubSub deals with.            *)
(***************************************************************************)
EXTENDS Trie

CONSTANTS
    Topics, Pipes,
    MaxWanted,    \* subscriptions in the trie_t
    MaxHeld       \* subscriptions in the mtrie_t

VARIABLES trie, wanted, mtrie, held

vars == <<trie, wanted, mtrie, held>>

Init ==
    /\ trie = NewNode(0) /\ wanted = [t \in Topics |-> 0]
    /\ mtrie = NewNode({}) /\ held = [p \in Pipes |-> {}]

Total(f) == FoldFunction(LAMBDA a, b : a + b, 0, f)
AllHeld == {<<p, t>> \in Pipes \X Topics : t \in held[p]}

Add(t) ==
    /\ held = [p \in Pipes |-> {}] /\ Total(wanted) < MaxWanted
    /\ trie' = TrieAdd(trie, t)
    /\ wanted' = [wanted EXCEPT ![t] = @ + 1]
    /\ UNCHANGED <<mtrie, held>>
Rm(t) ==
    /\ trie' = TrieRm(trie, t)
    /\ wanted' = [wanted EXCEPT ![t] = IF @ > 0 THEN @ - 1 ELSE 0]
    /\ UNCHANGED <<mtrie, held>>

PipeAdd(p, t) ==
    /\ Total(wanted) = 0
    /\ Total([q \in Pipes |-> Cardinality(held[q])]) < MaxHeld
    /\ mtrie' = MtrieAdd(mtrie, t, p)
    /\ held' = [held EXCEPT ![p] = @ \cup {t}]
    /\ UNCHANGED <<trie, wanted>>
PipeRm(p, t) ==
    /\ t \in held[p] \/ \A q \in Pipes : t \notin held[q]
    /\ mtrie' = MtrieRm(mtrie, t, p)
    /\ held' = [held EXCEPT ![p] = @ \ {t}]
    /\ UNCHANGED <<trie, wanted>>
PipeGone(p) ==
    /\ mtrie' = WithoutPipe(mtrie, p)
    /\ held' = [held EXCEPT ![p] = {}]
    /\ UNCHANGED <<trie, wanted>>

Next ==
    \/ \E t \in Topics : Add(t) \/ Rm(t)
    \/ \E p \in Pipes : PipeGone(p) \/ \E t \in Topics : PipeAdd(p, t) \/ PipeRm(p, t)
Spec == Init /\ [][Next]_vars

---------------------------------------------------------------------------
Only(p) == held[p] \ UNION {held[q] : q \in Pipes \ {p}}

\* The tries are exact: check () and match () find precisely the topics that
\* are prefixes of the data, apply () and rm () of a pipe call back with
\* each topic once, in order, and the tables are as the assertions need them.
TriesExact ==
    /\ \A d \in Topics :
         /\ Checked(trie, d) <=> \E t \in Topics : wanted[t] > 0 /\ IsPrefix(t, d)
         /\ Matches(mtrie, d) =
              {p \in Pipes : \E t \in held[p] : IsPrefix(t, d)}
    /\ ToSet(Applied(trie, <<>>)) = {t \in Topics : wanted[t] > 0}
    /\ IsInjective(Applied(trie, <<>>))
    /\ \A p \in Pipes : /\ ToSet(Orphans(mtrie, p, <<>>)) = Only(p)
                        /\ IsInjective(Orphans(mtrie, p, <<>>))
    /\ Compact(trie, 0) /\ Compact(mtrie, {})
============================================================================
