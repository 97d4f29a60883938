------------------------------- MODULE Dist -------------------------------
(***************************************************************************)
(* dist_t (dist.cpp): every message goes to all the matching pipes.  The   *)
(* array holds the matching pipes, then the other active ones, then the    *)
(* eligible ones (writable again, but only from the next message on), then *)
(* the passive ones.                                                       *)
(*                                                                         *)
(* An XPUB socket marks the pipes subscribed to the first part of each     *)
(* message and sends to those; an XSUB socket sends to all, and also       *)
(* writes its subscriptions straight to a pipe that is new or hiccuped.    *)
(***************************************************************************)
EXTENDS OutPipes

CONSTANTS
    XSub,           \* the socket is an XSUB, not an XPUB
    Hiccups,        \* the session of a pipe may hiccup it
    Subscriptions   \* subscriptions an XSUB has cached

VARIABLES
    pipes, matching, active, eligible, more,  \* the fields of dist_t
    stray     \* a swap has reached beyond the array

distvars == <<pipes, matching, active, eligible, more>>
vars == <<pipevars, uservars, distvars, stray>>

Init ==
    /\ OutInit
    /\ pipes = <<>>
    /\ matching = 0 /\ active = 0 /\ eligible = 0
    /\ more = FALSE
    /\ stray = FALSE

---------------------------------------------------------------------------
List == [pipes |-> pipes, matching |-> matching, active |-> active,
         eligible |-> eligible]
Install(l) ==
    /\ pipes' = l.pipes
    /\ matching' = l.matching
    /\ active' = l.active
    /\ eligible' = l.eligible

\* match ()
Matched(l, p) ==
    IF IndexOf(l.pipes, p) \notin l.matching .. l.eligible - 1 THEN l
    ELSE [l EXCEPT !.pipes = Swap(@, IndexOf(@, p), l.matching),
                   !.matching = @ + 1]
\* The trie calls match () for each subscribed pipe.
MatchedAll(l, ps) ==
    LET after[n \in 0 .. Len(l.pipes)] ==
            IF n = 0 THEN l
            ELSE IF l.pipes[n] \in ps THEN Matched(after[n - 1], l.pipes[n])
            ELSE after[n - 1]
    IN  after[Len(l.pipes)]

\* (mutant) The pipe stays eligible.
FailedEligible(l, p) ==
    LET a == Swap(l.pipes, IndexOf(l.pipes, p), l.matching - 1)
        b == Swap(a, IndexOf(a, p), l.active - 1)
    IN  [l EXCEPT !.pipes = b, !.matching = @ - 1, !.active = @ - 1]
\* write () failed: the pipe leaves the matching, active and eligible ones.
Failed(l, p) ==
    LET a == Swap(l.pipes, IndexOf(l.pipes, p), l.matching - 1)
        b == Swap(a, IndexOf(a, p), l.active - 1)
    IN  [pipes |-> Swap(b, l.active - 1, l.eligible - 1),
         matching |-> l.matching - 1, active |-> l.active - 1,
         eligible |-> l.eligible - 1]

\* (mutant) The pipe swapped in for one that failed is not written.
DistributedOnce(l) ==
    LET after[i \in 0 .. l.matching] ==
            IF i = 0 THEN [list |-> l, done |-> {}]
            ELSE LET m == after[i - 1]
                     p == At(m.list.pipes, i - 1)
                 IN  IF i > m.list.matching THEN m
                     ELSE IF CanWrite(p)
                     THEN [m EXCEPT !.done = @ \cup {p}]
                     ELSE [m EXCEPT !.list = Failed(@, p)]
    IN  after[l.matching]
\* The loop of distribute (): the array it leaves and the pipes written.  A
\* pipe that fails is replaced by another, which is tried at the same index.
Distributed(l) ==
    LET after[n \in 0 .. l.matching] ==
            IF n = 0 THEN [list |-> l, done |-> {}, i |-> 0]
            ELSE LET m == after[n - 1]
                     p == At(m.list.pipes, m.i)
                 IN  IF CanWrite(p)
                     THEN [m EXCEPT !.done = @ \cup {p}, !.i = @ + 1]
                     ELSE [m EXCEPT !.list = Failed(@, p)]
    IN  after[l.matching]

\* (mutant) A pipe that becomes writable gets the rest of the message.
ActivatedAtOnce(l, p) ==
    [l EXCEPT !.pipes = Swap(Swap(@, IndexOf(@, p), l.eligible),
                             l.eligible, l.active),
              !.eligible = @ + 1, !.active = @ + 1]
\* activated ()
Activated(l, p) ==
    LET a == Swap(l.pipes, IndexOf(l.pipes, p), l.eligible)
    IN  IF more
        THEN [l EXCEPT !.pipes = a, !.eligible = @ + 1]
        ELSE [l EXCEPT !.pipes = Swap(a, l.eligible, l.active),
                       !.eligible = @ + 1, !.active = @ + 1]

\* attach ()
Attached(l, p) ==
    LET a == Append(l.pipes, p)
    IN  IF more
        THEN [l EXCEPT !.pipes = Swap(a, l.eligible, Len(l.pipes)),
                       !.eligible = @ + 1]
        ELSE [l EXCEPT !.pipes = Swap(a, l.active, Len(l.pipes)),
                       !.active = @ + 1, !.eligible = @ + 1]

\* One of the three steps of pipe_terminated (): p leaves the first n pipes.
Leave(array, p, n) ==
    IF IndexOf(array, p) < n THEN Swap(array, IndexOf(array, p), n - 1)
    ELSE array
Fewer(array, p, n) == IF IndexOf(array, p) < n THEN n - 1 ELSE n
\* (mutant) The pipe is taken out of the eligible ones only.
WithoutActive(l, p) ==
    LET c == Leave(l.pipes, p, l.eligible)
    IN  [l EXCEPT !.pipes = Erase(c, IndexOf(c, p)),
                  !.eligible = Fewer(l.pipes, p, l.eligible)]
\* pipe_terminated ()
Without(l, p) ==
    LET a == Leave(l.pipes, p, l.matching)
        b == Leave(a, p, l.active)
        c == Leave(b, p, l.eligible)
    IN  [pipes |-> Erase(c, IndexOf(c, p)),
         matching |-> Fewer(l.pipes, p, l.matching),
         active |-> Fewer(a, p, l.active),
         eligible |-> Fewer(b, p, l.eligible)]

---------------------------------------------------------------------------
(* What the user calls.                                                    *)

\* send_to_matching () with the array l, then unmatch () if wanted.
SendToMatching(l, msg, unmatch) ==
    LET d == Distributed(l)
    IN  /\ WriteTo(d.done, msg)
        /\ CheckWriteFails(Prefix(l.pipes, l.matching) \ d.done)
        /\ Install([d.list EXCEPT
               !.active = IF msg.more THEN @ ELSE d.list.eligible,
               !.matching = IF unmatch THEN 0 ELSE @])
        /\ more' = msg.more
        /\ PartTaken(msg.more)
        /\ UNCHANGED <<open, stray>>

\* xpub_t::xsend () of a lossy socket; ps are the pipes the first part
\* matches.
XPubSend(ps, again) ==
    /\ ~stray /\ ~XSub /\ MayStart
    /\ more => ps = {}
    /\ again => part + 1 < MaxParts
    /\ SendToMatching(IF more THEN List ELSE MatchedAll(List, ps),
                      NextPart(again), ~again)

\* send_to_all (), called by xsub_t::xsend ()
XSubSend(again) ==
    /\ ~stray /\ XSub /\ MayStart
    /\ again => part + 1 < MaxParts
    /\ SendToMatching([List EXCEPT !.matching = active], NextPart(again),
                      FALSE)

---------------------------------------------------------------------------
(* What the pipes tell the socket.                                         *)

\* A subscription, a message of one part.
Subscription == [n |-> 0, part |-> 1, more |-> FALSE]
\* xsub_t::send_subscription () for every cached subscription, to a pipe
\* with room for n messages: the ones that do not fit are dropped.
Subscribe(p, n) ==
    /\ room' = [room EXCEPT ![p] = IF n > Subscriptions
                                   THEN n - Subscriptions ELSE 0]
    /\ out_active' = IF n >= Subscriptions THEN out_active \cup {p}
                     ELSE out_active \ {p}
    /\ batch' = [batch EXCEPT ![p] = <<>>]
    /\ arrived' = [arrived EXCEPT ![p] =
           IF n > 0 /\ Subscriptions > 0 THEN <<Subscription>> ELSE <<>>]

\* xattach_pipe ()
Attach(p) ==
    /\ ~stray /\ p \notin Members(pipes)
    /\ IF XSub THEN Subscribe(p, Hwm) /\ open' = open \cup {p}
       ELSE OpenPipe(p)
    /\ Install(Attached(List, p))
    /\ UNCHANGED <<uservars, more, stray>>

\* process_activate_write, and activated () if the pipe was stopped.
WriteActivated(p) ==
    /\ ~stray /\ p \in Members(pipes)
    /\ Credit(p)
    /\ \/ /\ p \in out_active
          /\ UNCHANGED <<distvars, stray>>
       \/ /\ p \notin out_active /\ eligible < Len(pipes)
          /\ Install(Activated(List, p))
          /\ UNCHANGED <<more, stray>>
       \/ /\ p \notin out_active /\ eligible = Len(pipes)
          /\ stray' = TRUE
          /\ UNCHANGED distvars

\* process_hiccup and xsub_t::xhiccuped (): the unread messages are dropped
\* and out_active is set, then the subscriptions are sent again.
Hiccuped(p) ==
    /\ ~stray /\ XSub /\ Hiccups
    /\ p \in open
    /\ Subscribe(p, room[p])
    /\ UNCHANGED <<open, uservars, distvars, stray>>

PipeCloses(p) ==
    /\ ~stray /\ p \in Members(pipes)
    /\ Close(p)
    /\ UNCHANGED <<distvars, stray>>

PipeTerminated(p) ==
    /\ ~stray /\ p \in Members(pipes)
    /\ PipeGone(p)
    /\ Install(Without(List, p))
    /\ UNCHANGED <<more, stray>>

Next ==
    \/ \E again \in BOOLEAN : XSubSend(again)
    \/ \E again \in BOOLEAN, ps \in SUBSET Members(pipes) :
           XPubSend(ps, again)
    \/ \E p \in Pipes :
           \/ Attach(p) \/ WriteActivated(p) \/ Hiccuped(p)
           \/ PipeCloses(p) \/ PipeTerminated(p)

Spec == Init /\ [][Next]_vars

---------------------------------------------------------------------------
(* Properties.                                                             *)

\* The regions of the array stay nested, and between messages every eligible
\* pipe is active and, for an XPUB, no pipe matches.
TypeOK ==
    /\ Members(pipes) \subseteq Pipes /\ NoDuplicates(pipes)
    /\ 0 <= matching /\ matching <= active
    /\ active <= eligible /\ eligible <= Len(pipes)
    /\ ~more => active = eligible
    /\ ~more /\ ~XSub => matching = 0
    /\ open \subseteq Members(pipes)
    /\ room \in [Pipes -> 0 .. Hwm]

\* A pipe is eligible exactly when its out_active flag is set: a pipe that is
\* not will be added by write_activated, one that is has not been stopped.
EligibleIffWritable ==
    \A p \in open : IndexOf(pipes, p) < eligible <=> p \in out_active

\* Every pipe gets whole messages: what reaches a peer in one flush is one
\* message from its first part on ("sending a message to them would result
\* in partial message being delivered", dist.hpp), and an unfinished message
\* lies only in a pipe that gets the next part.
MessagesWhole ==
    /\ \A p \in Pipes : OneMessage(arrived[p]) /\ OneMessage(batch[p])
    /\ \A p \in open : batch[p] # <<>> =>
           more /\ p \in Prefix(pipes, IF XSub THEN active ELSE matching)

\* Nobody is left out: the first part of a message is written to every pipe
\* it matches (every pipe, for an XSUB) that is not stopped, whatever pipes
\* fail on the way.
MatchingGetIt ==
    \A ps \in SUBSET Members(pipes), again \in BOOLEAN :
        /\ ~more
        /\ \/ XPubSend(ps, again)
           \/ XSubSend(again) /\ ps = Members(pipes)
        => \A p \in ps : CanWrite(p) =>
               sent' \in {m.n : m \in Members(batch'[p])
                                      \cup Members(arrived'[p])}
AllMatchingGetIt == [][MatchingGetIt]_vars
============================================================================
