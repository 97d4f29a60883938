------------------------------ MODULE PubSub ------------------------------
(***************************************************************************)
(* An XPUB or PUB socket (xpub.cpp, pub.cpp) and XSUB or SUB sockets       *)
(* (xsub.cpp, sub.cpp) connected to it.  Subscriptions travel upstream as  *)
(* messages, through two pipes and a connection that may break.  When it   *)
(* does, the session hiccups the subscriber's pipe and the publisher gets  *)
(* a new pipe, <<subscriber, number of the connection>>.                   *)
(*                                                                         *)
(* dist_t (Dist) is here what its regions mean, sets of pipes; a queue     *)
(* holds whole messages, and room is what is left of its high-water mark.  *)
(* activate_write is processed at once, which is as if the message had     *)
(* been read late; Pipe has the two apart.                                 *)
(***************************************************************************)
EXTENDS Trie

CONSTANTS
    Subscribers,
    Setups,       \* options of the sockets, and bounds, of a behaviour
    Topics,       \* what is subscribed to, and the first parts sent
    UpHwm,        \* high-water mark of the subscribers' pipes
    DownHwm       \* high-water mark of the publisher's pipes

VARIABLES
    setup,   \* the same in the whole behaviour
    pub,     \* the fields of the XPUB
    peer,    \* its pipes
    sub,     \* the fields of each XSUB, and its one pipe
    short,   \* subscribers that had to drop a subscription
    sent,    \* messages sent
    breaks   \* connections broken

vars == <<setup, pub, peer, sub, short, sent, breaks>>

Command(op, topic) == [op |-> op, topic |-> topic]

NewPeer == [open |-> TRUE, in |-> <<>>, out |-> <<>>, room |-> DownHwm,
            out_active |-> TRUE, topics |-> {}]
Init ==
    /\ setup \in Setups
    /\ pub = [trie |-> NewNode({}), pending |-> <<>>, more |-> FALSE,
              matching |-> {}, active |-> Subscribers \X {1},
              eligible |-> Subscribers \X {1},
              first |-> <<>>, to |-> {}, tried |-> {}, missed |-> FALSE, aborted |-> FALSE]
    /\ peer = [p \in Subscribers \X {1} |-> NewPeer]
    /\ sub = [x \in Subscribers |->
                [trie |-> NewNode(0), up |-> <<>>, room |-> UpHwm,
                 out_active |-> TRUE, eligible |-> TRUE, hiccups |-> 0,
                 conn |-> 1, down |-> <<>>, message |-> <<>>, rest |-> 0,
                 commands |-> 0]]
    /\ short = {}
    /\ sent = 0
    /\ breaks = 0

---------------------------------------------------------------------------
(* xsub_t: subscriptions                                                   *)

CanWriteUp(s) == s.out_active /\ s.room > 0
WrittenUp(s, cmd) == [s EXCEPT !.up = Append(@, cmd), !.room = @ - 1]

\* dist_t::send_to_all ()
SendToAll(s, cmd) ==
    IF s.eligible /\ CanWriteUp(s) THEN WrittenUp(s, cmd)
    ELSE [s EXCEPT !.eligible = FALSE, !.out_active = s.out_active /\ ~s.eligible]

\* send_subscription (): what does not fit is dropped.
send_subscription(s, topic) ==
    IF CanWriteUp(s) THEN WrittenUp(s, Command("add", topic))
    ELSE [s EXCEPT !.out_active = FALSE]

Sends(x, s, cmd) ==
    /\ sub[x].commands < setup.commands[x]
    /\ sub' = [sub EXCEPT ![x] = [SendToAll(s, cmd) EXCEPT !.commands = @ + 1]]
    /\ short' = IF SendToAll(s, cmd).up = s.up THEN short \cup {x} ELSE short
    /\ UNCHANGED <<setup, pub, peer, sent, breaks>>

\* xsend (), and sub_t::xsetsockopt ()
Subscribe(x, t) ==
    Sends(x, [sub[x] EXCEPT !.trie = TrieAdd(@, t)], Command("add", t))
\* (mutant) no unsubscription goes upstream
UnsubscribeLocally(x, t) ==
    /\ Here(sub[x].trie, t, 0) > 0
    /\ sub' = [sub EXCEPT ![x].trie = TrieRm(@, t)]
    /\ UNCHANGED <<setup, pub, peer, short, sent, breaks>>
\* An unsubscription goes upstream when it is the last for its topic.
Unsubscribe(x, t) ==
    /\ Here(sub[x].trie, t, 0) > 0
    /\ LET s == [sub[x] EXCEPT !.trie = TrieRm(@, t)] IN
       IF TrieRmLast(sub[x].trie, t) THEN Sends(x, s, Command("rm", t))
       ELSE /\ sub' = [sub EXCEPT ![x] = s]
            /\ UNCHANGED <<setup, pub, peer, short, sent, breaks>>
\* A message of the user, which only an XSUB can send
SendUpstream(x) ==
    /\ ~setup.filter
    /\ Sends(x, sub[x], Command("user", <<>>))

\* pipe_t::process_hiccup () and xhiccuped (): what was in the pipe is
\* dropped, without giving its room back, and all subscriptions are sent.
Hiccuped(x) ==
    LET topics == Applied(sub[x].trie, <<>>)
        fresh == [sub[x] EXCEPT !.up = <<>>, !.out_active = TRUE, !.hiccups = @ - 1]
        s == FoldLeft(send_subscription, fresh, topics)
    IN  /\ sub[x].hiccups > 0
        /\ sub' = [sub EXCEPT ![x] = s]
        /\ short' = IF Len(s.up) < Len(topics) THEN short \cup {x} ELSE short
        /\ UNCHANGED <<setup, pub, peer, sent, breaks>>

\* process_activate_write () and xwrite_activated ().  (A swap beyond the
\* array, which Dist models, is taken to do no harm.)
UpCredited(s) ==
    [s EXCEPT !.room = @ + 1, !.out_active = TRUE,
              !.eligible = s.eligible \/ ~s.out_active]

---------------------------------------------------------------------------
(* xsub_t: messages                                                        *)

Wanted(x, m) == setup.filter => Checked(sub[x].trie, m.data)
\* The loop of xrecv () and xhas_in (): messages not wanted are popped.
FirstWanted(x) ==
    SelectInSeq(sub[x].down, LAMBDA m : Wanted(x, m))

\* xhas_in (): polling takes the first message out of the pipe.
SubPoll(x) ==
    LET s == sub[x]
        k == FirstWanted(x)
    IN  /\ s.rest = 0 /\ s.message = <<>> /\ s.down # <<>>
        /\ sub' = [sub EXCEPT ![x] =
             IF k = 0 THEN [s EXCEPT !.down = <<>>]
             ELSE [s EXCEPT !.down = SubSeq(@, k + 1, Len(@)), !.message = <<s.down[k]>>]]
        /\ UNCHANGED <<setup, pub, peer, short, sent, breaks>>

\* xrecv ()
SubRecv(x) ==
    LET s == sub[x]
        k == FirstWanted(x)
    IN  /\ \/ /\ s.rest > 0
              /\ sub' = [sub EXCEPT ![x].rest = @ - 1]
           \/ /\ s.rest = 0 /\ s.message # <<>>
              /\ sub' = [sub EXCEPT ![x] =
                   [s EXCEPT !.message = <<>>, !.rest = s.message[1].parts - 1]]
           \/ /\ s.rest = 0 /\ s.message = <<>> /\ s.down # <<>>
              /\ sub' = [sub EXCEPT ![x] =
                   IF k = 0 THEN [s EXCEPT !.down = <<>>]
                   ELSE [s EXCEPT !.down = SubSeq(@, k + 1, Len(@)),
                                  !.rest = s.down[k].parts - 1]]
        /\ UNCHANGED <<setup, pub, peer, short, sent, breaks>>

---------------------------------------------------------------------------
(* xpub_t: subscriptions                                                   *)

\* A notification is queued for the user of an XPUB.  The queue is kept
\* whole: xrecv () reads it, and nothing depends on how far it has.
Notified(b, word, topic) ==
    IF setup.type = "XPUB"
    THEN [b EXCEPT !.pending = Append(@, Command(word, topic))] ELSE b

\* One turn of the loop of xread_activated (), for the pipe p
OneApplied(b, p, cmd) ==
    LET t == cmd.topic IN
    CASE b.aborted -> b
      [] cmd.op = "user" -> [b EXCEPT !.pending = Append(@, cmd)]
      [] cmd.op = "add" ->
           LET c == [b EXCEPT !.trie = MtrieAdd(@, t, p)] IN
           IF Here(b.trie, t, {}) = {} \/ setup.verbose THEN Notified(c, "add", t)
           ELSE c
      [] cmd.op = "rm" /\ MtrieRmFails(b.trie, t, p) -> [b EXCEPT !.aborted = TRUE]
      [] OTHER ->
           LET c == [b EXCEPT !.trie = MtrieRm(@, t, p)] IN
           IF MtrieRmLast(b.trie, t, p) THEN Notified(c, "rm", t) ELSE c
\* (ghost) the topics of a pipe
TopicsAfter(topics, cmd) ==
    CASE cmd.op = "add" -> topics \cup {cmd.topic}
      [] cmd.op = "rm" -> topics \ {cmd.topic}
      [] OTHER -> topics

\* xread_activated ()
PubReadActivated(p) ==
    /\ peer[p].in # <<>>
    /\ pub' = FoldLeft(LAMBDA b, cmd : OneApplied(b, p, cmd), pub, peer[p].in)
    /\ peer' = [peer EXCEPT ![p].in = <<>>,
                            ![p].topics = FoldLeft(TopicsAfter, @, peer[p].in)]
    /\ UNCHANGED <<setup, sub, short, sent, breaks>>

\* (mutant) the trie keeps the pipe
ForgottenByDist(b, p) ==
    [b EXCEPT !.matching = @ \ {p}, !.active = @ \ {p}, !.eligible = @ \ {p}]
\* xpipe_terminated () and send_unsubscription ()
Forgotten(b, p) ==
    FoldLeft(LAMBDA a, t : Notified(a, "rm", t),
             [b EXCEPT !.trie = WithoutPipe(@, p), !.matching = @ \ {p},
                       !.active = @ \ {p}, !.eligible = @ \ {p}],
             Orphans(b.trie, p, <<>>))
PubPipeTerminated(p) ==
    /\ ~peer[p].open /\ peer[p].in = <<>>
    /\ pub' = Forgotten(pub, p)
    /\ peer' = [q \in DOMAIN peer \ {p} |-> peer[q]]
    /\ UNCHANGED <<setup, sub, short, sent, breaks>>

---------------------------------------------------------------------------
(* xpub_t: messages                                                        *)

CanWrite(p) == peer[p].open /\ peer[p].out_active /\ peer[p].room > 0
check_hwm(p) == peer[p].room > 1

Subscribed(data) ==
    {p \in DOMAIN peer : \E t \in peer[p].topics : IsPrefix(t, data)}

\* (mutant) every part is matched
MarkedAnew(data) == pub.matching \cup (Matches(pub.trie, data) \cap pub.eligible)
\* The pipes marked when a part is sent
Marked(data) ==
    IF pub.more THEN pub.matching
    ELSE pub.matching \cup (Matches(pub.trie, data) \cap pub.eligible)

\* xsend () with ZMQ_XPUB_NODROP and a pipe at its mark: EAGAIN
PubAgain(data) ==
    /\ sent < setup.sends
    /\ ~setup.lossy /\ \E p \in Marked(data) : ~check_hwm(p)
    /\ pub' = [pub EXCEPT !.matching = Marked(data),
                          !.tried = IF pub.more THEN @ ELSE @ \cup Subscribed(data)]
    /\ UNCHANGED <<setup, peer, sub, short, sent, breaks>>

\* xsend () and dist_t::send_to_matching ()
PubSend(data, more) ==
    LET marked == Marked(data)
        done == {p \in marked : CanWrite(p)}
        left == pub.eligible \ (marked \ done)
        to == Subscribed(data)
        may == IF pub.more THEN pub.to ELSE to \cup pub.tried
        first == IF pub.more THEN pub.first ELSE data
        msg == [data |-> first, parts |-> IF pub.more THEN 2 ELSE 1, to |-> may]
    IN  /\ sent < setup.sends /\ (pub.more => ~more)
        /\ setup.lossy \/ \A p \in marked : check_hwm(p)
        /\ pub' = [pub EXCEPT
             !.more = more, !.to = IF more THEN may ELSE {}, !.tried = {},
             !.first = IF more THEN first ELSE <<>>,
             !.eligible = left,
             !.active = IF more THEN @ \ (marked \ done) ELSE left,
             !.matching = IF more THEN done ELSE {},
             \* (ghost) a subscribed pipe that could be written was left out
             !.missed = @ \/ /\ ~pub.more
                             /\ \E p \in to \ done :
                                  IF setup.lossy THEN CanWrite(p) ELSE peer[p].open]
        /\ peer' = [p \in DOMAIN peer |->
             IF p \in done /\ ~more
             THEN [peer[p] EXCEPT !.out = Append(@, msg), !.room = @ - 1]
             ELSE IF p \in marked \ done
             THEN [peer[p] EXCEPT !.out_active = @ /\ ~peer[p].open]
             ELSE peer[p]]
        /\ sent' = IF more THEN sent ELSE sent + 1
        /\ UNCHANGED <<setup, sub, short, breaks>>

\* process_activate_write () and xwrite_activated ()
DownCredited(p) ==
    /\ peer' = [peer EXCEPT ![p] =
         [@ EXCEPT !.out = Tail(@), !.room = @ + 1, !.out_active = TRUE]]
    /\ pub' = IF peer[p].out_active THEN pub
              ELSE [pub EXCEPT !.eligible = @ \cup {p},
                               !.active = IF pub.more THEN @ ELSE @ \cup {p}]

\* pipe_t::process_pipe_term (): the pipe of a connection that is gone is
\* read to its end and not written any more.
PubPipeCloses(p) ==
    /\ peer[p].open /\ p[2] # sub[p[1]].conn
    /\ peer' = [peer EXCEPT ![p].open = FALSE, ![p].out = <<>>]
    /\ UNCHANGED <<setup, pub, sub, short, sent, breaks>>

---------------------------------------------------------------------------
(* The sessions and the connection                                         *)

PullUp(x) ==
    LET p == <<x, sub[x].conn>> IN
    /\ sub[x].hiccups = 0 /\ sub[x].up # <<>>
    /\ Len(peer[p].in) < UpHwm
    /\ sub' = [sub EXCEPT ![x] = UpCredited([@ EXCEPT !.up = Tail(@)])]
    /\ peer' = [peer EXCEPT ![p].in = Append(@, Head(sub[x].up))]
    /\ UNCHANGED <<setup, pub, short, sent, breaks>>
PushDown(x) ==
    LET p == <<x, sub[x].conn>> IN
    /\ peer[p].out # <<>>
    /\ sub' = [sub EXCEPT ![x].down = Append(@, Head(peer[p].out))]
    /\ DownCredited(p)
    /\ UNCHANGED <<setup, short, sent, breaks>>

\* session_base_t::reconnect () at one end, a new session at the other
Break(x) ==
    LET p == <<x, sub[x].conn + 1>> IN
    /\ breaks < setup.breaks[x]
    /\ breaks' = breaks + 1
    /\ sub' = [sub EXCEPT ![x].conn = @ + 1, ![x].hiccups = @ + 1]
    /\ peer' = [q \in DOMAIN peer \cup {p} |-> IF q = p THEN NewPeer ELSE peer[q]]
    /\ pub' = [pub EXCEPT !.eligible = @ \cup {p},
                          !.active = IF pub.more THEN @ ELSE @ \cup {p}]
    /\ UNCHANGED <<setup, short, sent>>

\* A failed assertion ends the process of the publisher, and the behaviour.
Next == ~pub.aborted /\
    (\/ \E x \in Subscribers :
          \/ \E t \in Topics : Subscribe(x, t) \/ Unsubscribe(x, t)
          \/ SendUpstream(x) \/ Hiccuped(x)
          \/ SubPoll(x) \/ SubRecv(x)
          \/ PullUp(x) \/ PushDown(x) \/ Break(x)
     \/ \E p \in DOMAIN peer :
          \/ PubReadActivated(p) \/ PubPipeTerminated(p)
          \/ PubPipeCloses(p)
     \/ \E d \in Topics : PubAgain(d) \/ \E more \in BOOLEAN : PubSend(d, more))

\* The threads process the commands they are sent.
Progress ==
    \/ \E x \in Subscribers : Hiccuped(x) \/ PullUp(x)
    \/ \E p \in DOMAIN peer :
         PubReadActivated(p) \/ PubPipeCloses(p) \/ PubPipeTerminated(p)
Spec == Init /\ [][Next]_vars /\ WF_vars(Progress)

\* The same, for larger instances.  Progress is finite here, so that weak
\* fairness of it says that it is infinitely often not enabled.
Idle ==
    \/ pub.aborted
    \/ /\ \A x \in Subscribers : sub[x].hiccups = 0 /\ sub[x].up = <<>>
       /\ \A p \in DOMAIN peer :
            peer[p].in = <<>> /\ peer[p].open /\ p[2] = sub[p[1]].conn
SpecIdle == Init /\ [][Next]_vars /\ []<>Idle

---------------------------------------------------------------------------
Interest(x) == ToSet(Applied(sub[x].trie, <<>>))
Known(x) ==
    {t \in Topics : \E k \in 1 .. sub[x].conn : <<x, k>> \in Here(pub.trie, t, {})}

\* In the end the publisher knows the subscriptions of every subscriber and
\* no others, whatever was on the way when connections broke, unless a
\* subscriber had to drop a subscription.
Converged ==
    \/ \A x \in Subscribers : Known(x) = Interest(x)
    \/ short # {} \/ pub.aborted
SubscriptionsConverge == <>[]Converged

\* NEWS: "Fixed LIBZMQ-584; subscription filters getting lost on
\* reconnection."
SubscriptionsSurvive ==
    <>[](\/ \A x \in Subscribers : Known(x) = Interest(x)
         \/ pub.aborted)

\* What the user of an XPUB is told: the last notification of a topic says
\* whether some pipe is subscribed to it, and none repeats the one before
\* (ZMQ_XPUB_VERBOSE repeats subscriptions only).
NotificationsExact ==
    setup.type = "XPUB" /\ short = {} =>
      \A t \in Topics :
        LET words == SelectSeq(pub.pending, LAMBDA c : c.op # "user" /\ c.topic = t) IN
        /\ words # <<>> => Head(words).op = "add"
        /\ \A i \in 2 .. Len(words) : words[i].op = words[i - 1].op =>
               setup.verbose /\ words[i].op = "add"
        /\ (\E p \in DOMAIN peer : t \in peer[p].topics)
              <=> (words # <<>> /\ Last(words).op = "add")

\* A message goes to every pipe subscribed to its first part that can be
\* written (with ZMQ_XPUB_NODROP, to every open one) and to no other, but for
\* those subscribed to what a send refused just before it tried to send
\* (OnlySubscribersGetIt).  The reference is the sets of topics, not the trie.
DeliveredToSubscribers ==
    /\ ~pub.missed
    /\ \A p \in DOMAIN peer : \A m \in ToSet(peer[p].out) : p \in m.to

\* The publisher's view of its subscribers is right, whatever was on the way
\* when they came and went: it tells its user when a topic gains its first or
\* loses its last subscriber, and a message goes to those who want it.
PublisherExact == NotificationsExact /\ DeliveredToSubscribers

\* xpub.cpp: "If we are at the end of multi-part message we can mark all the
\* pipes as non-matching": no message begins with pipes marked before it.
OnlySubscribersGetIt == ~pub.more => pub.matching = {}

\* mtrie.cpp: "zmq_assert (erased == 1);"
UnsubscriptionsExpected == ~pub.aborted
============================================================================
