------------------------------ MODULE ReqRep ------------------------------
(***************************************************************************)
(* REQ sockets (req.cpp) and DEALER sockets (dealer.cpp) talk to REP       *)
(* sockets (rep.cpp, which is router.cpp with the envelope hidden) over    *)
(* connections that break and come back.                                   *)
(*                                                                         *)
(* A message is a sequence of frames.  Pipes and engines hand over whole   *)
(* messages (Pipe), so a queue is a sequence of messages; the sockets      *)
(* still read and write frame by frame.  lb_t and fq_t (LoadBalancer,      *)
(* FairQueue) are any choice among the pipes that can be used.  A client   *)
(* keeps its pipe when a connection breaks; the server gets a new pipe for *)
(* each connection, named <<client, number of the connection>>, which is   *)
(* also the identity its ROUTER gives it.                                  *)
(***************************************************************************)
EXTENDS Integers, Sequences, SequencesExt

CONSTANTS
    Setups,       \* who is connected to whom, the options of the REQs, and
                  \* how many faults there may be
    Requesters, Dealers, Repliers,   \* the sockets there may be
    Nobody,       \* the NULL pipe
    Hwm,          \* the high-water mark of every queue
    MaxParts,     \* parts of a request or a reply
    MaxRequests   \* requests of a client

VARIABLES
    setup,    \* the same in the whole behaviour
    req,      \* the fields of each REQ
    rep,      \* the fields of each REP, with its pipes
    link,     \* the client's end of each connection
    asked,    \* how many requests each client has begun
    lost,     \* clients whose last request, or its answer, the network has
              \* lost or a REP could not answer
    breaks    \* faults so far: connections broken and replies sent twice

vars == <<setup, req, rep, link, asked, lost, breaks>>

Links == setup.links

Frame(kind, val, more) == [kind |-> kind, val |-> val, more |-> more]
Bottom == Frame("bottom", 0, TRUE)
\* The body of a request is its client and its number; a reply repeats it.
Body(val, more) == Frame("body", val, more)

NewPeer == [state |-> "active", in |-> <<>>, out |-> <<>>]
Init ==
    /\ setup \in Setups
    /\ req = [c \in Requesters |->
                [receiving_reply |-> FALSE, message_begins |-> TRUE,
                 reply_pipe |-> Nobody, request_id |-> 0, out |-> <<>>,
                 rest |-> <<>>, answer |-> <<>>, aborted |-> FALSE]]
    /\ rep = [s \in Repliers |->
                [sending_reply |-> FALSE, request_begins |-> TRUE,
                 more_out |-> FALSE, current_out |-> Nobody, out |-> <<>>,
                 prefetched |-> <<>>, reading |-> Nobody, rest |-> <<>>,
                 serving |-> <<>>, unsent |-> FALSE,
                 peers |-> [p \in {<<c, 1>> : c \in {l[1] : l \in {k \in Links : k[2] = s}}}
                              |-> NewPeer]]]
    /\ link = [l \in Links |-> [pipe |-> "active", conn |-> 1,
                                out |-> <<>>, back |-> <<>>]]
    /\ asked = [c \in Requesters \cup Dealers |-> 0]
    /\ lost = {}
    /\ breaks = 0

---------------------------------------------------------------------------
(* router_t: operators on the record r of a server                         *)

CanWrite(r, p) ==
    /\ p \in DOMAIN r.peers
    /\ r.peers[p].state = "active"
    /\ Len(r.peers[p].out) < Hwm

\* xsend ()
RouterXsend(r, f) ==
    IF ~r.more_out
    THEN IF ~f.more THEN r
         ELSE [r EXCEPT !.more_out = TRUE,
                        !.current_out = IF CanWrite(r, f.val) THEN f.val ELSE Nobody]
    ELSE LET to == r.current_out
             ok == to # Nobody /\ r.peers[to].state = "active"
         IN  [r EXCEPT !.more_out = f.more,
                       !.current_out = IF ok /\ f.more THEN @ ELSE Nobody,
                       !.out = IF ok /\ f.more THEN Append(@, f) ELSE <<>>,
                       !.peers = IF ~ok \/ f.more THEN @
                                 ELSE [@ EXCEPT ![to].out = Append(@, Append(r.out, f))]]

\* (mutant) rollback () leaves more_out set
RollbackHalf(r) ==
    IF r.current_out = Nobody THEN r
    ELSE [r EXCEPT !.current_out = Nobody, !.out = <<>>]
\* rollback ()
Rollback(r) ==
    IF r.current_out = Nobody THEN r
    ELSE [r EXCEPT !.current_out = Nobody, !.more_out = FALSE, !.out = <<>>]

\* The message that xrecv () gives next: a prefetched one, or one of a pipe.
Nexts(r) ==
    IF r.prefetched # <<>> THEN {r.prefetched}
    ELSE {<<p, Head(r.peers[p].in)>> : p \in {q \in DOMAIN r.peers : r.peers[q].in # <<>>}}
Taken(r, n) ==
    IF r.prefetched # <<>> THEN [r EXCEPT !.prefetched = <<>>]
    ELSE [r EXCEPT !.peers[n[1]].in = Tail(@)]

---------------------------------------------------------------------------
(* rep_t                                                                   *)

\* (mutant) the bottom is looked for one frame too early
WellFormedOffByOne(m) == \E i \in 1 .. Len(m) - 2 : m[i].kind = "bottom"
WellFormed(m) == \E i \in 1 .. Len(m) - 1 : m[i].kind = "bottom"
LastLabel(m) == CHOOSE i \in 1 .. Len(m) : /\ m[i].kind = "bottom"
                                          /\ \A j \in 1 .. i - 1 : m[j].kind # "bottom"
\* The identity and the labels, pushed to the reply pipe.
Labelled(r, p, labels) ==
    FoldLeft(RouterXsend, r, <<Frame("identity", p, TRUE)>> \o labels)

\* One part given to the user; the last one flips the socket to sending.
Delivered(r, p, parts) ==
    LET last == ~Head(parts).more IN
    [r EXCEPT !.rest = Tail(parts), !.serving = Head(parts).val,
              !.reading = IF last THEN Nobody ELSE p,
              !.sending_reply = last, !.request_begins = last]

\* xrecv (): a malformed request is discarded, with what it pushed.  If there
\* was no pipe to push to, more_out is left over (unsent, a ghost).
RepDiscard(s) ==
    /\ ~rep[s].sending_reply /\ rep[s].request_begins
    /\ \E n \in Nexts(rep[s]) :
         /\ ~WellFormed(n[2])
         /\ rep' = [rep EXCEPT ![s] =
              [Rollback(Labelled(Taken(@, n), n[1], SubSeq(n[2], 1, Len(n[2]) - 1)))
                 EXCEPT !.unsent = @ \/ ~CanWrite(rep[s], n[1])]]
    /\ UNCHANGED <<setup, req, link, asked, lost, breaks>>

\* xrecv (): the labels go to the reply pipe and the first part to the user.
RepRecv(s) ==
    /\ ~rep[s].sending_reply /\ rep[s].request_begins
    /\ \E n \in Nexts(rep[s]) :
         LET p == n[1]
             m == n[2]
             k == LastLabel(m)
         IN  /\ WellFormed(m)
             /\ rep' = [rep EXCEPT ![s] =
                  [Delivered(Labelled(Taken(@, n), p, SubSeq(m, 1, k)), p,
                             SubSeq(m, k + 1, Len(m))) EXCEPT !.unsent = FALSE]]
             \* (ghost) more_out is left over, or the pipe for the reply is full
             /\ lost' = IF /\ rep[s].unsent \/ Len(rep[s].peers[p].out) = Hwm
                           /\ Last(m).val = <<p[1], asked[p[1]]>>
                        THEN lost \cup {p[1]} ELSE lost
    /\ UNCHANGED <<setup, req, link, asked, breaks>>

RepRecvRest(s) ==
    /\ ~rep[s].sending_reply /\ ~rep[s].request_begins
    /\ rep' = [rep EXCEPT ![s] = Delivered(@, @.reading, @.rest)]
    /\ UNCHANGED <<setup, req, link, asked, lost, breaks>>

\* xhas_in () of router_t: polling reads ahead.
RepPoll(s) ==
    /\ ~rep[s].sending_reply /\ rep[s].request_begins
    /\ rep[s].prefetched = <<>>
    /\ \E n \in Nexts(rep[s]) :
         rep' = [rep EXCEPT ![s] = [Taken(@, n) EXCEPT !.prefetched = n]]
    /\ UNCHANGED <<setup, req, link, asked, lost, breaks>>

\* xsend (): the reply of the application repeats the request.
RepSend(s, more) ==
    /\ rep[s].sending_reply
    /\ more => Len(rep[s].out) <= MaxParts
    /\ rep' = [rep EXCEPT ![s] =
         [RouterXsend(@, Body(@.serving, more)) EXCEPT !.sending_reply = more]]
    /\ UNCHANGED <<setup, req, link, asked, lost, breaks>>

\* A connection ends: the pipe can be read to its delimiter and not written.
RepNotices(s) ==
    /\ \E p \in DOMAIN rep[s].peers :
         /\ p[2] # link[<<p[1], s>>].conn
         /\ rep[s].peers[p].state = "active"
         /\ rep' = [rep EXCEPT ![s].peers[p].state = "draining",
                               ![s].peers[p].out = <<>>]
    /\ UNCHANGED <<setup, req, link, asked, lost, breaks>>

\* (mutant) xpipe_terminated () forgets to reset current_out
RepPipeTerminatedStale(s) ==
    /\ \E p \in DOMAIN rep[s].peers :
         /\ rep[s].peers[p].state = "draining" /\ rep[s].peers[p].in = <<>>
         /\ rep[s].reading # p
         /\ rep' = [rep EXCEPT ![s].peers = [q \in DOMAIN @ \ {p} |-> @[q]]]
    /\ UNCHANGED <<setup, req, link, asked, lost, breaks>>
\* xpipe_terminated (), once the delimiter has been read
RepPipeTerminated(s) ==
    /\ \E p \in DOMAIN rep[s].peers :
         /\ rep[s].peers[p].state = "draining" /\ rep[s].peers[p].in = <<>>
         /\ rep[s].reading # p
         /\ rep[s].prefetched # <<>> =>
              (rep[s].prefetched[1] = p => Len(rep[s].prefetched[2]) = 1)
         /\ rep' = [rep EXCEPT
              ![s].peers = [q \in DOMAIN @ \ {p} |-> @[q]],
              ![s].current_out = IF @ = p THEN Nobody ELSE @]
    /\ UNCHANGED <<setup, req, link, asked, lost, breaks>>

---------------------------------------------------------------------------
(* req_t                                                                   *)

Writable(l) == l.pipe = "active" /\ Len(l.out) < Hwm
Prefix(r) ==
    (IF setup.correlate THEN <<Frame("id", r.request_id, TRUE)>> ELSE <<>>) \o <<Bottom>>

\* The pipes recv_reply_pipe () gets messages from
Arrived(c) ==
    {s \in Repliers : /\ <<c, s>> \in Links /\ link[<<c, s>>].pipe = "active"
                     /\ link[<<c, s>>].back # <<>>}

\* (mutant) the pipe of a request given up stays in use
GivesUpNothing(c, l) == FALSE
\* A relaxed REQ gives up the request it is waiting for, and its pipe.
GivesUp(c, l) ==
    /\ req[c].receiving_reply /\ req[c].reply_pipe = l[2] /\ l[1] = c
Abandoned(c, l) ==
    IF GivesUp(c, l) /\ link[l].pipe = "active"
    THEN [link[l] EXCEPT !.pipe = "closing"] ELSE link[l]
MayBegin(c) ==
    /\ ~req[c].aborted
    /\ req[c].receiving_reply => ~setup.strict
    /\ req[c].receiving_reply \/ req[c].message_begins
    /\ asked[c] < MaxRequests

\* xsend (), the first part: the request goes to a pipe that can be written,
\* and what can be read by then is thrown away (a pipe may hold more, not
\* yet announced).  fq_t asserts that a message half read can be read on.
ReqBegin(c, more) ==
    /\ MayBegin(c)
    /\ \E s \in {t \in Repliers : <<c, t>> \in Links /\ ~GivesUp(c, <<c, t>>)} :
       \E eaten \in SUBSET {t \in Arrived(c) : ~GivesUp(c, <<c, t>>)} :
         LET r == [req[c] EXCEPT !.request_id = @ + 1]
             n == asked[c] + 1
             m == Prefix(r) \o <<Body(<<c, n>>, more)>>
         IN  /\ Writable(link[<<c, s>>])
             /\ req' = [req EXCEPT ![c] =
                  [r EXCEPT !.receiving_reply = ~more, !.message_begins = ~more,
                            !.reply_pipe = s, !.out = IF more THEN m ELSE <<>>,
                            !.rest = <<>>, !.answer = <<>>,
                            !.aborted = req[c].rest # <<>>]]
             /\ link' = [l \in Links |->
                  [Abandoned(c, l) EXCEPT
                     !.back = IF l[1] = c /\ l[2] \in eaten THEN <<>> ELSE @,
                     !.out = IF l = <<c, s>> /\ ~more THEN Append(@, m) ELSE @]]
             /\ asked' = [asked EXCEPT ![c] = n]
             /\ lost' = lost \ {c}
    /\ UNCHANGED <<setup, rep, breaks>>

\* xsend () without a pipe to write to: EAGAIN, the old request is given up.
ReqAgain(c) ==
    /\ MayBegin(c) /\ req[c].receiving_reply
    /\ \A l \in Links : l[1] = c => ~Writable(Abandoned(c, l))
    /\ req' = [req EXCEPT ![c] =
         [@ EXCEPT !.receiving_reply = FALSE, !.message_begins = TRUE,
                   !.reply_pipe = Nobody, !.request_id = @ + 1]]
    /\ link' = [l \in Links |-> Abandoned(c, l)]
    /\ UNCHANGED <<setup, rep, asked, lost, breaks>>

\* xsend (), a later part
ReqPart(c, more) ==
    /\ ~req[c].aborted
    /\ ~req[c].receiving_reply /\ ~req[c].message_begins
    /\ more => Len(req[c].out) < Len(Prefix(req[c])) + MaxParts - 1
    /\ LET m == Append(req[c].out, Body(<<c, asked[c]>>, more)) IN
       /\ req' = [req EXCEPT ![c] =
            [@ EXCEPT !.receiving_reply = ~more, !.message_begins = ~more,
                      !.out = IF more THEN m ELSE <<>>]]
       /\ link' = IF more THEN link
                  ELSE [link EXCEPT ![<<c, req[c].reply_pipe>>].out = Append(@, m)]
    /\ UNCHANGED <<setup, rep, asked, lost, breaks>>

\* (mutant) the request id of a reply is not compared
AcceptsAnyId(c, s) ==
    LET m == Head(link[<<c, s>>].back) IN
    /\ req[c].reply_pipe \in {Nobody, s}
    /\ Len(m) > Len(Prefix(req[c]))
\* The messages xrecv () accepts
Accepts(c, s) ==
    LET m == Head(link[<<c, s>>].back) IN
    /\ req[c].reply_pipe \in {Nobody, s}
    /\ Len(m) > Len(Prefix(req[c]))
    /\ SubSeq(m, 1, Len(Prefix(req[c]))) = Prefix(req[c])

\* A part for the user; the last one flips the socket to sending.
Received(r, parts) ==
    LET last == ~Head(parts).more IN
    [r EXCEPT !.rest = Tail(parts), !.answer = Head(parts).val,
              !.receiving_reply = ~last, !.message_begins = last]

\* xrecv (): messages that are not the reply are skipped.
ReqSkip(c) ==
    /\ req[c].receiving_reply /\ req[c].message_begins /\ ~req[c].aborted
    /\ \E s \in Arrived(c) :
         /\ ~Accepts(c, s)
         /\ link' = [link EXCEPT ![<<c, s>>].back = Tail(@)]
    /\ UNCHANGED <<setup, req, rep, asked, lost, breaks>>

ReqRecv(c) ==
    /\ req[c].receiving_reply /\ req[c].message_begins /\ ~req[c].aborted
    /\ \E s \in Arrived(c) :
         LET m == Head(link[<<c, s>>].back) IN
         /\ Accepts(c, s)
         /\ req' = [req EXCEPT ![c] =
              Received(@, SubSeq(m, Len(Prefix(@)) + 1, Len(m)))]
         /\ link' = [link EXCEPT ![<<c, s>>].back = Tail(@)]
    /\ UNCHANGED <<setup, rep, asked, lost, breaks>>

ReqRecvRest(c) ==
    /\ req[c].receiving_reply /\ ~req[c].message_begins /\ ~req[c].aborted
    /\ req' = [req EXCEPT ![c] = Received(@, @.rest)]
    /\ UNCHANGED <<setup, rep, link, asked, lost, breaks>>

\* xpipe_terminated (), once the session has taken what was sent
ReqPipeTerminated(c) ==
    /\ \E l \in Links :
         /\ l[1] = c /\ link[l].pipe = "closing" /\ link[l].out = <<>>
         /\ link' = [link EXCEPT ![l].pipe = "none", ![l].back = <<>>]
         /\ req' = [req EXCEPT ![c].reply_pipe = IF @ = l[2] THEN Nobody ELSE @]
    /\ UNCHANGED <<setup, rep, asked, lost, breaks>>

---------------------------------------------------------------------------
(* A DEALER: its application writes the envelope itself, or forgets it.    *)

DealerSend(d, m) ==
    /\ asked[d] < MaxRequests
    /\ \E l \in Links :
         /\ l[1] = d /\ Writable(link[l])
         /\ link' = [link EXCEPT ![l].out = Append(@, m)]
    /\ asked' = [asked EXCEPT ![d] = @ + 1]
    /\ UNCHANGED <<setup, req, rep, lost, breaks>>
DealerRecv(d) ==
    /\ \E l \in Links :
         /\ l[1] = d /\ link[l].back # <<>>
         /\ link' = [link EXCEPT ![l].back = Tail(@)]
    /\ UNCHANGED <<setup, req, rep, asked, lost, breaks>>

---------------------------------------------------------------------------
(* The sessions and engines at both ends of a connection                   *)

MayGo(l) ==
    /\ link[l].pipe # "none" /\ link[l].out # <<>>
    /\ Len(rep[l[2]].peers[<<l[1], link[l].conn>>].in) < Hwm
ToServer(l) ==
    /\ MayGo(l)
    /\ rep' = [rep EXCEPT ![l[2]].peers[<<l[1], link[l].conn>>].in =
                             Append(@, Head(link[l].out))]
    /\ link' = [link EXCEPT ![l].out = Tail(@)]
    /\ UNCHANGED <<setup, req, asked, lost, breaks>>
MayCome(l) ==
    /\ link[l].pipe = "active" /\ Len(link[l].back) < Hwm
    /\ rep[l[2]].peers[<<l[1], link[l].conn>>].out # <<>>
Reply(l) == Head(rep[l[2]].peers[<<l[1], link[l].conn>>].out)
ToClient(l) ==
    /\ MayCome(l)
    /\ link' = [link EXCEPT ![l].back = Append(@, Reply(l))]
    /\ rep' = [rep EXCEPT ![l[2]].peers[<<l[1], link[l].conn>>].out = Tail(@)]
    /\ UNCHANGED <<setup, req, asked, lost, breaks>>

\* (ghost) The request a REQ waits for was sent over this connection.
Asks(l) == l[1] \in Requesters /\ req[l[1]].receiving_reply /\ req[l[1]].reply_pipe = l[2]

\* A connection breaks and is made again; messages on the wire are lost.  A
\* session that had lost its pipe attaches a new one.
Break(l) ==
    LET e == link[l].conn + 1 IN
    /\ breaks < setup.faults
    /\ breaks' = breaks + 1
    /\ \E k \in 0 .. Len(link[l].out) :
         LET kept == SubSeq(link[l].out, k + 1, Len(link[l].out)) IN
         /\ link' = [link EXCEPT ![l] =
              [@ EXCEPT !.conn = e, !.out = kept, !.pipe = IF @ = "none" THEN "active" ELSE @]]
         /\ lost' = IF Asks(l) /\ \A m \in ToSet(kept) : Last(m).val # <<l[1], asked[l[1]]>>
                    THEN lost \cup {l[1]} ELSE lost
    /\ rep' = [rep EXCEPT ![l[2]].peers =
         [p \in DOMAIN @ \cup {<<l[1], e>>} |-> IF p[2] = e /\ p[1] = l[1] THEN NewPeer ELSE @[p]]]
    /\ UNCHANGED <<setup, req, asked>>

\* A peer need not be a REP: the application behind a ROUTER may send the
\* same reply twice, which request ids are there to tell.
AnswersTwice(l) ==
    /\ setup.correlate /\ breaks < setup.faults
    /\ MayCome(l)
    /\ link' = [link EXCEPT ![l].back = Append(@, Reply(l))]
    /\ breaks' = breaks + 1
    /\ UNCHANGED <<setup, req, rep, asked, lost>>

ClientNext(c) ==
    \/ \E more \in BOOLEAN : ReqBegin(c, more) \/ ReqPart(c, more)
    \/ ReqAgain(c) \/ ReqSkip(c) \/ ReqRecv(c) \/ ReqRecvRest(c)
    \/ ReqPipeTerminated(c)
DealerNext(d) ==
    \/ DealerSend(d, <<Bottom, Body(<<d, asked[d] + 1>>, FALSE)>>)
    \/ DealerSend(d, <<Body(<<d, asked[d] + 1>>, FALSE)>>)
    \/ DealerRecv(d)
ServerNext(s) ==
    \/ RepDiscard(s) \/ RepRecv(s) \/ RepRecvRest(s) \/ RepPoll(s)
    \/ \E more \in BOOLEAN : RepSend(s, more)
    \/ RepNotices(s) \/ RepPipeTerminated(s)
Next ==
    \/ \E c \in Requesters : ClientNext(c)
    \/ \E d \in Dealers : DealerNext(d)
    \/ \E s \in Repliers : ServerNext(s)
    \/ \E l \in Links : ToServer(l) \/ ToClient(l) \/ Break(l) \/ AnswersTwice(l)

\* A server reads and answers what it gets, a client finishes its request
\* and reads its reply, and the I/O threads move what can be moved: with so
\* many requests and faults, all of them come to rest.
AtRest ==
    /\ \A s \in Repliers :
         ~rep[s].sending_reply /\ rep[s].request_begins /\ Nexts(rep[s]) = {}
    /\ \A c \in Requesters : ~req[c].aborted =>
         req[c].message_begins /\ (req[c].receiving_reply => Arrived(c) = {})
    /\ \A l \in Links : ~MayGo(l) /\ ~MayCome(l)
Spec == Init /\ [][Next]_vars /\ []<>AtRest

---------------------------------------------------------------------------
\* router_t::xsend () asserts that a message begins without a current pipe;
\* and a pipe of a REP is never forgotten while a reply is written to it.
RouterConsistent ==
    \A s \in Repliers :
      /\ ~rep[s].more_out => rep[s].current_out = Nobody
      /\ rep[s].current_out \in DOMAIN rep[s].peers \cup {Nobody}
      /\ rep[s].reading \in DOMAIN rep[s].peers \cup {Nobody}

\* Every reply on its way to a client answers a request of that client, and
\* the one its REQ hands to the application answers the request it made
\* last: the envelope of req_t, rep_t and router_t never mixes them up, in
\* strict, relaxed and correlated mode, over connections that break between
\* any two frames.
RepliesMatch ==
    /\ RouterConsistent
    /\ \A s \in Repliers : \A p \in DOMAIN rep[s].peers :
         \A m \in ToSet(rep[s].peers[p].out) : Last(m).val[1] = p[1]
    /\ \A l \in Links : \A m \in ToSet(link[l].back) : Last(m).val[1] = l[1]
    /\ \A c \in Requesters : req[c].answer \in {<<>>, <<c, asked[c]>>}

\* A REQ that waits gets its reply.  The exceptions: its connection broke
\* after the request had left the REQ's pipe; at the time the REP read it, an
\* earlier reply still filled the pipe for this one; or before it the REP had
\* discarded a malformed request whose own reply pipe was full or gone
\* (LabelsAreCopied).
EveryRequestAnswered ==
    \A c \in Requesters :
      []<>(~req[c].receiving_reply \/ c \in lost \/ req[c].aborted)

\* rep.cpp: "First thing to do when receiving a request is to copy all the
\* labels to the reply pipe": when the pipe can be written, they are there.
LabelsAreCopied ==
    \A s \in Repliers :
      rep[s].request_begins /\ ~rep[s].sending_reply => ~rep[s].more_out

\* fq_t: "we should get the remaining parts without blocking".
RestCanBeRead == \A c \in Requesters : ~req[c].aborted
============================================================================
