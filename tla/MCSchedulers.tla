--------------------------- MODULE MCSchedulers ---------------------------
(***************************************************************************)
(* lb_t, fq_t and dist_t on three pipes each, and the messages that        *)
(* dist_t makes several threads share.  A behaviour is that of one of      *)
(* them, chosen at the start: dist_t as an XPUB uses it, as an XSUB uses   *)
(* it, and as an XSUB whose subscriptions do not fit and whose pipes       *)
(* hiccup uses it.                                                         *)
(***************************************************************************)
EXTENDS Sequences, TLC, Msg

CONSTANTS Pipes, NULL

VARIABLES
    scheduler,
    open, out_active, room, batch, arrived, sent, part,
    pipes, active, current, more, dropping, aborted, passed, switched,
    last_in, in_active, queue, parts, cut,
    matching, eligible, stray

lbOnly == <<dropping, switched>>
fqOnly == <<last_in, in_active, queue, parts, cut>>
distOnly == <<matching, eligible, stray>>
outOnly == <<out_active, room, batch, arrived, sent, part>>
cursors == <<current, aborted, passed>>
vars == <<scheduler, open, pipes, active, more, lbOnly, fqOnly, distOnly,
          outOnly, cursors, msgVars>>

\* Two threads, with one message and with two.
MCOwner == [s \in Slots |-> IF s = 1 THEN "t1" ELSE "t2"]

LB == INSTANCE LoadBalancer WITH Hwm <- 1, MaxParts <- 2, MaxSent <- 4
FQ == INSTANCE FairQueue WITH MaxParts <- 2, MaxQueue <- 1
AsXPub == INSTANCE Dist
    WITH Hwm <- 1, MaxParts <- 2, MaxSent <- 2,
         XSub <- FALSE, Hiccups <- FALSE, Subscriptions <- 0
AsXSub == INSTANCE Dist
    WITH Hwm <- 2, MaxParts <- 2, MaxSent <- 2,
         XSub <- TRUE, Hiccups <- FALSE, Subscriptions <- 1
AsResub == INSTANCE Dist
    WITH Hwm <- 1, MaxParts <- 2, MaxSent <- 2,
         XSub <- TRUE, Hiccups <- TRUE, Subscriptions <- 2

NoLB == dropping = FALSE /\ switched = FALSE
NoFQ ==
    /\ last_in = NULL /\ in_active = {} /\ queue = <<>> /\ parts = <<>>
    /\ cut = FALSE
NoDist == matching = 0 /\ eligible = 0 /\ stray = FALSE
NoOut ==
    /\ out_active = {} /\ room = <<>> /\ batch = <<>> /\ arrived = <<>>
    /\ sent = 0 /\ part = 0
NoCursors == current = 0 /\ aborted = FALSE /\ passed = <<>>

InitScheduler ==
    \/ scheduler = "lb" /\ LB!Init /\ NoFQ /\ NoDist
    \/ scheduler = "fq" /\ FQ!Init /\ NoLB /\ NoDist /\ NoOut
    \/ scheduler = "xpub" /\ AsXPub!Init /\ NoLB /\ NoFQ /\ NoCursors
    \/ scheduler = "xsub" /\ AsXSub!Init /\ NoLB /\ NoFQ /\ NoCursors
    \/ scheduler = "resub" /\ AsResub!Init /\ NoLB /\ NoFQ /\ NoCursors
    \/ /\ scheduler = "msg" /\ NoLB /\ NoFQ /\ NoDist /\ NoOut /\ NoCursors
       /\ open = {} /\ pipes = <<>> /\ active = 0 /\ more = FALSE

Init == InitScheduler /\ MsgInit

NextOfScheduler ==
    \/ scheduler = "lb" /\ LB!Next /\ UNCHANGED <<scheduler, fqOnly, distOnly>>
    \/ scheduler = "fq" /\ FQ!Next
       /\ UNCHANGED <<scheduler, lbOnly, distOnly, outOnly>>
    \/ scheduler = "xpub" /\ AsXPub!Next
       /\ UNCHANGED <<scheduler, lbOnly, fqOnly, cursors>>
    \/ scheduler = "xsub" /\ AsXSub!Next
       /\ UNCHANGED <<scheduler, lbOnly, fqOnly, cursors>>
    \/ scheduler = "resub" /\ AsResub!Next
       /\ UNCHANGED <<scheduler, lbOnly, fqOnly, cursors>>

Next ==
    \/ NextOfScheduler /\ UNCHANGED msgVars
    \/ scheduler = "msg" /\ MsgNext
       /\ UNCHANGED <<scheduler, open, pipes, active, more, lbOnly, fqOnly, distOnly,
                      outOnly, cursors>>

Spec == Init /\ [][Next]_vars

AnyPipe == Permutations(Pipes)

---------------------------------------------------------------------------
(* The properties their modules state, for the one that was chosen.        *)

\* The cursors stay in range, and the regions of the arrays nested, when
\* pipes join, fill up or run dry, come back and leave.
TypeOK ==
    /\ scheduler = "lb" => LB!TypeOK
    /\ scheduler = "fq" => FQ!TypeOK
    /\ scheduler = "xpub" => AsXPub!TypeOK
    /\ scheduler = "xsub" => AsXSub!TypeOK
    /\ scheduler = "resub" => AsResub!TypeOK

\* No pipe is forgotten, none is counted twice, and no cursor dangles: the
\* active (lb_t, fq_t) or eligible (dist_t) pipes are those that can be
\* written or read, and last_in of fq_t is one of them.
RegionsMatchPipes ==
    /\ TypeOK
    /\ scheduler = "lb" => LB!ActiveIffWritable
    /\ scheduler = "fq" => FQ!ActiveIffReadable /\ FQ!LastInExists
    /\ scheduler = "xpub" => AsXPub!EligibleIffWritable
    /\ scheduler = "xsub" => AsXSub!EligibleIffWritable

\* lb_t sends all the parts of a message to one pipe, fq_t takes them one
\* after the other from one pipe, dist_t gives a pipe all parts or none.
MessagesWhole ==
    /\ scheduler = "lb" => LB!MessagesWhole
    /\ scheduler = "fq" => FQ!MessagesWhole
    /\ scheduler = "xpub" => AsXPub!MessagesWhole
    /\ scheduler = "xsub" => AsXSub!MessagesWhole

\* lb_t and fq_t: every active pipe gets its turn.
RoundRobin ==
    /\ scheduler = "lb" => LB!RoundRobin
    /\ scheduler = "fq" => FQ!RoundRobin

\* dist_t: every matching pipe that can be written gets the message.
AllMatchingGetIt ==
    [][/\ scheduler = "xpub" => AsXPub!MatchingGetIt
       /\ scheduler = "xsub" => AsXSub!MatchingGetIt]_vars

\* lb_t: the rest of a message goes where its first part went.
CursorFollowsPipe == scheduler = "lb" => LB!CursorFollowsPipe
============================================================================
