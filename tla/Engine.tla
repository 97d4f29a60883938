------------------------------ MODULE Engine ------------------------------
(***************************************************************************)
(* stream_engine_t (stream_engine.cpp) at the two ends of a TCP            *)
(* connection: the greeting, the handshakes of the NULL, PLAIN and CURVE   *)
(* mechanisms, in which the server has its peer authenticated by a ZAP     *)
(* handler, and messages with back-pressure in both directions.  In some   *)
(* setups end b is an older implementation: a script of what it sends.     *)
(*                                                                         *)
(* The stream is a sequence of units: the pieces of a greeting between     *)
(* which the code can tell how far it is (the signature; the version; one  *)
(* byte more; the rest), and whole commands and messages.  An engine, with *)
(* its mechanism and the session's ends of the pipes, is a record w; a     *)
(* handler is an operator on it, the handlers it calls applied in turn.    *)
(***************************************************************************)
EXTENDS Integers, Sequences, SequencesExt, TLC

CONSTANTS
    Setups,     \* mechanisms, kind of peer, messages sent and faults of a behaviour
    NetSize,    \* units the network holds in one direction
    Batch       \* units in the buffer of an encoder or a decoder

VARIABLES
    setup,    \* the same in the whole behaviour
    eng,      \* the two engines
    net,      \* units on their way to each end
    broken,   \* the connection is reset
    zap,      \* the ZAP handler: "idle", "asked", its answer, or "gone"
    sent,     \* how many messages each socket has sent
    got       \* what each socket has read from its pipe

vars == <<setup, eng, net, broken, zap, sent, got>>

Ends == {"a", "b"}
Other(e) == IF e = "a" THEN "b" ELSE "a"

U(kind, val) == [kind |-> kind, val |-> val]
Msg(n) == U("msg", n)
Command(name) == U("command", name)
\* CURVE: a command or a message in a box, with the number in its nonce.
Sealed(kind, val, nonce) == [kind |-> kind, val |-> val, nonce |-> nonce]
Signature == U("signature", 0)
Version(v) == U("version", v)
Identity == U("identity", 0)
Credential == U("credential", 0)
Subscription == U("subscription", 0)

\* What an older implementation sends: its greeting, its identity, a message.
\* A subscriber of ZeroMQ 2 keeps its subscriptions to itself and sends none.
Script == CASE setup.peer = "2.0" -> <<Signature, Version(1), U("type", 0), Identity, Msg(1)>>
            [] setup.peer = "1.0" -> <<Identity, Msg(1)>>
            [] OTHER -> <<Identity>>
Scripted(e) == e = "b" /\ setup.peer # "3.0"

recv_identity(w) == w.end \in setup.routers

\* The connection as tcp_read and tcp_write find it when nothing is left in it.
Closed(e) == broken \/ eng[Other(e)].dead # "no"

----------------------------------------------------------------------------
\* The session's ends of the pipes: push_msg and pull_msg.  An identity does
\* not count against the high watermark, a credential does.
Full(w) == setup.hwm > 0 /\ w.msgs_written - w.peers_msgs_read = setup.hwm

Push(w, u) ==
    IF w.pipe = "active" /\ w.out_active /\ ~Full(w)
    THEN [w EXCEPT !.up = Append(@, u), !.rc = "ok",
                   !.msgs_written = IF u = Identity THEN @ ELSE @ + 1]
    ELSE [w EXCEPT !.out_active = @ /\ w.pipe # "active", !.rc = "again"]

Pull(w) ==
    IF w.down # <<>>
    THEN [w EXCEPT !.tx_msg = Head(w.down), !.down = Tail(w.down), !.rc = "ok"]
    ELSE [w EXCEPT !.in_active = FALSE, !.rc = "again"]

Error(w, reason) == [w EXCEPT !.dead = reason, !.timer = FALSE]
Abort(w, what) == [w EXCEPT !.aborted = what, !.rc = "abort"]

----------------------------------------------------------------------------
\* The mechanisms.  A failing operation leaves rc "again" or "proto".
Nothing(w) == [w EXCEPT !.rc = "again"]
Refuse(w) == [w EXCEPT !.rc = "proto"]
Produce(w, name) == [w EXCEPT !.tx_msg = Command(name), !.rc = "ok"]

\* ZAP: the request and the reply of the server's handler.
ZapConnect(w) == setup.zap /\ w.handler # "gone"

ReceiveZapReply(w) == [w EXCEPT !.zap = w.handler, !.user = w.handler = "yes", !.rc = "ok"]

\* The reply is looked for at once, and is there if the handler was as fast.
SendZapRequest(w) ==
    CASE w.handler = "gone" -> Abort(w, "zap")
      [] w.handler # "gone" /\ setup.fast = "none" ->
            Nothing([w EXCEPT !.zap = "asked", !.handler = "asked"])
      [] OTHER -> ReceiveZapReply([w EXCEPT !.handler = setup.fast])

\* NULL: READY or ERROR each way, in any order; ZAP goes before our command.
NullMechanism(w) == IF w.end = "b" /\ ZapConnect(w) THEN [w EXCEPT !.zap = "connected"] ELSE w

NullStatus(w) ==
    IF w.cmdSent = "READY" /\ w.cmdReceived = "READY" THEN "ready"
    ELSE IF w.cmdSent # "none" /\ w.cmdReceived # "none" THEN "error" ELSE "handshaking"

\* Mutant: READY goes out while the ZAP handler is still thinking.
NullNextUnasked(w) ==
    CASE w.cmdSent # "none" -> Nothing(w)
      [] w.cmdSent = "none" /\ w.zap = "connected" -> SendZapRequest(w)
      [] OTHER -> Produce([w EXCEPT !.cmdSent = "READY"], "READY")

NullNext(w) ==
    LET name(z) == IF z.zap = "no" THEN "ERROR" ELSE "READY"
        Replied(z) == IF z.rc # "ok" THEN z
                      ELSE Produce([z EXCEPT !.cmdSent = name(z)], name(z))
    IN  IF w.cmdSent # "none" \/ w.zap = "asked" THEN Nothing(w)
        ELSE Replied(IF w.zap = "connected" THEN SendZapRequest(w) ELSE [w EXCEPT !.rc = "ok"])

NullProcess(w, u) ==
    IF w.cmdReceived # "none" \/ u \notin {Command("READY"), Command("ERROR")} THEN Refuse(w)
    ELSE [w EXCEPT !.cmdReceived = u.val, !.rc = "ok"]

NullZap(w) == IF w.zap \in {"yes", "no"} THEN Refuse(w) ELSE ReceiveZapReply(w)

\* PLAIN: the state machines of the client, at end a, and of the server.
PlainStatus(w) ==
    CASE w.state = "ready" -> "ready"
      [] w.state \in {"error_command_sent", "error_command_received"} -> "error"
      [] OTHER -> "handshaking"

PlainProduces == [
    sending_hello    |-> <<"HELLO", "waiting_for_welcome">>,
    sending_initiate |-> <<"INITIATE", "waiting_for_ready">>,
    sending_welcome  |-> <<"WELCOME", "waiting_for_initiate">>,
    sending_ready    |-> <<"READY", "ready">>,
    sending_error    |-> <<"ERROR", "error_command_sent">>]

PlainNext(w) ==
    IF w.state \notin DOMAIN PlainProduces THEN Nothing(w)
    ELSE Produce([w EXCEPT !.state = PlainProduces[w.state][2]], PlainProduces[w.state][1])

To(w, state) == [w EXCEPT !.state = state, !.rc = "ok"]

PlainClientProcess(w, u) ==
    CASE w.state = "waiting_for_welcome" /\ u = Command("WELCOME") -> To(w, "sending_initiate")
      [] w.state = "waiting_for_ready" /\ u = Command("READY") -> To(w, "ready")
      [] w.state \in {"waiting_for_welcome", "waiting_for_ready"} /\ u = Command("ERROR") ->
            To(w, "error_command_received")
      [] OTHER -> Refuse(w)

ProcessHello(w) ==
    LET Replied(z) == To(z, CASE z.zap = "yes" -> "sending_welcome"
                              [] z.zap = "no" -> "sending_error"
                              [] OTHER -> "waiting_for_zap_reply")
    IN  IF ZapConnect(w) THEN Replied(SendZapRequest(w)) ELSE To(w, "sending_welcome")

PlainServerProcess(w, u) ==
    CASE w.state = "waiting_for_hello" /\ u = Command("HELLO") -> ProcessHello(w)
      [] w.state = "waiting_for_initiate" /\ u = Command("INITIATE") -> To(w, "sending_ready")
      [] OTHER -> Refuse(w)

PlainZap(w) ==
    IF w.state # "waiting_for_zap_reply" THEN Refuse(w)
    ELSE To(ReceiveZapReply(w), IF w.handler = "yes" THEN "sending_welcome" ELSE "sending_error")

\* CURVE: the same for its client and its server.  A box opens if it was made
\* with the right keys; only the server key the client was given can be wrong.
CurveStatus(w) ==
    CASE w.state = "connected" -> "ready"
      [] w.state \in {"error_sent", "error_received"} -> "error"
      [] OTHER -> "handshaking"

CurveProduces == [
    send_hello    |-> <<"HELLO", "expect_welcome">>,
    send_initiate |-> <<"INITIATE", "expect_ready">>,
    send_welcome  |-> <<"WELCOME", "expect_initiate">>,
    send_ready    |-> <<"READY", "connected">>,
    send_error    |-> <<"ERROR", "error_sent">>]

\* The nonces of WELCOME are random, and ERROR is not in a box.
CurveProduce(w, name) ==
    IF name \in {"WELCOME", "ERROR"} THEN Produce(w, name)
    ELSE [w EXCEPT !.tx_msg = Sealed("command", name, w.cn_nonce), !.cn_nonce = @ + 1, !.rc = "ok"]

CurveNext(w) ==
    IF w.state \notin DOMAIN CurveProduces THEN Nothing(w)
    ELSE CurveProduce([w EXCEPT !.state = CurveProduces[w.state][2]], CurveProduces[w.state][1])

CurveWelcome(w) == To(w, "send_initiate")
CurveReady(w, u) == To([w EXCEPT !.cn_peer_nonce = u.nonce], "connected")

\* The length the server gives in ERROR is the size of a C++ object and not of
\* the text (curve_server.cpp:564): process_error finds it too large.
CurveError(w) == Refuse(w)

CurveClientProcess(w, u) ==
    CASE u.val = "WELCOME" -> CurveWelcome(w)
      [] u.val = "READY" -> CurveReady(w, u)
      [] u.val = "ERROR" -> CurveError(w)
      [] OTHER -> Refuse(w)

CurveHello(w, u) ==
    IF u.val # "HELLO" \/ ~setup.key THEN Refuse(w)
    ELSE To([w EXCEPT !.cn_peer_nonce = u.nonce], "send_welcome")

CurveInitiate(w, u) ==
    LET Replied(z) == To(z, CASE z.zap = "yes" -> "send_ready"
                              [] z.zap = "no" -> "send_error"
                              [] OTHER -> "expect_zap_reply")
        Opened(p) == IF ZapConnect(p) THEN Replied(SendZapRequest(p)) ELSE To(p, "send_ready")
    IN  IF u.val # "INITIATE" THEN Refuse(w) ELSE Opened([w EXCEPT !.cn_peer_nonce = u.nonce])

CurveServerProcess(w, u) ==
    CASE w.state = "expect_hello" -> CurveHello(w, u)
      [] w.state = "expect_initiate" -> CurveInitiate(w, u)
      [] OTHER -> Refuse(w)

CurveZap(w) ==
    IF w.state # "expect_zap_reply" THEN Refuse(w)
    ELSE To(ReceiveZapReply(w), IF w.handler = "yes" THEN "send_ready" ELSE "send_error")

CurveEncode(w) ==
    IF w.state # "connected" THEN Abort(w, "encode")
    ELSE [w EXCEPT !.tx_msg = Sealed("box", @.val, w.cn_nonce), !.cn_nonce = @ + 1]

\* The decoded message takes the place of the one held.
CurveDecode(w, u) ==
    CASE w.state # "connected" -> Abort(w, "decode")
      [] w.state = "connected" /\ (u.kind # "box" \/ u.nonce <= w.cn_peer_nonce) -> Refuse(w)
      [] OTHER -> [w EXCEPT !.cn_peer_nonce = u.nonce, !.held = <<Msg(u.val)>>, !.rc = "ok"]

Mechanism(w) == setup.mechanism[w.end]
Status(w) ==
    CASE Mechanism(w) = "NULL" -> NullStatus(w)
      [] Mechanism(w) = "PLAIN" -> PlainStatus(w)
      [] Mechanism(w) = "CURVE" -> CurveStatus(w)
MechanismNext(w) ==
    CASE Mechanism(w) = "NULL" -> NullNext(w)
      [] Mechanism(w) = "PLAIN" -> PlainNext(w)
      [] Mechanism(w) = "CURVE" -> CurveNext(w)
MechanismZap(w) ==
    CASE Mechanism(w) = "NULL" -> NullZap(w)
      [] Mechanism(w) = "PLAIN" -> PlainZap(w)
      [] Mechanism(w) = "CURVE" -> CurveZap(w)
MechanismProcess(w, u) ==
    CASE Mechanism(w) = "NULL" -> NullProcess(w, u)
      [] Mechanism(w) = "PLAIN" /\ w.end = "a" -> PlainClientProcess(w, u)
      [] Mechanism(w) = "PLAIN" /\ w.end = "b" -> PlainServerProcess(w, u)
      [] Mechanism(w) = "CURVE" /\ w.end = "a" -> CurveClientProcess(w, u)
      [] Mechanism(w) = "CURVE" /\ w.end = "b" -> CurveServerProcess(w, u)

\* encode and decode of NULL and PLAIN leave a message as it is.
MechanismEncode(w) == IF Mechanism(w) = "CURVE" /\ w.rc = "ok" THEN CurveEncode(w) ELSE w
MechanismDecode(w, u) == IF Mechanism(w) = "CURVE" THEN CurveDecode(w, u) ELSE [w EXCEPT !.rc = "ok"]

NewMechanism(w) ==
    CASE Mechanism(w) = "NULL" -> NullMechanism(w)
      [] Mechanism(w) = "PLAIN" ->
            [w EXCEPT !.state = IF w.end = "a" THEN "sending_hello" ELSE "waiting_for_hello"]
      [] Mechanism(w) = "CURVE" ->
            [w EXCEPT !.state = IF w.end = "a" THEN "send_hello" ELSE "expect_hello"]

----------------------------------------------------------------------------
\* mechanism_ready: the peer's identity first, then messages both ways.
PushIdentity(w) == IF recv_identity(w) THEN Push(w, Identity) ELSE [w EXCEPT !.rc = "ok"]

MechanismReady(w) ==
    LET Pushed(p) ==
            IF p.rc = "again" THEN p
            ELSE [p EXCEPT !.next_msg = "pull_and_encode", !.process_msg = "write_credential"]
    IN  Pushed(PushIdentity(w))

PullAndEncode(w) == MechanismEncode(Pull(w))

\* next_msg: the next message for the encoder, in tx_msg.
NextHandshakeCommand(w) ==
    CASE Status(w) = "ready" -> PullAndEncode(MechanismReady(w))
      [] Status(w) = "error" -> Refuse(w)
      [] OTHER -> MechanismNext(w)

NextMsg(w) ==
    CASE w.next_msg = "identity" -> [w EXCEPT !.tx_msg = Identity, !.next_msg = "pull", !.rc = "ok"]
      [] w.next_msg = "handshake" -> NextHandshakeCommand(w)
      [] w.next_msg = "pull" -> Pull(w)
      [] w.next_msg = "pull_and_encode" -> PullAndEncode(w)

\* out_event: fill the write buffer if it is empty, write what the network takes.
RECURSIVE Encode(_)
Encode(w) ==
    LET Loaded(n) == IF n.rc # "ok" THEN n ELSE Encode([n EXCEPT !.out = Append(@, n.tx_msg)])
    IN  IF Len(w.out) = Batch THEN w ELSE Loaded(NextMsg(w))

Write(w) ==
    LET k == IF NetSize - Len(w.tx) < Len(w.out) THEN NetSize - Len(w.tx) ELSE Len(w.out)
        left == SubSeq(w.out, k + 1, Len(w.out))
    IN  IF w.closed THEN [w EXCEPT !.pollout = FALSE]
        ELSE [w EXCEPT !.tx = @ \o SubSeq(w.out, 1, k), !.out = left,
                       !.pollout = @ /\ ~(w.handshaking /\ left = <<>>)]

OutEvent(w) ==
    LET Encoded(n) ==
            IF n.rc = "abort" THEN n
            ELSE IF n.out = <<>> THEN [n EXCEPT !.output_stopped = TRUE, !.pollout = FALSE]
            ELSE Write(n)
    IN  IF w.io_error THEN Abort(w, "out_event")
        ELSE IF w.out # <<>> THEN Write(w)
        ELSE IF w.handshaking THEN w ELSE Encoded(Encode(w))

RestartOutput(w) ==
    IF w.io_error THEN w
    ELSE OutEvent([w EXCEPT !.pollout = @ \/ w.output_stopped, !.output_stopped = FALSE])

----------------------------------------------------------------------------
\* process_msg: what becomes of the decoded message u.
ProcessIdentityMsg(w, u) ==
    LET Pushed(p) ==
            IF p.rc # "ok" THEN Abort(p, "identity")
            ELSE [p EXCEPT !.process_msg = IF w.subscription THEN "write_subscription" ELSE "push"]
    IN  Pushed(PushIdentity(w))

ProcessHandshakeCommand(w, u) ==
    LET Restarted(o) == IF o.rc = "abort" THEN o ELSE [o EXCEPT !.rc = "ok"]
        Readied(r) == Restarted(IF r.output_stopped THEN RestartOutput(r) ELSE r)
        Processed(p) ==
            CASE p.rc # "ok" -> p
              [] p.rc = "ok" /\ Status(p) = "error" -> Refuse(p)
              [] OTHER -> Readied(IF Status(p) = "ready" THEN MechanismReady(p) ELSE p)
    IN  Processed(MechanismProcess(w, u))

WriteSubscription(w, u) ==
    LET Pushed(p) == IF p.rc # "ok" THEN p ELSE Push([p EXCEPT !.process_msg = "push"], u)
    IN  Pushed(Push(w, Subscription))

\* Mutant: a message that did not fit is decoded once more.
DecodeAndPushAgain(w, u) ==
    LET Pushable(d) == IF d.rc # "ok" THEN d ELSE Push(d, d.held[1])
    IN  Pushable(MechanismDecode(w, u))

DecodeAndPush(w, u) ==
    LET Pushed(p) ==
            IF p.rc = "again" THEN [p EXCEPT !.process_msg = "push_one_then_decode_and_push"]
            ELSE p
        Pushable(d) == IF d.rc # "ok" THEN d ELSE Pushed(Push(d, d.held[1]))
    IN  Pushable(MechanismDecode(w, u))

PushOneThenDecodeAndPush(w, u) ==
    LET Pushed(p) == IF p.rc # "ok" THEN p ELSE [p EXCEPT !.process_msg = "decode_and_push"]
    IN  Pushed(Push(w, u))

WriteCredential(w, u) ==
    LET Pushed(p) ==
            IF p.rc # "ok" THEN p
            ELSE DecodeAndPush([p EXCEPT !.process_msg = "decode_and_push"], u)
    IN  Pushed(IF w.user THEN Push(w, Credential) ELSE [w EXCEPT !.rc = "ok"])

ProcessMsg(w, u) ==
    CASE w.process_msg = "identity" -> ProcessIdentityMsg(w, u)
      [] w.process_msg = "handshake" -> ProcessHandshakeCommand(w, u)
      [] w.process_msg = "write_credential" -> WriteCredential(w, u)
      [] w.process_msg = "decode_and_push" -> DecodeAndPush(w, u)
      [] w.process_msg = "push_one_then_decode_and_push" -> PushOneThenDecodeAndPush(w, u)
      [] w.process_msg = "write_subscription" -> WriteSubscription(w, u)
      [] w.process_msg = "push" -> Push(w, u)

\* The loop over the decoder's buffer; a message not processed stays in held.
ProcessHeld(w) ==
    LET Processed(p) == IF p.rc = "ok" THEN [p EXCEPT !.held = <<>>] ELSE p
    IN  Processed(ProcessMsg(w, w.held[1]))

RECURSIVE DecodeAll(_)
DecodeAll(w) ==
    IF w.rc # "ok" \/ w.in = <<>> THEN w
    ELSE DecodeAll(ProcessHeld([w EXCEPT !.held = <<Head(w.in)>>, !.in = Tail(w.in)]))

----------------------------------------------------------------------------
\* handshake: the greeting, unit by unit, answering as the code learns more.
Send(w, u) == [w EXCEPT !.out = Append(@, u), !.pollout = @ \/ w.out = <<>>]

Unversioned(w) == w.greeting[1] # Signature
Older(w) == w.greeting[2].val < 3

Answer(w) ==
    CASE Unversioned(w) -> w
      [] Len(w.greeting) = 1 -> Send(w, Version(3))
      [] Len(w.greeting) = 2 ->
            IF Older(w) THEN Send(w, U("type", 0))
            ELSE Send(Send(w, U("minor", 0)), U("rest", Mechanism(w)))
      [] OTHER -> w

Greeted(w) ==
    /\ w.greeting # <<>>
    /\ \/ Unversioned(w)
       \/ Len(w.greeting) = 3 /\ Older(w)
       \/ Len(w.greeting) = 4

Switched(w) ==
    LET s == [w EXCEPT !.pollout = @ \/ w.out = <<>>, !.handshaking = FALSE, !.timer = FALSE]
    IN  CASE Unversioned(w) ->
                [s EXCEPT !.in = w.greeting, !.next_msg = "pull", !.subscription = setup.publisher]
          [] ~Unversioned(w) /\ Older(w) -> s
          [] ~Unversioned(w) /\ ~Older(w) /\ w.greeting[4].val # Mechanism(w) ->
                Error(w, "protocol")
          [] OTHER ->
                NewMechanism([s EXCEPT !.next_msg = "handshake", !.process_msg = "handshake"])

RECURSIVE Handshake(_)
Handshake(w) ==
    IF Greeted(w) THEN Switched(w)
    ELSE IF w.rx # <<>>
    THEN Handshake(Answer([w EXCEPT !.greeting = Append(@, Head(w.rx)), !.rx = Tail(w.rx)]))
    ELSE IF w.closed THEN Error(w, "connection") ELSE w

\* in_event.
\* Mutant: polling for input ends, but the engine does not know it is stopped.
DecodedForgetful(w) ==
    LET Processed(d) ==
            CASE d.rc = "again" -> [d EXCEPT !.pollin = FALSE]
              [] d.rc = "proto" -> Error(d, "protocol")
              [] OTHER -> d
    IN  Processed(DecodeAll([w EXCEPT !.rc = "ok"]))

Decoded(w) ==
    LET Processed(d) ==
            CASE d.rc = "again" -> [d EXCEPT !.input_stopped = TRUE, !.pollin = FALSE]
              [] d.rc = "proto" -> Error(d, "protocol")
              [] OTHER -> d
    IN  Processed(DecodeAll([w EXCEPT !.rc = "ok"]))

Read(w) ==
    LET k == IF Len(w.rx) < Batch THEN Len(w.rx) ELSE Batch
    IN  [w EXCEPT !.in = SubSeq(w.rx, 1, k), !.rx = SubSeq(w.rx, k + 1, Len(w.rx))]

InEvent(w) ==
    LET Shaken(g) ==
            IF g.handshaking \/ g.dead # "no" THEN g
            ELSE IF g.input_stopped
            THEN [g EXCEPT !.io_error = TRUE, !.pollin = FALSE, !.pollout = FALSE]
            ELSE IF g.in # <<>> \/ g.rx # <<>>
            THEN Decoded(IF g.in # <<>> THEN g ELSE Read(g))
            ELSE IF g.closed THEN Error(g, "connection") ELSE g
    IN  IF w.io_error THEN Abort(w, "in_event")
        ELSE Shaken(IF w.handshaking THEN Handshake(w) ELSE w)

\* Mutant: an I/O error met while input was stopped ends the engine at once.
RestartInputHasty(w) ==
    LET AllDecoded(d) ==
            IF d.rc \in {"again", "abort"} THEN d
            ELSE IF d.rc = "proto" THEN Error(d, "protocol")
            ELSE InEvent([d EXCEPT !.input_stopped = FALSE, !.pollin = TRUE])
        Processed(p) ==
            IF w.io_error THEN Error(p, "connection")
            ELSE IF p.rc = "proto" THEN Error(p, "protocol") ELSE AllDecoded(DecodeAll(p))
    IN  Processed(ProcessHeld([w EXCEPT !.rc = "ok"]))

RestartInput(w) ==
    LET AllDecoded(d) ==
            IF d.rc \in {"again", "abort"} THEN d
            ELSE IF d.io_error THEN Error(d, "connection")
            ELSE IF d.rc = "proto" THEN Error(d, "protocol")
            ELSE InEvent([d EXCEPT !.input_stopped = FALSE, !.pollin = TRUE])
        Processed(p) ==
            IF p.rc = "proto" THEN Error(p, "protocol") ELSE AllDecoded(DecodeAll(p))
    IN  IF ~w.input_stopped THEN Abort(w, "restart_input")
        ELSE Processed(ProcessHeld([w EXCEPT !.rc = "ok"]))

ZapMsgAvailable(w) ==
    LET Restarted(i) == IF i.output_stopped THEN RestartOutput(i) ELSE i
        Processed(z) ==
            IF z.rc # "ok" THEN Error(z, "protocol")
            ELSE Restarted(IF z.input_stopped THEN RestartInput(z) ELSE z)
    IN  Processed(MechanismZap(w))

----------------------------------------------------------------------------
Init ==
    /\ setup \in Setups
    /\ eng = [e \in Ends |->
         [end |-> e, dead |-> "no", aborted |-> "no",
          handshaking |-> TRUE, greeting |-> <<>>, timer |-> setup.timer,
          out |-> <<Signature>>, in |-> <<>>, held |-> <<>>,
          pollin |-> TRUE, pollout |-> TRUE,
          input_stopped |-> FALSE, output_stopped |-> FALSE, io_error |-> FALSE,
          next_msg |-> "identity", process_msg |-> "identity", subscription |-> FALSE,
          cmdSent |-> "none", cmdReceived |-> "none", state |-> "none",
          cn_nonce |-> 1, cn_peer_nonce |-> 1,
          zap |-> "off", user |-> FALSE,
          up |-> <<>>, out_active |-> TRUE,
          msgs_written |-> 0, peers_msgs_read |-> 0, msgs_read |-> 0, credit |-> <<>>,
          down |-> <<>>, in_active |-> TRUE, pipe |-> "active"]]
    /\ net = [e \in Ends |-> <<>>]
    /\ broken = FALSE
    /\ zap = "idle"
    /\ sent = [e \in Ends |-> 0]
    /\ got = [e \in Ends |-> <<>>]

Alive(e) == ~Scripted(e) /\ eng[e].dead = "no" /\ eng[e].aborted = "no"

\* The engine with what it shares with the rest of the world, for one handler.
World(e) ==
    eng[e] @@ [rc |-> "ok", tx_msg |-> Signature, handler |-> zap,
               rx |-> net[e], tx |-> net[Other(e)], closed |-> Closed(e)]

Handled(e, w) ==
    /\ eng' = [eng EXCEPT ![e] = [f \in DOMAIN eng[e] |-> w[f]]]
    /\ net' = [net EXCEPT ![e] = w.rx, ![Other(e)] = w.tx]
    /\ zap' = w.handler

\* The poller: an error is reported whether or not input is polled for.
CanIn(e) ==
    /\ Alive(e) /\ ~eng[e].io_error
    /\ IF eng[e].pollin THEN net[e] # <<>> \/ Closed(e) ELSE broken
CanOut(e) ==
    /\ Alive(e) /\ eng[e].pollout
    /\ Len(net[Other(e)]) < NetSize \/ Closed(e)

In(e) == CanIn(e) /\ Handled(e, InEvent(World(e))) /\ UNCHANGED <<setup, broken, sent, got>>
Out(e) == CanOut(e) /\ Handled(e, OutEvent(World(e))) /\ UNCHANGED <<setup, broken, sent, got>>

Timer(e) ==
    /\ Alive(e) /\ eng[e].timer
    /\ Handled(e, Error(World(e), "timeout"))
    /\ UNCHANGED <<setup, broken, sent, got>>

\* Commands from the socket's ends of the pipes, and from the ZAP handler's.
WriteActivated(e) ==
    LET w == [World(e) EXCEPT !.peers_msgs_read = Head(eng[e].credit),
                              !.credit = Tail(@)]
        wakes == ~w.out_active /\ w.pipe = "active"
        a == [w EXCEPT !.out_active = @ \/ wakes]
    IN  /\ eng[e].credit # <<>>
        /\ Handled(e, IF wakes /\ Alive(e) THEN RestartInput(a) ELSE a)
        /\ UNCHANGED <<setup, broken, sent, got>>

ReadActivated(e) ==
    LET w == [World(e) EXCEPT !.in_active = TRUE]
    IN  /\ ~eng[e].in_active /\ eng[e].down # <<>>
        /\ Handled(e, IF Alive(e) THEN RestartOutput(w) ELSE w)
        /\ UNCHANGED <<setup, broken, sent, got>>

ZapActivated(e) ==
    /\ Alive(e) /\ eng[e].zap = "asked" /\ zap \in {"yes", "no"}
    /\ Handled(e, ZapMsgAvailable(World(e)))
    /\ UNCHANGED <<setup, broken, sent, got>>

\* The session's pipe is closed by the socket; then the session terminates.
ClosePipe(e) ==
    /\ setup.closes /\ Alive(e) /\ eng[e].pipe = "active"
    /\ eng' = [eng EXCEPT ![e].pipe = "closing"]
    /\ UNCHANGED <<setup, net, broken, zap, sent, got>>

Terminate(e) ==
    /\ Alive(e) /\ eng[e].pipe = "closing"
    /\ Handled(e, Error(World(e), "terminated"))
    /\ UNCHANGED <<setup, broken, sent, got>>

----------------------------------------------------------------------------
\* The two sockets, the network, the ZAP handler and an older peer.
SocketSend(e) ==
    /\ ~Scripted(e) /\ eng[e].pipe = "active" /\ sent[e] < setup.sends[e]
    /\ setup.publisher => Subscription \in Range(got[e])
    /\ sent' = [sent EXCEPT ![e] = @ + 1]
    /\ eng' = [eng EXCEPT ![e].down = Append(@, Msg(sent[e] + 1))]
    /\ UNCHANGED <<setup, net, broken, zap, got>>

\* pipe_t::read at the socket's end: a credential is put aside and the next
\* unit read instead, if there is one; a message is counted, and the count sent
\* back when it is a multiple of the low watermark.
Lwm == (setup.hwm + 1) \div 2
SocketReceive(e) ==
    LET up == eng[e].up
        k == IF Head(up) = Credential /\ Len(up) > 1 THEN 2 ELSE 1
        read == eng[e].msgs_read + (IF up[k] \in {Identity, Credential} THEN 0 ELSE 1)
        tells == up[k] # Credential /\ Lwm > 0 /\ read % Lwm = 0
    IN  /\ eng[e].pipe = "active" /\ up # <<>>
        /\ got' = [got EXCEPT ![e] = @ \o SubSeq(up, 1, k)]
        /\ eng' = [eng EXCEPT ![e].up = SubSeq(up, k + 1, Len(up)), ![e].msgs_read = read,
                              ![e].credit = IF tells THEN Append(@, read) ELSE @]
        /\ UNCHANGED <<setup, net, broken, zap, sent>>

Break ==
    /\ setup.breaks /\ ~broken
    /\ broken' = TRUE
    /\ net' = [e \in Ends |-> <<>>]
    /\ UNCHANGED <<setup, eng, zap, sent, got>>

ZapReplies ==
    /\ zap = "asked" /\ zap' \in {"yes", "no"}
    /\ UNCHANGED <<setup, eng, net, broken, sent, got>>

ZapGoes ==
    /\ setup.zapGoes /\ zap \in {"idle", "asked"} /\ zap' = "gone"
    /\ UNCHANGED <<setup, eng, net, broken, sent, got>>

PeerSends ==
    /\ Scripted("b") /\ ~Closed("b") /\ sent["b"] < Len(Script) /\ Len(net["a"]) < NetSize
    /\ net' = [net EXCEPT !["a"] = Append(@, Script[sent["b"] + 1])]
    /\ sent' = [sent EXCEPT !["b"] = @ + 1]
    /\ UNCHANGED <<setup, eng, broken, zap, got>>

PeerReceives ==
    /\ Scripted("b") /\ net["b"] # <<>>
    /\ net' = [net EXCEPT !["b"] = Tail(@)]
    /\ got' = [got EXCEPT !["b"] = Append(@, Head(net["b"]))]
    /\ UNCHANGED <<setup, eng, broken, zap, sent>>

Next ==
    \/ \E e \in Ends : In(e)
    \/ \E e \in Ends : Out(e)
    \/ \E e \in Ends : Timer(e)
    \/ \E e \in Ends : WriteActivated(e)
    \/ \E e \in Ends : ReadActivated(e)
    \/ \E e \in Ends : ZapActivated(e)
    \/ \E e \in Ends : ClosePipe(e)
    \/ \E e \in Ends : Terminate(e)
    \/ \E e \in Ends : SocketSend(e)
    \/ \E e \in Ends : SocketReceive(e)
    \/ Break \/ ZapReplies \/ ZapGoes \/ PeerSends \/ PeerReceives

\* Nothing is left for a thread, the network or the handler to do but to send.
Idle ==
    /\ zap # "asked"
    /\ ~Scripted("b") \/ (net["b"] = <<>> /\ (Closed("b") \/ sent["b"] = Len(Script)))
    /\ \A e \in Ends :
         LET w == eng[e]
         IN  /\ ~CanIn(e) /\ ~CanOut(e)
             /\ w.credit = <<>>
             /\ w.in_active \/ w.down = <<>>
             /\ Alive(e) => w.pipe = "active" /\ ~(w.zap = "asked" /\ zap \in {"yes", "no"})
             /\ w.pipe = "active" => w.up = <<>>

Spec == Init /\ [][Next]_vars /\ []<>Idle

----------------------------------------------------------------------------
Messages(s) ==
    LET m == SelectSeq(s, LAMBDA u : u.kind \in {"msg", "box"})
    IN  [i \in DOMAIN m |-> Msg(m[i].val)]
SentBy(e) == IF Scripted(e) THEN Messages(SubSeq(Script, 1, sent[e]))
             ELSE [n \in 1..sent[e] |-> Msg(n)]
Received(e) == got[e] \o eng[e].up
Flag(cond, u) == IF cond THEN <<u>> ELSE <<>>

\* Whatever mixture of full pipes, restarts, speculative reads and writes,
\* handshakes and connection errors an engine goes through, no message is
\* lost, repeated or overtaken: what a socket received, what its engine holds
\* (the message that did not fit and the rest of the decoder's buffer), what
\* is on the network and what waits at the other end is what was sent, and a
\* prefix of it once the connection is gone.  Before the first message a
\* socket gets the identity, the credential and the phantom subscription it
\* needs, once and in that order; and an engine that closes because the
\* connection did has delivered all it had read (in_event, restart_input).
StreamIntact ==
    \A e \in Ends :
        LET o == Other(e)
            w == eng[e]
            read == Messages(Received(e) \o w.held \o w.in \o net[e])
            flight == read \o Messages(eng[o].out \o eng[o].down)
            first == Flag(recv_identity(w), Identity) \o Flag(w.user, Credential)
                        \o Flag(w.subscription, Subscription)
        IN  /\ IsPrefix(read, SentBy(o))
            /\ Alive(e) /\ (Alive(o) \/ Scripted(o)) /\ ~broken => flight = SentBy(o)
            /\ ~Scripted(e) => IsPrefix(Received(e), first \o Messages(Received(e)))
            /\ w.dead = "connection" => w.held = <<>> /\ w.in = <<>>

\* The assertions of the handlers hold: restart_input finds the input stopped
\* (a pipe that turned an engine away is the pipe of an engine that waits),
\* and no event reaches an engine after its I/O error.  There are two
\* exceptions, both of a pipe that closes at a bad moment:
\* process_identity_msg asserts that the identity of an older peer fits, and
\* send_zap_request that the ZAP handler connected to is still there.
AssertionsHold ==
    \A e \in Ends :
        LET w == eng[e]
        IN  /\ \/ w.aborted = "no"
               \/ w.aborted = "identity" /\ w.pipe = "closing" /\ setup.peer # "3.0"
               \/ w.aborted = "zap" /\ zap = "gone"
            /\ Alive(e) /\ w.pipe = "active" => (w.input_stopped <=> ~w.out_active)

\* With a ZAP handler to ask, no message passes in either direction before
\* it has accepted the peer, however the peer's commands, its messages and
\* the handler's reply are ordered (null_mechanism_t, plain_server_t,
\* curve_server_t).
OnlyAuthenticated ==
    setup.zap /\ (\E e \in Ends : Messages(Received(e)) # <<>>)
        => eng["b"].zap = "yes" \/ (eng["b"].zap = "off" /\ zap = "gone")

Excused ==
    \/ broken \/ setup.mechanism.a # setup.mechanism.b \/ ~setup.key \/ zap = "no"
    \/ \E e \in Ends : eng[e].pipe # "active" \/ eng[e].dead = "timeout"

\* The credential of an accepted peer is counted when it is written and not
\* when it is read: it fills a pipe with a watermark of one for good.
CredentialFills(e) == setup.hwm = 1 /\ eng[e].user

\* Handshakes end and messages arrive: in the end both engines are up and
\* each socket has all that was sent to it, or both have closed and there was a
\* reason: the connection broke, a socket closed, the mechanisms or keys
\* differ, the handler said no, or the greeting took too long.  No engine is
\* left stopped with its peer waiting, and none of a pair is left behind when
\* the mechanisms differ, the peer is rejected or the connection breaks
\* (restart_input, restart_output, zap_msg_available, process_handshake_command).
\* One kind of connection is left stopped, and then for good: a server with
\* a watermark of one and a peer that its ZAP handler accepted with a user id
\* (pipe.cpp:158, 205) never gets a message.
ConnectionSettles ==
    <>[](\/ zap = "gone" \/ \E e \in Ends : eng[e].aborted # "no"
         \/ Excused /\ \A e \in Ends : Scripted(e) \/ eng[e].dead # "no"
         \/ \A e \in Ends :
               /\ eng[e].dead = "no"
               /\ Messages(got[e]) = IF CredentialFills(e) THEN <<>> ELSE SentBy(Other(e)))

\* With a handshake interval set, a connection whose handshake does not end is
\* closed (options.hpp: "If connection handshake is not done after this many
\* milliseconds, close socket.").
HandshakeTimesOut ==
    <>[](\A e \in Ends : \/ eng[e].dead # "no" \/ eng[e].process_msg # "handshake"
                        \/ eng["b"].aborted # "no")

\* A publisher hears of every subscriber that is connected, also of one that
\* does not send its subscriptions (write_subscription_msg: "Inject the
\* subscription message, so that also ZMQ 2.x peers receive published
\* messages.").
OldSubscribersHeard ==
    <>[](eng["a"].subscription => Subscription \in Range(got["a"]) \/ eng["a"].dead # "no")
============================================================================
