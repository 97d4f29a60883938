----------------------------- MODULE MCEngine -----------------------------
(* Instances of Engine, one setup for each kind of peer and of trouble, and *)
(* of Codec, which takes the stream between two engines apart into bytes.   *)
(* A behaviour is that of one of them; the other stays as it was created.   *)
EXTENDS Engine

CONSTANT Uses   \* subset of {"engine", "codec"}

VARIABLES
    use,
    conf, avail, enc, out, wire, dec, in, ended, delivered

codecVars == <<conf, avail, enc, out, wire, dec, in, ended, delivered>>

(* Sizes around those that need a long size, or that fill a batch.          *)
Message(k, size, more, command) ==
    [more |-> more, command |-> command, data |-> [i \in 1..size |-> (k + i) % 8]]
MCStreams ==
    {<<Message(1, a, TRUE, FALSE), Message(3, b, FALSE, TRUE), Message(0, 1, FALSE, FALSE)>> :
        a \in {0, 5, 6, 7, 8}, b \in {0, 6, 8}}

C == INSTANCE Codec WITH
    Byte <- 8, SizeBytes <- 2, BatchSize <- 5, NetSize <- 6,
    Streams <- MCStreams, Versions <- {"v1", "v2"}, MaxSizes <- {-1, 6}

MCInit ==
    /\ use \in Uses /\ Init /\ C!Init
    /\ use = "codec" => setup = CHOOSE s \in Setups : TRUE
    /\ use = "engine" => conf = [version |-> "v2", maxmsgsize |-> -1, stream |-> CHOOSE s \in MCStreams : TRUE]

UsesEngine == use = "engine" /\ UNCHANGED <<use, codecVars>>
UsesCodec == use = "codec" /\ UNCHANGED <<use, vars>>

MCNext ==
    \/ Next /\ UsesEngine
    \/ C!Next /\ UsesCodec

MCSpec ==
    /\ MCInit /\ [][MCNext]_<<use, vars, codecVars>>
    /\ []<>(IF use = "engine" THEN Idle ELSE C!Idle)
MCTimedSpec == MCSpec /\ \A e \in Ends : WF_vars(Timer(e) /\ UsesEngine)

\* However the stream is cut, the messages decoded are those encoded, all of
\* them in the end, and decoding ends only at one that is too large.
StreamDecoded == C!StreamDecoded

Both(a, b) == [a |-> a, b |-> b]
Setup(mechanism, peer) ==
    [mechanism |-> mechanism, peer |-> peer, hwm |-> 1, routers |-> {}, publisher |-> FALSE,
     sends |-> Both(2, 2), key |-> TRUE,
     zap |-> FALSE, zapGoes |-> FALSE, fast |-> "none", timer |-> FALSE, closes |-> FALSE, breaks |-> FALSE]

MCSetups ==
    {[Setup(Both("NULL", "NULL"), "3.0") EXCEPT !.routers = {"b"}],
     [Setup(Both("NULL", "NULL"), "3.0") EXCEPT !.breaks = TRUE, !.sends = Both(3, 1)],
     [Setup(Both("NULL", "NULL"), "3.0") EXCEPT !.hwm = 3, !.sends = Both(6, 0)],
     [Setup(Both("NULL", "NULL"), "3.0") EXCEPT !.zap = TRUE, !.hwm = 2, !.routers = {"b"}],
     [Setup(Both("PLAIN", "PLAIN"), "3.0") EXCEPT !.zap = TRUE],
     [Setup(Both("PLAIN", "PLAIN"), "3.0") EXCEPT !.zap = TRUE, !.hwm = 2, !.sends = Both(3, 0)],
     [Setup(Both("NULL", "NULL"), "3.0") EXCEPT !.zap = TRUE, !.zapGoes = TRUE],
     [Setup(Both("PLAIN", "PLAIN"), "3.0") EXCEPT !.routers = {"b"}, !.closes = TRUE],
     [Setup(Both("CURVE", "CURVE"), "3.0") EXCEPT !.zap = TRUE, !.hwm = 2],
     [Setup(Both("NULL", "NULL"), "3.0") EXCEPT !.zap = TRUE, !.hwm = 2, !.fast = "yes"],
     [Setup(Both("NULL", "NULL"), "3.0") EXCEPT !.zap = TRUE, !.fast = "no"],
     [Setup(Both("PLAIN", "PLAIN"), "3.0") EXCEPT !.zap = TRUE, !.fast = "yes", !.hwm = 2],
     [Setup(Both("PLAIN", "PLAIN"), "3.0") EXCEPT !.zap = TRUE, !.fast = "no"],
     [Setup(Both("CURVE", "CURVE"), "3.0") EXCEPT !.zap = TRUE, !.fast = "yes"],
     [Setup(Both("CURVE", "CURVE"), "3.0") EXCEPT !.zap = TRUE, !.fast = "no"],
     [Setup(Both("CURVE", "CURVE"), "3.0") EXCEPT !.sends = Both(3, 0), !.routers = {"b"}, !.closes = TRUE],
     [Setup(Both("CURVE", "CURVE"), "3.0") EXCEPT !.key = FALSE],
     [Setup(Both("NULL", "PLAIN"), "3.0") EXCEPT !.timer = TRUE],
     [Setup(Both("NULL", "NULL"), "2.0") EXCEPT !.routers = {"a"}, !.closes = TRUE],
     [Setup(Both("NULL", "NULL"), "1.0") EXCEPT !.publisher = TRUE, !.timer = TRUE,
                                                   !.breaks = TRUE],
     [Setup(Both("NULL", "NULL"), "1.0 SUB") EXCEPT !.publisher = TRUE]}

\* A handler that goes without an answer, with a handshake interval set.
MCTimedSetups ==
    {[Setup(Both("NULL", "NULL"), "3.0") EXCEPT !.zap = TRUE, !.zapGoes = TRUE,
                                                   !.timer = TRUE]}

\* A publisher and a subscriber of ZeroMQ 2, which never sends a message.
MCOldSetups == {[Setup(Both("NULL", "NULL"), "1.0 SUB") EXCEPT !.publisher = TRUE]}
============================================================================
