------------------------------- MODULE Codec -------------------------------
(***************************************************************************)
(* The framing of messages on a stream (encoder.hpp, decoder.hpp and their *)
(* versions v1 and v2) under the buffers of stream_engine_t: batches that  *)
(* end anywhere in a message, writes and reads of any number of bytes,     *)
(* bodies that are written from, and read into, the message itself, and a  *)
(* session that takes no more messages for a while.                        *)
(*                                                                         *)
(* A byte is a number below Byte (256), a long size has SizeBytes (8)      *)
(* bytes.  BatchSize (8192) is larger than a header, as it is in the code. *)
(***************************************************************************)
EXTENDS Integers, Sequences, SequencesExt

CONSTANTS
    Byte, SizeBytes, BatchSize,
    Streams,    \* the sequences of messages to send
    Versions,   \* of the framing: subset of {"v1", "v2"}
    MaxSizes,   \* values of maxmsgsize
    NetSize     \* bytes the network holds

VARIABLES
    conf,       \* version, maxmsgsize and stream: the same in the whole behaviour
    avail,      \* messages of the stream the socket has sent
    enc,        \* the encoder
    out,        \* outpos, outsize: the bytes, and whether they are the message's own
    wire,       \* bytes on the network
    dec,        \* the decoder
    in,         \* inpos, insize: the bytes read and not decoded
    ended,      \* whether input stopped: "no", "again", "error" or "assert"
    delivered   \* messages taken by the session

codecVars == <<conf, avail, enc, out, wire, dec, in, ended, delivered>>

Least(a, b) == IF a < b THEN a ELSE b
Take(s, k) == SubSeq(s, 1, k)
Drop(s, k) == SubSeq(s, k + 1, Len(s))
Bit(cond, value) == IF cond THEN value ELSE 0
HasBit(flags, value) == (flags \div value) % 2 = 1

\* put_uint64, get_uint64: the most significant byte first.
PutSize(n) == [i \in 1..SizeBytes |-> (n \div (Byte ^ (SizeBytes - i))) % Byte]
GetSize(s) == FoldLeft(LAMBDA n, b : n * Byte + b, 0, s)

----------------------------------------------------------------------------
\* The encoders: the header of a message, then its body.
HeaderV2(msg) ==
    LET size == Len(msg.data)
        large == size > Byte - 1
        flags == Bit(msg.more, 1) + Bit(large, 2) + Bit(msg.command, 4)
    IN  <<flags>> \o IF large THEN PutSize(size) ELSE <<size>>

HeaderV1(msg) ==
    LET size == Len(msg.data) + 1
    IN  (IF size < Byte - 1 THEN <<size>> ELSE <<Byte - 1>> \o PutSize(size))
            \o <<Bit(msg.more, 1)>>

Header(msg) == IF conf.version = "v2" THEN HeaderV2(msg) ELSE HeaderV1(msg)

\* message_ready and size_ready; new_msg_flag is set with the body.
EncoderNext(e) ==
    LET msg == conf.stream[e.in_progress]
    IN  IF e.next = "message_ready"
        THEN [e EXCEPT !.write = Header(msg), !.next = "size_ready", !.new_msg_flag = FALSE]
        ELSE [e EXCEPT !.write = msg.data, !.next = "message_ready", !.new_msg_flag = TRUE]

\* encode: bytes after pos in a buffer of limit bytes; own if the encoder
\* provides it, so that it may hand out the message's own bytes.
Encoded(e, bytes, zero) == [enc |-> e, bytes |-> bytes, zero |-> zero]

RECURSIVE Fill(_, _, _, _)
Fill(e, pos, limit, own) ==
    LET Copy(n, k) == Fill([n EXCEPT !.write = Drop(@, k)], pos \o Take(n.write, k), limit, own)
        Stepped(n) ==
            IF pos = <<>> /\ own /\ Len(n.write) >= limit
            THEN Encoded([n EXCEPT !.write = <<>>], n.write, TRUE)
            ELSE Copy(n, Least(Len(n.write), limit - Len(pos)))
    IN  CASE Len(pos) >= limit -> Encoded(e, pos, FALSE)
          [] Len(pos) < limit /\ e.write = <<>> /\ e.new_msg_flag ->
                Encoded([e EXCEPT !.in_progress = 0], pos, FALSE)
          [] OTHER -> Stepped(IF e.write = <<>> THEN EncoderNext(e) ELSE e)

Encode(e, limit, own) ==
    IF e.in_progress = 0 THEN Encoded(e, <<>>, FALSE) ELSE Fill(e, <<>>, limit, own)

\* load_msg, for the next message pulled from the session.
LoadMsg(e) == EncoderNext([e EXCEPT !.in_progress = e.loaded + 1, !.loaded = @ + 1])

\* out_event: what is left of the last message, then new ones up to a batch.
RECURSIVE Filled(_)
Filled(b) ==
    LET More(n) == Filled(Encoded(n.enc, b.bytes \o n.bytes, b.zero))
    IN  IF Len(b.bytes) >= BatchSize \/ b.enc.loaded = avail THEN b
        ELSE More(Encode(LoadMsg(b.enc), BatchSize - Len(b.bytes), FALSE))

NextBatch(e) == Filled(Encode(e, BatchSize, TRUE))

----------------------------------------------------------------------------
\* The decoders.  A step leaves rc 0, 1 (a message is ready) or -1.
ReadNext(d, to_read, next) == [d EXCEPT !.to_read = to_read, !.next = next, !.got = <<>>, !.rc = 0]
Fail(d) == [d EXCEPT !.rc = -1]
TooLarge(size) == conf.maxmsgsize >= 0 /\ size > conf.maxmsgsize

FlagsReadyV2(d) ==
    LET flags == d.got[1]
        f == [d EXCEPT !.msg.more = HasBit(flags, 1), !.msg.command = HasBit(flags, 4)]
    IN  ReadNext(f, IF HasBit(flags, 2) THEN SizeBytes ELSE 1, "size_ready")

SizeReadyV2(d) ==
    LET size == GetSize(d.got)
    IN  IF TooLarge(size) THEN Fail(d) ELSE ReadNext(d, size, "message_ready")

OneByteSizeReadyV1(d) ==
    LET size == d.got[1] - 1
    IN  IF d.got[1] = Byte - 1 THEN ReadNext(d, SizeBytes, "size_ready")
        ELSE IF size < 0 \/ TooLarge(size) THEN Fail(d)
        ELSE ReadNext([d EXCEPT !.size = size], 1, "flags_ready")

EightByteSizeReadyV1(d) ==
    LET size == GetSize(d.got) - 1
    IN  IF size < 0 \/ TooLarge(size) THEN Fail(d)
        ELSE ReadNext([d EXCEPT !.size = size], 1, "flags_ready")

FlagsReadyV1(d) ==
    ReadNext([d EXCEPT !.msg.more = HasBit(d.got[1], 1)], d.size, "message_ready")

MessageReady(d) ==
    [ReadNext([d EXCEPT !.msg.data = d.got], 1, "start") EXCEPT !.rc = 1]

DecoderNext(d) ==
    CASE d.next = "message_ready" -> MessageReady(d)
      [] d.next = "start" /\ conf.version = "v2" -> FlagsReadyV2(d)
      [] d.next = "size_ready" /\ conf.version = "v2" -> SizeReadyV2(d)
      [] d.next = "start" /\ conf.version = "v1" -> OneByteSizeReadyV1(d)
      [] d.next = "size_ready" /\ conf.version = "v1" -> EightByteSizeReadyV1(d)
      [] d.next = "flags_ready" -> FlagsReadyV1(d)

\* Mutant: an empty message waits for the next byte.
StepsOnce(d) == IF d.to_read > 0 \/ d.rc # 0 THEN d ELSE DecoderNext(d)

\* decode: to the end of a message or of the bytes.
RECURSIVE Steps(_)
Steps(d) == IF d.to_read > 0 \/ d.rc # 0 THEN d ELSE Steps(DecoderNext(d))

RECURSIVE Decode(_, _)
Decode(d, bytes) ==
    LET Stepped(r, rest) == IF r.rc # 0 THEN [dec |-> r, bytes |-> rest] ELSE Decode(r, rest)
        Copy(k) == Stepped(Steps([d EXCEPT !.got = @ \o Take(bytes, k), !.to_read = @ - k]),
                           Drop(bytes, k))
    IN  IF bytes = <<>> THEN [dec |-> d, bytes |-> bytes] ELSE Copy(Least(d.to_read, Len(bytes)))

----------------------------------------------------------------------------
Init ==
    /\ conf \in [version : Versions, maxmsgsize : MaxSizes, stream : Streams]
    /\ avail = 0
    /\ enc = [in_progress |-> 0, loaded |-> 0, next |-> "message_ready", write |-> <<>>,
              new_msg_flag |-> TRUE]
    /\ out = [bytes |-> <<>>, zero |-> FALSE]
    /\ wire = <<>>
    /\ dec = [next |-> "start", to_read |-> 1, got |-> <<>>, size |-> 0, rc |-> 0,
              msg |-> [more |-> FALSE, command |-> FALSE, data |-> <<>>]]
    /\ in = <<>>
    /\ ended = "no"
    /\ delivered = <<>>

Send ==
    /\ avail < Len(conf.stream)
    /\ avail' = avail + 1
    /\ UNCHANGED <<conf, enc, out, wire, dec, in, ended, delivered>>

\* out_event writes some of the bytes, as many as the network takes.
OutEvent ==
    LET Written(b) ==
            \E k \in 1..Least(Len(b.bytes), NetSize - Len(wire)) :
                /\ enc' = b.enc
                /\ out' = [bytes |-> Drop(b.bytes, k), zero |-> b.zero /\ k < Len(b.bytes)]
                /\ wire' = wire \o Take(b.bytes, k)
    IN  /\ Written(IF out.bytes # <<>> THEN Encoded(enc, out.bytes, out.zero) ELSE NextBatch(enc))
        /\ UNCHANGED <<conf, avail, dec, in, ended, delivered>>

\* get_buffer: the body of a large message is read into the message itself.
\* Mutant: as many bytes as into the buffer.
GetBufferFull == BatchSize + (IF dec.to_read >= BatchSize THEN 1 ELSE 0)

GetBuffer == IF dec.to_read >= BatchSize THEN dec.to_read ELSE BatchSize

\* The loop of in_event and restart_input; the session takes room messages.
RECURSIVE Deliver(_, _, _)
Loop(d, bytes, p, room) ==
    LET Decoded(r) ==
            CASE r.dec.rc = 1 -> Deliver([p EXCEPT !.dec = [r.dec EXCEPT !.rc = 0]], r.bytes, room)
              [] r.dec.rc = -1 -> [p EXCEPT !.ended = "error"]
              [] OTHER -> [p EXCEPT !.dec = r.dec, !.bytes = r.bytes]
    IN  Decoded(Decode(d, bytes))

Deliver(p, bytes, room) ==
    IF room = 0 THEN [p EXCEPT !.ended = "again", !.bytes = bytes]
    ELSE Loop(p.dec, bytes, [p EXCEPT !.got = Append(@, p.dec.msg)], room - 1)

Processed(p) ==
    /\ dec' = p.dec
    /\ in' = p.bytes
    /\ ended' = p.ended
    /\ delivered' = p.got
    /\ UNCHANGED <<conf, avail, enc, out>>

Now == [dec |-> dec, bytes |-> <<>>, ended |-> "no", got |-> delivered]

\* A zero-copy read must not be longer than what is missing of the message.
InEvent ==
    /\ ended = "no"
    /\ \E k \in 1..Least(GetBuffer, Len(wire)), room \in 0..2 :
         /\ Processed(IF dec.to_read >= BatchSize /\ k > dec.to_read
                      THEN [Now EXCEPT !.ended = "assert"]
                      ELSE Loop(dec, Take(wire, k), Now, room))
         /\ wire' = Drop(wire, k)

RestartInput ==
    /\ ended = "again"
    /\ \E room \in 1..2 : Processed(Deliver(Now, in, room))
    /\ UNCHANGED wire

Next == Send \/ OutEvent \/ InEvent \/ RestartInput

\* Nothing is left to read or write, and the session has taken what there was.
Idle ==
    /\ ended # "again" /\ (ended = "no" => wire = <<>>)
    /\ \/ Len(wire) = NetSize
       \/ /\ out.bytes = <<>> /\ enc.write = <<>> /\ enc.loaded = avail
          /\ enc.in_progress = 0 \/ enc.new_msg_flag

Spec == Init /\ [][Next]_codecVars /\ []<>Idle

----------------------------------------------------------------------------
\* The framing of version 1 has no flag for a command.
AsReceived(msg) == [msg EXCEPT !.command = @ /\ conf.version = "v2"]

\* Wherever batches, writes, reads and full pipes cut the stream, the decoder
\* finds the messages that were sent, with their flags, and gives up only at
\* one that is larger than maxmsgsize (encoder.hpp, decoder.hpp, out_event and
\* in_event, with their assertions).  Bytes that are written from a message
\* itself are those of a message the encoder has not closed.
DecodedAsSent ==
    /\ Len(delivered) <= avail
    /\ \A i \in DOMAIN delivered : delivered[i] = AsReceived(conf.stream[i])
    /\ \A i \in DOMAIN delivered : ~TooLarge(Len(conf.stream[i].data))
    /\ ended = "error" => TooLarge(Len(conf.stream[Len(delivered) + 1].data))
    /\ ended # "assert"
    /\ out.zero => enc.in_progress # 0

\* The messages that come out of the decoder are those that went into the
\* encoder, each of them in the end, unless one is too large: none waits in
\* the encoder, the decoder or a buffer for the next one to push it out.
StreamDecoded == [](DecodedAsSent /\ <>(ended = "error" \/ Len(delivered) = avail))
============================================================================
