-------------------------- MODULE Conflate_proofs --------------------------
(* The conflating pipe for any number of messages: what it offers is new.  *)
EXTENDS Conflate, TLAPS

\* A pipe just made offers nothing.
LEMMA InitInv ==
  ASSUME MaxMessages \in Nat, ConflateInit
  PROVE  ConflateInv
<1>1. ConflateTypeOK
  <2>1. has_msg \in BOOLEAN /\ sync \in BOOLEAN /\ in_active \in BOOLEAN
    BY Zenon DEF ConflateInit
  <2>2. delay \in BOOLEAN /\ aborted \in BOOLEAN
    BY Zenon DEF ConflateInit
  <2> QED
    BY <2>1, <2>2 DEF ConflateInit, ConflateTypeOK
<1> QED
  BY <1>1 DEF ConflateInit, ConflateInv, NewestOffered, Reading, Delimiter

\* Neither thread can spoil the invariant, wherever the other one is.
LEMMA StepInv ==
  ASSUME MaxMessages \in Nat, ConflateInv, [ConflateNext]_conflateVars
  PROVE  ConflateInv'
<1>1. CASE Write
  <2>1. ConflateTypeOK'
    <3>1. (has_msg \in BOOLEAN /\ sync \in BOOLEAN /\ in_active \in BOOLEAN)'
      BY <1>1, Zenon DEF Write, Store, ConflateInv, ConflateTypeOK, writer, reader
    <3>2. (delay \in BOOLEAN /\ aborted \in BOOLEAN)'
      BY <1>1, Zenon DEF Write, Store, ConflateInv, ConflateTypeOK, writer, reader
    <3>3. (back \in Nat /\ front \in Nat /\ written \in Nat /\ stored \in Nat /\ got \in Nat)'
      BY <1>1 DEF Write, Store, ConflateInv, ConflateTypeOK, Delimiter, writer, reader
    <3>4. (wpc \in {"idle", "flush", "delimiter", "done"}
           /\ mailbox \in Seq({"activate_read", "pipe_term"})
           /\ state \in {"active", "waiting_for_delimiter", "delimiter_received", "term_ack_sent"})'
      BY <1>1 DEF Write, Store, ConflateInv, ConflateTypeOK, writer, reader
    <3>5. (<<call, at>> \in {<<"none", "none">>, <<"check_read", "check">>,
             <<"check_read", "probe">>, <<"check_read", "read_check">>,
             <<"check_read", "read">>, <<"read", "read_check">>, <<"read", "read">>})'
      BY <1>1 DEF Write, Store, ConflateInv, ConflateTypeOK, writer, reader
    <3> QED
      BY <3>1, <3>2, <3>3, <3>4, <3>5 DEF ConflateTypeOK
  <2>2. (stored <= written /\ written <= Delimiter)' /\ (wpc \in {"idle", "delimiter"} => written < Delimiter)'
    BY <1>1 DEF Write, Store, ConflateInv, ConflateTypeOK, NewestOffered, Reading, Delimiter, writer, reader
  <2>3. (call # "none" => in_active)' /\ (call = "check_read" /\ at \in {"probe", "read_check", "read"} => has_msg)'
    BY <1>1 DEF Write, Store, ConflateInv, ConflateTypeOK, NewestOffered, Reading, Delimiter, writer, reader
  <2>4. ~aborted'
    BY <1>1 DEF Write, Store, ConflateInv, ConflateTypeOK, NewestOffered, Reading, Delimiter, writer, reader
  <2>5. (IF has_msg THEN got < front /\ front = stored ELSE got = stored)'
    BY <1>1 DEF Write, Store, ConflateInv, ConflateTypeOK, NewestOffered, Reading, Delimiter, writer, reader
  <2>6. (has_msg /\ Reading =>
         in_active \/ wpc = "flush" \/ \E i \in 1 .. Len(mailbox) : mailbox[i] = "activate_read")'
    BY <1>1 DEF Write, Store, ConflateInv, ConflateTypeOK, NewestOffered, Reading, Delimiter, writer, reader
  <2> QED
    BY <2>1, <2>2, <2>3, <2>4, <2>5, <2>6 DEF ConflateInv, NewestOffered, ConflateTypeOK
<1>2. CASE Flush
  BY <1>2 DEF Flush, ConflateInv, ConflateTypeOK, NewestOffered, Reading, Delimiter, writer, reader
<1>3. CASE Terminate
  BY <1>3 DEF Terminate, ConflateInv, ConflateTypeOK, NewestOffered, Reading, Delimiter, writer, reader
<1>4. CASE WriteDelimiter
  <2>1. ConflateTypeOK'
    <3>1. (has_msg \in BOOLEAN /\ sync \in BOOLEAN /\ in_active \in BOOLEAN)'
      BY <1>4, Zenon DEF WriteDelimiter, Store, ConflateInv, ConflateTypeOK, writer, reader
    <3>2. (delay \in BOOLEAN /\ aborted \in BOOLEAN)'
      BY <1>4, Zenon DEF WriteDelimiter, Store, ConflateInv, ConflateTypeOK, writer, reader
    <3>3. (back \in Nat /\ front \in Nat /\ written \in Nat /\ stored \in Nat /\ got \in Nat)'
      BY <1>4 DEF WriteDelimiter, Store, ConflateInv, ConflateTypeOK, Delimiter, writer, reader
    <3>4. (wpc \in {"idle", "flush", "delimiter", "done"}
           /\ mailbox \in Seq({"activate_read", "pipe_term"})
           /\ state \in {"active", "waiting_for_delimiter", "delimiter_received", "term_ack_sent"})'
      BY <1>4 DEF WriteDelimiter, Store, ConflateInv, ConflateTypeOK, writer, reader
    <3>5. (<<call, at>> \in {<<"none", "none">>, <<"check_read", "check">>,
             <<"check_read", "probe">>, <<"check_read", "read_check">>,
             <<"check_read", "read">>, <<"read", "read_check">>, <<"read", "read">>})'
      BY <1>4 DEF WriteDelimiter, Store, ConflateInv, ConflateTypeOK, writer, reader
    <3> QED
      BY <3>1, <3>2, <3>3, <3>4, <3>5 DEF ConflateTypeOK
  <2>2. (stored <= written /\ written <= Delimiter)' /\ (wpc \in {"idle", "delimiter"} => written < Delimiter)'
    BY <1>4 DEF WriteDelimiter, Store, ConflateInv, ConflateTypeOK, NewestOffered, Reading, Delimiter, writer, reader
  <2>3. (call # "none" => in_active)' /\ (call = "check_read" /\ at \in {"probe", "read_check", "read"} => has_msg)'
    BY <1>4 DEF WriteDelimiter, Store, ConflateInv, ConflateTypeOK, NewestOffered, Reading, Delimiter, writer, reader
  <2>4. ~aborted'
    BY <1>4 DEF WriteDelimiter, Store, ConflateInv, ConflateTypeOK, NewestOffered, Reading, Delimiter, writer, reader
  <2>5. (IF has_msg THEN got < front /\ front = stored ELSE got = stored)'
    BY <1>4 DEF WriteDelimiter, Store, ConflateInv, ConflateTypeOK, NewestOffered, Reading, Delimiter, writer, reader
  <2>6. (has_msg /\ Reading =>
         in_active \/ wpc = "flush" \/ \E i \in 1 .. Len(mailbox) : mailbox[i] = "activate_read")'
    BY <1>4 DEF WriteDelimiter, Store, ConflateInv, ConflateTypeOK, NewestOffered, Reading, Delimiter, writer, reader
  <2> QED
    BY <2>1, <2>2, <2>3, <2>4, <2>5, <2>6 DEF ConflateInv, NewestOffered, ConflateTypeOK
<1>5. CASE Calls
  BY <1>5 DEF Calls, ConflateInv, ConflateTypeOK, NewestOffered, Reading, Delimiter, writer, reader
<1>6. CASE Lock
  BY <1>6 DEF Lock, ConflateInv, ConflateTypeOK, NewestOffered, Reading, Delimiter, writer, reader
<1>7. CASE CheckRead
  BY <1>7, Zenon DEF CheckRead, Unlocks, Sleeps, ConflateInv, ConflateTypeOK, NewestOffered, Reading, Delimiter, writer, reader
<1>8. CASE Probe
  <2>1. ConflateTypeOK'
    <3>1. (has_msg \in BOOLEAN /\ sync \in BOOLEAN /\ in_active \in BOOLEAN)'
      BY <1>8, Zenon DEF Probe, Unlocks, ConflateInv, ConflateTypeOK, writer, reader
    <3>2. (delay \in BOOLEAN /\ aborted \in BOOLEAN)'
      BY <1>8, Zenon DEF Probe, Unlocks, ConflateInv, ConflateTypeOK, writer, reader
    <3>3. (back \in Nat /\ front \in Nat /\ written \in Nat /\ stored \in Nat /\ got \in Nat)'
      BY <1>8 DEF Probe, Unlocks, ConflateInv, ConflateTypeOK, Delimiter, writer, reader
    <3>4. (wpc \in {"idle", "flush", "delimiter", "done"}
           /\ mailbox \in Seq({"activate_read", "pipe_term"})
           /\ state \in {"active", "waiting_for_delimiter", "delimiter_received", "term_ack_sent"})'
      BY <1>8 DEF Probe, Unlocks, ConflateInv, ConflateTypeOK, writer, reader
    <3>5. (<<call, at>> \in {<<"none", "none">>, <<"check_read", "check">>,
             <<"check_read", "probe">>, <<"check_read", "read_check">>,
             <<"check_read", "read">>, <<"read", "read_check">>, <<"read", "read">>})'
      BY <1>8 DEF Probe, Unlocks, ConflateInv, ConflateTypeOK, writer, reader
    <3> QED
      BY <3>1, <3>2, <3>3, <3>4, <3>5 DEF ConflateTypeOK
  <2>2. (stored <= written /\ written <= Delimiter)' /\ (wpc \in {"idle", "delimiter"} => written < Delimiter)'
    BY <1>8 DEF Probe, Unlocks, ConflateInv, ConflateTypeOK, NewestOffered, Reading, Delimiter, writer, reader
  <2>3. (call # "none" => in_active)' /\ (call = "check_read" /\ at \in {"probe", "read_check", "read"} => has_msg)'
    BY <1>8 DEF Probe, Unlocks, ConflateInv, ConflateTypeOK, NewestOffered, Reading, Delimiter, writer, reader
  <2>4. ~aborted'
    BY <1>8 DEF Probe, Unlocks, ConflateInv, ConflateTypeOK, NewestOffered, Reading, Delimiter, writer, reader
  <2>5. (IF has_msg THEN got < front /\ front = stored ELSE got = stored)'
    BY <1>8 DEF Probe, Unlocks, ConflateInv, ConflateTypeOK, NewestOffered, Reading, Delimiter, writer, reader
  <2>6. (has_msg /\ Reading =>
         in_active \/ wpc = "flush" \/ \E i \in 1 .. Len(mailbox) : mailbox[i] = "activate_read")'
    BY <1>8 DEF Probe, Unlocks, ConflateInv, ConflateTypeOK, NewestOffered, Reading, Delimiter, writer, reader
  <2> QED
    BY <2>1, <2>2, <2>3, <2>4, <2>5, <2>6 DEF ConflateInv, NewestOffered, ConflateTypeOK
<1>9. CASE ReadCheck
  BY <1>9, Zenon DEF ReadCheck, Unlocks, Sleeps, ConflateInv, ConflateTypeOK, NewestOffered, Reading, Delimiter, writer, reader
<1>10. CASE Read
  <2>1. ConflateTypeOK'
    <3>1. (has_msg \in BOOLEAN /\ sync \in BOOLEAN /\ in_active \in BOOLEAN)'
      BY <1>10, Zenon DEF Read, Unlocks, Sleeps, AfterDelimiter, ConflateInv, ConflateTypeOK, writer, reader
    <3>2. (delay \in BOOLEAN /\ aborted \in BOOLEAN)'
      BY <1>10, Zenon DEF Read, Unlocks, Sleeps, AfterDelimiter, ConflateInv, ConflateTypeOK, writer, reader
    <3>3. (back \in Nat /\ front \in Nat /\ written \in Nat /\ stored \in Nat /\ got \in Nat)'
      BY <1>10 DEF Read, Unlocks, Sleeps, AfterDelimiter, ConflateInv, ConflateTypeOK, Delimiter, writer, reader
    <3>4. (wpc \in {"idle", "flush", "delimiter", "done"}
           /\ mailbox \in Seq({"activate_read", "pipe_term"})
           /\ state \in {"active", "waiting_for_delimiter", "delimiter_received", "term_ack_sent"})'
      BY <1>10 DEF Read, Unlocks, Sleeps, AfterDelimiter, ConflateInv, ConflateTypeOK, writer, reader
    <3>5. (<<call, at>> \in {<<"none", "none">>, <<"check_read", "check">>,
             <<"check_read", "probe">>, <<"check_read", "read_check">>,
             <<"check_read", "read">>, <<"read", "read_check">>, <<"read", "read">>})'
      BY <1>10 DEF Read, Unlocks, Sleeps, AfterDelimiter, ConflateInv, ConflateTypeOK, writer, reader
    <3> QED
      BY <3>1, <3>2, <3>3, <3>4, <3>5 DEF ConflateTypeOK
  <2>2. (stored <= written /\ written <= Delimiter)' /\ (wpc \in {"idle", "delimiter"} => written < Delimiter)'
    BY <1>10 DEF Read, Unlocks, Sleeps, AfterDelimiter, ConflateInv, ConflateTypeOK, NewestOffered, Reading, Delimiter, writer, reader
  <2>3. (call # "none" => in_active)' /\ (call = "check_read" /\ at \in {"probe", "read_check", "read"} => has_msg)'
    BY <1>10 DEF Read, Unlocks, Sleeps, AfterDelimiter, ConflateInv, ConflateTypeOK, NewestOffered, Reading, Delimiter, writer, reader
  <2>4. ~aborted'
    BY <1>10 DEF Read, Unlocks, Sleeps, AfterDelimiter, ConflateInv, ConflateTypeOK, NewestOffered, Reading, Delimiter, writer, reader
  <2>5. (IF has_msg THEN got < front /\ front = stored ELSE got = stored)'
    BY <1>10 DEF Read, Unlocks, Sleeps, AfterDelimiter, ConflateInv, ConflateTypeOK, NewestOffered, Reading, Delimiter, writer, reader
  <2>6. (has_msg /\ Reading =>
         in_active \/ wpc = "flush" \/ \E i \in 1 .. Len(mailbox) : mailbox[i] = "activate_read")'
    BY <1>10, Zenon DEF Read, Unlocks, Sleeps, AfterDelimiter, ConflateInv, ConflateTypeOK, NewestOffered, Reading, Delimiter, writer, reader
  <2> QED
    BY <2>1, <2>2, <2>3, <2>4, <2>5, <2>6 DEF ConflateInv, NewestOffered, ConflateTypeOK
<1>11. CASE ProcessCommand
  <2>1. ConflateTypeOK'
    <3>1. (has_msg \in BOOLEAN /\ sync \in BOOLEAN /\ in_active \in BOOLEAN)'
      BY <1>11, Zenon DEF ProcessCommand, ConflateInv, ConflateTypeOK, writer, reader
    <3>2. (delay \in BOOLEAN /\ aborted \in BOOLEAN)'
      BY <1>11, Zenon DEF ProcessCommand, ConflateInv, ConflateTypeOK, writer, reader
    <3>3. (back \in Nat /\ front \in Nat /\ written \in Nat /\ stored \in Nat /\ got \in Nat)'
      BY <1>11 DEF ProcessCommand, ConflateInv, ConflateTypeOK, Delimiter, writer, reader
    <3>4. (wpc \in {"idle", "flush", "delimiter", "done"}
           /\ mailbox \in Seq({"activate_read", "pipe_term"})
           /\ state \in {"active", "waiting_for_delimiter", "delimiter_received", "term_ack_sent"})'
      BY <1>11 DEF ProcessCommand, ConflateInv, ConflateTypeOK, writer, reader
    <3>5. (<<call, at>> \in {<<"none", "none">>, <<"check_read", "check">>,
             <<"check_read", "probe">>, <<"check_read", "read_check">>,
             <<"check_read", "read">>, <<"read", "read_check">>, <<"read", "read">>})'
      BY <1>11 DEF ProcessCommand, ConflateInv, ConflateTypeOK, writer, reader
    <3> QED
      BY <3>1, <3>2, <3>3, <3>4, <3>5 DEF ConflateTypeOK
  <2>2. (stored <= written /\ written <= Delimiter)' /\ (wpc \in {"idle", "delimiter"} => written < Delimiter)'
    BY <1>11 DEF ProcessCommand, ConflateInv, ConflateTypeOK, NewestOffered, Reading, Delimiter, writer, reader
  <2>3. (call # "none" => in_active)' /\ (call = "check_read" /\ at \in {"probe", "read_check", "read"} => has_msg)'
    BY <1>11 DEF ProcessCommand, ConflateInv, ConflateTypeOK, NewestOffered, Reading, Delimiter, writer, reader
  <2>4. ~aborted'
    BY <1>11 DEF ProcessCommand, ConflateInv, ConflateTypeOK, NewestOffered, Reading, Delimiter, writer, reader
  <2>5. (IF has_msg THEN got < front /\ front = stored ELSE got = stored)'
    BY <1>11 DEF ProcessCommand, ConflateInv, ConflateTypeOK, NewestOffered, Reading, Delimiter, writer, reader
  <2>6. (has_msg /\ Reading =>
         in_active \/ wpc = "flush" \/ \E i \in 1 .. Len(mailbox) : mailbox[i] = "activate_read")'
    <3>1. CASE Head(mailbox) = "activate_read"
      BY <1>11, <3>1, Zenon DEF ProcessCommand, ConflateInv, ConflateTypeOK, Reading, writer
    <3>2. CASE Head(mailbox) # "activate_read"
      <4>1. \A i \in 1 .. Len(mailbox) : i # 1 => mailbox'[i - 1] = mailbox[i] /\ i - 1 \in 1 .. Len(mailbox')
        BY <1>11 DEF ProcessCommand, ConflateInv, ConflateTypeOK
      <4>2. mailbox # <<>> /\ mailbox[1] # "activate_read"
        BY <1>11, <3>2 DEF ProcessCommand, ConflateInv, ConflateTypeOK
      <4>3. (\E i \in 1 .. Len(mailbox) : mailbox[i] = "activate_read")
              => (\E i \in 1 .. Len(mailbox) : mailbox[i] = "activate_read")'
        BY <4>1, <4>2
      <4> QED
        BY <1>11, <3>2, <4>3 DEF ProcessCommand, ConflateInv, ConflateTypeOK, NewestOffered, Reading, writer
    <3> QED
      BY <3>1, <3>2
  <2> QED
    BY <2>1, <2>2, <2>3, <2>4, <2>5, <2>6 DEF ConflateInv, NewestOffered, ConflateTypeOK
<1>12. CASE UNCHANGED conflateVars
  BY <1>12 DEF conflateVars, ConflateInv, ConflateTypeOK, NewestOffered, Reading, Delimiter, writer, reader
<1> QED
  BY <1>1, <1>2, <1>3, <1>4, <1>5, <1>6, <1>7, <1>8, <1>9, <1>10, <1>11, <1>12 DEF ConflateNext

\* The front buffer offers the newest item stored there, once, and a reader
\* asleep in front of one is about to be woken (dbuffer.hpp and pipe.cpp), for
\* any number of messages and any interleaving of reader and writer.
THEOREM OffersTheNewest ==
  ASSUME MaxMessages \in Nat
  PROVE  ConflateSpec => []NewestOffered
<1>1. ConflateInit => ConflateInv
  BY InitInv
<1>2. ConflateInv /\ [ConflateNext]_conflateVars => ConflateInv'
  BY StepInv
<1>3. ConflateInv => NewestOffered
  BY DEF ConflateInv
<1> QED
  BY <1>1, <1>2, <1>3, PTL DEF ConflateSpec
=============================================================================
