-------------------------- MODULE Mailbox_proofs --------------------------
(* Safety of the mailbox for any number of senders and commands, on top of *)
(* that of its queue.                                                      *)
EXTENDS Mailbox, TLAPS

CP == INSTANCE YPipe_proofs WITH Values <- Command, MaxWrites <- MaxCommands

(* The steps of the mailbox keep the invariant of its queue.               *)
LEMMA QueueStep ==
  ASSUME MaxCommands \in Nat, CPipe!Inv, [CPipe!Next]_pipeVars
  PROVE  CPipe!Inv'
<1>1. CP!Inv /\ [CP!Next]_(CP!vars)
  BY Zenon DEF pipeVars, CPipe!Inv, CPipe!TypeOK, CPipe!PointersLive,
         CPipe!AsleepMeansDrained, CPipe!NeverSplit, CPipe!NULL, CPipe!Position,
         CPipe!Item, CPipe!Next, CPipe!WriterNext, CPipe!ReaderNext,
         CPipe!Write, CPipe!Unwrite, CPipe!FlushAwake, CPipe!FlushAsleep,
         CPipe!FlushSet, CPipe!CheckRead, CPipe!Read, CPipe!Prefetched,
         CP!vars, CP!Inv, CP!TypeOK, CP!PointersLive,
         CP!AsleepMeansDrained, CP!NeverSplit, CP!NULL, CP!Position,
         CP!Item, CP!Next, CP!WriterNext, CP!ReaderNext,
         CP!Write, CP!Unwrite, CP!FlushAwake, CP!FlushAsleep,
         CP!FlushSet, CP!CheckRead, CP!Read, CP!Prefetched
<1>2. CP!Inv'
  BY <1>1, CP!NextInv, Zenon
<1> QED
  BY <1>2, Zenon DEF CPipe!Inv, CPipe!TypeOK, CPipe!PointersLive,
         CPipe!AsleepMeansDrained, CPipe!NeverSplit, CPipe!NULL, CPipe!Position,
         CPipe!Item, CP!Inv, CP!TypeOK, CP!PointersLive,
         CP!AsleepMeansDrained, CP!NeverSplit, CP!NULL, CP!Position, CP!Item

(* The constructor establishes the invariant.                              *)
LEMMA InitInv ==
  ASSUME MaxSends \in Nat, MaxCommands \in Nat, Init
  PROVE  Inv
<1>1. CPipe!Inv
  BY DEF Init, CPipe!Inv, CPipe!TypeOK, CPipe!PointersLive,
         CPipe!AsleepMeansDrained, CPipe!NeverSplit, CPipe!NULL, CPipe!Position,
         CPipe!Item
<1>2. TypeOK /\ r # CPipe!NULL
  <2>1. active \in BOOLEAN
    BY Zenon DEF Init
  <2>2. CPipe!TypeOK
    BY <1>1, Zenon DEF CPipe!Inv
  <2>3. sync \in SUBSET Senders /\ spc \in [Senders -> SenderPC]
    BY Zenon DEF Init, SenderPC
  <2>4. sent \in [Senders -> 0 .. MaxSends] /\ received \in [Senders -> Nat]
    BY DEF Init
  <2>5. signals \in Nat /\ rpc \in ReceiverPC /\ r # CPipe!NULL
    BY DEF Init, ReceiverPC, CPipe!NULL
  <2> QED
    BY <2>1, <2>2, <2>3, <2>4, <2>5, Zenon DEF TypeOK
<1>3. Mutex /\ Asleep /\ Gone
  BY Zenon DEF Init, Mutex, Asleep, Gone, HoldsMutex, Wakes
<1>4. Pending
  BY DEF Init, Pending
<1> QED
  BY <1>1, <1>2, <1>3, <1>4, Zenon DEF Inv

(* What the invariant says of the items in the pipe.                       *)
LEMMA ItemFacts ==
  ASSUME Inv, NEW i \in front .. back - 1
  PROVE  Sender(i) \in Senders /\ Number(i) \in Nat
BY Zenon DEF Inv, TypeOK, CPipe!TypeOK, CPipe!Item, Command, Sender, Number,
       CPipe!Position, CPipe!NULL

(* Steps that leave the pipe's contents alone leave what is pending alone. *)
LEMMA PendingKept ==
  ASSUME Pending, UNCHANGED <<buf, front, back, sent, received>>
  PROVE  Pending'
BY DEF Pending, Sender, Number

(* Taking the mutex and writing a command.                                 *)
LEMMA SendWriteInv ==
  ASSUME MaxSends \in Nat, MaxCommands \in Nat, Inv,
         NEW s \in Senders, SendWrite(s)
  PROVE  Inv'
<1> DEFINE item == [val |-> <<s, sent[s] + 1>>, incomplete |-> FALSE]
<1>1. item \in CPipe!Item /\ CPipe!Write(item)
  BY DEF SendWrite, Inv, TypeOK, CPipe!Item, Command
<1>2. CPipe!Inv'
  BY <1>1, QueueStep, Zenon DEF Inv, CPipe!Next, CPipe!WriterNext
<1>3. r' # CPipe!NULL
  BY Zenon DEF SendWrite, Inv, CPipe!Write, CPipe!NULL
<1>4. TypeOK'
  <2>1. CPipe!TypeOK'
    BY <1>2, Zenon DEF CPipe!Inv
  <2>2. active' \in BOOLEAN /\ signals' \in Nat /\ rpc' \in ReceiverPC
        /\ received' \in [Senders -> Nat]
    BY Zenon DEF SendWrite, receiverVars, Inv, TypeOK
  <2>3. sync' \in SUBSET Senders /\ spc' \in [Senders -> SenderPC]
        /\ sent' \in [Senders -> 0 .. MaxSends]
    BY DEF SendWrite, Inv, TypeOK, SenderPC
  <2> QED
    BY <2>1, <2>2, <2>3, Zenon DEF TypeOK
<1>5. Mutex'
  BY Zenon DEF SendWrite, Inv, TypeOK, Mutex, HoldsMutex
<1>6. \A t \in Senders : Wakes(t)' <=> Wakes(t)
  BY Zenon DEF SendWrite, Inv, TypeOK, Wakes
<1>7. (Awake \/ Asleep \/ Woken)'
  <2>1. UNCHANGED <<active, c, signals, rpc, front, w>>
    BY Zenon DEF SendWrite, receiverVars, CPipe!Write
  <2> QED
    BY <1>6, <2>1, Zenon DEF Inv, Awake, Asleep, Woken, CPipe!NULL
<1>8. Pending'
  <2>1. /\ front \in Nat /\ back \in Nat /\ front <= back
        /\ sent \in [Senders -> Nat] /\ received \in [Senders -> Nat]
    BY DEF Inv, TypeOK, CPipe!Inv, CPipe!TypeOK, CPipe!PointersLive,
           CPipe!Position
  <2>2. /\ UNCHANGED <<front, received>>
        /\ back' = back + 1
        /\ buf' = [i \in front .. back |-> IF i = back THEN item ELSE buf[i]]
        /\ sent' = [sent EXCEPT ![s] = @ + 1]
    BY Zenon DEF SendWrite, receiverVars, CPipe!Write
  <2>3. \A i \in front .. back - 1 :
           Sender(i)' = Sender(i) /\ Number(i)' = Number(i)
    BY <2>1, <2>2 DEF Sender, Number
  <2>4. \A i \in {back} : Sender(i)' = s /\ Number(i)' = sent[s] + 1
    BY <2>1, <2>2 DEF Sender, Number
  <2>5. \A i \in front .. back - 1 : Sender(i) \in Senders /\ Number(i) \in Nat
    BY ItemFacts, Zenon
  <2>6. \A t \in Senders : sent'[t] = IF t = s THEN sent[s] + 1 ELSE sent[t]
    BY <2>1, <2>2, Zenon
  <2>7. front' .. back' - 1 = (front .. back - 1) \cup {back}
    BY <2>1, <2>2
  <2>8. \A t \in Senders : received'[t] <= sent'[t]
    BY <2>1, <2>2, <2>6 DEF Inv, Pending
  <2>9. ASSUME NEW i \in front' .. back' - 1
        PROVE  received'[Sender(i)'] < Number(i)' /\ Number(i)' <= sent'[Sender(i)']
    <3>1. CASE i = back
      BY <3>1, <2>1, <2>2, <2>4, <2>6 DEF Inv, Pending
    <3>2. CASE i # back
      <4>1. i \in front .. back - 1
        BY <3>2, <2>7, Zenon
      <4> QED
        BY <4>1, <2>1, <2>2, <2>3, <2>5, <2>6 DEF Inv, Pending
    <3> QED
      BY <3>1, <3>2, Zenon
  <2>10. ASSUME NEW i \in front' .. back' - 1, NEW j \in front' .. back' - 1,
                i < j, Sender(i)' = Sender(j)'
         PROVE  Number(i)' < Number(j)'
    <3>1. i \in front .. back - 1
      BY <2>1, <2>2, <2>10
    <3>2. CASE j = back
      BY <3>1, <3>2, <2>1, <2>3, <2>4, <2>5, <2>10 DEF Inv, Pending
    <3>3. CASE j # back
      <4>1. j \in front .. back - 1
        BY <3>3, <2>7, Zenon
      <4> QED
        BY <3>1, <4>1, <2>3, <2>10 DEF Inv, Pending
    <3> QED
      BY <3>2, <3>3, Zenon
  <2>11. ASSUME NEW t \in Senders, NEW n \in received'[t] + 1 .. sent'[t]
         PROVE  \E i \in front' .. back' - 1 : Sender(i)' = t /\ Number(i)' = n
    <3>1. CASE t = s /\ n = sent[s] + 1
      BY <3>1, <2>4, <2>7, Zenon
    <3>2. CASE ~(t = s /\ n = sent[s] + 1)
      <4>1. n \in received[t] + 1 .. sent[t]
        BY <3>2, <2>1, <2>2, <2>6
      <4>2. PICK i \in front .. back - 1 : Sender(i) = t /\ Number(i) = n
        BY <4>1, Zenon DEF Inv, Pending
      <4> QED
        BY <4>2, <2>3, <2>7, Zenon
    <3> QED
      BY <3>1, <3>2, Zenon
  <2> QED
    BY <2>8, <2>9, <2>10, <2>11, Zenon DEF Pending
<1>9. Gone'
  BY DEF SendWrite, receiverVars, Inv, TypeOK, Pending, Gone
<1> QED
  BY <1>2, <1>3, <1>4, <1>5, <1>7, <1>8, <1>9, Zenon DEF Inv, CPipe!NULL

(* Flushing it to a receiver that is awake, or has been woken already ...  *)
LEMMA SendFlushAwakeInv ==
  ASSUME MaxSends \in Nat, MaxCommands \in Nat, Inv,
         NEW s \in Senders, SendFlushAwake(s)
  PROVE  Inv'
<1>1. CPipe!Inv'
  BY QueueStep, Zenon DEF SendFlushAwake, Inv, CPipe!Next, CPipe!WriterNext
<1>2. /\ UNCHANGED <<buf, front, back, r, sync, sent, active, rpc, received, signals>>
      /\ c = w /\ c' = f /\ w' = f
      /\ spc' = [spc EXCEPT ![s] = "unlock"] /\ spc[s] = "flush"
  BY Zenon DEF SendFlushAwake, CPipe!FlushAwake, receiverVars
<1>3. TypeOK'
  BY <1>1, <1>2, Zenon DEF Inv, TypeOK, CPipe!Inv, SenderPC
<1>4. Mutex'
  BY <1>2, Zenon DEF Inv, TypeOK, Mutex, HoldsMutex
<1>5. \A t \in Senders : Wakes(t)' <=> Wakes(t)
  BY <1>2, Zenon DEF Inv, TypeOK, Wakes
<1>6. w # 0 /\ w' # 0 /\ w <= w' /\ front \in Nat /\ w \in Nat /\ w' \in Nat
  BY <1>2, Zenon DEF Inv, CPipe!Inv, CPipe!TypeOK, CPipe!PointersLive, CPipe!Position,
              CPipe!NULL
<1>7. (Awake \/ Asleep \/ Woken)'
  <2>1. CASE Awake
    BY <2>1, <1>2, <1>5, <1>6 DEF Awake, CPipe!NULL
  <2>2. CASE Woken
    BY <2>2, <1>2, <1>5, <1>6 DEF Woken, CPipe!NULL
  <2> QED
    BY <2>1, <2>2, <1>2, <1>6, Zenon DEF Inv, Asleep, CPipe!NULL
<1>8. Pending'
  BY <1>2, PendingKept, Zenon DEF Inv
<1>9. Gone'
  BY <1>2, Zenon DEF Inv, Gone
<1> QED
  BY <1>1, <1>2, <1>3, <1>4, <1>7, <1>8, <1>9, Zenon DEF Inv, CPipe!NULL

(* ... or finding it asleep ...                                            *)
LEMMA SendFlushAsleepInv ==
  ASSUME MaxSends \in Nat, MaxCommands \in Nat, Inv,
         NEW s \in Senders, SendFlushAsleep(s)
  PROVE  Inv'
<1>1. CPipe!Inv'
  BY QueueStep, Zenon DEF SendFlushAsleep, Inv, CPipe!Next, CPipe!WriterNext
<1>2. UNCHANGED <<buf, front, back, w, r, c, sync, spc, sent, active, rpc,
                  received, signals>>
  BY Zenon DEF SendFlushAsleep, CPipe!FlushAsleep, senderVars, receiverVars
<1>3. TypeOK'
  BY <1>1, <1>2, Zenon DEF Inv, TypeOK, CPipe!Inv
<1>4. Pending'
  BY <1>2, PendingKept, Zenon DEF Inv
<1> QED
  BY <1>1, <1>2, <1>3, <1>4, Zenon DEF Inv, Mutex, HoldsMutex, Awake, Asleep, Woken,
         Wakes, Gone, CPipe!NULL

(* ... in which case this sender, and no other, has to wake it.            *)
LEMMA SendFlushSetInv ==
  ASSUME MaxSends \in Nat, MaxCommands \in Nat, Inv,
         NEW s \in Senders, SendFlushSet(s)
  PROVE  Inv'
<1>1. CPipe!Inv'
  BY QueueStep, Zenon DEF SendFlushSet, Inv, CPipe!Next, CPipe!WriterNext
<1>2. /\ UNCHANGED <<buf, front, back, r, sync, sent, active, rpc, received, signals>>
      /\ wpc = "set" /\ c' = f /\ w' = f
      /\ spc' = [spc EXCEPT ![s] = "unlockThenSignal"] /\ spc[s] = "flush"
  BY Zenon DEF SendFlushSet, CPipe!FlushSet, receiverVars
<1>3. c = 0 /\ front = w /\ w < f /\ f # 0
  BY <1>2 DEF Inv, CPipe!Inv, CPipe!TypeOK, CPipe!PointersLive,
              CPipe!AsleepMeansDrained, CPipe!Position, CPipe!NULL
<1>4. TypeOK'
  BY <1>1, <1>2, Zenon DEF Inv, TypeOK, CPipe!Inv, SenderPC
<1>5. Mutex'
  BY <1>2, Zenon DEF Inv, TypeOK, Mutex, HoldsMutex
<1>6. Asleep
  BY <1>3, Zenon DEF Inv, Awake, Woken, CPipe!NULL
<1>7. \A t \in Senders : Wakes(t)' <=> t = s
  BY <1>2, <1>6, Zenon DEF Inv, TypeOK, Asleep, Wakes
<1>8. Gone'
  BY <1>2, Zenon DEF Inv, Gone
<1>9. rpc # "gone"
  BY <1>2, Zenon DEF Inv, Gone
<1>10. Woken'
  BY <1>2, <1>3, <1>6, <1>7, <1>9, Zenon DEF Asleep, Woken, CPipe!NULL
<1>11. Pending'
  BY <1>2, PendingKept, Zenon DEF Inv
<1> QED
  BY <1>1, <1>2, <1>4, <1>5, <1>8, <1>10, <1>11, Zenon DEF Inv, CPipe!NULL

(* Releasing the mutex.                                                    *)
LEMMA SendUnlockInv ==
  ASSUME MaxSends \in Nat, MaxCommands \in Nat, Inv,
         NEW s \in Senders, SendUnlock(s)
  PROVE  Inv'
<1>1. UNCHANGED pipeVars
  BY Zenon DEF SendUnlock
<1>2. CPipe!Inv'
  BY <1>1, QueueStep, Zenon DEF Inv
<1>3. /\ UNCHANGED <<buf, front, back, w, r, c, sent, active, rpc, received, signals>>
      /\ sync' = {}
      /\ spc' = [spc EXCEPT ![s] = IF @ = "unlock" THEN "idle" ELSE "signal"]
      /\ spc[s] \in {"unlock", "unlockThenSignal"}
  BY Zenon DEF SendUnlock, pipeVars, receiverVars
<1>4. TypeOK'
  BY <1>2, <1>3, Zenon DEF Inv, TypeOK, CPipe!Inv, SenderPC
<1>5. Mutex'
  BY <1>3, Zenon DEF Inv, TypeOK, Mutex, HoldsMutex
<1>6. \A t \in Senders : Wakes(t)' <=> Wakes(t)
  BY <1>3, Zenon DEF Inv, TypeOK, Wakes
<1>7. (Awake \/ Asleep \/ Woken)'
  BY <1>3, <1>6, Zenon DEF Inv, Awake, Asleep, Woken, CPipe!NULL
<1>8. Pending'
  BY <1>3, PendingKept, Zenon DEF Inv
<1>9. Gone'
  BY <1>3, Zenon DEF Inv, Gone
<1> QED
  BY <1>2, <1>3, <1>4, <1>5, <1>7, <1>8, <1>9, Zenon DEF Inv, CPipe!NULL

(* Raising the signal.                                                     *)
LEMMA SendSignalInv ==
  ASSUME MaxSends \in Nat, MaxCommands \in Nat, Inv,
         NEW s \in Senders, SendSignal(s)
  PROVE  Inv'
<1>1. UNCHANGED pipeVars
  BY Zenon DEF SendSignal
<1>2. CPipe!Inv'
  BY <1>1, QueueStep, Zenon DEF Inv
<1>3. /\ UNCHANGED <<buf, front, back, w, r, c, sync, sent, active, rpc, received>>
      /\ signals' = signals + 1
      /\ spc[s] = "signal" /\ spc' = [spc EXCEPT ![s] = "idle"]
  BY Zenon DEF SendSignal, pipeVars, receiverVars
<1>4. TypeOK'
  BY <1>2, <1>3 DEF Inv, TypeOK, CPipe!Inv, SenderPC
<1>5. Mutex'
  BY <1>3, Zenon DEF Inv, TypeOK, Mutex, HoldsMutex
<1>6. Woken /\ signals = 0 /\ \A t \in Senders : Wakes(t) <=> t = s
  BY <1>3, Zenon DEF Inv, Awake, Asleep, Woken, Wakes
<1>7. \A t \in Senders : ~Wakes(t)'
  BY <1>3, <1>6, Zenon DEF Inv, TypeOK, Wakes
<1>8. Woken'
  BY <1>3, <1>6, <1>7 DEF Woken, CPipe!NULL
<1>9. Pending'
  BY <1>3, PendingKept, Zenon DEF Inv
<1>10. Gone'
  BY <1>3, Zenon DEF Inv, Gone
<1> QED
  BY <1>2, <1>3, <1>4, <1>5, <1>8, <1>9, <1>10, Zenon DEF Inv, CPipe!NULL

(* recv () begins.                                                         *)
LEMMA RecvStartInv ==
  ASSUME MaxSends \in Nat, MaxCommands \in Nat, Inv, RecvStart
  PROVE  Inv'
<1>1. CPipe!Inv'
  BY QueueStep, Zenon DEF RecvStart, Inv
<1>2. /\ UNCHANGED <<buf, front, back, w, r, c, sync, spc, sent, active, received,
                     signals>>
      /\ rpc = "idle" /\ rpc' = IF active THEN "tryRead" ELSE "wait"
  BY Zenon DEF RecvStart, pipeVars, senderVars
<1>3. TypeOK'
  BY <1>1, <1>2, Zenon DEF Inv, TypeOK, CPipe!Inv, ReceiverPC
<1>4. Mutex' /\ Gone'
  BY <1>2, Zenon DEF Inv, Mutex, HoldsMutex, Gone
<1>5. (Awake \/ Asleep \/ Woken)'
  BY <1>2, Zenon DEF Inv, Awake, Asleep, Woken, Wakes, CPipe!NULL
<1>6. Pending'
  BY <1>2, PendingKept, Zenon DEF Inv
<1> QED
  BY <1>1, <1>2, <1>3, <1>4, <1>5, <1>6, Zenon DEF Inv, CPipe!NULL

(* The receiver looks for a command: it falls asleep when there is none,   *)
(* which cannot be after a signal.                                         *)
LEMMA RecvCheckInv ==
  ASSUME MaxSends \in Nat, MaxCommands \in Nat, Inv, RecvCheck
  PROVE  Inv'
<1>1. CPipe!Inv'
  BY QueueStep, Zenon DEF RecvCheck, Inv, CPipe!Next, CPipe!ReaderNext
<1>2. /\ UNCHANGED <<buf, front, back, w, sync, spc, sent, received, signals>>
      /\ r' = c /\ c' = IF c = front THEN 0 ELSE c
      /\ rpc \in {"tryRead", "mustRead"}
  BY Zenon DEF RecvCheck, CPipe!CheckRead, CPipe!NULL, senderVars
<1>3. Awake
  BY <1>2, Zenon DEF Inv, Asleep, Woken
<1>4. c # 0 /\ c = w /\ front # 0
  BY <1>3, Zenon DEF Awake, Inv, CPipe!Inv, CPipe!PointersLive, CPipe!TypeOK,
              CPipe!Position, CPipe!NULL
<1>5. CASE c = front
  <2>1. rpc = "tryRead"
    BY <1>2, <1>3, <1>4, <1>5 DEF Awake, Inv, CPipe!Inv, CPipe!TypeOK,
       CPipe!Position
  <2>2. active' = FALSE /\ rpc' = "wait"
    BY <2>1, <1>2, <1>5, Zenon DEF RecvCheck, CPipe!Prefetched
  <2>3. TypeOK'
    <3>1. active' \in BOOLEAN
      BY <2>2, Zenon
    <3> QED
      BY <3>1, <1>1, <1>2, <2>2, Zenon DEF Inv, TypeOK, CPipe!Inv, ReceiverPC
  <2>4. Asleep'
    BY <1>2, <1>3, <1>5, <2>2, Zenon DEF Awake, Asleep, Wakes, CPipe!NULL
  <2>5. Mutex' /\ Gone' /\ Pending'
    BY <1>2, <2>2, PendingKept, Zenon DEF Inv, Mutex, HoldsMutex, Gone
  <2> QED
    BY <1>1, <1>2, <1>4, <2>3, <2>4, <2>5, Zenon DEF Inv, CPipe!NULL
<1>6. CASE c # front
  <2>1. UNCHANGED <<active, rpc>>
    BY <1>2, <1>4, <1>6, Zenon DEF RecvCheck, CPipe!Prefetched, CPipe!NULL
  <2>2. TypeOK'
    BY <1>1, <1>2, <2>1, Zenon DEF Inv, TypeOK, CPipe!Inv
  <2>3. Awake'
    BY <1>2, <1>3, <1>6, <2>1, Zenon DEF Awake, Wakes, CPipe!NULL
  <2>4. Mutex' /\ Gone' /\ Pending'
    BY <1>2, <2>1, PendingKept, Zenon DEF Inv, Mutex, HoldsMutex, Gone
  <2> QED
    BY <1>1, <1>2, <1>4, <2>2, <2>3, <2>4, Zenon DEF Inv, CPipe!NULL
<1> QED
  BY <1>5, <1>6, Zenon

(* The first command in the pipe is the next one of its sender.            *)
LEMMA HeadIsNext ==
  ASSUME MaxSends \in Nat, Inv, front < back
  PROVE  /\ Sender(front) \in Senders
         /\ Number(front) = received[Sender(front)] + 1
<1> DEFINE s == Sender(front)
<1>1. front \in Nat /\ back \in Nat /\ front \in front .. back - 1
  BY DEF Inv, TypeOK, CPipe!TypeOK, CPipe!Position
<1>2. s \in Senders /\ Number(front) \in Nat
  BY <1>1, ItemFacts, Zenon
<1>3. received[s] \in Nat /\ sent[s] \in Nat
  BY <1>2 DEF Inv, TypeOK
<1>4. received[s] < Number(front) /\ Number(front) <= sent[s]
  BY <1>1, Zenon DEF Inv, Pending
<1>5. received[s] + 1 \in received[s] + 1 .. sent[s]
  BY <1>2, <1>3, <1>4
<1>6. PICK i \in front .. back - 1 : Sender(i) = s /\ Number(i) = received[s] + 1
  BY <1>2, <1>5, Zenon DEF Inv, Pending
<1>7. front < i => Number(front) < Number(i)
  BY <1>1, <1>6, Zenon DEF Inv, Pending
<1>8. i = front
  BY <1>1, <1>2, <1>3, <1>4, <1>6, <1>7
<1> QED
  BY <1>2, <1>6, <1>8, Zenon

(* A step that receives a command takes the first one there is.            *)
LEMMA RecvCommandStep ==
  ASSUME Inv, RecvCommand
  PROVE  /\ front < back
         /\ received' = [received EXCEPT ![Sender(front)] = Number(front)]
<1>1. front < back
  BY DEF RecvCommand, CPipe!Read, CPipe!Prefetched, Inv, CPipe!Inv, CPipe!TypeOK,
         CPipe!PointersLive, CPipe!Position, CPipe!NULL
<1>2. received' = [received EXCEPT ![Sender(front)] = Number(front)]
  BY Zenon DEF RecvCommand, Sender, Number
<1> QED
  BY <1>1, <1>2, Zenon

(* Receiving a command.                                                    *)
LEMMA RecvCommandInv ==
  ASSUME MaxSends \in Nat, MaxCommands \in Nat, Inv, RecvCommand
  PROVE  Inv'
<1>1. CPipe!Inv'
  BY QueueStep, Zenon DEF RecvCommand, Inv, CPipe!Next, CPipe!ReaderNext
<1>2. /\ UNCHANGED <<back, w, r, c, sync, spc, sent, active, signals>>
      /\ rpc \in {"tryRead", "mustRead"} /\ rpc' = "idle"
      /\ front' = front + 1
      /\ buf' = [i \in front + 1 .. back - 1 |-> buf[i]]
  BY Zenon DEF RecvCommand, CPipe!Read, senderVars
<1> DEFINE s == Sender(front)
           n == Number(front)
<1>3. front < back /\ received' = [received EXCEPT ![s] = n]
  BY RecvCommandStep, Zenon
<1>4. s \in Senders /\ n = received[s] + 1
  BY <1>3, HeadIsNext, Zenon
<1>5. /\ front \in Nat /\ back \in Nat
      /\ sent \in [Senders -> Nat] /\ received \in [Senders -> Nat]
  BY DEF Inv, TypeOK, CPipe!TypeOK, CPipe!Position
<1>6. TypeOK'
  <2>1. received' \in [Senders -> Nat]
    BY <1>3, <1>4, <1>5
  <2> QED
    BY <2>1, <1>1, <1>2, Zenon DEF Inv, TypeOK, CPipe!Inv, ReceiverPC
<1>7. Mutex' /\ Gone'
  BY <1>2, Zenon DEF Inv, Mutex, HoldsMutex, Gone
<1>8. Awake'
  BY <1>2, Zenon DEF Inv, Awake, Asleep, Woken, Wakes, CPipe!NULL
<1>9. Pending'
  <2>1. \A i \in front + 1 .. back - 1 :
           Sender(i)' = Sender(i) /\ Number(i)' = Number(i)
    BY <1>2, Zenon DEF Sender, Number
  <2>2. front' .. back' - 1 = (front .. back - 1) \ {front}
    BY <1>2, <1>3, <1>5
  <2>3. /\ n \in Nat
        /\ \A t \in Senders : received'[t] = IF t = s THEN n ELSE received[t]
    BY <1>3, <1>4, <1>5
  <2>4. front \in front .. back - 1
    BY <1>3, <1>5
  <2>5. n <= sent[s]
    BY <2>4, Zenon DEF Inv, Pending
  <2> HIDE DEF s, n
  <2>6. \A t \in Senders : received'[t] <= sent'[t]
    BY <1>2, <1>5, <2>3, <2>5, Zenon DEF Inv, Pending
  <2>7. ASSUME NEW i \in front' .. back' - 1
        PROVE  received'[Sender(i)'] < Number(i)' /\ Number(i)' <= sent'[Sender(i)']
    <3>1. i \in front + 1 .. back - 1 /\ i \in front .. back - 1 /\ front < i
      BY <1>2, <1>3, <1>5
    <3>2. Sender(i) \in Senders /\ Number(i) \in Nat
      BY <3>1, ItemFacts, Zenon
    <3>3. received[Sender(i)] < Number(i) /\ Number(i) <= sent[Sender(i)]
      BY <3>1, Zenon DEF Inv, Pending
    <3>4. Sender(i) = s => n < Number(i)
      BY <3>1, <2>4, Zenon DEF Inv, Pending, s, n
    <3> QED
      BY <1>2, <2>1, <2>3, <3>1, <3>2, <3>3, <3>4, Zenon
  <2>8. ASSUME NEW i \in front' .. back' - 1, NEW k \in front' .. back' - 1,
               i < k, Sender(i)' = Sender(k)'
        PROVE  Number(i)' < Number(k)'
    <3>1. i \in front + 1 .. back - 1 /\ k \in front + 1 .. back - 1
          /\ i \in front .. back - 1 /\ k \in front .. back - 1
      BY <1>2, <1>3, <1>5
    <3> QED
      BY <3>1, <2>1, <2>8 DEF Inv, Pending
  <2>9. ASSUME NEW t \in Senders, NEW m \in received'[t] + 1 .. sent'[t]
        PROVE  \E i \in front' .. back' - 1 : Sender(i)' = t /\ Number(i)' = m
    <3>1. m \in received[t] + 1 .. sent[t] /\ (t = s => m # n)
      BY <1>2, <1>4, <1>5, <2>3
    <3>2. PICK i \in front .. back - 1 : Sender(i) = t /\ Number(i) = m
      BY <3>1, Zenon DEF Inv, Pending
    <3>3. i # front
      BY <3>1, <3>2, Zenon DEF s, n
    <3>4. i \in front + 1 .. back - 1 /\ i \in front' .. back' - 1
      BY <3>2, <3>3, <1>2, <1>5
    <3> QED
      BY <3>2, <3>4, <2>1, Zenon
  <2> QED
    BY <2>6, <2>7, <2>8, <2>9, Zenon DEF Pending
<1> QED
  BY <1>1, <1>2, <1>6, <1>7, <1>8, <1>9, Zenon DEF Inv, CPipe!NULL

(* Taking the signal.                                                      *)
LEMMA RecvSignalInv ==
  ASSUME MaxSends \in Nat, MaxCommands \in Nat, Inv, RecvSignal
  PROVE  Inv'
<1>1. CPipe!Inv'
  BY QueueStep, Zenon DEF RecvSignal, Inv
<1>2. /\ UNCHANGED <<buf, front, back, w, r, c, sync, spc, sent, received>>
      /\ rpc = "wait" /\ rpc' = "mustRead" /\ signals > 0
      /\ signals' = IF signals = 2 THEN 1 ELSE 0
  BY Zenon DEF RecvSignal, pipeVars, senderVars
<1>3. active' = TRUE
  BY Zenon DEF RecvSignal
<1>4. Woken /\ signals = 1 /\ \A s \in Senders : ~Wakes(s)
  BY <1>2 DEF Inv, Awake, Asleep, Woken
<1>5. TypeOK'
  <2>1. active' \in BOOLEAN
    BY <1>3, Zenon
  <2> QED
    BY <2>1, <1>1, <1>2, Zenon DEF Inv, TypeOK, CPipe!Inv, ReceiverPC
<1>6. Awake'
  BY <1>2, <1>3, <1>4 DEF Woken, Awake, Wakes, CPipe!NULL
<1>7. Mutex' /\ Gone' /\ Pending'
  BY <1>2, PendingKept, Zenon DEF Inv, Mutex, HoldsMutex, Gone
<1> QED
  BY <1>1, <1>2, <1>5, <1>6, <1>7, Zenon DEF Inv, CPipe!NULL

(* A wait that times out or is interrupted.                                *)
LEMMA RecvNothingInv ==
  ASSUME MaxSends \in Nat, MaxCommands \in Nat, Inv,
         RecvTimeout \/ RecvInterrupted
  PROVE  Inv'
<1>1. CPipe!Inv'
  BY QueueStep, Zenon DEF RecvTimeout, RecvInterrupted, Inv
<1>2. /\ UNCHANGED <<buf, front, back, w, r, c, sync, spc, sent, active, received,
                     signals>>
      /\ rpc = "wait" /\ rpc' = "idle"
  BY Zenon DEF RecvTimeout, RecvInterrupted, pipeVars, senderVars
<1>3. TypeOK'
  BY <1>1, <1>2, Zenon DEF Inv, TypeOK, CPipe!Inv, ReceiverPC
<1>4. (Awake \/ Asleep \/ Woken)'
  BY <1>2, Zenon DEF Inv, Awake, Asleep, Woken, Wakes, CPipe!NULL
<1>5. Mutex' /\ Gone' /\ Pending'
  BY <1>2, PendingKept, Zenon DEF Inv, Mutex, HoldsMutex, Gone
<1> QED
  BY <1>1, <1>2, <1>3, <1>4, <1>5, Zenon DEF Inv, CPipe!NULL

(* Once everything has been received the pipe is empty, ...                *)
LEMMA NothingPending ==
  ASSUME MaxSends \in Nat, Inv, \A s \in Senders : received[s] = MaxSends
  PROVE  ~(front < back)
<1> SUFFICES ASSUME front < back PROVE FALSE
  BY Zenon
<1>1. front \in front .. back - 1
  BY DEF Inv, TypeOK, CPipe!TypeOK, CPipe!Position
<1>2. Sender(front) \in Senders /\ Number(front) \in Nat
  BY <1>1, ItemFacts, Zenon
<1>3. /\ received[Sender(front)] < Number(front)
      /\ Number(front) <= sent[Sender(front)]
  BY <1>1, Zenon DEF Inv, Pending
<1>4. sent[Sender(front)] \in 0 .. MaxSends
  BY <1>2, Zenon DEF Inv, TypeOK
<1> QED
  BY <1>2, <1>3, <1>4

(* ... so that nobody is about to signal: the mailbox can be destroyed.    *)
LEMMA DestroyInv ==
  ASSUME MaxSends \in Nat, MaxCommands \in Nat, Inv, Destroy
  PROVE  Inv'
<1>1. CPipe!Inv'
  BY QueueStep, Zenon DEF Destroy, Inv
<1>2. /\ UNCHANGED <<buf, front, back, w, r, c, sync, spc, sent, active, received,
                     signals>>
      /\ rpc = "idle" /\ rpc' = "gone" /\ sync = {}
      /\ \A s \in Senders : received[s] = MaxSends
  BY Zenon DEF Destroy, pipeVars, senderVars
<1>3. ~(front < w)
  BY <1>2, NothingPending DEF Inv, CPipe!Inv, CPipe!TypeOK, CPipe!PointersLive,
     CPipe!Position
<1>4. Awake \/ Asleep
  BY <1>3, Zenon DEF Inv, Woken
<1>5. \A s \in Senders : spc[s] = "idle"
  BY <1>2, <1>4, Zenon DEF Inv, TypeOK, Mutex, HoldsMutex, Awake, Asleep, Wakes, SenderPC
<1>6. TypeOK'
  BY <1>1, <1>2, Zenon DEF Inv, TypeOK, CPipe!Inv, ReceiverPC
<1>7. (Awake \/ Asleep)'
  BY <1>2, <1>4, Zenon DEF Awake, Asleep, Wakes, CPipe!NULL
<1>8. Gone'
  BY <1>2, <1>5, Zenon DEF Gone
<1>9. Mutex' /\ Pending'
  BY <1>2, PendingKept, Zenon DEF Inv, Mutex, HoldsMutex
<1> QED
  BY <1>1, <1>2, <1>6, <1>7, <1>8, <1>9, Zenon DEF Inv, CPipe!NULL

(* Every step keeps the invariant.                                         *)
LEMMA NextInv ==
  ASSUME MaxSends \in Nat, MaxCommands \in Nat, Inv, [Next]_vars
  PROVE  Inv'
<1>1. CASE UNCHANGED vars
  <2>1. UNCHANGED <<buf, front, back, w, r, c, sync, spc, sent, active, rpc,
                    received, signals, pipeVars>>
    BY <1>1, Zenon DEF vars, pipeVars, senderVars, receiverVars
  <2>2. CPipe!Inv'
    BY <2>1, QueueStep, Zenon DEF Inv
  <2>3. TypeOK' /\ Pending'
    BY <2>1, <2>2, PendingKept, Zenon DEF Inv, TypeOK, CPipe!Inv
  <2> QED
    BY <2>1, <2>2, <2>3, Zenon DEF Inv, Mutex, HoldsMutex, Awake, Asleep, Woken, Wakes,
       Gone, CPipe!NULL
<1>2. ASSUME NEW s \in Senders, SendNext(s)
      PROVE  Inv'
  BY <1>2, SendWriteInv, SendFlushAwakeInv, SendFlushAsleepInv, SendFlushSetInv,
     SendUnlockInv, SendSignalInv, Zenon DEF SendNext
<1>3. CASE RecvNext
  BY <1>3, RecvStartInv, RecvCheckInv, RecvCommandInv, RecvSignalInv,
     RecvNothingInv, Zenon DEF RecvNext
<1>4. CASE Destroy
  BY <1>4, DestroyInv, Zenon
<1> QED
  BY <1>1, <1>2, <1>3, <1>4, Zenon DEF Next

(* The invariant of the mailbox, for any senders and any number of         *)
(* commands.                                                               *)
THEOREM MailboxInv ==
  ASSUME MaxSends \in Nat, MaxCommands \in Nat
  PROVE  Spec => []Inv
<1>1. Init => Inv
  BY InitInv, Zenon
<1>2. Inv /\ [Next]_vars => Inv'
  BY NextInv, Zenon
<1> QED
  BY <1>1, <1>2, PTL DEF Spec

(* No wakeup of recv () is lost or doubled, the read that follows one      *)
(* succeeds, and the destructor leaves no sender inside send ().           *)
THEOREM SleepsAndWakeupsMatch ==
  ASSUME MaxSends \in Nat, MaxCommands \in Nat
  PROVE  Spec => []WakeupPerSleep
<1>1. Inv => WakeupPerSleep
  <2> SUFFICES ASSUME Inv PROVE WakeupPerSleep
    BY Zenon
  <2>1. ReadAfterSignal
    BY Zenon DEF Inv, Awake, Asleep, Woken, ReadAfterSignal
  <2>2. NoLostWakeup
    <3>1. c = CPipe!NULL => front = w
      BY Zenon DEF Inv, CPipe!Inv, CPipe!AsleepMeansDrained
    <3>2. front \in Nat /\ w \in Nat
      BY Zenon DEF Inv, CPipe!Inv, CPipe!TypeOK, CPipe!Position
    <3> QED
      BY <3>1, <3>2 DEF Inv, Awake, Asleep, Woken, Wakes, NoLostWakeup
  <2>3. OneWakeup
    BY DEF Inv, Awake, Asleep, Woken, Wakes, OneWakeup
  <2>4. TypeOK /\ ReaderNeverSeesNull /\ NobodyInsideWhenGone
    BY Zenon DEF Inv, Gone, ReaderNeverSeesNull, NobodyInsideWhenGone
  <2> QED
    BY <2>1, <2>2, <2>3, <2>4, Zenon DEF WakeupPerSleep
<1> QED
  BY <1>1, MailboxInv, PTL

(* The commands of each sender are received once each and in order: recv () *)
(* returns no command twice and skips none.                                *)
THEOREM ReceivedInOrder ==
  ASSUME MaxSends \in Nat, MaxCommands \in Nat
  PROVE  Spec => CommandsInOrder
<1> DEFINE Ordered ==
      \A s \in Senders : received'[s] \in {received[s], received[s] + 1}
<1>1. Inv /\ [Next]_vars => [Ordered]_vars
  <2> SUFFICES ASSUME Inv, Next PROVE Ordered
    BY Zenon
  <2>1. CASE RecvCommand
    <3>1. front < back
          /\ received' = [received EXCEPT ![Sender(front)] = Number(front)]
      BY <2>1, RecvCommandStep, Zenon
    <3>2. Number(front) = received[Sender(front)] + 1
      BY <3>1, HeadIsNext, Zenon
    <3>3. received \in [Senders -> Nat]
      BY Zenon DEF Inv, TypeOK
    <3> QED
      BY <3>1, <3>2, <3>3, Zenon
  <2>2. CASE ~RecvCommand
    <3>1. received' = received
      BY <2>2, Zenon DEF Next, SendNext, RecvNext, SendWrite, SendFlushAwake,
         SendFlushAsleep, SendFlushSet, SendUnlock, SendSignal, RecvStart,
         RecvCheck, RecvSignal, RecvTimeout, RecvInterrupted, Destroy,
         receiverVars
    <3> QED
      BY <3>1, Zenon
  <2> QED
    BY <2>1, <2>2, Zenon
<1> QED
  BY <1>1, MailboxInv, PTL DEF Spec, CommandsInOrder
============================================================================
