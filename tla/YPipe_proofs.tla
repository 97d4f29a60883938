--------------------------- MODULE YPipe_proofs ---------------------------
(* Safety of the lock-free queue, and that it implements the batch queue,  *)
(* for every set of values and every bound.                                *)
EXTENDS YPipe, SequenceTheorems, TLAPS

(* The constructor establishes the invariant.                              *)
LEMMA InitInv == Init => Inv
BY DEF Init, Inv, TypeOK, PointersLive, AsleepMeansDrained,
   NeverSplit, Position, NULL, Item

(* Writing an item, with or without a continuation.                        *)
LEMMA WriteInv ==
  ASSUME Inv, NEW item \in Item, Write(item)
  PROVE  Inv'
<1> USE DEF Inv, Position, NULL
<1>1. TypeOK'
  BY DEF Write, TypeOK, PointersLive, Item
<1>2. PointersLive'
  BY DEF Write, TypeOK, PointersLive
<1>3. AsleepMeansDrained'
  BY Zenon DEF Write, TypeOK, AsleepMeansDrained
<1>4. NeverSplit'
  <2> SUFFICES ASSUME NEW p \in {w', f', r'}, front' < p
               PROVE  ~buf'[p - 1].incomplete
    BY Zenon DEF NeverSplit
  <2>1. CASE p = back + 1
    BY <2>1 DEF Write, TypeOK, PointersLive, Item
  <2>2. CASE p # back + 1
    <3>1. p \in {w, f, r} /\ p <= back
      BY <2>2 DEF Write, TypeOK, PointersLive
    <3>2. buf'[p - 1] = buf[p - 1]
      BY <3>1 DEF Write, TypeOK, PointersLive
    <3> QED
      BY <3>1, <3>2, Zenon DEF Write, TypeOK, NeverSplit
  <2> QED
    BY <2>1, <2>2, Zenon
<1> QED
  BY <1>1, <1>2, <1>3, <1>4, Zenon

(* Taking back a part of an incomplete item.                               *)
LEMMA UnwriteInv ==
  ASSUME Inv, Unwrite
  PROVE  Inv'
<1> USE DEF Inv, Position, NULL
<1>1. f <= back - 1
  BY DEF Unwrite, TypeOK, PointersLive
<1>2. TypeOK'
  BY <1>1 DEF Unwrite, TypeOK, PointersLive, Item
<1>3. PointersLive'
  BY <1>1, Zenon DEF Unwrite, TypeOK, PointersLive
<1>4. AsleepMeansDrained'
  BY Zenon DEF Unwrite, TypeOK, AsleepMeansDrained
<1>5. NeverSplit'
  <2> SUFFICES ASSUME NEW p \in {w, f, r}, front' < p
               PROVE  ~buf'[p - 1].incomplete
    BY Zenon DEF Unwrite, NeverSplit
  <2>1. front < p /\ p - 1 \in front' .. back' - 1
    BY <1>1 DEF Unwrite, TypeOK, PointersLive
  <2>2. p - 1 \in front .. back - 2
    BY <2>1 DEF Unwrite, TypeOK
  <2>3. buf'[p - 1] = buf[p - 1]
    BY <2>2, Zenon DEF Unwrite
  <2> QED
    BY <2>1, <2>3, Zenon DEF NeverSplit
<1> QED
  BY <1>2, <1>3, <1>4, <1>5, Zenon

(* The three steps of flush.                                               *)
LEMMA FlushInv ==
  ASSUME Inv, FlushAwake \/ FlushAsleep \/ FlushSet
  PROVE  Inv'
<1> USE DEF Inv, Position, NULL
<1>1. TypeOK'
  BY Zenon DEF FlushAwake, FlushAsleep, FlushSet, TypeOK
<1>2. PointersLive'
  BY DEF FlushAwake, FlushAsleep, FlushSet, TypeOK, PointersLive
<1>3. AsleepMeansDrained'
  BY Zenon DEF FlushAwake, FlushAsleep, FlushSet, TypeOK, PointersLive,
         AsleepMeansDrained
<1>4. NeverSplit'
  BY Zenon DEF FlushAwake, FlushAsleep, FlushSet, TypeOK, NeverSplit
<1> QED
  BY <1>1, <1>2, <1>3, <1>4, Zenon

(* Prefetching, and falling asleep when there is nothing to prefetch.      *)
LEMMA CheckReadInv ==
  ASSUME Inv, CheckRead
  PROVE  Inv'
<1> USE DEF Inv, Position, NULL
<1>1. TypeOK'
  BY Zenon DEF CheckRead, TypeOK
<1>2. PointersLive'
  BY DEF CheckRead, TypeOK, PointersLive
<1>3. AsleepMeansDrained'
  BY Zenon DEF CheckRead, TypeOK, PointersLive, AsleepMeansDrained
<1>4. NeverSplit'
  BY DEF CheckRead, TypeOK, PointersLive, NeverSplit
<1> QED
  BY <1>1, <1>2, <1>3, <1>4, Zenon

(* Taking a prefetched item.                                               *)
LEMMA ReadInv ==
  ASSUME Inv, Read
  PROVE  Inv'
<1> USE DEF Inv, Position, NULL
<1>1. front + 1 <= r /\ r <= w
  BY DEF Read, Prefetched, TypeOK, PointersLive
<1>2. TypeOK'
  BY <1>1 DEF Read, TypeOK, PointersLive, Item
<1>3. PointersLive'
  BY <1>1 DEF Read, TypeOK, PointersLive
<1>4. AsleepMeansDrained'
  BY <1>1 DEF Read, TypeOK, AsleepMeansDrained
<1>5. NeverSplit'
  <2> SUFFICES ASSUME NEW p \in {w, f, r}, front' < p
               PROVE  ~buf'[p - 1].incomplete
    BY Zenon DEF Read, NeverSplit
  <2>1. front < p /\ p - 1 \in front' .. back' - 1
    BY <1>1 DEF Read, TypeOK, PointersLive
  <2>2. buf'[p - 1] = buf[p - 1]
    BY <2>1, Zenon DEF Read
  <2> QED
    BY <2>1, <2>2, Zenon DEF NeverSplit
<1> QED
  BY <1>2, <1>3, <1>4, <1>5, Zenon

(* Every step keeps the invariant.                                         *)
LEMMA NextInv == Inv /\ [Next]_vars => Inv'
<1> SUFFICES ASSUME Inv, [Next]_vars
             PROVE  Inv'
  BY Zenon
<1>1. CASE UNCHANGED vars
  BY <1>1, Zenon DEF vars, Inv, TypeOK, PointersLive, AsleepMeansDrained, NeverSplit
<1>2. CASE \E item \in Item : Write(item)
  BY <1>2, WriteInv, Zenon
<1>3. CASE Unwrite
  BY <1>3, UnwriteInv, Zenon
<1>4. CASE FlushAwake \/ FlushAsleep \/ FlushSet
  BY <1>4, FlushInv, Zenon
<1>5. CASE CheckRead
  BY <1>5, CheckReadInv, Zenon
<1>6. CASE Read
  BY <1>6, ReadInv, Zenon
<1> QED
  BY <1>1, <1>2, <1>3, <1>4, <1>5, <1>6, Zenon DEF Next, WriterNext, ReaderNext

(* The invariant of ypipe_t, for any number of items and any payloads: it  *)
(* carries every safety property of the queue.                             *)
THEOREM InvHolds == Spec => []Inv
BY InitInv, NextInv, PTL DEF Spec

(* Neither thread ever follows a pointer outside the live queue.           *)
THEOREM PointersStayLive == Spec => []PointersLive
<1>1. Inv => PointersLive
  BY Zenon DEF Inv
<1> QED
  BY InvHolds, <1>1, PTL

(* flush may take a failed cas for a sleeping reader, and a sleeping       *)
(* reader has read everything published.                                   *)
THEOREM SleepIsSound == Spec => []AsleepMeansDrained
<1>1. Inv => AsleepMeansDrained
  BY Zenon DEF Inv
<1> QED
  BY InvHolds, <1>1, PTL

(* A multi-part item is never published in part.                           *)
THEOREM ItemsStayWhole == Spec => []NeverSplit
<1>1. Inv => NeverSplit
  BY Zenon DEF Inv
<1> QED
  BY InvHolds, <1>1, PTL
---------------------------------------------------------------------------
(* The lock-free queue implements the batch queue.                         *)

(* A cut of the slots in use is a sequence of their items.                 *)
LEMMA CutIsSeq ==
  ASSUME NEW S, NEW b, NEW m \in Nat, NEW n \in Nat, m <= n,
         \A i \in m .. n - 1 : b[i] \in S
  PROVE  Cut(b, m, n) \in Seq(S)
<1>1. \A i \in 1 .. n - m : b[m + i - 1] \in S
  OBVIOUS
<1>2. Cut(b, m, n) \in [1 .. n - m -> S]
  BY <1>1, Zenon DEF Cut
<1> QED
  BY <1>2, SeqDef

(* Its length and its elements.                                            *)
LEMMA CutElements ==
  ASSUME NEW b, NEW m \in Nat, NEW n \in Nat, m <= n
  PROVE  /\ Len(Cut(b, m, n)) = n - m
         /\ \A i \in 1 .. n - m : Cut(b, m, n)[i] = b[m + i - 1]
BY DEF Cut

(* Extending a cut by the next slot appends that slot.                     *)
LEMMA CutAppend ==
  ASSUME NEW b, NEW m \in Nat, NEW n \in Nat, m <= n
  PROVE  Cut(b, m, n + 1) = Append(Cut(b, m, n), b[n])
<1> DEFINE S == {b[i] : i \in m .. n}
           s == Cut(b, m, n)
           t == Cut(b, m, n + 1)
           u == Append(s, b[n])
<1>1. b[n] \in S /\ \A i \in m .. n : b[i] \in S
  OBVIOUS
<1> HIDE DEF S
<1>2. s \in Seq(S) /\ t \in Seq(S)
  BY <1>1, CutIsSeq
<1>3. Len(s) = n - m /\ \A i \in 1 .. n - m : s[i] = b[m + i - 1]
  BY CutElements, Zenon
<1>4. Len(t) = n + 1 - m /\ \A i \in 1 .. n + 1 - m : t[i] = b[m + i - 1]
  BY DEF Cut
<1> HIDE DEF s, t
<1>5. /\ u \in Seq(S) /\ Len(u) = Len(s) + 1
      /\ \A i \in 1 .. Len(s) : u[i] = s[i]
      /\ u[Len(s) + 1] = b[n]
  BY <1>1, <1>2, AppendProperties
<1> HIDE DEF u
<1>6. \A i \in 1 .. Len(t) : t[i] = u[i]
  <2> SUFFICES ASSUME NEW i \in 1 .. n + 1 - m PROVE t[i] = u[i]
    BY <1>4, Zenon
  <2>1. CASE i = n - m + 1
    BY <2>1, <1>3, <1>4, <1>5
  <2>2. CASE i # n - m + 1
    <3>1. i \in 1 .. n - m
      BY <2>2
    <3> QED
      BY <3>1, <1>3, <1>4, <1>5, Zenon
  <2> QED
    BY <2>1, <2>2, Zenon
<1>7. Len(t) = Len(u)
  BY <1>3, <1>4, <1>5
<1>8. t = u
  BY <1>2, <1>5, <1>6, <1>7, SeqEqual, Zenon
<1> QED
  BY <1>8, Zenon DEF t, u, s

(* A cut is the concatenation of its two parts at any point.               *)
LEMMA CutConcat ==
  ASSUME NEW b, NEW m \in Nat, NEW k \in Nat, NEW n \in Nat, m <= k, k <= n
  PROVE  Cut(b, m, n) = Cut(b, m, k) \o Cut(b, k, n)
<1> DEFINE S == {b[i] : i \in m .. n - 1}
           s == Cut(b, m, k)
           t == Cut(b, k, n)
           u == s \o t
           v == Cut(b, m, n)
<1>0. m <= n /\ \A i \in m .. n - 1 : b[i] \in S
  OBVIOUS
<1> HIDE DEF S
<1>1. s \in Seq(S) /\ t \in Seq(S) /\ v \in Seq(S)
  BY <1>0, CutIsSeq
<1>2. Len(s) = k - m /\ \A i \in 1 .. k - m : s[i] = b[m + i - 1]
  BY CutElements, ZenonT(30)
<1>3. Len(t) = n - k /\ \A i \in 1 .. n - k : t[i] = b[k + i - 1]
  BY CutElements, ZenonT(30)
<1>4. Len(v) = n - m /\ \A i \in 1 .. n - m : v[i] = b[m + i - 1]
  BY <1>0, CutElements
<1> HIDE DEF s, t, v
<1>5. /\ u \in Seq(S) /\ Len(u) = Len(s) + Len(t)
      /\ \A i \in 1 .. Len(s) + Len(t) :
            u[i] = IF i <= Len(s) THEN s[i] ELSE t[i - Len(s)]
  BY <1>1, ConcatProperties, Zenon
<1> HIDE DEF u
<1>6. \A i \in 1 .. Len(v) : v[i] = u[i]
  <2> SUFFICES ASSUME NEW i \in 1 .. n - m PROVE v[i] = u[i]
    BY <1>4, Zenon
  <2>1. i \in 1 .. Len(s) + Len(t)
    BY <1>2, <1>3
  <2>2. CASE i <= k - m
    <3>1. u[i] = s[i]
      BY <2>1, <2>2, <1>2, <1>5, Zenon
    <3>2. i \in 1 .. k - m
      BY <2>2
    <3> QED
      BY <3>1, <3>2, <1>2, <1>4, Zenon
  <2>3. CASE ~(i <= k - m)
    <3>1. u[i] = t[i - (k - m)]
      BY <2>1, <2>3, <1>2, <1>5, Zenon
    <3>2. i - (k - m) \in 1 .. n - k /\ k + (i - (k - m)) - 1 = m + i - 1
      BY <2>3
    <3>3. t[i - (k - m)] = b[k + (i - (k - m)) - 1]
      BY <3>2, <1>3, Zenon
    <3> QED
      BY <3>1, <3>2, <3>3, <1>4, Zenon
  <2> QED
    BY <2>2, <2>3, Zenon
<1>7. Len(v) = Len(u)
  BY <1>2, <1>3, <1>4, <1>5
<1>8. v = u
  BY <1>1, <1>5, <1>6, <1>7, SeqEqual, Zenon
<1> QED
  BY <1>8, Zenon DEF u, v, s, t

(* A subsequence of a cut is a cut.                                        *)
LEMMA CutSubSeq ==
  ASSUME NEW b, NEW m \in Nat, NEW n \in Nat
  PROVE  \A p, q \in Nat : m <= p /\ p <= q /\ q <= n
            => SubSeq(Cut(b, m, n), p - m + 1, q - m) = Cut(b, p, q)
<1> SUFFICES ASSUME NEW p \in Nat, NEW q \in Nat, m <= p, p <= q, q <= n
             PROVE  SubSeq(Cut(b, m, n), p - m + 1, q - m) = Cut(b, p, q)
  BY Zenon
<1> DEFINE S == {b[x] : x \in m .. n - 1}
           s == Cut(b, m, n)
           t == Cut(b, p, q)
           u == SubSeq(s, p - m + 1, q - m)
<1>1. m <= n /\ \A x \in m .. n - 1 : b[x] \in S
  OBVIOUS
<1> HIDE DEF S
<1>2. t \in Seq(S)
  BY <1>1, CutIsSeq
<1>3. Len(t) = q - p /\ \A x \in 1 .. q - p : t[x] = b[p + x - 1]
  BY CutElements, ZenonT(30)
<1>4. Len(s) = n - m /\ \A x \in 1 .. n - m : s[x] = b[m + x - 1]
  BY <1>1, CutElements
<1> HIDE DEF s, t
<1>5. \A x \in p - m + 1 .. q - m : s[x] \in S
  <2> SUFFICES ASSUME NEW x \in p - m + 1 .. q - m PROVE s[x] \in S
    BY Zenon
  <2>1. x \in 1 .. n - m /\ m + x - 1 \in m .. n - 1
    OBVIOUS
  <2> QED
    BY <2>1, <1>1, <1>4, Zenon
<1>6. /\ u \in Seq(S)
      /\ Len(u) = q - p
      /\ \A x \in 1 .. q - p : u[x] = s[p - m + x]
  <2> DEFINE i == p - m + 1
             j == q - m
  <2>1. i \in Int /\ j \in Int /\ j - i + 1 = q - p
    OBVIOUS
  <2>2. \A x \in 1 .. q - p : i + x - 1 = p - m + x
    OBVIOUS
  <2>3. i <= j => q - p = j - i + 1
    OBVIOUS
  <2>4. ~(i <= j) => q - p = 0
    OBVIOUS
  <2>5. \A x \in i .. j : s[x] \in S
    BY <1>5, Zenon
  <2>6. u = SubSeq(s, i, j)
    BY Zenon
  <2> HIDE DEF i, j, u
  <2>7. /\ SubSeq(s, i, j) \in Seq(S)
        /\ Len(SubSeq(s, i, j)) = IF i <= j THEN j - i + 1 ELSE 0
        /\ \A x \in 1 .. j - i + 1 : SubSeq(s, i, j)[x] = s[i + x - 1]
    BY <2>1, <2>5, SubSeqProperties
  <2> QED
    BY <2>1, <2>2, <2>3, <2>4, <2>6, <2>7, Zenon
<1> HIDE DEF u
<1>7. Len(u) = Len(t)
  BY <1>3, <1>6, Zenon
<1>8. \A x \in 1 .. Len(t) : t[x] = u[x]
  <2> SUFFICES ASSUME NEW x \in 1 .. q - p PROVE t[x] = u[x]
    BY <1>3, Zenon
  <2>1. p - m + x \in 1 .. n - m /\ m + (p - m + x) - 1 = p + x - 1
    OBVIOUS
  <2>2. u[x] = s[p - m + x]
    BY <1>6, Zenon
  <2>3. s[p - m + x] = b[m + (p - m + x) - 1]
    BY <2>1, <1>4, Zenon
  <2> QED
    BY <2>1, <2>2, <2>3, <1>3, Zenon
<1>9. t = u
  BY <1>2, <1>6, <1>7, <1>8, SeqEqual, Zenon
<1> QED
  BY <1>9, Zenon DEF t, u, s

(* Its first and its last part.                                            *)
LEMMA CutPrefix ==
  ASSUME NEW b, NEW m \in Nat, NEW q \in Nat, NEW n \in Nat, m <= q, q <= n
  PROVE  SubSeq(Cut(b, m, n), 1, q - m) = Cut(b, m, q)
<1>1. \A x, y \in Nat : m <= x /\ x <= y /\ y <= n
         => SubSeq(Cut(b, m, n), x - m + 1, y - m) = Cut(b, x, y)
  BY CutSubSeq, ZenonT(30)
<1>2. m <= m /\ m - m + 1 = 1
  OBVIOUS
<1>3. SubSeq(Cut(b, m, n), m - m + 1, q - m) = Cut(b, m, q)
  BY <1>1, <1>2, Zenon
<1> QED
  BY <1>2, <1>3, Zenon

LEMMA CutSuffix ==
  ASSUME NEW b, NEW m \in Nat, NEW p \in Nat, NEW n \in Nat, m <= p, p <= n
  PROVE  SubSeq(Cut(b, m, n), p - m + 1, n - m) = Cut(b, p, n)
<1>1. \A x, y \in Nat : m <= x /\ x <= y /\ y <= n
         => SubSeq(Cut(b, m, n), x - m + 1, y - m) = Cut(b, x, y)
  BY CutSubSeq, ZenonT(30)
<1>2. n <= n
  OBVIOUS
<1> QED
  BY <1>1, <1>2, Zenon

(* The head and the tail of a cut.                                         *)
LEMMA CutHeadTail ==
  ASSUME NEW b, NEW m \in Nat, NEW n \in Nat, m < n
  PROVE  /\ Cut(b, m, n) # <<>>
         /\ Head(Cut(b, m, n)) = b[m]
         /\ Tail(Cut(b, m, n)) = Cut(b, m + 1, n)
<1> DEFINE S == {b[x] : x \in m .. n - 1}
           s == Cut(b, m, n)
           t == Cut(b, m + 1, n)
           u == Tail(s)
<1>1. m <= n /\ \A x \in m .. n - 1 : b[x] \in S
  OBVIOUS
<1> HIDE DEF S
<1>2. s \in Seq(S) /\ t \in Seq(S)
  BY <1>1, CutIsSeq
<1>3. Len(s) = n - m /\ \A i \in 1 .. n - m : s[i] = b[m + i - 1]
  BY <1>1, CutElements, Zenon
<1>4. Len(t) = n - m - 1 /\ \A i \in 1 .. n - m - 1 : t[i] = b[m + i]
  BY DEF Cut
<1> HIDE DEF s, t
<1>5. s # <<>> /\ Head(s) = b[m]
  BY <1>2, <1>3
<1>6. /\ u \in Seq(S) /\ Len(u) = Len(s) - 1
      /\ \A i \in 1 .. Len(u) : u[i] = s[i + 1]
  BY <1>2, <1>5, HeadTailProperties, Zenon
<1> HIDE DEF u
<1>7. Len(t) = Len(u)
  BY <1>3, <1>4, <1>6, Zenon
<1>8. \A i \in 1 .. Len(t) : t[i] = u[i]
  <2> SUFFICES ASSUME NEW i \in 1 .. n - m - 1 PROVE t[i] = u[i]
    BY <1>4, Zenon
  <2>1. i + 1 \in 1 .. n - m /\ m + (i + 1) - 1 = m + i
    OBVIOUS
  <2> QED
    BY <2>1, <1>3, <1>4, <1>6, <1>7, Zenon
<1>9. t = u
  BY <1>2, <1>6, <1>7, <1>8, SeqEqual, Zenon
<1> QED
  BY <1>5, <1>9, Zenon DEF s, t, u

(* The positions are numbers in the order of PointersLive.                 *)
LEMMA Positions ==
  ASSUME Inv
  PROVE  /\ front \in Nat /\ back \in Nat /\ w \in Nat /\ f \in Nat
         /\ front <= w /\ w <= f /\ f <= back /\ w <= back
BY DEF Inv, TypeOK, PointersLive, Position

(* The constructor leaves an empty batch queue.                            *)
LEMMA InitRefines == Init => Abstract!Init
<1> SUFFICES ASSUME Init PROVE Abstract!Init
  BY Zenon
<1>1. Cut(buf, front, w) = <<>> /\ Cut(buf, w, back) = <<>>
  BY DEF Init, Cut
<1> QED
  BY <1>1 DEF Init, Abstract!Init, NULL

(* A written item joins the batch; a completed one moves the boundary.     *)
LEMMA WriteRefines ==
  ASSUME Inv, NEW item \in Item, Write(item)
  PROVE  Abstract!Write(item)
<1>1. /\ front' = front /\ w' = w /\ back' = back + 1 /\ c' = c /\ out' = out
      /\ f' = IF item.incomplete THEN f ELSE back + 1
      /\ \A i \in front .. back - 1 : buf'[i] = buf[i]
      /\ buf'[back] = item
  BY Positions DEF Write
<1>2. Cut(buf, w, back)' = Append(Cut(buf, w, back), item)
  <2>1. Cut(buf', w, back + 1) = Append(Cut(buf', w, back), buf'[back])
    BY Positions, CutAppend, Zenon
  <2>2. \A i \in w .. back - 1 : buf'[i] = buf[i]
    BY <1>1, Positions
  <2>3. Cut(buf', w, back) = Cut(buf, w, back)
    <3>1. \A i \in 1 .. back - w :
             buf'[w + i - 1] = buf[w + i - 1]
      BY <2>2, Positions
    <3> QED
      BY <3>1, Zenon DEF Cut
  <2> QED
    BY <1>1, <2>1, <2>3, Zenon
<1>3. Cut(buf, front, w)' = Cut(buf, front, w)
  <2>1. \A i \in front .. w - 1 : buf'[i] = buf[i]
    BY <1>1, Positions
  <2>2. Cut(buf', front, w) = Cut(buf, front, w)
    <3>1. \A i \in 1 .. w - front :
             buf'[front + i - 1] = buf[front + i - 1]
      BY <2>1, Positions
    <3> QED
      BY <3>1, Zenon DEF Cut
  <2> QED
    BY <1>1, <2>2, Zenon
<1>4. (f - w)' = IF item.incomplete THEN f - w ELSE Len(Cut(buf, w, back)) + 1
  <2>1. Len(Cut(buf, w, back)) = back - w
    BY Positions, CutElements, Zenon
  <2> QED
    BY <1>1, <2>1, Positions
<1> QED
  BY <1>1, <1>2, <1>3, <1>4, Zenon DEF Abstract!Write

(* Only a part that the next flush would not publish is taken back.        *)
LEMMA UnwriteRefines ==
  ASSUME Inv, Unwrite
  PROVE  Abstract!Unwrite
<1>1. /\ front' = front /\ w' = w /\ back' = back - 1 /\ c' = c /\ out' = out
      /\ f' = f /\ f < back
      /\ \A i \in front .. back - 2 : buf'[i] = buf[i]
  BY Positions DEF Unwrite
<1>2. Len(Cut(buf, w, back)) = back - w
  BY Positions, CutElements, Zenon
<1>3. Cut(buf, w, back)' = SubSeq(Cut(buf, w, back), 1, back - w - 1)
  <2> DEFINE q == back - 1
  <2>1. q \in Nat /\ w <= q /\ q <= back /\ q - w = back - w - 1
    BY <1>1, Positions
  <2>2. \A i \in w .. q - 1 : buf'[i] = buf[i]
    BY <1>1, Positions
  <2>3. back' = q
    BY <1>1, Zenon
  <2> HIDE DEF q
  <2>4. SubSeq(Cut(buf, w, back), 1, q - w) = Cut(buf, w, q)
    BY <2>1, Positions, CutPrefix, Zenon
  <2>5. Cut(buf', w, q) = Cut(buf, w, q)
    <3>1. \A i \in 1 .. q - w :
             buf'[w + i - 1] = buf[w + i - 1]
      BY <2>2, <2>1, Positions
    <3> QED
      BY <3>1, Zenon DEF Cut
  <2> QED
    BY <1>1, <2>1, <2>3, <2>4, <2>5, Zenon
<1>4. Cut(buf, front, w)' = Cut(buf, front, w)
  <2>1. \A i \in front .. w - 1 : buf'[i] = buf[i]
    BY <1>1, Positions
  <2>2. Cut(buf', front, w) = Cut(buf, front, w)
    <3>1. \A i \in 1 .. w - front :
             buf'[front + i - 1] = buf[front + i - 1]
      BY <2>1, Positions
    <3> QED
      BY <3>1, Zenon DEF Cut
  <2> QED
    BY <1>1, <2>2, Zenon
<1>5. back - w > f - w
  BY <1>1, Positions
<1> QED
  BY <1>1, <1>2, <1>3, <1>4, <1>5, Zenon DEF Abstract!Unwrite

(* Moving w to f publishes exactly the completed items, and c is not NULL  *)
(* afterwards: this is the step of flush that takes effect, whichever way  *)
(* the cas went.                                                           *)
LEMMA PublishRefines ==
  ASSUME Inv, w # f, c' = f, w' = f, UNCHANGED <<buf, front, back, f, out>>
  PROVE  Abstract!Flush
<1>1. Len(Cut(buf, w, back)) = back - w
  BY Positions, CutElements, Zenon
<1>2. f \in Nat /\ f - w > 0 /\ f # NULL
  BY Positions DEF Inv, TypeOK, Position
<1>3. SubSeq(Cut(buf, w, back), 1, f - w) = Cut(buf, w, f)
  BY Positions, CutPrefix, ZenonT(30)
<1>4. SubSeq(Cut(buf, w, back), f - w + 1, back - w) = Cut(buf, f, back)
  BY Positions, CutSuffix, ZenonT(30)
<1>5. Cut(buf, front, f) = Cut(buf, front, w) \o Cut(buf, w, f)
  BY Positions, CutConcat, ZenonT(30)
<1>6. f - f = 0
  BY Positions
<1> QED
  BY <1>1, <1>2, <1>3, <1>4, <1>5, <1>6, Zenon DEF Abstract!Flush

(* Finding nothing to prefetch is falling asleep, or staying asleep;       *)
(* finding something changes nothing the users can see.                    *)
LEMMA CheckReadRefines ==
  ASSUME Inv, CheckRead
  PROVE  Abstract!Sleep \/ UNCHANGED Abstract!vars
<1>1. UNCHANGED <<buf, front, back, w, f, out>>
  BY Zenon DEF CheckRead
<1>2. CASE c = front
  <2>1. c' = NULL /\ w = front
    BY <1>2, Zenon DEF CheckRead, Inv, TypeOK, Position, PointersLive
  <2>2. Cut(buf, front, w) = <<>>
    BY <2>1, Positions DEF Cut
  <2> QED
    BY <1>1, <2>1, <2>2, Zenon DEF Abstract!Sleep
<1>3. CASE c # front
  <2>1. c' = c
    BY <1>3, Zenon DEF CheckRead
  <2> QED
    BY <1>1, <2>1, Zenon DEF Abstract!vars
<1> QED
  BY <1>2, <1>3, Zenon

(* Popping a prefetched item is reading the oldest published one.          *)
LEMMA ReadRefines ==
  ASSUME Inv, Read
  PROVE  Abstract!Read
<1>1. /\ front < w /\ c # NULL
  BY Positions DEF Read, Prefetched, Inv, TypeOK, Position, PointersLive,
                   AsleepMeansDrained
<1>2. /\ front' = front + 1 /\ out' = buf[front]
      /\ UNCHANGED <<back, w, f, c>>
      /\ \A i \in front + 1 .. back - 1 : buf'[i] = buf[i]
  BY Zenon DEF Read
<1>3. /\ Cut(buf, front, w) # <<>>
      /\ Head(Cut(buf, front, w)) = buf[front]
      /\ Tail(Cut(buf, front, w)) = Cut(buf, front + 1, w)
  BY <1>1, Positions, CutHeadTail, Zenon
<1>4. Cut(buf, front, w)' = Cut(buf, front + 1, w)
  <2>1. \A i \in front + 1 .. w - 1 : buf'[i] = buf[i]
    BY <1>2, Positions
  <2>2. front + 1 \in Nat
    BY Positions
  <2>3. Cut(buf', front + 1, w) = Cut(buf, front + 1, w)
    <3>1. \A i \in 1 .. w - (front + 1) :
             buf'[front + 1 + i - 1] = buf[front + 1 + i - 1]
      BY <2>1, Positions
    <3> QED
      BY <3>1, Zenon DEF Cut
  <2> QED
    BY <1>2, <2>3, Zenon
<1>5. Cut(buf, w, back)' = Cut(buf, w, back)
  <2>1. \A i \in w .. back - 1 : buf'[i] = buf[i]
    BY <1>1, <1>2, Positions
  <2>2. Cut(buf', w, back) = Cut(buf, w, back)
    <3>1. \A i \in 1 .. back - w :
             buf'[w + i - 1] = buf[w + i - 1]
      BY <2>1, Positions
    <3> QED
      BY <3>1, Zenon DEF Cut
  <2> QED
    BY <1>2, <2>2, Zenon
<1> QED
  BY <1>1, <1>2, <1>3, <1>4, <1>5, Zenon DEF Abstract!Read

(* Every step of the queue is a step of the batch queue or none.           *)
LEMMA NextRefines == Inv /\ [Next]_vars => [Abstract!Next]_(Abstract!vars)
<1> SUFFICES ASSUME Inv, [Next]_vars
             PROVE  Abstract!Next \/ UNCHANGED Abstract!vars
  BY Zenon
<1>1. CASE UNCHANGED vars
  BY <1>1, Zenon DEF vars, Abstract!vars
<1>2. CASE \E item \in Item : Write(item)
  BY <1>2, WriteRefines, Zenon DEF Abstract!Next, Item, Abstract!Item
<1>3. CASE Unwrite
  BY <1>3, UnwriteRefines, Zenon DEF Abstract!Next
<1>4. CASE FlushAwake
  <2>1. w # f /\ c' = f /\ w' = f /\ UNCHANGED <<buf, front, back, f, out>>
    BY <1>4, Zenon DEF FlushAwake
  <2> QED
    BY <2>1, PublishRefines, Zenon DEF Abstract!Next
<1>5. CASE FlushAsleep
  BY <1>5, Zenon DEF FlushAsleep, Abstract!vars
<1>6. CASE FlushSet
  <2>1. w # f
    BY <1>6, Zenon DEF FlushSet, Inv, AsleepMeansDrained
  <2>2. c' = f /\ w' = f /\ UNCHANGED <<buf, front, back, f, out>>
    BY <1>6, Zenon DEF FlushSet
  <2> QED
    BY <2>1, <2>2, PublishRefines, Zenon DEF Abstract!Next
<1>7. CASE CheckRead
  BY <1>7, CheckReadRefines, Zenon DEF Abstract!Next
<1>8. CASE Read
  BY <1>8, ReadRefines, Zenon DEF Abstract!Next
<1> QED
  BY <1>1, <1>2, <1>3, <1>4, <1>5, <1>6, <1>7, <1>8, Zenon
     DEF Next, WriterNext, ReaderNext

(* ypipe_t, with its three-word lock-free protocol, behaves as a FIFO of   *)
(* whole batches with a sleeping reader, for any payloads and any number   *)
(* of items.                                                               *)
THEOREM Refinement == Spec => ImplementsBatchQueue
BY InvHolds, InitRefines, NextRefines, PTL
   DEF Spec, ImplementsBatchQueue, Abstract!Spec
============================================================================
