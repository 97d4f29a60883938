------------------------- MODULE MsgCounts_proofs -------------------------
(* The counters of contents, and with them of everything: each is freed by *)
(* the last reference.                                                     *)
EXTENDS Msg_proofs


\* The references to a content can be counted.
LEMMA RefsFinite ==
    ASSUME CardFacts, NEW x
    PROVE  /\ Refs(x) \subseteq Slots \X Slots
           /\ IsFiniteSet(Refs(x)) /\ Cardinality(Refs(x)) \in Nat
           /\ Cardinality(Refs(x)) = 0 <=> Refs(x) = {}
  <1>1. Refs(x) \subseteq Slots \X Slots
    BY Zenon DEF Refs
  <1>2. IsFiniteSet(Slots \X Slots)
    BY MsgAssumption, CardProduct, Zenon
  <1>3. IsFiniteSet(Refs(x))
    BY <1>1, <1>2, CardSubset, Zenon
  <1> QED
    BY <1>1, <1>3, CardType, CardEmpty, Zenon

\* A step that leaves the references and the counter of a content alone.
LEMMA CountSame ==
    ASSUME NEW x \in Contents, CountOK(x), Refs(x)' = Refs(x), Freeing(x)' = Freeing(x),
           refcnt'[x] = refcnt[x], \A p \in Refs(x) : shared'[p[1]] = shared[p[1]]
    PROVE  CountOK(x)'
  BY Zenon DEF CountOK

\* A reference that moves from one message to another.
LEMMA CountMoves ==
    ASSUME CardFacts, NEW x \in Contents, CountOK(x), NEW a \in Refs(x),
           NEW b \in Slots \X Slots, b \notin Refs(x),
           Refs(x)' = (Refs(x) \ {a}) \cup {b}, Freeing(x)' = Freeing(x),
           refcnt'[x] = refcnt[x], shared'[b[1]] = shared[a[1]],
           \A p \in Refs(x) \ {a} : shared'[p[1]] = shared[p[1]]
    PROVE  CountOK(x)'
  <1>1. Cardinality(Refs(x)') = Cardinality(Refs(x)) /\ Refs(x)' # {}
    BY RefsFinite, Swap
  <1>2. CASE /\ Refs(x) # {} /\ Freeing(x) = {} /\ refcnt[x] = Cardinality(Refs(x))
             /\ \A p \in Refs(x) : shared[p[1]]
    <2>1. \A p \in Refs(x)' : shared'[p[1]]
      BY <1>2, Zenon
    <2> QED
      BY <1>1, <1>2, <2>1, Zenon DEF CountOK
  <1>3. CASE /\ refcnt[x] # -1 /\ Freeing(x) = {}
             /\ \E p \in Slots \X Slots : Refs(x) = {p} /\ ~shared[p[1]]
    <2>1. Refs(x)' = {b} /\ ~shared'[b[1]]
      BY <1>3, Zenon
    <2> QED
      BY <1>3, <2>1, Zenon DEF CountOK
  <1> QED
    BY <1>2, <1>3, Zenon DEF CountOK

\* Somebody refers to the content: which of the cases it is depends on what
\* that message knows.
LEMMA CountHeld ==
    ASSUME NEW x \in Contents, CountOK(x), NEW a \in Refs(x)
    PROVE  /\ Freeing(x) = {}
           /\ shared[a[1]] => /\ refcnt[x] = Cardinality(Refs(x))
                              /\ \A p \in Refs(x) : shared[p[1]]
           /\ ~shared[a[1]] => Refs(x) = {a} /\ refcnt[x] # -1
  BY Zenon DEF CountOK

\* Thread t gives up the n references D that message s has to content x.
Drops(x, t, D, n, s) ==
    /\ D \in SUBSET Refs(x) /\ D # {} /\ n = Cardinality(D)
    /\ \A p \in D : p[1] = s
    /\ \A p \in Refs(x) \ D : p[1] # s
    /\ Refs(x)' = Refs(x) \ D
    /\ refcnt'[x] = IF shared[s] THEN refcnt[x] - n ELSE refcnt[x]
    /\ \A r \in Slots : r # s => shared'[r] = shared[r]
    /\ IF shared[s] /\ refcnt[x] # n THEN last' = last ELSE last' = [last EXCEPT ![t] = x]

\* It frees the content if these were all.
LEMMA CountDrops ==
    ASSUME CardFacts, NEW x \in Contents, MsgTypeOK, CountOK(x), NEW t \in Threads,
           NEW D, NEW n, NEW s \in Slots, Drops(x, t, D, n, s)
    PROVE  CountOK(x)'
  <1> USE DEF Drops
  <1>0. PICK a \in D : TRUE
    BY Zenon
  <1>1. /\ Freeing(x) = {}
        /\ shared[s] => /\ refcnt[x] = Cardinality(Refs(x))
                        /\ \A p \in Refs(x) : shared[p[1]]
        /\ ~shared[s] => Refs(x) = {a} /\ refcnt[x] # -1
    BY <1>0, CountHeld
  <1>2. /\ IsFiniteSet(D) /\ n \in Nat /\ IsFiniteSet(Refs(x) \ D)
        /\ Cardinality(Refs(x) \ D) = Cardinality(Refs(x)) - n
        /\ Cardinality(Refs(x)) \in Nat
    <2>1. IsFiniteSet(D)
      BY RefsFinite, CardSubset, Zenon
    <2>2. Refs(x) \cap D = D
      BY Zenon
    <2>3. IsFiniteSet(Refs(x)) /\ Cardinality(Refs(x)) \in Nat
      BY RefsFinite, Zenon
    <2>4. /\ IsFiniteSet(Refs(x) \ D)
          /\ Cardinality(Refs(x) \ D) = Cardinality(Refs(x)) - Cardinality(Refs(x) \cap D)
      BY <2>3, CardDifference, Zenon
    <2>5. Cardinality(D) \in Nat
      BY <2>1, CardType, Zenon
    <2> QED
      BY <2>1, <2>2, <2>3, <2>4, <2>5, Zenon
  <1>3. Cardinality(Refs(x) \ D) = 0 <=> Refs(x) \ D = {}
    BY <1>2, CardEmpty, Zenon
  <1>4. CASE shared[s] /\ refcnt[x] # n
    <2>1. Refs(x)' # {} /\ refcnt'[x] = Cardinality(Refs(x)')
      BY <1>1, <1>2, <1>3, <1>4, Zenon
    <2>2. \A p \in Refs(x)' : shared'[p[1]]
      BY <1>1, <1>4, RefsFinite, Zenon
    <2>3. Freeing(x)' = {}
      BY <1>1, <1>4 DEF Freeing
    <2> QED
      BY <2>1, <2>2, <2>3, Zenon DEF CountOK
  <1>5. CASE ~(shared[s] /\ refcnt[x] # n)
    <2>1. Refs(x)' = {}
      <3>1. CASE shared[s]
        BY <1>1, <1>2, <1>3, <1>5, <3>1
      <3>2. CASE ~shared[s]
        BY <1>0, <1>1, <3>2, Zenon
      <3> QED
        BY <3>1, <3>2, Zenon
    <2>2. refcnt'[x] # -1
      BY <1>1, <1>2, <1>5
    <2>3. Freeing(x)' = {t}
      BY <1>1, <1>5 DEF Freeing, MsgTypeOK
    <2> QED
      BY <2>1, <2>2, <2>3, Zenon DEF CountOK
  <1> QED
    BY <1>4, <1>5, Zenon

\* InitSize leaves a content's counter equal to its references.
LEMMA CountInitSize ==
    ASSUME CardFacts, MsgInv, NEW x \in Contents,
           NEW t \in Threads, NEW s \in Slots, NEW c \in Contents, InitSize(t, s, c)
    PROVE  CountOK(x)'
  <1> USE MsgAssumption DEF msgs, counters, ops, args, dist, msgVars
  <1>0. MsgTypeOK /\ CountOK(x) /\ \A u \in Threads : OpOK(u) /\ LeftOK(u)
    BY Zenon DEF MsgInv
  <1>1. /\ Freeing(x)' = Freeing(x) /\ shared' = shared /\ content[s] = None
        /\ Shares(s) = {s} /\ \A s1 \in Slots : Shares(s1)' = Shares(s1)
    BY <1>0 DEF Freeing, InitSize, Is, Shares, OpOK, Free
  <1>2. CASE c # x
    <2>1. Refs(x)' = Refs(x)
      BY <1>0, <1>1, <1>2 DEF Refs, InitSize, MsgTypeOK
    <2>2. refcnt'[x] = refcnt[x]
      BY <1>0, <1>2, Zenon DEF InitSize, MsgTypeOK
    <2> QED
      BY <1>0, <1>1, <2>1, <2>2, CountSame, Zenon
  <1>3. CASE c = x
    <2>1. Refs(x) = {} /\ Freeing(x) = {}
      <3>1. refcnt[x] = -1
        BY <1>3, Zenon DEF InitSize
      <3> QED
        BY <1>0, <3>1, RefsFinite DEF CountOK
    <2>2. Refs(x)' = {<<s, s>>}
      BY <1>0, <1>1, <1>3, <2>1 DEF Refs, InitSize, MsgTypeOK
    <2>3. refcnt'[x] = 0 /\ ~shared'[s]
      BY <1>0, <1>1, <1>3, Zenon DEF InitSize, MsgTypeOK, MsgInv
    <2>4. \E p \in Slots \X Slots : Refs(x)' = {p} /\ ~shared'[p[1]]
      <3>1. <<s, s>> \in Slots \X Slots /\ <<s, s>>[1] = s
        BY Zenon
      <3> QED
        BY <2>2, <2>3, <3>1, Zenon
    <2> QED
      BY <1>1, <2>1, <2>3, <2>4 DEF CountOK
  <1> QED
    BY <1>2, <1>3, Zenon

\* SetMetadata leaves a content's counter equal to its references.
LEMMA CountSetMetadata ==
    ASSUME MsgInv, NEW x \in Contents,
           NEW t \in Threads, NEW s \in Slots, NEW m \in Metas, SetMetadata(t, s, m)
    PROVE  CountOK(x)'
  <1> USE MsgAssumption DEF msgs, counters, ops, args, dist, msgVars
  <1>0. MsgTypeOK /\ CountOK(x) /\ \A u \in Threads : OpOK(u) /\ LeftOK(u)
    BY Zenon DEF MsgInv
  <1>1. /\ Freeing(x)' = Freeing(x) /\ content' = content /\ shared' = shared
        /\ refcnt' = refcnt
    BY Zenon DEF Freeing, SetMetadata
  <1>2. \A s1 \in Slots : Shares(s1)' = Shares(s1)
    BY <1>0, Zenon DEF Shares, MsgTypeOK, OpOK, Free, SetMetadata
  <1>3. Refs(x)' = Refs(x)
    BY <1>1, <1>2, Zenon DEF Refs
  <1> QED
    BY <1>0, <1>1, <1>3, CountSame, Zenon

\* Pass leaves a content's counter equal to its references.
LEMMA CountPass ==
    ASSUME CardFacts, MsgInv, NEW x \in Contents,
           NEW t \in Threads, NEW s \in Slots, NEW d \in Slots, Pass(t, s, d)
    PROVE  CountOK(x)'
  <1> USE MsgAssumption DEF msgs, counters, ops, args, dist, msgVars
  <1>0. MsgTypeOK /\ CountOK(x) /\ \A u \in Threads : OpOK(u) /\ LeftOK(u)
    BY Zenon DEF MsgInv
  <1>1. /\ Freeing(x)' = Freeing(x) /\ content[d] = None /\ s # d
        /\ Shares(s) = {s} /\ Shares(d) = {d}
        /\ \A s1 \in Slots : Shares(s1)' = Shares(s1)
    BY <1>0 DEF Freeing, Pass, Is, Free, Busy, Shares, OpOK
  <1>2. CASE content[s] # x
    <2>1. Refs(x)' = Refs(x)
      BY <1>0, <1>1, <1>2 DEF Refs, Pass, MsgTypeOK
    <2>2. \A p \in Refs(x) : shared'[p[1]] = shared[p[1]]
      BY <1>0, <1>1, <1>2, Zenon DEF Refs, Pass, MsgTypeOK
    <2> QED
      BY <1>0, <1>1, <2>1, <2>2, CountSame, Zenon DEF Pass
  <1>3. CASE content[s] = x
    <2>1. <<s, s>> \in Refs(x) /\ <<d, d>> \in Slots \X Slots /\ <<d, d>> \notin Refs(x)
      BY <1>1, <1>3, Zenon DEF Refs
    <2>2. Refs(x)' = (Refs(x) \ {<<s, s>>}) \cup {<<d, d>>}
      BY <1>0, <1>1, <1>3 DEF Refs, Pass, MsgTypeOK
    <2>3. /\ shared'[d] = shared[s]
          /\ \A p \in Refs(x) \ {<<s, s>>} : shared'[p[1]] = shared[p[1]]
      BY <1>0, <1>1, <1>3 DEF Refs, Pass, MsgTypeOK
    <2> QED
      BY <1>0, <1>1, <2>1, <2>2, <2>3, CountMoves, Zenon DEF Pass
  <1> QED
    BY <1>2, <1>3, Zenon

\* Close leaves a content's counter equal to its references.
LEMMA CountClose ==
    ASSUME MsgInv, NEW x \in Contents, NEW t \in Threads, NEW s \in Slots, Close(t, s)
    PROVE  CountOK(x)'
  <1> USE MsgAssumption DEF msgs, counters, ops, args, dist, msgVars
  <1>0. MsgTypeOK /\ CountOK(x) /\ \A u \in Threads : OpOK(u) /\ LeftOK(u)
    BY Zenon DEF MsgInv
  <1>1. /\ Freeing(x)' = Freeing(x) /\ content' = content /\ shared' = shared
        /\ refcnt' = refcnt
    BY Zenon DEF Freeing, Close, Starts
  <1>2. \A s1 \in Slots : Shares(s1)' = Shares(s1)
    BY <1>0, Zenon DEF Shares, MsgTypeOK, OpOK, Free, Close, Starts
  <1>3. Refs(x)' = Refs(x)
    BY <1>1, <1>2, Zenon DEF Refs
  <1> QED
    BY <1>0, <1>1, <1>3, CountSame, Zenon

\* Move leaves a content's counter equal to its references.
LEMMA CountMove ==
    ASSUME MsgInv, NEW x \in Contents,
           NEW t \in Threads, NEW s \in Slots, NEW d \in Slots, Move(t, s, d)
    PROVE  CountOK(x)'
  <1> USE MsgAssumption DEF msgs, counters, ops, args, dist, msgVars
  <1>0. MsgTypeOK /\ CountOK(x) /\ \A u \in Threads : OpOK(u) /\ LeftOK(u)
    BY Zenon DEF MsgInv
  <1>1. /\ Freeing(x)' = Freeing(x) /\ content' = content /\ shared' = shared
        /\ refcnt' = refcnt
    BY Zenon DEF Freeing, Move, Starts
  <1>2. \A s1 \in Slots : Shares(s1)' = Shares(s1)
    BY <1>0, Zenon DEF Shares, MsgTypeOK, OpOK, Free, Move, Starts
  <1>3. Refs(x)' = Refs(x)
    BY <1>1, <1>2, Zenon DEF Refs
  <1> QED
    BY <1>0, <1>1, <1>3, CountSame, Zenon

\* Copy leaves a content's counter equal to its references.
LEMMA CountCopy ==
    ASSUME MsgInv, NEW x \in Contents,
           NEW t \in Threads, NEW s \in Slots, NEW d \in Slots, Copy(t, s, d)
    PROVE  CountOK(x)'
  <1> USE MsgAssumption DEF msgs, counters, ops, args, dist, msgVars
  <1>0. MsgTypeOK /\ CountOK(x) /\ \A u \in Threads : OpOK(u) /\ LeftOK(u)
    BY Zenon DEF MsgInv
  <1>1. /\ Freeing(x)' = Freeing(x) /\ content' = content /\ shared' = shared
        /\ refcnt' = refcnt
    BY Zenon DEF Freeing, Copy, Starts
  <1>2. \A s1 \in Slots : Shares(s1)' = Shares(s1)
    BY <1>0, Zenon DEF Shares, MsgTypeOK, OpOK, Free, Copy, Starts
  <1>3. Refs(x)' = Refs(x)
    BY <1>1, <1>2, Zenon DEF Refs
  <1> QED
    BY <1>0, <1>1, <1>3, CountSame, Zenon

\* Send leaves a content's counter equal to its references.
LEMMA CountSend ==
    ASSUME MsgInv, NEW x \in Contents,
           NEW t \in Threads, NEW s \in Slots, NEW pipes \in SUBSET {d \in Slots : Owner[d] # t}, Send(t, s, pipes)
    PROVE  CountOK(x)'
  <1> USE MsgAssumption DEF msgs, counters, ops, args, dist, msgVars
  <1>0. MsgTypeOK /\ CountOK(x) /\ \A u \in Threads : OpOK(u) /\ LeftOK(u)
    BY Zenon DEF MsgInv
  <1>1. /\ Freeing(x)' = Freeing(x) /\ content' = content /\ shared' = shared
        /\ refcnt' = refcnt
    BY Zenon DEF Freeing, Send, Starts
  <1>2. \A s1 \in Slots : Shares(s1)' = Shares(s1)
    BY <1>0, ZenonT(30) DEF Shares, MsgTypeOK, OpOK, Free, Send, Starts
  <1>3. Refs(x)' = Refs(x)
    BY <1>1, <1>2, Zenon DEF Refs
  <1> QED
    BY <1>0, <1>1, <1>3, CountSame, Zenon

\* CloseContent leaves a content's counter equal to its references.
LEMMA CountCloseContent ==
    ASSUME CardFacts, MsgInv, NEW x \in Contents, NEW t \in Threads, CloseContent(t)
    PROVE  CountOK(x)'
  <1> USE MsgAssumption DEF msgs, counters, ops, args, dist, msgVars
  <1>0. MsgTypeOK /\ CountOK(x) /\ \A u \in Threads : OpOK(u) /\ LeftOK(u)
    BY Zenon DEF MsgInv
  <1> DEFINE s == slot[t]
  <1>1. /\ s \in Slots /\ Owner[s] = t /\ at[t] = "content" /\ last[t] = None
        /\ content[s] \in Contents \cup {None} /\ (content[s] = None => ~shared[s])
    BY <1>0, Where, Ranges, Zenon DEF CloseContent, OpOK, MsgInv
  <1>2. Shares(s) = {s} /\ \A s1 \in Slots : Shares(s1)' = Shares(s1)
    BY <1>0, <1>1 DEF Shares, CloseContent, Goto, Frees, MsgTypeOK
  <1>3. content' = [content EXCEPT ![s] = None] /\ shared' = [shared EXCEPT ![s] = FALSE]
    BY Zenon DEF CloseContent
  <1>4. CASE content[s] # x
    <2>1. Refs(x)' = Refs(x) /\ \A p \in Refs(x) : p[1] \in Slots /\ p[1] # s
      BY <1>0, <1>1, <1>2, <1>3, <1>4 DEF Refs, MsgTypeOK
    <2>2. refcnt'[x] = refcnt[x]
      BY <1>0, <1>1, <1>4, Zenon DEF CloseContent, MsgTypeOK
    <2>3. last'[t] # x /\ \A u \in Threads : u # t => last'[u] = last[u]
      BY <1>0, <1>1, <1>4, Zenon DEF CloseContent, Goto, Frees, MsgTypeOK
    <2>4. Freeing(x)' = Freeing(x)
      BY <1>1, <2>3, Zenon DEF Freeing
    <2>5. \A p \in Refs(x) : shared'[p[1]] = shared[p[1]]
      BY <1>0, <1>3, <2>1, Zenon DEF MsgTypeOK
    <2> QED
      BY <1>0, <2>1, <2>2, <2>4, <2>5, CountSame, Zenon
  <1>5. CASE content[s] = x
    <2> DEFINE D == {<<s, s>>}
    <2>1. D \in SUBSET Refs(x) /\ D # {} /\ \A p \in D : p[1] = s
      BY <1>1, <1>2, <1>5 DEF Refs
    <2>2. 1 = Cardinality(D)
      BY CardSingleton, Zenon
    <2>3. ASSUME NEW p \in Refs(x) \ D
          PROVE  p[1] # s
      <3>1. p = <<p[1], p[2]>> /\ p[2] \in Shares(p[1])
        BY DEF Refs
      <3> QED
        BY <1>2, <3>1, Zenon
    <2>4. Refs(x)' = Refs(x) \ D
      <3>1. ASSUME NEW a \in Slots, NEW b \in Slots
            PROVE  <<a, b>> \in Refs(x)' <=> <<a, b>> \in Refs(x) \ D
        <4>1. /\ <<a, b>> \in Refs(x)' <=> content'[a] = x /\ b \in Shares(a)'
              /\ <<a, b>> \in Refs(x) <=> content[a] = x /\ b \in Shares(a)
          BY Zenon DEF Refs
        <4> QED
          BY <1>0, <1>1, <1>2, <1>3, <1>5, <4>1, Zenon DEF MsgTypeOK
      <3>2. Refs(x)' \subseteq Slots \X Slots /\ Refs(x) \subseteq Slots \X Slots
        BY Zenon DEF Refs
      <3> QED
        BY <3>1, <3>2
    <2>5. refcnt'[x] = IF shared[s] THEN refcnt[x] - 1 ELSE refcnt[x]
      BY <1>0, <1>5, Zenon DEF CloseContent, MsgTypeOK
    <2>6. \A r1 \in Slots : r1 # s => shared'[r1] = shared[r1]
      BY <1>0, <1>3, Zenon DEF MsgTypeOK
    <2>7. IF shared[s] /\ refcnt[x] # 1 THEN last' = last ELSE last' = [last EXCEPT ![t] = x]
      BY <1>5, Zenon DEF CloseContent, Goto, Frees
    <2> HIDE DEF D, s
    <2>8. Drops(x, t, D, 1, s)
      BY <2>1, <2>2, <2>3, <2>4, <2>5, <2>6, <2>7, Zenon DEF Drops
    <2> QED
      BY <1>0, <1>1, <2>8, CountDrops, Zenon
  <1> QED
    BY <1>4, <1>5, Zenon

\* FreeContent leaves a content's counter equal to its references.
LEMMA CountFreeContent ==
    ASSUME MsgInv, NEW x \in Contents, NEW t \in Threads, FreeContent(t)
    PROVE  CountOK(x)'
  <1> USE MsgAssumption DEF msgs, counters, ops, args, dist, msgVars
  <1>0. MsgTypeOK /\ CountOK(x) /\ \A u \in Threads : OpOK(u) /\ LeftOK(u)
    BY Zenon DEF MsgInv
  <1>1. /\ last[t] \in Contents /\ last' = [last EXCEPT ![t] = None]
        /\ content' = content /\ shared' = shared
    BY Sources, Zenon DEF FreeContent, Frees
  <1>2. \A s1 \in Slots : Shares(s1)' = Shares(s1)
    BY <1>0, Zenon DEF Shares, MsgTypeOK, FreeContent, Frees
  <1>3. Refs(x)' = Refs(x)
    BY <1>1, <1>2, Zenon DEF Refs
  <1>4. CASE last[t] # x
    <2>1. refcnt'[x] = refcnt[x]
      BY <1>0, <1>4, Zenon DEF FreeContent, MsgTypeOK
    <2>2. Freeing(x)' = Freeing(x)
      BY <1>0, <1>1, <1>4, Zenon DEF Freeing, MsgTypeOK
    <2> QED
      BY <1>0, <1>1, <1>3, <2>1, <2>2, CountSame, Zenon
  <1>5. CASE last[t] = x
    <2>1. t \in Freeing(x)
      BY <1>5, Zenon DEF Freeing
    <2>2. Refs(x) = {} /\ Freeing(x) = {t}
      BY <1>0, <2>1, Zenon DEF CountOK
    <2>3. Freeing(x)' = {}
      BY <1>0, <1>1, <2>2, Zenon DEF Freeing, MsgTypeOK
    <2>4. refcnt'[x] = -1
      BY <1>0, <1>5, Zenon DEF FreeContent, MsgTypeOK
    <2> QED
      BY <1>3, <2>2, <2>3, <2>4, Zenon DEF CountOK
  <1> QED
    BY <1>4, <1>5, Zenon

\* DropMetadata leaves a content's counter equal to its references.
LEMMA CountDropMetadata ==
    ASSUME MsgInv, NEW x \in Contents, NEW t \in Threads, DropMetadata(t)
    PROVE  CountOK(x)'
  <1> USE MsgAssumption DEF msgs, counters, ops, args, dist, msgVars
  <1>0. MsgTypeOK /\ CountOK(x) /\ \A u \in Threads : OpOK(u) /\ LeftOK(u)
    BY Zenon DEF MsgInv
  <1>1. content' = content /\ shared' = shared /\ refcnt' = refcnt
    BY Zenon DEF DropMetadata
  <1>2. \A s1 \in Slots : Shares(s1)' = Shares(s1)
    BY <1>0 DEF Shares, MsgTypeOK, DropMetadata, Goto, Frees, AfterMetadata
  <1>3. Refs(x)' = Refs(x)
    BY <1>1, <1>2, Zenon DEF Refs
  <1>4. last[t] # x /\ last'[t] # x /\ \A u \in Threads : u # t => last'[u] = last[u]
    BY <1>0, Where, Sources, Ranges DEF OpOK, MsgTypeOK, DropMetadata, Goto, Frees, AfterMetadata
  <1>5. Freeing(x)' = Freeing(x)
    BY <1>4, Zenon DEF Freeing
  <1> QED
    BY <1>0, <1>1, <1>3, <1>5, CountSame, Zenon

\* DeleteMetadata leaves a content's counter equal to its references.
LEMMA CountDeleteMetadata ==
    ASSUME MsgInv, NEW x \in Contents, NEW t \in Threads, DeleteMetadata(t)
    PROVE  CountOK(x)'
  <1> USE MsgAssumption DEF msgs, counters, ops, args, dist, msgVars
  <1>0. MsgTypeOK /\ CountOK(x) /\ \A u \in Threads : OpOK(u) /\ LeftOK(u)
    BY Zenon DEF MsgInv
  <1>1. content' = content /\ shared' = shared /\ refcnt' = refcnt
    BY Zenon DEF DeleteMetadata
  <1>2. \A s1 \in Slots : Shares(s1)' = Shares(s1)
    BY <1>0, Zenon DEF Shares, MsgTypeOK, DeleteMetadata, Frees, AfterMetadata
  <1>3. Refs(x)' = Refs(x)
    BY <1>1, <1>2, Zenon DEF Refs
  <1>4. last[t] # x /\ last'[t] # x /\ \A u \in Threads : u # t => last'[u] = last[u]
    BY <1>0, Where, Sources, Ranges DEF OpOK, MsgTypeOK, DeleteMetadata, Frees, AfterMetadata
  <1>5. Freeing(x)' = Freeing(x)
    BY <1>4, Zenon DEF Freeing
  <1> QED
    BY <1>0, <1>1, <1>3, <1>5, CountSame, Zenon

\* CloseDone leaves a content's counter equal to its references.
LEMMA CountCloseDone ==
    ASSUME MsgInv, NEW x \in Contents, NEW t \in Threads, CloseDone(t)
    PROVE  CountOK(x)'
  <1> USE MsgAssumption DEF msgs, counters, ops, args, dist, msgVars
  <1>0. MsgTypeOK /\ CountOK(x) /\ \A u \in Threads : OpOK(u) /\ LeftOK(u)
    BY Zenon DEF MsgInv
  <1>1. /\ Freeing(x)' = Freeing(x) /\ content' = content /\ shared' = shared
        /\ refcnt' = refcnt
    BY Zenon DEF Freeing, CloseDone, Returns
  <1>2. \A s1 \in Slots : Shares(s1)' = Shares(s1)
    BY <1>0, Zenon DEF Shares, MsgTypeOK, OpOK, Free, CloseDone, Returns
  <1>3. Refs(x)' = Refs(x)
    BY <1>1, <1>2, Zenon DEF Refs
  <1> QED
    BY <1>0, <1>1, <1>3, CountSame, Zenon

\* MoveDone leaves a content's counter equal to its references.
LEMMA CountMoveDone ==
    ASSUME CardFacts, MsgInv, NEW x \in Contents, NEW t \in Threads, MoveDone(t)
    PROVE  CountOK(x)'
  <1> USE MsgAssumption DEF msgs, counters, ops, args, dist, msgVars
  <1>0. MsgTypeOK /\ CountOK(x) /\ \A u \in Threads : OpOK(u) /\ LeftOK(u)
    BY Zenon DEF MsgInv
  <1> DEFINE s == slot[t]
  <1> DEFINE f == from[t]
  <1>1. /\ s \in Slots /\ f \in Slots /\ f # s /\ content[s] = None
        /\ Owner[s] = t /\ Owner[f] = t /\ at[t] = "done"
    BY <1>0, Where, Sources, Zenon DEF MoveDone, LeftOK
  <1>2. /\ Freeing(x)' = Freeing(x) /\ refcnt' = refcnt /\ Shares(s) = {s} /\ Shares(f) = {f}
        /\ \A s1 \in Slots : Shares(s1)' = Shares(s1)
    BY <1>0, <1>1, Zenon DEF Freeing, MoveDone, Returns, Shares, MsgTypeOK
  <1>3. /\ content' = [content EXCEPT ![s] = content[f], ![f] = None]
        /\ shared' = [shared EXCEPT ![s] = shared[f], ![f] = FALSE]
    BY Zenon DEF MoveDone
  <1> HIDE DEF s, f
  <1>4. CASE content[f] # x
    <2>1. Refs(x)' = Refs(x)
      BY <1>0, <1>1, <1>2, <1>3, <1>4 DEF Refs, MsgTypeOK
    <2>2. \A p \in Refs(x) : shared'[p[1]] = shared[p[1]]
      BY <1>0, <1>1, <1>2, <1>3, <1>4, Zenon DEF Refs, MsgTypeOK
    <2> QED
      BY <1>0, <1>2, <2>1, <2>2, CountSame, Zenon
  <1>5. CASE content[f] = x
    <2>1. <<f, f>> \in Refs(x) /\ <<s, s>> \in Slots \X Slots /\ <<s, s>> \notin Refs(x)
      BY <1>1, <1>2, <1>5, Zenon DEF Refs
    <2>2. Refs(x)' = (Refs(x) \ {<<f, f>>}) \cup {<<s, s>>}
      BY <1>0, <1>1, <1>2, <1>3, <1>5 DEF Refs, MsgTypeOK
    <2>3. shared'[s] = shared[f]
      BY <1>0, <1>1, <1>3, Zenon DEF MsgTypeOK
    <2>4. ASSUME NEW p \in Refs(x) \ {<<f, f>>}
          PROVE  shared'[p[1]] = shared[p[1]]
      <3>1. /\ p \in Slots \X Slots /\ p = <<p[1], p[2]>>
            /\ content[p[1]] = x /\ p[2] \in Shares(p[1])
        BY DEF Refs
      <3>2. p[1] # f /\ p[1] # s
        BY <1>1, <1>2, <3>1, Zenon
      <3> QED
        BY <1>0, <1>3, <3>1, <3>2, Zenon DEF MsgTypeOK
    <2> QED
      BY <1>0, <1>2, <2>1, <2>2, <2>3, <2>4, CountMoves, Zenon
  <1> QED
    BY <1>4, <1>5, Zenon

\* CopyContent leaves a content's counter equal to its references.
LEMMA CountCopyContent ==
    ASSUME CardFacts, MsgInv, NEW x \in Contents, NEW t \in Threads, CopyContent(t)
    PROVE  CountOK(x)'
  <1> USE MsgAssumption DEF msgs, counters, ops, args, dist, msgVars
  <1>0. MsgTypeOK /\ CountOK(x) /\ \A u \in Threads : OpOK(u) /\ LeftOK(u)
    BY Zenon DEF MsgInv
  <1> DEFINE s == slot[t]
  <1> DEFINE f == from[t]
  <1>1. /\ s \in Slots /\ f \in Slots /\ f # s /\ content[s] = None
        /\ Owner[s] = t /\ Owner[f] = t /\ at[t] = "done"
    BY <1>0, Where, Sources, Zenon DEF CopyContent, LeftOK
  <1>2. /\ Freeing(x)' = Freeing(x) /\ Shares(s) = {s} /\ Shares(f) = {f}
        /\ \A s1 \in Slots : Shares(s1)' = Shares(s1)
    BY <1>0, <1>1, Zenon DEF Freeing, CopyContent, Goto, Shares, MsgTypeOK
  <1>3. /\ content' = [content EXCEPT ![s] = content[f]]
        /\ shared' = [shared EXCEPT ![s] = content[f] # None, ![f] = content[f] # None]
        /\ refcnt' = IF content[f] = None THEN refcnt
                     ELSE [refcnt EXCEPT ![content[f]] = IF shared[f] THEN refcnt[content[f]] + 1 ELSE 2]
    BY Zenon DEF CopyContent
  <1> HIDE DEF s, f
  <1>4. CASE content[f] # x
    <2>1. Refs(x)' = Refs(x)
      BY <1>0, <1>1, <1>2, <1>3, <1>4 DEF Refs, MsgTypeOK
    <2>2. \A p \in Refs(x) : p[1] \in Slots /\ p[1] # s /\ p[1] # f
      BY <1>1, <1>4, Zenon DEF Refs
    <2>3. \A p \in Refs(x) : shared'[p[1]] = shared[p[1]]
      BY <1>0, <1>3, <2>2, Zenon DEF MsgTypeOK
    <2>4. refcnt'[x] = refcnt[x]
      BY <1>0, <1>3, <1>4, Zenon DEF MsgTypeOK
    <2> QED
      BY <1>0, <1>2, <2>1, <2>3, <2>4, CountSame, Zenon
  <1>5. CASE content[f] = x
    <2>1. <<f, f>> \in Refs(x) /\ <<s, s>> \notin Refs(x) /\ <<f, f>>[1] = f
      BY <1>1, <1>2, <1>5, Zenon DEF Refs
    <2>2. Refs(x)' = Refs(x) \cup {<<s, s>>}
      <3>1. ASSUME NEW a \in Slots, NEW b \in Slots
            PROVE  <<a, b>> \in Refs(x)' <=> <<a, b>> \in Refs(x) \cup {<<s, s>>}
        <4>1. /\ <<a, b>> \in Refs(x)' <=> content'[a] = x /\ b \in Shares(a)'
              /\ <<a, b>> \in Refs(x) <=> content[a] = x /\ b \in Shares(a)
              /\ <<a, b>> = <<s, s>> <=> a = s /\ b = s
          BY Zenon DEF Refs
        <4> QED
          BY <1>0, <1>1, <1>2, <1>3, <1>5, <4>1 DEF MsgTypeOK
      <3>2. Refs(x)' \subseteq Slots \X Slots /\ Refs(x) \subseteq Slots \X Slots
        BY Zenon DEF Refs
      <3> QED
        BY <1>1, <3>1, <3>2
    <2>3. /\ Freeing(x) = {}
          /\ shared[f] => /\ refcnt[x] = Cardinality(Refs(x))
                          /\ \A p \in Refs(x) : shared[p[1]]
          /\ ~shared[f] => Refs(x) = {<<f, f>>} /\ refcnt[x] # -1
      BY <1>0, <2>1, CountHeld, Zenon
    <2>4. Cardinality(Refs(x)') = Cardinality(Refs(x)) + 1 /\ Cardinality(Refs(x)) \in Nat
      <3>1. /\ IsFiniteSet(Refs(x)) /\ Cardinality(Refs(x)) \in Nat
        BY RefsFinite, Zenon
      <3>2. Cardinality(Refs(x) \cup {<<s, s>>}) = Cardinality(Refs(x)) + 1
        BY <2>1, <3>1, CardAdd, Zenon
      <3> QED
        BY <2>2, <3>1, <3>2, Zenon
    <2>5. refcnt'[x] = IF shared[f] THEN refcnt[x] + 1 ELSE 2
      BY <1>0, <1>3, <1>5, Zenon DEF MsgTypeOK
    <2>6. refcnt'[x] = Cardinality(Refs(x)')
      <3>1. ~shared[f] => Cardinality(Refs(x)) = 1
        BY <2>3, CardSingleton, Zenon
      <3> QED
        BY <2>3, <2>4, <2>5, <3>1
    <2>7. shared'[s] /\ shared'[f] /\ \A r1 \in Slots : shared[r1] => shared'[r1]
      BY <1>0, <1>1, <1>3, <1>5, Zenon DEF MsgTypeOK
    <2>8. ASSUME NEW p \in Refs(x)'
          PROVE  shared'[p[1]]
      <3>1. CASE p = <<s, s>>
        BY <2>7, <3>1, Zenon
      <3>2. CASE p \in Refs(x)
        <4>1. p[1] \in Slots
          BY <3>2, Zenon DEF Refs
        <4> QED
          BY <2>1, <2>3, <2>7, <3>2, <4>1, Zenon
      <3> QED
        BY <2>2, <3>1, <3>2, Zenon
    <2> QED
      BY <1>2, <2>2, <2>3, <2>6, <2>8, Zenon DEF CountOK
  <1> QED
    BY <1>4, <1>5, Zenon

\* CopyMetadata leaves a content's counter equal to its references.
LEMMA CountCopyMetadata ==
    ASSUME MsgInv, NEW x \in Contents, NEW t \in Threads, CopyMetadata(t)
    PROVE  CountOK(x)'
  <1> USE MsgAssumption DEF msgs, counters, ops, args, dist, msgVars
  <1>0. MsgTypeOK /\ CountOK(x) /\ \A u \in Threads : OpOK(u) /\ LeftOK(u)
    BY Zenon DEF MsgInv
  <1>1. /\ Freeing(x)' = Freeing(x) /\ content' = content /\ shared' = shared
        /\ refcnt' = refcnt
    BY Zenon DEF Freeing, CopyMetadata, Returns
  <1>2. \A s1 \in Slots : Shares(s1)' = Shares(s1)
    BY <1>0, Zenon DEF Shares, MsgTypeOK, OpOK, Free, CopyMetadata, Returns
  <1>3. Refs(x)' = Refs(x)
    BY <1>1, <1>2, Zenon DEF Refs
  <1> QED
    BY <1>0, <1>1, <1>3, CountSame, Zenon

\* AddRefs leaves a content's counter equal to its references.
LEMMA CountAddRefs ==
    ASSUME CardFacts, MsgInv, NEW x \in Contents, NEW t \in Threads, AddRefs(t)
    PROVE  CountOK(x)'
  <1> USE MsgAssumption DEF msgs, counters, ops, args, dist, msgVars
  <1>0. MsgTypeOK /\ CountOK(x) /\ \A u \in Threads : OpOK(u) /\ LeftOK(u)
    BY Zenon DEF MsgInv
  <1> DEFINE s == slot[t]
  <1> DEFINE n == Cardinality(todo[t])
  <1>1. /\ s \in Slots /\ Owner[s] = t /\ at[t] = "add_refs" /\ content[s] \in Contents
        /\ todo[t] \in SUBSET Slots /\ failed[t] = {} /\ s \notin todo[t]
    BY <1>0, Where, Sources DEF AddRefs, OpOK, MsgTypeOK
  <1>2. n \in Nat /\ IsFiniteSet(todo[t])
    BY <1>1, Counted, Zenon
  <1>3. /\ Freeing(x)' = Freeing(x) /\ content' = content /\ Shares(s) = {s}
        /\ \A s1 \in Slots : s1 # s => Shares(s1)' = Shares(s1)
        /\ \A s1 \in Slots : s1 = s => Shares(s1)' = IF n = 0 THEN {s} ELSE todo[t]
    <2>1. /\ slot' = slot /\ todo' = todo /\ failed' = failed /\ last' = last
          /\ content' = content
          /\ at' = [at EXCEPT ![t] = IF n = 0 THEN "content" ELSE "write"]
      BY Zenon DEF AddRefs, Goto
    <2>2. Freeing(x)' = Freeing(x) /\ Shares(s) = {s}
      BY <1>1, <2>1, Zenon DEF Freeing, Shares
    <2>3. \A s1 \in Slots : s1 # s => Shares(s1)' = Shares(s1)
      BY <1>0, <1>1, <2>1, Zenon DEF Shares, MsgTypeOK
    <2>4. \A s1 \in Slots : s1 = s => Shares(s1)' = IF n = 0 THEN {s} ELSE todo[t]
      BY <1>0, <1>1, <2>1, Zenon DEF Shares, MsgTypeOK
    <2> QED
      BY <2>1, <2>2, <2>3, <2>4, Zenon
  <1>4. /\ shared' = [shared EXCEPT ![s] = shared[s] \/ n > 1]
        /\ refcnt' = IF n <= 1 THEN refcnt
                     ELSE [refcnt EXCEPT ![content[s]] = IF shared[s] THEN refcnt[content[s]] + n - 1 ELSE n]
    BY Zenon DEF AddRefs
  <1> HIDE DEF s, n
  <1>5. CASE content[s] # x
    <2>1. \A p \in Refs(x) : p \in Slots \X Slots /\ p[1] # s
      BY <1>5, Zenon DEF Refs
    <2>2. Refs(x)' = Refs(x)
      BY <1>3, <1>5, Zenon DEF Refs
    <2>3. refcnt'[x] = refcnt[x]
      BY <1>0, <1>1, <1>4, <1>5, Zenon DEF MsgTypeOK
    <2>4. \A p \in Refs(x) : shared'[p[1]] = shared[p[1]]
      BY <1>0, <1>4, <2>1, Zenon DEF MsgTypeOK
    <2> QED
      BY <1>0, <1>3, <2>2, <2>3, <2>4, CountSame, Zenon
  <1>6. CASE content[s] = x /\ n = 0
    <2>1. shared' = shared /\ refcnt' = refcnt
      BY <1>0, <1>1, <1>4, <1>6 DEF MsgTypeOK
    <2>2. Refs(x)' = Refs(x)
      BY <1>3, <1>6, Zenon DEF Refs
    <2> QED
      BY <1>0, <1>3, <2>1, <2>2, CountSame, Zenon
  <1>7. CASE content[s] = x /\ n # 0
    <2> DEFINE D == {s} \X todo[t]
    <2>1. /\ <<s, s>> \in Refs(x) /\ <<s, s>>[1] = s /\ IsFiniteSet(D) /\ Cardinality(D) = n
          /\ \A p \in Refs(x) : p[1] = s => p = <<s, s>>
      <3>1. /\ <<s, s>> \in Refs(x) /\ <<s, s>>[1] = s
            /\ \A p \in Refs(x) : p[1] = s => p = <<s, s>>
        BY <1>1, <1>3, <1>7 DEF Refs
      <3>2. IsFiniteSet({s}) /\ Cardinality({s}) = 1
        BY CardSingleton, Zenon
      <3>3. IsFiniteSet(D) /\ Cardinality(D) = Cardinality({s}) * Cardinality(todo[t])
        BY <1>2, <3>2, CardProduct, Zenon
      <3> QED
        BY <1>2, <3>1, <3>2, <3>3 DEF n
    <2>2. Refs(x)' = (Refs(x) \ {<<s, s>>}) \cup D
      <3>1. ASSUME NEW a \in Slots, NEW b \in Slots
            PROVE  <<a, b>> \in Refs(x)' <=> <<a, b>> \in (Refs(x) \ {<<s, s>>}) \cup D
        <4>1. /\ <<a, b>> \in Refs(x)' <=> content'[a] = x /\ b \in Shares(a)'
              /\ <<a, b>> \in Refs(x) <=> content[a] = x /\ b \in Shares(a)
              /\ <<a, b>> \in D <=> a = s /\ b \in todo[t]
              /\ <<a, b>> = <<s, s>> <=> a = s /\ b = s
          BY Zenon DEF Refs
        <4>2. CASE a = s
          BY <1>1, <1>3, <1>7, <4>1, <4>2, Zenon
        <4>3. CASE a # s
          BY <1>3, <4>1, <4>3, Zenon
        <4> QED
          BY <4>2, <4>3, Zenon
      <3>2. /\ Refs(x)' \subseteq Slots \X Slots /\ Refs(x) \subseteq Slots \X Slots
            /\ D \subseteq Slots \X Slots
        BY <1>1, Zenon DEF Refs
      <3> QED
        BY <3>1, <3>2
    <2>3. \A p \in Refs(x) \ {<<s, s>>} : p[1] \in Slots /\ p[1] # s
      BY <2>1, Zenon DEF Refs
    <2>4. \A p \in Refs(x) \ {<<s, s>>} : shared'[p[1]] = shared[p[1]]
      BY <1>0, <1>4, <2>3, Zenon DEF MsgTypeOK
    <2>5. CASE n = 1
      <3>1. PICK d : todo[t] = {d}
        BY <1>2, <2>5, CardSingleton, Zenon DEF n
      <3>2. /\ D = {<<s, d>>} /\ <<s, d>> \in Slots \X Slots /\ <<s, d>> \notin Refs(x)
            /\ <<s, d>>[1] = s
        BY <1>1, <2>1, <3>1, SMTT(30)
      <3>3. shared'[s] = shared[s] /\ refcnt' = refcnt
        BY <1>0, <1>1, <1>4, <2>5 DEF MsgTypeOK
      <3> QED
        BY <1>0, <1>3, <2>1, <2>2, <2>4, <3>2, <3>3, CountMoves, Zenon
    <2>6. CASE n # 1
      <3>1. /\ Freeing(x) = {}
            /\ shared[s] => /\ refcnt[x] = Cardinality(Refs(x))
                            /\ \A p \in Refs(x) : shared[p[1]]
            /\ ~shared[s] => Refs(x) = {<<s, s>>} /\ refcnt[x] # -1
        BY <1>0, <2>1, CountHeld, Zenon
      <3>2. Cardinality(Refs(x)') = Cardinality(Refs(x)) - 1 + n /\ Cardinality(Refs(x)) \in Nat
        <4> DEFINE R == Refs(x) \ {<<s, s>>}
        <4>1. IsFiniteSet(R) /\ Cardinality(R) = Cardinality(Refs(x)) - 1 /\ Cardinality(Refs(x)) \in Nat
          <5>1. <<s, s>> \in Refs(x) /\ IsFiniteSet(Refs(x)) /\ Cardinality(Refs(x)) \in Nat
            BY <2>1, RefsFinite, Zenon
          <5> QED
            BY <5>1, CardRemove, Zenon
        <4>2. R \cap D = {}
          BY <2>3, Zenon
        <4>3. Cardinality(R \cup D) = Cardinality(R) + Cardinality(D) - Cardinality(R \cap D)
          BY <2>1, <4>1, CardUnion, Zenon
        <4>4. Cardinality(R \cap D) = 0
          BY <4>2, CardEmpty, Zenon
        <4> QED
          BY <1>2, <2>1, <2>2, <4>1, <4>3, <4>4, SMTT(30)
      <3>3. shared'[s] /\ refcnt'[x] = IF shared[s] THEN refcnt[x] + n - 1 ELSE n
        <4>1. n > 1 /\ ~(n <= 1)
          BY <1>2, <1>7, <2>6
        <4>2. shared'[s] = TRUE
          BY <1>0, <1>1, <1>4, <4>1, Zenon DEF MsgTypeOK
        <4>3. refcnt'[x] = IF shared[s] THEN refcnt[x] + n - 1 ELSE n
          BY <1>0, <1>4, <1>7, <4>1, Zenon DEF MsgTypeOK
        <4> QED
          BY <4>2, <4>3, Zenon
      <3>4. refcnt'[x] = Cardinality(Refs(x)')
        <4>1. ~shared[s] => Cardinality(Refs(x)) = 1
          BY <3>1, CardSingleton, Zenon
        <4> QED
          BY <1>2, <3>1, <3>2, <3>3, <4>1
      <3>5. \A p \in Refs(x)' : shared'[p[1]]
        <4>1. \A p \in D : p[1] = s
          BY Zenon
        <4> QED
          BY <2>2, <2>4, <3>1, <3>3, <4>1, Zenon
      <3>6. Refs(x)' # {}
        <4>1. D # {}
          BY <1>7, <2>1, CardEmpty, Zenon
        <4> QED
          BY <2>2, <4>1, Zenon
      <3> QED
        BY <1>3, <3>1, <3>4, <3>5, <3>6, Zenon DEF CountOK
    <2> QED
      BY <2>5, <2>6, Zenon
  <1> QED
    BY <1>5, <1>6, <1>7, Zenon

\* WritePipe leaves a content's counter equal to its references.
LEMMA CountWritePipe ==
    ASSUME CardFacts, MsgInv, NEW x \in Contents, NEW t \in Threads, NEW d \in Slots, WritePipe(t, d)
    PROVE  CountOK(x)'
  <1> USE MsgAssumption DEF msgs, counters, ops, args, dist, msgVars
  <1>0. MsgTypeOK /\ CountOK(x) /\ \A u \in Threads : OpOK(u) /\ LeftOK(u)
    BY Zenon DEF MsgInv
  <1> DEFINE s == slot[t]
  <1>1. /\ s \in Slots /\ Owner[s] = t /\ at[t] = "write" /\ d \in todo[t] /\ d # s
        /\ content[d] = None /\ todo[t] \cap failed[t] = {}
    BY <1>0, Where DEF WritePipe, Is, OpOK
  <1>2. /\ Freeing(x)' = Freeing(x) /\ refcnt' = refcnt /\ Shares(d) = {d} /\ Shares(d)' = {d}
        /\ \A s1 \in Slots : s1 # s => Shares(s1)' = Shares(s1)
    <2>1. slot[Owner[d]] # d
      BY <1>0 DEF WritePipe, Busy, OpOK, MsgTypeOK
    <2>2. /\ slot' = slot /\ at' = at /\ failed' = failed /\ last' = last /\ refcnt' = refcnt
          /\ \A u \in Threads : u # t => todo'[u] = todo[u]
      BY <1>0, Zenon DEF WritePipe, MsgTypeOK
    <2>3. Shares(d) = {d} /\ Shares(d)' = {d}
      BY <2>1, <2>2, Zenon DEF Shares
    <2>4. \A s1 \in Slots : s1 # s => Shares(s1)' = Shares(s1)
      BY <1>1, <2>2, Zenon DEF Shares
    <2> QED
      BY <2>2, <2>3, <2>4, Zenon DEF Freeing
  <1>3. /\ d \in Shares(s)
        /\ \A s1 \in Slots : s1 = s => Shares(s1)' = Shares(s1) \ {d}
    BY <1>0, <1>1, SMTT(30) DEF WritePipe, Shares, MsgTypeOK
  <1>4. /\ content' = [content EXCEPT ![d] = content[s]]
        /\ shared' = [shared EXCEPT ![d] = shared[s]]
    BY Zenon DEF WritePipe
  <1> HIDE DEF s
  <1>5. CASE content[s] # x
    <2>1. Refs(x)' = Refs(x)
      BY <1>0, <1>1, <1>2, <1>3, <1>4, <1>5 DEF Refs, MsgTypeOK
    <2>2. \A p \in Refs(x) : shared'[p[1]] = shared[p[1]]
      BY <1>0, <1>1, <1>4, <1>5, Zenon DEF Refs, MsgTypeOK
    <2> QED
      BY <1>0, <1>2, <2>1, <2>2, CountSame, Zenon
  <1>6. CASE content[s] = x
    <2>1. <<s, d>> \in Refs(x) /\ <<d, d>> \in Slots \X Slots /\ <<d, d>> \notin Refs(x)
      BY <1>1, <1>3, <1>6, Zenon DEF Refs
    <2>2. Refs(x)' = (Refs(x) \ {<<s, d>>}) \cup {<<d, d>>}
      <3>1. ASSUME NEW a \in Slots, NEW b \in Slots
            PROVE  <<a, b>> \in Refs(x)' <=> <<a, b>> \in (Refs(x) \ {<<s, d>>}) \cup {<<d, d>>}
        <4>1. /\ <<a, b>> \in Refs(x)' <=> content'[a] = x /\ b \in Shares(a)'
              /\ <<a, b>> \in Refs(x) <=> content[a] = x /\ b \in Shares(a)
          BY Zenon DEF Refs
        <4>2. CASE a = s
          <5>1. content'[s] = x /\ <<a, b>> # <<d, d>> /\ (<<a, b>> = <<s, d>> <=> b = d)
            BY <1>0, <1>1, <1>4, <1>6, <4>2, Zenon DEF MsgTypeOK
          <5> QED
            BY <1>3, <1>6, <4>1, <4>2, <5>1, Zenon
        <4>3. CASE a = d
          BY <1>0, <1>1, <1>2, <1>4, <1>6, <4>1, <4>3, Zenon DEF MsgTypeOK
        <4>4. CASE a # s /\ a # d
          BY <1>0, <1>2, <1>4, <4>1, <4>4, Zenon DEF MsgTypeOK
        <4> QED
          BY <4>2, <4>3, <4>4, Zenon
      <3>2. Refs(x)' \subseteq Slots \X Slots /\ Refs(x) \subseteq Slots \X Slots
        BY Zenon DEF Refs
      <3> QED
        BY <1>1, <3>1, <3>2
    <2>3. /\ shared'[d] = shared[s]
          /\ \A p \in Refs(x) \ {<<s, d>>} : shared'[p[1]] = shared[p[1]]
      BY <1>0, <1>1, <1>2, <1>4, <1>6, Zenon DEF Refs, MsgTypeOK
    <2> QED
      BY <1>0, <1>2, <2>1, <2>2, <2>3, CountMoves, Zenon
  <1> QED
    BY <1>5, <1>6, Zenon

\* WriteFails leaves a content's counter equal to its references.
LEMMA CountWriteFails ==
    ASSUME MsgInv, NEW x \in Contents, NEW t \in Threads, NEW d \in Slots, WriteFails(t, d)
    PROVE  CountOK(x)'
  <1> USE MsgAssumption DEF msgs, counters, ops, args, dist, msgVars
  <1>0. MsgTypeOK /\ CountOK(x) /\ \A u \in Threads : OpOK(u) /\ LeftOK(u)
    BY Zenon DEF MsgInv
  <1>1. /\ Freeing(x)' = Freeing(x) /\ content' = content /\ shared' = shared
        /\ refcnt' = refcnt /\ at' = at /\ slot' = slot
    BY Zenon DEF Freeing, WriteFails
  <1>2. \A u \in Threads : todo'[u] \cup failed'[u] = todo[u] \cup failed[u]
    BY <1>0 DEF MsgTypeOK, WriteFails
  <1>3. \A s1 \in Slots : Shares(s1)' = Shares(s1)
    BY <1>1, <1>2, Zenon DEF Shares
  <1>4. Refs(x)' = Refs(x)
    BY <1>1, <1>3, Zenon DEF Refs
  <1> QED
    BY <1>0, <1>1, <1>4, CountSame, Zenon

\* RmRefs leaves a content's counter equal to its references.
LEMMA CountRmRefs ==
    ASSUME CardFacts, MsgInv, NEW x \in Contents, NEW t \in Threads, RmRefs(t)
    PROVE  CountOK(x)'
  <1> USE MsgAssumption DEF msgs, counters, ops, args, dist, msgVars
  <1>0. MsgTypeOK /\ CountOK(x) /\ \A u \in Threads : OpOK(u) /\ LeftOK(u)
    BY Zenon DEF MsgInv
  <1> DEFINE s == slot[t]
  <1> DEFINE D == {s} \X failed[t]
  <1>1. /\ s \in Slots /\ Owner[s] = t /\ at[t] = "write" /\ last[t] = None
        /\ content[s] \in Contents /\ todo[t] = {} /\ failed[t] \in SUBSET Slots
    <2>1. at[t] = "write" /\ todo[t] = {}
      BY Zenon DEF RmRefs
    <2>2. s \in Slots /\ Owner[s] = t
      BY <2>1, Where, Zenon
    <2>3. content[s] \in Contents
      BY <2>1, Sources, Zenon
    <2>4. last[t] = None
      BY <1>0, <2>1, Zenon DEF OpOK
    <2> QED
      BY <1>0, <2>1, <2>2, <2>3, <2>4, Zenon DEF MsgTypeOK
  <1>2. Shares(s) = failed[t] /\ \A s1 \in Slots : s1 # s => Shares(s1)' = Shares(s1)
    BY <1>0, <1>1, SMTT(30) DEF Shares, RmRefs, Goto, Frees, MsgTypeOK
  <1>3. content' = [content EXCEPT ![s] = None] /\ shared' = [shared EXCEPT ![s] = FALSE]
    BY Zenon DEF RmRefs
  <1>4. Cardinality(failed[t]) \in Nat /\ IsFiniteSet(failed[t])
    BY <1>1, Counted, Zenon
  <1>5. ASSUME content[s] = x => failed[t] = {}
        PROVE  CountOK(x)'
    <2>1. \A p \in Refs(x) : p \in Slots \X Slots /\ p[1] # s
      BY <1>1, <1>2, <1>5 DEF Refs
    <2>2. Refs(x)' = Refs(x)
      <3>1. ASSUME NEW p \in Slots \X Slots
            PROVE  p \in Refs(x)' <=> p \in Refs(x)
        <4>1. /\ p \in Refs(x)' <=> content'[p[1]] = x /\ p[2] \in Shares(p[1])'
              /\ p \in Refs(x) <=> content[p[1]] = x /\ p[2] \in Shares(p[1])
          BY Zenon DEF Refs
        <4>2. CASE p[1] = s
          BY <1>0, <1>1, <1>3, <2>1, <4>1, <4>2, Zenon DEF MsgTypeOK
        <4>3. CASE p[1] # s
          BY <1>0, <1>2, <1>3, <4>1, <4>3, Zenon DEF MsgTypeOK
        <4> QED
          BY <4>2, <4>3, Zenon
      <3> QED
        BY <3>1, Zenon DEF Refs
    <2>3. refcnt'[x] = refcnt[x]
      <3>1. content[s] = x => Cardinality(failed[t]) = 0
        BY <1>5, CardEmpty, Zenon
      <3> QED
        BY <1>0, <1>1, <1>4, <3>1 DEF RmRefs, MsgTypeOK
    <2>4. last'[t] # x /\ \A u \in Threads : u # t => last'[u] = last[u]
      <3>1. content[s] = x => Cardinality(failed[t]) = 0
        BY <1>5, CardEmpty, Zenon
      <3> QED
        BY <1>0, <1>1, <3>1, Zenon DEF RmRefs, Goto, Frees, MsgTypeOK
    <2>5. Freeing(x)' = Freeing(x)
      BY <1>1, <2>4, Zenon DEF Freeing
    <2>6. \A p \in Refs(x) : shared'[p[1]] = shared[p[1]]
      BY <1>0, <1>3, <2>1, Zenon DEF MsgTypeOK
    <2> QED
      BY <1>0, <2>2, <2>3, <2>5, <2>6, CountSame, Zenon
  <1>6. CASE content[s] = x /\ failed[t] # {}
    <2>1. D \in SUBSET Refs(x) /\ D # {} /\ \A p \in D : p[1] = s
      <3>1. \A p \in D : p \in Slots \X Slots /\ p[1] = s /\ p[2] \in failed[t]
        BY <1>1, Zenon
      <3>2. \A p \in D : p \in Refs(x)
        BY <1>2, <1>6, <3>1, Zenon DEF Refs
      <3>3. \A b \in failed[t] : <<s, b>> \in D
        BY Zenon
      <3> QED
        BY <1>6, <3>1, <3>2, <3>3, Zenon
    <2>2. Cardinality(failed[t]) = Cardinality(D)
      <3>1. IsFiniteSet({s}) /\ Cardinality({s}) = 1
        BY CardSingleton, Zenon
      <3>2. Cardinality(D) = Cardinality({s}) * Cardinality(failed[t])
        BY <1>4, <3>1, CardProduct, Zenon
      <3> QED
        BY <1>4, <3>1, <3>2
    <2>3. ASSUME NEW p \in Refs(x) \ D
          PROVE  p[1] # s
      <3>1. p = <<p[1], p[2]>> /\ p[2] \in Shares(p[1])
        BY DEF Refs
      <3> QED
        BY <1>2, <3>1, Zenon
    <2>4. Refs(x)' = Refs(x) \ D
      <3>1. ASSUME NEW a \in Slots, NEW b \in Slots
            PROVE  <<a, b>> \in Refs(x)' <=> <<a, b>> \in Refs(x) \ D
        <4>1. /\ <<a, b>> \in Refs(x)' <=> content'[a] = x /\ b \in Shares(a)'
              /\ <<a, b>> \in Refs(x) <=> content[a] = x /\ b \in Shares(a)
              /\ <<a, b>> \in D <=> a = s /\ b \in failed[t]
          BY Zenon DEF Refs
        <4>2. CASE a = s
          BY <1>0, <1>1, <1>2, <1>3, <4>1, <4>2, Zenon DEF MsgTypeOK
        <4>3. CASE a # s
          BY <1>0, <1>2, <1>3, <4>1, <4>3, Zenon DEF MsgTypeOK
        <4> QED
          BY <4>2, <4>3, Zenon
      <3>2. Refs(x)' \subseteq Slots \X Slots /\ Refs(x) \subseteq Slots \X Slots
        BY Zenon DEF Refs
      <3> QED
        BY <3>1, <3>2
    <2>5. /\ refcnt'[x] = IF shared[s] THEN refcnt[x] - Cardinality(failed[t]) ELSE refcnt[x]
          /\ Cardinality(failed[t]) # 0
      BY <1>0, <1>4, <1>6, CardEmpty, Zenon DEF RmRefs, MsgTypeOK
    <2>6. \A r1 \in Slots : r1 # s => shared'[r1] = shared[r1]
      BY <1>0, <1>3, Zenon DEF MsgTypeOK
    <2>7. IF shared[s] /\ refcnt[x] # Cardinality(failed[t]) THEN last' = last
          ELSE last' = [last EXCEPT ![t] = x]
      BY <1>6, <2>5, Zenon DEF RmRefs, Goto, Frees
    <2> HIDE DEF D, s
    <2>8. Drops(x, t, D, Cardinality(failed[t]), s)
      BY <2>1, <2>2, <2>3, <2>4, <2>5, <2>6, <2>7, Zenon DEF Drops
    <2> QED
      BY <1>0, <1>1, <2>8, CountDrops, Zenon
  <1> QED
    BY <1>5, <1>6, Zenon

\* EngineGoes leaves a content's counter equal to its references.
LEMMA CountEngineGoes ==
    ASSUME MsgInv, NEW x \in Contents, NEW m \in Metas, EngineGoes(m)
    PROVE  CountOK(x)'
  <1> USE MsgAssumption DEF msgs, counters, ops, args, dist, msgVars
  <1>0. MsgTypeOK /\ CountOK(x) /\ \A u \in Threads : OpOK(u) /\ LeftOK(u)
    BY Zenon DEF MsgInv
  <1>1. /\ Freeing(x)' = Freeing(x) /\ content' = content /\ shared' = shared
        /\ refcnt' = refcnt
    BY Zenon DEF Freeing, EngineGoes
  <1>2. \A s1 \in Slots : Shares(s1)' = Shares(s1)
    BY <1>0, Zenon DEF Shares, MsgTypeOK, EngineGoes
  <1>3. Refs(x)' = Refs(x)
    BY <1>1, <1>2, Zenon DEF Refs
  <1> QED
    BY <1>0, <1>1, <1>3, CountSame, Zenon

\* A stuttering step leaves a content's counter equal to its references.
LEMMA CountStutters ==
    ASSUME MsgInv, NEW x \in Contents, UNCHANGED msgVars
    PROVE  CountOK(x)'
  <1> USE MsgAssumption DEF msgs, counters, ops, args, dist, msgVars
  <1>0. MsgTypeOK /\ CountOK(x) /\ \A u \in Threads : OpOK(u) /\ LeftOK(u)
    BY Zenon DEF MsgInv
  <1>1. Refs(x)' = Refs(x) /\ Freeing(x)' = Freeing(x)
    BY Zenon DEF Refs, Shares, Freeing
  <1> QED
    BY <1>0, <1>1, CountSame, Zenon

\* The counter of a content is the number of its references.
LEMMA CountStep ==
    ASSUME CardFacts, MsgInv, [MsgNext]_msgVars, NEW x \in Contents
    PROVE  CountOK(x)'
  BY CountInitSize, CountSetMetadata, CountPass, CountClose, CountMove, CountCopy, Zenon,
     CountSend, CountCloseContent, CountFreeContent, CountDropMetadata,
     CountDeleteMetadata, CountCloseDone, CountMoveDone, CountCopyContent,
     CountCopyMetadata, CountAddRefs, CountWritePipe, CountWriteFails, CountRmRefs,
     CountEngineGoes, CountStutters
     DEF MsgNext, MsgStarts, MsgContinues

\* What MsgInit sets up: no message refers to anything, and each engine to its
\* metadata.
LEMMA InitInv ==
    ASSUME CardFacts, MsgInit
    PROVE  MsgInv
  <1> USE MsgAssumption DEF MsgInit
  <1>1. MsgTypeOK
    BY DEF MsgTypeOK
  <1>2. \A t \in Threads : OpOK(t) /\ LeftOK(t)
    BY Zenon DEF OpOK, LeftOK
  <1>3. ASSUME NEW c \in Contents
        PROVE  CountOK(c)
    BY Zenon DEF CountOK, Refs, Freeing
  <1>4. ASSUME NEW m \in Metas
        PROVE  MetaCountOK(m)
    <2>1. MetaRefs(m) = {} /\ Freeing(m) = {}
      BY Zenon DEF MetaRefs, Freeing
    <2>2. Cardinality(MetaRefs(m)) = 0
      BY <2>1, CardEmpty, Zenon
    <2> QED
      BY <2>1, <2>2 DEF MetaCountOK, EngineRef
  <1> QED
    BY <1>1, <1>2, <1>3, <1>4, Zenon DEF MsgInv

\* Every step of every thread keeps the invariant.
LEMMA StepInv ==
    ASSUME CardFacts, MsgInv, [MsgNext]_msgVars
    PROVE  MsgInv'
  <1>1. MsgTypeOK' /\ \A s \in Slots : content'[s] = None => ~shared'[s]
    BY TypeStep, SharedStep, Zenon
  <1>2. \A t \in Threads : OpOK(t)' /\ LeftOK(t)'
    BY OpStep, LeftStep, Zenon
  <1>3. \A c \in Contents : CountOK(c)'
    BY CountStep, Zenon
  <1>4. \A m \in Metas : MetaCountOK(m)'
    BY MetaStep, Zenon
  <1> QED
    BY <1>1, <1>2, <1>3, <1>4, Zenon DEF MsgInv

\* The counters are right, so what they count is freed by the last reference.
LEMMA InvFrees ==
    ASSUME CardFacts, MsgInv
    PROVE  FreedByTheLast
  <1>1. \A t : Cardinality({t}) = 1
    BY CardSingleton, Zenon
  <1>2. ASSUME NEW c \in Contents
        PROVE  /\ refcnt[c] # -1 <=> Refs(c) # {} \/ Freeing(c) # {}
               /\ Freeing(c) # {} => Refs(c) = {} /\ Cardinality(Freeing(c)) = 1
    <2>1. CountOK(c)
      BY Zenon DEF MsgInv
    <2>2. Cardinality(Refs(c)) # -1
      BY RefsFinite
    <2> QED
      BY <1>1, <2>1, <2>2, Zenon DEF CountOK
  <1>3. ASSUME NEW m \in Metas
        PROVE  /\ ref_cnt[m] # -1 <=> MetaRefs(m) # {} \/ m \in engines \/ Freeing(m) # {}
               /\ Freeing(m) # {} =>
                    MetaRefs(m) = {} /\ m \notin engines /\ Cardinality(Freeing(m)) = 1
    <2>1. MetaCountOK(m)
      BY Zenon DEF MsgInv
    <2>2. Cardinality(MetaRefs(m)) + EngineRef(m) # -1
      BY MetaFinite DEF EngineRef
    <2> QED
      BY <1>1, <2>1, <2>2, Zenon DEF MetaCountOK
  <1> QED
    BY <1>2, <1>3, Zenon DEF FreedByTheLast

---------------------------------------------------------------------------
(* The facts about finite sets, from the library.                          *)

FS == INSTANCE FiniteSetTheorems

\* The library means the same by a finite set and its number of elements.
LEMMA SameFinite == ASSUME NEW S PROVE IsFiniteSet(S) <=> FS!IsFiniteSet(S)
  BY Zenon DEF IsFiniteSet, FS!IsFiniteSet
LEMMA SameCardinality == ASSUME NEW S PROVE Cardinality(S) = FS!Cardinality(S)
  BY Zenon DEF Cardinality, FS!Cardinality

\* So what the lemmas assume is true.
LEMMA CardFactsHold == CardFacts
  <1>1. TypeFact
    BY FS!FS_CardinalityType, SameFinite, SameCardinality, Zenon DEF TypeFact
  <1>2. EmptyFact
    BY FS!FS_EmptySet, SameFinite, SameCardinality, Zenon DEF EmptyFact
  <1>3. SingletonFact
    BY FS!FS_Singleton, SameFinite, SameCardinality, Zenon DEF SingletonFact
  <1>4. AddFact
    BY FS!FS_AddElement, SameFinite, SameCardinality, Zenon DEF AddFact
  <1>5. RemoveFact
    BY FS!FS_RemoveElement, SameFinite, SameCardinality, Zenon DEF RemoveFact
  <1>6. SubsetFact
    BY FS!FS_Subset, SameFinite, Zenon DEF SubsetFact
  <1>7. IntervalFact
    BY FS!FS_Interval, SameFinite, SameCardinality, Zenon DEF IntervalFact
  <1>8. UnionFact
    BY FS!FS_Union, SameFinite, SameCardinality, Zenon DEF UnionFact
  <1>9. DifferenceFact
    BY FS!FS_Difference, SameFinite, SameCardinality, Zenon DEF DifferenceFact
  <1>10. ProductFact
    BY FS!FS_Product, SameFinite, SameCardinality, Zenon DEF ProductFact
  <1>11. BijectionFact
    <2> SUFFICES ASSUME NEW S, NEW T, NEW f, IsFiniteSet(S), OneToOne(f, S, T)
                 PROVE  Cardinality(T) = Cardinality(S)
      BY Zenon DEF BijectionFact
    <2>1. FS!ExistsBijection(S, T)
      BY Zenon DEF OneToOne, FS!ExistsBijection, FS!Bijection, FS!Injection, FS!Surjection,
         FS!IsInjective
    <2> QED
      BY <2>1, FS!FS_Bijection, SameFinite, SameCardinality, Zenon
  <1> QED
    BY <1>1, <1>2, <1>3, <1>4, <1>5, <1>6, <1>7, <1>8, <1>9, <1>10, <1>11, Zenon DEF CardFacts

---------------------------------------------------------------------------
(* Theorems                                                                *)

\* The counters of contents and metadata stay equal to the references that
\* messages, deliveries in progress and engines hold.
THEOREM CountersExact == MsgSpec => []MsgInv
  <1>1. MsgInit => MsgInv
    BY CardFactsHold, InitInv, Zenon
  <1>2. MsgInv /\ [MsgNext]_msgVars => MsgInv'
    BY CardFactsHold, StepInv, Zenon
  <1> QED
    BY <1>1, <1>2, PTL DEF MsgSpec

\* However the threads' close, copy, move and distribute calls interleave, a
\* content and the metadata of a connection live until their last reference
\* goes, and one thread then frees them.
THEOREM MsgSafety == MsgSpec => []FreedByTheLast
  <1>1. MsgSpec => []MsgInv
    BY CountersExact, Zenon
  <1>2. MsgInv => FreedByTheLast
    BY CardFactsHold, InvFrees, Zenon
  <1> QED
    BY <1>1, <1>2, PTL

============================================================================
