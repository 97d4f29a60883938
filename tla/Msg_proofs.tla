---------------------------- MODULE Msg_proofs ----------------------------
(* The reference counts of msg_t and metadata_t, for any number of threads,*)
(* messages, contents and engines.                                         *)
EXTENDS Msg, FiniteFacts, TLAPS

---------------------------------------------------------------------------
(* Finite sets.                                                            *)

\* The number of elements is a number.
LEMMA CardType ==
    ASSUME CardFacts, NEW S, IsFiniteSet(S)
    PROVE  Cardinality(S) \in Nat
  BY Zenon DEF CardFacts, TypeFact

\* Only the empty set has none.
LEMMA CardEmpty ==
    ASSUME CardFacts
    PROVE  /\ IsFiniteSet({}) /\ Cardinality({}) = 0
           /\ \A S : IsFiniteSet(S) => (Cardinality(S) = 0 <=> S = {})
  BY Zenon DEF CardFacts, EmptyFact

\* A set of one element.
LEMMA CardSingleton ==
    ASSUME CardFacts
    PROVE  /\ \A x : IsFiniteSet({x}) /\ Cardinality({x}) = 1
           /\ \A S : IsFiniteSet(S) /\ Cardinality(S) = 1 => \E x : S = {x}
  BY Zenon DEF CardFacts, SingletonFact

\* One element more.
LEMMA CardAdd ==
    ASSUME CardFacts, NEW S, NEW x, IsFiniteSet(S)
    PROVE  /\ IsFiniteSet(S \cup {x})
           /\ Cardinality(S \cup {x}) = IF x \in S THEN Cardinality(S) ELSE Cardinality(S) + 1
  BY Zenon DEF CardFacts, AddFact

\* One element less.
LEMMA CardRemove ==
    ASSUME CardFacts, NEW S, NEW x, IsFiniteSet(S)
    PROVE  /\ IsFiniteSet(S \ {x})
           /\ Cardinality(S \ {x}) = IF x \in S THEN Cardinality(S) - 1 ELSE Cardinality(S)
  BY Zenon DEF CardFacts, RemoveFact

\* Part of a finite set.
LEMMA CardSubset ==
    ASSUME CardFacts, NEW S, IsFiniteSet(S), NEW T \in SUBSET S
    PROVE  IsFiniteSet(T)
  BY Zenon DEF CardFacts, SubsetFact

\* Two sets together.
LEMMA CardUnion ==
    ASSUME CardFacts, NEW S, IsFiniteSet(S), NEW T, IsFiniteSet(T)
    PROVE  /\ IsFiniteSet(S \cup T)
           /\ Cardinality(S \cup T) = Cardinality(S) + Cardinality(T) - Cardinality(S \cap T)
  BY Zenon DEF CardFacts, UnionFact

\* One set without the other.
LEMMA CardDifference ==
    ASSUME CardFacts, NEW S, NEW T, IsFiniteSet(S)
    PROVE  /\ IsFiniteSet(S \ T)
           /\ Cardinality(S \ T) = Cardinality(S) - Cardinality(S \cap T)
  BY Zenon DEF CardFacts, DifferenceFact

\* The pairs of their elements.
LEMMA CardProduct ==
    ASSUME CardFacts, NEW S, IsFiniteSet(S), NEW T, IsFiniteSet(T)
    PROVE  /\ IsFiniteSet(S \X T)
           /\ Cardinality(S \X T) = Cardinality(S) * Cardinality(T)
  BY Zenon DEF CardFacts, ProductFact

---------------------------------------------------------------------------
(* Types, operations and the counters of metadata.                         *)

\* A thread inside an operation has a message, and the message is its own.
LEMMA Where ==
    ASSUME MsgInv, NEW t \in Threads, at[t] # "done" \/ call[t] # "idle"
    PROVE  slot[t] \in Slots /\ Owner[slot[t]] = t /\ call[t] # "idle"
  BY Zenon DEF MsgInv, OpOK

\* What move and copy read, and what a delivery shares.
LEMMA Sources ==
    ASSUME MsgInv, NEW t \in Threads
    PROVE  /\ call[t] \in {"move", "copy"} \/ at[t] = "add_ref" =>
                from[t] \in Slots /\ Owner[from[t]] = t /\ from[t] # slot[t]
           /\ at[t] = "free" => last[t] \in Contents
           /\ at[t] = "delete" => last[t] \in Metas
           /\ at[t] \in {"add_refs", "write"} => content[slot[t]] \in Contents
  <1>1. OpOK(t) /\ LeftOK(t)
    BY Zenon DEF MsgInv
  <1>2. at[t] \in {"add_refs", "write"} => slot[t] \in Slots /\ call[t] = "send"
    BY <1>1, Zenon DEF OpOK
  <1>3. at[t] \in {"add_refs", "write"} => content[slot[t]] \in Contents
    BY <1>1, <1>2, Zenon DEF LeftOK, MsgInv, MsgTypeOK
  <1> QED
    BY <1>1, <1>3, Zenon DEF OpOK

\* Only what has a content is shared.
LEMMA Ranges ==
    ASSUME MsgInv, NEW s \in Slots
    PROVE  /\ content[s] \in Contents \cup {None} /\ metadata[s] \in Metas \cup {None}
           /\ shared[s] \in BOOLEAN /\ (shared[s] => content[s] \in Contents)
  BY Zenon DEF MsgInv, MsgTypeOK

\* A set of pipes is counted by a natural number.
LEMMA Counted ==
    ASSUME CardFacts, NEW S \in SUBSET Slots
    PROVE  IsFiniteSet(S) /\ Cardinality(S) \in Nat
  BY MsgAssumption, CardSubset, CardType, Zenon

\* The variables keep their types.
LEMMA TypeStep ==
    ASSUME CardFacts, MsgInv, [MsgNext]_msgVars
    PROVE  MsgTypeOK'
  <1> USE MsgAssumption DEF MsgTypeOK, msgs, counters, ops, args, dist, msgVars
  <1>0. MsgTypeOK
    BY Zenon DEF MsgInv
  <1>1. ASSUME NEW t \in Threads, NEW s \in Slots, NEW c \in Contents, InitSize(t, s, c)
        PROVE  MsgTypeOK'
    BY <1>1, <1>0 DEF InitSize
  <1>2. ASSUME NEW t \in Threads, NEW s \in Slots, NEW m \in Metas, SetMetadata(t, s, m)
        PROVE  MsgTypeOK'
    BY <1>2, <1>0 DEF SetMetadata
  <1>3. ASSUME NEW t \in Threads, NEW s \in Slots, NEW d \in Slots, Pass(t, s, d)
        PROVE  MsgTypeOK'
    BY <1>3, <1>0, Zenon DEF Pass
  <1>4. ASSUME NEW t \in Threads, NEW s \in Slots, Close(t, s)
        PROVE  MsgTypeOK'
    BY <1>4, <1>0, Zenon DEF Close, Starts
  <1>5. ASSUME NEW t \in Threads, NEW s \in Slots, NEW d \in Slots, Move(t, s, d)
        PROVE  MsgTypeOK'
    BY <1>5, <1>0, Zenon DEF Move, Starts
  <1>6. ASSUME NEW t \in Threads, NEW s \in Slots, NEW d \in Slots, Copy(t, s, d)
        PROVE  MsgTypeOK'
    BY <1>6, <1>0, Zenon DEF Copy, Starts
  <1>7. ASSUME NEW t \in Threads, NEW s \in Slots,
               NEW pipes \in SUBSET {d \in Slots : Owner[d] # t}, Send(t, s, pipes)
        PROVE  MsgTypeOK'
    BY <1>7, <1>0, Zenon DEF Send, Starts
  <1>8. ASSUME NEW t \in Threads, CloseContent(t)
        PROVE  MsgTypeOK'
    <2>1. slot[t] \in Slots /\ at[t] = "content"
      BY <1>8, Where, Zenon DEF CloseContent
    <2>2. /\ content[slot[t]] \in Contents \cup {None}
          /\ shared[slot[t]] => content[slot[t]] \in Contents
      BY <2>1, Ranges, Zenon
    <2>3. refcnt' \in [Contents -> Int]
      BY <1>8, <1>0, <2>2 DEF CloseContent
    <2>4. /\ at' \in [Threads -> {"content", "free", "metadata", "delete", "done",
                                  "add_ref", "add_refs", "write"}]
          /\ last' \in [Threads -> Contents \cup Metas \cup {None}]
      BY <1>8, <1>0, <2>2, Zenon DEF CloseContent, Goto, Frees
    <2>5. content' \in [Slots -> Contents \cup {None}] /\ shared' \in [Slots -> BOOLEAN]
      BY <1>8, <1>0, Zenon DEF CloseContent
    <2> QED
      BY <1>8, <1>0, <2>3, <2>4, <2>5, Zenon DEF CloseContent
  <1>9. ASSUME NEW t \in Threads, FreeContent(t)
        PROVE  MsgTypeOK'
    BY <1>9, <1>0, Sources DEF FreeContent, Frees
  <1>10. ASSUME NEW t \in Threads, DropMetadata(t)
        PROVE  MsgTypeOK'
    <2>1. slot[t] \in Slots /\ at[t] = "metadata"
      BY <1>10, Where, Zenon DEF DropMetadata
    <2>2. metadata[slot[t]] \in Metas \cup {None}
      BY <2>1, Ranges, Zenon
    <2>3. ref_cnt' \in [Metas -> Int]
      <3>1. CASE metadata[slot[t]] = None
        BY <1>10, <1>0, <3>1, Zenon DEF DropMetadata
      <3>2. CASE metadata[slot[t]] \in Metas
        BY <1>10, <1>0, <3>2 DEF DropMetadata
      <3> QED
        BY <2>2, <3>1, <3>2, Zenon
    <2>4. /\ at' \in [Threads -> {"content", "free", "metadata", "delete", "done",
                                  "add_ref", "add_refs", "write"}]
          /\ last' \in [Threads -> Contents \cup Metas \cup {None}]
      BY <1>10, <1>0, <2>2, Zenon DEF DropMetadata, Goto, Frees, AfterMetadata
    <2> QED
      BY <1>10, <1>0, <2>3, <2>4, Zenon DEF DropMetadata
  <1>11. ASSUME NEW t \in Threads, DeleteMetadata(t)
        PROVE  MsgTypeOK'
    BY <1>11, <1>0, Sources DEF DeleteMetadata, Frees, AfterMetadata
  <1>12. ASSUME NEW t \in Threads, CloseDone(t)
        PROVE  MsgTypeOK'
    BY <1>12, <1>0, Zenon DEF CloseDone, Returns
  <1>13. ASSUME NEW t \in Threads, MoveDone(t)
        PROVE  MsgTypeOK'
    BY <1>13, <1>0, Where, Sources, Ranges, Zenon DEF MoveDone, Returns
  <1>14. ASSUME NEW t \in Threads, CopyContent(t)
        PROVE  MsgTypeOK'
    <2>1. slot[t] \in Slots /\ from[t] \in Slots
      BY <1>14, Where, Sources, Zenon DEF CopyContent
    <2>2. content[from[t]] \in Contents \cup {None}
      BY <2>1, Ranges, Zenon
    <2>3. refcnt' \in [Contents -> Int]
      <3>1. CASE content[from[t]] = None
        BY <1>14, <1>0, <3>1, Zenon DEF CopyContent
      <3>2. CASE content[from[t]] \in Contents
        BY <1>14, <1>0, <3>2 DEF CopyContent
      <3> QED
        BY <2>2, <3>1, <3>2, Zenon
    <2>4. shared' \in [Slots -> BOOLEAN]
      BY <1>14, <1>0, <2>1, Zenon DEF CopyContent
    <2> QED
      BY <1>14, <1>0, <2>2, <2>3, <2>4, Zenon DEF CopyContent, Goto
  <1>15. ASSUME NEW t \in Threads, CopyMetadata(t)
        PROVE  MsgTypeOK'
    BY <1>15, <1>0, Where, Sources, Ranges DEF CopyMetadata, Returns
  <1>16. ASSUME NEW t \in Threads, AddRefs(t)
        PROVE  MsgTypeOK'
    BY <1>16, <1>0, Where, Sources, Ranges, Counted DEF AddRefs, Goto
  <1>17. ASSUME NEW t \in Threads, NEW d \in Slots, WritePipe(t, d)
        PROVE  MsgTypeOK'
    BY <1>17, <1>0, Where, Sources, Ranges DEF WritePipe
  <1>18. ASSUME NEW t \in Threads, NEW d \in Slots, WriteFails(t, d)
        PROVE  MsgTypeOK'
    BY <1>18, <1>0, Zenon DEF WriteFails
  <1>19. ASSUME NEW t \in Threads, RmRefs(t)
        PROVE  MsgTypeOK'
    <2>1. slot[t] \in Slots /\ content[slot[t]] \in Contents
      BY <1>19, Where, Sources, Zenon DEF RmRefs
    <2>2. failed[t] \in SUBSET Slots
      BY <1>0, Zenon
    <2>3. Cardinality(failed[t]) \in Nat
      BY <2>2, Counted, Zenon
    <2>4. refcnt' \in [Contents -> Int]
      BY <1>19, <1>0, <2>1, <2>3 DEF RmRefs
    <2>5. /\ at' \in [Threads -> {"content", "free", "metadata", "delete", "done",
                                  "add_ref", "add_refs", "write"}]
          /\ last' \in [Threads -> Contents \cup Metas \cup {None}]
      BY <1>19, <1>0, <2>1, Zenon DEF RmRefs, Goto, Frees
    <2> QED
      BY <1>19, <1>0, <2>4, <2>5, Zenon DEF RmRefs
  <1>20. ASSUME NEW m \in Metas, EngineGoes(m)
         PROVE  MsgTypeOK'
    BY <1>20, <1>0 DEF EngineGoes
  <1>21. CASE UNCHANGED msgVars
    BY <1>21, <1>0, Zenon
  <1> QED
    BY <1>1, <1>2, <1>3, <1>4, <1>5, <1>6, <1>7, <1>8, <1>9, <1>10, <1>11, <1>12, <1>13,
       <1>14, <1>15, <1>16, <1>17, <1>18, <1>19, <1>20, <1>21, Zenon
       DEF MsgNext, MsgStarts, MsgContinues

\* Only what has a content is shared, still.
LEMMA SharedStep ==
    ASSUME MsgInv, [MsgNext]_msgVars
    PROVE  \A x \in Slots : content'[x] = None => ~shared'[x]
  <1> SUFFICES ASSUME NEW x \in Slots
               PROVE  content'[x] = None => ~shared'[x]
    BY Zenon
  <1> USE MsgAssumption DEF msgs, counters, ops, args, dist, msgVars
  <1>0. MsgTypeOK
    BY Zenon DEF MsgInv
  <1>a. \A s \in Slots : content[s] = None => ~shared[s]
    BY Zenon DEF MsgInv
  <1>1. ASSUME NEW t \in Threads, NEW s \in Slots, NEW c \in Contents, InitSize(t, s, c)
        PROVE  content'[x] = None => ~shared'[x]
    BY <1>1, <1>0, <1>a, Zenon DEF InitSize, MsgTypeOK
  <1>2. ASSUME NEW t \in Threads, NEW s \in Slots, NEW m \in Metas, SetMetadata(t, s, m)
        PROVE  content'[x] = None => ~shared'[x]
    BY <1>2, <1>0, <1>a, Zenon DEF SetMetadata, MsgTypeOK
  <1>3. ASSUME NEW t \in Threads, NEW s \in Slots, NEW d \in Slots, Pass(t, s, d)
        PROVE  content'[x] = None => ~shared'[x]
    BY <1>3, <1>0, <1>a, Zenon DEF Pass, MsgTypeOK
  <1>4. ASSUME NEW t \in Threads, NEW s \in Slots, Close(t, s)
        PROVE  content'[x] = None => ~shared'[x]
    BY <1>4, <1>0, <1>a, Zenon DEF Close, Starts, MsgTypeOK
  <1>5. ASSUME NEW t \in Threads, NEW s \in Slots, NEW d \in Slots, Move(t, s, d)
        PROVE  content'[x] = None => ~shared'[x]
    BY <1>5, <1>0, <1>a, Zenon DEF Move, Starts, MsgTypeOK
  <1>6. ASSUME NEW t \in Threads, NEW s \in Slots, NEW d \in Slots, Copy(t, s, d)
        PROVE  content'[x] = None => ~shared'[x]
    BY <1>6, <1>0, <1>a, Zenon DEF Copy, Starts, MsgTypeOK
  <1>7. ASSUME NEW t \in Threads, NEW s \in Slots,
               NEW pipes \in SUBSET {d \in Slots : Owner[d] # t}, Send(t, s, pipes)
        PROVE  content'[x] = None => ~shared'[x]
    BY <1>7, <1>0, <1>a, Zenon DEF Send, Starts, MsgTypeOK
  <1>8. ASSUME NEW t \in Threads, CloseContent(t)
        PROVE  content'[x] = None => ~shared'[x]
    BY <1>8, <1>0, <1>a, Where, Sources, Ranges DEF CloseContent, Goto, Frees, MsgTypeOK
  <1>9. ASSUME NEW t \in Threads, FreeContent(t)
        PROVE  content'[x] = None => ~shared'[x]
    BY <1>9, <1>0, <1>a, Zenon DEF FreeContent, Frees, MsgTypeOK
  <1>10. ASSUME NEW t \in Threads, DropMetadata(t)
        PROVE  content'[x] = None => ~shared'[x]
    BY <1>10, <1>0, <1>a, Zenon DEF DropMetadata, Goto, Frees, AfterMetadata, MsgTypeOK
  <1>11. ASSUME NEW t \in Threads, DeleteMetadata(t)
        PROVE  content'[x] = None => ~shared'[x]
    BY <1>11, <1>0, <1>a, Zenon DEF DeleteMetadata, Frees, AfterMetadata, MsgTypeOK
  <1>12. ASSUME NEW t \in Threads, CloseDone(t)
        PROVE  content'[x] = None => ~shared'[x]
    BY <1>12, <1>0, <1>a, Zenon DEF CloseDone, Returns, MsgTypeOK
  <1>13. ASSUME NEW t \in Threads, MoveDone(t)
        PROVE  content'[x] = None => ~shared'[x]
    BY <1>13, <1>0, <1>a, Where, Sources, Ranges DEF MoveDone, Returns, MsgTypeOK
  <1>14. ASSUME NEW t \in Threads, CopyContent(t)
        PROVE  content'[x] = None => ~shared'[x]
    BY <1>14, <1>0, <1>a, Where, Sources, Ranges DEF CopyContent, Goto, MsgTypeOK
  <1>15. ASSUME NEW t \in Threads, CopyMetadata(t)
        PROVE  content'[x] = None => ~shared'[x]
    BY <1>15, <1>0, <1>a, Zenon DEF CopyMetadata, Returns, MsgTypeOK
  <1>16. ASSUME NEW t \in Threads, AddRefs(t)
        PROVE  content'[x] = None => ~shared'[x]
    BY <1>16, <1>0, <1>a, Where, Sources, Ranges DEF AddRefs, Goto, MsgTypeOK
  <1>17. ASSUME NEW t \in Threads, NEW d \in Slots, WritePipe(t, d)
        PROVE  content'[x] = None => ~shared'[x]
    BY <1>17, <1>0, <1>a, Where, Sources, Ranges DEF WritePipe, MsgTypeOK
  <1>18. ASSUME NEW t \in Threads, NEW d \in Slots, WriteFails(t, d)
        PROVE  content'[x] = None => ~shared'[x]
    BY <1>18, <1>0, <1>a, Zenon DEF WriteFails, MsgTypeOK
  <1>19. ASSUME NEW t \in Threads, RmRefs(t)
        PROVE  content'[x] = None => ~shared'[x]
    BY <1>19, <1>0, <1>a, Where, Sources, Ranges DEF RmRefs, Goto, Frees, MsgTypeOK
  <1>20. ASSUME NEW m \in Metas, EngineGoes(m)
         PROVE  content'[x] = None => ~shared'[x]
    BY <1>20, <1>a, Zenon DEF EngineGoes
  <1>21. CASE UNCHANGED msgVars
    BY <1>21, <1>a, Zenon
  <1> QED
    BY <1>1, <1>2, <1>3, <1>4, <1>5, <1>6, <1>7, <1>8, <1>9, <1>10, <1>11, <1>12, <1>13,
       <1>14, <1>15, <1>16, <1>17, <1>18, <1>19, <1>20, <1>21, Zenon
       DEF MsgNext, MsgStarts, MsgContinues

\* An operation goes from one of its places to the next.
LEMMA OpStep ==
    ASSUME MsgInv, [MsgNext]_msgVars, NEW u \in Threads
    PROVE  OpOK(u)'
  <1> USE MsgAssumption DEF msgs, counters, ops, args, dist, msgVars
  <1>0. MsgTypeOK
    BY Zenon DEF MsgInv
  <1>a. OpOK(u)
    BY Zenon DEF MsgInv
  <1>1. ASSUME NEW t \in Threads, NEW s \in Slots, NEW c \in Contents, InitSize(t, s, c)
        PROVE  OpOK(u)'
    BY <1>1, <1>0, <1>a, Zenon DEF InitSize, MsgTypeOK, OpOK, Free
  <1>2. ASSUME NEW t \in Threads, NEW s \in Slots, NEW m \in Metas, SetMetadata(t, s, m)
        PROVE  OpOK(u)'
    BY <1>2, <1>0, <1>a, Zenon DEF SetMetadata, MsgTypeOK, OpOK, Free
  <1>3. ASSUME NEW t \in Threads, NEW s \in Slots, NEW d \in Slots, Pass(t, s, d)
        PROVE  OpOK(u)'
    BY <1>3, <1>0, <1>a, Zenon DEF Pass, MsgTypeOK, OpOK, Free
  <1>4. ASSUME NEW t \in Threads, NEW s \in Slots, Close(t, s)
        PROVE  OpOK(u)'
    BY <1>4, <1>0, <1>a, Zenon DEF Close, Starts, MsgTypeOK, OpOK, Free
  <1>5. ASSUME NEW t \in Threads, NEW s \in Slots, NEW d \in Slots, Move(t, s, d)
        PROVE  OpOK(u)'
    BY <1>5, <1>0, <1>a, Zenon DEF Move, Starts, MsgTypeOK, OpOK, Free
  <1>6. ASSUME NEW t \in Threads, NEW s \in Slots, NEW d \in Slots, Copy(t, s, d)
        PROVE  OpOK(u)'
    BY <1>6, <1>0, <1>a, Zenon DEF Copy, Starts, MsgTypeOK, OpOK, Free
  <1>7. ASSUME NEW t \in Threads, NEW s \in Slots,
               NEW pipes \in SUBSET {d \in Slots : Owner[d] # t}, Send(t, s, pipes)
        PROVE  OpOK(u)'
    BY <1>7, <1>0, <1>a, Zenon DEF Send, Starts, MsgTypeOK, OpOK, Free
  <1>8. ASSUME NEW t \in Threads, CloseContent(t)
        PROVE  OpOK(u)'
    BY <1>8, <1>0, <1>a, Where, Sources, Ranges DEF CloseContent, Goto, Frees, MsgTypeOK, OpOK, Free
  <1>9. ASSUME NEW t \in Threads, FreeContent(t)
        PROVE  OpOK(u)'
    BY <1>9, <1>0, <1>a, Where, Sources, Ranges DEF FreeContent, Frees, MsgTypeOK, OpOK, Free
  <1>10. ASSUME NEW t \in Threads, DropMetadata(t)
        PROVE  OpOK(u)'
    BY <1>10, <1>0, <1>a, Where, Sources, Ranges DEF DropMetadata, Goto, Frees, AfterMetadata, MsgTypeOK, OpOK, Free
  <1>11. ASSUME NEW t \in Threads, DeleteMetadata(t)
        PROVE  OpOK(u)'
    BY <1>11, <1>0, <1>a, Where, Sources, Ranges DEF DeleteMetadata, Frees, AfterMetadata, MsgTypeOK, OpOK, Free
  <1>12. ASSUME NEW t \in Threads, CloseDone(t)
        PROVE  OpOK(u)'
    BY <1>12, <1>0, <1>a, Zenon DEF CloseDone, Returns, MsgTypeOK, OpOK, Free
  <1>13. ASSUME NEW t \in Threads, MoveDone(t)
        PROVE  OpOK(u)'
    BY <1>13, <1>0, <1>a, Zenon DEF MoveDone, Returns, MsgTypeOK, OpOK, Free
  <1>14. ASSUME NEW t \in Threads, CopyContent(t)
        PROVE  OpOK(u)'
    BY <1>14, <1>0, <1>a, Zenon DEF CopyContent, Goto, MsgTypeOK, OpOK, Free
  <1>15. ASSUME NEW t \in Threads, CopyMetadata(t)
        PROVE  OpOK(u)'
    BY <1>15, <1>0, <1>a, Zenon DEF CopyMetadata, Returns, MsgTypeOK, OpOK, Free
  <1>16. ASSUME NEW t \in Threads, AddRefs(t)
        PROVE  OpOK(u)'
    BY <1>16, <1>0, <1>a, Zenon DEF AddRefs, Goto, MsgTypeOK, OpOK, Free
  <1>17. ASSUME NEW t \in Threads, NEW d \in Slots, WritePipe(t, d)
        PROVE  OpOK(u)'
    BY <1>17, <1>0, <1>a, Zenon DEF WritePipe, MsgTypeOK, OpOK, Free
  <1>18. ASSUME NEW t \in Threads, NEW d \in Slots, WriteFails(t, d)
        PROVE  OpOK(u)'
    BY <1>18, <1>0, <1>a, Zenon DEF WriteFails, MsgTypeOK, OpOK, Free
  <1>19. ASSUME NEW t \in Threads, RmRefs(t)
        PROVE  OpOK(u)'
    BY <1>19, <1>0, <1>a, Where, Sources, Ranges, SMTT(30) DEF RmRefs, Goto, Frees, MsgTypeOK, OpOK, Free
  <1>20. ASSUME NEW m \in Metas, EngineGoes(m)
         PROVE  OpOK(u)'
    BY <1>20, <1>a, Zenon DEF EngineGoes, OpOK
  <1>21. CASE UNCHANGED msgVars
    BY <1>21, <1>a, Zenon DEF OpOK
  <1> QED
    BY <1>1, <1>2, <1>3, <1>4, <1>5, <1>6, <1>7, <1>8, <1>9, <1>10, <1>11, <1>12, <1>13,
       <1>14, <1>15, <1>16, <1>17, <1>18, <1>19, <1>20, <1>21, Zenon
       DEF MsgNext, MsgStarts, MsgContinues

\* What an operation has left of its message stays as it is: nobody else
\* writes to the message.
LEMMA LeftStep ==
    ASSUME MsgInv, [MsgNext]_msgVars, NEW u \in Threads
    PROVE  LeftOK(u)'
  <1> USE MsgAssumption DEF msgs, counters, ops, args, dist, msgVars
  <1>0. MsgTypeOK
    BY Zenon DEF MsgInv
  <1>a. /\ OpOK(u) /\ LeftOK(u)
        /\ call[u] = "idle" => at[u] = "done"
        /\ call[u] # "idle" => slot[u] \in Slots /\ Owner[slot[u]] = u
    BY Zenon DEF MsgInv, OpOK
  <1>1. ASSUME NEW t \in Threads, NEW s \in Slots, NEW c \in Contents, InitSize(t, s, c)
        PROVE  LeftOK(u)'
    BY <1>1, <1>0, <1>a, Where, Sources DEF InitSize, MsgTypeOK, OpOK, LeftOK, Free
  <1>2. ASSUME NEW t \in Threads, NEW s \in Slots, NEW m \in Metas, SetMetadata(t, s, m)
        PROVE  LeftOK(u)'
    BY <1>2, <1>0, <1>a, Where, Sources DEF SetMetadata, MsgTypeOK, OpOK, LeftOK, Free
  <1>3. ASSUME NEW t \in Threads, NEW s \in Slots, NEW d \in Slots, Pass(t, s, d)
        PROVE  LeftOK(u)'
    BY <1>3, <1>0, <1>a, Where, Sources DEF Pass, MsgTypeOK, LeftOK, Free, Busy, Is
  <1>4. ASSUME NEW t \in Threads, NEW s \in Slots, Close(t, s)
        PROVE  LeftOK(u)'
    BY <1>4, <1>0, <1>a, Where, Sources, SMTT(30) DEF Close, Starts, MsgTypeOK, OpOK, LeftOK, Free
  <1>5. ASSUME NEW t \in Threads, NEW s \in Slots, NEW d \in Slots, Move(t, s, d)
        PROVE  LeftOK(u)'
    BY <1>5, <1>0, <1>a, Where, Sources DEF Move, Starts, MsgTypeOK, OpOK, LeftOK, Free
  <1>6. ASSUME NEW t \in Threads, NEW s \in Slots, NEW d \in Slots, Copy(t, s, d)
        PROVE  LeftOK(u)'
    BY <1>6, <1>0, <1>a, Where, Sources DEF Copy, Starts, MsgTypeOK, OpOK, LeftOK, Free
  <1>7. ASSUME NEW t \in Threads, NEW s \in Slots,
               NEW pipes \in SUBSET {d \in Slots : Owner[d] # t}, Send(t, s, pipes)
        PROVE  LeftOK(u)'
    BY <1>7, <1>0, <1>a, Where, Sources DEF Send, Starts, MsgTypeOK, OpOK, LeftOK, Free
  <1>8. ASSUME NEW t \in Threads, CloseContent(t)
        PROVE  LeftOK(u)'
    BY <1>8, <1>0, <1>a, Where, Sources DEF CloseContent, Goto, Frees, MsgTypeOK, OpOK, LeftOK, Free
  <1>9. ASSUME NEW t \in Threads, FreeContent(t)
        PROVE  LeftOK(u)'
    BY <1>9, <1>0, <1>a, Where, Sources DEF FreeContent, Frees, MsgTypeOK, OpOK, LeftOK, Free
  <1>10. ASSUME NEW t \in Threads, DropMetadata(t)
        PROVE  LeftOK(u)'
    BY <1>10, <1>0, <1>a, Where, Sources, SMTT(30) DEF DropMetadata, Goto, Frees, AfterMetadata, MsgTypeOK, OpOK, LeftOK, Free
  <1>11. ASSUME NEW t \in Threads, DeleteMetadata(t)
        PROVE  LeftOK(u)'
    BY <1>11, <1>0, <1>a, Where, Sources DEF DeleteMetadata, Frees, AfterMetadata, MsgTypeOK, OpOK, LeftOK, Free
  <1>12. ASSUME NEW t \in Threads, CloseDone(t)
        PROVE  LeftOK(u)'
    BY <1>12, <1>0, <1>a, Where, Sources DEF CloseDone, Returns, MsgTypeOK, OpOK, LeftOK, Free
  <1>13. ASSUME NEW t \in Threads, MoveDone(t)
        PROVE  LeftOK(u)'
    BY <1>13, <1>0, <1>a, Where, Sources, SMTT(30) DEF MoveDone, Returns, MsgTypeOK, OpOK, LeftOK, Free
  <1>14. ASSUME NEW t \in Threads, CopyContent(t)
        PROVE  LeftOK(u)'
    BY <1>14, <1>0, <1>a, Where, Sources, SMTT(30) DEF CopyContent, Goto, MsgTypeOK, OpOK, LeftOK, Free
  <1>15. ASSUME NEW t \in Threads, CopyMetadata(t)
        PROVE  LeftOK(u)'
    BY <1>15, <1>0, <1>a, Where, Sources DEF CopyMetadata, Returns, MsgTypeOK, OpOK, LeftOK, Free
  <1>16. ASSUME NEW t \in Threads, AddRefs(t)
        PROVE  LeftOK(u)'
    BY <1>16, <1>0, <1>a, Where, Sources DEF AddRefs, Goto, MsgTypeOK, OpOK, LeftOK, Free
  <1>17. ASSUME NEW t \in Threads, NEW d \in Slots, WritePipe(t, d)
        PROVE  LeftOK(u)'
    BY <1>17, <1>0, <1>a, Where, Sources DEF WritePipe, MsgTypeOK, LeftOK, Busy, Is
  <1>18. ASSUME NEW t \in Threads, NEW d \in Slots, WriteFails(t, d)
        PROVE  LeftOK(u)'
    BY <1>18, <1>0, <1>a, Where, Sources, Zenon DEF WriteFails, MsgTypeOK, OpOK, LeftOK, Free
  <1>19. ASSUME NEW t \in Threads, RmRefs(t)
        PROVE  LeftOK(u)'
    BY <1>19, <1>0, <1>a, Where, Sources, SMTT(30) DEF RmRefs, Goto, Frees, MsgTypeOK, OpOK, LeftOK, Free
  <1>20. ASSUME NEW m \in Metas, EngineGoes(m)
         PROVE  LeftOK(u)'
    BY <1>20, <1>a, Zenon DEF EngineGoes, LeftOK
  <1>21. CASE UNCHANGED msgVars
    BY <1>21, <1>a, Zenon DEF LeftOK
  <1> QED
    BY <1>1, <1>2, <1>3, <1>4, <1>5, <1>6, <1>7, <1>8, <1>9, <1>10, <1>11, <1>12, <1>13,
       <1>14, <1>15, <1>16, <1>17, <1>18, <1>19, <1>20, <1>21, Zenon
       DEF MsgNext, MsgStarts, MsgContinues

\* One for another leaves a finite set as large as it was.
LEMMA Swap ==
    ASSUME CardFacts, NEW S, IsFiniteSet(S), NEW a \in S, NEW b, b \notin S
    PROVE  /\ IsFiniteSet((S \ {a}) \cup {b})
           /\ Cardinality((S \ {a}) \cup {b}) = Cardinality(S)
  <1>1. /\ IsFiniteSet(S \ {a}) /\ Cardinality(S \ {a}) = Cardinality(S) - 1
        /\ Cardinality(S) \in Nat
    BY CardRemove, CardType, Zenon
  <1>2. /\ IsFiniteSet((S \ {a}) \cup {b})
        /\ Cardinality((S \ {a}) \cup {b}) = Cardinality(S \ {a}) + 1
    BY <1>1, CardAdd, Zenon
  <1> QED
    BY <1>1, <1>2

\* A finite set that loses an element.
LEMMA Removed ==
    ASSUME CardFacts, NEW S, IsFiniteSet(S), NEW a \in S, NEW R, R = S \ {a}
    PROVE  /\ IsFiniteSet(R) /\ Cardinality(R) = Cardinality(S) - 1
           /\ Cardinality(S) \in Nat /\ Cardinality(R) \in Nat
           /\ Cardinality(R) = 0 <=> R = {}
  BY CardRemove, CardType, CardEmpty, Zenon

\* The references to metadata can be counted.
LEMMA MetaFinite ==
    ASSUME CardFacts, NEW x \in Metas
    PROVE  /\ IsFiniteSet(MetaRefs(x)) /\ Cardinality(MetaRefs(x)) \in Nat
           /\ Cardinality(MetaRefs(x)) = 0 <=> MetaRefs(x) = {}
  <1>1. MetaRefs(x) \in SUBSET Slots
    BY Zenon DEF MetaRefs
  <1> QED
    BY <1>1, Counted, CardEmpty, Zenon

\* A step that leaves the references and the counter of metadata alone.
LEMMA MetaSame ==
    ASSUME NEW x \in Metas, MetaCountOK(x), MetaRefs(x)' = MetaRefs(x),
           Freeing(x)' = Freeing(x), ref_cnt'[x] = ref_cnt[x], engines' = engines
    PROVE  MetaCountOK(x)'
  BY Zenon DEF MetaCountOK, EngineRef

\* A reference that moves from one message to another.
LEMMA MetaMoves ==
    ASSUME CardFacts, NEW x \in Metas, MetaCountOK(x), NEW s \in MetaRefs(x), NEW d, d \notin MetaRefs(x),
           MetaRefs(x)' = (MetaRefs(x) \ {s}) \cup {d},
           Freeing(x)' = Freeing(x), ref_cnt'[x] = ref_cnt[x], engines' = engines
    PROVE  MetaCountOK(x)'
  <1>1. Cardinality(MetaRefs(x)') = Cardinality(MetaRefs(x)) /\ MetaRefs(x)' # {}
    BY MetaFinite, Swap
  <1> QED
    BY <1>1, Zenon DEF MetaCountOK, EngineRef

\* A message that gets a reference, while there is another one.
LEMMA MetaAdded ==
    ASSUME CardFacts, NEW x \in Metas, MsgTypeOK, MetaCountOK(x), MetaRefs(x) # {} \/ x \in engines,
           NEW s, s \notin MetaRefs(x), MetaRefs(x)' = MetaRefs(x) \cup {s},
           Freeing(x)' = Freeing(x), ref_cnt'[x] = ref_cnt[x] + 1, engines' = engines
    PROVE  MetaCountOK(x)'
  <1>1. Cardinality(MetaRefs(x)') = Cardinality(MetaRefs(x)) + 1 /\ MetaRefs(x)' # {}
    BY MetaFinite, CardAdd, Zenon
  <1>2. ref_cnt[x] = Cardinality(MetaRefs(x)) + EngineRef(x) /\ Freeing(x) = {}
    BY Zenon DEF MetaCountOK
  <1>3. EngineRef(x)' = EngineRef(x) /\ EngineRef(x) \in Int /\ Cardinality(MetaRefs(x)) \in Nat
    BY MetaFinite DEF EngineRef
  <1>4. ref_cnt'[x] = Cardinality(MetaRefs(x)') + EngineRef(x)'
    BY <1>1, <1>2, <1>3
  <1> QED
    BY <1>1, <1>2, <1>4, Zenon DEF MetaCountOK

\* InitSize leaves the counter of metadata equal to its references.
LEMMA MetaInitSize ==
    ASSUME MsgInv, NEW x \in Metas,
           NEW t \in Threads, NEW s \in Slots, NEW c \in Contents, InitSize(t, s, c)
    PROVE  MetaCountOK(x)'
  <1> USE MsgAssumption DEF msgs, counters, ops, args, dist, msgVars
  <1>0. MsgTypeOK /\ MetaCountOK(x)
    BY Zenon DEF MsgInv
  <1>1. MetaRefs(x)' = MetaRefs(x) /\ Freeing(x)' = Freeing(x)
    BY Zenon DEF MetaRefs, Freeing, InitSize
  <1> QED
    BY <1>0, <1>1, MetaSame, Zenon DEF InitSize

\* SetMetadata leaves the counter of metadata equal to its references.
LEMMA MetaSetMetadata ==
    ASSUME CardFacts, MsgInv, NEW x \in Metas,
           NEW t \in Threads, NEW s \in Slots, NEW m \in Metas, SetMetadata(t, s, m)
    PROVE  MetaCountOK(x)'
  <1> USE MsgAssumption DEF msgs, counters, ops, args, dist, msgVars
  <1>0. MsgTypeOK /\ MetaCountOK(x)
    BY Zenon DEF MsgInv
  <1>1. Freeing(x)' = Freeing(x)
    BY Zenon DEF Freeing, SetMetadata
  <1>2. CASE m # x
    <2>1. MetaRefs(x)' = MetaRefs(x) /\ ref_cnt'[x] = ref_cnt[x]
      BY <1>0, <1>2, Zenon DEF MetaRefs, SetMetadata, MsgTypeOK
    <2> QED
      BY <1>0, <1>1, <2>1, MetaSame, Zenon DEF SetMetadata
  <1>3. CASE m = x
    <2>1. MetaRefs(x)' = MetaRefs(x) \cup {s} /\ s \notin MetaRefs(x)
      BY <1>0, <1>3 DEF MetaRefs, SetMetadata, MsgTypeOK
    <2>2. ref_cnt'[x] = ref_cnt[x] + 1 /\ x \in engines
      BY <1>0, <1>3, Zenon DEF SetMetadata, MsgTypeOK
    <2> QED
      BY <1>0, <1>1, <2>1, <2>2, MetaAdded, Zenon DEF SetMetadata
  <1> QED
    BY <1>2, <1>3, Zenon

\* Pass leaves the counter of metadata equal to its references.
LEMMA MetaPass ==
    ASSUME CardFacts, MsgInv, NEW x \in Metas,
           NEW t \in Threads, NEW s \in Slots, NEW d \in Slots, Pass(t, s, d)
    PROVE  MetaCountOK(x)'
  <1> USE MsgAssumption DEF msgs, counters, ops, args, dist, msgVars
  <1>0. MsgTypeOK /\ MetaCountOK(x)
    BY Zenon DEF MsgInv
  <1>1. Freeing(x)' = Freeing(x) /\ metadata[d] = None /\ s # d
    BY Zenon DEF Freeing, Pass, Is, Free
  <1>2. CASE metadata[s] # x
    <2>1. MetaRefs(x)' = MetaRefs(x)
      BY <1>0, <1>1, <1>2, Zenon DEF MetaRefs, Pass, MsgTypeOK
    <2> QED
      BY <1>0, <1>1, <2>1, MetaSame, Zenon DEF Pass
  <1>3. CASE metadata[s] = x
    <2>1. /\ s \in MetaRefs(x) /\ d \notin MetaRefs(x)
          /\ MetaRefs(x)' = (MetaRefs(x) \ {s}) \cup {d}
      BY <1>0, <1>1, <1>3 DEF MetaRefs, Pass, MsgTypeOK
    <2> QED
      BY <1>0, <1>1, <2>1, MetaMoves, Zenon DEF Pass
  <1> QED
    BY <1>2, <1>3, Zenon

\* Close leaves the counter of metadata equal to its references.
LEMMA MetaClose ==
    ASSUME MsgInv, NEW x \in Metas, NEW t \in Threads, NEW s \in Slots, Close(t, s)
    PROVE  MetaCountOK(x)'
  <1> USE MsgAssumption DEF msgs, counters, ops, args, dist, msgVars
  <1>0. MsgTypeOK /\ MetaCountOK(x)
    BY Zenon DEF MsgInv
  <1>1. MetaRefs(x)' = MetaRefs(x) /\ Freeing(x)' = Freeing(x)
    BY Zenon DEF MetaRefs, Freeing, Close, Starts
  <1> QED
    BY <1>0, <1>1, MetaSame, Zenon DEF Close, Starts

\* Move leaves the counter of metadata equal to its references.
LEMMA MetaMove ==
    ASSUME MsgInv, NEW x \in Metas,
           NEW t \in Threads, NEW s \in Slots, NEW d \in Slots, Move(t, s, d)
    PROVE  MetaCountOK(x)'
  <1> USE MsgAssumption DEF msgs, counters, ops, args, dist, msgVars
  <1>0. MsgTypeOK /\ MetaCountOK(x)
    BY Zenon DEF MsgInv
  <1>1. MetaRefs(x)' = MetaRefs(x) /\ Freeing(x)' = Freeing(x)
    BY Zenon DEF MetaRefs, Freeing, Move, Starts
  <1> QED
    BY <1>0, <1>1, MetaSame, Zenon DEF Move, Starts

\* Copy leaves the counter of metadata equal to its references.
LEMMA MetaCopy ==
    ASSUME MsgInv, NEW x \in Metas,
           NEW t \in Threads, NEW s \in Slots, NEW d \in Slots, Copy(t, s, d)
    PROVE  MetaCountOK(x)'
  <1> USE MsgAssumption DEF msgs, counters, ops, args, dist, msgVars
  <1>0. MsgTypeOK /\ MetaCountOK(x)
    BY Zenon DEF MsgInv
  <1>1. MetaRefs(x)' = MetaRefs(x) /\ Freeing(x)' = Freeing(x)
    BY Zenon DEF MetaRefs, Freeing, Copy, Starts
  <1> QED
    BY <1>0, <1>1, MetaSame, Zenon DEF Copy, Starts

\* Send leaves the counter of metadata equal to its references.
LEMMA MetaSend ==
    ASSUME MsgInv, NEW x \in Metas,
           NEW t \in Threads, NEW s \in Slots, NEW pipes \in SUBSET {d \in Slots : Owner[d] # t}, Send(t, s, pipes)
    PROVE  MetaCountOK(x)'
  <1> USE MsgAssumption DEF msgs, counters, ops, args, dist, msgVars
  <1>0. MsgTypeOK /\ MetaCountOK(x)
    BY Zenon DEF MsgInv
  <1>1. MetaRefs(x)' = MetaRefs(x) /\ Freeing(x)' = Freeing(x)
    BY Zenon DEF MetaRefs, Freeing, Send, Starts
  <1> QED
    BY <1>0, <1>1, MetaSame, Zenon DEF Send, Starts

\* CloseContent leaves the counter of metadata equal to its references.
LEMMA MetaCloseContent ==
    ASSUME MsgInv, NEW x \in Metas, NEW t \in Threads, CloseContent(t)
    PROVE  MetaCountOK(x)'
  <1> USE MsgAssumption DEF msgs, counters, ops, args, dist, msgVars
  <1>0. MsgTypeOK /\ MetaCountOK(x)
    BY Zenon DEF MsgInv
  <1>1. OpOK(t)
    BY Zenon DEF MsgInv
  <1>2. MetaRefs(x)' = MetaRefs(x) /\ last[t] # x
    BY <1>1, Zenon DEF MetaRefs, OpOK, CloseContent
  <1>3. last'[t] # x /\ \A u \in Threads : u # t => last'[u] = last[u]
    BY <1>2, <1>0, Where, Ranges DEF MsgTypeOK, CloseContent, Goto, Frees
  <1>4. Freeing(x)' = Freeing(x)
    BY <1>2, <1>3, Zenon DEF Freeing
  <1> QED
    BY <1>0, <1>2, <1>4, MetaSame, Zenon DEF CloseContent

\* FreeContent leaves the counter of metadata equal to its references.
LEMMA MetaFreeContent ==
    ASSUME MsgInv, NEW x \in Metas, NEW t \in Threads, FreeContent(t)
    PROVE  MetaCountOK(x)'
  <1> USE MsgAssumption DEF msgs, counters, ops, args, dist, msgVars
  <1>0. MsgTypeOK /\ MetaCountOK(x)
    BY Zenon DEF MsgInv
  <1>1. OpOK(t)
    BY Zenon DEF MsgInv
  <1>2. MetaRefs(x)' = MetaRefs(x) /\ last[t] # x
    BY <1>1, Zenon DEF MetaRefs, OpOK, FreeContent
  <1>3. last'[t] # x /\ \A u \in Threads : u # t => last'[u] = last[u]
    BY <1>2, <1>0, Zenon DEF MsgTypeOK, FreeContent, Frees
  <1>4. Freeing(x)' = Freeing(x)
    BY <1>2, <1>3, Zenon DEF Freeing
  <1> QED
    BY <1>0, <1>2, <1>4, MetaSame, Zenon DEF FreeContent

\* DropMetadata leaves the counter of metadata equal to its references.
LEMMA MetaDropMetadata ==
    ASSUME CardFacts, MsgInv, NEW x \in Metas, NEW t \in Threads, DropMetadata(t)
    PROVE  MetaCountOK(x)'
  <1> USE MsgAssumption DEF msgs, counters, ops, args, dist, msgVars
  <1>0. MsgTypeOK /\ MetaCountOK(x)
    BY Zenon DEF MsgInv
  <1>1. slot[t] \in Slots /\ OpOK(t) /\ last[t] = None
    BY Where, Zenon DEF DropMetadata, MsgInv, OpOK
  <1>2. CASE metadata[slot[t]] # x
    <2>1. MetaRefs(x)' = MetaRefs(x)
      BY <1>0, <1>1, <1>2, Zenon DEF MetaRefs, DropMetadata, MsgTypeOK
    <2>2. ref_cnt'[x] = ref_cnt[x]
      BY <1>0, <1>2, Zenon DEF DropMetadata, MsgTypeOK
    <2>3. last'[t] # x /\ \A u \in Threads : u # t => last'[u] = last[u]
      BY <1>0, <1>1, <1>2, Zenon DEF DropMetadata, Goto, Frees, MsgTypeOK
    <2>4. Freeing(x)' = Freeing(x)
      BY <1>1, <2>3, Zenon DEF Freeing
    <2> QED
      BY <1>0, <2>1, <2>2, <2>4, MetaSame, Zenon DEF DropMetadata
  <1>3. CASE metadata[slot[t]] = x
    <2>1. /\ slot[t] \in MetaRefs(x) /\ MetaRefs(x)' = MetaRefs(x) \ {slot[t]}
      BY <1>0, <1>1, <1>3, Zenon DEF MetaRefs, DropMetadata, MsgTypeOK
    <2>2. Freeing(x) = {} /\ ref_cnt[x] = Cardinality(MetaRefs(x)) + EngineRef(x)
      BY <1>0, <2>1, Zenon DEF MetaCountOK
    <2>3. /\ Cardinality(MetaRefs(x)') = Cardinality(MetaRefs(x)) - 1
          /\ Cardinality(MetaRefs(x)) \in Nat /\ Cardinality(MetaRefs(x)') \in Nat
          /\ Cardinality(MetaRefs(x)') = 0 <=> MetaRefs(x)' = {}
      BY <2>1, MetaFinite, Removed, Zenon
    <2>4. /\ ref_cnt'[x] = ref_cnt[x] - 1 /\ engines' = engines
      BY <1>0, <1>3, Zenon DEF DropMetadata, MsgTypeOK
    <2>5. CASE ref_cnt[x] = 1
      <3>1. last' = [last EXCEPT ![t] = x]
        BY <1>3, <2>5, Zenon DEF DropMetadata, Frees
      <3>2. Freeing(x)' = {t}
        BY <1>0, <2>2, <3>1 DEF Freeing, MsgTypeOK
      <3>3. MetaRefs(x)' = {} /\ x \notin engines
        BY <2>2, <2>3, <2>5 DEF EngineRef
      <3> QED
        BY <2>4, <2>5, <3>2, <3>3 DEF MetaCountOK
    <2>6. CASE ref_cnt[x] # 1
      <3>1. Freeing(x)' = {}
        BY <1>3, <2>2, <2>6, Zenon DEF DropMetadata, Goto, Freeing
      <3>2. ref_cnt'[x] = Cardinality(MetaRefs(x)') + EngineRef(x)'
        BY <2>2, <2>3, <2>4 DEF EngineRef
      <3>3. MetaRefs(x)' # {} \/ x \in engines'
        BY <2>2, <2>3, <2>4, <2>6 DEF EngineRef
      <3> QED
        BY <3>1, <3>2, <3>3, Zenon DEF MetaCountOK
    <2> QED
      BY <2>5, <2>6, Zenon
  <1> QED
    BY <1>2, <1>3, Zenon

\* DeleteMetadata leaves the counter of metadata equal to its references.
LEMMA MetaDeleteMetadata ==
    ASSUME MsgInv, NEW x \in Metas, NEW t \in Threads, DeleteMetadata(t)
    PROVE  MetaCountOK(x)'
  <1> USE MsgAssumption DEF msgs, counters, ops, args, dist, msgVars
  <1>0. MsgTypeOK /\ MetaCountOK(x)
    BY Zenon DEF MsgInv
  <1>1. last[t] \in Metas
    BY Sources, Zenon DEF DeleteMetadata
  <1>2. MetaRefs(x)' = MetaRefs(x) /\ last' = [last EXCEPT ![t] = None] /\ engines' = engines
    BY Zenon DEF MetaRefs, DeleteMetadata, Frees
  <1>3. CASE last[t] # x
    <2>1. ref_cnt'[x] = ref_cnt[x]
      BY <1>0, <1>3, Zenon DEF DeleteMetadata, MsgTypeOK
    <2>2. Freeing(x)' = Freeing(x)
      BY <1>0, <1>2, <1>3, Zenon DEF Freeing, MsgTypeOK
    <2> QED
      BY <1>0, <1>2, <2>1, <2>2, MetaSame, Zenon
  <1>4. CASE last[t] = x
    <2>1. t \in Freeing(x)
      BY <1>4, Zenon DEF Freeing
    <2>2. MetaRefs(x) = {} /\ x \notin engines /\ Freeing(x) = {t}
      BY <1>0, <2>1, Zenon DEF MetaCountOK
    <2>3. Freeing(x)' = {}
      BY <1>0, <1>2, <2>2, Zenon DEF Freeing, MsgTypeOK
    <2>4. ref_cnt'[x] = -1
      BY <1>0, <1>4, Zenon DEF DeleteMetadata, MsgTypeOK
    <2> QED
      BY <1>2, <2>2, <2>3, <2>4, Zenon DEF MetaCountOK
  <1> QED
    BY <1>3, <1>4, Zenon

\* CloseDone leaves the counter of metadata equal to its references.
LEMMA MetaCloseDone ==
    ASSUME MsgInv, NEW x \in Metas, NEW t \in Threads, CloseDone(t)
    PROVE  MetaCountOK(x)'
  <1> USE MsgAssumption DEF msgs, counters, ops, args, dist, msgVars
  <1>0. MsgTypeOK /\ MetaCountOK(x)
    BY Zenon DEF MsgInv
  <1>1. MetaRefs(x)' = MetaRefs(x) /\ Freeing(x)' = Freeing(x)
    BY Zenon DEF MetaRefs, Freeing, CloseDone, Returns
  <1> QED
    BY <1>0, <1>1, MetaSame, Zenon DEF CloseDone

\* MoveDone leaves the counter of metadata equal to its references.
LEMMA MetaMoveDone ==
    ASSUME CardFacts, MsgInv, NEW x \in Metas, NEW t \in Threads, MoveDone(t)
    PROVE  MetaCountOK(x)'
  <1> USE MsgAssumption DEF msgs, counters, ops, args, dist, msgVars
  <1>0. MsgTypeOK /\ MetaCountOK(x)
    BY Zenon DEF MsgInv
  <1>1. /\ slot[t] \in Slots /\ from[t] \in Slots /\ from[t] # slot[t]
        /\ metadata[slot[t]] = None
    BY Where, Sources, Zenon DEF MoveDone, MsgInv, LeftOK
  <1>2. Freeing(x)' = Freeing(x)
    BY Zenon DEF Freeing, MoveDone, Returns
  <1>3. CASE metadata[from[t]] # x
    <2>1. MetaRefs(x)' = MetaRefs(x)
      BY <1>0, <1>1, <1>3, Zenon DEF MetaRefs, MoveDone, MsgTypeOK
    <2> QED
      BY <1>0, <1>2, <2>1, MetaSame, Zenon DEF MoveDone
  <1>4. CASE metadata[from[t]] = x
    <2>1. /\ from[t] \in MetaRefs(x) /\ slot[t] \notin MetaRefs(x)
          /\ MetaRefs(x)' = (MetaRefs(x) \ {from[t]}) \cup {slot[t]}
      BY <1>0, <1>1, <1>4 DEF MetaRefs, MoveDone, MsgTypeOK
    <2> QED
      BY <1>0, <1>2, <2>1, MetaMoves, Zenon DEF MoveDone
  <1> QED
    BY <1>3, <1>4, Zenon

\* CopyContent leaves the counter of metadata equal to its references.
LEMMA MetaCopyContent ==
    ASSUME MsgInv, NEW x \in Metas, NEW t \in Threads, CopyContent(t)
    PROVE  MetaCountOK(x)'
  <1> USE MsgAssumption DEF msgs, counters, ops, args, dist, msgVars
  <1>0. MsgTypeOK /\ MetaCountOK(x)
    BY Zenon DEF MsgInv
  <1>1. MetaRefs(x)' = MetaRefs(x) /\ Freeing(x)' = Freeing(x)
    BY Zenon DEF MetaRefs, Freeing, CopyContent, Goto
  <1> QED
    BY <1>0, <1>1, MetaSame, Zenon DEF CopyContent

\* CopyMetadata leaves the counter of metadata equal to its references.
LEMMA MetaCopyMetadata ==
    ASSUME CardFacts, MsgInv, NEW x \in Metas, NEW t \in Threads, CopyMetadata(t)
    PROVE  MetaCountOK(x)'
  <1> USE MsgAssumption DEF msgs, counters, ops, args, dist, msgVars
  <1>0. MsgTypeOK /\ MetaCountOK(x)
    BY Zenon DEF MsgInv
  <1>1. slot[t] \in Slots /\ from[t] \in Slots /\ metadata[slot[t]] = None
    BY Where, Sources, Zenon DEF CopyMetadata, MsgInv, LeftOK
  <1>2. Freeing(x)' = Freeing(x)
    BY Zenon DEF Freeing, CopyMetadata, Returns
  <1>3. CASE metadata[from[t]] # x
    <2>1. MetaRefs(x)' = MetaRefs(x)
      BY <1>0, <1>1, <1>3, Zenon DEF MetaRefs, CopyMetadata, MsgTypeOK
    <2>2. ref_cnt'[x] = ref_cnt[x]
      BY <1>0, <1>3, Zenon DEF CopyMetadata, MsgTypeOK
    <2> QED
      BY <1>0, <1>2, <2>1, <2>2, MetaSame, Zenon DEF CopyMetadata
  <1>4. CASE metadata[from[t]] = x
    <2>1. /\ MetaRefs(x) # {} /\ slot[t] \notin MetaRefs(x)
          /\ MetaRefs(x)' = MetaRefs(x) \cup {slot[t]}
      BY <1>0, <1>1, <1>4 DEF MetaRefs, CopyMetadata, MsgTypeOK
    <2>2. ref_cnt'[x] = ref_cnt[x] + 1
      BY <1>0, <1>4, Zenon DEF CopyMetadata, MsgTypeOK
    <2> QED
      BY <1>0, <1>2, <2>1, <2>2, MetaAdded, Zenon DEF CopyMetadata
  <1> QED
    BY <1>3, <1>4, Zenon

\* AddRefs leaves the counter of metadata equal to its references.
LEMMA MetaAddRefs ==
    ASSUME MsgInv, NEW x \in Metas, NEW t \in Threads, AddRefs(t)
    PROVE  MetaCountOK(x)'
  <1> USE MsgAssumption DEF msgs, counters, ops, args, dist, msgVars
  <1>0. MsgTypeOK /\ MetaCountOK(x)
    BY Zenon DEF MsgInv
  <1>1. MetaRefs(x)' = MetaRefs(x) /\ Freeing(x)' = Freeing(x)
    BY Zenon DEF MetaRefs, Freeing, AddRefs, Goto
  <1> QED
    BY <1>0, <1>1, MetaSame, Zenon DEF AddRefs

\* WritePipe leaves the counter of metadata equal to its references.
LEMMA MetaWritePipe ==
    ASSUME MsgInv, NEW x \in Metas, NEW t \in Threads, NEW d \in Slots, WritePipe(t, d)
    PROVE  MetaCountOK(x)'
  <1> USE MsgAssumption DEF msgs, counters, ops, args, dist, msgVars
  <1>0. MsgTypeOK /\ MetaCountOK(x)
    BY Zenon DEF MsgInv
  <1>1. MetaRefs(x)' = MetaRefs(x) /\ Freeing(x)' = Freeing(x)
    BY Zenon DEF MetaRefs, Freeing, WritePipe
  <1> QED
    BY <1>0, <1>1, MetaSame, Zenon DEF WritePipe

\* WriteFails leaves the counter of metadata equal to its references.
LEMMA MetaWriteFails ==
    ASSUME MsgInv, NEW x \in Metas, NEW t \in Threads, NEW d \in Slots, WriteFails(t, d)
    PROVE  MetaCountOK(x)'
  <1> USE MsgAssumption DEF msgs, counters, ops, args, dist, msgVars
  <1>0. MsgTypeOK /\ MetaCountOK(x)
    BY Zenon DEF MsgInv
  <1>1. MetaRefs(x)' = MetaRefs(x) /\ Freeing(x)' = Freeing(x)
    BY Zenon DEF MetaRefs, Freeing, WriteFails
  <1> QED
    BY <1>0, <1>1, MetaSame, Zenon DEF WriteFails

\* RmRefs leaves the counter of metadata equal to its references.
LEMMA MetaRmRefs ==
    ASSUME MsgInv, NEW x \in Metas, NEW t \in Threads, RmRefs(t)
    PROVE  MetaCountOK(x)'
  <1> USE MsgAssumption DEF msgs, counters, ops, args, dist, msgVars
  <1>0. MsgTypeOK /\ MetaCountOK(x)
    BY Zenon DEF MsgInv
  <1>1. OpOK(t)
    BY Zenon DEF MsgInv
  <1>2. MetaRefs(x)' = MetaRefs(x) /\ last[t] # x
    BY <1>1, Zenon DEF MetaRefs, OpOK, RmRefs
  <1>3. last'[t] # x /\ \A u \in Threads : u # t => last'[u] = last[u]
    BY <1>2, <1>0, Sources DEF MsgTypeOK, RmRefs, Goto, Frees
  <1>4. Freeing(x)' = Freeing(x)
    BY <1>2, <1>3, Zenon DEF Freeing
  <1> QED
    BY <1>0, <1>2, <1>4, MetaSame, Zenon DEF RmRefs

\* EngineGoes leaves the counter of metadata equal to its references.
LEMMA MetaEngineGoes ==
    ASSUME CardFacts, MsgInv, NEW x \in Metas, NEW m \in Metas, EngineGoes(m)
    PROVE  MetaCountOK(x)'
  <1> USE MsgAssumption DEF msgs, counters, ops, args, dist, msgVars
  <1>0. MsgTypeOK /\ MetaCountOK(x)
    BY Zenon DEF MsgInv
  <1>1. MetaRefs(x)' = MetaRefs(x) /\ Freeing(x)' = Freeing(x)
    BY Zenon DEF MetaRefs, Freeing, EngineGoes
  <1>2. CASE m # x
    BY <1>0, <1>1, <1>2, Zenon DEF EngineGoes, MetaCountOK, EngineRef, MsgTypeOK
  <1>3. CASE m = x
    <2>1. /\ Freeing(x) = {} /\ ref_cnt[x] = Cardinality(MetaRefs(x)) + 1
          /\ x \notin engines'
      BY <1>0, <1>3, Zenon DEF EngineGoes, MetaCountOK, EngineRef
    <2>2. /\ Cardinality(MetaRefs(x)) \in Nat
          /\ Cardinality(MetaRefs(x)) = 0 <=> MetaRefs(x) = {}
      BY MetaFinite, Zenon
    <2>3. ref_cnt'[x] = IF ref_cnt[x] = 1 THEN -1 ELSE ref_cnt[x] - 1
      BY <1>0, <1>3, Zenon DEF EngineGoes, MsgTypeOK
    <2> QED
      BY <1>1, <2>1, <2>2, <2>3 DEF MetaCountOK, EngineRef
  <1> QED
    BY <1>2, <1>3, Zenon

\* A stuttering step leaves the counter of metadata equal to its references.
LEMMA MetaStutters ==
    ASSUME MsgInv, NEW x \in Metas, UNCHANGED msgVars
    PROVE  MetaCountOK(x)'
  <1> USE MsgAssumption DEF msgs, counters, ops, args, dist, msgVars
  <1>0. MsgTypeOK /\ MetaCountOK(x)
    BY Zenon DEF MsgInv
  <1>1. MetaRefs(x)' = MetaRefs(x) /\ Freeing(x)' = Freeing(x)
    BY Zenon DEF MetaRefs, Freeing
  <1> QED
    BY <1>0, <1>1, MetaSame, Zenon

\* The counter of metadata is the number of its references.
LEMMA MetaStep ==
    ASSUME CardFacts, MsgInv, [MsgNext]_msgVars, NEW x \in Metas
    PROVE  MetaCountOK(x)'
  BY MetaInitSize, MetaSetMetadata, MetaPass, MetaClose, MetaMove, MetaCopy, MetaSend, Zenon,
     MetaCloseContent, MetaFreeContent, MetaDropMetadata, MetaDeleteMetadata,
     MetaCloseDone, MetaMoveDone, MetaCopyContent, MetaCopyMetadata, MetaAddRefs,
     MetaWritePipe, MetaWriteFails, MetaRmRefs, MetaEngineGoes, MetaStutters
     DEF MsgNext, MsgStarts, MsgContinues

===========================================================================
