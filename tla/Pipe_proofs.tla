---------------------------- MODULE Pipe_proofs ----------------------------
(* The two ends of a pipe share their ypipes safely, for any setup.        *)
EXTENDS Pipe, TLAPS

---------------------------------------------------------------------------
(* Sequences and numbers.                                                  *)

\* The empty sequence, and what it leaves alone.
LEMMA EmptySeq ==
  ASSUME NEW S
  PROVE  << >> \in Seq(S) /\ \A q \in Seq(S) : q = << >> <=> Len(q) = 0
OBVIOUS
LEMMA ConcatEmptySeq ==
  ASSUME NEW S, NEW q \in Seq(S)
  PROVE  q \o << >> = q /\ << >> \o q = q
OBVIOUS

\* One element is replaced.
LEMMA ExceptSeq ==
  ASSUME NEW S, NEW q \in Seq(S), NEW i \in 1 .. Len(q), NEW e \in S
  PROVE  /\ [q EXCEPT ![i] = e] \in Seq(S) /\ Len([q EXCEPT ![i] = e]) = Len(q)
         /\ \A j \in 1 .. Len(q) : [q EXCEPT ![i] = e][j] = IF j = i THEN e ELSE q[j]
OBVIOUS

\* One element, or two, at the end.
LEMMA AppendIsConcat ==
  ASSUME NEW S, NEW q \in Seq(S), NEW x \in S
  PROVE  Append(q, x) = q \o <<x>>
OBVIOUS
LEMMA ConcatAssociative ==
  ASSUME NEW S, NEW q \in Seq(S), NEW r \in Seq(S), NEW t \in Seq(S)
  PROVE  (q \o r) \o t = q \o (r \o t)
OBVIOUS

\* A set of numbers that is not empty has a least element: the library states
\* it, the lemmas assume it, and it is proved where the library is brought in.
LeastFact == \A T \in SUBSET Nat : T # {} => \E x \in T : \A y \in T : x <= y

---------------------------------------------------------------------------
(* Commands, ypipes and the invariant.                                     *)

Commands == [type : CommandTypes, arg : Nat]

---------------------------------------------------------------------------
(* Mailboxes.                                                              *)

\* A command that is sent comes last.
LEMMA Appended ==
  ASSUME NEW q \in Seq(Commands), NEW c \in Commands
  PROVE  /\ Append(q, c) \in Seq(Commands)
         /\ \A t : Has(Append(q, c), t) <=> Has(q, t) \/ c.type = t
         /\ c.type # "hiccup" => Brought(Append(q, c)) = Brought(q)
         /\ c.type = "hiccup" => Brought(Append(q, c)) = Brought(q) \cup {c.arg}
         /\ /\ InSequence(q) /\ ~Has(q, "pipe_term_ack")
            /\ c.type \in {"hiccup", "pipe_term"} => ~Has(q, "pipe_term")
            /\ c.type = "hiccup" => \A r \in Brought(q) : r < c.arg
            => InSequence(Append(q, c))
<1> DEFINE r == Append(q, c)
<1>1. /\ r \in Seq(Commands) /\ Len(r) = Len(q) + 1 /\ r[Len(q) + 1] = c
      /\ \A i \in 1 .. Len(q) : r[i] = q[i]
  OBVIOUS
<1> HIDE DEF r
<1>2. \A t : Has(r, t) <=> Has(q, t) \/ c.type = t
  <2> SUFFICES ASSUME NEW t PROVE Has(r, t) <=> Has(q, t) \/ c.type = t
    BY Zenon
  <2>1. ASSUME Has(r, t) PROVE Has(q, t) \/ c.type = t
    BY <1>1, <2>1 DEF Has
  <2>2. ASSUME Has(q, t) PROVE Has(r, t)
    BY <1>1, <2>2 DEF Has
  <2>3. ASSUME c.type = t PROVE Has(r, t)
    BY <1>1, <2>3 DEF Has
  <2> QED
    BY <2>1, <2>2, <2>3, Zenon
<1>3. c.type # "hiccup" => Brought(r) = Brought(q)
  BY <1>1 DEF Brought
<1>4. c.type = "hiccup" => Brought(r) = Brought(q) \cup {c.arg}
  BY <1>1 DEF Brought
<1>5. ASSUME InSequence(q), ~Has(q, "pipe_term_ack"),
             c.type \in {"hiccup", "pipe_term"} => ~Has(q, "pipe_term"),
             c.type = "hiccup" => \A x \in Brought(q) : x < c.arg
      PROVE  InSequence(r)
  <2> SUFFICES ASSUME NEW i \in 1 .. Len(r), NEW j \in 1 .. Len(r), i < j
               PROVE  /\ r[i].type # "pipe_term_ack"
                      /\ r[i].type = "pipe_term" => r[j].type \notin {"hiccup", "pipe_term"}
                      /\ r[i].type = "hiccup" /\ r[j].type = "hiccup" => r[i].arg < r[j].arg
    BY Zenon DEF InSequence
  <2>1. i \in 1 .. Len(q) /\ r[i] = q[i]
    BY <1>1
  <2>2. CASE j \in 1 .. Len(q)
    BY <1>1, <1>5, <2>1, <2>2, Zenon DEF InSequence
  <2>3. CASE j = Len(q) + 1
    BY <1>1, <1>5, <2>1, <2>3, Zenon DEF Has, Brought
  <2> QED
    BY <1>1, <2>2, <2>3
<1> QED
  BY <1>1, <1>2, <1>3, <1>4, <1>5, Zenon DEF r

\* A command that is processed came first.
LEMMA Taken ==
  ASSUME NEW q \in Seq(Commands), q # <<>>
  PROVE  /\ Tail(q) \in Seq(Commands) /\ Head(q) \in Commands
         /\ \A t : Has(q, t) <=> Has(Tail(q), t) \/ Head(q).type = t
         /\ Head(q).type # "hiccup" => Brought(Tail(q)) = Brought(q)
         /\ Head(q).type = "hiccup" => Brought(q) = Brought(Tail(q)) \cup {Head(q).arg}
         /\ InSequence(q) =>
              /\ InSequence(Tail(q))
              /\ Head(q).type = "pipe_term_ack" => Tail(q) = <<>>
              /\ Head(q).type = "pipe_term" =>
                    ~Has(Tail(q), "pipe_term") /\ ~Has(Tail(q), "hiccup")
              /\ Head(q).type = "hiccup" => \A r \in Brought(Tail(q)) : Head(q).arg < r
<1> DEFINE r == Tail(q)
           c == Head(q)
<1>1. /\ r \in Seq(Commands) /\ Len(q) = Len(r) + 1 /\ q[1] = c /\ c \in Commands
      /\ \A i \in 1 .. Len(r) : r[i] = q[i + 1]
      /\ \A i \in 1 .. Len(q) : i = 1 \/ (i - 1 \in 1 .. Len(r) /\ r[i - 1] = q[i])
  OBVIOUS
<1>0. Len(r) = 0 => r = <<>>
  BY <1>1, EmptySeq, Zenon
<1> HIDE DEF r, c
<1>2. \A t : Has(q, t) <=> Has(r, t) \/ c.type = t
  <2> SUFFICES ASSUME NEW t PROVE Has(q, t) <=> Has(r, t) \/ c.type = t
    BY Zenon
  <2>1. ASSUME Has(q, t) PROVE Has(r, t) \/ c.type = t
    BY <1>1, <2>1, Zenon DEF Has
  <2>2. ASSUME Has(r, t) PROVE Has(q, t)
    <3>1. PICK i \in 1 .. Len(r) : r[i].type = t
      BY <2>2, Zenon DEF Has
    <3> QED
      BY <1>1, <3>1, i + 1 \in 1 .. Len(q), Zenon DEF Has
  <2>3. ASSUME c.type = t PROVE Has(q, t)
    BY <1>1, <2>3, 1 \in 1 .. Len(q), Zenon DEF Has
  <2> QED
    BY <2>1, <2>2, <2>3, Zenon
<1>3. \A x \in Brought(r) : x \in Brought(q)
  BY <1>1, SMTT(30) DEF Brought
<1>4. \A x \in Brought(q) : x \in Brought(r) \/ (c.type = "hiccup" /\ x = c.arg)
  <2> SUFFICES ASSUME NEW x \in Brought(q), ~(c.type = "hiccup" /\ x = c.arg)
               PROVE  x \in Brought(r)
    BY Zenon
  <2>1. PICK i \in 1 .. Len(q) : q[i].type = "hiccup" /\ x = q[i].arg
    BY Zenon DEF Brought
  <2>2. i - 1 \in 1 .. Len(r) /\ r[i - 1] = q[i]
    BY <1>1, <2>1, Zenon
  <2> QED
    BY <2>1, <2>2, Zenon DEF Brought
<1>5. c.type = "hiccup" => c.arg \in Brought(q)
  BY <1>1, 1 \in 1 .. Len(q), Zenon DEF Brought
<1>6. ASSUME InSequence(q) PROVE InSequence(r)
  <2> SUFFICES ASSUME NEW i \in 1 .. Len(r), NEW j \in 1 .. Len(r), i < j
               PROVE  /\ r[i].type # "pipe_term_ack"
                      /\ r[i].type = "pipe_term" => r[j].type \notin {"hiccup", "pipe_term"}
                      /\ r[i].type = "hiccup" /\ r[j].type = "hiccup" => r[i].arg < r[j].arg
    BY Zenon DEF InSequence
  <2>1. i + 1 \in 1 .. Len(q) /\ j + 1 \in 1 .. Len(q) /\ i + 1 < j + 1
        /\ r[i] = q[i + 1] /\ r[j] = q[j + 1]
    BY <1>1
  <2> QED
    BY <1>6, <2>1, Zenon DEF InSequence
<1>7. ASSUME InSequence(q)
      PROVE  \A i \in 1 .. Len(r) :
                /\ c.type # "pipe_term_ack"
                /\ c.type = "pipe_term" => r[i].type \notin {"hiccup", "pipe_term"}
                /\ c.type = "hiccup" /\ r[i].type = "hiccup" => c.arg < r[i].arg
  <2> SUFFICES ASSUME NEW i \in 1 .. Len(r)
               PROVE /\ c.type # "pipe_term_ack"
                     /\ c.type = "pipe_term" => r[i].type \notin {"hiccup", "pipe_term"}
                     /\ c.type = "hiccup" /\ r[i].type = "hiccup" => c.arg < r[i].arg
    BY Zenon
  <2>1. 1 \in 1 .. Len(q) /\ i + 1 \in 1 .. Len(q) /\ 1 < i + 1 /\ q[1] = c /\ q[i + 1] = r[i]
    BY <1>1
  <2> QED
    BY <1>7, <2>1, Zenon DEF InSequence
<1>8. ASSUME InSequence(q)
      PROVE  /\ c.type = "pipe_term_ack" => r = <<>>
             /\ c.type = "pipe_term" => ~Has(r, "pipe_term") /\ ~Has(r, "hiccup")
             /\ c.type = "hiccup" => \A x \in Brought(r) : c.arg < x
  <2>1. c.type = "pipe_term_ack" => r = <<>>
    BY <1>0, <1>1, <1>7, <1>8, 1 \in 1 .. Len(r) \/ Len(r) = 0, Zenon
  <2>2. c.type = "pipe_term" => ~Has(r, "pipe_term") /\ ~Has(r, "hiccup")
    BY <1>7, <1>8, Zenon DEF Has
  <2>3. c.type = "hiccup" => \A x \in Brought(r) : c.arg < x
    BY <1>7, <1>8, Zenon DEF Brought
  <2> QED
    BY <2>1, <2>2, <2>3, Zenon
<1> QED
  BY <1>1, <1>2, <1>3, <1>4, <1>5, <1>6, <1>8, Zenon DEF r, c

---------------------------------------------------------------------------
(* Ypipes.                                                                 *)

IsYPipe(q) == q \in YPipes /\ q.complete <= Len(q.batch)

\* What the operations of ypipe_t return is a ypipe, which exists as before.
LEMMA NewYPipes ==
  IsYPipe(NewYPipe) /\ NewYPipe.exists
  /\ \A q : IsYPipe(Deleted(q)) /\ ~Deleted(q).exists
<1>1. NewYPipe \in YPipes /\ NewYPipe.complete = 0 /\ Len(NewYPipe.batch) = 0 /\ NewYPipe.exists
  BY EmptySeq, Zenon DEF NewYPipe, YPipes
<1>2. ASSUME NEW q PROVE Deleted(q) \in YPipes /\ ~Deleted(q).exists
                         /\ Deleted(q).complete = 0 /\ Len(Deleted(q).batch) = 0
  BY <1>1, EmptySeq, Zenon DEF Deleted, NewYPipe, YPipes
<1> QED
  BY <1>1, <1>2 DEF IsYPipe

\* A message goes to the end of the batch.
LEMMA WrittenYPipe ==
  ASSUME NEW q, IsYPipe(q), NEW msg \in Messages
  PROVE  /\ IsYPipe(Written(q, msg)) /\ Written(q, msg).exists = q.exists
         /\ Written(q, msg).ready = q.ready /\ Written(q, msg).asleep = q.asleep
         /\ Written(q, msg).batch = Append(q.batch, msg)
         /\ Written(q, msg).complete = IF msg.more THEN q.complete ELSE Len(q.batch) + 1
<1>1. /\ q.ready \in Seq(Messages) /\ q.batch \in Seq(Messages) /\ q.complete \in Nat
      /\ q.asleep \in BOOLEAN /\ q.exists \in BOOLEAN /\ q.complete <= Len(q.batch)
  BY Zenon DEF IsYPipe, YPipes
<1>2. Append(q.batch, msg) \in Seq(Messages) /\ Len(Append(q.batch, msg)) = Len(q.batch) + 1
  BY <1>1
<1>3. /\ Written(q, msg).exists = q.exists
      /\ Written(q, msg).ready = q.ready /\ Written(q, msg).asleep = q.asleep
      /\ Written(q, msg).batch = Append(q.batch, msg)
      /\ Written(q, msg).complete = IF msg.more THEN q.complete ELSE Len(q.batch) + 1
  BY Zenon DEF Written, IsYPipe, YPipes
<1>5. Written(q, msg).complete \in Nat
  BY <1>1, <1>3
<1>4. Written(q, msg) \in YPipes
  <2>1. CASE msg.more
    BY <1>1, <1>2, <2>1, Zenon DEF Written, IsYPipe, YPipes
  <2>2. CASE ~msg.more
    <3>1. Len(q.batch) + 1 \in Nat
      BY <1>1
    <3> QED
      BY <1>1, <1>2, <2>2, <3>1, Zenon DEF Written, IsYPipe, YPipes
  <2> QED
    BY <2>1, <2>2, Zenon
<1> QED
  BY <1>1, <1>2, <1>3, <1>4 DEF IsYPipe

\* rollback () leaves what is complete.
LEMMA UnwrittenYPipe ==
  ASSUME NEW q, IsYPipe(q)
  PROVE  /\ IsYPipe(Unwritten(q)) /\ Unwritten(q).exists = q.exists
         /\ Unwritten(q).ready = q.ready /\ Unwritten(q).asleep = q.asleep
         /\ Unwritten(q).complete = q.complete
         /\ Unwritten(q).batch = SubSeq(q.batch, 1, q.complete)
         /\ Len(Unwritten(q).batch) = q.complete
<1>1. /\ q.ready \in Seq(Messages) /\ q.batch \in Seq(Messages) /\ q.complete \in Nat
      /\ q.asleep \in BOOLEAN /\ q.exists \in BOOLEAN /\ q.complete <= Len(q.batch)
  BY Zenon DEF IsYPipe, YPipes
<1>2. SubSeq(q.batch, 1, q.complete) \in Seq(Messages) /\ Len(SubSeq(q.batch, 1, q.complete)) = q.complete
  BY <1>1
<1>3. /\ Unwritten(q).exists = q.exists /\ Unwritten(q).complete = q.complete
      /\ Unwritten(q).ready = q.ready /\ Unwritten(q).asleep = q.asleep
      /\ Unwritten(q).batch = SubSeq(q.batch, 1, q.complete)
  BY Zenon DEF Unwritten, IsYPipe, YPipes
<1>4. Unwritten(q) \in YPipes
  BY <1>1, <1>2, Zenon DEF Unwritten, IsYPipe, YPipes
<1> QED
  BY <1>1, <1>2, <1>3, <1>4 DEF IsYPipe

\* flush () hands over what is complete.
LEMMA FlushedYPipe ==
  ASSUME NEW q, IsYPipe(q)
  PROVE  /\ IsYPipe(Flushed(q)) /\ Flushed(q).exists = q.exists
         /\ Flushed(q).ready = q.ready \o SubSeq(q.batch, 1, q.complete)
         /\ Flushed(q).batch = SubSeq(q.batch, q.complete + 1, Len(q.batch))
         /\ Flushed(q).complete = 0
         /\ Flushed(q).asleep <=> q.asleep /\ q.complete = 0
<1>1. /\ q.ready \in Seq(Messages) /\ q.batch \in Seq(Messages) /\ q.complete \in Nat
      /\ q.asleep \in BOOLEAN /\ q.exists \in BOOLEAN /\ q.complete <= Len(q.batch)
  BY Zenon DEF IsYPipe, YPipes
<1>2. SubSeq(q.batch, 1, q.complete) \in Seq(Messages)
      /\ SubSeq(q.batch, q.complete + 1, Len(q.batch)) \in Seq(Messages)
  BY <1>1
<1>5. q.ready \o SubSeq(q.batch, 1, q.complete) \in Seq(Messages)
  BY <1>1, <1>2
<1>3. /\ Flushed(q).exists = q.exists /\ Flushed(q).complete = 0
      /\ Flushed(q).ready = q.ready \o SubSeq(q.batch, 1, q.complete)
      /\ Flushed(q).batch = SubSeq(q.batch, q.complete + 1, Len(q.batch))
  BY Zenon DEF Flushed, IsYPipe, YPipes
<1>9. Flushed(q).asleep = (q.asleep /\ q.complete = 0)
  BY Zenon DEF Flushed, IsYPipe, YPipes
<1>4. Flushed(q) \in YPipes
  BY <1>1, <1>2, <1>5, Zenon DEF Flushed, IsYPipe, YPipes
<1>6. Len(Flushed(q).batch) \in Nat
  BY <1>2, <1>3
<1>7. IsYPipe(Flushed(q))
  <2>1. Flushed(q).complete <= Len(Flushed(q).batch)
    <3>1. Flushed(q).complete = 0
      BY <1>3, Zenon
    <3> QED
      BY <1>6, <3>1
  <2> QED
    BY <1>4, <2>1, Zenon DEF IsYPipe
<1>8. Flushed(q).asleep <=> q.asleep /\ q.complete = 0
  BY <1>9, Zenon
<1> QED
  BY <1>3, <1>7, <1>8, Zenon

AllYPipes(ys) == ys \in Seq(YPipes) /\ \A i \in 1 .. Len(ys) : ys[i].complete <= Len(ys[i].batch)

IsChanged(zs, ys, k, q) == zs = [ys EXCEPT ![k] = q]
IsAdded(zs, ys, q) == zs = Append(ys, q)

\* One of several ypipes changes.
LEMMA ChangedYPipe ==
  ASSUME NEW ys, AllYPipes(ys), NEW k \in 1 .. Len(ys), NEW q, IsYPipe(q),
         NEW zs, IsChanged(zs, ys, k, q)
  PROVE  /\ AllYPipes(zs) /\ Len(zs) = Len(ys) /\ zs[k] = q
         /\ \A i \in 1 .. Len(ys) : i # k => zs[i] = ys[i]
         /\ IsYPipe(ys[k])
<1>1. ys \in Seq(YPipes) /\ q \in YPipes /\ q.complete <= Len(q.batch)
      /\ \A i \in 1 .. Len(ys) : ys[i].complete <= Len(ys[i].batch)
  BY Zenon DEF AllYPipes, IsYPipe
<1>2. zs \in Seq(YPipes) /\ Len(zs) = Len(ys) /\ zs[k] = q
      /\ \A i \in 1 .. Len(ys) : i # k => zs[i] = ys[i]
  BY <1>1, ExceptSeq DEF IsChanged
<1>3. ys[k] \in YPipes /\ ys[k].complete <= Len(ys[k].batch)
  BY <1>1
<1>4. \A i \in 1 .. Len(zs) : zs[i].complete <= Len(zs[i].batch)
  BY <1>1, <1>2, Zenon
<1> QED
  BY <1>2, <1>3, <1>4, Zenon DEF AllYPipes, IsYPipe

\* A ypipe is added.
LEMMA AddedYPipe ==
  ASSUME NEW ys, AllYPipes(ys), NEW q, IsYPipe(q), NEW zs, IsAdded(zs, ys, q)
  PROVE  /\ AllYPipes(zs) /\ Len(zs) = Len(ys) + 1 /\ zs[Len(ys) + 1] = q
         /\ \A i \in 1 .. Len(ys) : zs[i] = ys[i]
<1>1. ys \in Seq(YPipes) /\ q \in YPipes /\ q.complete <= Len(q.batch)
      /\ \A i \in 1 .. Len(ys) : ys[i].complete <= Len(ys[i].batch)
  BY Zenon DEF AllYPipes, IsYPipe
<1>2. zs \in Seq(YPipes) /\ Len(zs) = Len(ys) + 1 /\ zs[Len(ys) + 1] = q
      /\ \A i \in 1 .. Len(ys) : zs[i] = ys[i]
  BY <1>1 DEF IsAdded
<1>4. \A i \in 1 .. Len(zs) : zs[i].complete <= Len(zs[i].batch)
  BY <1>1, <1>2
<1> QED
  BY <1>2, <1>4, Zenon DEF AllYPipes

\* read () skips the credentials at the front: there is a first message that
\* is none, or no message is left.
LEMMA SkippedYPipe ==
  ASSUME LeastFact, NEW q, IsYPipe(q)
  PROVE  \E k \in 0 .. Len(q.ready) :
           /\ \A i \in 1 .. k : q.ready[i].kind = "credential"
           /\ k < Len(q.ready) => q.ready[k + 1].kind # "credential"
           /\ SkipCredentials(q).ready = SubSeq(q.ready, k + 1, Len(q.ready))
           /\ SkipCredentials(q).ready \in Seq(Messages)
           /\ SkipCredentials(q).batch = q.batch /\ SkipCredentials(q).complete = q.complete
           /\ SkipCredentials(q).asleep = q.asleep /\ SkipCredentials(q).exists = q.exists
           /\ IsYPipe(SkipCredentials(q))
<1>1. /\ q.ready \in Seq(Messages) /\ q.batch \in Seq(Messages) /\ q.complete \in Nat
      /\ q.asleep \in BOOLEAN /\ q.exists \in BOOLEAN /\ q.complete <= Len(q.batch)
      /\ q \in YPipes /\ Len(q.ready) \in Nat
  BY DEF IsYPipe, YPipes
<1> DEFINE T == {k \in 0 .. Len(q.ready) :
                   k < Len(q.ready) => q.ready[k + 1].kind # "credential"}
           P(k) == /\ \A i \in 1 .. k : q.ready[i].kind = "credential"
                   /\ k < Len(q.ready) => q.ready[k + 1].kind # "credential"
           c == CHOOSE k \in 0 .. Len(q.ready) : P(k)
<1>2. Len(q.ready) \in T /\ T \in SUBSET Nat
  BY <1>1
<1>3. PICK k \in T : \A y \in T : k <= y
  BY <1>2, Zenon DEF LeastFact
<1>4. \A i \in 1 .. k : q.ready[i].kind = "credential"
  <2> SUFFICES ASSUME NEW i \in 1 .. k, q.ready[i].kind # "credential" PROVE FALSE
    BY Zenon
  <2>1. i - 1 \in 0 .. Len(q.ready) /\ (i - 1) + 1 = i /\ k \in 0 .. Len(q.ready)
    BY <1>1
  <2>2. i - 1 \in T
    BY <2>1, Zenon
  <2>3. k <= i - 1
    <3> HIDE DEF T
    <3> QED
      BY <1>3, <2>2, Zenon
  <2> QED
    BY <2>1, <2>3
<1>5. \E x \in 0 .. Len(q.ready) : P(x)
  BY <1>3, <1>4, Zenon
<1>6. c \in 0 .. Len(q.ready) /\ P(c)
  BY <1>5, Zenon
<1>7. SkipCredentials(q) = [q EXCEPT !.ready = SubSeq(q.ready, c + 1, Len(q.ready))]
  BY Zenon DEF SkipCredentials
<1> HIDE DEF c
<1>8. SubSeq(q.ready, c + 1, Len(q.ready)) \in Seq(Messages)
  BY <1>1, <1>6
<1>9. /\ SkipCredentials(q).ready = SubSeq(q.ready, c + 1, Len(q.ready))
      /\ SkipCredentials(q).batch = q.batch /\ SkipCredentials(q).complete = q.complete
      /\ SkipCredentials(q).asleep = q.asleep /\ SkipCredentials(q).exists = q.exists
      /\ SkipCredentials(q) \in YPipes
  BY <1>1, <1>7, <1>8, Zenon DEF YPipes
<1>10. IsYPipe(SkipCredentials(q))
  BY <1>1, <1>9, Zenon DEF IsYPipe
<1> QED
  BY <1>6, <1>8, <1>9, <1>10, Zenon

---------------------------------------------------------------------------
(* Steps and what they leave as it is.                                     *)

\* An action sends no command, one, or two.
LEMMA Concatenated ==
  ASSUME NEW q \in Seq(Commands), NEW c \in Commands, NEW d \in Commands
  PROVE  /\ q \o <<>> = q /\ q \o <<c>> = Append(q, c)
         /\ q \o (<<>> \o <<>>) = q /\ q \o (<<>> \o <<c>>) = Append(q, c)
         /\ q \o (<<c>> \o <<>>) = Append(q, c)
         /\ q \o (<<c>> \o <<d>>) = Append(Append(q, c), d)
<1>1. <<>> \in Seq(Commands) /\ <<c>> \in Seq(Commands) /\ <<d>> \in Seq(Commands)
  OBVIOUS
<1>2. /\ q \o <<>> = q /\ <<>> \o <<>> = <<>> /\ <<>> \o <<c>> = <<c>>
      /\ <<c>> \o <<>> = <<c>>
  BY <1>1, ConcatEmptySeq, Zenon
<1>3. q \o <<c>> = Append(q, c) /\ Append(q, c) \in Seq(Commands)
      /\ Append(q, c) \o <<d>> = Append(Append(q, c), d)
  BY AppendIsConcat
<1>4. q \o (<<c>> \o <<d>>) = (q \o <<c>>) \o <<d>>
  BY <1>1, ConcatAssociative
<1> QED
  BY <1>2, <1>3, <1>4, Zenon

\* There are two ends.
LEMMA TwoEnds ==
  ASSUME NEW e \in Ends
  PROVE  /\ Peer(e) \in Ends /\ Peer(e) # e /\ Peer(Peer(e)) = e
         /\ \A d \in Ends : d = e \/ d = Peer(e)
         /\ Ends = {e, Peer(e)}
BY DEF Ends, Peer

\* The pointers of an end that is still at work are valid.
LEMMA Pointers ==
  ASSUME SharedInv, NEW e \in Ends
  PROVE  /\ AllYPipes(ypipes) /\ Len(ypipes) \in Nat
         /\ state[e] \in States
         /\ mailbox[e] \in Seq(Commands) /\ mailbox[Peer(e)] \in Seq(Commands)
         /\ mailbox \in [Ends -> Seq(Commands)]
         /\ outpipe[e] = NULL <=> state[e] \in Acked
         /\ inpipe[e] = NULL <=> state[e] = "deleted"
         /\ outpipe[e] # NULL =>
              outpipe[e] \in 1 .. Len(ypipes) /\ IsYPipe(ypipes[outpipe[e]])
         /\ inpipe[e] # NULL =>
              inpipe[e] \in 1 .. Len(ypipes) /\ IsYPipe(ypipes[inpipe[e]])
<1>0. Peer(e) \in Ends
  BY TwoEnds, Zenon
<1>1. TypeOK /\ Handshake
  BY Zenon DEF SharedInv
<1>6. /\ ypipes \in Seq(YPipes)
      /\ \A i \in 1 .. Len(ypipes) : ypipes[i].complete <= Len(ypipes[i].batch)
      /\ outpipe \in [Ends -> 0 .. Len(ypipes)] /\ inpipe \in [Ends -> 0 .. Len(ypipes)]
      /\ state \in [Ends -> States] /\ mailbox \in [Ends -> Seq(Commands)]
  BY <1>1, Zenon DEF TypeOK, Commands
<1>2. /\ Len(ypipes) \in Nat
      /\ outpipe[e] \in 0 .. Len(ypipes) /\ inpipe[e] \in 0 .. Len(ypipes)
      /\ state[e] \in States
      /\ mailbox \in [Ends -> Seq(Commands)]
  BY <1>6
<1>3. /\ outpipe[e] = NULL <=> state[e] \in Acked
      /\ inpipe[e] = NULL <=> state[e] = "deleted"
  BY <1>1, Zenon DEF Handshake
<1>4. \A i \in 1 .. Len(ypipes) : IsYPipe(ypipes[i])
  BY <1>6 DEF IsYPipe
<1>5. \A i \in 0 .. Len(ypipes) : i # NULL => i \in 1 .. Len(ypipes)
  BY <1>2 DEF NULL
<1> QED
  BY <1>0, <1>2, <1>3, <1>4, <1>5, <1>6, Zenon DEF AllYPipes

\* The same ypipes exist after a step.
SameYPipes ==
    /\ Len(ypipes') = Len(ypipes)
    /\ \A i \in 1 .. Len(ypipes) : ypipes'[i].exists <=> ypipes[i].exists

\* Changing what one of them holds leaves it in place.
LEMMA SameExistence ==
  ASSUME SharedInv, NEW k \in 1 .. Len(ypipes), NEW q, IsYPipe(q),
         q.exists = ypipes[k].exists, ypipes' = [ypipes EXCEPT ![k] = q]
  PROVE  AllYPipes(ypipes') /\ SameYPipes /\ ypipes'[k] = q
         /\ \A i \in 1 .. Len(ypipes) : i # k => ypipes'[i] = ypipes[i]
<1>1. AllYPipes(ypipes)
  BY Pointers, 1 \in Ends, Zenon DEF Ends
<1>2. /\ AllYPipes(ypipes') /\ Len(ypipes') = Len(ypipes) /\ ypipes'[k] = q
      /\ \A i \in 1 .. Len(ypipes) : i # k => ypipes'[i] = ypipes[i]
  <2>1. IsChanged(ypipes', ypipes, k, q)
    BY Zenon DEF IsChanged
  <2> QED
    BY <1>1, <2>1, ChangedYPipe
<1>3. ASSUME NEW i \in 1 .. Len(ypipes) PROVE ypipes'[i].exists <=> ypipes[i].exists
  <2>1. CASE i = k
    BY <1>2, <2>1, Zenon
  <2>2. CASE i # k
    BY <1>2, <2>2, Zenon
  <2> QED
    BY <2>1, <2>2, Zenon
<1> QED
  BY <1>2, <1>3, Zenon DEF SameYPipes

\* What is and is not changed by a step that leaves the protocol alone:
\* pointers and states stay, and so do the commands other than wakeups.
Untouched ==
    /\ UNCHANGED <<state, inpipe, outpipe>> /\ SameYPipes
    /\ \A d \in Ends :
          /\ \A t \in {"pipe_term", "pipe_term_ack", "hiccup"} :
                Has(mailbox'[d], t) <=> Has(mailbox[d], t)
          /\ Brought(mailbox'[d]) = Brought(mailbox[d])
          /\ InSequence(mailbox'[d])
          /\ state[d] = "deleted" => mailbox'[d] = <<>>

\* Such a step preserves the invariant.
LEMMA UntouchedInv ==
  ASSUME SharedInv, TypeOK', Untouched
  PROVE  SharedInv'
<1>1. Handshake'
  <2>0. UNCHANGED <<state, inpipe, outpipe>> /\ Handshake
    BY Zenon DEF Untouched, SharedInv
  <2>1. ASSUME NEW d \in Ends, NEW t \in {"pipe_term", "pipe_term_ack", "hiccup"}
        PROVE  InTransit(d, t)' <=> InTransit(d, t)
    BY Zenon DEF Untouched, InTransit
  <2>2. \A d \in Ends : state[d] = "deleted" => mailbox'[d] = <<>>
    BY Zenon DEF Untouched
  <2> QED
    BY <2>0, <2>1, <2>2, Zenon DEF Handshake
<1>2. Replaced' /\ (Stream(1) = Stream(1)') /\ (Stream(2) = Stream(2)')
  <2>1. UNCHANGED <<state, inpipe, outpipe>> /\ \A d \in Ends : Replacements(d)' = Replacements(d)
    BY Zenon DEF Untouched, Replacements
  <2>2. Replaced
    BY Zenon DEF SharedInv
  <2>3. 1 \in Ends /\ 2 \in Ends
    BY Zenon DEF Ends
  <2> QED
    BY <2>1, <2>2, <2>3, Zenon DEF Replaced, Stream
<1>3. Kept'
  BY <1>2, Zenon DEF SharedInv, Untouched, SameYPipes, Kept
<1> QED
  BY <1>1, <1>2, <1>3, Zenon DEF SharedInv, Untouched

\* The commands of the protocol stay as they are.
SameCommands ==
    /\ mailbox' \in [Ends -> Seq(Commands)]
    /\ \A d \in Ends :
          /\ \A t \in {"pipe_term", "pipe_term_ack", "hiccup"} :
                Has(mailbox'[d], t) <=> Has(mailbox[d], t)
          /\ Brought(mailbox'[d]) = Brought(mailbox[d])
          /\ InSequence(mailbox'[d])
          /\ state[d] = "deleted" => mailbox'[d] = <<>>

\* No command is sent.
LEMMA NothingSent ==
  ASSUME SharedInv, UNCHANGED mailbox
  PROVE  SameCommands
<1>1. mailbox \in [Ends -> Seq(Commands)] /\ \A d \in Ends : InSequence(mailbox[d])
  BY Zenon DEF SharedInv, TypeOK, Commands
<1>2. \A d \in Ends : state[d] = "deleted" => mailbox[d] = <<>>
  BY Zenon DEF SharedInv, Handshake
<1> QED
  BY <1>1, <1>2, Zenon DEF SameCommands

\* An end that has not acknowledged wakes its peer.
LEMMA WakeupSent ==
  ASSUME SharedInv, NEW e \in Ends, state[Peer(e)] \notin Acked, NEW c \in Commands,
         c.type \in {"activate_read", "activate_write"},
         mailbox' = [mailbox EXCEPT ![e] = Append(@, c)]
  PROVE  SameCommands
<1>1. mailbox \in [Ends -> Seq(Commands)] /\ \A d \in Ends : InSequence(mailbox[d])
  BY Zenon DEF SharedInv, TypeOK, Commands
<1>2. ~Has(mailbox[e], "pipe_term_ack")
  BY Zenon DEF SharedInv, Handshake, InTransit
<1>0. \A d \in Ends : state[d] = "deleted" => mailbox[d] = <<>>
  BY Zenon DEF SharedInv, Handshake
<1>5. state[e] # "deleted"
  BY Zenon DEF SharedInv, Handshake, Agreeing, Acked
<1>3. /\ Append(mailbox[e], c) \in Seq(Commands)
      /\ \A t \in {"pipe_term", "pipe_term_ack", "hiccup"} :
            Has(Append(mailbox[e], c), t) <=> Has(mailbox[e], t)
      /\ Brought(Append(mailbox[e], c)) = Brought(mailbox[e])
      /\ InSequence(Append(mailbox[e], c))
  <2>1. /\ mailbox[e] \in Seq(Commands) /\ InSequence(mailbox[e])
        /\ c.type \notin {"pipe_term", "pipe_term_ack", "hiccup"}
    BY <1>1, Zenon
  <2> QED
    BY <1>2, <2>1, Appended, Zenon
<1>4. mailbox'[e] = Append(mailbox[e], c) /\ mailbox' \in [Ends -> Seq(Commands)]
      /\ \A d \in Ends : d # e => mailbox'[d] = mailbox[d]
  BY <1>1, <1>3, Zenon
<1> QED
  <2> SUFFICES ASSUME NEW d \in Ends
               PROVE  /\ \A t \in {"pipe_term", "pipe_term_ack", "hiccup"} :
                            Has(mailbox'[d], t) <=> Has(mailbox[d], t)
                      /\ Brought(mailbox'[d]) = Brought(mailbox[d])
                      /\ InSequence(mailbox'[d])
                      /\ state[d] = "deleted" => mailbox'[d] = <<>>
    BY <1>4, Zenon DEF SameCommands
  <2>1. CASE d = e
    BY <1>3, <1>4, <1>5, <2>1, Zenon
  <2>2. CASE d # e
    BY <1>0, <1>1, <1>4, <2>2, Zenon
  <2> QED
    BY <2>1, <2>2, Zenon

\* An end processes a wakeup.
LEMMA WakeupTaken ==
  ASSUME SharedInv, NEW e \in Ends, Process(e, <<>>),
         IsNext(e, "activate_read") \/ IsNext(e, "activate_write")
  PROVE  /\ SameCommands
         /\ mailbox'[e] = Tail(mailbox[e]) /\ mailbox'[Peer(e)] = mailbox[Peer(e)]
<1>0. Peer(e) \in Ends /\ Peer(e) # e /\ \A d \in Ends : d = e \/ d = Peer(e)
  BY TwoEnds, Zenon
<1>1. mailbox \in [Ends -> Seq(Commands)] /\ \A d \in Ends : InSequence(mailbox[d])
  BY Zenon DEF SharedInv, TypeOK, Commands
<1>2. /\ mailbox[e] \in Seq(Commands) /\ mailbox[Peer(e)] \in Seq(Commands)
      /\ mailbox[Peer(e)] \o <<>> = mailbox[Peer(e)]
  BY <1>0, <1>1, ConcatEmptySeq, Zenon
<1>3. /\ Tail(mailbox[e]) \in Seq(Commands)
      /\ \A t \in {"pipe_term", "pipe_term_ack", "hiccup"} :
            Has(Tail(mailbox[e]), t) <=> Has(mailbox[e], t)
      /\ Brought(Tail(mailbox[e])) = Brought(mailbox[e])
      /\ InSequence(Tail(mailbox[e]))
  <2>1. /\ mailbox[e] # <<>> /\ InSequence(mailbox[e])
        /\ Head(mailbox[e]).type \notin {"pipe_term", "pipe_term_ack", "hiccup"}
    BY <1>1, Zenon DEF IsNext
  <2> QED
    BY <1>2, <2>1, Taken, Zenon
<1>4. mailbox'[e] = Tail(mailbox[e]) /\ mailbox' \in [Ends -> Seq(Commands)]
      /\ mailbox'[Peer(e)] = mailbox[Peer(e)]
  BY <1>0, <1>1, <1>2, <1>3, Zenon DEF Process
<1>5. state[e] # "deleted" /\ \A d \in Ends : state[d] = "deleted" => mailbox[d] = <<>>
  BY Zenon DEF SharedInv, Handshake, IsNext
<1> QED
  <2> SUFFICES ASSUME NEW d \in Ends
               PROVE  /\ \A t \in {"pipe_term", "pipe_term_ack", "hiccup"} :
                            Has(mailbox'[d], t) <=> Has(mailbox[d], t)
                      /\ Brought(mailbox'[d]) = Brought(mailbox[d])
                      /\ InSequence(mailbox'[d])
                      /\ state[d] = "deleted" => mailbox'[d] = <<>>
    BY <1>4, Zenon DEF SameCommands
  <2>1. CASE d = e
    BY <1>3, <1>4, <1>5, <2>1, Zenon
  <2>2. CASE d = Peer(e)
    BY <1>1, <1>4, <1>5, <2>2, Zenon
  <2> QED
    BY <1>0, <2>1, <2>2, Zenon

\* What TypeOK says of the fields that are no part of the protocol.
PlainTypeOK ==
    /\ setup \in Setups
    /\ in_active \in [Ends -> BOOLEAN] /\ out_active \in [Ends -> BOOLEAN]
    /\ delay \in [Ends -> BOOLEAN]
    /\ hwm \in [Ends -> Nat] /\ lwm \in [Ends -> Nat]
    /\ msgs_read \in [Ends -> Nat] /\ msgs_written \in [Ends -> Nat]
    /\ peers_msgs_read \in [Ends -> Nat]
    /\ sent \in [Ends -> Nat] /\ writing \in [Ends -> Nat]
    /\ got \in [Ends -> Nat] /\ reading \in [Ends -> Nat]
    /\ closes \in [Ends -> Nat]

\* A step that leaves the protocol alone preserves the invariant.
LEMMA QuietStep ==
  ASSUME SharedInv, PlainTypeOK', UNCHANGED <<state, inpipe, outpipe>>,
         AllYPipes(ypipes'), SameYPipes, SameCommands
  PROVE  SharedInv'
<1>1. TypeOK'
  <2>1. /\ state \in [Ends -> States] /\ inpipe \in [Ends -> 0 .. Len(ypipes)]
        /\ outpipe \in [Ends -> 0 .. Len(ypipes)]
    BY Zenon DEF SharedInv, TypeOK
  <2>2. /\ state' \in [Ends -> States] /\ inpipe' \in [Ends -> 0 .. Len(ypipes')]
        /\ outpipe' \in [Ends -> 0 .. Len(ypipes')]
    BY <2>1, Zenon DEF SameYPipes
  <2> QED
    BY <2>2, Zenon DEF TypeOK, PlainTypeOK, AllYPipes, SameCommands, Commands
<1>2. Untouched
  BY Zenon DEF Untouched, SameCommands
<1> QED
  BY <1>1, <1>2, UntouchedInv, Zenon

---------------------------------------------------------------------------
(* The steps that leave the protocol alone.                                *)

\* What an owner writes is a message.
LEMMA WritesMessages ==
  ASSUME SharedInv, NEW e \in Ends, NEW msg \in Writes(e)
  PROVE  msg \in Messages
<1>1. setup \in Setups /\ sent[e] \in Nat /\ writing[e] \in Nat
  <2>1. setup \in Setups /\ sent \in [Ends -> Nat] /\ writing \in [Ends -> Nat]
    BY Zenon DEF SharedInv, TypeOK
  <2> QED
    BY <2>1, Zenon
<1>2. Kinds \subseteq {"data", "identity", "credential"}
  BY <1>1, PipeAssumption, Zenon DEF Kinds
<1> DEFINE K == IF writing[e] > 0 THEN {"data"}
                ELSE IF Unbound /\ sent[e] = 0 THEN {"identity"}
                ELSE IF msgs_written[e] > 0 THEN Kinds \ {"credential"}
                ELSE Kinds
           M == IF writing[e] + 1 < MaxParts THEN BOOLEAN ELSE {FALSE}
<1>3. Writes(e) = {Message(k, sent[e] + 1, writing[e] + 1, more) : k \in K, more \in M}
  BY DEF Writes
<1> HIDE DEF K, M
<1>6. PICK k \in K, more \in M : msg = Message(k, sent[e] + 1, writing[e] + 1, more)
  BY <1>3
<1>4. k \in {"data", "identity"} \cup Kinds
  BY Zenon DEF K
<1>5. more \in BOOLEAN
  BY Zenon DEF M
<1>7. sent[e] + 1 \in Nat /\ writing[e] + 1 \in Nat
  BY <1>1
<1>8. k \in {"data", "identity", "credential", "delimiter"}
  BY <1>2, <1>4, Zenon
<1>9. \A x \in {"data", "identity", "credential", "delimiter"}, m, n \in Nat, b \in BOOLEAN :
        Message(x, m, n, b) \in Messages
  BY Zenon DEF Message, Messages
<1> QED
  BY <1>5, <1>6, <1>7, <1>8, <1>9, Zenon

\* write () that succeeds
LEMMA WriteStep ==
  ASSUME SharedInv, NEW e \in Ends, NEW msg \in Writes(e), Write(e, msg), UNCHANGED setup
  PROVE  SharedInv'
<1>1. PlainTypeOK
  BY Zenon DEF SharedInv, TypeOK, PlainTypeOK
<1>2. outpipe[e] \in 1 .. Len(ypipes) /\ IsYPipe(ypipes[outpipe[e]])
  BY Pointers, Zenon DEF Write, Writable, Acked
<1>3. AllYPipes(ypipes') /\ SameYPipes
  <2> DEFINE q == Written(ypipes[outpipe[e]], msg)
  <2>1. IsYPipe(q) /\ q.exists = ypipes[outpipe[e]].exists
    BY <1>2, WritesMessages, WrittenYPipe, Zenon
  <2>2. ypipes' = [ypipes EXCEPT ![outpipe[e]] = q]
    BY Zenon DEF Write
  <2> HIDE DEF q
  <2> QED
    BY <1>2, <2>1, <2>2, SameExistence, Zenon
<1>4. PlainTypeOK'
  <2>1. /\ msgs_written' \in [Ends -> Nat] /\ sent' \in [Ends -> Nat]
        /\ writing' \in [Ends -> Nat]
    BY <1>1 DEF Write, PlainTypeOK
  <2> QED
    BY <1>1, <2>1, Zenon DEF Write, PlainTypeOK
<1>5. SameCommands /\ UNCHANGED <<state, inpipe, outpipe>>
  BY NothingSent, Zenon DEF Write
<1> QED
  BY <1>3, <1>4, <1>5, QuietStep, Zenon

\* write () that finds the pipe full
LEMMA WriteFullStep ==
  ASSUME SharedInv, NEW e \in Ends, WriteFull(e), UNCHANGED setup
  PROVE  SharedInv'
<1>1. PlainTypeOK /\ AllYPipes(ypipes)
  BY Zenon DEF SharedInv, TypeOK, PlainTypeOK, AllYPipes
<1>2. AllYPipes(ypipes') /\ SameYPipes
  BY <1>1, Zenon DEF WriteFull, SameYPipes
<1>3. PlainTypeOK'
  <2>1. out_active' \in [Ends -> BOOLEAN]
    BY <1>1, Zenon DEF WriteFull, PlainTypeOK
  <2> QED
    BY <1>1, <2>1, Zenon DEF WriteFull, PlainTypeOK, owners
<1>4. SameCommands /\ UNCHANGED <<state, inpipe, outpipe>>
  BY NothingSent, Zenon DEF WriteFull
<1> QED
  BY <1>2, <1>3, <1>4, QuietStep, Zenon

\* rollback ()
LEMMA RollbackStep ==
  ASSUME SharedInv, NEW e \in Ends, Rollback(e), UNCHANGED setup
  PROVE  SharedInv'
<1>1. PlainTypeOK
  BY Zenon DEF SharedInv, TypeOK, PlainTypeOK
<1>2. outpipe[e] \in 1 .. Len(ypipes) /\ IsYPipe(ypipes[outpipe[e]])
  BY Pointers, Zenon DEF Rollback
<1>3. AllYPipes(ypipes') /\ SameYPipes
  <2> DEFINE q == Unwritten(ypipes[outpipe[e]])
  <2>1. IsYPipe(q) /\ q.exists = ypipes[outpipe[e]].exists
    BY <1>2, UnwrittenYPipe, Zenon
  <2>2. ypipes' = [ypipes EXCEPT ![outpipe[e]] = q]
    BY Zenon DEF Rollback
  <2> HIDE DEF q
  <2> QED
    BY <1>2, <2>1, <2>2, SameExistence, Zenon
<1>4. PlainTypeOK'
  <2>1. writing' \in [Ends -> Nat]
    BY <1>1, Zenon DEF Rollback, PlainTypeOK
  <2> QED
    BY <1>1, <2>1, Zenon DEF Rollback, PlainTypeOK, fields
<1>5. SameCommands /\ UNCHANGED <<state, inpipe, outpipe>>
  BY NothingSent, Zenon DEF Rollback, fields
<1> QED
  BY <1>3, <1>4, <1>5, QuietStep, Zenon

\* flush () wakes the peer if it has to, and sends nothing else.
LEMMA WokenUp ==
  ASSUME SharedInv, NEW e \in Ends, state[e] \notin Acked, NEW q,
         Send(Peer(e), Wakeup(q))
  PROVE  SameCommands
<1>1. Peer(e) \in Ends /\ Peer(Peer(e)) = e
  BY TwoEnds, Zenon
<1>2. mailbox \in [Ends -> Seq(Commands)]
  BY Zenon DEF SharedInv, TypeOK, Commands
<1> DEFINE c == Command("activate_read")
<1>3. c \in Commands /\ c.type = "activate_read"
  BY Zenon DEF Command, Commands, CommandTypes
<1>4. mailbox[Peer(e)] \in Seq(Commands)
  BY <1>1, <1>2, Zenon
<1>5. mailbox[Peer(e)] \o <<>> = mailbox[Peer(e)]
      /\ mailbox[Peer(e)] \o <<c>> = Append(mailbox[Peer(e)], c)
  BY <1>3, <1>4, Concatenated, Zenon
<1>6. CASE WakesReader(q)
  <2>1. Wakeup(q) = <<c>>
    BY <1>6, Zenon DEF Wakeup
  <2> HIDE DEF c
  <2>2. mailbox' = [mailbox EXCEPT ![Peer(e)] = Append(@, c)]
    BY <1>5, <2>1, Zenon DEF Send
  <2> QED
    BY <1>1, <1>3, <2>2, WakeupSent, Zenon
<1>7. CASE ~WakesReader(q)
  <2>1. Wakeup(q) = <<>>
    BY <1>7, Zenon DEF Wakeup
  <2> HIDE DEF c
  <2>2. mailbox' = mailbox
    BY <1>1, <1>2, <1>5, <2>1, Zenon DEF Send
  <2> QED
    BY <2>2, NothingSent, Zenon
<1> QED
  BY <1>6, <1>7, Zenon

\* flush ()
LEMMA FlushStep ==
  ASSUME SharedInv, NEW e \in Ends, Flush(e), UNCHANGED setup
  PROVE  SharedInv'
<1>1. PlainTypeOK
  BY Zenon DEF SharedInv, TypeOK, PlainTypeOK
<1>2. /\ outpipe[e] \in 1 .. Len(ypipes) /\ IsYPipe(ypipes[outpipe[e]])
      /\ state[e] \notin Acked
  BY Pointers, Zenon DEF Flush
<1>3. AllYPipes(ypipes') /\ SameYPipes
  <2> DEFINE q == Flushed(ypipes[outpipe[e]])
  <2>1. IsYPipe(q) /\ q.exists = ypipes[outpipe[e]].exists
    BY <1>2, FlushedYPipe, Zenon
  <2>2. ypipes' = [ypipes EXCEPT ![outpipe[e]] = q]
    BY Zenon DEF Flush
  <2> HIDE DEF q
  <2> QED
    BY <1>2, <2>1, <2>2, SameExistence, Zenon
<1>4. PlainTypeOK'
  BY <1>1, Zenon DEF Flush, PlainTypeOK, fields, owners
<1>5. SameCommands
  BY <1>2, WokenUp, Zenon DEF Flush
<1>6. UNCHANGED <<state, inpipe, outpipe>>
  BY Zenon DEF Flush, fields
<1> QED
  BY <1>3, <1>4, <1>5, <1>6, QuietStep, Zenon

\* Nothing is found to read.
LEMMA GoPassiveStep ==
  ASSUME SharedInv, NEW e \in Ends, inpipe[e] # NULL, NEW q, IsYPipe(q),
         q.exists = ypipes[inpipe[e]].exists, GoPassive(e, q), UNCHANGED setup
  PROVE  SharedInv'
<1>1. PlainTypeOK
  BY Zenon DEF SharedInv, TypeOK, PlainTypeOK
<1>2. inpipe[e] \in 1 .. Len(ypipes)
  BY Pointers, Zenon
<1>3. AllYPipes(ypipes') /\ SameYPipes
  <2> DEFINE r == [q EXCEPT !.asleep = TRUE]
  <2>1. q \in YPipes /\ q.complete <= Len(q.batch)
    BY Zenon DEF IsYPipe
  <2>2. r \in YPipes /\ r.complete = q.complete /\ r.batch = q.batch /\ r.exists = q.exists
    BY <2>1, Zenon DEF YPipes
  <2>3. IsYPipe(r)
    BY <2>1, <2>2, Zenon DEF IsYPipe
  <2>4. ypipes' = [ypipes EXCEPT ![inpipe[e]] = r]
    BY Zenon DEF GoPassive
  <2> HIDE DEF r
  <2> QED
    BY <1>2, <2>2, <2>3, <2>4, SameExistence, Zenon
<1>4. PlainTypeOK'
  <2>1. in_active' \in [Ends -> BOOLEAN]
    BY <1>1, Zenon DEF GoPassive, PlainTypeOK
  <2> QED
    BY <1>1, <2>1, Zenon DEF GoPassive, PlainTypeOK, owners
<1>5. SameCommands /\ UNCHANGED <<state, inpipe, outpipe>>
  BY NothingSent, Zenon DEF GoPassive
<1> QED
  BY <1>3, <1>4, <1>5, QuietStep, Zenon

\* The reader takes what is first.
LEMMA TakenYPipe ==
  ASSUME NEW q, IsYPipe(q), q.ready # <<>>
  PROVE  /\ IsYPipe([q EXCEPT !.ready = Tail(@)])
         /\ [q EXCEPT !.ready = Tail(@)].exists = q.exists
         /\ Head(q.ready) \in Messages
<1>1. /\ q.ready \in Seq(Messages) /\ q.batch \in Seq(Messages) /\ q.complete \in Nat
      /\ q.asleep \in BOOLEAN /\ q.exists \in BOOLEAN /\ q.complete <= Len(q.batch)
      /\ q \in YPipes
  BY Zenon DEF IsYPipe, YPipes
<1>2. Tail(q.ready) \in Seq(Messages) /\ Head(q.ready) \in Messages
  BY <1>1
<1> DEFINE r == [q EXCEPT !.ready = Tail(q.ready)]
<1>3. r \in YPipes /\ r.complete = q.complete /\ r.batch = q.batch /\ r.exists = q.exists
  BY <1>1, <1>2, Zenon DEF YPipes
<1>4. IsYPipe(r)
  BY <1>1, <1>3, Zenon DEF IsYPipe
<1> QED
  BY <1>2, <1>3, <1>4, Zenon

\* read () hands a message to the owner.
LEMMA DeliverStep ==
  ASSUME SharedInv, NEW e \in Ends, state[e] \notin Acked, NEW q, IsYPipe(q),
         q.ready # <<>>, q.exists = ypipes[inpipe[e]].exists, Deliver(e, q),
         UNCHANGED setup
  PROVE  SharedInv'
<1>1. PlainTypeOK
  BY Zenon DEF SharedInv, TypeOK, PlainTypeOK
<1>2. inpipe[e] \in 1 .. Len(ypipes)
  BY Pointers, Zenon DEF Acked
<1>3. AllYPipes(ypipes') /\ SameYPipes
  <2> DEFINE r == [q EXCEPT !.ready = Tail(@)]
  <2>1. IsYPipe(r) /\ r.exists = q.exists
    BY TakenYPipe, Zenon
  <2>2. ypipes' = [ypipes EXCEPT ![inpipe[e]] = r]
    BY Zenon DEF Deliver
  <2> HIDE DEF r
  <2> QED
    BY <1>2, <2>1, <2>2, SameExistence, Zenon
<1>4. PlainTypeOK'
  <2>1. Head(q.ready) \in Messages /\ Head(q.ready).n \in Nat
    BY TakenYPipe, Zenon DEF Messages
  <2>2. /\ msgs_read' \in [Ends -> Nat] /\ got' \in [Ends -> Nat]
        /\ reading' \in [Ends -> Nat]
    <3> DEFINE msg == Head(q.ready)
               n == IF msg.more \/ msg.kind = "identity" THEN msgs_read[e]
                    ELSE msgs_read[e] + 1
               g == IF msg.more THEN got[e] ELSE msg.n
               r == IF msg.more THEN reading[e] + 1 ELSE 0
    <3>1. /\ msgs_read \in [Ends -> Nat] /\ got \in [Ends -> Nat]
          /\ reading \in [Ends -> Nat]
      BY <1>1, Zenon DEF PlainTypeOK
    <3>2. n \in Nat /\ g \in Nat /\ r \in Nat
      BY <2>1, <3>1
    <3>3. /\ msgs_read' = [msgs_read EXCEPT ![e] = n] /\ got' = [got EXCEPT ![e] = g]
          /\ reading' = [reading EXCEPT ![e] = r]
      BY Zenon DEF Deliver
    <3> HIDE DEF n, g, r
    <3> QED
      BY <3>1, <3>2, <3>3, Zenon
  <2> QED
    BY <1>1, <2>2, Zenon DEF Deliver, PlainTypeOK
<1>5. SameCommands
  <2> DEFINE n == IF Head(q.ready).more \/ Head(q.ready).kind = "identity" THEN msgs_read[e]
                  ELSE msgs_read[e] + 1
             c == ActivateWrite(n)
  <2>0. Peer(e) \in Ends /\ Peer(Peer(e)) = e
    BY TwoEnds, Zenon
  <2>1. msgs_read[e] \in Nat
    BY <1>1, Zenon DEF PlainTypeOK
  <2>2. n \in Nat
    BY <2>1
  <2>3. Send(Peer(e), IF lwm[e] > 0 /\ n % lwm[e] = 0 THEN <<c>> ELSE <<>>)
    BY Zenon DEF Deliver
  <2> HIDE DEF n
  <2>4. c \in Commands /\ c.type = "activate_write"
    BY <2>2, Zenon DEF ActivateWrite, Commands, CommandTypes
  <2> HIDE DEF c
  <2>5. mailbox \in [Ends -> Seq(Commands)]
    BY Zenon DEF SharedInv, TypeOK, Commands
  <2>6. mailbox[Peer(e)] \in Seq(Commands)
    BY <2>0, <2>5, Zenon
  <2>7. mailbox[Peer(e)] \o <<>> = mailbox[Peer(e)]
        /\ mailbox[Peer(e)] \o <<c>> = Append(mailbox[Peer(e)], c)
    BY <2>4, <2>6, Concatenated, Zenon
  <2>8. CASE lwm[e] > 0 /\ n % lwm[e] = 0
    <3>1. mailbox' = [mailbox EXCEPT ![Peer(e)] = Append(@, c)]
      BY <2>3, <2>7, <2>8, Zenon DEF Send
    <3> QED
      BY <2>0, <2>4, <3>1, WakeupSent, Zenon
  <2>9. CASE ~(lwm[e] > 0 /\ n % lwm[e] = 0)
    <3>1. mailbox' = mailbox
      BY <2>0, <2>3, <2>5, <2>7, <2>9, Zenon DEF Send
    <3> QED
      BY <3>1, NothingSent, Zenon
  <2> QED
    BY <2>8, <2>9, Zenon
<1>6. UNCHANGED <<state, inpipe, outpipe>>
  BY Zenon DEF Deliver
<1> QED
  BY <1>3, <1>4, <1>5, <1>6, QuietStep, Zenon

\* terminate () that only records its argument
LEMMA TerminateAgainStep ==
  ASSUME SharedInv, NEW e \in Ends, NEW d \in BOOLEAN, TerminateAgain(e, d), UNCHANGED setup
  PROVE  SharedInv'
<1>1. PlainTypeOK /\ AllYPipes(ypipes)
  BY Zenon DEF SharedInv, TypeOK, PlainTypeOK, AllYPipes
<1>2. AllYPipes(ypipes') /\ SameYPipes
  BY <1>1, Zenon DEF TerminateAgain, SameYPipes
<1>3. PlainTypeOK'
  <2>1. closes' \in [Ends -> Nat]
    BY <1>1 DEF TerminateAgain, PlainTypeOK
  <2>2. delay' \in [Ends -> BOOLEAN]
    BY <1>1, Zenon DEF TerminateAgain, PlainTypeOK
  <2> QED
    BY <1>1, <2>1, <2>2, Zenon DEF TerminateAgain, PlainTypeOK
<1>4. SameCommands /\ UNCHANGED <<state, inpipe, outpipe>>
  BY NothingSent, Zenon DEF TerminateAgain
<1> QED
  BY <1>2, <1>3, <1>4, QuietStep, Zenon

\* set_hwms ()
LEMMA SetHwmsStep ==
  ASSUME SharedInv, SetHwms, UNCHANGED setup
  PROVE  SharedInv'
<1>1. PlainTypeOK /\ AllYPipes(ypipes)
  BY Zenon DEF SharedInv, TypeOK, PlainTypeOK, AllYPipes
<1>2. AllYPipes(ypipes') /\ SameYPipes
  BY <1>1, Zenon DEF SetHwms, SameYPipes
<1>3. PlainTypeOK'
  <2>1. LateHwm \in [Ends -> Nat] /\ MaxWmDelta \in Nat
    BY <1>1, PipeAssumption, Zenon DEF LateHwm, PlainTypeOK
  <2>2. \A n \in Nat : compute_lwm(n) \in Nat
    BY <2>1 DEF compute_lwm
  <2>3. hwm' \in [Ends -> Nat]
    BY <2>1, Zenon DEF SetHwms
  <2>4. \A d \in Ends : LateHwm[Peer(d)] \in Nat
    BY <2>1, TwoEnds, Zenon
  <2>5. lwm' \in [Ends -> Nat]
    BY <2>2, <2>4, Zenon DEF SetHwms
  <2> QED
    BY <1>1, <2>3, <2>5, Zenon DEF SetHwms, PlainTypeOK, owners
<1>4. SameCommands /\ UNCHANGED <<state, inpipe, outpipe>>
  BY NothingSent, Zenon DEF SetHwms
<1> QED
  BY <1>2, <1>3, <1>4, QuietStep, Zenon

\* process_activate_read ()
LEMMA ActivateReadStep ==
  ASSUME SharedInv, NEW e \in Ends, ProcessActivateRead(e), UNCHANGED setup
  PROVE  SharedInv'
<1>1. PlainTypeOK /\ AllYPipes(ypipes)
  BY Zenon DEF SharedInv, TypeOK, PlainTypeOK, AllYPipes
<1>2. AllYPipes(ypipes') /\ SameYPipes
  BY <1>1, Zenon DEF ProcessActivateRead, SameYPipes
<1>3. PlainTypeOK'
  <2>1. in_active' \in [Ends -> BOOLEAN]
    BY <1>1, Zenon DEF ProcessActivateRead, PlainTypeOK
  <2> QED
    BY <1>1, <2>1, Zenon DEF ProcessActivateRead, PlainTypeOK, owners
<1>4. SameCommands /\ UNCHANGED <<state, inpipe, outpipe>>
  BY WakeupTaken, Zenon DEF ProcessActivateRead
<1> QED
  BY <1>2, <1>3, <1>4, QuietStep, Zenon

\* process_activate_write ()
LEMMA ActivateWriteStep ==
  ASSUME SharedInv, NEW e \in Ends, ProcessActivateWrite(e), UNCHANGED setup
  PROVE  SharedInv'
<1>1. PlainTypeOK /\ AllYPipes(ypipes)
  BY Zenon DEF SharedInv, TypeOK, PlainTypeOK, AllYPipes
<1>2. AllYPipes(ypipes') /\ SameYPipes
  BY <1>1, Zenon DEF ProcessActivateWrite, SameYPipes
<1>3. PlainTypeOK'
  <2>1. out_active' \in [Ends -> BOOLEAN]
    BY <1>1, Zenon DEF ProcessActivateWrite, PlainTypeOK
  <2>2. Head(mailbox[e]) \in Commands
    BY Pointers, Taken, Zenon DEF ProcessActivateWrite, IsNext
  <2>3. Head(mailbox[e]).arg \in Nat
    BY <2>2, Zenon DEF Commands
  <2>4. peers_msgs_read' \in [Ends -> Nat]
    BY <1>1, <2>3, Zenon DEF ProcessActivateWrite, PlainTypeOK
  <2> QED
    BY <1>1, <2>1, <2>4, Zenon DEF ProcessActivateWrite, PlainTypeOK, owners
<1>4. SameCommands /\ UNCHANGED <<state, inpipe, outpipe>>
  BY WakeupTaken, Zenon DEF ProcessActivateWrite
<1> QED
  BY <1>2, <1>3, <1>4, QuietStep, Zenon

---------------------------------------------------------------------------
(* The steps of the protocol.                                              *)

\* The ypipes of an end and of its peer.
KeptBy(e) ==
    /\ Stream(e) \cap Stream(Peer(e)) = {}
    /\ \A i \in 1 .. Len(ypipes) :
          ypipes[i].exists <=> i \in Stream(e) \cup Stream(Peer(e))

\* Which end is which does not matter.
LEMMA KeptEnds ==
  ASSUME NEW e \in Ends
  PROVE  (Kept <=> KeptBy(e)) /\ (Kept' <=> KeptBy(e)')
<1>1. Kept <=> KeptBy(e)
  <2>1. CASE e = 1
    <3>1. Peer(e) = 2
      BY <2>1 DEF Peer
    <3> QED
      BY <2>1, <3>1, Zenon DEF Kept, KeptBy
  <2>2. CASE e = 2
    <3>1. Peer(e) = 1 /\ Stream(1) \cap Stream(2) = Stream(2) \cap Stream(1)
          /\ Stream(1) \cup Stream(2) = Stream(2) \cup Stream(1)
      BY <2>2 DEF Peer
    <3> QED
      BY <2>2, <3>1, Zenon DEF Kept, KeptBy
  <2> QED
    BY <2>1, <2>2, Zenon DEF Ends
<1>2. Kept' <=> KeptBy(e)'
  <2>1. CASE e = 1
    <3>1. Peer(e) = 2
      BY <2>1 DEF Peer
    <3> QED
      BY <2>1, <3>1, Zenon DEF Kept, KeptBy, Stream, Replacements
  <2>2. CASE e = 2
    <3>1. Peer(e) = 1 /\ Stream(1)' \cap Stream(2)' = Stream(2)' \cap Stream(1)'
          /\ Stream(1)' \cup Stream(2)' = Stream(2)' \cup Stream(1)'
      BY <2>2 DEF Peer
    <3> QED
      BY <2>2, <3>1, Zenon DEF Kept, KeptBy, Stream, Replacements
  <2> QED
    BY <2>1, <2>2, Zenon DEF Ends
<1> QED
  BY <1>1, <1>2, Zenon

\* Only hiccups bring ypipes.
LEMMA NoneBrought ==
  ASSUME NEW q
  PROVE  ~Has(q, "hiccup") => Brought(q) = {}
BY Zenon DEF Has, Brought

\* What Handshake, Replaced and Kept say of an end and its peer.
LEMMA BothEnds ==
  ASSUME SharedInv, NEW e \in Ends
  PROVE  /\ <<state[e], state[Peer(e)]>> \in Agreeing
         /\ <<state[Peer(e)], state[e]>> \in Agreeing
         /\ Has(mailbox[e], "pipe_term") <=> state[Peer(e)] \in Asked /\ state[e] \in Unasked
         /\ Has(mailbox[Peer(e)], "pipe_term") <=> state[e] \in Asked /\ state[Peer(e)] \in Unasked
         /\ Has(mailbox[e], "pipe_term_ack") <=> state[Peer(e)] \in Acked /\ state[e] # "deleted"
         /\ Has(mailbox[Peer(e)], "pipe_term_ack") <=> state[e] \in Acked /\ state[Peer(e)] # "deleted"
         /\ Has(mailbox[e], "hiccup") => state[e] \in Unasked
         /\ Has(mailbox[Peer(e)], "hiccup") => state[Peer(e)] \in Unasked
         /\ \A r \in Brought(mailbox[e]) : outpipe[e] < r /\ r <= inpipe[Peer(e)]
         /\ \A r \in Brought(mailbox[Peer(e)]) : outpipe[Peer(e)] < r /\ r <= inpipe[e]
         /\ outpipe[e] # NULL => inpipe[Peer(e)] \in {outpipe[e]} \cup Brought(mailbox[e])
         /\ outpipe[Peer(e)] # NULL => inpipe[e] \in {outpipe[Peer(e)]} \cup Brought(mailbox[Peer(e)])
         /\ InSequence(mailbox[e]) /\ InSequence(mailbox[Peer(e)])
         /\ KeptBy(e)
<1>1. Peer(e) \in Ends /\ Peer(Peer(e)) = e
  BY TwoEnds, Zenon
<1>2. /\ <<state[e], state[Peer(e)]>> \in Agreeing
      /\ <<state[Peer(e)], state[e]>> \in Agreeing
      /\ Has(mailbox[e], "pipe_term") <=> state[Peer(e)] \in Asked /\ state[e] \in Unasked
      /\ Has(mailbox[Peer(e)], "pipe_term") <=> state[e] \in Asked /\ state[Peer(e)] \in Unasked
      /\ Has(mailbox[e], "pipe_term_ack") <=> state[Peer(e)] \in Acked /\ state[e] # "deleted"
      /\ Has(mailbox[Peer(e)], "pipe_term_ack") <=> state[e] \in Acked /\ state[Peer(e)] # "deleted"
      /\ Has(mailbox[e], "hiccup") => state[e] \in Unasked
      /\ Has(mailbox[Peer(e)], "hiccup") => state[Peer(e)] \in Unasked
  BY <1>1, Zenon DEF SharedInv, Handshake, InTransit
<1>3. /\ \A r \in Brought(mailbox[e]) : outpipe[e] < r /\ r <= inpipe[Peer(e)]
      /\ \A r \in Brought(mailbox[Peer(e)]) : outpipe[Peer(e)] < r /\ r <= inpipe[e]
      /\ outpipe[e] # NULL => inpipe[Peer(e)] \in {outpipe[e]} \cup Brought(mailbox[e])
      /\ outpipe[Peer(e)] # NULL => inpipe[e] \in {outpipe[Peer(e)]} \cup Brought(mailbox[Peer(e)])
  BY <1>1, Zenon DEF SharedInv, Replaced, Replacements
<1>4. InSequence(mailbox[e]) /\ InSequence(mailbox[Peer(e)])
  BY <1>1, Zenon DEF SharedInv
<1>5. KeptBy(e)
  BY KeptEnds, Zenon DEF SharedInv
<1> QED
  BY <1>2, <1>3, <1>4, <1>5, Zenon

\* The same, put together again after a step.
LEMMA BothEndsNext ==
  ASSUME NEW e \in Ends, TypeOK',
         <<state'[e], state'[Peer(e)]>> \in Agreeing,
         <<state'[Peer(e)], state'[e]>> \in Agreeing,
         Has(mailbox'[e], "pipe_term") <=> state'[Peer(e)] \in Asked /\ state'[e] \in Unasked,
         Has(mailbox'[Peer(e)], "pipe_term") <=> state'[e] \in Asked /\ state'[Peer(e)] \in Unasked,
         Has(mailbox'[e], "pipe_term_ack") <=> state'[Peer(e)] \in Acked /\ state'[e] # "deleted",
         Has(mailbox'[Peer(e)], "pipe_term_ack") <=> state'[e] \in Acked /\ state'[Peer(e)] # "deleted",
         Has(mailbox'[e], "hiccup") => state'[e] \in Unasked,
         Has(mailbox'[Peer(e)], "hiccup") => state'[Peer(e)] \in Unasked,
         \A d \in Ends : /\ outpipe'[d] = NULL <=> state'[d] \in Acked
                         /\ inpipe'[d] = NULL <=> state'[d] = "deleted"
                         /\ state'[d] = "deleted" => mailbox'[d] = <<>>,
         \A r \in Brought(mailbox'[e]) : outpipe'[e] < r /\ r <= inpipe'[Peer(e)],
         \A r \in Brought(mailbox'[Peer(e)]) : outpipe'[Peer(e)] < r /\ r <= inpipe'[e],
         outpipe'[e] # NULL => inpipe'[Peer(e)] \in {outpipe'[e]} \cup Brought(mailbox'[e]),
         outpipe'[Peer(e)] # NULL => inpipe'[e] \in {outpipe'[Peer(e)]} \cup Brought(mailbox'[Peer(e)]),
         InSequence(mailbox'[e]), InSequence(mailbox'[Peer(e)]), KeptBy(e)'
  PROVE  SharedInv'
<1>1. Peer(e) \in Ends /\ Peer(Peer(e)) = e /\ \A d \in Ends : d = e \/ d = Peer(e)
  BY TwoEnds, Zenon
<1>2. Handshake'
  BY <1>1, Zenon DEF Handshake, InTransit
<1>3. Replaced'
  BY <1>1, Zenon DEF Replaced, Replacements
<1>4. \A d \in Ends : InSequence(mailbox'[d])
  BY <1>1, Zenon
<1>5. Kept'
  BY KeptEnds, Zenon
<1> QED
  BY <1>2, <1>3, <1>4, <1>5, Zenon DEF SharedInv

\* What is on its way to an end and what it and its peer have is of the
\* right type.
ProtocolTypeOK ==
    /\ state \in [Ends -> States] /\ AllYPipes(ypipes)
    /\ inpipe \in [Ends -> 0 .. Len(ypipes)] /\ outpipe \in [Ends -> 0 .. Len(ypipes)]
    /\ mailbox \in [Ends -> Seq(Commands)]

\* The two halves of TypeOK.
LEMMA Types ==
  /\ TypeOK <=> PlainTypeOK /\ ProtocolTypeOK
  /\ TypeOK' <=> PlainTypeOK' /\ ProtocolTypeOK'
<1>1. TypeOK <=> PlainTypeOK /\ ProtocolTypeOK
  BY Zenon DEF TypeOK, PlainTypeOK, ProtocolTypeOK, AllYPipes, Commands
<1>2. TypeOK' <=> PlainTypeOK' /\ ProtocolTypeOK'
  BY Zenon DEF TypeOK, PlainTypeOK, ProtocolTypeOK, AllYPipes, Commands
<1> QED
  BY <1>1, <1>2, Zenon

\* An end acknowledges its peer's request and lets go of its outpipe.
LEMMA AckStep ==
  ASSUME SharedInv, NEW e \in Ends, state[e] \notin Acked,
         NEW s \in {"term_ack_sent", "term_req_sent2"}, state' = [state EXCEPT ![e] = s],
         s = "term_ack_sent" => state[Peer(e)] = "term_req_sent1" /\ state[e] \notin Asked,
         s = "term_req_sent2" => state[Peer(e)] \in Asked /\ state[e] = "term_req_sent1",
         outpipe' = [outpipe EXCEPT ![e] = NULL], UNCHANGED inpipe,
         PlainTypeOK', AllYPipes(ypipes'), SameYPipes,
         mailbox' \in [Ends -> Seq(Commands)],
         ~Has(mailbox[e], "hiccup"), ~Has(mailbox'[e], "hiccup"),
         ~Has(mailbox'[e], "pipe_term"), InSequence(mailbox'[e]),
         Has(mailbox'[e], "pipe_term_ack") <=> Has(mailbox[e], "pipe_term_ack"),
         mailbox'[Peer(e)] = Append(mailbox[Peer(e)], Command("pipe_term_ack"))
  PROVE  SharedInv'
<1> DEFINE p == Peer(e)
<1>0. p \in Ends /\ p # e /\ \A d \in Ends : d = e \/ d = p
  BY TwoEnds, Zenon
<1>1. ProtocolTypeOK
  BY Types, Zenon DEF SharedInv
<1>2. /\ state'[e] = s /\ state'[p] = state[p] /\ state' \in [Ends -> States]
      /\ outpipe'[e] = NULL /\ outpipe'[p] = outpipe[p]
      /\ outpipe' \in [Ends -> 0 .. Len(ypipes')] /\ inpipe' \in [Ends -> 0 .. Len(ypipes')]
      /\ inpipe' = inpipe
  BY <1>0, <1>1, SMTT(30) DEF ProtocolTypeOK, States, SameYPipes, NULL, AllYPipes
<1>3. TypeOK'
  <2>1. ProtocolTypeOK'
    BY <1>2, Zenon DEF ProtocolTypeOK
  <2> QED
    BY <2>1, Types, Zenon
<1> DEFINE c == Command("pipe_term_ack")
<1>4. c \in Commands /\ c.type = "pipe_term_ack"
  BY Zenon DEF Command, Commands, CommandTypes
<1>5. mailbox[p] \in Seq(Commands)
  BY <1>0, <1>1, Zenon DEF ProtocolTypeOK
<1>15. mailbox'[p] = Append(mailbox[p], c)
  BY Zenon
<1> HIDE DEF c
<1>6. /\ Has(mailbox'[p], "pipe_term") <=> Has(mailbox[p], "pipe_term")
      /\ Has(mailbox'[p], "hiccup") <=> Has(mailbox[p], "hiccup")
      /\ Has(mailbox'[p], "pipe_term_ack")
      /\ Brought(mailbox'[p]) = Brought(mailbox[p])
  <2>1. /\ \A t : Has(Append(mailbox[p], c), t) <=> Has(mailbox[p], t) \/ c.type = t
        /\ c.type # "hiccup" => Brought(Append(mailbox[p], c)) = Brought(mailbox[p])
    BY <1>4, <1>5, Appended, Zenon
  <2>2. c.type # "hiccup" /\ c.type # "pipe_term"
    BY <1>4, Zenon
  <2> QED
    BY <1>4, <1>15, <2>1, <2>2, Zenon
<1>7. InSequence(mailbox'[p])
  <2>1. InSequence(mailbox[p]) /\ ~Has(mailbox[p], "pipe_term_ack")
    BY BothEnds, Zenon
  <2> QED
    BY <1>4, <1>5, <1>15, <2>1, Appended, Zenon
<1>8. Brought(mailbox[e]) = {} /\ Brought(mailbox'[e]) = {}
  BY NoneBrought, Zenon
<1>9. /\ inpipe[e] # NULL /\ outpipe[e] # NULL /\ inpipe[p] = outpipe[e]
      /\ outpipe[p] = NULL <=> state[p] \in Acked
      /\ inpipe[p] = NULL <=> state[p] = "deleted"
  BY <1>0, <1>8, Pointers, BothEnds, Zenon DEF Acked
<1>10. KeptBy(e)'
  <2>1. Stream(e)' = Stream(e)
    BY <1>2, <1>8, <1>9, Zenon DEF Stream, Replacements
  <2>2. Peer(p) = e
    BY TwoEnds, Zenon
  <2>3. Stream(p)' = Stream(p)
    BY <1>2, <1>6, <2>2, Zenon DEF Stream, Replacements
  <2>4. KeptBy(e)
    BY BothEnds, Zenon
  <2> QED
    BY <2>1, <2>3, <2>4, Zenon DEF KeptBy, SameYPipes
<1>11. /\ <<s, state[p]>> \in Agreeing /\ <<state[p], s>> \in Agreeing
       /\ s \notin Unasked /\ s \in Acked /\ s # "deleted" /\ state[p] # "deleted"
       /\ s \in Asked <=> state[e] \in Asked
  BY Zenon DEF Agreeing, States, Asked, Unasked, Acked
<1>12. /\ Has(mailbox'[e], "pipe_term") <=> state'[p] \in Asked /\ state'[e] \in Unasked
       /\ Has(mailbox'[p], "pipe_term") <=> state'[e] \in Asked /\ state'[p] \in Unasked
       /\ Has(mailbox'[e], "pipe_term_ack") <=> state'[p] \in Acked /\ state'[e] # "deleted"
       /\ Has(mailbox'[p], "pipe_term_ack") <=> state'[e] \in Acked /\ state'[p] # "deleted"
       /\ Has(mailbox'[p], "hiccup") => state'[p] \in Unasked
  <2>1. state[e] # "deleted"
    BY Zenon DEF Acked
  <2>2. /\ Has(mailbox[p], "pipe_term") <=> state[e] \in Asked /\ state[p] \in Unasked
        /\ Has(mailbox[e], "pipe_term_ack") <=> state[p] \in Acked /\ state[e] # "deleted"
        /\ Has(mailbox[p], "hiccup") => state[p] \in Unasked
    BY BothEnds, Zenon
  <2> QED
    BY <1>2, <1>6, <1>11, <2>1, <2>2, Zenon
<1>13. \A d \in Ends : /\ outpipe'[d] = NULL <=> state'[d] \in Acked
                       /\ inpipe'[d] = NULL <=> state'[d] = "deleted"
                       /\ state'[d] = "deleted" => mailbox'[d] = <<>>
  BY <1>0, <1>2, <1>9, <1>11, Zenon
<1>14. /\ \A r \in Brought(mailbox'[p]) : outpipe'[p] < r /\ r <= inpipe'[e]
       /\ outpipe'[p] # NULL => inpipe'[e] \in {outpipe'[p]} \cup Brought(mailbox'[p])
  BY <1>2, <1>6, BothEnds, Zenon
<1> QED
  BY <1>2, <1>3, <1>7, <1>8, <1>10, <1>11, <1>12, <1>13, <1>14, BothEndsNext, Zenon

\* An end that waits for the delimiter answers its peer.
LEMMA AnswerStep ==
  ASSUME SharedInv, NEW e \in Ends, state[e] = "waiting_for_delimiter",
         state' = [state EXCEPT ![e] = "term_ack_sent"],
         outpipe' = [outpipe EXCEPT ![e] = NULL], UNCHANGED inpipe,
         PlainTypeOK', AllYPipes(ypipes'), SameYPipes,
         mailbox' = [mailbox EXCEPT ![Peer(e)] = @ \o <<Command("pipe_term_ack")>>]
  PROVE  SharedInv'
<1> DEFINE p == Peer(e)
           c == Command("pipe_term_ack")
<1>0. p \in Ends /\ p # e /\ \A d \in Ends : d = e \/ d = p
  BY TwoEnds, Zenon
<1>1. ProtocolTypeOK
  BY Types, Zenon DEF SharedInv
<1>2. c \in Commands
  BY Zenon DEF Command, Commands, CommandTypes
<1>3. mailbox[p] \in Seq(Commands) /\ mailbox \in [Ends -> Seq(Commands)]
  BY <1>0, <1>1, Zenon DEF ProtocolTypeOK
<1>4. Append(mailbox[p], c) \in Seq(Commands) /\ mailbox[p] \o <<c>> = Append(mailbox[p], c)
  BY <1>2, <1>3, Appended, Concatenated, Zenon
<1>5. /\ mailbox'[p] = Append(mailbox[p], c) /\ mailbox'[e] = mailbox[e]
      /\ mailbox' \in [Ends -> Seq(Commands)]
  <2> HIDE DEF c
  <2> QED
    BY <1>0, <1>3, <1>4, Zenon DEF c
<1>6. /\ state[p] = "term_req_sent1" /\ ~Has(mailbox[e], "hiccup")
      /\ ~Has(mailbox[e], "pipe_term") /\ InSequence(mailbox[e])
  BY BothEnds, Zenon DEF Agreeing, Unasked
<1>7. state[e] \notin Acked /\ state[e] \notin Asked
  BY Zenon DEF Acked, Asked
<1> QED
  BY <1>5, <1>6, <1>7, AckStep, Zenon

\* process_delimiter (), with q what is left to read
LEMMA ProcessDelimiterStep ==
  ASSUME SharedInv, NEW e \in Ends, state[e] \in {"active", "waiting_for_delimiter"},
         NEW q, IsYPipe(q), q.exists = ypipes[inpipe[e]].exists,
         ProcessDelimiter(e, q), UNCHANGED setup
  PROVE  SharedInv'
<1> DEFINE p == Peer(e)
<1>0. p \in Ends /\ p # e /\ Peer(p) = e /\ \A d \in Ends : d = e \/ d = p
  BY TwoEnds, Zenon
<1>1. PlainTypeOK /\ ProtocolTypeOK
  BY Types, Zenon DEF SharedInv
<1>2. inpipe[e] \in 1 .. Len(ypipes)
  BY Pointers, Zenon
<1>3. AllYPipes(ypipes') /\ SameYPipes
  BY <1>2, SameExistence, Zenon DEF ProcessDelimiter
<1>4. PlainTypeOK'
  BY <1>1, Zenon DEF ProcessDelimiter, PlainTypeOK, owners
<1>5. CASE state[e] = "active"
  <2>1. /\ UNCHANGED <<inpipe, outpipe, mailbox>>
        /\ state' = [state EXCEPT ![e] = "delimiter_received"]
    BY <1>5, Zenon DEF ProcessDelimiter
  <2>2. /\ state' \in [Ends -> States] /\ state'[e] = "delimiter_received"
        /\ state'[p] = state[p]
    BY <1>0, <1>1, <2>1, Zenon DEF ProtocolTypeOK, States
  <2>3. TypeOK'
    <3>1. ProtocolTypeOK'
      BY <1>1, <1>3, <2>1, <2>2, Zenon DEF ProtocolTypeOK, SameYPipes
    <3> QED
      BY <1>4, <3>1, Types, Zenon
  <2>4. KeptBy(e)'
    <3>1. Stream(e)' = Stream(e) /\ Stream(p)' = Stream(p)
      BY <2>1, Zenon DEF Stream, Replacements
    <3>2. KeptBy(e)
      BY BothEnds, Zenon
    <3> QED
      BY <1>3, <3>1, <3>2, Zenon DEF KeptBy, SameYPipes
  <2>5. /\ <<state'[e], state'[p]>> \in Agreeing /\ <<state'[p], state'[e]>> \in Agreeing
        /\ state'[e] \in Asked <=> state[e] \in Asked
        /\ state'[e] \in Unasked <=> state[e] \in Unasked
        /\ state'[e] \in Acked <=> state[e] \in Acked
        /\ state'[e] # "deleted" /\ state[e] # "deleted"
    <3>1. <<"active", state[p]>> \in Agreeing /\ <<state[p], "active">> \in Agreeing
      BY <1>5, BothEnds, Zenon
    <3> QED
      BY <1>5, <2>2, <3>1, Zenon DEF Agreeing, States, Asked, Unasked, Acked
  <2>6. \A d \in Ends : /\ outpipe'[d] = NULL <=> state'[d] \in Acked
                        /\ inpipe'[d] = NULL <=> state'[d] = "deleted"
                        /\ state'[d] = "deleted" => mailbox'[d] = <<>>
    <3>1. \A d \in Ends : /\ outpipe[d] = NULL <=> state[d] \in Acked
                          /\ inpipe[d] = NULL <=> state[d] = "deleted"
                          /\ state[d] = "deleted" => mailbox[d] = <<>>
      BY Zenon DEF SharedInv, Handshake
    <3> QED
      BY <1>0, <2>1, <2>2, <2>5, <3>1, Zenon
  <2> QED
    BY <2>1, <2>2, <2>3, <2>4, <2>5, <2>6, BothEnds, BothEndsNext, Zenon
<1>6. CASE state[e] # "active"
  <2>1. /\ state' = [state EXCEPT ![e] = "term_ack_sent"]
        /\ outpipe' = [outpipe EXCEPT ![e] = NULL] /\ UNCHANGED inpipe
        /\ mailbox' = [mailbox EXCEPT ![p] = @ \o <<Command("pipe_term_ack")>>]
    BY <1>6, Zenon DEF ProcessDelimiter, Send
  <2>2. state[e] = "waiting_for_delimiter"
    BY <1>6, Zenon
  <2> QED
    BY <1>0, <1>3, <1>4, <2>1, <2>2, AnswerStep, Zenon
<1> QED
  BY <1>5, <1>6, Zenon

\* What terminate () leaves in the outbound ypipe
LEMMA EndedYPipe ==
  ASSUME NEW q, IsYPipe(q)
  PROVE  /\ IsYPipe(Written(Unwritten(q), Delimiter))
         /\ IsYPipe(Flushed(Written(Unwritten(q), Delimiter)))
         /\ Flushed(Written(Unwritten(q), Delimiter)).exists = q.exists
<1>1. Delimiter \in Messages
  BY Zenon DEF Delimiter, Message, Messages
<1>2. IsYPipe(Unwritten(q)) /\ Unwritten(q).exists = q.exists
  BY UnwrittenYPipe, Zenon
<1> DEFINE r == Unwritten(q)
<1> HIDE DEF r
<1>3. IsYPipe(r) /\ r.exists = q.exists
  BY <1>2, Zenon DEF r
<1>4. IsYPipe(Written(r, Delimiter)) /\ Written(r, Delimiter).exists = r.exists
  BY <1>1, <1>3, WrittenYPipe, Zenon
<1> DEFINE w == Written(r, Delimiter)
<1> HIDE DEF w
<1>5. IsYPipe(w) /\ w.exists = q.exists
  BY <1>3, <1>4, Zenon DEF w
<1>6. IsYPipe(Flushed(w)) /\ Flushed(w).exists = w.exists
  BY <1>5, FlushedYPipe, Zenon
<1> QED
  BY <1>5, <1>6, Zenon DEF w, r

\* An end asks its peer to terminate, and wakes it up if it sleeps.
LEMMA AskStep ==
  ASSUME SharedInv, NEW e \in Ends, state[e] \in {"active", "delimiter_received"},
         state' = [state EXCEPT ![e] = "term_req_sent1"], UNCHANGED <<inpipe, outpipe>>,
         PlainTypeOK', AllYPipes(ypipes'), SameYPipes,
         NEW w, w = <<>> \/ w = <<Command("activate_read")>>,
         mailbox' = [mailbox EXCEPT ![Peer(e)] = @ \o (<<Command("pipe_term")>> \o w)]
  PROVE  SharedInv'
<1> DEFINE p == Peer(e)
           c == Command("pipe_term")
           d == Command("activate_read")
           q == mailbox[p]
<1>0. p \in Ends /\ p # e /\ Peer(p) = e /\ \A x \in Ends : x = e \/ x = p
  BY TwoEnds, Zenon
<1>1. ProtocolTypeOK
  BY Types, Zenon DEF SharedInv
<1>2. c \in Commands /\ c.type = "pipe_term" /\ d \in Commands /\ d.type = "activate_read"
  BY Zenon DEF Command, Commands, CommandTypes
<1>3. q \in Seq(Commands) /\ mailbox \in [Ends -> Seq(Commands)]
  BY <1>0, <1>1, Zenon DEF ProtocolTypeOK
<1>4. /\ q \o (<<c>> \o <<>>) = Append(q, c)
      /\ q \o (<<c>> \o <<d>>) = Append(Append(q, c), d)
      /\ Append(q, c) \in Seq(Commands) /\ Append(Append(q, c), d) \in Seq(Commands)
  BY <1>2, <1>3, Appended, Concatenated
<1>5. /\ mailbox'[p] = Append(q, c) \/ mailbox'[p] = Append(Append(q, c), d)
      /\ mailbox'[e] = mailbox[e] /\ mailbox' \in [Ends -> Seq(Commands)]
  <2>1. mailbox' = [mailbox EXCEPT ![p] = q \o (<<c>> \o w)] /\ (w = <<>> \/ w = <<d>>)
    BY Zenon
  <2> HIDE DEF c, d, q
  <2>2. q \o (<<c>> \o w) \in {Append(q, c), Append(Append(q, c), d)}
    BY <1>4, <2>1, Zenon
  <2>3. q \o (<<c>> \o w) \in Seq(Commands)
    BY <1>4, <2>2, Zenon
  <2>4. mailbox'[p] = q \o (<<c>> \o w) /\ mailbox'[e] = mailbox[e]
        /\ mailbox' \in [Ends -> Seq(Commands)]
    BY <1>0, <1>3, <2>1, <2>3, Zenon
  <2> QED
    BY <2>2, <2>4, Zenon
<1>6. InSequence(q) /\ ~Has(q, "pipe_term_ack") /\ ~Has(q, "pipe_term")
  BY BothEnds, Zenon DEF Asked, Acked
<1> HIDE DEF c, d, q
<1>7. /\ Has(Append(q, c), "pipe_term") /\ ~Has(Append(q, c), "pipe_term_ack")
      /\ Has(Append(q, c), "hiccup") <=> Has(q, "hiccup")
      /\ Brought(Append(q, c)) = Brought(q) /\ InSequence(Append(q, c))
  <2>1. c.type # "hiccup" /\ c.type # "pipe_term_ack"
    BY <1>2, Zenon
  <2> QED
    BY <1>2, <1>3, <1>6, <2>1, Appended, Zenon
<1>8. /\ Has(Append(Append(q, c), d), "pipe_term") /\ ~Has(Append(Append(q, c), d), "pipe_term_ack")
      /\ Has(Append(Append(q, c), d), "hiccup") <=> Has(q, "hiccup")
      /\ Brought(Append(Append(q, c), d)) = Brought(q) /\ InSequence(Append(Append(q, c), d))
  <2> DEFINE qq == Append(q, c)
  <2>1. d.type # "hiccup" /\ d.type # "pipe_term_ack" /\ d.type # "pipe_term"
    BY <1>2, Zenon
  <2>2. /\ qq \in Seq(Commands) /\ Has(qq, "pipe_term") /\ ~Has(qq, "pipe_term_ack")
        /\ Has(qq, "hiccup") <=> Has(q, "hiccup")
        /\ Brought(qq) = Brought(q) /\ InSequence(qq)
    BY <1>4, <1>7, Zenon
  <2> HIDE DEF qq
  <2>3. /\ Has(Append(qq, d), "pipe_term") /\ ~Has(Append(qq, d), "pipe_term_ack")
        /\ Has(Append(qq, d), "hiccup") <=> Has(q, "hiccup")
        /\ Brought(Append(qq, d)) = Brought(q) /\ InSequence(Append(qq, d))
    BY <1>2, <2>1, <2>2, Appended, Zenon
  <2> QED
    BY <2>3, Zenon DEF qq
<1>9. /\ Has(mailbox'[p], "pipe_term") /\ ~Has(mailbox'[p], "pipe_term_ack")
      /\ Has(mailbox'[p], "hiccup") <=> Has(mailbox[p], "hiccup")
      /\ Brought(mailbox'[p]) = Brought(mailbox[p]) /\ InSequence(mailbox'[p])
  BY <1>5, <1>7, <1>8, Zenon DEF q
<1>10. /\ state' \in [Ends -> States] /\ state'[e] = "term_req_sent1" /\ state'[p] = state[p]
  BY <1>0, <1>1, Zenon DEF ProtocolTypeOK, States
<1>11. TypeOK'
  <2>1. ProtocolTypeOK'
    BY <1>1, <1>5, <1>10, Zenon DEF ProtocolTypeOK, SameYPipes
  <2> QED
    BY <2>1, Types, Zenon
<1>12. KeptBy(e)'
  <2>1. Stream(e)' = Stream(e) /\ Stream(p)' = Stream(p)
    BY <1>0, <1>5, <1>9, Zenon DEF Stream, Replacements
  <2>2. KeptBy(e)
    BY BothEnds, Zenon
  <2> QED
    BY <2>1, <2>2, Zenon DEF KeptBy, SameYPipes
<1>13. /\ <<state'[e], state'[p]>> \in Agreeing /\ <<state'[p], state'[e]>> \in Agreeing
       /\ state'[e] \in Asked /\ state'[e] \in Unasked /\ state[e] \in Unasked
       /\ state'[e] \notin Acked /\ state[e] \notin Acked /\ state[p] \in Unasked
       /\ state'[e] # "deleted" /\ state[e] # "deleted"
  <2>1. <<state[e], state[p]>> \in Agreeing
    BY BothEnds, Zenon
  <2> QED
    BY <1>10, <2>1 DEF Agreeing, States, Asked, Unasked, Acked
<1>14. \A x \in Ends : /\ outpipe'[x] = NULL <=> state'[x] \in Acked
                       /\ inpipe'[x] = NULL <=> state'[x] = "deleted"
                       /\ state'[x] = "deleted" => mailbox'[x] = <<>>
  <2>1. \A x \in Ends : /\ outpipe[x] = NULL <=> state[x] \in Acked
                        /\ inpipe[x] = NULL <=> state[x] = "deleted"
    BY Zenon DEF SharedInv, Handshake
  <2>2. state[p] # "deleted"
    BY <1>13, Zenon DEF Unasked
  <2> QED
    BY <1>0, <1>10, <1>13, <2>1, <2>2, Zenon
<1>15. /\ Has(mailbox'[e], "pipe_term") <=> state'[p] \in Asked /\ state'[e] \in Unasked
       /\ Has(mailbox'[e], "pipe_term_ack") <=> state'[p] \in Acked /\ state'[e] # "deleted"
       /\ Has(mailbox'[p], "hiccup") => state'[p] \in Unasked
  BY <1>5, <1>10, <1>13, BothEnds, Zenon
<1>16. /\ \A r \in Brought(mailbox'[e]) : outpipe'[e] < r /\ r <= inpipe'[p]
       /\ \A r \in Brought(mailbox'[p]) : outpipe'[p] < r /\ r <= inpipe'[e]
       /\ outpipe'[e] # NULL => inpipe'[p] \in {outpipe'[e]} \cup Brought(mailbox'[e])
       /\ outpipe'[p] # NULL => inpipe'[e] \in {outpipe'[p]} \cup Brought(mailbox'[p])
       /\ InSequence(mailbox'[e])
  BY <1>5, <1>9, BothEnds, Zenon
<1> QED
  BY <1>9, <1>10, <1>11, <1>12, <1>13, <1>14, <1>15, <1>16, BothEndsNext, Zenon

\* terminate ()
LEMMA TerminateStep ==
  ASSUME SharedInv, NEW e \in Ends, NEW b \in BOOLEAN, Terminate(e, b), UNCHANGED setup
  PROVE  SharedInv'
<1> DEFINE p == Peer(e)
           q == Written(Unwritten(ypipes[outpipe[e]]), Delimiter)
<1>0. state[e] \in {"active", "delimiter_received", "waiting_for_delimiter"}
      /\ state[e] \notin Acked
  BY Zenon DEF Terminate, Acked
<1>1. PlainTypeOK /\ ProtocolTypeOK
  BY Types, Zenon DEF SharedInv
<1>2. PlainTypeOK'
  <2>1. closes' \in [Ends -> Nat] /\ writing' \in [Ends -> Nat]
    BY <1>1 DEF Terminate, PlainTypeOK
  <2>2. delay' \in [Ends -> BOOLEAN] /\ out_active' \in [Ends -> BOOLEAN]
    BY <1>1, Zenon DEF Terminate, PlainTypeOK
  <2> QED
    BY <1>1, <2>1, <2>2, Zenon DEF Terminate, PlainTypeOK
<1>3. CASE state[e] = "waiting_for_delimiter" /\ ~b
  <2>1. /\ state' = [state EXCEPT ![e] = "term_ack_sent"] /\ UNCHANGED <<inpipe, ypipes>>
        /\ outpipe' = [outpipe EXCEPT ![e] = NULL]
        /\ mailbox' = [mailbox EXCEPT ![p] = @ \o <<Command("pipe_term_ack")>>]
    BY <1>3, Zenon DEF Terminate, Send
  <2>2. AllYPipes(ypipes') /\ SameYPipes
    BY <1>1, <2>1, Zenon DEF ProtocolTypeOK, SameYPipes
  <2> QED
    BY <1>2, <1>3, <2>1, <2>2, AnswerStep, Zenon
<1>4. CASE ~(state[e] = "waiting_for_delimiter" /\ ~b)
  <2>1. ypipes' = [ypipes EXCEPT ![outpipe[e]] = Flushed(q)] /\ UNCHANGED <<inpipe, outpipe>>
    BY <1>4, Zenon DEF Terminate
  <2>2. outpipe[e] \in 1 .. Len(ypipes) /\ IsYPipe(ypipes[outpipe[e]])
    BY <1>0, Pointers, Zenon
  <2>3. IsYPipe(Flushed(q)) /\ Flushed(q).exists = ypipes[outpipe[e]].exists
    BY <2>2, EndedYPipe, Zenon
  <2> HIDE DEF q
  <2>4. AllYPipes(ypipes') /\ SameYPipes
    BY <2>1, <2>2, <2>3, SameExistence, Zenon
  <2>5. CASE state[e] = "waiting_for_delimiter"
    <3>1. /\ state' = [state EXCEPT ![e] = @]
          /\ Send(p, <<>> \o Wakeup(q))
      BY <1>4, <2>5, Zenon DEF Terminate, q
    <3>2. state' = state
      BY <1>1, <3>1, Zenon DEF ProtocolTypeOK
    <3>3. <<>> \o Wakeup(q) = Wakeup(q)
      BY DEF Wakeup
    <3>4. SameCommands
      BY <1>0, <3>1, <3>3, WokenUp, Zenon
    <3> QED
      BY <1>2, <2>1, <2>4, <3>2, <3>4, QuietStep, Zenon
  <2>6. CASE state[e] \in {"active", "delimiter_received"}
    <3>1. state' = [state EXCEPT ![e] = "term_req_sent1"]
      BY <2>6, Zenon DEF Terminate
    <3>2. mailbox' = [mailbox EXCEPT ![p] = @ \o (<<Command("pipe_term")>> \o Wakeup(q))]
      BY <1>4, <2>6, Zenon DEF Terminate, Send, q
    <3>3. Wakeup(q) = <<>> \/ Wakeup(q) = <<Command("activate_read")>>
      BY Zenon DEF Wakeup
    <3> QED
      BY <1>2, <2>1, <2>4, <2>6, <3>1, <3>2, <3>3, AskStep, Zenon
  <2> QED
    BY <1>0, <2>5, <2>6, Zenon
<1> QED
  BY <1>3, <1>4, Zenon

============================================================================
