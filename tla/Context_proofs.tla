--------------------------- MODULE Context_proofs ---------------------------
(***************************************************************************)
(* For any number of sockets and any budget: no connection waits for an    *)
(* address that is bound, and zmq_ctx_term () returns once, when every     *)
(* socket is gone and the reaper has nothing left to do.                   *)
(***************************************************************************)
EXTENDS Context, FiniteFacts, TLAPS
---------------------------------------------------------------------------
(* Finite sets.                                                            *)

\* The number of elements is a number.
LEMMA CardType ==
    ASSUME CardFacts, NEW S, IsFiniteSet(S)
    PROVE  Cardinality(S) \in Nat
  BY Zenon DEF CardFacts, TypeFact

\* Only the empty set has none.
LEMMA CardEmpty ==
    ASSUME CardFacts
    PROVE  /\ IsFiniteSet({}) /\ Cardinality({}) = 0
           /\ \A S : IsFiniteSet(S) => (Cardinality(S) = 0 <=> S = {})
  BY Zenon DEF CardFacts, EmptyFact

\* One element more.
LEMMA CardAdd ==
    ASSUME CardFacts, NEW S, NEW x, IsFiniteSet(S)
    PROVE  /\ IsFiniteSet(S \cup {x})
           /\ Cardinality(S \cup {x}) = IF x \in S THEN Cardinality(S) ELSE Cardinality(S) + 1
  BY Zenon DEF CardFacts, AddFact

\* One element less.
LEMMA CardRemove ==
    ASSUME CardFacts, NEW S, NEW x, IsFiniteSet(S)
    PROVE  /\ IsFiniteSet(S \ {x})
           /\ Cardinality(S \ {x}) = IF x \in S THEN Cardinality(S) - 1 ELSE Cardinality(S)
  BY Zenon DEF CardFacts, RemoveFact

\* Part of a finite set.
LEMMA CardSubset ==
    ASSUME CardFacts, NEW S, IsFiniteSet(S), NEW T \in SUBSET S
    PROVE  IsFiniteSet(T)
  BY Zenon DEF CardFacts, SubsetFact

\* The numbers between two.
LEMMA CardInterval ==
    ASSUME CardFacts, NEW a \in Int, NEW b \in Int
    PROVE  /\ IsFiniteSet(a .. b)
           /\ Cardinality(a .. b) = IF a > b THEN 0 ELSE b - a + 1
  BY Zenon DEF CardFacts, IntervalFact

\* Two sets together.
LEMMA CardUnion ==
    ASSUME CardFacts, NEW S, IsFiniteSet(S), NEW T, IsFiniteSet(T)
    PROVE  /\ IsFiniteSet(S \cup T)
           /\ Cardinality(S \cup T) = Cardinality(S) + Cardinality(T) - Cardinality(S \cap T)
  BY Zenon DEF CardFacts, UnionFact

\* Sets whose elements correspond one to one.
LEMMA CardBijection ==
    ASSUME CardFacts, NEW S, NEW T, NEW f, IsFiniteSet(S), OneToOne(f, S, T)
    PROVE  Cardinality(T) = Cardinality(S)
  BY Zenon DEF CardFacts, BijectionFact

---------------------------------------------------------------------------
(* The reaper's mailbox.                                                   *)

Cmds == [type : {"reap", "stop", "reaped"}, arg : Sockets \cup {NoOne}]

\* The commands the threads send to the reaper.
LEMMA CommandTypes ==
    /\ Command("stop", NoOne) \in Cmds /\ Command("stop", NoOne).type = "stop"
    /\ Command("reaped", NoOne) \in Cmds /\ Command("reaped", NoOne).type = "reaped"
    /\ \A s \in Sockets : /\ Command("reap", s) \in Cmds
                          /\ Command("reap", s).type = "reap"
                          /\ Command("reap", s).arg = s
  BY Zenon DEF Command, Cmds

\* Where the commands of a type are when one has been appended.
LEMMA AtAppend ==
    ASSUME NEW q \in Seq(Cmds), NEW c \in Cmds
    PROVE  /\ Append(q, c) \in Seq(Cmds)
           /\ \A i \in 1 .. Len(q) : Append(q, c)[i] = q[i]
           /\ Append(q, c)[Len(q) + 1] = c
           /\ Len(q) \in Nat
           /\ \A t : At(Append(q, c), t) =
                 IF c.type = t THEN At(q, t) \cup {Len(q) + 1} ELSE At(q, t)
  <1>1. /\ Append(q, c) \in Seq(Cmds) /\ Len(q) \in Nat
        /\ Len(Append(q, c)) = Len(q) + 1
        /\ \A i \in 1 .. Len(q) : Append(q, c)[i] = q[i]
        /\ Append(q, c)[Len(q) + 1] = c
    OBVIOUS
  <1>2. 1 .. Len(q) + 1 = (1 .. Len(q)) \cup {Len(q) + 1}
    BY <1>1
  <1>3. ASSUME NEW t
        PROVE  At(Append(q, c), t) =
                 IF c.type = t THEN At(q, t) \cup {Len(q) + 1} ELSE At(q, t)
    <2> DEFINE p == Append(q, c)
    <2>1. /\ Len(p) = Len(q) + 1 /\ p[Len(q) + 1] = c
          /\ \A i \in 1 .. Len(q) : p[i] = q[i]
      BY <1>1, Zenon
    <2> HIDE DEF p
    <2>2. At(p, t) = IF c.type = t THEN At(q, t) \cup {Len(q) + 1} ELSE At(q, t)
      BY <2>1, <1>2, Zenon DEF At
    <2> QED
      BY <2>2, Zenon DEF p
  <1> QED
    BY <1>1, <1>3, Zenon

\* The commands of a type can be counted.
LEMMA AtFinite ==
    ASSUME CardFacts, NEW q \in Seq(Cmds), NEW t
    PROVE  /\ At(q, t) \subseteq 1 .. Len(q)
           /\ IsFiniteSet(At(q, t)) /\ Cardinality(At(q, t)) \in Nat
           /\ Cardinality(At(q, t)) = 0 <=> At(q, t) = {}
  <1>1. At(q, t) \subseteq 1 .. Len(q)
    BY Zenon DEF At
  <1>2. IsFiniteSet(1 .. Len(q))
    BY CardInterval
  <1>3. IsFiniteSet(At(q, t))
    BY <1>1, <1>2, CardSubset, Zenon
  <1> QED
    BY <1>1, <1>3, CardType, CardEmpty, Zenon

\* One more command of its type.
LEMMA CountAppend ==
    ASSUME CardFacts, NEW q \in Seq(Cmds), NEW c \in Cmds, NEW t
    PROVE  Cardinality(At(Append(q, c), t)) =
             Cardinality(At(q, t)) + (IF c.type = t THEN 1 ELSE 0)
  <1>1. At(Append(q, c), t) =
          IF c.type = t THEN At(q, t) \cup {Len(q) + 1} ELSE At(q, t)
    BY AtAppend
  <1>2. /\ At(q, t) \subseteq 1 .. Len(q) /\ IsFiniteSet(At(q, t))
        /\ Cardinality(At(q, t)) \in Nat
    BY AtFinite, Zenon
  <1>3. Len(q) + 1 \notin At(q, t)
    BY <1>2
  <1>4. Cardinality(At(q, t) \cup {Len(q) + 1}) = Cardinality(At(q, t)) + 1
    BY <1>2, <1>3, CardAdd, Zenon
  <1> QED
    BY <1>1, <1>2, <1>4

\* What the reaper reads it takes from the front.
LEMMA AtTail ==
    ASSUME NEW q \in Seq(Cmds), q # <<>>
    PROVE  /\ Tail(q) \in Seq(Cmds) /\ Head(q) \in Cmds /\ Head(q) = q[1]
           /\ Len(q) \in Nat /\ 1 \in 1 .. Len(q)
           /\ \A t : At(Tail(q), t) = {i \in 1 .. Len(q) - 1 : i + 1 \in At(q, t)}
           /\ \A t : \A i \in At(Tail(q), t) : Tail(q)[i] = q[i + 1] /\ i + 1 # 1
  <1>1. /\ Tail(q) \in Seq(Cmds) /\ Head(q) \in Cmds /\ Head(q) = q[1]
        /\ Len(q) \in Nat /\ Len(q) > 0 /\ Len(Tail(q)) = Len(q) - 1
        /\ \A i \in 1 .. Len(q) - 1 : Tail(q)[i] = q[i + 1]
    OBVIOUS
  <1>2. \A i \in 1 .. Len(q) - 1 : i + 1 \in 1 .. Len(q) /\ i + 1 # 1
    BY <1>1
  <1>3. 1 \in 1 .. Len(q)
    BY <1>1
  <1> QED
    BY <1>1, <1>2, <1>3, Zenon DEF At

\* One command less of the type of the first.
LEMMA CountTail ==
    ASSUME CardFacts, NEW q \in Seq(Cmds), q # <<>>, NEW t
    PROVE  Cardinality(At(Tail(q), t)) =
             Cardinality(At(q, t)) - (IF Head(q).type = t THEN 1 ELSE 0)
  <1> DEFINE T == At(Tail(q), t)
             S == At(q, t) \ {1}
             f == [i \in T |-> i + 1]
  <1>1. /\ Len(q) \in Nat /\ T = {i \in 1 .. Len(q) - 1 : i + 1 \in At(q, t)}
        /\ IsFiniteSet(T) /\ T \subseteq Int
    <2>1. Tail(q) \in Seq(Cmds)
      BY AtTail, Zenon
    <2>2. IsFiniteSet(T) /\ T \subseteq 1 .. Len(Tail(q))
      BY <2>1, AtFinite, Zenon
    <2>3. Len(q) \in Nat /\ T = {i \in 1 .. Len(q) - 1 : i + 1 \in At(q, t)}
      BY AtTail, Zenon
    <2>4. T \subseteq Int
      <3> HIDE DEF T
      <3> QED
        BY <2>3
    <2> QED
      BY <2>2, <2>3, <2>4, Zenon
  <1>2. /\ At(q, t) \subseteq 1 .. Len(q) /\ IsFiniteSet(At(q, t))
        /\ Cardinality(At(q, t)) \in Nat
    BY AtFinite, Zenon
  <1>3. 1 \in At(q, t) <=> Head(q).type = t
    BY AtTail, Zenon DEF At
  <1>4. f \in [T -> S]
    BY <1>1
  <1>5. ASSUME NEW j \in S PROVE \E i \in T : f[i] = j
    <2>1. j \in Int /\ j - 1 \in 1 .. Len(q) - 1 /\ (j - 1) + 1 = j
      BY <1>1, <1>2
    <2>2. j - 1 \in T
      BY <1>1, <2>1, Zenon
    <2> QED
      BY <2>1, <2>2, Zenon
  <1>6. \A i, j \in T : f[i] = f[j] => i = j
    BY <1>1
  <1>8. Cardinality(S) = Cardinality(T)
    <2> HIDE DEF T, S, f
    <2>1. OneToOne(f, T, S)
      BY <1>4, <1>5, <1>6, Zenon DEF OneToOne
    <2> QED
      BY <1>1, <2>1, CardBijection, Zenon
  <1>9. Cardinality(S) = IF 1 \in At(q, t) THEN Cardinality(At(q, t)) - 1
                         ELSE Cardinality(At(q, t))
    BY <1>2, CardRemove, Zenon
  <1> QED
    BY <1>2, <1>3, <1>8, <1>9

---------------------------------------------------------------------------
(* What holds of the commands in it.                                       *)

MailOK(q, l) ==
    /\ q \in Seq(Cmds)
    /\ \A i \in At(q, "reap") : q[i].arg \in Sockets /\ l[q[i].arg] = "closed"
    /\ \A i, j \in At(q, "reap") : q[i].arg = q[j].arg => i = j
    /\ \A i, j \in At(q, "stop") : i = j

Counts(q) == Cardinality(At(q, "reaped"))

\* Nobody asks for s to be reaped.
NotFor(q, s) == \A i \in At(q, "reap") : q[i].arg # s

\* In k socket s is closed and the others are as in l.
Closes(k, l, s) == k[s] = "closed" /\ \A r \in Sockets : r # s => k[r] = l[r]

\* A stop command, if there was none.
LEMMA MailStop ==
    ASSUME CardFacts, NEW q, NEW l, MailOK(q, l), At(q, "stop") = {},
           NEW p, p = Append(q, Command("stop", NoOne))
    PROVE  MailOK(p, l) /\ Counts(p) = Counts(q)
  <1> DEFINE c == Command("stop", NoOne)
  <1>1. c \in Cmds /\ c.type = "stop" /\ q \in Seq(Cmds)
    BY CommandTypes, Zenon DEF MailOK
  <1> HIDE DEF c
  <1>2. /\ p \in Seq(Cmds) /\ Len(q) \in Nat
        /\ \A i \in 1 .. Len(q) : p[i] = q[i]
        /\ At(p, "reap") = At(q, "reap") /\ At(p, "stop") = {Len(q) + 1}
    BY <1>1, AtAppend DEF c
  <1>3. At(q, "reap") \subseteq 1 .. Len(q)
    BY <1>1, AtFinite, Zenon
  <1>4. Counts(p) = Counts(q)
    <2>1. Counts(p) = Counts(q) + 0 /\ Counts(q) \in Nat
      BY <1>1, CountAppend, AtFinite, Zenon DEF Counts, c
    <2> QED
      BY <2>1
  <1>5. MailOK(p, l)
    BY <1>2, <1>3 DEF MailOK
  <1> QED
    BY <1>4, <1>5, Zenon

\* A reaped command.
LEMMA MailReaped ==
    ASSUME CardFacts, NEW q, NEW l, MailOK(q, l), NEW p, p = Append(q, Command("reaped", NoOne))
    PROVE  /\ MailOK(p, l) /\ Counts(p) = Counts(q) + 1
           /\ At(p, "stop") = At(q, "stop")
  <1> DEFINE c == Command("reaped", NoOne)
  <1>1. c \in Cmds /\ c.type = "reaped" /\ q \in Seq(Cmds)
    BY CommandTypes, Zenon DEF MailOK
  <1> HIDE DEF c
  <1>2. /\ p \in Seq(Cmds) /\ Len(q) \in Nat
        /\ \A i \in 1 .. Len(q) : p[i] = q[i]
        /\ At(p, "reap") = At(q, "reap") /\ At(p, "stop") = At(q, "stop")
    BY <1>1, AtAppend DEF c
  <1>3. At(q, "reap") \subseteq 1 .. Len(q)
    BY <1>1, AtFinite, Zenon
  <1>4. Counts(p) = Counts(q) + 1
    BY <1>1, CountAppend, Zenon DEF Counts, c
  <1>5. MailOK(p, l)
    BY <1>2, <1>3 DEF MailOK
  <1> QED
    BY <1>2, <1>4, <1>5, Zenon

\* A reap command, for a socket that was open.
LEMMA MailReap ==
    ASSUME CardFacts, NEW q, NEW l, MailOK(q, l), NEW s \in Sockets, l[s] = "open",
           NEW k, Closes(k, l, s),
           NEW p, p = Append(q, Command("reap", s))
    PROVE  /\ MailOK(p, k) /\ Counts(p) = Counts(q)
           /\ At(p, "stop") = At(q, "stop")
  <1> DEFINE c == Command("reap", s)
  <1>1. c \in Cmds /\ c.type = "reap" /\ c.arg = s /\ q \in Seq(Cmds)
    BY CommandTypes, Zenon DEF MailOK
  <1> HIDE DEF c
  <1>2. /\ p \in Seq(Cmds) /\ Len(q) \in Nat
        /\ \A i \in 1 .. Len(q) : p[i] = q[i]
        /\ p[Len(q) + 1] = c
        /\ At(p, "reap") = At(q, "reap") \cup {Len(q) + 1}
        /\ At(p, "stop") = At(q, "stop")
    BY <1>1, AtAppend DEF c
  <1>3. At(q, "reap") \subseteq 1 .. Len(q)
    BY <1>1, AtFinite, Zenon
  <1>4. Counts(p) = Counts(q)
    <2>1. Counts(p) = Counts(q) + 0 /\ Counts(q) \in Nat
      BY <1>1, CountAppend, AtFinite, Zenon DEF Counts, c
    <2> QED
      BY <2>1
  <1>5. \A i \in At(q, "reap") :
          /\ p[i] = q[i] /\ p[i].arg \in Sockets /\ p[i].arg # s
          /\ k[p[i].arg] = "closed"
    <2> SUFFICES ASSUME NEW i \in At(q, "reap")
                 PROVE  /\ p[i] = q[i] /\ p[i].arg \in Sockets /\ p[i].arg # s
                        /\ k[p[i].arg] = "closed"
      BY Zenon
    <2>1. p[i] = q[i] /\ q[i].arg \in Sockets /\ l[q[i].arg] = "closed"
      BY <1>2, <1>3, Zenon DEF MailOK
    <2>2. q[i].arg # s
      BY <2>1, Zenon
    <2> QED
      BY <2>1, <2>2, Zenon DEF Closes
  <1>6. p[Len(q) + 1].arg = s
    BY <1>1, <1>2, Zenon
  <1>7. MailOK(p, k)
    <2> DEFINE n == Len(q) + 1
    <2>1. /\ At(p, "reap") = At(q, "reap") \cup {n} /\ p[n].arg = s /\ k[s] = "closed"
          /\ p[n].arg \in Sockets
      BY <1>2, <1>6, Zenon DEF Closes
    <2> HIDE DEF n
    <2>2. \A i \in At(p, "reap") : p[i].arg \in Sockets /\ k[p[i].arg] = "closed"
      BY <1>5, <2>1, Zenon
    <2>3. ASSUME NEW i \in At(p, "reap"), NEW j \in At(p, "reap"), p[i].arg = p[j].arg
          PROVE  i = j
      <3>1. CASE i \in At(q, "reap") /\ j \in At(q, "reap")
        <4>1. q[i].arg = q[j].arg
          BY <1>5, <2>3, <3>1, Zenon
        <4> QED
          BY <3>1, <4>1, Zenon DEF MailOK
      <3>2. CASE i = n
        BY <1>5, <2>1, <2>3, <3>2, Zenon
      <3>3. CASE j = n
        BY <1>5, <2>1, <2>3, <3>3, Zenon
      <3> QED
        BY <2>1, <3>1, <3>2, <3>3, Zenon
    <2> QED
      BY <1>2, <2>2, <2>3, Zenon DEF MailOK
  <1> QED
    BY <1>2, <1>4, <1>7, Zenon

\* The reaper takes a command: if it is to reap s, no other command is; if it
\* is to stop, no other command is.
LEMMA MailTail ==
    ASSUME CardFacts, NEW q, NEW l, MailOK(q, l), q # <<>>, NEW p, p = Tail(q)
    PROVE  /\ MailOK(p, l)
           /\ Head(q) \in Cmds
           /\ Head(q).type = "reap" =>
                /\ Head(q).arg \in Sockets /\ l[Head(q).arg] = "closed"
                /\ Counts(p) = Counts(q)
                /\ NotFor(p, Head(q).arg)
           /\ Head(q).type = "stop" =>
                At(q, "stop") # {} /\ At(p, "stop") = {} /\ Counts(p) = Counts(q)
           /\ Head(q).type = "reaped" => Counts(p) = Counts(q) - 1
           /\ At(p, "stop") # {} => At(q, "stop") # {}
  <1>1. q \in Seq(Cmds)
    BY Zenon DEF MailOK
  <1>2. /\ p \in Seq(Cmds) /\ Head(q) \in Cmds /\ Head(q) = q[1]
        /\ Len(q) \in Nat /\ 1 \in 1 .. Len(q)
        /\ \A t : At(p, t) = {i \in 1 .. Len(q) - 1 : i + 1 \in At(q, t)}
        /\ \A t : \A i \in At(p, t) : p[i] = q[i + 1] /\ i + 1 # 1
    BY <1>1, AtTail, Zenon
  <1>3. /\ Counts(q) \in Nat
        /\ Counts(p) = Counts(q) - (IF Head(q).type = "reaped" THEN 1 ELSE 0)
    BY <1>1, CountTail, AtFinite, Zenon DEF Counts
  <1>4. \A t : \A i \in At(p, t) : i \in Int /\ i + 1 \in At(q, t)
    BY <1>2
  <1>5. \A t : Head(q).type = t => 1 \in At(q, t)
    BY <1>2, Zenon DEF At
  <1>6. \A i, j \in Int : i + 1 = j + 1 => i = j
    OBVIOUS
  <1>7. MailOK(p, l)
    BY <1>2, <1>4, <1>6 DEF MailOK
  <1>8. ASSUME Head(q).type = "reap"
        PROVE  /\ Head(q).arg \in Sockets /\ l[Head(q).arg] = "closed"
               /\ NotFor(p, Head(q).arg)
    BY <1>2, <1>4, <1>5, <1>8 DEF MailOK, NotFor
  <1>9. ASSUME Head(q).type = "stop"
        PROVE  At(q, "stop") # {} /\ At(p, "stop") = {}
    BY <1>2, <1>4, <1>5, <1>9, Zenon DEF MailOK
  <1>10. At(p, "stop") # {} => At(q, "stop") # {}
    BY <1>4, Zenon
  <1> QED
    BY <1>2, <1>3, <1>7, <1>8, <1>9, <1>10

\* The commands do not mind what happens to sockets they are not about.
LEMMA MailLife ==
    ASSUME NEW q, NEW l, MailOK(q, l), NEW k,
           \A i \in At(q, "reap") : k[q[i].arg] = l[q[i].arg]
    PROVE  MailOK(q, k)
  BY Zenon DEF MailOK

---------------------------------------------------------------------------
(* The invariant, with the commands of the mailbox as one part of it.      *)

Listed == sockets = {s \in Sockets : life[s] \notin {"none", "deleted"}}
CountsReaping == IsFiniteSet(Reaping) /\ reaped = Cardinality(Reaping) + Counts(reaper_mailbox)
Stops ==
    /\ At(reaper_mailbox, "stop") # {} => reaper = "running"
    /\ At(reaper_mailbox, "stop") # {} \/ reaper # "running" =>
          terminating /\ sockets = {}
Parts ==
    /\ ContextTypeOK /\ Listed /\ CountsReaping
    /\ MailOK(reaper_mailbox, life) /\ Stops /\ ReportsOnce

\* The parts make up the invariant.
LEMMA InvParts == ContextInv <=> Parts
  BY Zenon DEF ContextInv, Parts, ContextTypeOK, Listed, CountsReaping, Stops, ReapsClosed,
         StopsOnce, MailOK, Counts, Cmds

\* In the beginning there is nothing.
LEMMA ContextInit ==
    ASSUME CardFacts
    PROVE  Init => Parts /\ NoneWaitsForBound
  <1> SUFFICES ASSUME Init PROVE Parts /\ NoneWaitsForBound
    BY Zenon
  <1>1. /\ life = [s \in Sockets |-> "none"] /\ calls = [s \in Sockets |-> "none"]
        /\ reaper_mailbox = <<>> /\ reaped = 0 /\ reaper = "running" /\ tpc = "idle"
        /\ starting = TRUE /\ terminating = FALSE /\ sockets = {} /\ endpoint = NoOne
        /\ pending = {} /\ term_mailbox = 0
    BY Zenon DEF Init
  <1>2. \A t : At(reaper_mailbox, t) = {}
    <2>1. 1 .. Len(reaper_mailbox) = {}
      BY <1>1
    <2> QED
      BY <2>1, Zenon DEF At
  <1>3. Reaping = {} /\ Listed
    BY <1>1, Zenon DEF Reaping, Listed
  <1>4. CountsReaping
    <2>1. IsFiniteSet({}) /\ Cardinality({}) = 0
      BY CardEmpty, Zenon
    <2>2. Cardinality(Reaping) = 0 /\ Counts(reaper_mailbox) = 0 /\ IsFiniteSet(Reaping)
      BY <1>2, <1>3, <2>1, Zenon DEF Counts
    <2> QED
      BY <1>1, <2>2 DEF CountsReaping
  <1>5. MailOK(reaper_mailbox, life)
    BY <1>1, <1>2 DEF MailOK
  <1>6. ContextTypeOK
    <2>1. /\ life \in [Sockets -> {"none", "open", "closed", "reaping", "deleted"}]
          /\ calls \in [Sockets -> {"none", "find", "bind", "pend", "register",
                                    "connect_pending"}]
      BY <1>1, Zenon
    <2>2. reaper_mailbox \in Seq([type : {"reap", "stop", "reaped"},
                                  arg : Sockets \cup {NoOne}])
      BY <1>1
    <2>3. term_mailbox \in Nat /\ reaped \in Nat
      BY <1>1, Zenon
    <2> QED
      BY <1>1, <2>1, <2>2, <2>3, Zenon DEF ContextTypeOK
  <1> QED
    BY <1>1, <1>2, <1>3, <1>4, <1>5, <1>6
    DEF Parts, Stops, ReportsOnce, NoneWaitsForBound

\* A step that leaves all that the invariant is about alone, but for types.
LEMMA KeepsParts ==
    ASSUME Parts, ContextTypeOK', (tpc = "finished") <=> (tpc' = "finished"),
           UNCHANGED <<starting, terminating, sockets, term_mailbox, life,
                       reaper_mailbox, reaped, reaper>>
    PROVE  Parts'
  BY Zenon DEF Parts, Listed, CountsReaping, Reaping, Stops, ReportsOnce

\* A socket that is not being reaped, and is not going to be, is not counted.
LEMMA SameReaping ==
    ASSUME ContextTypeOK, NEW s \in Sockets, NEW x, life[s] # "reaping",
           x # "reaping", life' = [life EXCEPT ![s] = x]
    PROVE  Reaping' = Reaping
  BY Zenon DEF ContextTypeOK, Reaping

\* create_socket ()
LEMMA CreateParts ==
    ASSUME Parts, NEW s \in Sockets, Create(s), tpc # "finished", tpc' # "finished",
           ContextTypeOK'
    PROVE  Parts'
  <1>1. /\ life[s] = "none" /\ ~terminating /\ starting' = FALSE
        /\ sockets' = sockets \cup {s} /\ life' = [life EXCEPT ![s] = "open"]
        /\ terminating' = terminating /\ term_mailbox' = term_mailbox
        /\ reaper_mailbox' = reaper_mailbox /\ reaped' = reaped /\ reaper' = reaper
    BY Zenon DEF Create, CanCreate, reaperVars
  <1>2. life \in [Sockets -> {"none", "open", "closed", "reaping", "deleted"}]
    BY Zenon DEF Parts, ContextTypeOK
  <1>3. Listed'
    BY <1>1, <1>2, Zenon DEF Parts, Listed
  <1>4. CountsReaping'
    <2>1. Reaping' = Reaping
      BY <1>1, SameReaping, Zenon DEF Parts
    <2> QED
      BY <1>1, <2>1, Zenon DEF Parts, CountsReaping
  <1>5. MailOK(reaper_mailbox', life')
    <2>1. \A i \in At(reaper_mailbox, "reap") :
            life'[reaper_mailbox[i].arg] = life[reaper_mailbox[i].arg]
      BY <1>1, <1>2, Zenon DEF Parts, MailOK
    <2>2. MailOK(reaper_mailbox, life)
      BY Zenon DEF Parts
    <2>3. MailOK(reaper_mailbox, life')
      BY <2>1, <2>2, MailLife
    <2> QED
      BY <1>1, <2>3, Zenon
  <1>6. At(reaper_mailbox, "stop") = {} /\ reaper = "running"
    BY <1>1, Zenon DEF Parts, Stops
  <1>7. Stops'
    BY <1>1, <1>6, Zenon DEF Stops
  <1>8. ReportsOnce'
    BY <1>1, <1>6, Zenon DEF Parts, ReportsOnce, ContextTypeOK
  <1> QED
    BY <1>3, <1>4, <1>5, <1>7, <1>8, Zenon DEF Parts

\* close (): the context, the reaper and the thread in terminate () see none
\* of it but the command.
LEMMA CloseParts ==
    ASSUME CardFacts, Parts, NEW s \in Sockets, Close(s), tpc # "finished" \/ tpc' = tpc,
           tpc' # "finished" \/ tpc' = tpc, ContextTypeOK',
           UNCHANGED <<starting, terminating, sockets, term_mailbox, reaped, reaper>>
    PROVE  Parts'
  <1>1. /\ life[s] = "open" /\ life' = [life EXCEPT ![s] = "closed"]
        /\ reaper_mailbox' = reaper_mailbox \o <<Command("reap", s)>>
    BY Zenon DEF Close, ToReaper
  <1>2. /\ life \in [Sockets -> {"none", "open", "closed", "reaping", "deleted"}]
        /\ MailOK(reaper_mailbox, life) /\ reaper_mailbox \in Seq(Cmds)
    BY Zenon DEF Parts, ContextTypeOK, MailOK
  <1>3. reaper_mailbox' = Append(reaper_mailbox, Command("reap", s))
    <2>1. Command("reap", s) \in Cmds
      BY CommandTypes, Zenon
    <2> QED
      BY <1>1, <1>2, <2>1
  <1>4. Closes(life', life, s)
    BY <1>1, <1>2, Zenon DEF Closes
  <1>5. /\ MailOK(reaper_mailbox', life') /\ Counts(reaper_mailbox') = Counts(reaper_mailbox)
        /\ At(reaper_mailbox', "stop") = At(reaper_mailbox, "stop")
    <2>1. life[s] = "open" /\ MailOK(reaper_mailbox, life)
      BY <1>1, <1>2, Zenon
    <2> QED
      BY <1>3, <1>4, <2>1, MailReap, Zenon
  <1>6. s \in sockets
    BY <1>1, Zenon DEF Parts, Listed
  <1>7. Listed'
    BY <1>1, <1>2, Zenon DEF Parts, Listed
  <1>8. CountsReaping'
    <2>1. Reaping' = Reaping
      BY <1>1, SameReaping, Zenon DEF Parts
    <2> QED
      BY <1>5, <2>1, Zenon DEF Parts, CountsReaping
  <1>9. Stops'
    BY <1>5, Zenon DEF Parts, Stops
  <1>10. ~starting /\ reaper # "stopped"
    BY <1>6, Zenon DEF Parts, ReportsOnce, Stops
  <1>11. ReportsOnce'
    BY <1>10, Zenon DEF Parts, ReportsOnce
  <1> QED
    BY <1>5, <1>7, <1>8, <1>9, <1>11, Zenon DEF Parts

\* destroy_socket () of the last socket of a terminating context stops the
\* reaper, which has not been stopped: there was a socket.
LEMMA DeleteParts ==
    ASSUME CardFacts, Parts, NEW s \in Sockets, Delete(s), ContextTypeOK'
    PROVE  Parts'
  <1> DEFINE q == Append(reaper_mailbox, Command("stop", NoOne))
             last == terminating /\ sockets \ {s} = {}
  <1>1. /\ life[s] = "reaping" /\ life' = [life EXCEPT ![s] = "deleted"]
        /\ sockets' = sockets \ {s}
        /\ UNCHANGED <<starting, terminating, term_mailbox, reaped, reaper, tpc>>
    BY Zenon DEF Delete, CanDelete, termVars
  <1>2. /\ life \in [Sockets -> {"none", "open", "closed", "reaping", "deleted"}]
        /\ MailOK(reaper_mailbox, life) /\ reaper_mailbox \in Seq(Cmds)
    BY Zenon DEF Parts, ContextTypeOK, MailOK
  <1>3. s \in sockets
    BY <1>1, Zenon DEF Parts, Listed
  <1>4. At(reaper_mailbox, "stop") = {} /\ reaper = "running" /\ ~starting
    BY <1>3, Zenon DEF Parts, Stops, ReportsOnce
  <1>5. reaper_mailbox' = IF last THEN Append(q, Command("reaped", NoOne))
                          ELSE Append(reaper_mailbox, Command("reaped", NoOne))
    <2> DEFINE a == Command("stop", NoOne)
               b == Command("reaped", NoOne)
    <2>1. a \in Cmds /\ b \in Cmds
      BY CommandTypes, Zenon
    <2>2. reaper_mailbox' = reaper_mailbox \o ((IF last THEN <<a>> ELSE <<>>) \o <<b>>)
      BY Zenon DEF Delete, ToReaper, StopsReaper
    <2> HIDE DEF a, b, last
    <2>3. CASE last
      <3>1. reaper_mailbox' = Append(Append(reaper_mailbox, a), b)
        BY <1>2, <2>1, <2>2, <2>3
      <3> QED
        BY <2>3, <3>1, Zenon DEF a, b
    <2>4. CASE ~last
      <3>1. reaper_mailbox' = Append(reaper_mailbox, b)
        BY <1>2, <2>1, <2>2, <2>4
      <3> QED
        BY <2>4, <3>1, Zenon DEF b
    <2> QED
      BY <2>3, <2>4, Zenon
  <1>6. MailOK(q, life) /\ Counts(q) = Counts(reaper_mailbox)
    BY <1>2, <1>4, MailStop, Zenon
  <1>7. /\ MailOK(reaper_mailbox', life)
        /\ Counts(reaper_mailbox') = Counts(reaper_mailbox) + 1
        /\ ~last => At(reaper_mailbox', "stop") = {}
    <2> HIDE DEF q, last
    <2>1. CASE last
      BY <1>5, <1>6, <2>1, MailReaped, Zenon
    <2>2. CASE ~last
      BY <1>2, <1>4, <1>5, <2>2, MailReaped, Zenon
    <2> QED
      BY <2>1, <2>2, Zenon
  <1>8. MailOK(reaper_mailbox', life')
    <2>1. \A i \in At(reaper_mailbox', "reap") :
            life'[reaper_mailbox'[i].arg] = life[reaper_mailbox'[i].arg]
      BY <1>1, <1>2, <1>7, Zenon DEF MailOK
    <2> QED
      BY <1>7, <2>1, MailLife, ZenonT(30)
  <1>9. Listed'
    BY <1>1, <1>2, Zenon DEF Parts, Listed
  <1>10. CountsReaping'
    <2>1. Reaping' = Reaping \ {s} /\ s \in Reaping
      BY <1>1, <1>2, Zenon DEF Reaping
    <2>2. /\ IsFiniteSet(Reaping) /\ Cardinality(Reaping) \in Nat
          /\ reaped = Cardinality(Reaping) + Counts(reaper_mailbox)
      BY CardType, Zenon DEF Parts, CountsReaping
    <2>3. IsFiniteSet(Reaping') /\ Cardinality(Reaping') = Cardinality(Reaping) - 1
      BY <2>1, <2>2, CardRemove, Zenon
    <2>4. Counts(reaper_mailbox) \in Nat
      BY <1>2, AtFinite, Zenon DEF Counts
    <2>5. reaped' = Cardinality(Reaping') + Counts(reaper_mailbox')
      BY <1>1, <1>7, <2>2, <2>3, <2>4
    <2> QED
      BY <2>3, <2>5, Zenon DEF CountsReaping
  <1>11. Stops'
    BY <1>1, <1>4, <1>7, Zenon DEF Stops
  <1>12. ReportsOnce'
    BY <1>1, <1>4, Zenon DEF Parts, ReportsOnce
  <1> QED
    BY <1>8, <1>9, <1>10, <1>11, <1>12, Zenon DEF Parts

\* A mailbox with no command of any type is empty.
LEMMA NothingLeft ==
    ASSUME NEW q \in Seq(Cmds), At(q, "reap") = {}, At(q, "stop") = {}, At(q, "reaped") = {}
    PROVE  q = <<>>
  <1>1. \A i \in 1 .. Len(q) : q[i] \in Cmds
    OBVIOUS
  <1>2. \A c \in Cmds : c.type \in {"reap", "stop", "reaped"}
    BY Zenon DEF Cmds
  <1>3. \A i \in 1 .. Len(q) : FALSE
    BY <1>1, <1>2, Zenon DEF At
  <1>4. Len(q) = 0
    BY <1>3
  <1> QED
    BY <1>4

\* process_reap ()
LEMMA ReaperReapParts ==
    ASSUME CardFacts, Parts, Reaper, ReaperReap, ContextTypeOK'
    PROVE  Parts'
  <1> DEFINE s == Head(reaper_mailbox).arg
  <1>1. /\ Head(reaper_mailbox).type = "reap" /\ reaper_mailbox # <<>>
        /\ life' = [life EXCEPT ![s] = "reaping"] /\ reaped' = reaped + 1
        /\ reaper_mailbox' = Tail(reaper_mailbox)
        /\ UNCHANGED <<starting, terminating, sockets, term_mailbox, reaper, tpc>>
    BY Zenon DEF Reaper, ReaperReap, termVars
  <1>2. /\ life \in [Sockets -> {"none", "open", "closed", "reaping", "deleted"}]
        /\ MailOK(reaper_mailbox, life) /\ reaper_mailbox \in Seq(Cmds)
    BY Zenon DEF Parts, ContextTypeOK, MailOK
  <1>3. /\ MailOK(reaper_mailbox', life) /\ s \in Sockets /\ life[s] = "closed"
        /\ Counts(reaper_mailbox') = Counts(reaper_mailbox)
        /\ NotFor(reaper_mailbox', s)
        /\ At(reaper_mailbox', "stop") # {} => At(reaper_mailbox, "stop") # {}
    <2>1. /\ MailOK(reaper_mailbox, life) /\ reaper_mailbox # <<>>
          /\ reaper_mailbox' = Tail(reaper_mailbox) /\ Head(reaper_mailbox).type = "reap"
      BY <1>1, <1>2, Zenon
    <2>2. /\ MailOK(reaper_mailbox', life)
          /\ Head(reaper_mailbox).arg \in Sockets
          /\ life[Head(reaper_mailbox).arg] = "closed"
          /\ Counts(reaper_mailbox') = Counts(reaper_mailbox)
          /\ NotFor(reaper_mailbox', Head(reaper_mailbox).arg)
          /\ At(reaper_mailbox', "stop") # {} => At(reaper_mailbox, "stop") # {}
      BY <2>1, MailTail, Zenon
    <2> QED
      BY <2>2, Zenon
  <1> HIDE DEF s
  <1>4. s \in sockets
    BY <1>3, Zenon DEF Parts, Listed
  <1>5. MailOK(reaper_mailbox', life')
    <2>1. \A i \in At(reaper_mailbox', "reap") :
            life'[reaper_mailbox'[i].arg] = life[reaper_mailbox'[i].arg]
      BY <1>1, <1>2, <1>3, Zenon DEF MailOK, NotFor
    <2>2. MailOK(reaper_mailbox', life)
      BY <1>3, Zenon
    <2> QED
      BY <2>1, <2>2, MailLife
  <1>6. Listed'
    BY <1>1, <1>2, <1>3, Zenon DEF Parts, Listed
  <1>7. CountsReaping'
    <2>1. Reaping' = Reaping \cup {s} /\ s \notin Reaping
      BY <1>1, <1>2, <1>3, Zenon DEF Reaping
    <2>2. /\ IsFiniteSet(Reaping) /\ Cardinality(Reaping) \in Nat
          /\ reaped = Cardinality(Reaping) + Counts(reaper_mailbox)
      BY CardType, Zenon DEF Parts, CountsReaping
    <2>3. IsFiniteSet(Reaping') /\ Cardinality(Reaping') = Cardinality(Reaping) + 1
      BY <2>1, <2>2, CardAdd, Zenon
    <2>4. Counts(reaper_mailbox) \in Nat
      BY <1>2, AtFinite, Zenon DEF Counts
    <2>5. reaped' = Cardinality(Reaping') + Counts(reaper_mailbox')
      BY <1>1, <1>3, <2>2, <2>3, <2>4
    <2> QED
      BY <2>3, <2>5, Zenon DEF CountsReaping
  <1>8. reaper = "running" /\ ~starting /\ At(reaper_mailbox, "stop") = {}
    BY <1>4, Zenon DEF Parts, Stops, ReportsOnce
  <1>9. Stops' /\ ReportsOnce'
    BY <1>1, <1>3, <1>8, Zenon DEF Parts, Stops, ReportsOnce
  <1> QED
    BY <1>5, <1>6, <1>7, <1>9, Zenon DEF Parts

\* When the context has no socket, the reaper was told to stop and counts
\* none, no command is left in its mailbox.
LEMMA ReaperIdle ==
    ASSUME CardFacts, Listed, sockets = {}, MailOK(reaper_mailbox', life), NEW n \in Nat,
           0 = n + Counts(reaper_mailbox'), At(reaper_mailbox', "stop") = {}
    PROVE  reaper_mailbox' = <<>>
  <1>1. reaper_mailbox' \in Seq(Cmds)
    BY Zenon DEF MailOK
  <1>2. At(reaper_mailbox', "reap") = {}
    BY Zenon DEF MailOK, Listed
  <1>3. At(reaper_mailbox', "reaped") = {}
    <2>1. /\ Counts(reaper_mailbox') \in Nat
          /\ Counts(reaper_mailbox') = 0 <=> At(reaper_mailbox', "reaped") = {}
      BY <1>1, AtFinite, Zenon DEF Counts
    <2> QED
      BY <2>1
  <1> QED
    BY <1>1, <1>2, <1>3, NothingLeft, Zenon

\* process_stop (): with no socket to wait for the reaper is done.
LEMMA ReaperStopParts ==
    ASSUME CardFacts, Parts, Reaper, ReaperStop, ContextTypeOK'
    PROVE  Parts'
  <1>1. /\ Head(reaper_mailbox).type = "stop" /\ reaper_mailbox # <<>>
        /\ reaper_mailbox' = Tail(reaper_mailbox)
        /\ IF reaped = 0 THEN reaper' = "stopped" /\ term_mailbox' = term_mailbox + 1
           ELSE reaper' = "terminating" /\ term_mailbox' = term_mailbox
        /\ UNCHANGED <<starting, terminating, sockets, life, reaped, tpc>>
    BY Zenon DEF Reaper, ReaperStop, Finishes, termVars
  <1>2. /\ At(reaper_mailbox, "stop") # {} /\ At(reaper_mailbox', "stop") = {}
        /\ Counts(reaper_mailbox') = Counts(reaper_mailbox)
        /\ MailOK(reaper_mailbox', life)
    <2>1. /\ MailOK(reaper_mailbox, life) /\ reaper_mailbox # <<>>
          /\ reaper_mailbox' = Tail(reaper_mailbox) /\ Head(reaper_mailbox).type = "stop"
      BY <1>1, Zenon DEF Parts
    <2> QED
      BY <2>1, MailTail, Zenon
  <1>3. terminating /\ sockets = {} /\ reaper = "running" /\ ~starting /\ Listed
    BY <1>2, Zenon DEF Parts, Stops, ReportsOnce
  <1>4. Reaping' = Reaping
    BY <1>1, Zenon DEF Reaping
  <1>5. CountsReaping'
    BY <1>1, <1>2, <1>4, Zenon DEF Parts, CountsReaping
  <1>6. reaped = 0 => reaper_mailbox' = <<>>
    <2>1. Cardinality(Reaping) \in Nat
      BY CardType, Zenon DEF Parts, CountsReaping
    <2>2. reaped = Cardinality(Reaping) + Counts(reaper_mailbox')
      BY <1>2, Zenon DEF Parts, CountsReaping
    <2> QED
      BY <1>2, <1>3, <2>1, <2>2, ReaperIdle, Zenon
  <1>7. Listed' /\ Stops'
    BY <1>1, <1>2, <1>3, Zenon DEF Listed, Stops
  <1>8. ReportsOnce'
    <2>1. term_mailbox \in Nat
      BY Zenon DEF Parts, ContextTypeOK
    <2>2. term_mailbox + (IF tpc = "finished" /\ ~starting THEN 1 ELSE 0) = 0
      BY <1>3, Zenon DEF Parts, ReportsOnce
    <2>3. term_mailbox' + (IF tpc' = "finished" /\ ~starting' THEN 1 ELSE 0) =
            IF reaper' = "stopped" THEN 1 ELSE 0
      BY <1>1, <2>1, <2>2
    <2> QED
      BY <1>1, <1>3, <1>6, <2>3, Zenon DEF ReportsOnce
  <1> QED
    BY <1>1, <1>2, <1>5, <1>7, <1>8, Zenon DEF Parts

\* process_reaped (): one socket less to wait for, and a reaper that is to
\* stop is done with the last.
LEMMA ReaperReapedParts ==
    ASSUME CardFacts, Parts, Reaper, ReaperReaped, ContextTypeOK'
    PROVE  Parts'
  <1>1. /\ Head(reaper_mailbox).type = "reaped" /\ reaper_mailbox # <<>>
        /\ reaper_mailbox' = Tail(reaper_mailbox) /\ reaped' = reaped - 1
        /\ reaper # "stopped"
        /\ IF reaper = "terminating" /\ reaped - 1 = 0
           THEN reaper' = "stopped" /\ term_mailbox' = term_mailbox + 1
           ELSE reaper' = reaper /\ term_mailbox' = term_mailbox
        /\ UNCHANGED <<starting, terminating, sockets, life, tpc>>
    BY Zenon DEF Reaper, ReaperReaped, Finishes, termVars
  <1>2. /\ Counts(reaper_mailbox') = Counts(reaper_mailbox) - 1
        /\ At(reaper_mailbox', "stop") # {} => At(reaper_mailbox, "stop") # {}
        /\ MailOK(reaper_mailbox', life)
    <2>1. /\ MailOK(reaper_mailbox, life) /\ reaper_mailbox # <<>>
          /\ reaper_mailbox' = Tail(reaper_mailbox) /\ Head(reaper_mailbox).type = "reaped"
      BY <1>1, Zenon DEF Parts
    <2> QED
      BY <2>1, MailTail, Zenon
  <1>3. ~starting
    BY <1>1, Zenon DEF Parts, ReportsOnce
  <1>4. Reaping' = Reaping
    BY <1>1, Zenon DEF Reaping
  <1>5. /\ IsFiniteSet(Reaping) /\ Cardinality(Reaping) \in Nat
        /\ Counts(reaper_mailbox) \in Nat
        /\ reaped = Cardinality(Reaping) + Counts(reaper_mailbox)
    <2>1. IsFiniteSet(Reaping) /\ reaped = Cardinality(Reaping) + Counts(reaper_mailbox)
      BY Zenon DEF Parts, CountsReaping
    <2>2. reaper_mailbox \in Seq(Cmds)
      BY Zenon DEF Parts, MailOK
    <2> QED
      BY <2>1, <2>2, CardType, AtFinite, Zenon DEF Counts
  <1>6. reaped - 1 = Cardinality(Reaping) + Counts(reaper_mailbox')
    BY <1>2, <1>5
  <1>7. CountsReaping'
    BY <1>1, <1>4, <1>5, <1>6, Zenon DEF CountsReaping
  <1>8. CASE reaper = "terminating" /\ reaped - 1 = 0
    <2>1. /\ At(reaper_mailbox, "stop") = {} /\ terminating /\ sockets = {} /\ Listed
      BY <1>8, Zenon DEF Parts, Stops
    <2>2. reaper_mailbox' = <<>>
      BY <1>2, <1>5, <1>6, <1>8, <2>1, ReaperIdle, Zenon
    <2>3. Listed' /\ Stops'
      BY <1>1, <1>2, <1>8, <2>1, Zenon DEF Listed, Stops
    <2>4. term_mailbox \in Nat
      BY Zenon DEF Parts, ContextTypeOK
    <2>5. term_mailbox + (IF tpc = "finished" /\ ~starting THEN 1 ELSE 0) = 0
      BY <1>8, Zenon DEF Parts, ReportsOnce
    <2>6. /\ term_mailbox' + (IF tpc' = "finished" /\ ~starting' THEN 1 ELSE 0) = 1
          /\ reaper' = "stopped"
      BY <1>1, <1>8, <2>4, <2>5
    <2>7. ReportsOnce'
      BY <1>1, <1>3, <2>2, <2>6, Zenon DEF ReportsOnce
    <2> QED
      BY <1>1, <1>2, <1>7, <2>3, <2>7, Zenon DEF Parts
  <1>9. CASE ~(reaper = "terminating" /\ reaped - 1 = 0)
    <2>1. reaper' = reaper /\ term_mailbox' = term_mailbox
      BY <1>1, <1>9, Zenon
    <2>2. Listed' /\ Stops'
      BY <1>1, <1>2, <2>1, Zenon DEF Parts, Listed, Stops
    <2>3. ReportsOnce'
      BY <1>1, <1>3, <2>1, Zenon DEF Parts, ReportsOnce
    <2> QED
      BY <1>1, <1>2, <1>7, <2>2, <2>3, Zenon DEF Parts
  <1> QED
    BY <1>8, <1>9, Zenon

\* shutdown () and terminate () tell the reaper to stop if there is no socket;
\* later the last socket does.
LEMMA StopParts ==
    ASSUME CardFacts, Parts, ~starting, ~terminating, terminating' = TRUE, ContextTypeOK',
           ToReaper(IF sockets = {} THEN <<Command("stop", NoOne)>> ELSE <<>>),
           (tpc = "finished") <=> (tpc' = "finished"),
           UNCHANGED <<starting, sockets, term_mailbox, life, reaped, reaper>>
    PROVE  Parts'
  <1> DEFINE c == Command("stop", NoOne)
  <1>1. MailOK(reaper_mailbox, life) /\ reaper_mailbox \in Seq(Cmds) /\ c \in Cmds
    BY CommandTypes, Zenon DEF Parts, MailOK
  <1>2. At(reaper_mailbox, "stop") = {} /\ reaper = "running"
    BY Zenon DEF Parts, Stops
  <1>3. /\ sockets = {} => reaper_mailbox' = Append(reaper_mailbox, c)
        /\ sockets # {} => reaper_mailbox' = reaper_mailbox
    <2>1. reaper_mailbox' = reaper_mailbox \o (IF sockets = {} THEN <<c>> ELSE <<>>)
      BY Zenon DEF ToReaper
    <2> HIDE DEF c
    <2> QED
      BY <1>1, <2>1
  <1>4. /\ MailOK(reaper_mailbox', life')
        /\ Counts(reaper_mailbox') = Counts(reaper_mailbox)
        /\ sockets # {} => At(reaper_mailbox', "stop") = {}
    <2>1. CASE sockets = {}
      BY <1>1, <1>2, <1>3, <2>1, MailStop, Zenon
    <2>2. CASE sockets # {}
      BY <1>1, <1>2, <1>3, <2>2, Zenon
    <2> QED
      BY <2>1, <2>2, Zenon
  <1>5. Reaping' = Reaping
    BY Zenon DEF Reaping
  <1>6. CountsReaping' /\ Listed'
    BY <1>4, <1>5, Zenon DEF Parts, CountsReaping, Listed
  <1>7. Stops' /\ ReportsOnce'
    BY <1>2, <1>4, Zenon DEF Parts, Stops, ReportsOnce
  <1> QED
    BY <1>4, <1>6, <1>7, Zenon DEF Parts

\* terminate () receives the done command.
LEMMA DoneParts ==
    ASSUME Parts, TermDone, ContextTypeOK'
    PROVE  Parts'
  <1>1. /\ tpc = "waiting" /\ term_mailbox > 0 /\ tpc' = "finished"
        /\ term_mailbox' = term_mailbox - 1
        /\ UNCHANGED <<starting, terminating, sockets, life, reaper_mailbox, reaped, reaper>>
    BY Zenon DEF TermDone, socketVars, reaperVars
  <1>2. term_mailbox \in Nat
    BY Zenon DEF Parts, ContextTypeOK
  <1>3. term_mailbox = 1 /\ reaper = "stopped"
    BY <1>1, <1>2 DEF Parts, ReportsOnce
  <1>4. ~starting
    BY <1>3, Zenon DEF Parts, Stops, ReportsOnce
  <1>5. Reaping' = Reaping
    BY <1>1, Zenon DEF Reaping
  <1>6. CountsReaping' /\ Listed' /\ Stops'
    BY <1>1, <1>5, Zenon DEF Parts, CountsReaping, Listed, Stops
  <1>7. ReportsOnce'
    BY <1>1, <1>3, <1>4 DEF Parts, ReportsOnce
  <1> QED
    BY <1>1, <1>6, <1>7, Zenon DEF Parts

---------------------------------------------------------------------------
(* Types                                                                   *)

\* A call that changes nothing but what the socket is in the middle of and
\* where the address is bound.
LEMMA CallTypes ==
    ASSUME ContextTypeOK, NEW s \in Sockets,
           NEW x \in {"none", "find", "bind", "pend", "register", "connect_pending"},
           calls' = [calls EXCEPT ![s] = x], endpoint' \in {endpoint, s, NoOne},
           UNCHANGED <<starting, terminating, sockets, term_mailbox, life,
                       reaperVars, termVars>>
    PROVE  ContextTypeOK'
  BY DEF ContextTypeOK, reaperVars, termVars

\* Each step of a socket keeps the types.
LEMMA SocketTypes ==
    ASSUME Parts, NEW s \in Sockets, Socket(s)
    PROVE  ContextTypeOK'
  <1>0. ContextTypeOK
    BY Zenon DEF Parts
  <1>1. CASE CreateApp(s)
    BY <1>0, <1>1, Zenon DEF CreateApp, Create, ContextTypeOK, reaperVars, termVars
  <1>2. CASE ConnectStart(s)
    BY <1>0, <1>2, CallTypes, Zenon DEF ConnectStart, Enter, ctxVars
  <1>3. CASE BindStart(s)
    BY <1>0, <1>3, CallTypes, Zenon DEF BindStart, Enter, ctxVars
  <1>4. CASE ConnectFind(s)
    BY <1>0, <1>4, CallTypes, Zenon DEF ConnectFind, ctxVars
  <1>5. CASE ConnectBind(s)
    BY <1>0, <1>5, CallTypes, Zenon DEF ConnectBind, ctxVars
  <1>6. CASE ConnectPend(s)
    BY <1>0, <1>6, CallTypes, Zenon DEF ConnectPend
  <1>7. CASE BindRegister(s)
    BY <1>0, <1>7, CallTypes, Zenon DEF BindRegister, Register
  <1>8. CASE BindPending(s)
    BY <1>0, <1>8, CallTypes, Zenon DEF BindPending
  <1>9. CASE TermEndpoint(s)
    BY <1>0, <1>9, Zenon DEF TermEndpoint, ContextTypeOK, socketVars, reaperVars, termVars
  <1>10. CASE CloseApp(s)
    <2>1. Command("reap", s) \in Cmds
      BY CommandTypes, Zenon
    <2>2. reaper_mailbox' \in Seq(Cmds)
      BY <1>0, <1>10, <2>1 DEF CloseApp, Close, ToReaper, ContextTypeOK, Cmds
    <2> QED
      BY <1>0, <1>10, <2>2, Zenon DEF CloseApp, Close, ContextTypeOK, ctxVars, termVars, Cmds
  <1>11. CASE Process(s)
    BY <1>0, <1>11, Zenon DEF Process, ContextTypeOK, ctxVars, reaperVars, termVars
  <1>12. CASE Delete(s)
    <2>1. Command("stop", NoOne) \in Cmds /\ Command("reaped", NoOne) \in Cmds
      BY CommandTypes, Zenon
    <2>2. reaper_mailbox' \in Seq(Cmds)
      <3> DEFINE a == Command("stop", NoOne)
                 b == Command("reaped", NoOne)
      <3>1. a \in Cmds /\ b \in Cmds /\ reaper_mailbox \in Seq(Cmds)
        BY <2>1, Zenon DEF Parts, MailOK
      <3>2. reaper_mailbox' = reaper_mailbox \o
              ((IF StopsReaper(sockets \ {s}) THEN <<a>> ELSE <<>>) \o <<b>>)
        BY <1>12, Zenon DEF Delete, ToReaper
      <3> HIDE DEF a, b
      <3> QED
        BY <3>1, <3>2
    <2> QED
      BY <1>0, <1>12, <2>2, Zenon DEF Delete, ContextTypeOK, termVars, Cmds
  <1> QED
    BY <1>1, <1>2, <1>3, <1>4, <1>5, <1>6, <1>7, <1>8, <1>9, <1>10, <1>11, <1>12, Zenon
    DEF Socket

\* So does each step of the reaper: it counts a socket that is reaped.
LEMMA ReaperTypes ==
    ASSUME CardFacts, Parts, Reaper
    PROVE  ContextTypeOK'
  <1>0. ContextTypeOK /\ MailOK(reaper_mailbox, life) /\ reaper_mailbox \in Seq(Cmds)
    BY Zenon DEF Parts, MailOK
  <1>1. /\ reaper_mailbox # <<>> /\ reaper_mailbox' = Tail(reaper_mailbox)
        /\ UNCHANGED <<starting, terminating, sockets, calls, tpc, tpair>>
    BY Zenon DEF Reaper, termVars
  <1>2. reaper_mailbox' \in Seq(Cmds)
    BY <1>0, <1>1
  <1>3. CASE ReaperReap
    <2>1. Head(reaper_mailbox).arg \in Sockets
      BY <1>0, <1>1, <1>3, MailTail, Zenon DEF ReaperReap
    <2> QED
      BY <1>0, <1>1, <1>2, <1>3, <2>1 DEF ReaperReap, Unregistered, ContextTypeOK, Cmds
  <1>4. CASE ReaperStop
    BY <1>0, <1>1, <1>2, <1>4 DEF ReaperStop, ContextTypeOK, Cmds
  <1>5. CASE ReaperReaped
    <2>1. Counts(reaper_mailbox') = Counts(reaper_mailbox) - 1
      BY <1>0, <1>1, <1>5, MailTail, Zenon DEF ReaperReaped
    <2>2. Counts(reaper_mailbox') \in Nat /\ Counts(reaper_mailbox) \in Nat
      BY <1>0, <1>2, AtFinite, Zenon DEF Counts
    <2>3. /\ Cardinality(Reaping) \in Nat
          /\ reaped = Cardinality(Reaping) + Counts(reaper_mailbox)
      BY CardType, Zenon DEF Parts, CountsReaping
    <2>4. reaped - 1 \in Nat
      BY <2>1, <2>2, <2>3
    <2> QED
      BY <1>0, <1>1, <1>2, <1>5, <2>4 DEF ReaperReaped, ContextTypeOK, Cmds
  <1> QED
    BY <1>3, <1>4, <1>5, Zenon DEF Reaper

\* And shutdown () and terminate ().
LEMMA TerminateTypes ==
    ASSUME Parts, Shutdown \/ Terminate
    PROVE  ContextTypeOK'
  <1>0. ContextTypeOK /\ reaper_mailbox \in Seq(Cmds)
    BY Zenon DEF Parts, MailOK
  <1>1. Command("stop", NoOne) \in Cmds
    BY CommandTypes, Zenon
  <1>2. CASE Shutdown
    <2>1. reaper_mailbox' \in Seq(Cmds)
      <3> DEFINE c == Command("stop", NoOne)
      <3>1. \/ reaper_mailbox' = reaper_mailbox
            \/ reaper_mailbox' = reaper_mailbox \o (IF sockets = {} THEN <<c>> ELSE <<>>)
        BY <1>2, Zenon DEF Shutdown, SendStops, ToReaper
      <3>2. c \in Cmds
        BY <1>1, Zenon
      <3> HIDE DEF c
      <3> QED
        BY <1>0, <3>1, <3>2
    <2> QED
      BY <1>0, <1>2, <2>1, Zenon DEF Shutdown, ContextTypeOK, termVars, Cmds
  <1>3. CASE TermStart
    BY <1>0, <1>3, Zenon DEF TermStart, ContextTypeOK, ctxVars, socketVars, reaperVars
  <1>4. CASE TermCreate
    <2>1. CASE CanCreate
      <3>1. PICK p \in Pairs : life[p] = "none"
        BY <1>4, <2>1, Zenon DEF TermCreate
      <3>2. tpair' \in Pairs /\ Create(tpair') /\ tpc' = "bind"
        BY <1>4, <2>1, <3>1, Zenon DEF TermCreate
      <3> QED
        BY <1>0, <3>2, Zenon DEF Create, ContextTypeOK, reaperVars, Sockets
    <2>2. CASE ~CanCreate
      BY <1>0, <1>4, <2>2, Zenon DEF TermCreate, ContextTypeOK, ctxVars, socketVars, reaperVars
    <2> QED
      BY <2>1, <2>2, Zenon
  <1>5. CASE TermBind
    BY <1>0, <1>5, Zenon DEF TermBind, Register, ContextTypeOK, reaperVars, Sockets
  <1>6. CASE TermPending
    BY <1>0, <1>6, Zenon DEF TermPending, ContextTypeOK, reaperVars
  <1>7. CASE TermClose
    <2>1. tpair \in Sockets
      BY <1>0, <1>7, Zenon DEF TermClose, ContextTypeOK, Sockets
    <2>2. Command("reap", tpair) \in Cmds
      BY <2>1, CommandTypes, Zenon
    <2>3. reaper_mailbox' \in Seq(Cmds)
      BY <1>0, <1>7, <2>2 DEF TermClose, Close, ToReaper
    <2> QED
      BY <1>0, <1>7, <2>1, <2>3, Zenon DEF TermClose, Close, ContextTypeOK, ctxVars, Cmds
  <1>8. CASE TermStop
    <2>1. reaper_mailbox' \in Seq(Cmds)
      <3> DEFINE c == Command("stop", NoOne)
      <3>1. \/ reaper_mailbox' = reaper_mailbox
            \/ reaper_mailbox' = reaper_mailbox \o (IF sockets = {} THEN <<c>> ELSE <<>>)
        BY <1>8, Zenon DEF TermStop, SendStops, ToReaper
      <3>2. c \in Cmds
        BY <1>1, Zenon
      <3> HIDE DEF c
      <3> QED
        BY <1>0, <3>1, <3>2
    <2> QED
      BY <1>0, <1>8, <2>1, Zenon DEF TermStop, ContextTypeOK, Cmds
  <1>9. CASE TermDone
    BY <1>0, <1>9 DEF TermDone, ContextTypeOK, socketVars, reaperVars
  <1>10. CASE TermInterrupted
    BY <1>0, <1>10, Zenon DEF TermInterrupted, ContextTypeOK, ctxVars, socketVars, reaperVars
  <1> QED
    BY <1>2, <1>3, <1>4, <1>5, <1>6, <1>7, <1>8, <1>9, <1>10, Zenon DEF Terminate

---------------------------------------------------------------------------
(* Each step keeps the invariant.                                          *)

\* Steps of a socket.
LEMMA SocketStep ==
    ASSUME CardFacts, Parts, NEW s \in Sockets, Socket(s)
    PROVE  Parts'
  <1>0. ContextTypeOK'
    BY SocketTypes, Zenon
  <1>1. CASE CreateApp(s)
    <2>1. Create(s) /\ tpc # "finished" /\ tpc' # "finished"
      BY <1>1, Zenon DEF CreateApp, termVars
    <2> QED
      BY <1>0, <2>1, CreateParts, Zenon
  <1>2. CASE CloseApp(s)
    <2>1. /\ Close(s) /\ tpc' = tpc
          /\ UNCHANGED <<starting, terminating, sockets, term_mailbox, reaped, reaper>>
      BY <1>2, Zenon DEF CloseApp, ctxVars, termVars
    <2> QED
      BY <1>0, <2>1, CloseParts, Zenon
  <1>3. CASE Delete(s)
    BY <1>0, <1>3, DeleteParts, Zenon
  <1>4. CASE ~CreateApp(s) /\ ~CloseApp(s) /\ ~Delete(s)
    <2>1. UNCHANGED <<starting, terminating, sockets, term_mailbox, life,
                      reaper_mailbox, reaped, reaper, tpc>>
      BY <1>4, Zenon DEF Socket, ConnectStart, BindStart, Enter, ConnectFind, ConnectBind,
                  ConnectPend, BindRegister, BindPending, TermEndpoint, Process,
                  ctxVars, socketVars, reaperVars, termVars
    <2> QED
      BY <1>0, <2>1, KeepsParts, Zenon
  <1> QED
    BY <1>1, <1>2, <1>3, <1>4, Zenon

\* Steps of the other threads.
LEMMA ThreadStep ==
    ASSUME CardFacts, Parts, Reaper \/ Shutdown \/ Terminate
    PROVE  Parts'
  <1>0. ContextTypeOK'
    BY ReaperTypes, TerminateTypes, Zenon
  <1>1. CASE Reaper
    BY <1>0, <1>1, ReaperReapParts, ReaperStopParts, ReaperReapedParts, Zenon DEF Reaper
  <1>2. CASE Shutdown
    <2>1. CASE starting \/ terminating
      <3>1. UNCHANGED <<starting, terminating, sockets, term_mailbox, life,
                        reaper_mailbox, reaped, reaper, tpc>>
        BY <1>2, <2>1, Zenon DEF Shutdown, termVars
      <3> QED
        BY <1>0, <3>1, KeepsParts, Zenon
    <2>2. CASE ~starting /\ ~terminating
      <3>1. /\ terminating' = TRUE
            /\ ToReaper(IF sockets = {} THEN <<Command("stop", NoOne)>> ELSE <<>>)
            /\ UNCHANGED <<starting, sockets, term_mailbox, life, reaped, reaper, tpc>>
        BY <1>2, <2>2, Zenon DEF Shutdown, SendStops, termVars
      <3> QED
        BY <1>0, <2>2, <3>1, StopParts, Zenon
    <2> QED
      BY <2>1, <2>2, Zenon
  <1>3. CASE TermCreate
    <2>1. CASE CanCreate
      <3>1. PICK p \in Pairs : life[p] = "none"
        BY <1>3, <2>1, Zenon DEF TermCreate
      <3>2. tpair' \in Pairs /\ Create(tpair') /\ tpc' = "bind" /\ tpc = "pairs"
        BY <1>3, <2>1, <3>1, Zenon DEF TermCreate
      <3>3. PICK r \in Sockets : r = tpair'
        BY <3>2, Zenon DEF Sockets
      <3>4. Create(r) /\ tpc # "finished" /\ tpc' # "finished"
        BY <3>2, <3>3, Zenon
      <3> QED
        BY <1>0, <3>4, CreateParts, Zenon
    <2>2. CASE ~CanCreate
      <3>1. /\ UNCHANGED <<starting, terminating, sockets, term_mailbox, life,
                           reaper_mailbox, reaped, reaper>>
            /\ tpc = "pairs" /\ tpc' = "crashed"
        BY <1>3, <2>2, Zenon DEF TermCreate, ctxVars, socketVars, reaperVars
      <3> QED
        BY <1>0, <3>1, KeepsParts, Zenon
    <2> QED
      BY <2>1, <2>2, Zenon
  <1>4. CASE TermClose
    <2>1. tpair \in Sockets
      BY <1>4, Zenon DEF Parts, TermClose, ContextTypeOK, Sockets
    <2>2. /\ Close(tpair) /\ tpc = "close" /\ tpc' = "pairs"
          /\ UNCHANGED <<starting, terminating, sockets, term_mailbox, reaped, reaper>>
      BY <1>4, Zenon DEF TermClose, ctxVars
    <2> QED
      BY <1>0, <2>1, <2>2, CloseParts, Zenon
  <1>5. CASE TermStop
    <2>1. CASE starting
      <3>1. /\ UNCHANGED <<starting, sockets, term_mailbox, life, reaper_mailbox,
                           reaped, reaper>>
            /\ terminating' = FALSE
        BY <1>5, <2>1, Zenon DEF TermStop
      <3>2. ~terminating /\ terminating \in BOOLEAN
        BY <2>1, Zenon DEF Parts, ReportsOnce, ContextTypeOK
      <3>3. Listed' /\ CountsReaping' /\ Stops' /\ MailOK(reaper_mailbox', life')
        BY <3>1, <3>2, Zenon DEF Parts, Listed, CountsReaping, Reaping, Stops
      <3>4. tpc = "pairs"
        BY <1>5, Zenon DEF TermStop
      <3>5. ReportsOnce'
        BY <2>1, <3>1, <3>2, <3>4, Zenon DEF Parts, ReportsOnce
      <3> QED
        BY <1>0, <3>3, <3>5, Zenon DEF Parts
    <2>2. CASE ~starting /\ terminating
      <3>1. /\ UNCHANGED <<starting, sockets, term_mailbox, life, reaper_mailbox,
                           reaped, reaper>>
            /\ terminating' = TRUE /\ tpc = "pairs" /\ tpc' = "waiting"
        BY <1>5, <2>2, Zenon DEF TermStop
      <3>2. terminating' = terminating
        BY <2>2, <3>1, Zenon DEF Parts, ContextTypeOK
      <3> QED
        BY <1>0, <3>1, <3>2, KeepsParts, Zenon
    <2>3. CASE ~starting /\ ~terminating
      <3>1. /\ terminating' = TRUE /\ tpc = "pairs" /\ tpc' = "waiting"
            /\ ToReaper(IF sockets = {} THEN <<Command("stop", NoOne)>> ELSE <<>>)
            /\ UNCHANGED <<starting, sockets, term_mailbox, life, reaped, reaper>>
        BY <1>5, <2>3, Zenon DEF TermStop, SendStops
      <3> QED
        BY <1>0, <2>3, <3>1, StopParts, Zenon
    <2> QED
      BY <2>1, <2>2, <2>3, Zenon
  <1>6. CASE TermDone
    BY <1>0, <1>6, DoneParts, Zenon
  <1>7. CASE TermStart \/ TermBind \/ TermPending \/ TermInterrupted
    <2>1. /\ UNCHANGED <<starting, terminating, sockets, term_mailbox, life,
                         reaper_mailbox, reaped, reaper>>
          /\ tpc # "finished" /\ tpc' # "finished"
      BY <1>7, Zenon DEF TermStart, TermBind, TermPending, TermInterrupted, ctxVars,
                  socketVars, reaperVars
    <2> QED
      BY <1>0, <2>1, KeepsParts, Zenon
  <1> QED
    BY <1>1, <1>2, <1>3, <1>4, <1>5, <1>6, <1>7, Zenon DEF Terminate

\* Every step.
LEMMA ContextStep ==
    ASSUME CardFacts
    PROVE  Parts /\ [Next]_vars => Parts'
  <1> SUFFICES ASSUME Parts, [Next]_vars PROVE Parts'
    BY Zenon
  <1>1. ASSUME NEW s \in Sockets, Socket(s) PROVE Parts'
    BY <1>1, SocketStep, Zenon
  <1>2. CASE Reaper \/ Shutdown \/ Terminate
    BY <1>2, ThreadStep, Zenon
  <1>3. ASSUME UNCHANGED <<starting, terminating, sockets, term_mailbox, life, calls,
                           reaper_mailbox, reaped, reaper, tpc, tpair, endpoint>>
        PROVE  Parts'
    <2>1. ContextTypeOK'
      BY <1>3, Zenon DEF Parts, ContextTypeOK
    <2> QED
      BY <1>3, <2>1, KeepsParts, Zenon
  <1>4. ASSUME NEW n \in DOMAIN pipe, PipeTerminated(n) PROVE Parts'
    BY <1>3, <1>4, Zenon DEF PipeTerminated, ctxVars, socketVars, reaperVars, termVars
  <1>5. CASE UNCHANGED vars
    BY <1>3, <1>5, Zenon DEF vars, ctxVars, socketVars, reaperVars, termVars
  <1> QED
    BY <1>1, <1>2, <1>4, <1>5, Zenon DEF Next

---------------------------------------------------------------------------
(* Connections that wait for a bind.                                       *)

\* A call that is not about to take the waiting connections, and adds none
\* once the address is bound.
LEMMA CallWaits ==
    ASSUME ContextTypeOK, NoneWaitsForBound, NEW s \in Sockets, NEW x,
           calls[s] # "connect_pending", calls' = [calls EXCEPT ![s] = x],
           endpoint' = endpoint, endpoint = NoOne \/ pending' = pending,
           UNCHANGED <<tpc, tpair>>
    PROVE  NoneWaitsForBound'
  BY Zenon DEF ContextTypeOK, NoneWaitsForBound

\* A step of any thread that leaves the connections alone, and the address
\* unless it is unbound.
LEMMA StillWaits ==
    ASSUME NoneWaitsForBound, endpoint' \in {endpoint, NoOne},
           UNCHANGED <<calls, pending>>,
           tpc # "connect_pending" \/ UNCHANGED <<tpc, tpair>>
    PROVE  NoneWaitsForBound'
  BY Zenon DEF NoneWaitsForBound

\* Once they have been taken none waits.
LEMMA NobodyWaits == ASSUME pending' = {} PROVE NoneWaitsForBound'
  BY Zenon DEF NoneWaitsForBound

\* Every step.
LEMMA WaitsStep ==
    Parts /\ NoneWaitsForBound /\ [Next]_vars => NoneWaitsForBound'
  <1> SUFFICES ASSUME Parts, NoneWaitsForBound, [Next]_vars PROVE NoneWaitsForBound'
    BY Zenon
  <1>0. ContextTypeOK
    BY Zenon DEF Parts
  <1>1. ASSUME NEW s \in Sockets, Socket(s) PROVE NoneWaitsForBound'
    <2>1. CASE CreateApp(s) \/ CloseApp(s) \/ Process(s) \/ Delete(s) \/ TermEndpoint(s)
      <3>1. endpoint' \in {endpoint, NoOne} /\ UNCHANGED <<calls, pending, tpc, tpair>>
        BY <2>1, Zenon DEF CreateApp, Create, CloseApp, Process, Delete, TermEndpoint,
                    ctxVars, socketVars, termVars
      <3> QED
        BY <3>1, StillWaits, Zenon
    <2>2. CASE ConnectStart(s)
      BY <1>0, <2>2, CallWaits, Zenon DEF ConnectStart, MayCall, Enter, ctxVars, termVars
    <2>3. CASE BindStart(s)
      BY <1>0, <2>3, CallWaits, Zenon DEF BindStart, MayCall, Enter, ctxVars, termVars
    <2>4. CASE ConnectFind(s)
      BY <1>0, <2>4, CallWaits, Zenon DEF ConnectFind, ctxVars, termVars
    <2>5. CASE ConnectBind(s)
      BY <1>0, <2>5, CallWaits, Zenon DEF ConnectBind, ctxVars, termVars
    <2>6. CASE ConnectPend(s)
      BY <1>0, <2>6, CallWaits, Zenon DEF ConnectPend, BoundMeanwhile, termVars
    <2>7. CASE BindRegister(s)
      <3>1. CASE endpoint = NoOne
        <4>1. endpoint' = s /\ calls' = [calls EXCEPT ![s] = "connect_pending"]
          BY <2>7, <3>1, Zenon DEF BindRegister, Register
        <4> QED
          BY <1>0, <4>1, Zenon DEF NoneWaitsForBound, ContextTypeOK
      <3>2. CASE endpoint # NoOne
        <4>1. /\ endpoint' = endpoint /\ calls' = [calls EXCEPT ![s] = "none"]
              /\ calls[s] # "connect_pending" /\ UNCHANGED <<pending, tpc, tpair>>
          BY <2>7, <3>2, Zenon DEF BindRegister, Register, termVars
        <4> QED
          BY <1>0, <4>1, CallWaits, Zenon
      <3> QED
        BY <3>1, <3>2, Zenon
    <2>8. CASE BindPending(s)
      BY <2>8, NobodyWaits, Zenon DEF BindPending, ConnectPending
    <2> QED
      BY <1>1, <2>1, <2>2, <2>3, <2>4, <2>5, <2>6, <2>7, <2>8, Zenon DEF Socket
  <1>2. ASSUME NEW n \in DOMAIN pipe, PipeTerminated(n) PROVE NoneWaitsForBound'
    BY <1>2, StillWaits, Zenon DEF PipeTerminated, ctxVars, socketVars, termVars
  <1>3. CASE Reaper
    <2>1. endpoint' \in {endpoint, NoOne} /\ UNCHANGED <<calls, pending, tpc, tpair>>
      BY <1>3, Zenon DEF Reaper, ReaperReap, Unregistered, ReaperStop, ReaperReaped, termVars
    <2> QED
      BY <2>1, StillWaits, Zenon
  <1>4. CASE Shutdown
    BY <1>4, StillWaits, Zenon DEF Shutdown, termVars
  <1>5. CASE TermBind
    <2>1. CASE endpoint' = endpoint
      BY <1>5, <2>1, StillWaits, Zenon DEF TermBind
    <2>2. CASE endpoint' # endpoint
      BY <1>5, <2>2, Zenon DEF TermBind, Register, NoneWaitsForBound
    <2> QED
      BY <2>1, <2>2, Zenon
  <1>6. CASE TermPending
    BY <1>6, NobodyWaits, Zenon DEF TermPending, ConnectPending
  <1>7. CASE TermStart \/ TermCreate \/ TermClose \/ TermStop \/ TermDone \/ TermInterrupted
    <2>1. UNCHANGED <<calls, pending, endpoint>> /\ tpc # "connect_pending"
      BY <1>7, Zenon DEF TermStart, TermCreate, Create, TermClose, TermStop, TermDone,
                  TermInterrupted, ctxVars, socketVars
    <2> QED
      BY <2>1, StillWaits, Zenon
  <1>8. CASE UNCHANGED vars
    BY <1>8, StillWaits, Zenon DEF vars, ctxVars, socketVars, termVars
  <1> QED
    BY <1>1, <1>2, <1>3, <1>4, <1>5, <1>6, <1>7, <1>8, Zenon DEF Next, Terminate

---------------------------------------------------------------------------
(* Done                                                                    *)

\* The invariant says what done means.
LEMMA PartsDone ==
    ASSUME CardFacts
    PROVE  Parts => DoneMeansDone
  <1> SUFFICES ASSUME Parts PROVE DoneMeansDone
    BY Zenon
  <1>1. /\ term_mailbox \in Nat /\ reaped \in Nat /\ Listed
        /\ reaped = Cardinality(Reaping) + Cardinality(At(reaper_mailbox, "reaped"))
    BY Zenon DEF Parts, ContextTypeOK, CountsReaping, Counts
  <1>2. term_mailbox + (IF tpc = "finished" /\ ~starting THEN 1 ELSE 0) <= 1
    BY <1>1 DEF Parts, ReportsOnce
  <1>3. ASSUME term_mailbox > 0 \/ tpc = "finished"
        PROVE  sockets = {} /\ reaper_mailbox = <<>>
    <2>1. starting \/ reaper = "stopped"
      BY <1>1, <1>3 DEF Parts, ReportsOnce
    <2> QED
      BY <2>1, Zenon DEF Parts, ReportsOnce, Stops
  <1>4. ASSUME sockets = {}, reaper_mailbox = <<>> PROVE reaped = 0
    <2>1. Reaping = {}
      BY <1>1, <1>4, Zenon DEF Listed, Reaping
    <2>2. At(reaper_mailbox, "reaped") = {}
      <3>1. 1 .. Len(reaper_mailbox) = {}
        BY <1>4
      <3> QED
        BY <3>1, Zenon DEF At
    <2>3. Cardinality({}) = 0
      BY CardEmpty, Zenon
    <2>4. Cardinality(Reaping) = 0 /\ Cardinality(At(reaper_mailbox, "reaped")) = 0
      BY <2>1, <2>2, <2>3, Zenon
    <2> QED
      BY <1>1, <2>4
  <1> QED
    BY <1>1, <1>2, <1>3, <1>4, Zenon DEF DoneMeansDone, Listed

---------------------------------------------------------------------------
(* The commands a socket waits for: in a mailbox ...                       *)

SCmds == [type : {"bind", "inproc_connected", "stop"}, arg : Nat \cup {NoOne}]

NotStops(q) == {i \in 1 .. Len(q) : q[i].type # "stop"}

\* They can be counted.
LEMMA CountedType ==
    ASSUME CardFacts, NEW q \in Seq(SCmds)
    PROVE  /\ Counted(q) = Cardinality(NotStops(q))
           /\ NotStops(q) \subseteq 1 .. Len(q)
           /\ IsFiniteSet(NotStops(q)) /\ Counted(q) \in Nat
  <1>1. NotStops(q) \subseteq 1 .. Len(q) /\ Counted(q) = Cardinality(NotStops(q))
    BY Zenon DEF NotStops, Counted
  <1>2. IsFiniteSet(1 .. Len(q))
    BY CardInterval
  <1>3. IsFiniteSet(NotStops(q))
    BY <1>1, <1>2, CardSubset, Zenon
  <1> QED
    BY <1>1, <1>3, CardType, Zenon

\* None in an empty mailbox.
LEMMA CountedEmpty ==
    ASSUME CardFacts
    PROVE  Counted(<<>>) = 0
  <1>1. 1 .. Len(<<>>) = {}
    OBVIOUS
  <1>2. NotStops(<<>>) = {}
    BY <1>1, Zenon DEF NotStops
  <1> QED
    BY <1>2, CardEmpty, Zenon DEF Counted, NotStops

\* One more for each command that is sent, but not for stop.
LEMMA CountedAppend ==
    ASSUME CardFacts, NEW q \in Seq(SCmds), NEW c \in SCmds
    PROVE  /\ Append(q, c) \in Seq(SCmds)
           /\ c.type = "stop" => Counted(Append(q, c)) = Counted(q)
           /\ c.type # "stop" => Counted(Append(q, c)) = Counted(q) + 1
  <1> DEFINE p == Append(q, c)
             n == Len(q) + 1
  <1>1. /\ p \in Seq(SCmds) /\ Len(q) \in Nat /\ Len(p) = n /\ p[n] = c
        /\ \A i \in 1 .. Len(q) : p[i] = q[i]
    OBVIOUS
  <1>2. 1 .. n = (1 .. Len(q)) \cup {n} /\ n \notin 1 .. Len(q)
    BY <1>1
  <1> HIDE DEF p, n
  <1>3. NotStops(p) = IF c.type = "stop" THEN NotStops(q) ELSE NotStops(q) \cup {n}
    BY <1>1, <1>2, Zenon DEF NotStops
  <1>4. /\ Counted(p) = Cardinality(NotStops(p)) /\ Counted(q) = Cardinality(NotStops(q))
        /\ IsFiniteSet(NotStops(q)) /\ Counted(q) \in Nat /\ n \notin NotStops(q)
    BY <1>1, <1>2, CountedType, Zenon
  <1>5. Cardinality(NotStops(q) \cup {n}) = Cardinality(NotStops(q)) + 1
    BY <1>4, CardAdd, Zenon
  <1>6. c.type = "stop" => Counted(p) = Counted(q)
    BY <1>3, <1>4, Zenon
  <1>7. c.type # "stop" => Counted(p) = Counted(q) + 1
    BY <1>3, <1>4, <1>5, Zenon
  <1> QED
    BY <1>1, <1>6, <1>7, Zenon DEF p

\* k more for k commands that are sent at once.
LEMMA CountedMany ==
    ASSUME CardFacts, NEW q \in Seq(SCmds), NEW c \in SCmds, c.type # "stop", NEW k \in Nat
    PROVE  LET p == q \o [i \in 1 .. k |-> c]
           IN  p \in Seq(SCmds) /\ Counted(p) = Counted(q) + k
  <1> DEFINE m == [i \in 1 .. k |-> c]
             p == q \o m
             n == Len(q)
             T == n + 1 .. n + k
  <1>1. m \in Seq(SCmds) /\ Len(m) = k /\ \A i \in 1 .. k : m[i] = c
    OBVIOUS
  <1> HIDE DEF m
  <1>2. p \in Seq(SCmds) /\ n \in Nat /\ Len(p) = n + k
    BY <1>1
  <1>3. \A i \in 1 .. n : p[i] = q[i]
    BY <1>1
  <1>4. \A i \in T : p[i] = c
    <2> SUFFICES ASSUME NEW i \in T PROVE p[i] = c
      BY Zenon
    <2>1. i \in 1 .. n + k /\ i > n /\ i - n \in 1 .. k
      BY <1>2
    <2>2. p[i] = m[i - n]
      BY <1>1, <1>2, <2>1
    <2> QED
      BY <1>1, <2>1, <2>2, Zenon
  <1>5. 1 .. n + k = (1 .. n) \cup T /\ (1 .. n) \cap T = {}
    BY <1>2
  <1> HIDE DEF p, T, n
  <1>6. NotStops(p) = NotStops(q) \cup T
    BY <1>2, <1>3, <1>4, <1>5, Zenon DEF NotStops, n
  <1>7. /\ Counted(q) = Cardinality(NotStops(q)) /\ Counted(p) = Cardinality(NotStops(p))
        /\ NotStops(q) \subseteq 1 .. n /\ IsFiniteSet(NotStops(q)) /\ Counted(q) \in Nat
    BY <1>2, CountedType, Zenon DEF n
  <1>8. IsFiniteSet(T) /\ Cardinality(T) = k
    <2>1. n + 1 \in Int /\ n + k \in Int
      BY <1>2
    <2>2. /\ IsFiniteSet(T)
          /\ Cardinality(T) = IF n + 1 > n + k THEN 0 ELSE (n + k) - (n + 1) + 1
      BY <2>1, CardInterval, Zenon DEF T
    <2> QED
      BY <1>2, <2>2
  <1>9. NotStops(q) \cap T = {} /\ Cardinality({}) = 0
    BY <1>5, <1>7, CardEmpty, Zenon
  <1>10. Cardinality(NotStops(q) \cup T) = Counted(q) + k - 0
    <2>1. Cardinality(NotStops(q) \cup T) =
            Cardinality(NotStops(q)) + Cardinality(T) - Cardinality(NotStops(q) \cap T)
      BY <1>7, <1>8, CardUnion, Zenon
    <2> QED
      BY <1>7, <1>8, <1>9, <2>1, Zenon
  <1>11. Counted(p) = Counted(q) + k
    BY <1>6, <1>7, <1>10
  <1> QED
    BY <1>2, <1>11, Zenon DEF p, m

---------------------------------------------------------------------------
(* ... about to be sent by a call, or pending.  p is a sequence of pipes.  *)

\* Sums of what is processed, in a mailbox, to be bound and pending.
LEMMA SumMoves ==
    ASSUME NEW p \in Nat, NEW m \in Nat, NEW b \in Nat, NEW n \in Nat, NEW d \in Nat
    PROVE  p + m + (b + n) + d = (p + d) + (m + n) + b
  OBVIOUS
LEMMA SumParts ==
    ASSUME NEW p \in Nat, NEW m \in Nat, NEW b \in Nat, NEW n \in Nat
    PROVE  p + m + (b + n) = p + m + b + n /\ (p + m + b + n) - p = m + b + n
  OBVIOUS

PipeRecs == [from : Apps, peer : Sockets \cup {NoOne}, to : Sockets \cup {NoOne},
             asked : BOOLEAN, gone : BOOLEAN]

LastOf(p, n, c) ==
    n \in DOMAIN p /\ p[n].from = c /\ \A k \in DOMAIN p : p[k].from = c => k <= n
PipeIn(p, c) ==
    CHOOSE n \in DOMAIN p : p[n].from = c /\ \A k \in DOMAIN p : p[k].from = c => k <= n
BindTo(p, b, s) == {c \in b : p[PipeIn(p, c)].peer = s}
PendFrom(p, m, s) == {n \in m : p[n].from = s}
SameFrom(p, r) ==
    /\ DOMAIN r = DOMAIN p
    /\ \A n \in DOMAIN p : r[n].from = p[n].from /\ r[n].peer = p[n].peer

\* The pipe of the call is the last one of the socket.
LEMMA LastUnique ==
    ASSUME NEW p \in Seq(PipeRecs), NEW c, NEW n, LastOf(p, n, c)
    PROVE  PipeIn(p, c) = n /\ n \in 1 .. Len(p)
  <1>1. DOMAIN p = 1 .. Len(p) /\ Len(p) \in Nat
    OBVIOUS
  <1>2. LastOf(p, PipeIn(p, c), c)
    BY Zenon DEF LastOf, PipeIn
  <1>3. n <= PipeIn(p, c) /\ PipeIn(p, c) <= n
    BY <1>2, Zenon DEF LastOf
  <1>4. n \in Int /\ PipeIn(p, c) \in Int
    BY <1>1, <1>2 DEF LastOf
  <1> QED
    BY <1>1, <1>3, <1>4 DEF LastOf

\* A change of what else a pipe knows changes nothing of this.
LEMMA LastSame ==
    ASSUME NEW p, NEW r, SameFrom(p, r), NEW n, NEW c, LastOf(p, n, c)
    PROVE  LastOf(r, n, c) /\ r[n].peer = p[n].peer
  BY Zenon DEF LastOf, SameFrom

Grown(p, r, x) ==
    /\ DOMAIN r = DOMAIN p \cup {Len(p) + 1} /\ Len(p) + 1 \notin DOMAIN p
    /\ r[Len(p) + 1] = x /\ \A n \in DOMAIN p : r[n] = p[n]
    /\ LastOf(r, Len(p) + 1, x.from)
    /\ \A n, c : LastOf(p, n, c) /\ c # x.from => LastOf(r, n, c)

\* A new pipe is the last of its socket, and leaves those of others alone.
LEMMA LastAppend ==
    ASSUME NEW p \in Seq(PipeRecs), NEW x \in PipeRecs, NEW r, r = Append(p, x)
    PROVE  r \in Seq(PipeRecs) /\ Grown(p, r, x)
  <1>1. /\ r \in Seq(PipeRecs) /\ Len(p) \in Nat /\ Len(r) = Len(p) + 1
        /\ DOMAIN p = 1 .. Len(p) /\ DOMAIN r = 1 .. Len(r)
        /\ r[Len(p) + 1] = x /\ \A n \in DOMAIN p : r[n] = p[n]
    OBVIOUS
  <1>2. /\ DOMAIN r = DOMAIN p \cup {Len(p) + 1} /\ Len(p) + 1 \notin DOMAIN p
        /\ \A n \in DOMAIN r : n <= Len(p) + 1
    BY <1>1
  <1>3. LastOf(r, Len(p) + 1, x.from)
    BY <1>1, <1>2, Zenon DEF LastOf
  <1>4. ASSUME NEW n, NEW c, LastOf(p, n, c), c # x.from PROVE LastOf(r, n, c)
    <2>1. n \in DOMAIN p /\ p[n].from = c /\ \A k \in DOMAIN p : p[k].from = c => k <= n
      BY <1>4, Zenon DEF LastOf
    <2>2. n \in DOMAIN r /\ r[n].from = c
      BY <1>1, <1>2, <2>1, Zenon
    <2>3. ASSUME NEW k \in DOMAIN r, r[k].from = c PROVE k <= n
      <3>1. k \in DOMAIN p /\ r[k] = p[k]
        BY <1>1, <1>2, <1>4, <2>3, Zenon
      <3> QED
        BY <2>1, <2>3, <3>1, Zenon
    <2> QED
      BY <2>2, <2>3, Zenon DEF LastOf
  <1> QED
    BY <1>1, <1>2, <1>3, <1>4, Zenon DEF Grown

\* The last pipes of the callers in b have the same peers in p and in r.
SameLast(p, r, b) ==
    \A c \in b : \E n : LastOf(p, n, c) /\ LastOf(r, n, c) /\ r[n].peer = p[n].peer

\* Who is about to send a bind command to s does not depend on the rest.
LEMMA BindToSame ==
    ASSUME NEW p \in Seq(PipeRecs), NEW r \in Seq(PipeRecs), NEW b, NEW s,
           SameLast(p, r, b)
    PROVE  BindTo(r, b, s) = BindTo(p, b, s)
  <1>1. ASSUME NEW c \in b PROVE r[PipeIn(r, c)].peer = p[PipeIn(p, c)].peer
    <2>1. PICK n : LastOf(p, n, c) /\ LastOf(r, n, c) /\ r[n].peer = p[n].peer
      BY Zenon DEF SameLast
    <2>2. PipeIn(p, c) = n /\ PipeIn(r, c) = n
      BY <2>1, LastUnique, Zenon
    <2> QED
      BY <2>1, <2>2, Zenon
  <1> QED
    BY <1>1, Zenon DEF BindTo

---------------------------------------------------------------------------
(* The invariant about them.                                               *)

HasPipe(p, m, s, b) ==
    \E n : LastOf(p, n, s) /\ n \notin m /\ (b => p[n].peer \in Sockets)

Typed ==
    /\ sent_seqnum \in [Sockets -> Nat] /\ processed_seqnum \in [Sockets -> Nat]
    /\ mailbox \in [Sockets -> Seq(SCmds)]
    /\ pipe \in Seq(PipeRecs)
    /\ pending \subseteq DOMAIN pipe /\ IsFiniteSet(pending)
    /\ IsFiniteSet(Binding)
InCalls ==
    \A s \in Sockets : calls[s] \in {"bind", "pend"} =>
        HasPipe(pipe, pending, s, calls[s] = "bind")
Waits(s) == Cardinality(BindTo(pipe, Binding, s)) + Cardinality(PendFrom(pipe, pending, s))
Balance ==
    \A s \in Sockets :
        sent_seqnum[s] = processed_seqnum[s] + Counted(mailbox[s]) + Waits(s)
Sums == Typed /\ InCalls /\ Balance

\* Both sets can be counted.
LEMMA WaitsType ==
    ASSUME CardFacts, Typed, NEW s
    PROVE  /\ IsFiniteSet(BindTo(pipe, Binding, s))
           /\ IsFiniteSet(PendFrom(pipe, pending, s))
           /\ Cardinality(BindTo(pipe, Binding, s)) \in Nat
           /\ Cardinality(PendFrom(pipe, pending, s)) \in Nat
           /\ Waits(s) \in Nat
  <1>1. BindTo(pipe, Binding, s) \subseteq Binding /\ PendFrom(pipe, pending, s) \subseteq pending
    BY Zenon DEF BindTo, PendFrom
  <1>2. IsFiniteSet(BindTo(pipe, Binding, s)) /\ IsFiniteSet(PendFrom(pipe, pending, s))
    BY <1>1, CardSubset, Zenon DEF Typed
  <1>3. /\ Cardinality(BindTo(pipe, Binding, s)) \in Nat
        /\ Cardinality(PendFrom(pipe, pending, s)) \in Nat
    BY <1>2, CardType, Zenon
  <1> QED
    BY <1>2, <1>3 DEF Waits

\* Who is in a call has made a pipe.
LEMMA BindingHas ==
    ASSUME InCalls, NEW c \in Binding
    PROVE  HasPipe(pipe, pending, c, TRUE) /\ c \in Sockets /\ calls[c] = "bind"
  BY Zenon DEF InCalls, Binding, Sockets

\* The calls keep their pipes, and no pipe becomes pending.
LEMMA SameCalls ==
    ASSUME Typed, InCalls, pipe' \in Seq(PipeRecs), SameFrom(pipe, pipe'),
           pending' \subseteq pending, Binding' = Binding,
           \A s \in Sockets : calls'[s] \in {"bind", "pend"} => calls'[s] = calls[s]
    PROVE  /\ InCalls'
           /\ \A s : BindTo(pipe', Binding', s) = BindTo(pipe, Binding, s)
  <1>1. InCalls'
    <2> SUFFICES ASSUME NEW s \in Sockets, calls'[s] \in {"bind", "pend"}
                 PROVE  HasPipe(pipe', pending', s, calls'[s] = "bind")
      BY Zenon DEF InCalls
    <2>1. calls'[s] = calls[s] /\ HasPipe(pipe, pending, s, calls[s] = "bind")
      BY Zenon DEF InCalls
    <2>2. PICK n : /\ LastOf(pipe, n, s) /\ n \notin pending
                   /\ calls[s] = "bind" => pipe[n].peer \in Sockets
      BY <2>1, Zenon DEF HasPipe
    <2>3. LastOf(pipe', n, s) /\ pipe'[n].peer = pipe[n].peer
      BY <2>2, Zenon DEF LastOf, SameFrom
    <2> QED
      BY <2>1, <2>2, <2>3, Zenon DEF HasPipe
  <1>2. ASSUME NEW s PROVE BindTo(pipe', Binding', s) = BindTo(pipe, Binding, s)
    <2>1. \A c \in Binding : \E n :
             LastOf(pipe, n, c) /\ LastOf(pipe', n, c) /\ pipe'[n].peer = pipe[n].peer
      <3> SUFFICES ASSUME NEW c \in Binding
                   PROVE  \E n : LastOf(pipe, n, c) /\ LastOf(pipe', n, c)
                                /\ pipe'[n].peer = pipe[n].peer
        BY Zenon
      <3>1. PICK n : LastOf(pipe, n, c)
        BY BindingHas, Zenon DEF HasPipe
      <3>2. LastOf(pipe', n, c) /\ pipe'[n].peer = pipe[n].peer
        BY <3>1, LastSame
      <3> QED
        BY <3>1, <3>2, Zenon
    <2>2. pipe \in Seq(PipeRecs)
      BY Zenon DEF Typed
    <2>3. BindTo(pipe', Binding, s) = BindTo(pipe, Binding, s)
      <3>1. SameLast(pipe, pipe', Binding)
        BY <2>1, Zenon DEF SameLast
      <3> QED
        BY <2>2, <3>1, BindToSame
    <2> QED
      BY <2>3, Zenon
  <1> QED
    BY <1>1, <1>2, Zenon

\* Steps that count no command, and take none away but those they process.
LEMMA SteadySums ==
    ASSUME Sums, pipe' \in Seq(PipeRecs), SameFrom(pipe, pipe'), pending' = pending,
           sent_seqnum' = sent_seqnum, Binding' = Binding,
           processed_seqnum' \in [Sockets -> Nat], mailbox' \in [Sockets -> Seq(SCmds)],
           \A s \in Sockets : calls'[s] \in {"bind", "pend"} => calls'[s] = calls[s],
           \A s \in Sockets : processed_seqnum'[s] + Counted(mailbox'[s]) =
                              processed_seqnum[s] + Counted(mailbox[s])
    PROVE  Sums'
  <1>1. Typed'
    BY Zenon DEF Sums, Typed, SameFrom
  <1>2. InCalls' /\ \A s : BindTo(pipe', Binding', s) = BindTo(pipe, Binding, s)
    BY SameCalls, Zenon DEF Sums
  <1>3. ASSUME NEW s \in Sockets PROVE Waits(s)' = Waits(s)
    <2>1. PendFrom(pipe', pending, s) = PendFrom(pipe, pending, s)
      BY Zenon DEF Sums, Typed, PendFrom, SameFrom
    <2> QED
      BY <1>2, <2>1, Zenon DEF Waits
  <1>4. Balance'
    <2> SUFFICES ASSUME NEW s \in Sockets
                 PROVE  sent_seqnum'[s] = processed_seqnum'[s] + Counted(mailbox'[s]) + Waits(s)'
      BY Zenon DEF Balance
    <2>1. sent_seqnum[s] = processed_seqnum[s] + Counted(mailbox[s]) + Waits(s)
      BY Zenon DEF Sums, Balance
    <2>2. processed_seqnum'[s] + Counted(mailbox'[s]) = processed_seqnum[s] + Counted(mailbox[s])
      BY Zenon
    <2> QED
      BY <1>3, <2>1, <2>2, Zenon
  <1> QED
    BY <1>1, <1>2, <1>4, Zenon DEF Sums

\* find_endpoint (): the pipe is made, and a peer that is found expects a
\* bind command.
LEMMA FindSums ==
    ASSUME CardFacts, Sums, ContextTypeOK, NEW s \in Apps, ConnectFind(s)
    PROVE  Sums'
  <1> DEFINE x == NewPipe(s, endpoint)
             k == Len(pipe) + 1
             found == endpoint # NoOne
             b == IF found THEN Binding \cup {s} ELSE Binding
  <1>0. s \in Sockets /\ endpoint \in Sockets \cup {NoOne} /\ NoOne \notin Sockets
    BY ContextAssumption, Zenon DEF ContextTypeOK, Sockets
  <1>1. /\ calls[s] = "find" /\ pipe' = Append(pipe, x)
        /\ calls' = [calls EXCEPT ![s] = IF found THEN "bind" ELSE "pend"]
        /\ sent_seqnum' = IF found THEN [sent_seqnum EXCEPT ![endpoint] = @ + 1]
                          ELSE sent_seqnum
        /\ UNCHANGED <<pending, mailbox, processed_seqnum>>
    BY Zenon DEF ConnectFind, IncSeqnum, ctxVars
  <1>2. x \in PipeRecs /\ x.from = s /\ x.peer = endpoint
    BY <1>0, Zenon DEF NewPipe, PipeRecs
  <1> HIDE DEF x
  <1>3. pipe \in Seq(PipeRecs) /\ pending \subseteq DOMAIN pipe
    BY Zenon DEF Sums, Typed
  <1>4. /\ pipe' \in Seq(PipeRecs)
        /\ DOMAIN pipe' = DOMAIN pipe \cup {k} /\ k \notin DOMAIN pipe
        /\ pipe'[k] = x /\ \A n \in DOMAIN pipe : pipe'[n] = pipe[n]
        /\ LastOf(pipe', k, s)
        /\ \A n, c : LastOf(pipe, n, c) /\ c # s => LastOf(pipe', n, c)
    <2>1. pipe' = Append(pipe, x)
      BY <1>1, Zenon
    <2>2. pipe' \in Seq(PipeRecs) /\ Grown(pipe, pipe', x)
      BY <1>2, <1>3, <2>1, LastAppend, Zenon
    <2> QED
      BY <1>2, <2>2, Zenon DEF Grown
  <1> HIDE DEF k
  <1>5. /\ calls'[s] = (IF found THEN "bind" ELSE "pend")
        /\ \A c \in Sockets : c # s => calls'[c] = calls[c]
    BY <1>0, <1>1, Zenon DEF ContextTypeOK
  <1>6. Binding' = b /\ s \notin Binding
    BY <1>1, <1>5 DEF Binding, Sockets
  <1>7. Typed'
    <2>1. IsFiniteSet(b)
      BY CardAdd, Zenon DEF Sums, Typed
    <2>2. sent_seqnum' \in [Sockets -> Nat]
      BY <1>0, <1>1 DEF Sums, Typed
    <2>3. pending' \subseteq DOMAIN pipe'
      BY <1>1, <1>3, <1>4, Zenon
    <2> QED
      BY <1>1, <1>4, <1>6, <2>1, <2>2, <2>3, Zenon DEF Sums, Typed
  <1>8. InCalls'
    <2> SUFFICES ASSUME NEW c \in Sockets, calls'[c] \in {"bind", "pend"}
                 PROVE  HasPipe(pipe', pending', c, calls'[c] = "bind")
      BY Zenon DEF InCalls
    <2>1. CASE c = s
      <3>1. calls'[s] = "bind" => pipe'[k].peer \in Sockets
        BY <1>0, <1>2, <1>4, <1>5, Zenon
      <3>2. k \notin pending'
        BY <1>1, <1>3, <1>4, Zenon
      <3> QED
        BY <1>4, <2>1, <3>1, <3>2, Zenon DEF HasPipe
    <2>2. CASE c # s
      <3>1. calls'[c] = calls[c] /\ HasPipe(pipe, pending, c, calls[c] = "bind")
        BY <1>5, <2>2, Zenon DEF Sums, InCalls
      <3>2. PICK n : /\ LastOf(pipe, n, c) /\ n \notin pending
                     /\ calls[c] = "bind" => pipe[n].peer \in Sockets
        BY <3>1, Zenon DEF HasPipe
      <3>3. LastOf(pipe', n, c) /\ pipe'[n] = pipe[n]
        BY <1>4, <2>2, <3>2, Zenon DEF LastOf
      <3> QED
        BY <1>1, <3>1, <3>2, <3>3, Zenon DEF HasPipe
    <2> QED
      BY <2>1, <2>2, Zenon
  <1>9. ASSUME NEW t \in Sockets
        PROVE  Waits(t)' = Waits(t) + (IF t = endpoint THEN 1 ELSE 0)
    <2>1. BindTo(pipe', Binding, t) = BindTo(pipe, Binding, t)
      <3>1. \A c \in Binding : \E n :
               LastOf(pipe, n, c) /\ LastOf(pipe', n, c) /\ pipe'[n].peer = pipe[n].peer
        <4> SUFFICES ASSUME NEW c \in Binding
                     PROVE  \E n : LastOf(pipe, n, c) /\ LastOf(pipe', n, c)
                                  /\ pipe'[n].peer = pipe[n].peer
          BY Zenon
        <4>1. PICK n : LastOf(pipe, n, c)
          BY BindingHas, Zenon DEF Sums, HasPipe
        <4>2. c # s /\ n \in DOMAIN pipe
          BY <1>6, <4>1, Zenon DEF LastOf
        <4> QED
          BY <1>4, <4>1, <4>2, Zenon
      <3>2. SameLast(pipe, pipe', Binding)
        BY <3>1, Zenon DEF SameLast
      <3> QED
        BY <1>3, <1>4, <3>2, BindToSame
    <2>2. PipeIn(pipe', s) = k
      BY <1>4, LastUnique, Zenon
    <2>3. BindTo(pipe', Binding', t) = IF t = endpoint THEN BindTo(pipe, Binding, t) \cup {s}
                                       ELSE BindTo(pipe, Binding, t)
      <3>1. pipe'[PipeIn(pipe', s)].peer = endpoint
        BY <1>2, <1>4, <2>2, Zenon
      <3>2. BindTo(pipe', b, t) = IF t = endpoint THEN BindTo(pipe', Binding, t) \cup {s}
                                  ELSE BindTo(pipe', Binding, t)
        <4>1. t = endpoint => found
          BY <1>0, Zenon
        <4> QED
          BY <3>1, <4>1, Zenon DEF BindTo
      <3> QED
        BY <1>6, <2>1, <3>2, Zenon
    <2>4. PendFrom(pipe', pending', t) = PendFrom(pipe, pending, t)
      BY <1>1, <1>3, <1>4, Zenon DEF PendFrom
    <2>5. s \notin BindTo(pipe, Binding, t)
      BY <1>6, Zenon DEF BindTo
    <2>6. /\ IsFiniteSet(BindTo(pipe, Binding, t))
          /\ Cardinality(BindTo(pipe, Binding, t)) \in Nat
          /\ Cardinality(PendFrom(pipe, pending, t)) \in Nat
      BY WaitsType, Zenon DEF Sums
    <2>7. Cardinality(BindTo(pipe, Binding, t) \cup {s}) = Cardinality(BindTo(pipe, Binding, t)) + 1
      BY <2>5, <2>6, CardAdd, Zenon
    <2> QED
      BY <2>3, <2>4, <2>6, <2>7 DEF Waits
  <1>10. Balance'
    <2> SUFFICES ASSUME NEW t \in Sockets
                 PROVE  sent_seqnum'[t] = processed_seqnum'[t] + Counted(mailbox'[t]) + Waits(t)'
      BY Zenon DEF Balance
    <2>1. sent_seqnum'[t] = sent_seqnum[t] + (IF t = endpoint THEN 1 ELSE 0)
      BY <1>0, <1>1 DEF Sums, Typed
    <2>2. sent_seqnum[t] = processed_seqnum[t] + Counted(mailbox[t]) + Waits(t)
      BY Zenon DEF Sums, Balance
    <2>3. Waits(t) \in Nat /\ processed_seqnum[t] \in Nat /\ Counted(mailbox[t]) \in Nat
      BY WaitsType, CountedType, Zenon DEF Sums, Typed
    <2> QED
      BY <1>1, <1>9, <2>1, <2>2, <2>3
  <1> QED
    BY <1>7, <1>8, <1>10, Zenon DEF Sums

\* The pipe that SendBind names.
LEMMA CallPipe ==
    ASSUME Typed, InCalls, NEW s \in Sockets, calls[s] \in {"bind", "pend"}
    PROVE  /\ PipeInCall(s) = PipeIn(pipe, s)
           /\ LastOf(pipe, PipeInCall(s), s) /\ PipeInCall(s) \in DOMAIN pipe
           /\ PipeInCall(s) \in Nat /\ PipeInCall(s) \notin pending
           /\ calls[s] = "bind" => pipe[PipeInCall(s)].peer \in Sockets
           /\ Command("bind", PipeInCall(s)) \in SCmds
           /\ Command("bind", PipeInCall(s)).type = "bind"
  <1>1. PICK n : /\ LastOf(pipe, n, s) /\ n \notin pending
                 /\ calls[s] = "bind" => pipe[n].peer \in Sockets
    BY Zenon DEF InCalls, HasPipe
  <1>2. PipeInCall(s) = PipeIn(pipe, s)
    BY Zenon DEF PipeInCall, PipeIn
  <1>3. PipeIn(pipe, s) = n /\ n \in 1 .. Len(pipe)
    BY <1>1, LastUnique, Zenon DEF Typed
  <1>4. n \in Nat
    BY <1>3
  <1>5. Command("bind", n) \in SCmds /\ Command("bind", n).type = "bind"
    BY <1>4, Zenon DEF Command, SCmds
  <1> QED
    BY <1>1, <1>2, <1>3, <1>4, <1>5, Zenon DEF LastOf

\* A command that counts goes to socket t.
LEMMA MailboxGrows ==
    ASSUME CardFacts, Typed, NEW t \in Sockets, NEW c \in SCmds, c.type # "stop",
           mailbox' = [mailbox EXCEPT ![t] = Append(@, c)]
    PROVE  /\ mailbox' \in [Sockets -> Seq(SCmds)]
           /\ \A u \in Sockets : Counted(mailbox[u]) \in Nat
           /\ \A u \in Sockets : Counted(mailbox'[u]) =
                 IF u = t THEN Counted(mailbox[u]) + 1 ELSE Counted(mailbox[u])
  <1>1. mailbox \in [Sockets -> Seq(SCmds)]
    BY Zenon DEF Typed
  <1>2. /\ Append(mailbox[t], c) \in Seq(SCmds)
        /\ Counted(Append(mailbox[t], c)) = Counted(mailbox[t]) + 1
    BY <1>1, CountedAppend, Zenon
  <1>3. /\ mailbox'[t] = Append(mailbox[t], c)
        /\ \A u \in Sockets : u # t => mailbox'[u] = mailbox[u]
        /\ mailbox' \in [Sockets -> Seq(SCmds)]
    BY <1>1, <1>2, Zenon
  <1>4. \A u \in Sockets : Counted(mailbox[u]) \in Nat
    BY <1>1, CountedType, Zenon
  <1> QED
    BY <1>2, <1>3, <1>4, Zenon

\* connect () sends the bind command it has announced.
LEMMA BindSums ==
    ASSUME CardFacts, Sums, ContextTypeOK, NEW s \in Apps, ConnectBind(s)
    PROVE  Sums'
  <1> DEFINE n == PipeInCall(s)
             t == pipe[n].peer
             c == Command("bind", n)
  <1>0. s \in Sockets /\ Typed /\ InCalls
    BY Zenon DEF Sums, Sockets
  <1>1. /\ calls[s] = "bind" /\ calls' = [calls EXCEPT ![s] = "none"]
        /\ mailbox' = [mailbox EXCEPT ![t] = Append(@, c)]
        /\ UNCHANGED <<pipe, pending, sent_seqnum, processed_seqnum>>
    BY Zenon DEF ConnectBind, SendBind, ctxVars
  <1>2. n = PipeIn(pipe, s) /\ t \in Sockets /\ c \in SCmds /\ c.type = "bind"
    BY <1>0, <1>1, CallPipe, Zenon
  <1> HIDE DEF n, t, c
  <1>3. calls'[s] = "none" /\ \A u \in Sockets : u # s => calls'[u] = calls[u]
    BY <1>0, <1>1, Zenon DEF ContextTypeOK
  <1>4. Binding' = Binding \ {s} /\ s \in Binding
    BY <1>1, <1>3, Zenon DEF Binding, Sockets
  <1>5. /\ mailbox' \in [Sockets -> Seq(SCmds)]
        /\ \A u \in Sockets : Counted(mailbox[u]) \in Nat
        /\ \A u \in Sockets : Counted(mailbox'[u]) =
              IF u = t THEN Counted(mailbox[u]) + 1 ELSE Counted(mailbox[u])
    BY <1>0, <1>1, <1>2, MailboxGrows, Zenon
  <1>6. Typed'
    <2>1. IsFiniteSet(Binding')
      BY <1>0, <1>4, CardRemove, Zenon DEF Typed
    <2> QED
      BY <1>0, <1>1, <1>5, <2>1, Zenon DEF Typed
  <1>7. InCalls'
    BY <1>0, <1>1, <1>3, Zenon DEF InCalls
  <1>8. ASSUME NEW u \in Sockets
        PROVE  Waits(u) \in Nat /\ Waits(u)' = IF u = t THEN Waits(u) - 1 ELSE Waits(u)
    <2>1. /\ BindTo(pipe', Binding', u) = BindTo(pipe, Binding, u) \ {s}
          /\ s \in BindTo(pipe, Binding, u) <=> u = t
      BY <1>1, <1>2, <1>4, Zenon DEF BindTo, t
    <2>2. /\ IsFiniteSet(BindTo(pipe, Binding, u))
          /\ Cardinality(BindTo(pipe, Binding, u)) \in Nat
          /\ Cardinality(PendFrom(pipe, pending, u)) \in Nat
      BY <1>0, WaitsType, Zenon
    <2>3. Cardinality(BindTo(pipe', Binding', u)) =
            IF s \in BindTo(pipe, Binding, u) THEN Cardinality(BindTo(pipe, Binding, u)) - 1
            ELSE Cardinality(BindTo(pipe, Binding, u))
      BY <2>1, <2>2, CardRemove, Zenon
    <2>4. PendFrom(pipe', pending', u) = PendFrom(pipe, pending, u)
      BY <1>1, Zenon
    <2> QED
      BY <2>1, <2>2, <2>3, <2>4 DEF Waits
  <1>9. Balance'
    <2> SUFFICES ASSUME NEW u \in Sockets
                 PROVE  sent_seqnum'[u] = processed_seqnum'[u] + Counted(mailbox'[u]) + Waits(u)'
      BY Zenon DEF Balance
    <2>1. /\ sent_seqnum[u] = processed_seqnum[u] + Counted(mailbox[u]) + Waits(u)
          /\ processed_seqnum[u] \in Nat
      BY Zenon DEF Sums, Balance, Typed
    <2>2. CASE u = t
      <3>1. Counted(mailbox'[u]) = Counted(mailbox[u]) + 1 /\ Waits(u)' = Waits(u) - 1
        BY <1>5, <1>8, <2>2, Zenon
      <3>2. Counted(mailbox[u]) \in Nat /\ Waits(u) \in Nat
        BY <1>5, <1>8, Zenon
      <3>3. sent_seqnum'[u] = sent_seqnum[u] /\ processed_seqnum'[u] = processed_seqnum[u]
        BY <1>1, Zenon
      <3> QED
        BY <2>1, <3>1, <3>2, <3>3
    <2>3. CASE u # t
      BY <1>1, <1>5, <1>8, <2>1, <2>3, Zenon
    <2> QED
      BY <2>2, <2>3, Zenon
  <1> QED
    BY <1>6, <1>7, <1>9, Zenon DEF Sums

\* pend_connection (): whoever is bound in the mean time gets the command, or
\* the connecting socket waits for one.
LEMMA PendSums ==
    ASSUME CardFacts, Sums, ContextTypeOK, NEW s \in Apps, ConnectPend(s)
    PROVE  Sums'
  <1> DEFINE n == PipeInCall(s)
             c == Command("bind", n)
  <1>0. s \in Sockets /\ Typed /\ InCalls /\ endpoint \in Sockets \cup {NoOne}
    BY Zenon DEF Sums, Sockets, ContextTypeOK
  <1>1. /\ calls[s] = "pend" /\ calls' = [calls EXCEPT ![s] = "none"]
        /\ UNCHANGED <<pipe, processed_seqnum>>
    BY Zenon DEF ConnectPend
  <1>2. /\ LastOf(pipe, n, s) /\ n \in DOMAIN pipe /\ n \notin pending
        /\ c \in SCmds /\ c.type = "bind"
    BY <1>0, <1>1, CallPipe, Zenon
  <1>3. calls'[s] = "none" /\ \A u \in Sockets : u # s => calls'[u] = calls[u]
    BY <1>0, <1>1, Zenon DEF ContextTypeOK
  <1>4. Binding' = Binding
    BY <1>1, <1>3, Zenon DEF Binding, Sockets
  <1>5. ASSUME NEW u \in Sockets
        PROVE  /\ sent_seqnum[u] = processed_seqnum[u] + Counted(mailbox[u]) + Waits(u)
               /\ processed_seqnum[u] \in Nat /\ Waits(u) \in Nat /\ Counted(mailbox[u]) \in Nat
    BY WaitsType, CountedType, Zenon DEF Sums, Typed, Balance
  <1>6. CASE BoundMeanwhile
    <2>1. /\ sent_seqnum' = [sent_seqnum EXCEPT ![endpoint] = @ + 1]
          /\ mailbox' = [mailbox EXCEPT ![endpoint] = Append(@, c)]
          /\ pending' = pending /\ endpoint \in Sockets
      BY <1>0, <1>6, Zenon DEF ConnectPend, SendBind, BoundMeanwhile, IncSeqnum
    <2> HIDE DEF n, c
    <2>2. /\ mailbox' \in [Sockets -> Seq(SCmds)]
          /\ \A u \in Sockets : Counted(mailbox'[u]) =
                IF u = endpoint THEN Counted(mailbox[u]) + 1 ELSE Counted(mailbox[u])
      BY <1>0, <1>2, <2>1, MailboxGrows, Zenon
    <2>3. Typed'
      <3>1. sent_seqnum' \in [Sockets -> Nat]
        BY <1>0, <2>1 DEF Typed
      <3> QED
        BY <1>0, <1>1, <1>4, <2>1, <2>2, <3>1, Zenon DEF Typed
    <2>4. InCalls'
      BY <1>0, <1>1, <1>3, <2>1, Zenon DEF InCalls
    <2>5. Balance'
      <3> SUFFICES ASSUME NEW u \in Sockets
                   PROVE  sent_seqnum'[u] = processed_seqnum'[u] + Counted(mailbox'[u]) + Waits(u)'
        BY Zenon DEF Balance
      <3>1. sent_seqnum'[u] = IF u = endpoint THEN sent_seqnum[u] + 1 ELSE sent_seqnum[u]
        BY <1>0, <2>1, Zenon DEF Typed
      <3>2. Waits(u)' = Waits(u)
        BY <1>1, <1>4, <2>1, Zenon DEF Waits
      <3>3. processed_seqnum'[u] = processed_seqnum[u]
        BY <1>1, Zenon
      <3> QED
        BY <1>5, <2>2, <3>1, <3>2, <3>3
    <2> QED
      BY <2>3, <2>4, <2>5, Zenon DEF Sums
  <1>7. CASE ~BoundMeanwhile
    <2>1. /\ sent_seqnum' = [sent_seqnum EXCEPT ![s] = @ + 1]
          /\ pending' = pending \cup {n} /\ mailbox' = mailbox
      BY <1>7, Zenon DEF ConnectPend, IncSeqnum
    <2> HIDE DEF n, c
    <2>2. Typed'
      <3>1. IsFiniteSet(pending')
        BY <1>0, <2>1, CardAdd, Zenon DEF Typed
      <3>2. sent_seqnum' \in [Sockets -> Nat]
        BY <1>0, <2>1 DEF Typed
      <3> QED
        BY <1>0, <1>1, <1>2, <1>4, <2>1, <3>1, <3>2, Zenon DEF Typed
    <2>3. InCalls'
      <3> SUFFICES ASSUME NEW u \in Sockets, calls'[u] \in {"bind", "pend"}
                   PROVE  HasPipe(pipe', pending', u, calls'[u] = "bind")
        BY Zenon DEF InCalls
      <3>1. calls'[u] = calls[u] /\ u # s
        BY <1>3, Zenon
      <3>2. PICK m : /\ LastOf(pipe, m, u) /\ m \notin pending
                     /\ calls[u] = "bind" => pipe[m].peer \in Sockets
        BY <1>0, <3>1, Zenon DEF InCalls, HasPipe
      <3>3. m \notin pending'
        BY <1>2, <2>1, <3>1, <3>2, Zenon DEF LastOf
      <3> QED
        BY <1>1, <3>1, <3>2, <3>3, Zenon DEF HasPipe
    <2>4. Balance'
      <3> SUFFICES ASSUME NEW u \in Sockets
                   PROVE  sent_seqnum'[u] = processed_seqnum'[u] + Counted(mailbox'[u]) + Waits(u)'
        BY Zenon DEF Balance
      <3>1. sent_seqnum'[u] = IF u = s THEN sent_seqnum[u] + 1 ELSE sent_seqnum[u]
        BY <1>0, <2>1, Zenon DEF Typed
      <3>2. PendFrom(pipe', pending', u) = IF u = s THEN PendFrom(pipe, pending, u) \cup {n}
                                           ELSE PendFrom(pipe, pending, u)
        BY <1>1, <1>2, <2>1, Zenon DEF PendFrom, LastOf
      <3>3. n \notin PendFrom(pipe, pending, u)
        BY <1>2, Zenon DEF PendFrom
      <3>4. /\ IsFiniteSet(PendFrom(pipe, pending, u))
            /\ Cardinality(PendFrom(pipe, pending, u)) \in Nat
            /\ Cardinality(BindTo(pipe, Binding, u)) \in Nat
        BY <1>0, WaitsType, Zenon
      <3>5. Cardinality(PendFrom(pipe, pending, u) \cup {n}) =
              Cardinality(PendFrom(pipe, pending, u)) + 1
        BY <3>3, <3>4, CardAdd, Zenon
      <3>6. BindTo(pipe', Binding', u) = BindTo(pipe, Binding, u)
        BY <1>1, <1>4, Zenon
      <3>7. Waits(u)' = IF u = s THEN Waits(u) + 1 ELSE Waits(u)
        BY <3>2, <3>4, <3>5, <3>6 DEF Waits
      <3>8. processed_seqnum'[u] = processed_seqnum[u] /\ mailbox'[u] = mailbox[u]
        BY <1>1, <2>1, Zenon
      <3> QED
        BY <1>5, <3>1, <3>7, <3>8
    <2> QED
      BY <2>2, <2>3, <2>4, Zenon DEF Sums
  <1> QED
    BY <1>6, <1>7, Zenon

\* attach_pipe () on the other side keeps both ends.
LEMMA AttachedSame ==
    ASSUME pipe \in Seq(PipeRecs), NEW s \in Sockets, NEW ns
    PROVE  Attached(s, ns) \in Seq(PipeRecs) /\ SameFrom(pipe, Attached(s, ns))
  <1> DEFINE r == Attached(s, ns)
  <1>1. DOMAIN pipe = 1 .. Len(pipe) /\ Len(pipe) \in Nat /\ DOMAIN r = DOMAIN pipe
    BY DEF Attached
  <1>2. ASSUME NEW n \in DOMAIN pipe
        PROVE  r[n] \in PipeRecs /\ r[n].from = pipe[n].from /\ r[n].peer = pipe[n].peer
    <2>1. pipe[n] \in PipeRecs
      BY <1>1
    <2>2. PICK k \in BOOLEAN :
             r[n] = IF n \notin ns THEN pipe[n]
                    ELSE [pipe[n] EXCEPT !.to = s, !.asked = @ \/ k]
      BY Zenon DEF Attached
    <2> HIDE DEF r
    <2> QED
      BY <2>1, <2>2, Zenon DEF PipeRecs
  <1>3. r = [n \in 1 .. Len(pipe) |-> r[n]]
    BY <1>1, Zenon DEF Attached
  <1> HIDE DEF r
  <1>4. r \in Seq(PipeRecs)
    BY <1>1, <1>2, <1>3
  <1> QED
    BY <1>1, <1>2, <1>4, Zenon DEF SameFrom, r

\* connect_pending (): the waiting sockets get what they wait for, and the
\* bind commands that are due count as processed.
LEMMA PendingSums ==
    ASSUME CardFacts, Sums, NEW s \in Sockets, ConnectPending(s), Binding' = Binding,
           \A u \in Sockets : calls'[u] \in {"bind", "pend"} => calls'[u] = calls[u]
    PROVE  Sums'
  <1> DEFINE c == Command("inproc_connected", NoOne)
             k == Cardinality(pending)
  <1>0. Typed /\ InCalls /\ Balance /\ k \in Nat
    BY CardType, Zenon DEF Sums, Typed
  <1>1. /\ pipe' = Attached(s, pending) /\ pending' = {}
        /\ sent_seqnum' = [sent_seqnum EXCEPT ![s] = @ + k]
        /\ processed_seqnum' = [processed_seqnum EXCEPT ![s] = @ + k]
        /\ mailbox' = [t \in Sockets |-> mailbox[t] \o [i \in 1 .. PendingOf(t) |-> c]]
    BY Zenon DEF ConnectPending
  <1>2. c \in SCmds /\ c.type # "stop"
    BY Zenon DEF Command, SCmds
  <1>3. pipe' \in Seq(PipeRecs) /\ SameFrom(pipe, pipe')
    BY <1>0, <1>1, AttachedSame, Zenon DEF Typed
  <1>4. InCalls' /\ \A u : BindTo(pipe', Binding', u) = BindTo(pipe, Binding, u)
    BY <1>0, <1>1, <1>3, SameCalls, Zenon
  <1> HIDE DEF c, k
  <1>5. ASSUME NEW u \in Sockets
        PROVE  /\ mailbox'[u] \in Seq(SCmds)
               /\ Counted(mailbox'[u]) = Counted(mailbox[u]) + Cardinality(PendFrom(pipe, pending, u))
               /\ Cardinality(PendFrom(pipe, pending, u)) \in Nat
               /\ Cardinality(BindTo(pipe, Binding, u)) \in Nat
    <2>1. PendingOf(u) = Cardinality(PendFrom(pipe, pending, u))
      BY Zenon DEF PendingOf, PendFrom
    <2>2. /\ Cardinality(PendFrom(pipe, pending, u)) \in Nat
          /\ Cardinality(BindTo(pipe, Binding, u)) \in Nat
      BY <1>0, WaitsType, Zenon
    <2>3. mailbox'[u] = mailbox[u] \o [i \in 1 .. PendingOf(u) |-> c]
      BY <1>1, Zenon
    <2>4. mailbox[u] \in Seq(SCmds)
      BY <1>0, Zenon DEF Typed
    <2>5. PendingOf(u) \in Nat
      BY <2>1, <2>2, Zenon
    <2>6. mailbox'[u] \in Seq(SCmds) /\ Counted(mailbox'[u]) = Counted(mailbox[u]) + PendingOf(u)
      BY <1>2, <2>3, <2>4, <2>5, CountedMany, Zenon
    <2> QED
      BY <2>1, <2>2, <2>6, Zenon
  <1>6. Typed'
    <2>1. mailbox' \in [Sockets -> Seq(SCmds)]
      BY <1>1, <1>5, Zenon
    <2>2. sent_seqnum' \in [Sockets -> Nat] /\ processed_seqnum' \in [Sockets -> Nat]
      <3>1. sent_seqnum \in [Sockets -> Nat] /\ processed_seqnum \in [Sockets -> Nat]
        BY <1>0, Zenon DEF Typed
      <3>2. sent_seqnum[s] \in Nat /\ processed_seqnum[s] \in Nat
        BY <3>1, Zenon
      <3>3. sent_seqnum[s] + k \in Nat /\ processed_seqnum[s] + k \in Nat
        <4>1. \A i, j \in Nat : i + j \in Nat
          OBVIOUS
        <4> QED
          BY <1>0, <3>2, <4>1, Zenon
      <3> QED
        BY <1>1, <3>1, <3>3, Zenon
    <2>3. pending' \subseteq DOMAIN pipe' /\ IsFiniteSet(pending')
      BY <1>1, CardEmpty, Zenon
    <2> QED
      BY <1>0, <1>3, <2>1, <2>2, <2>3, Zenon DEF Typed
  <1>7. Balance'
    <2> SUFFICES ASSUME NEW u \in Sockets
                 PROVE  sent_seqnum'[u] = processed_seqnum'[u] + Counted(mailbox'[u]) + Waits(u)'
      BY Zenon DEF Balance
    <2>1. /\ sent_seqnum[u] = processed_seqnum[u] + Counted(mailbox[u]) + Waits(u)
          /\ processed_seqnum[u] \in Nat /\ Counted(mailbox[u]) \in Nat
      BY <1>0, CountedType, Zenon DEF Typed, Balance
    <2>2. PICK d \in Nat : /\ sent_seqnum'[u] = sent_seqnum[u] + d
                           /\ processed_seqnum'[u] = processed_seqnum[u] + d
      <3>1. CASE u = s
        BY <1>0, <1>1, <3>1, Zenon DEF Typed
      <3>2. CASE u # s
        <4>1. /\ sent_seqnum'[u] = sent_seqnum[u] /\ sent_seqnum[u] \in Nat
              /\ processed_seqnum'[u] = processed_seqnum[u] /\ processed_seqnum[u] \in Nat
          BY <1>0, <1>1, <3>2, Zenon DEF Typed
        <4>2. \A i \in Nat : i + 0 = i
          OBVIOUS
        <4> QED
          BY <4>1, <4>2, Zenon
      <3> QED
        BY <3>1, <3>2, Zenon
    <2>3. Waits(u) = Cardinality(BindTo(pipe, Binding, u)) + Cardinality(PendFrom(pipe, pending, u))
      BY Zenon DEF Waits
    <2>4. Waits(u)' = Cardinality(BindTo(pipe, Binding, u))
      <3>1. PendFrom(pipe', pending', u) = {}
        BY <1>1, Zenon DEF PendFrom
      <3>2. Cardinality({}) = 0
        BY CardEmpty, Zenon
      <3>3. Waits(u)' = Cardinality(BindTo(pipe, Binding, u)) + 0
        BY <1>4, <3>1, <3>2, Zenon DEF Waits
      <3>4. Cardinality(BindTo(pipe, Binding, u)) \in Nat
        BY <1>5, Zenon
      <3>5. \A i \in Nat : i + 0 = i
        OBVIOUS
      <3> QED
        BY <3>3, <3>4, <3>5, Zenon
    <2>5. /\ Counted(mailbox'[u]) = Counted(mailbox[u]) + Cardinality(PendFrom(pipe, pending, u))
          /\ Cardinality(PendFrom(pipe, pending, u)) \in Nat
          /\ Cardinality(BindTo(pipe, Binding, u)) \in Nat
      BY <1>5, Zenon
    <2> QED
      <3> DEFINE p == processed_seqnum[u]
                 m == Counted(mailbox[u])
                 b == Cardinality(BindTo(pipe, Binding, u))
                 n == Cardinality(PendFrom(pipe, pending, u))
      <3> HIDE DEF p, m, b, n
      <3>1. p \in Nat /\ m \in Nat /\ b \in Nat /\ n \in Nat /\ d \in Nat
        BY <2>1, <2>2, <2>5, Zenon DEF p, m, b, n
      <3>2. p + m + (b + n) + d = (p + d) + (m + n) + b
        BY <3>1, SumMoves
      <3>3. sent_seqnum[u] = p + m + (b + n)
        BY <2>1, <2>3, Zenon DEF p, m, b, n
      <3>4. sent_seqnum'[u] = p + m + (b + n) + d
        BY <2>2, <3>3, Zenon
      <3>5. processed_seqnum'[u] = p + d
        BY <2>2, Zenon DEF p
      <3>6. Counted(mailbox'[u]) = m + n /\ Waits(u)' = b
        BY <2>4, <2>5, Zenon DEF m, n, b
      <3> QED
        BY <3>2, <3>4, <3>5, <3>6, Zenon
  <1> QED
    BY <1>4, <1>6, <1>7, Zenon DEF Sums

---------------------------------------------------------------------------
(* Each step keeps it.                                                     *)

\* A step that changes neither pipes nor counters, nor who is in a connect ().
LEMMA KeepsSums ==
    ASSUME Sums, Binding' = Binding,
           UNCHANGED <<mailbox, sent_seqnum, processed_seqnum, pipe, pending>>,
           \A s \in Sockets : calls'[s] \in {"bind", "pend"} => calls'[s] = calls[s]
    PROVE  Sums'
  <1>1. SameFrom(pipe, pipe') /\ pipe' \in Seq(PipeRecs)
    BY Zenon DEF SameFrom, Sums, Typed
  <1>2. processed_seqnum' \in [Sockets -> Nat] /\ mailbox' \in [Sockets -> Seq(SCmds)]
    BY Zenon DEF Sums, Typed
  <1> QED
    BY <1>1, <1>2, SteadySums, Zenon

\* A step that changes pipes but none of their ends.
LEMMA PipesSums ==
    ASSUME Sums, pipe' \in Seq(PipeRecs), SameFrom(pipe, pipe'),
           UNCHANGED <<calls, mailbox, sent_seqnum, processed_seqnum, pending>>
    PROVE  Sums'
  <1>1. processed_seqnum' \in [Sockets -> Nat] /\ mailbox' \in [Sockets -> Seq(SCmds)]
    BY Zenon DEF Sums, Typed
  <1>2. Binding' = Binding
    BY Zenon DEF Binding
  <1> QED
    BY <1>1, <1>2, SteadySums, Zenon

IsMap(f, d) == f = [n \in d |-> f[n]]
Kept(x, y) == y \in PipeRecs /\ y.from = x.from /\ y.peer = x.peer

\* A pipe that is asked to terminate, or gone, keeps its ends.
LEMMA MarkKeeps ==
    ASSUME NEW x \in PipeRecs, NEW a \in BOOLEAN
    PROVE  Kept(x, [x EXCEPT !.asked = a]) /\ Kept(x, [x EXCEPT !.gone = a]) /\ Kept(x, x)
  BY Zenon DEF Kept, PipeRecs

\* So do all pipes if each of them does.
LEMMA KeptSame ==
    ASSUME NEW p \in Seq(PipeRecs), NEW r, IsMap(r, DOMAIN p),
           \A n \in DOMAIN p : Kept(p[n], r[n])
    PROVE  r \in Seq(PipeRecs) /\ SameFrom(p, r)
  <1>1. DOMAIN p = 1 .. Len(p) /\ Len(p) \in Nat
    OBVIOUS
  <1>2. DOMAIN r = DOMAIN p /\ r = [n \in 1 .. Len(p) |-> r[n]]
    BY <1>1, Zenon DEF IsMap
  <1>3. r \in Seq(PipeRecs)
    BY <1>1, <1>2 DEF Kept
  <1> QED
    BY <1>2, <1>3, Zenon DEF SameFrom, Kept

\* stop is not a command that is waited for.
LEMMA StopSums ==
    ASSUME CardFacts, Sums, SendStops,
           UNCHANGED <<calls, sent_seqnum, processed_seqnum, pipe, pending>>
    PROVE  Sums'
  <1> DEFINE c == Command("stop", NoOne)
  <1>1. c \in SCmds /\ c.type = "stop"
    BY Zenon DEF Command, SCmds
  <1>2. mailbox' = [s \in Sockets |-> IF Told(s) THEN Append(mailbox[s], c) ELSE mailbox[s]]
    BY Zenon DEF SendStops
  <1> HIDE DEF c
  <1>3. ASSUME NEW s \in Sockets
        PROVE  mailbox'[s] \in Seq(SCmds) /\ Counted(mailbox'[s]) = Counted(mailbox[s])
    <2>1. mailbox[s] \in Seq(SCmds)
      BY Zenon DEF Sums, Typed
    <2>2. mailbox'[s] = Append(mailbox[s], c) \/ mailbox'[s] = mailbox[s]
      BY <1>2, Zenon
    <2> QED
      BY <1>1, <2>1, <2>2, CountedAppend, Zenon
  <1>4. mailbox' \in [Sockets -> Seq(SCmds)] /\ Binding' = Binding
    BY <1>2, <1>3, Zenon DEF Binding
  <1>5. /\ SameFrom(pipe, pipe') /\ pipe' \in Seq(PipeRecs)
        /\ processed_seqnum' \in [Sockets -> Nat]
    BY Zenon DEF SameFrom, Sums, Typed
  <1> QED
    BY <1>3, <1>4, <1>5, SteadySums, Zenon

\* A mailbox is emptied, and what was in it is counted.
LEMMA EmptySums ==
    ASSUME CardFacts, Sums, NEW s \in Sockets, mailbox' = [mailbox EXCEPT ![s] = <<>>],
           processed_seqnum' = [processed_seqnum EXCEPT ![s] = @ + Counted(mailbox[s])],
           pipe' \in Seq(PipeRecs), SameFrom(pipe, pipe'),
           UNCHANGED <<calls, sent_seqnum, pending>>
    PROVE  Sums'
  <1>1. /\ mailbox \in [Sockets -> Seq(SCmds)] /\ processed_seqnum \in [Sockets -> Nat]
        /\ Counted(mailbox[s]) \in Nat
    BY CountedType, Zenon DEF Sums, Typed
  <1>2. mailbox' \in [Sockets -> Seq(SCmds)] /\ processed_seqnum' \in [Sockets -> Nat]
    BY <1>1
  <1>3. ASSUME NEW u \in Sockets
        PROVE  processed_seqnum'[u] + Counted(mailbox'[u]) = processed_seqnum[u] + Counted(mailbox[u])
    <2>1. CASE u = s
      <3>1. mailbox'[u] = <<>> /\ processed_seqnum'[u] = processed_seqnum[u] + Counted(mailbox[u])
        BY <1>1, <2>1, Zenon
      <3>2. Counted(mailbox'[u]) = 0
        BY <3>1, CountedEmpty, Zenon
      <3> QED
        BY <1>1, <2>1, <3>1, <3>2
    <2>2. CASE u # s
      BY <1>1, <2>2, Zenon
    <2> QED
      BY <2>1, <2>2, Zenon
  <1>4. Binding' = Binding
    BY Zenon DEF Binding
  <1> QED
    BY <1>2, <1>3, <1>4, SteadySums, Zenon

\* A call begins, or ends without a pipe.
LEMMA EnterSums ==
    ASSUME Sums, ContextTypeOK, NEW s \in Sockets, calls[s] # "bind",
           NEW x \in {"none", "find", "register", "connect_pending"},
           calls' = [calls EXCEPT ![s] = x],
           UNCHANGED <<mailbox, sent_seqnum, processed_seqnum, pipe, pending>>
    PROVE  Sums'
  <1>1. calls'[s] = x /\ \A u \in Sockets : u # s => calls'[u] = calls[u]
    BY Zenon DEF ContextTypeOK
  <1>2. Binding' = Binding
    BY <1>1, Zenon DEF Binding, Sockets
  <1>3. \A u \in Sockets : calls'[u] \in {"bind", "pend"} => calls'[u] = calls[u]
    BY <1>1, Zenon
  <1> QED
    BY <1>2, <1>3, KeepsSums, Zenon

\* Steps of a socket.
LEMMA SocketSums ==
    ASSUME CardFacts, ContextTypeOK, Sums, UsedAreOpen, NEW s \in Sockets, Socket(s)
    PROVE  Sums'
  <1>0. pipe \in Seq(PipeRecs)
    BY Zenon DEF Sums, Typed
  <1>1. CASE CreateApp(s) \/ CloseApp(s) \/ Delete(s)
    <2>1. UNCHANGED <<calls, mailbox, sent_seqnum, processed_seqnum, pipe, pending>>
      BY <1>1, Zenon DEF CreateApp, Create, CloseApp, Delete, ctxVars
    <2>2. SameFrom(pipe, pipe') /\ pipe' \in Seq(PipeRecs)
      BY <1>0, <2>1, Zenon DEF SameFrom
    <2> QED
      BY <2>1, <2>2, PipesSums, Zenon
  <1>2. CASE ConnectStart(s) \/ BindStart(s)
    <2>1. PICK x \in {"find", "register"} : calls' = [calls EXCEPT ![s] = x]
      BY <1>2, Zenon DEF ConnectStart, BindStart, Enter
    <2>2. /\ calls[s] = "none"
          /\ UNCHANGED <<mailbox, sent_seqnum, processed_seqnum, pipe, pending>>
      BY <1>2, Zenon DEF ConnectStart, BindStart, MayCall, Enter, ctxVars
    <2> QED
      BY <2>1, <2>2, EnterSums, Zenon
  <1>3. CASE ConnectFind(s)
    <2>1. s \in Apps
      BY <1>3, Zenon DEF UsedAreOpen, ConnectFind
    <2> QED
      BY <1>3, <2>1, FindSums, Zenon
  <1>4. CASE ConnectBind(s)
    <2>1. s \in Apps
      BY <1>4, Zenon DEF UsedAreOpen, ConnectBind
    <2> QED
      BY <1>4, <2>1, BindSums, Zenon
  <1>5. CASE ConnectPend(s)
    <2>1. s \in Apps
      BY <1>5, Zenon DEF UsedAreOpen, ConnectPend
    <2> QED
      BY <1>5, <2>1, PendSums, Zenon
  <1>6. CASE BindRegister(s)
    <2>1. PICK x \in {"none", "connect_pending"} : calls' = [calls EXCEPT ![s] = x]
      BY <1>6, Zenon DEF BindRegister
    <2>2. /\ calls[s] = "register"
          /\ UNCHANGED <<mailbox, sent_seqnum, processed_seqnum, pipe, pending>>
      BY <1>6, Zenon DEF BindRegister
    <2> QED
      BY <2>1, <2>2, EnterSums, Zenon
  <1>7. CASE BindPending(s)
    <2>1. /\ ConnectPending(s) /\ calls[s] = "connect_pending"
          /\ calls' = [calls EXCEPT ![s] = "none"]
      BY <1>7, Zenon DEF BindPending
    <2>2. calls'[s] = "none" /\ \A u \in Sockets : u # s => calls'[u] = calls[u]
      BY <2>1, Zenon DEF ContextTypeOK
    <2>3. Binding' = Binding
      BY <2>1, <2>2, Zenon DEF Binding, Sockets
    <2>4. \A u \in Sockets : calls'[u] \in {"bind", "pend"} => calls'[u] = calls[u]
      BY <2>2, Zenon
    <2> QED
      BY <2>1, <2>3, <2>4, PendingSums, Zenon
  <1>8. CASE TermEndpoint(s)
    <2>1. UNCHANGED <<calls, mailbox, sent_seqnum, processed_seqnum, pending>>
      BY <1>8, Zenon DEF TermEndpoint, socketVars
    <2>2. SameFrom(pipe, pipe') /\ pipe' \in Seq(PipeRecs)
      <3>1. CASE pipe' = pipe
        BY <1>0, <3>1, Zenon DEF SameFrom
      <3>2. CASE pipe' # pipe
        <4>1. pipe' = [n \in DOMAIN pipe |->
                          [pipe[n] EXCEPT !.asked = @ \/ pipe[n].from = s]]
          BY <1>8, <3>2, Zenon DEF TermEndpoint
        <4>2. IsMap(pipe', DOMAIN pipe)
          BY <4>1, Zenon DEF IsMap
        <4>3. ASSUME NEW n \in DOMAIN pipe PROVE Kept(pipe[n], pipe'[n])
          <5>1. pipe[n] \in PipeRecs
            BY <1>0
          <5>2. PICK a \in BOOLEAN : a = (pipe[n].asked \/ pipe[n].from = s)
            BY Zenon
          <5>3. pipe'[n] = [pipe[n] EXCEPT !.asked = a]
            BY <4>1, <5>2, Zenon
          <5> QED
            BY <5>1, <5>3, MarkKeeps, Zenon
        <4> QED
          BY <1>0, <4>2, <4>3, KeptSame, Zenon
      <3> QED
        BY <3>1, <3>2, Zenon
    <2> QED
      BY <2>1, <2>2, PipesSums, Zenon
  <1>9. CASE Process(s)
    <2>1. /\ mailbox' = [mailbox EXCEPT ![s] = <<>>]
          /\ processed_seqnum' = [processed_seqnum EXCEPT ![s] = @ + Counted(mailbox[s])]
          /\ UNCHANGED <<calls, sent_seqnum, pending>>
      BY <1>9, Zenon DEF Process, ctxVars
    <2>2. SameFrom(pipe, pipe') /\ pipe' \in Seq(PipeRecs)
      <3>1. PICK ns : pipe' = Attached(s, ns)
        BY <1>9, Zenon DEF Process
      <3> QED
        BY <1>0, <3>1, AttachedSame, Zenon
    <2> QED
      BY <2>1, <2>2, EmptySums, Zenon
  <1> QED
    BY <1>1, <1>2, <1>3, <1>4, <1>5, <1>6, <1>7, <1>8, <1>9, Zenon DEF Socket

\* Steps of the reaper and of a pipe.
LEMMA ReaperSums ==
    ASSUME Sums, Reaper \/ \E n \in DOMAIN pipe : PipeTerminated(n)
    PROVE  Sums'
  <1>0. pipe \in Seq(PipeRecs)
    BY Zenon DEF Sums, Typed
  <1>1. UNCHANGED <<calls, mailbox, sent_seqnum, processed_seqnum, pending>>
    BY Zenon DEF Reaper, PipeTerminated, ctxVars, socketVars
  <1>2. CASE pipe' = pipe
    <2>1. SameFrom(pipe, pipe') /\ pipe' \in Seq(PipeRecs)
      BY <1>0, <1>2, Zenon DEF SameFrom
    <2> QED
      BY <1>1, <2>1, PipesSums, Zenon
  <1>3. ASSUME IsMap(pipe', DOMAIN pipe),
               \A n \in DOMAIN pipe : Kept(pipe[n], pipe'[n])
        PROVE  Sums'
    <2>1. SameFrom(pipe, pipe') /\ pipe' \in Seq(PipeRecs)
      BY <1>0, <1>3, KeptSame, Zenon
    <2> QED
      BY <1>1, <2>1, PipesSums, Zenon
  <1>4. CASE Reaper /\ ReaperReap
    <2> DEFINE x == Head(reaper_mailbox).arg
    <2>1. pipe' = [n \in DOMAIN pipe |->
                      [pipe[n] EXCEPT !.asked = @ \/ n \in PipesOf(x)]]
      BY <1>4, Zenon DEF ReaperReap
    <2> HIDE DEF x
    <2>2. IsMap(pipe', DOMAIN pipe)
      BY <2>1, Zenon DEF IsMap
    <2>3. ASSUME NEW n \in DOMAIN pipe PROVE Kept(pipe[n], pipe'[n])
      <3>1. pipe[n] \in PipeRecs
        BY <1>0
      <3>2. PICK a \in BOOLEAN : a = (pipe[n].asked \/ n \in PipesOf(x))
        BY Zenon
      <3>3. pipe'[n] = [pipe[n] EXCEPT !.asked = a]
        BY <2>1, <3>2, Zenon
      <3> QED
        BY <3>1, <3>3, MarkKeeps, Zenon
    <2> QED
      BY <1>3, <2>2, <2>3, Zenon
  <1>5. CASE Reaper /\ ~ReaperReap
    <2>1. pipe' = pipe
      BY <1>5, Zenon DEF Reaper, ReaperStop, ReaperReaped
    <2> QED
      BY <1>2, <2>1, Zenon
  <1>6. ASSUME NEW m \in DOMAIN pipe, PipeTerminated(m) PROVE Sums'
    <2>1. pipe' = [pipe EXCEPT ![m] = [@ EXCEPT !.gone = TRUE]]
      BY <1>6, Zenon DEF PipeTerminated
    <2>2. IsMap(pipe', DOMAIN pipe)
      BY <2>1, Zenon DEF IsMap
    <2>3. ASSUME NEW n \in DOMAIN pipe PROVE Kept(pipe[n], pipe'[n])
      <3>1. pipe[n] \in PipeRecs
        BY <1>0
      <3>2. pipe'[n] = pipe[n] \/ pipe'[n] = [pipe[n] EXCEPT !.gone = TRUE]
        BY <2>1, Zenon
      <3> QED
        BY <3>1, <3>2, MarkKeeps, Zenon
    <2> QED
      BY <1>3, <2>2, <2>3, Zenon
  <1> QED
    BY <1>4, <1>5, <1>6, Zenon

\* A PAIR socket that is about to be bound has no command to process but stop.
LEMMA BindNothing ==
    ASSUME CardFacts, Sums, NEW s \in Sockets, sent_seqnum[s] = processed_seqnum[s]
    PROVE  Counted(mailbox[s]) = 0
  <1>1. /\ sent_seqnum[s] = processed_seqnum[s] + Counted(mailbox[s]) + Waits(s)
        /\ processed_seqnum[s] \in Nat /\ Counted(mailbox[s]) \in Nat /\ Waits(s) \in Nat
    BY CountedType, WaitsType, Zenon DEF Sums, Typed, Balance
  <1> QED
    BY <1>1

\* Steps of shutdown () and terminate ().
LEMMA TerminateSums ==
    ASSUME CardFacts, ContextTypeOK, Sums, NewAreUnknown, Shutdown \/ Terminate
    PROVE  Sums'
  <1>0. pipe \in Seq(PipeRecs) /\ SameFrom(pipe, pipe)
    BY Zenon DEF Sums, Typed, SameFrom
  <1>1. ASSUME UNCHANGED <<calls, mailbox, sent_seqnum, processed_seqnum, pipe, pending>>
        PROVE  Sums'
    BY <1>0, <1>1, PipesSums, Zenon
  <1>2. CASE Shutdown \/ TermStop
    <2>1. UNCHANGED <<calls, sent_seqnum, processed_seqnum, pipe, pending>>
      BY <1>2, Zenon DEF Shutdown, TermStop
    <2>2. CASE starting \/ terminating
      <3>1. mailbox' = mailbox
        BY <1>2, <2>2, Zenon DEF Shutdown, TermStop
      <3> QED
        BY <1>1, <2>1, <3>1, Zenon
    <2>3. CASE ~(starting \/ terminating)
      <3>1. SendStops
        BY <1>2, <2>3, Zenon DEF Shutdown, TermStop
      <3> QED
        BY <2>1, <3>1, StopSums, Zenon
    <2> QED
      BY <2>2, <2>3, Zenon
  <1>3. CASE TermBind
    <2>1. tpair \in Sockets /\ Counted(mailbox[tpair]) = 0
      BY <1>3, BindNothing, Zenon DEF TermBind, NewAreUnknown, ContextTypeOK, Sockets
    <2>2. /\ mailbox' = [mailbox EXCEPT ![tpair] = <<>>]
          /\ UNCHANGED <<calls, sent_seqnum, processed_seqnum, pipe, pending>>
      BY <1>3, Zenon DEF TermBind
    <2>3. processed_seqnum' = [processed_seqnum EXCEPT ![tpair] = @ + Counted(mailbox[tpair])]
      BY <2>1, <2>2 DEF Sums, Typed
    <2> QED
      BY <1>0, <2>1, <2>2, <2>3, EmptySums, Zenon
  <1>4. CASE TermPending
    <2>1. tpair \in Sockets /\ ConnectPending(tpair) /\ calls' = calls
      BY <1>4, Zenon DEF TermPending, ContextTypeOK, Sockets
    <2>2. Binding' = Binding
      BY <2>1, Zenon DEF Binding
    <2> QED
      BY <2>1, <2>2, PendingSums, Zenon
  <1>5. CASE TermStart \/ TermCreate \/ TermClose \/ TermDone \/ TermInterrupted
    BY <1>1, <1>5, Zenon DEF TermStart, TermCreate, Create, TermClose, TermDone,
       TermInterrupted, ctxVars, socketVars
  <1> QED
    BY <1>2, <1>3, <1>4, <1>5, Zenon DEF Terminate

---------------------------------------------------------------------------
(* Who may be used.                                                        *)

\* A call of an open socket goes on, and may bind it or unbind it.
LEMMA CallUses ==
    ASSUME ContextTypeOK, UsedAreOpen, NEW s \in Apps, life[s] = "open", NEW x,
           calls' = [calls EXCEPT ![s] = x], endpoint' \in {endpoint, s, NoOne},
           UNCHANGED <<life, tpc, tpair>>
    PROVE  UsedAreOpen'
  <1>1. calls'[s] = x /\ \A u \in Sockets : u # s => calls'[u] = calls[u]
    BY Zenon DEF ContextTypeOK, Sockets
  <1> QED
    BY <1>1, Zenon DEF UsedAreOpen, Sockets

\* A socket that nobody uses changes.
LEMMA LifeUses ==
    ASSUME ContextTypeOK, UsedAreOpen, NEW s \in Sockets, NEW l,
           life' = [life EXCEPT ![s] = l], calls[s] = "none",
           tpc' \in {"bind", "connect_pending", "close"} =>
               tpc = tpc' /\ tpair' = tpair /\ tpair # s,
           endpoint' \in {endpoint, NoOne}, endpoint' = s => l \in {"open", "closed"},
           calls' = calls
    PROVE  UsedAreOpen'
  <1>1. life'[s] = l /\ \A u \in Sockets : u # s => life'[u] = life[u]
    BY Zenon DEF ContextTypeOK
  <1>2. \A u \in Sockets : calls'[u] # "none" => u \in Apps /\ life'[u] = "open"
    BY <1>1, Zenon DEF UsedAreOpen
  <1>3. tpc' \in {"bind", "connect_pending", "close"} => life'[tpair'] = "open"
    <2>1. tpc \in {"bind", "connect_pending", "close"} => tpair \in Sockets
      BY Zenon DEF ContextTypeOK, Sockets
    <2> QED
      BY <1>1, <2>1, Zenon DEF UsedAreOpen
  <1>4. endpoint' # NoOne => life'[endpoint'] \in {"open", "closed"}
    BY <1>1, Zenon DEF UsedAreOpen, ContextTypeOK
  <1> QED
    BY <1>2, <1>3, <1>4, Zenon DEF UsedAreOpen

\* Nobody changes, and no address is bound anew.
LEMMA KeepsUses ==
    ASSUME UsedAreOpen, UNCHANGED <<life, calls, tpair>>, endpoint' \in {endpoint, NoOne},
           tpc' \in {"bind", "connect_pending", "close"} =>
               tpc \in {"bind", "connect_pending", "close"}
    PROVE  UsedAreOpen'
  BY Zenon DEF UsedAreOpen

\* Steps of a socket.
LEMMA SocketUses ==
    ASSUME ContextTypeOK, UsedAreOpen, NEW s \in Sockets, Socket(s)
    PROVE  UsedAreOpen'
  <1>0. tpc \in {"bind", "connect_pending", "close"} =>
           tpair \in Pairs /\ tpair \in Sockets /\ tpair \notin Apps /\ life[tpair] = "open"
    BY ContextAssumption, Zenon DEF ContextTypeOK, UsedAreOpen, Sockets
  <1>1. CASE CreateApp(s)
    <2>1. /\ life' = [life EXCEPT ![s] = "open"] /\ life[s] = "none"
          /\ UNCHANGED <<calls, endpoint, tpc, tpair>>
      BY <1>1, Zenon DEF CreateApp, Create, termVars
    <2>2. calls[s] = "none"
      BY <2>1, Zenon DEF UsedAreOpen
    <2>3. tpc \in {"bind", "connect_pending", "close"} => tpair # s
      BY <1>0, <2>1, Zenon
    <2> QED
      BY <2>1, <2>2, <2>3, LifeUses, Zenon
  <1>2. CASE ConnectStart(s) \/ BindStart(s)
    <2>1. PICK x \in {"find", "register"} : calls' = [calls EXCEPT ![s] = x]
      BY <1>2, Zenon DEF ConnectStart, BindStart, Enter
    <2>2. s \in Apps /\ life[s] = "open" /\ UNCHANGED <<life, endpoint, tpc, tpair>>
      BY <1>2, Zenon DEF ConnectStart, BindStart, MayCall, Enter, ctxVars, termVars
    <2> QED
      BY <2>1, <2>2, CallUses, Zenon
  <1>3. CASE ConnectFind(s) \/ ConnectBind(s) \/ ConnectPend(s) \/ BindRegister(s) \/ BindPending(s)
    <2>1. calls[s] # "none" /\ UNCHANGED <<life, tpc, tpair>> /\ endpoint' \in {endpoint, s}
      BY <1>3, Zenon DEF ConnectFind, ConnectBind, ConnectPend, BindRegister, Register,
         BindPending, ctxVars, termVars
    <2>2. s \in Apps /\ life[s] = "open"
      BY <2>1, Zenon DEF UsedAreOpen
    <2>3. PICK x : calls' = [calls EXCEPT ![s] = x]
      BY <1>3, Zenon DEF ConnectFind, ConnectBind, ConnectPend, BindRegister, BindPending
    <2> QED
      BY <2>1, <2>2, <2>3, CallUses, Zenon
  <1>4. CASE TermEndpoint(s) \/ Process(s)
    <2>1. UNCHANGED <<life, calls, tpc, tpair>> /\ endpoint' \in {endpoint, NoOne}
      BY <1>4, Zenon DEF TermEndpoint, Process, ctxVars, socketVars, termVars
    <2> QED
      BY <2>1, KeepsUses, Zenon
  <1>5. CASE CloseApp(s)
    <2>1. /\ life' = [life EXCEPT ![s] = "closed"] /\ calls[s] = "none" /\ s \in Apps
          /\ UNCHANGED <<calls, endpoint, tpc, tpair>>
      BY <1>5, Zenon DEF CloseApp, Close, ctxVars, termVars
    <2>2. tpc \in {"bind", "connect_pending", "close"} => tpair # s
      BY <1>0, <2>1, Zenon
    <2> QED
      BY <2>1, <2>2, LifeUses, Zenon
  <1>6. CASE Delete(s)
    <2>1. /\ life' = [life EXCEPT ![s] = "deleted"] /\ life[s] = "reaping"
          /\ UNCHANGED <<calls, endpoint, tpc, tpair>>
      BY <1>6, Zenon DEF Delete, CanDelete, termVars
    <2>2. calls[s] = "none" /\ endpoint # s
      BY <2>1, ContextAssumption, Zenon DEF UsedAreOpen
    <2>3. tpc \in {"bind", "connect_pending", "close"} => tpair # s
      BY <1>0, <2>1, Zenon
    <2> QED
      BY <2>1, <2>2, <2>3, LifeUses, Zenon
  <1> QED
    BY <1>1, <1>2, <1>3, <1>4, <1>5, <1>6, Zenon DEF Socket

\* Steps of the other threads: the reaper unbinds a socket before it may go.
LEMMA ThreadUses ==
    ASSUME CardFacts, Parts, UsedAreOpen, Reaper \/ Shutdown \/ Terminate
    PROVE  UsedAreOpen'
  <1>0. /\ ContextTypeOK
        /\ tpc \in {"bind", "connect_pending", "close"} =>
              tpair \in Pairs /\ tpair \in Sockets /\ tpair \notin Apps /\ life[tpair] = "open"
    BY ContextAssumption, Zenon DEF Parts, ContextTypeOK, UsedAreOpen, Sockets
  <1>1. CASE Reaper
    <2>1. UNCHANGED <<calls, tpc, tpair>> /\ reaper_mailbox # <<>>
      BY <1>1, Zenon DEF Reaper, termVars
    <2>2. CASE ReaperReap
      <3> DEFINE x == Head(reaper_mailbox).arg
      <3>1. x \in Sockets /\ life[x] = "closed"
        BY <2>1, <2>2, MailTail, Zenon DEF ReaperReap, Parts
      <3>2. /\ life' = [life EXCEPT ![x] = "reaping"]
            /\ endpoint' = IF endpoint = x THEN NoOne ELSE endpoint
        BY <2>2, Zenon DEF ReaperReap, Unregistered
      <3> HIDE DEF x
      <3>3. calls[x] = "none" /\ endpoint' # x /\ endpoint' \in {endpoint, NoOne}
        BY <3>1, <3>2, ContextAssumption, Zenon DEF UsedAreOpen
      <3>4. tpc \in {"bind", "connect_pending", "close"} => tpair # x
        BY <1>0, <3>1, Zenon
      <3> QED
        BY <1>0, <2>1, <3>1, <3>2, <3>3, <3>4, LifeUses, Zenon
    <2>3. CASE ~ReaperReap
      <3>1. UNCHANGED <<life, endpoint>>
        BY <1>1, <2>3, Zenon DEF Reaper, ReaperStop, ReaperReaped
      <3> QED
        BY <2>1, <3>1, KeepsUses, Zenon
    <2> QED
      BY <2>2, <2>3, Zenon
  <1>2. CASE Shutdown \/ TermStart \/ TermPending \/ TermStop \/ TermDone \/ TermInterrupted
    <2>1. UNCHANGED <<life, calls, endpoint, tpair>>
      BY <1>2, Zenon DEF Shutdown, TermStart, TermPending, TermStop, TermDone,
         TermInterrupted, ctxVars, socketVars, termVars
    <2>2. tpc' \in {"bind", "connect_pending", "close"} =>
             tpc \in {"bind", "connect_pending", "close"}
      BY <1>2, Zenon DEF Shutdown, TermStart, TermPending, TermStop, TermDone,
         TermInterrupted, termVars
    <2> QED
      BY <2>1, <2>2, KeepsUses, Zenon
  <1>3. CASE TermCreate
    <2>1. CASE CanCreate
      <3>1. PICK p \in Pairs : life[p] = "none"
        BY <1>3, <2>1, Zenon DEF TermCreate
      <3>2. tpair' \in Pairs /\ life[tpair'] = "none" /\ Create(tpair')
        BY <1>3, <2>1, <3>1, Zenon DEF TermCreate
      <3>3. /\ life' = [life EXCEPT ![tpair'] = "open"] /\ UNCHANGED <<calls, endpoint>>
            /\ tpair' \in Sockets
        BY <3>2, Zenon DEF Create, Sockets
      <3>4. life'[tpair'] = "open" /\ \A u \in Sockets : u # tpair' => life'[u] = life[u]
        BY <1>0, <3>3, Zenon DEF ContextTypeOK
      <3> QED
        BY <1>0, <3>2, <3>3, <3>4, Zenon DEF UsedAreOpen, ContextTypeOK
    <2>2. CASE ~CanCreate
      <3>1. UNCHANGED <<life, calls, endpoint, tpair>> /\ tpc' = "crashed"
        BY <1>3, <2>2, Zenon DEF TermCreate, ctxVars, socketVars
      <3> QED
        BY <3>1, KeepsUses, Zenon
    <2> QED
      BY <2>1, <2>2, Zenon
  <1>4. CASE TermBind
    <2>1. /\ UNCHANGED <<life, calls, tpair>> /\ endpoint' \in {endpoint, tpair}
          /\ tpc = "bind"
      BY <1>4, Zenon DEF TermBind, Register
    <2> QED
      BY <1>0, <2>1, Zenon DEF UsedAreOpen
  <1>5. CASE TermClose
    <2>1. /\ life' = [life EXCEPT ![tpair] = "closed"] /\ calls[tpair] = "none"
          /\ tpc' = "pairs" /\ UNCHANGED <<calls, endpoint>> /\ tpair \in Sockets
      BY <1>0, <1>5, Zenon DEF TermClose, Close, ctxVars
    <2> QED
      BY <1>0, <2>1, LifeUses, Zenon
  <1> QED
    BY <1>1, <1>2, <1>3, <1>4, <1>5, Zenon DEF Terminate

---------------------------------------------------------------------------
(* Who is unknown to the others.                                           *)

\* No command is counted.
LEMMA StillUnknown ==
    ASSUME NewAreUnknown, UNCHANGED <<sent_seqnum, processed_seqnum, tpair>>,
           tpc' = "bind" => tpc = "bind" /\ endpoint' # tpair,
           \A s \in Sockets : life'[s] \in {"none", "deleted"} =>
               life[s] \in {"none", "deleted"} \/ sent_seqnum[s] = processed_seqnum[s]
    PROVE  NewAreUnknown'
  BY Zenon DEF NewAreUnknown

\* Commands are counted of a socket that is known, or as many as are processed.
LEMMA KnownCounts ==
    ASSUME NewAreUnknown, ContextTypeOK, NEW s \in Sockets, life[s] \notin {"none", "deleted"},
           \A u \in Sockets : u # s => /\ sent_seqnum'[u] = sent_seqnum[u]
                                       /\ processed_seqnum'[u] = processed_seqnum[u],
           tpc = "bind" /\ tpair = s => sent_seqnum'[s] = processed_seqnum'[s],
           UNCHANGED <<life, endpoint, tpair>>, tpc' = "bind" => tpc = "bind"
    PROVE  NewAreUnknown'
  <1>1. tpc = "bind" => tpair \in Sockets
    BY Zenon DEF ContextTypeOK, Sockets
  <1> QED
    BY <1>1, Zenon DEF NewAreUnknown

\* Steps of a socket: only bound sockets and those in a call are sent commands.
LEMMA SocketUnknown ==
    ASSUME CardFacts, ContextTypeOK, Sums, UsedAreOpen, NewAreUnknown, NEW s \in Sockets, Socket(s)
    PROVE  NewAreUnknown'
  <1>0. tpc = "bind" => /\ tpair \in Sockets /\ tpair \notin Apps /\ tpair # NoOne
                        /\ endpoint # tpair
    BY ContextAssumption, Zenon DEF ContextTypeOK, NewAreUnknown, Sockets
  <1>1. /\ sent_seqnum \in [Sockets -> Nat] /\ processed_seqnum \in [Sockets -> Nat]
        /\ calls[s] # "none" => s \in Apps /\ life[s] = "open"
        /\ endpoint # NoOne => endpoint \in Sockets /\ life[endpoint] \notin {"none", "deleted"}
    BY Zenon DEF Sums, Typed, UsedAreOpen, ContextTypeOK
  <1>2. CASE CreateApp(s) \/ CloseApp(s) \/ Delete(s)
    <2>1. UNCHANGED <<sent_seqnum, processed_seqnum, tpair, tpc, endpoint>>
      BY <1>2, Zenon DEF CreateApp, Create, CloseApp, Delete, ctxVars, termVars
    <2>2. PICK l : life' = [life EXCEPT ![s] = l]
      BY <1>2, Zenon DEF CreateApp, Create, CloseApp, Close, Delete
    <2>3. life'[s] = "deleted" => sent_seqnum[s] = processed_seqnum[s]
      BY <1>2, Zenon DEF CreateApp, Create, CloseApp, Close, Delete, CanDelete, ContextTypeOK
    <2>4. life'[s] = "none" => sent_seqnum[s] = processed_seqnum[s]
      BY <1>2, Zenon DEF CreateApp, Create, CloseApp, Close, Delete, CanDelete, ContextTypeOK
    <2>5. \A u \in Sockets : u # s => life'[u] = life[u]
      BY <2>2, Zenon DEF ContextTypeOK
    <2> QED
      BY <1>0, <2>1, <2>3, <2>4, <2>5, StillUnknown, Zenon
  <1>3. CASE ConnectStart(s) \/ BindStart(s) \/ ConnectBind(s) \/ BindRegister(s) \/ TermEndpoint(s)
    <2>1. UNCHANGED <<sent_seqnum, processed_seqnum, tpair, tpc, life>>
      BY <1>3, Zenon DEF ConnectStart, BindStart, Enter, ConnectBind, BindRegister,
         TermEndpoint, socketVars, termVars
    <2>2. endpoint' \in {endpoint, NoOne} \/ (endpoint' = s /\ s \in Apps)
      BY <1>1, <1>3, Zenon DEF ConnectStart, BindStart, Enter, ConnectBind, BindRegister, Register,
         TermEndpoint, ctxVars
    <2> QED
      BY <1>0, <2>1, <2>2, StillUnknown, Zenon
  <1>4. CASE ConnectFind(s)
    <2>1. UNCHANGED <<processed_seqnum, tpair, tpc, life, endpoint>>
      BY <1>4, Zenon DEF ConnectFind, ctxVars, termVars
    <2>2. CASE endpoint = NoOne
      <3>1. sent_seqnum' = sent_seqnum
        BY <1>4, <2>2, Zenon DEF ConnectFind
      <3> QED
        BY <1>0, <2>1, <3>1, StillUnknown, Zenon
    <2>3. CASE endpoint # NoOne
      <3>1. sent_seqnum' = [sent_seqnum EXCEPT ![endpoint] = @ + 1]
        BY <1>4, <2>3, Zenon DEF ConnectFind, IncSeqnum
      <3>2. \A u \in Sockets : u # endpoint => sent_seqnum'[u] = sent_seqnum[u]
        BY <1>1, <3>1, Zenon
      <3> QED
        BY <1>0, <1>1, <2>1, <2>3, <3>2, KnownCounts, Zenon
    <2> QED
      BY <2>2, <2>3, Zenon
  <1>5. CASE ConnectPend(s)
    <2>1. UNCHANGED <<processed_seqnum, tpair, tpc, life, endpoint>> /\ calls[s] # "none"
      BY <1>5, Zenon DEF ConnectPend, termVars
    <2>2. PICK t \in Sockets : /\ sent_seqnum' = [sent_seqnum EXCEPT ![t] = @ + 1]
                               /\ life[t] \notin {"none", "deleted"}
                               /\ t = endpoint \/ t \in Apps
      BY <1>1, <1>5, <2>1, Zenon DEF ConnectPend, BoundMeanwhile, IncSeqnum
    <2>3. \A u \in Sockets : u # t => sent_seqnum'[u] = sent_seqnum[u]
      BY <1>1, <2>2, Zenon
    <2> QED
      BY <1>0, <2>1, <2>2, <2>3, KnownCounts, Zenon
  <1>6. CASE BindPending(s)
    <2>1. UNCHANGED <<tpair, tpc, life, endpoint>> /\ calls[s] # "none"
      BY <1>6, Zenon DEF BindPending, termVars
    <2>2. \A u \in Sockets : u # s => /\ sent_seqnum'[u] = sent_seqnum[u]
                                      /\ processed_seqnum'[u] = processed_seqnum[u]
      BY <1>1, <1>6, Zenon DEF BindPending, ConnectPending
    <2> QED
      BY <1>0, <1>1, <2>1, <2>2, KnownCounts, Zenon
  <1>7. CASE Process(s)
    <2>1. /\ UNCHANGED <<sent_seqnum, tpair, tpc, life, endpoint>>
          /\ life[s] \in {"open", "reaping"}
          /\ processed_seqnum' = [processed_seqnum EXCEPT ![s] = @ + Counted(mailbox[s])]
      BY <1>7, Zenon DEF Process, InThread, ctxVars, termVars
    <2>2. \A u \in Sockets : u # s => processed_seqnum'[u] = processed_seqnum[u]
      BY <1>1, <2>1, Zenon
    <2>3. ASSUME tpc = "bind", tpair = s PROVE sent_seqnum'[s] = processed_seqnum'[s]
      <3>1. sent_seqnum[s] = processed_seqnum[s]
        BY <2>3, Zenon DEF NewAreUnknown
      <3>2. Counted(mailbox[s]) = 0
        BY <3>1, BindNothing, Zenon
      <3>3. processed_seqnum'[s] = processed_seqnum[s] + 0
        BY <1>1, <2>1, <3>2, Zenon
      <3>4. processed_seqnum[s] + 0 = processed_seqnum[s]
        BY <1>1
      <3> QED
        BY <2>1, <3>1, <3>3, <3>4, Zenon
    <2> QED
      BY <2>1, <2>2, <2>3, KnownCounts, Zenon
  <1> QED
    BY <1>2, <1>3, <1>4, <1>5, <1>6, <1>7, Zenon DEF Socket

\* Steps of the other threads: a PAIR socket that terminate () has just created
\* is unknown until it is bound.
LEMMA ThreadUnknown ==
    ASSUME ContextTypeOK, Sums, UsedAreOpen, NewAreUnknown, MailOK(reaper_mailbox, life),
           Reaper \/ Shutdown \/ Terminate
    PROVE  NewAreUnknown'
  <1>0. /\ tpc = "bind" => tpair # NoOne /\ endpoint # tpair
        /\ tpc \in {"bind", "connect_pending", "close"} => tpair \in Sockets /\ life[tpair] = "open"
    BY ContextAssumption, Zenon DEF ContextTypeOK, NewAreUnknown, UsedAreOpen, Sockets
  <1>1. CASE Reaper
    <2>1. UNCHANGED <<sent_seqnum, processed_seqnum, tpair, tpc>> /\ reaper_mailbox # <<>>
      BY <1>1, Zenon DEF Reaper, termVars
    <2>2. endpoint' \in {endpoint, NoOne}
      BY <1>1, Zenon DEF Reaper, ReaperReap, Unregistered, ReaperStop, ReaperReaped
    <2>3. \A u \in Sockets : life'[u] = life[u] \/ life'[u] = "reaping"
      BY <1>1, Zenon DEF Reaper, ReaperReap, ReaperStop, ReaperReaped, ContextTypeOK
    <2> QED
      BY <1>0, <2>1, <2>2, <2>3, StillUnknown, Zenon
  <1>2. CASE TermCreate
    <2>1. CASE CanCreate
      <3>1. PICK p \in Pairs : life[p] = "none"
        BY <1>2, <2>1, Zenon DEF TermCreate
      <3>2. tpair' \in Pairs /\ life[tpair'] = "none" /\ Create(tpair')
        BY <1>2, <2>1, <3>1, Zenon DEF TermCreate
      <3>3. /\ life' = [life EXCEPT ![tpair'] = "open"]
            /\ UNCHANGED <<sent_seqnum, processed_seqnum, endpoint>>
            /\ tpair' \in Sockets /\ tpair' # NoOne
        BY <3>2, ContextAssumption, Zenon DEF Create, Sockets
      <3>4. \A u \in Sockets : life'[u] \in {"none", "deleted"} => life[u] \in {"none", "deleted"}
        BY <3>3, Zenon DEF ContextTypeOK
      <3>5. endpoint # tpair'
        BY <3>2, <3>3, Zenon DEF UsedAreOpen
      <3> QED
        BY <3>2, <3>3, <3>4, <3>5, Zenon DEF NewAreUnknown
    <2>2. CASE ~CanCreate
      <3>1. /\ UNCHANGED <<life, sent_seqnum, processed_seqnum, endpoint, tpair>>
            /\ tpc' = "crashed"
        BY <1>2, <2>2, Zenon DEF TermCreate, ctxVars, socketVars
      <3> QED
        BY <3>1, StillUnknown, Zenon
    <2> QED
      BY <2>1, <2>2, Zenon
  <1>3. CASE TermPending
    <2>1. /\ UNCHANGED <<life, endpoint, tpair>> /\ tpc # "bind" /\ tpc' # "bind"
          /\ tpair \in Sockets /\ life[tpair] = "open"
      BY <1>0, <1>3, Zenon DEF TermPending
    <2>2. \A u \in Sockets : u # tpair => /\ sent_seqnum'[u] = sent_seqnum[u]
                                          /\ processed_seqnum'[u] = processed_seqnum[u]
      BY <1>3, Zenon DEF TermPending, ConnectPending, Sums, Typed
    <2> QED
      BY <2>1, <2>2, KnownCounts, Zenon
  <1>4. CASE TermClose
    <2>1. /\ UNCHANGED <<sent_seqnum, processed_seqnum, endpoint, tpair>> /\ tpc' = "pairs"
          /\ \A u \in Sockets : life'[u] = life[u] \/ life'[u] = "closed"
      BY <1>4, Zenon DEF TermClose, Close, ctxVars, ContextTypeOK
    <2> QED
      BY <2>1, StillUnknown, Zenon
  <1>5. CASE Shutdown \/ TermStart \/ TermBind \/ TermStop \/ TermDone \/ TermInterrupted
    <2>1. UNCHANGED <<life, sent_seqnum, processed_seqnum, tpair>>
      BY <1>5, Zenon DEF Shutdown, TermStart, TermBind, TermStop, TermDone,
         TermInterrupted, socketVars, termVars
    <2>2. tpc' = "bind" => tpc = "bind" /\ endpoint' = endpoint
      BY <1>5, Zenon DEF Shutdown, TermStart, TermBind, TermStop, TermDone,
         TermInterrupted, termVars
    <2> QED
      BY <1>0, <2>1, <2>2, StillUnknown, Zenon
  <1> QED
    BY <1>1, <1>2, <1>3, <1>4, <1>5, Zenon DEF Terminate

---------------------------------------------------------------------------
(* A deleted socket is forgotten.                                          *)

CountsParts == Sums /\ UsedAreOpen /\ NewAreUnknown

\* The parts make up the invariant.
LEMMA InvCounts ==
    ASSUME CardFacts
    PROVE  CountsParts => CountsInv
  <1> SUFFICES ASSUME CountsParts PROVE CountsInv
    BY Zenon
  <1>1. CountsTypeOK
    BY Zenon DEF CountsParts, Sums, Typed, CountsTypeOK, SCmds, PipeRecs
  <1>2. CallsHavePipes
    BY Zenon DEF CountsParts, Sums, InCalls, HasPipe, LastOf, CallsHavePipes
  <1>3. ASSUME NEW s \in Sockets
        PROVE  sent_seqnum[s] = processed_seqnum[s] + Counted(mailbox[s]) + ToBeBound(s) + PendingOf(s)
    <2>1. /\ sent_seqnum[s] = processed_seqnum[s] + Counted(mailbox[s]) + Waits(s)
          /\ processed_seqnum[s] \in Nat /\ Counted(mailbox[s]) \in Nat
          /\ Cardinality(BindTo(pipe, Binding, s)) \in Nat
          /\ Cardinality(PendFrom(pipe, pending, s)) \in Nat
      BY CountedType, WaitsType, Zenon DEF CountsParts, Sums, Typed, Balance
    <2>2. /\ ToBeBound(s) = Cardinality(BindTo(pipe, Binding, s))
          /\ PendingOf(s) = Cardinality(PendFrom(pipe, pending, s))
      BY Zenon DEF ToBeBound, PendingOf, BindTo, PendFrom, PipeIn, PipeInCall
    <2>3. Waits(s) = ToBeBound(s) + PendingOf(s)
      BY <2>2, Zenon DEF Waits
    <2>4. /\ processed_seqnum[s] \in Nat /\ Counted(mailbox[s]) \in Nat
          /\ ToBeBound(s) \in Nat /\ PendingOf(s) \in Nat
      BY <2>1, <2>2, Zenon
    <2>5. processed_seqnum[s] + Counted(mailbox[s]) + (ToBeBound(s) + PendingOf(s)) =
            processed_seqnum[s] + Counted(mailbox[s]) + ToBeBound(s) + PendingOf(s)
      BY <2>4, SumParts
    <2>6. sent_seqnum[s] =
            processed_seqnum[s] + Counted(mailbox[s]) + (ToBeBound(s) + PendingOf(s))
      BY <2>1, <2>3, Zenon
    <2> QED
      BY <2>5, <2>6, Zenon
  <1> QED
    BY <1>1, <1>2, <1>3, Zenon DEF CountsInv, Balanced, CountsParts

\* In the beginning there is nothing to count.
LEMMA CountsInit ==
    ASSUME CardFacts
    PROVE  Init => CountsParts
  <1> SUFFICES ASSUME Init PROVE CountsParts
    BY Zenon
  <1>1. /\ life = [s \in Sockets |-> "none"] /\ calls = [s \in Sockets |-> "none"]
        /\ mailbox = [s \in Sockets |-> <<>>] /\ pipe = <<>> /\ pending = {}
        /\ sent_seqnum = [s \in Sockets |-> 0] /\ processed_seqnum = [s \in Sockets |-> 0]
        /\ endpoint = NoOne /\ tpc = "idle"
    BY Zenon DEF Init
  <1>2. Binding = {}
    BY <1>1, Zenon DEF Binding, Sockets
  <1>3. Cardinality({}) = 0 /\ IsFiniteSet({})
    BY CardEmpty, Zenon
  <1>4. Typed
    BY <1>1, <1>2, <1>3 DEF Typed
  <1>5. InCalls
    BY <1>1, Zenon DEF InCalls
  <1>6. Balance
    <2> SUFFICES ASSUME NEW s \in Sockets
                 PROVE  sent_seqnum[s] = processed_seqnum[s] + Counted(mailbox[s]) + Waits(s)
      BY Zenon DEF Balance
    <2>1. BindTo(pipe, Binding, s) = {} /\ PendFrom(pipe, pending, s) = {}
      BY <1>1, <1>2, Zenon DEF BindTo, PendFrom
    <2>2. Waits(s) = 0
      BY <1>3, <2>1 DEF Waits
    <2>3. Counted(mailbox[s]) = 0
      BY <1>1, CountedEmpty, Zenon
    <2> QED
      BY <1>1, <2>2, <2>3
  <1>7. UsedAreOpen /\ NewAreUnknown
    BY <1>1, Zenon DEF UsedAreOpen, NewAreUnknown
  <1> QED
    BY <1>4, <1>5, <1>6, <1>7, Zenon DEF CountsParts, Sums

\* Every step.
LEMMA CountsStep ==
    ASSUME CardFacts
    PROVE  Parts /\ CountsParts /\ [Next]_vars => CountsParts'
  <1> SUFFICES ASSUME Parts, CountsParts, [Next]_vars PROVE CountsParts'
    BY Zenon
  <1>0. ContextTypeOK /\ MailOK(reaper_mailbox, life) /\ Sums /\ UsedAreOpen /\ NewAreUnknown
    BY Zenon DEF Parts, CountsParts
  <1>1. ASSUME NEW s \in Sockets, Socket(s) PROVE CountsParts'
    <2>1. Sums'
      BY <1>0, <1>1, SocketSums, Zenon
    <2>2. UsedAreOpen'
      BY <1>0, <1>1, SocketUses, Zenon
    <2>3. NewAreUnknown'
      BY <1>0, <1>1, SocketUnknown, Zenon
    <2> QED
      BY <2>1, <2>2, <2>3, Zenon DEF CountsParts
  <1>2. CASE Reaper \/ Shutdown \/ Terminate
    <2>1. Sums'
      BY <1>0, <1>2, ReaperSums, TerminateSums, Zenon
    <2>2. UsedAreOpen'
      BY <1>0, <1>2, ThreadUses, Zenon
    <2>3. NewAreUnknown'
      BY <1>0, <1>2, ThreadUnknown, Zenon
    <2> QED
      BY <2>1, <2>2, <2>3, Zenon DEF CountsParts
  <1>3. ASSUME UNCHANGED <<life, calls, endpoint, sent_seqnum, processed_seqnum, tpc, tpair>>
        PROVE  UsedAreOpen' /\ NewAreUnknown'
    BY <1>0, <1>3, Zenon DEF UsedAreOpen, NewAreUnknown
  <1>4. ASSUME NEW n \in DOMAIN pipe, PipeTerminated(n) PROVE CountsParts'
    <2>1. Sums'
      BY <1>0, <1>4, ReaperSums, Zenon
    <2>2. UsedAreOpen' /\ NewAreUnknown'
      BY <1>3, <1>4, Zenon DEF PipeTerminated, ctxVars, socketVars, termVars
    <2> QED
      BY <2>1, <2>2, Zenon DEF CountsParts
  <1>5. CASE UNCHANGED vars
    <2>1. UNCHANGED <<calls, mailbox, sent_seqnum, processed_seqnum, pipe, pending>>
      BY <1>5, Zenon DEF vars, ctxVars, socketVars
    <2>2. Binding' = Binding
      BY <2>1, Zenon DEF Binding
    <2>3. Sums'
      BY <1>0, <2>1, <2>2, KeepsSums, Zenon
    <2>4. UsedAreOpen' /\ NewAreUnknown'
      BY <1>3, <1>5, Zenon DEF vars, ctxVars, socketVars, termVars
    <2> QED
      BY <2>3, <2>4, Zenon DEF CountsParts
  <1> QED
    BY <1>1, <1>2, <1>4, <1>5, Zenon DEF Next

---------------------------------------------------------------------------
(* The facts about finite sets, from the library.                          *)

FS == INSTANCE FiniteSetTheorems

\* The library means the same by a finite set and its number of elements.
LEMMA SameFinite == ASSUME NEW S PROVE IsFiniteSet(S) <=> FS!IsFiniteSet(S)
  BY Zenon DEF IsFiniteSet, FS!IsFiniteSet
LEMMA SameCardinality == ASSUME NEW S PROVE Cardinality(S) = FS!Cardinality(S)
  BY Zenon DEF Cardinality, FS!Cardinality

\* So what the lemmas assume is true.
LEMMA CardFactsHold == CardFacts
  <1>1. TypeFact
    BY FS!FS_CardinalityType, SameFinite, SameCardinality, Zenon DEF TypeFact
  <1>2. EmptyFact
    BY FS!FS_EmptySet, SameFinite, SameCardinality, Zenon DEF EmptyFact
  <1>3. SingletonFact
    BY FS!FS_Singleton, SameFinite, SameCardinality, Zenon DEF SingletonFact
  <1>4. AddFact
    BY FS!FS_AddElement, SameFinite, SameCardinality, Zenon DEF AddFact
  <1>5. RemoveFact
    BY FS!FS_RemoveElement, SameFinite, SameCardinality, Zenon DEF RemoveFact
  <1>6. SubsetFact
    BY FS!FS_Subset, SameFinite, Zenon DEF SubsetFact
  <1>7. IntervalFact
    BY FS!FS_Interval, SameFinite, SameCardinality, Zenon DEF IntervalFact
  <1>8. UnionFact
    BY FS!FS_Union, SameFinite, SameCardinality, Zenon DEF UnionFact
  <1>9. DifferenceFact
    BY FS!FS_Difference, SameFinite, SameCardinality, Zenon DEF DifferenceFact
  <1>10. ProductFact
    BY FS!FS_Product, SameFinite, SameCardinality, Zenon DEF ProductFact
  <1>11. BijectionFact
    <2> SUFFICES ASSUME NEW S, NEW T, NEW f, IsFiniteSet(S), OneToOne(f, S, T)
                 PROVE  Cardinality(T) = Cardinality(S)
      BY Zenon DEF BijectionFact
    <2>1. FS!ExistsBijection(S, T)
      BY Zenon DEF OneToOne, FS!ExistsBijection, FS!Bijection, FS!Injection, FS!Surjection,
         FS!IsInjective
    <2> QED
      BY <2>1, FS!FS_Bijection, SameFinite, SameCardinality, Zenon
  <1> QED
    BY <1>1, <1>2, <1>3, <1>4, <1>5, <1>6, <1>7, <1>8, <1>9, <1>10, <1>11, Zenon DEF CardFacts

---------------------------------------------------------------------------
(* Theorems                                                                *)

\* The invariant of the context, the reaper and terminate () holds whatever
\* the sockets are and the application does.
THEOREM ContextInvHolds == Spec => []ContextInv
  <1>1. Init => ContextInv
    BY CardFactsHold, ContextInit, InvParts, Zenon
  <1>2. ContextInv /\ [Next]_vars => ContextInv'
    <2>1. Parts' => ContextInv'
      BY Zenon DEF ContextInv, Parts, ContextTypeOK, Listed, CountsReaping, Stops, ReapsClosed,
             StopsOnce, MailOK, Counts, Cmds
    <2> QED
      BY <2>1, CardFactsHold, ContextStep, InvParts, Zenon
  <1> QED
    BY <1>1, <1>2, PTL DEF Spec

\* zmq_ctx_term () returns once, when every socket is gone and the reaper has
\* nothing left to do: ctx_t::terminate () may delete the context.
THEOREM TerminatesWhenDone == Spec => []DoneMeansDone
  <1>1. ContextInv => DoneMeansDone
    BY CardFactsHold, InvParts, PartsDone, Zenon
  <1> QED
    BY <1>1, ContextInvHolds, PTL

\* However connect (), bind (), unbind (), close () and terminate () interleave,
\* no connection is left waiting for an address that is bound.
THEOREM NobodyWaitsForBound == Spec => []NoneWaitsForBound
  <1>1. Init => NoneWaitsForBound
    BY CardFactsHold, ContextInit, Zenon
  <1>2. ContextInv /\ NoneWaitsForBound /\ [Next]_vars => NoneWaitsForBound'
    BY CardFactsHold, WaitsStep, InvParts, Zenon
  <1> QED
    BY <1>1, <1>2, ContextInvHolds, PTL DEF Spec

\* The counters of every socket balance.
LEMMA CountsHold == Spec => []CountsParts
  <1>1. ContextInv /\ CountsParts /\ [Next]_vars => CountsParts'
    BY CardFactsHold, CountsStep, InvParts, Zenon
  <1>2. Init => CountsParts
    BY CardFactsHold, CountsInit, Zenon
  <1> QED
    BY <1>1, <1>2, ContextInvHolds, PTL DEF Spec

\* A socket is ahead of the commands it has processed by exactly those that are
\* on their way, will be sent or wait for a bind; a deleted socket is in none of
\* them, so inc_seqnum () in ctx.cpp does keep the peer from being deallocated.
THEOREM DeletedAreForgotten == Spec => []DeletedIsForgotten
  <1>1. CountsParts => DeletedIsForgotten
    <2> SUFFICES ASSUME CountsParts, NEW s \in Sockets
                 PROVE  /\ sent_seqnum[s] - processed_seqnum[s] =
                              Counted(mailbox[s]) + ToBeBound(s) + PendingOf(s)
                        /\ life[s] = "deleted" => /\ sent_seqnum[s] = processed_seqnum[s]
                                                  /\ endpoint # s
      BY Zenon DEF DeletedIsForgotten
    <2>1. sent_seqnum[s] = processed_seqnum[s] + Counted(mailbox[s]) + ToBeBound(s) + PendingOf(s)
      BY CardFactsHold, InvCounts, Zenon DEF CountsInv, Balanced
    <2>2. /\ processed_seqnum[s] \in Nat /\ Counted(mailbox[s]) \in Nat
          /\ Cardinality(BindTo(pipe, Binding, s)) \in Nat
          /\ Cardinality(PendFrom(pipe, pending, s)) \in Nat
      BY CardFactsHold, CountedType, WaitsType, Zenon DEF CountsParts, Sums, Typed
    <2>3. /\ ToBeBound(s) = Cardinality(BindTo(pipe, Binding, s))
          /\ PendingOf(s) = Cardinality(PendFrom(pipe, pending, s))
      BY Zenon DEF ToBeBound, PendingOf, BindTo, PendFrom, PipeIn, PipeInCall
    <2>4. life[s] = "deleted" => sent_seqnum[s] = processed_seqnum[s] /\ endpoint # s
      BY ContextAssumption, Zenon DEF CountsParts, NewAreUnknown, UsedAreOpen
    <2> QED
      <3>1. /\ processed_seqnum[s] \in Nat /\ Counted(mailbox[s]) \in Nat
            /\ ToBeBound(s) \in Nat /\ PendingOf(s) \in Nat
        BY <2>2, <2>3, Zenon
      <3>2. (processed_seqnum[s] + Counted(mailbox[s]) + ToBeBound(s) + PendingOf(s))
              - processed_seqnum[s] = Counted(mailbox[s]) + ToBeBound(s) + PendingOf(s)
        BY <3>1, SumParts
      <3>3. sent_seqnum[s] - processed_seqnum[s] =
              (processed_seqnum[s] + Counted(mailbox[s]) + ToBeBound(s) + PendingOf(s))
                - processed_seqnum[s]
        BY <2>1, Zenon
      <3> QED
        BY <2>4, <3>2, <3>3, Zenon
  <1> QED
    BY <1>1, CountsHold, PTL

\* The invariant of the counters, which this follows from, holds.
THEOREM CountsInvHolds == Spec => []CountsInv
  <1>1. CountsParts => CountsInv
    BY CardFactsHold, InvCounts, Zenon
  <1> QED
    BY <1>1, CountsHold, PTL
=============================================================================
