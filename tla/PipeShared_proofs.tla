------------------------- MODULE PipeShared_proofs -------------------------
(* The two ends of a pipe share their ypipes safely: the steps of the      *)
(* protocol, and what follows from the invariant.                          *)
EXTENDS Pipe_proofs

\* What commands bring are numbers of ypipes.
LEMMA BroughtNumbers ==
  ASSUME NEW q \in Seq(Commands), NEW r \in Brought(q)
  PROVE  r \in Nat
<1>1. PICK i \in 1 .. Len(q) : r = q[i].arg
  BY Zenon DEF Brought
<1>2. q[i] \in Commands
  OBVIOUS
<1> QED
  BY <1>1, <1>2, Zenon DEF Commands

\* hiccup ()
LEMMA HiccupStep ==
  ASSUME SharedInv, NEW e \in Ends, Hiccup(e), UNCHANGED setup
  PROVE  SharedInv'
<1> DEFINE p == Peer(e)
           n == Len(ypipes) + 1
           c == HiccupTo(n)
           q == mailbox[p]
<1>0. p \in Ends /\ p # e /\ Peer(p) = e /\ \A x \in Ends : x = e \/ x = p
  BY TwoEnds, Zenon
<1>1. PlainTypeOK /\ ProtocolTypeOK
  BY Types, Zenon DEF SharedInv
<1>2. state[e] = "active"
  BY Zenon DEF Hiccup
<1>3. PlainTypeOK'
  <2>1. in_active' \in [Ends -> BOOLEAN]
    BY <1>1, Zenon DEF Hiccup, PlainTypeOK
  <2> QED
    BY <1>1, <2>1, Zenon DEF Hiccup, PlainTypeOK, owners
<1>4. /\ AllYPipes(ypipes') /\ Len(ypipes') = n /\ n \in Nat /\ n > 0
      /\ ypipes'[n].exists
      /\ \A i \in 1 .. Len(ypipes) : ypipes'[i] = ypipes[i]
  <2>1. IsAdded(ypipes', ypipes, NewYPipe) /\ AllYPipes(ypipes) /\ IsYPipe(NewYPipe)
    BY <1>1, NewYPipes, Zenon DEF Hiccup, IsAdded, ProtocolTypeOK
  <2>2. /\ AllYPipes(ypipes') /\ Len(ypipes') = n /\ ypipes'[n] = NewYPipe
        /\ \A i \in 1 .. Len(ypipes) : ypipes'[i] = ypipes[i]
    BY <2>1, AddedYPipe
  <2>3. ypipes \in Seq(YPipes)
    BY <2>1, Zenon DEF AllYPipes
  <2>4. Len(ypipes) \in Nat
    BY <2>3
  <2>5. ypipes'[n].exists
    BY <2>2, NewYPipes, Zenon
  <2> QED
    BY <2>2, <2>4, <2>5
<1>5. c \in Commands /\ c.type = "hiccup" /\ c.arg = n
  BY <1>4, Zenon DEF HiccupTo, Commands, CommandTypes
<1>6. q \in Seq(Commands) /\ mailbox \in [Ends -> Seq(Commands)]
  BY <1>0, <1>1, Zenon DEF ProtocolTypeOK
<1>7. q \o <<c>> = Append(q, c) /\ Append(q, c) \in Seq(Commands)
  BY <1>5, <1>6, Appended, Concatenated, Zenon
<1>8. /\ mailbox'[p] = Append(q, c) /\ mailbox'[e] = mailbox[e]
      /\ mailbox' \in [Ends -> Seq(Commands)]
  <2>1. mailbox' = [mailbox EXCEPT ![p] = q \o <<c>>]
    BY Zenon DEF Hiccup, Send
  <2> HIDE DEF c, q
  <2> QED
    BY <1>0, <1>6, <1>7, <2>1, Zenon
<1>9. /\ inpipe \in [Ends -> 0 .. Len(ypipes)] /\ outpipe \in [Ends -> 0 .. Len(ypipes)]
      /\ Len(ypipes) \in Nat
  BY <1>1, <1>4, Pointers, Zenon DEF ProtocolTypeOK
<1>10. /\ inpipe'[e] = n /\ inpipe'[p] = inpipe[p] /\ UNCHANGED <<outpipe, state>>
       /\ inpipe' \in [Ends -> 0 .. Len(ypipes')] /\ outpipe' \in [Ends -> 0 .. Len(ypipes')]
  <2>1. inpipe' = [inpipe EXCEPT ![e] = n] /\ UNCHANGED <<outpipe, state>>
    BY Zenon DEF Hiccup
  <2> QED
    BY <1>0, <1>4, <1>9, <2>1
<1>11. TypeOK'
  <2>1. ProtocolTypeOK'
    BY <1>1, <1>4, <1>8, <1>10, Zenon DEF ProtocolTypeOK
  <2> QED
    BY <1>3, <2>1, Types, Zenon
<1>12. \A r \in Brought(q) : outpipe[p] < r /\ r <= inpipe[e] /\ r \in Nat /\ r < n
  <2>1. \A r \in Brought(q) : outpipe[p] < r /\ r <= inpipe[e] /\ r \in Nat
    <3>1. \A r \in Brought(q) : outpipe[p] < r /\ r <= inpipe[e]
      BY BothEnds, Zenon
    <3>2. \A r \in Brought(q) : r \in Nat
      BY <1>6, BroughtNumbers, Zenon
    <3> QED
      BY <3>1, <3>2, Zenon
  <2>2. inpipe[e] \in 0 .. Len(ypipes)
    BY <1>9, Zenon
  <2> QED
    BY <1>9, <2>1, <2>2
<1>13. /\ <<state[e], state[p]>> \in Agreeing /\ <<state[p], state[e]>> \in Agreeing
       /\ state[p] \in Unasked /\ state[p] \notin Acked /\ state[e] \notin Acked
       /\ state[e] \notin Asked /\ state[e] \in Unasked
  <2>1. <<state[e], state[p]>> \in Agreeing /\ <<state[p], state[e]>> \in Agreeing
    BY BothEnds, Zenon
  <2> QED
    BY <1>2, <2>1, Zenon DEF Agreeing, States, Unasked, Acked, Asked
<1>14. /\ InSequence(q) /\ ~Has(q, "pipe_term_ack") /\ ~Has(q, "pipe_term")
  BY <1>13, BothEnds, Zenon
<1> HIDE DEF c, q, n
<1>15. /\ ~Has(mailbox'[p], "pipe_term_ack") /\ ~Has(mailbox'[p], "pipe_term")
       /\ Brought(mailbox'[p]) = Brought(q) \cup {n} /\ InSequence(mailbox'[p])
  <2>1. c.type # "pipe_term_ack" /\ c.type # "pipe_term"
    BY <1>5, Zenon
  <2>2. /\ ~Has(Append(q, c), "pipe_term_ack") /\ ~Has(Append(q, c), "pipe_term")
        /\ Brought(Append(q, c)) = Brought(q) \cup {n} /\ InSequence(Append(q, c))
    BY <1>5, <1>6, <1>12, <1>14, <2>1, Appended, Zenon
  <2> QED
    BY <1>8, <2>2, Zenon
<1>16. outpipe[p] # NULL /\ outpipe[p] \in 1 .. Len(ypipes) /\ inpipe[e] \in {outpipe[p]} \cup Brought(q)
  BY <1>0, <1>13, Pointers, BothEnds, Zenon DEF q
<1>17. KeptBy(e)'
  <2>1. Stream(e)' = Stream(e) /\ Stream(e) \subseteq 1 .. Len(ypipes)
    <3>1. \A r \in Brought(mailbox[e]) : r \in Nat /\ outpipe[e] < r /\ r <= inpipe[p]
      <4>1. mailbox[e] \in Seq(Commands)
        BY <1>6, Zenon
      <4>2. \A r \in Brought(mailbox[e]) : r \in Nat
        BY <4>1, BroughtNumbers, Zenon
      <4> QED
        BY <4>2, BothEnds, Zenon
    <3>2. Stream(e)' = Stream(e)
      BY <1>8, <1>10, Zenon DEF Stream, Replacements
    <3>3. /\ Stream(e) = ({outpipe[e], inpipe[p]} \cup Brought(mailbox[e])) \ {NULL}
          /\ outpipe[e] \in 0 .. Len(ypipes) /\ inpipe[p] \in 0 .. Len(ypipes)
      BY <1>0, <1>9, Zenon DEF Stream, Replacements
    <3> QED
      BY <1>9, <3>1, <3>2, <3>3 DEF NULL
  <2>2. Stream(p)' = Stream(p) \cup {n}
    <3>1. Stream(p) = ({outpipe[p], inpipe[e]} \cup Brought(q)) \ {NULL}
      BY <1>0, Zenon DEF Stream, Replacements, q
    <3>2. Stream(p)' = ({outpipe[p], n} \cup Brought(q) \cup {n}) \ {NULL}
      BY <1>0, <1>10, <1>15, Zenon DEF Stream, Replacements
    <3>3. n # NULL
      BY <1>4 DEF NULL
    <3> QED
      BY <1>16, <3>1, <3>2, <3>3, Zenon
  <2>3. KeptBy(e)
    BY BothEnds, Zenon
  <2>4. n = Len(ypipes) + 1
    BY Zenon DEF n
  <2>5. Stream(e)' \cap Stream(p)' = {}
    BY <1>9, <2>1, <2>2, <2>3, <2>4 DEF KeptBy
  <2>6. ASSUME NEW i \in 1 .. Len(ypipes')
        PROVE  ypipes'[i].exists <=> i \in Stream(e)' \cup Stream(p)'
    <3>1. CASE i = n
      BY <1>4, <2>2, <3>1, Zenon
    <3>2. CASE i \in 1 .. Len(ypipes)
      <4>1. i # n
        BY <1>9, <2>4, <3>2
      <4> QED
        BY <1>4, <2>1, <2>2, <2>3, <3>2, <4>1, Zenon DEF KeptBy
    <3> QED
      BY <1>4, <1>9, <2>4, <3>1, <3>2
  <2> QED
    BY <2>5, <2>6, Zenon DEF KeptBy
<1>18. \A x \in Ends : /\ outpipe'[x] = NULL <=> state'[x] \in Acked
                       /\ inpipe'[x] = NULL <=> state'[x] = "deleted"
                       /\ state'[x] = "deleted" => mailbox'[x] = <<>>
  <2>1. \A x \in Ends : /\ outpipe[x] = NULL <=> state[x] \in Acked
                        /\ inpipe[x] = NULL <=> state[x] = "deleted"
    BY Zenon DEF SharedInv, Handshake
  <2>2. state[p] # "deleted" /\ state[e] # "deleted" /\ n # NULL
    BY <1>2, <1>4, <1>13 DEF Unasked, NULL
  <2> QED
    BY <1>0, <1>10, <2>1, <2>2, Zenon
<1>19. /\ Has(mailbox'[e], "pipe_term") <=> state'[p] \in Asked /\ state'[e] \in Unasked
       /\ Has(mailbox'[p], "pipe_term") <=> state'[e] \in Asked /\ state'[p] \in Unasked
       /\ Has(mailbox'[e], "pipe_term_ack") <=> state'[p] \in Acked /\ state'[e] # "deleted"
       /\ Has(mailbox'[p], "pipe_term_ack") <=> state'[e] \in Acked /\ state'[p] # "deleted"
  BY <1>8, <1>10, <1>13, <1>15, BothEnds, Zenon
<1>20. /\ \A r \in Brought(mailbox'[p]) : outpipe'[p] < r /\ r <= inpipe'[e]
       /\ outpipe'[p] # NULL => inpipe'[e] \in {outpipe'[p]} \cup Brought(mailbox'[p])
  <2>1. outpipe[p] < n
    BY <1>9, <1>16 DEF n
  <2> QED
    BY <1>4, <1>10, <1>12, <1>15, <2>1
<1>21. /\ \A r \in Brought(mailbox'[e]) : outpipe'[e] < r /\ r <= inpipe'[p]
       /\ outpipe'[e] # NULL => inpipe'[p] \in {outpipe'[e]} \cup Brought(mailbox'[e])
       /\ InSequence(mailbox'[e])
  BY <1>8, <1>10, BothEnds, Zenon
<1> QED
  BY <1>10, <1>11, <1>13, <1>15, <1>17, <1>18, <1>19, <1>20, <1>21, BothEndsNext, Zenon

\* process_hiccup ()
LEMMA ProcessHiccupStep ==
  ASSUME SharedInv, NEW e \in Ends, ProcessHiccup(e), UNCHANGED setup
  PROVE  SharedInv'
<1> DEFINE p == Peer(e)
           q == mailbox[e]
           a == Head(q).arg
           o == outpipe[e]
<1>0. p \in Ends /\ p # e /\ Peer(p) = e /\ \A x \in Ends : x = e \/ x = p
  BY TwoEnds, Zenon
<1>1. PlainTypeOK /\ ProtocolTypeOK
  BY Types, Zenon DEF SharedInv
<1>2. q # <<>> /\ Head(q).type = "hiccup" /\ o # NULL /\ q \in Seq(Commands)
      /\ mailbox[p] \in Seq(Commands) /\ mailbox \in [Ends -> Seq(Commands)]
  BY <1>0, <1>1, Zenon DEF ProcessHiccup, IsNext, ProtocolTypeOK
<1>3. PlainTypeOK'
  <2>1. out_active' \in [Ends -> BOOLEAN]
    BY <1>1, Zenon DEF ProcessHiccup, PlainTypeOK
  <2> QED
    BY <1>1, <2>1, Zenon DEF ProcessHiccup, PlainTypeOK, owners
<1>4. /\ AllYPipes(ypipes') /\ Len(ypipes') = Len(ypipes) /\ o \in 1 .. Len(ypipes)
      /\ ~ypipes'[o].exists
      /\ \A i \in 1 .. Len(ypipes) : i # o => ypipes'[i] = ypipes[i]
  <2>1. /\ o \in 1 .. Len(ypipes) /\ AllYPipes(ypipes)
        /\ IsYPipe(Deleted(ypipes[o])) /\ ~Deleted(ypipes[o]).exists
    BY <1>2, Pointers, NewYPipes, Zenon
  <2>2. IsChanged(ypipes', ypipes, o, Deleted(ypipes[o]))
    BY Zenon DEF ProcessHiccup, IsChanged
  <2>3. /\ AllYPipes(ypipes') /\ Len(ypipes') = Len(ypipes)
        /\ ypipes'[o] = Deleted(ypipes[o])
        /\ \A i \in 1 .. Len(ypipes) : i # o => ypipes'[i] = ypipes[i]
    BY <2>1, <2>2, ChangedYPipe
  <2>4. ~ypipes'[o].exists
    BY <2>1, <2>3, Zenon
  <2> QED
    BY <2>1, <2>3, <2>4, Zenon
<1>5. /\ Tail(q) \in Seq(Commands) /\ Head(q) \in Commands
      /\ Has(q, "pipe_term") <=> Has(Tail(q), "pipe_term")
      /\ Has(q, "pipe_term_ack") <=> Has(Tail(q), "pipe_term_ack")
      /\ Has(q, "hiccup")
      /\ Brought(q) = Brought(Tail(q)) \cup {a}
      /\ InSequence(Tail(q)) /\ \A r \in Brought(Tail(q)) : a < r
  <2>1. InSequence(q) /\ Head(q).type # "pipe_term" /\ Head(q).type # "pipe_term_ack"
    BY <1>2, BothEnds, Zenon
  <2> HIDE DEF q
  <2>2. /\ Tail(q) \in Seq(Commands) /\ Head(q) \in Commands
        /\ Brought(q) = Brought(Tail(q)) \cup {a}
        /\ InSequence(Tail(q)) /\ \A r \in Brought(Tail(q)) : a < r
    BY <1>2, <2>1, Taken, Zenon
  <2>3. \A t : Has(q, t) <=> Has(Tail(q), t) \/ Head(q).type = t
    BY <1>2, Taken, Zenon
  <2> QED
    BY <1>2, <2>1, <2>2, <2>3, Zenon
<1>6. /\ mailbox'[e] = Tail(q) /\ mailbox'[p] = mailbox[p]
      /\ mailbox' \in [Ends -> Seq(Commands)]
  <2>1. mailbox[p] \o <<>> = mailbox[p]
    BY <1>2, ConcatEmptySeq, Zenon
  <2> QED
    BY <1>0, <1>2, <1>5, <2>1, Zenon DEF ProcessHiccup, Process
<1>7. /\ a \in Nat /\ o < a /\ a <= inpipe[p] /\ inpipe[p] \in Brought(q)
      /\ inpipe[p] \in 0 .. Len(ypipes) /\ Len(ypipes) \in Nat
  <2>1. a \in Brought(q)
    BY <1>5, Zenon
  <2>2. a \in Nat
    BY <1>2, <2>1, BroughtNumbers, Zenon
  <2>3. o < a /\ a <= inpipe[p] /\ inpipe[p] \in {o} \cup Brought(q)
    BY <1>2, <2>1, BothEnds, Zenon
  <2>4. inpipe[p] \in 0 .. Len(ypipes) /\ Len(ypipes) \in Nat
    BY <1>0, <1>1, Pointers, Zenon DEF ProtocolTypeOK
  <2> QED
    BY <1>4, <2>2, <2>3, <2>4
<1>8. /\ outpipe'[e] = a /\ outpipe'[p] = outpipe[p] /\ UNCHANGED <<inpipe, state>>
      /\ inpipe' \in [Ends -> 0 .. Len(ypipes')] /\ outpipe' \in [Ends -> 0 .. Len(ypipes')]
  <2>1. /\ outpipe' = [outpipe EXCEPT ![e] = a] /\ UNCHANGED <<inpipe, state>>
        /\ inpipe \in [Ends -> 0 .. Len(ypipes)] /\ outpipe \in [Ends -> 0 .. Len(ypipes)]
    BY <1>1, Zenon DEF ProcessHiccup, ProtocolTypeOK
  <2> HIDE DEF a
  <2>2. a \in 0 .. Len(ypipes)
    BY <1>7
  <2> QED
    BY <1>0, <1>4, <2>1, <2>2, Zenon
<1>9. TypeOK'
  <2>1. ProtocolTypeOK'
    BY <1>1, <1>4, <1>6, <1>8, Zenon DEF ProtocolTypeOK
  <2> QED
    BY <1>3, <2>1, Types, Zenon
<1> HIDE DEF a
<1>10. KeptBy(e)'
  <2>1. Stream(p)' = Stream(p)
    BY <1>0, <1>6, <1>8, Zenon DEF Stream, Replacements
  <2>2. Stream(e) = ({o, inpipe[p]} \cup Brought(Tail(q)) \cup {a}) \ {NULL}
    BY <1>5, Zenon DEF Stream, Replacements
  <2>3. Stream(e)' = ({a, inpipe[p]} \cup Brought(Tail(q))) \ {NULL}
    BY <1>6, <1>8, Zenon DEF Stream, Replacements
  <2>4. o \notin Stream(e)' /\ o \in Stream(e) /\ o \in Nat
    <3>1. o \in Nat
      BY <1>4, <1>7
    <3>2. \A r \in Brought(Tail(q)) : r \in Nat
      BY <1>5, BroughtNumbers, Zenon
    <3>3. a # o /\ inpipe[p] # o /\ o \notin Brought(Tail(q))
      BY <1>5, <1>7, <3>1, <3>2
    <3> QED
      BY <1>2, <2>2, <2>3, <3>1, <3>3, Zenon
  <2>5. Stream(e)' = Stream(e) \ {o}
    BY <1>2, <2>2, <2>3, <2>4, Zenon
  <2>6. KeptBy(e)
    BY BothEnds, Zenon
  <2>7. Stream(e)' \cap Stream(p)' = {} /\ o \notin Stream(p)'
    BY <2>1, <2>4, <2>5, <2>6, Zenon DEF KeptBy
  <2>8. ASSUME NEW i \in 1 .. Len(ypipes')
        PROVE  ypipes'[i].exists <=> i \in Stream(e)' \cup Stream(p)'
    <3>1. i \in 1 .. Len(ypipes)
      BY <1>4, Zenon
    <3>2. CASE i = o
      BY <1>4, <2>4, <2>7, <3>2, Zenon
    <3>3. CASE i # o
      BY <1>4, <2>1, <2>5, <2>6, <3>1, <3>3, Zenon DEF KeptBy
    <3> QED
      BY <3>2, <3>3, Zenon
  <2> QED
    BY <2>7, <2>8, Zenon DEF KeptBy
<1>11. /\ <<state[e], state[p]>> \in Agreeing /\ <<state[p], state[e]>> \in Agreeing
       /\ state[e] \in Unasked /\ state[e] \notin Acked /\ state[e] # "deleted"
  <2>1. /\ <<state[e], state[p]>> \in Agreeing /\ <<state[p], state[e]>> \in Agreeing
        /\ state[e] \in Unasked
    BY <1>5, BothEnds, Zenon
  <2> QED
    BY <2>1, Zenon DEF Unasked, Acked
<1>12. \A x \in Ends : /\ outpipe'[x] = NULL <=> state'[x] \in Acked
                       /\ inpipe'[x] = NULL <=> state'[x] = "deleted"
                       /\ state'[x] = "deleted" => mailbox'[x] = <<>>
  <2>1. \A x \in Ends : /\ outpipe[x] = NULL <=> state[x] \in Acked
                        /\ inpipe[x] = NULL <=> state[x] = "deleted"
                        /\ state[x] = "deleted" => mailbox[x] = <<>>
    BY Zenon DEF SharedInv, Handshake
  <2>2. a # NULL
    BY <1>4, <1>7 DEF NULL
  <2> QED
    BY <1>0, <1>6, <1>8, <1>11, <2>1, <2>2, Zenon
<1>13. /\ Has(mailbox'[e], "pipe_term") <=> state'[p] \in Asked /\ state'[e] \in Unasked
       /\ Has(mailbox'[p], "pipe_term") <=> state'[e] \in Asked /\ state'[p] \in Unasked
       /\ Has(mailbox'[e], "pipe_term_ack") <=> state'[p] \in Acked /\ state'[e] # "deleted"
       /\ Has(mailbox'[p], "pipe_term_ack") <=> state'[e] \in Acked /\ state'[p] # "deleted"
       /\ Has(mailbox'[p], "hiccup") => state'[p] \in Unasked
  <2>1. /\ Has(q, "pipe_term") <=> state[p] \in Asked /\ state[e] \in Unasked
        /\ Has(mailbox[p], "pipe_term") <=> state[e] \in Asked /\ state[p] \in Unasked
        /\ Has(q, "pipe_term_ack") <=> state[p] \in Acked /\ state[e] # "deleted"
        /\ Has(mailbox[p], "pipe_term_ack") <=> state[e] \in Acked /\ state[p] # "deleted"
        /\ Has(mailbox[p], "hiccup") => state[p] \in Unasked
    BY BothEnds, Zenon
  <2> HIDE DEF q
  <2> QED
    BY <1>5, <1>6, <1>8, <2>1, Zenon
<1>14. /\ \A r \in Brought(mailbox'[e]) : outpipe'[e] < r /\ r <= inpipe'[p]
       /\ outpipe'[e] # NULL => inpipe'[p] \in {outpipe'[e]} \cup Brought(mailbox'[e])
  <2>1. \A r \in Brought(q) : r <= inpipe[p]
    BY BothEnds, Zenon
  <2> QED
    BY <1>5, <1>6, <1>7, <1>8, <2>1, Zenon
<1>15. /\ \A r \in Brought(mailbox'[p]) : outpipe'[p] < r /\ r <= inpipe'[e]
       /\ outpipe'[p] # NULL => inpipe'[e] \in {outpipe'[p]} \cup Brought(mailbox'[p])
       /\ InSequence(mailbox'[e]) /\ InSequence(mailbox'[p])
  BY <1>5, <1>6, <1>8, BothEnds, Zenon
<1> QED
  BY <1>8, <1>9, <1>10, <1>11, <1>12, <1>13, <1>14, <1>15, BothEndsNext, Zenon

\* process_pipe_term ()
LEMMA ProcessPipeTermStep ==
  ASSUME SharedInv, NEW e \in Ends, ProcessPipeTerm(e), UNCHANGED setup
  PROVE  SharedInv'
<1> DEFINE p == Peer(e)
           q == mailbox[e]
           c == Command("pipe_term_ack")
           waits == state[e] = "active" /\ delay[e]
<1>0. p \in Ends /\ p # e /\ Peer(p) = e /\ \A x \in Ends : x = e \/ x = p
  BY TwoEnds, Zenon
<1>1. PlainTypeOK /\ ProtocolTypeOK
  BY Types, Zenon DEF SharedInv
<1>2. q # <<>> /\ Head(q).type = "pipe_term" /\ q \in Seq(Commands)
      /\ mailbox[p] \in Seq(Commands) /\ mailbox \in [Ends -> Seq(Commands)]
      /\ state[e] \in {"active", "delimiter_received", "term_req_sent1"}
  BY <1>0, <1>1, Zenon DEF ProcessPipeTerm, IsNext, ProtocolTypeOK
<1>3. PlainTypeOK'
  BY <1>1, Zenon DEF ProcessPipeTerm, PlainTypeOK, owners
<1>4. AllYPipes(ypipes') /\ SameYPipes /\ UNCHANGED inpipe
  BY <1>1, Zenon DEF ProcessPipeTerm, ProtocolTypeOK, SameYPipes
<1>5. c \in Commands
  BY Zenon DEF Command, Commands, CommandTypes
<1>6. /\ Append(mailbox[p], c) \in Seq(Commands) /\ mailbox[p] \o <<>> = mailbox[p]
      /\ mailbox[p] \o <<c>> = Append(mailbox[p], c)
  BY <1>2, <1>5, Appended, Concatenated, Zenon
<1>7. /\ Tail(q) \in Seq(Commands) /\ Has(q, "pipe_term") /\ ~Has(Tail(q), "pipe_term")
      /\ ~Has(Tail(q), "hiccup") /\ ~Has(q, "hiccup") /\ InSequence(Tail(q))
      /\ Has(Tail(q), "pipe_term_ack") <=> Has(q, "pipe_term_ack")
  <2>1. InSequence(q) /\ Head(q).type # "hiccup" /\ Head(q).type # "pipe_term_ack"
    BY <1>2, BothEnds, Zenon
  <2> HIDE DEF q
  <2>2. /\ Tail(q) \in Seq(Commands) /\ InSequence(Tail(q))
        /\ ~Has(Tail(q), "pipe_term") /\ ~Has(Tail(q), "hiccup")
    BY <1>2, <2>1, Taken, Zenon
  <2>3. \A t : Has(q, t) <=> Has(Tail(q), t) \/ Head(q).type = t
    BY <1>2, Taken, Zenon
  <2> QED
    BY <1>2, <2>1, <2>2, <2>3, Zenon
<1>8. state[p] \in Asked /\ <<state[e], state[p]>> \in Agreeing /\ <<state[p], state[e]>> \in Agreeing
  BY <1>7, BothEnds, Zenon
<1>9. CASE ~waits
  <2>1. /\ outpipe' = [outpipe EXCEPT ![e] = NULL]
        /\ mailbox' = [mailbox EXCEPT ![e] = Tail(@), ![p] = @ \o <<c>>]
    BY <1>9, Zenon DEF ProcessPipeTerm, Process
  <2>2. /\ mailbox'[e] = Tail(q) /\ mailbox'[p] = Append(mailbox[p], c)
        /\ mailbox' \in [Ends -> Seq(Commands)]
    <3> HIDE DEF c
    <3> QED
      BY <1>0, <1>2, <1>6, <1>7, <2>1, Zenon
  <2>3. state[e] \notin Acked
    BY <1>2, Zenon DEF Acked
  <2>4. CASE state[e] = "term_req_sent1"
    <3>1. state' = [state EXCEPT ![e] = "term_req_sent2"]
      BY <2>4, Zenon DEF ProcessPipeTerm
    <3>2. /\ "term_req_sent2" \in {"term_ack_sent", "term_req_sent2"}
          /\ "term_req_sent2" # "term_ack_sent"
      BY Zenon
    <3> QED
      BY <1>3, <1>4, <1>7, <1>8, <2>1, <2>2, <2>3, <2>4, <3>1, <3>2, AckStep, Zenon
  <2>5. CASE state[e] # "term_req_sent1"
    <3>1. state' = [state EXCEPT ![e] = "term_ack_sent"]
      BY <1>9, <2>5, Zenon DEF ProcessPipeTerm
    <3>2. state[p] = "term_req_sent1" /\ state[e] \notin Asked
      BY <1>2, <1>8, <2>5, Zenon DEF Agreeing, Asked
    <3>3. /\ "term_ack_sent" \in {"term_ack_sent", "term_req_sent2"}
          /\ "term_ack_sent" # "term_req_sent2"
      BY Zenon
    <3> QED
      BY <1>3, <1>4, <1>7, <2>1, <2>2, <2>3, <3>1, <3>2, <3>3, AckStep, Zenon
  <2> QED
    BY <2>4, <2>5, Zenon
<1>10. CASE waits
  <2>1. /\ outpipe' = [outpipe EXCEPT ![e] = @]
        /\ state' = [state EXCEPT ![e] = "waiting_for_delimiter"]
        /\ mailbox' = [mailbox EXCEPT ![e] = Tail(@), ![p] = @ \o <<>>]
    BY <1>10, Zenon DEF ProcessPipeTerm, Process
  <2>2. /\ mailbox'[e] = Tail(q) /\ mailbox'[p] = mailbox[p]
        /\ mailbox' \in [Ends -> Seq(Commands)]
    BY <1>0, <1>2, <1>6, <1>7, <2>1, Zenon
  <2>3. /\ outpipe' = outpipe /\ inpipe' = inpipe
        /\ state' \in [Ends -> States] /\ state'[p] = state[p]
        /\ state'[e] = "waiting_for_delimiter"
    BY <1>0, <1>1, <1>4, <2>1, Zenon DEF ProtocolTypeOK, States
  <2>4. TypeOK'
    <3>1. ProtocolTypeOK'
      BY <1>1, <1>4, <2>2, <2>3, Zenon DEF ProtocolTypeOK, SameYPipes
    <3> QED
      BY <1>3, <3>1, Types, Zenon
  <2>5. state[p] = "term_req_sent1" /\ state[e] = "active"
    BY <1>8, <1>10, Zenon DEF Agreeing, Asked
  <2>6. Brought(mailbox'[e]) = {} /\ Brought(mailbox[e]) = {}
    BY <1>7, <2>2, NoneBrought, Zenon
  <2>7. KeptBy(e)'
    <3>1. Stream(e)' = Stream(e) /\ Stream(p)' = Stream(p)
      BY <1>0, <2>2, <2>3, <2>6, Zenon DEF Stream, Replacements
    <3>2. KeptBy(e)
      BY BothEnds, Zenon
    <3> QED
      BY <1>4, <3>1, <3>2, Zenon DEF KeptBy, SameYPipes
  <2>8. /\ <<state'[e], state'[p]>> \in Agreeing /\ <<state'[p], state'[e]>> \in Agreeing
        /\ state'[e] \notin Asked /\ state[e] \notin Asked
        /\ state'[e] \notin Acked /\ state[e] \notin Acked
        /\ state'[e] \notin Unasked /\ state'[e] # "deleted" /\ state[e] # "deleted"
        /\ state'[p] # "deleted"
    BY <2>3, <2>5, Zenon DEF Agreeing, States, Asked, Unasked, Acked
  <2>9. \A x \in Ends : /\ outpipe'[x] = NULL <=> state'[x] \in Acked
                        /\ inpipe'[x] = NULL <=> state'[x] = "deleted"
                        /\ state'[x] = "deleted" => mailbox'[x] = <<>>
    <3>1. \A x \in Ends : /\ outpipe[x] = NULL <=> state[x] \in Acked
                          /\ inpipe[x] = NULL <=> state[x] = "deleted"
      BY Zenon DEF SharedInv, Handshake
    <3> QED
      BY <1>0, <2>3, <2>8, <3>1, Zenon
  <2>10. /\ Has(mailbox'[e], "pipe_term") <=> state'[p] \in Asked /\ state'[e] \in Unasked
         /\ Has(mailbox'[p], "pipe_term") <=> state'[e] \in Asked /\ state'[p] \in Unasked
         /\ Has(mailbox'[e], "pipe_term_ack") <=> state'[p] \in Acked /\ state'[e] # "deleted"
         /\ Has(mailbox'[p], "pipe_term_ack") <=> state'[e] \in Acked /\ state'[p] # "deleted"
         /\ Has(mailbox'[p], "hiccup") => state'[p] \in Unasked
         /\ ~Has(mailbox'[e], "hiccup")
    <3>1. /\ Has(mailbox[p], "pipe_term") <=> state[e] \in Asked /\ state[p] \in Unasked
          /\ Has(q, "pipe_term_ack") <=> state[p] \in Acked /\ state[e] # "deleted"
          /\ Has(mailbox[p], "pipe_term_ack") <=> state[e] \in Acked /\ state[p] # "deleted"
          /\ Has(mailbox[p], "hiccup") => state[p] \in Unasked
      BY BothEnds, Zenon
    <3> HIDE DEF q
    <3> QED
      BY <1>7, <2>2, <2>3, <2>8, <3>1, Zenon
  <2>11. /\ \A r \in Brought(mailbox'[e]) : outpipe'[e] < r /\ r <= inpipe'[p]
         /\ \A r \in Brought(mailbox'[p]) : outpipe'[p] < r /\ r <= inpipe'[e]
         /\ outpipe'[e] # NULL => inpipe'[p] \in {outpipe'[e]} \cup Brought(mailbox'[e])
         /\ outpipe'[p] # NULL => inpipe'[e] \in {outpipe'[p]} \cup Brought(mailbox'[p])
         /\ InSequence(mailbox'[e]) /\ InSequence(mailbox'[p])
    BY <1>7, <2>2, <2>3, <2>6, BothEnds, Zenon
  <2> QED
    BY <2>3, <2>4, <2>7, <2>8, <2>9, <2>10, <2>11, BothEndsNext, Zenon
<1> QED
  BY <1>9, <1>10, Zenon

\* process_pipe_term_ack (): the end acknowledges in turn if it has not yet,
\* deletes the ypipe it reads and itself.
LEMMA ProcessPipeTermAckStep ==
  ASSUME SharedInv, NEW e \in Ends, ProcessPipeTermAck(e), UNCHANGED setup
  PROVE  SharedInv'
<1> DEFINE p == Peer(e)
           q == mailbox[e]
           c == Command("pipe_term_ack")
           first == state[e] = "term_req_sent1"
<1>0. p \in Ends /\ p # e /\ Peer(p) = e /\ \A x \in Ends : x = e \/ x = p
  BY TwoEnds, Zenon
<1>1. PlainTypeOK /\ ProtocolTypeOK
  BY Types, Zenon DEF SharedInv
<1>2. q # <<>> /\ Head(q).type = "pipe_term_ack" /\ q \in Seq(Commands)
      /\ mailbox[p] \in Seq(Commands) /\ mailbox \in [Ends -> Seq(Commands)]
      /\ state[e] \in {"term_req_sent1", "term_ack_sent", "term_req_sent2"}
  BY <1>0, <1>1, Zenon DEF ProcessPipeTermAck, IsNext, ProtocolTypeOK
<1>3. PlainTypeOK'
  BY <1>1, Zenon DEF ProcessPipeTermAck, PlainTypeOK, owners
<1>4. /\ Tail(q) = <<>> /\ Has(q, "pipe_term_ack") /\ ~Has(q, "hiccup")
  <2>1. InSequence(q)
    BY BothEnds, Zenon
  <2> HIDE DEF q
  <2>2. Tail(q) = <<>>
    BY <1>2, <2>1, Taken, Zenon
  <2>3. \A t : Has(q, t) <=> Has(<<>>, t) \/ Head(q).type = t
    BY <1>2, <2>2, Taken, Zenon
  <2>4. ~Has(<<>>, "hiccup")
    BY DEF Has
  <2> QED
    BY <1>2, <2>2, <2>3, <2>4, Zenon
<1>5. /\ state[p] \in Acked /\ state[p] \notin Unasked
      /\ <<state[e], state[p]>> \in Agreeing
  <2>1. state[p] \in Acked /\ <<state[e], state[p]>> \in Agreeing
    BY <1>4, BothEnds, Zenon
  <2> QED
    BY <2>1, Zenon DEF Acked, Unasked
<1>6. /\ first <=> state[e] \notin Acked
      /\ first => state[p] # "deleted"
      /\ state[e] # "deleted"
  BY <1>2, <1>5, Zenon DEF Agreeing, Acked, States
<1>7. /\ outpipe[p] = NULL /\ inpipe[e] # NULL /\ AllYPipes(ypipes)
      /\ inpipe[e] \in 1 .. Len(ypipes) /\ Len(ypipes) \in Nat
      /\ inpipe[p] = NULL <=> state[p] = "deleted"
  BY <1>0, <1>5, <1>6, Pointers, Zenon
<1>8. /\ ~Has(mailbox[p], "pipe_term") /\ ~Has(mailbox[p], "hiccup")
      /\ Has(mailbox[p], "pipe_term_ack") <=> state[e] \in Acked /\ state[p] # "deleted"
      /\ InSequence(mailbox[p]) /\ KeptBy(e)
      /\ outpipe[e] # NULL => inpipe[p] \in {outpipe[e]} \cup Brought(q)
  BY <1>5, BothEnds, Zenon
<1>9. Brought(q) = {} /\ Brought(mailbox[p]) = {}
  BY <1>4, <1>8, NoneBrought, Zenon
<1>10. /\ AllYPipes(ypipes') /\ Len(ypipes') = Len(ypipes)
       /\ ~ypipes'[inpipe[e]].exists
       /\ \A i \in 1 .. Len(ypipes) : i # inpipe[e] => ypipes'[i] = ypipes[i]
  <2> DEFINE o == inpipe[e]
  <2>1. IsYPipe(Deleted(ypipes[o])) /\ ~Deleted(ypipes[o]).exists
    BY NewYPipes, Zenon
  <2>2. IsChanged(ypipes', ypipes, o, Deleted(ypipes[o]))
    BY Zenon DEF ProcessPipeTermAck, IsChanged
  <2>3. /\ AllYPipes(ypipes') /\ Len(ypipes') = Len(ypipes)
        /\ ypipes'[o] = Deleted(ypipes[o])
        /\ \A i \in 1 .. Len(ypipes) : i # o => ypipes'[i] = ypipes[i]
    BY <1>7, <2>1, <2>2, ChangedYPipe
  <2>4. ~ypipes'[o].exists
    BY <2>1, <2>3, Zenon
  <2> QED
    BY <2>3, <2>4, Zenon
<1>11. /\ inpipe' = [inpipe EXCEPT ![e] = NULL] /\ outpipe' = [outpipe EXCEPT ![e] = NULL]
       /\ state' = [state EXCEPT ![e] = "deleted"]
  BY Zenon DEF ProcessPipeTermAck
<1>12. /\ inpipe'[e] = NULL /\ inpipe'[p] = inpipe[p]
       /\ outpipe'[e] = NULL /\ outpipe'[p] = NULL
       /\ state'[e] = "deleted" /\ state'[p] = state[p]
       /\ state' \in [Ends -> States]
       /\ inpipe' \in [Ends -> 0 .. Len(ypipes')] /\ outpipe' \in [Ends -> 0 .. Len(ypipes')]
  BY <1>0, <1>1, <1>7, <1>10, <1>11, Zenon DEF ProtocolTypeOK, States, NULL
<1>13. c \in Commands /\ c.type = "pipe_term_ack"
  BY Zenon DEF Command, Commands, CommandTypes
<1>14. /\ mailbox'[e] = <<>> /\ mailbox' \in [Ends -> Seq(Commands)]
       /\ mailbox'[p] = IF first THEN Append(mailbox[p], c) ELSE mailbox[p]
  <2>1. mailbox' = [mailbox EXCEPT ![e] = Tail(@),
                                   ![p] = @ \o (IF first THEN <<c>> ELSE <<>>)]
    BY Zenon DEF ProcessPipeTermAck, Process
  <2> HIDE DEF c
  <2>2. /\ mailbox[p] \o <<c>> = Append(mailbox[p], c) /\ mailbox[p] \o <<>> = mailbox[p]
        /\ Append(mailbox[p], c) \in Seq(Commands) /\ <<>> \in Seq(Commands)
    BY <1>2, <1>13, Appended, Concatenated, EmptySeq, Zenon
  <2> QED
    BY <1>0, <1>2, <1>4, <2>1, <2>2, Zenon
<1>15. /\ ~Has(mailbox'[p], "pipe_term") /\ ~Has(mailbox'[p], "hiccup")
       /\ Has(mailbox'[p], "pipe_term_ack") <=> state[p] # "deleted"
       /\ InSequence(mailbox'[p])
  <2> HIDE DEF c, first
  <2>1. CASE first
    <3>1. /\ \A t : Has(Append(mailbox[p], c), t) <=> Has(mailbox[p], t) \/ c.type = t
          /\ ~Has(mailbox[p], "pipe_term_ack")
      BY <1>2, <1>6, <1>8, <1>13, <2>1, Appended, Zenon
    <3>2. InSequence(Append(mailbox[p], c))
      BY <1>2, <1>8, <1>13, <3>1, Appended, Zenon
    <3>3. c.type # "hiccup" /\ c.type # "pipe_term"
      BY <1>13, Zenon
    <3> QED
      BY <1>6, <1>8, <1>13, <1>14, <2>1, <3>1, <3>2, <3>3, Zenon
  <2>2. CASE ~first
    BY <1>6, <1>8, <1>14, <2>2, Zenon
  <2> QED
    BY <2>1, <2>2, Zenon
<1>16. Brought(mailbox'[e]) = {} /\ Brought(mailbox'[p]) = {} /\ \A t : ~Has(mailbox'[e], t)
  <2>1. \A t : ~Has(mailbox'[e], t)
    BY <1>14 DEF Has
  <2> QED
    BY <1>15, <2>1, NoneBrought, Zenon
<1>17. TypeOK'
  <2>1. ProtocolTypeOK'
    BY <1>10, <1>12, <1>14, Zenon DEF ProtocolTypeOK
  <2> QED
    BY <1>3, <2>1, Types, Zenon
<1>18. KeptBy(e)'
  <2>1. Stream(e) = {inpipe[p]} \ {NULL} /\ Stream(e)' = {inpipe[p]} \ {NULL}
    BY <1>8, <1>9, <1>12, <1>16, Zenon DEF Stream, Replacements
  <2>2. Stream(p) = {inpipe[e]} /\ Stream(p)' = {}
    BY <1>0, <1>7, <1>9, <1>12, <1>16, Zenon DEF Stream, Replacements
  <2>3. /\ Stream(e) \cap Stream(p) = {}
        /\ \A i \in 1 .. Len(ypipes) : ypipes[i].exists <=> i \in Stream(e) \cup Stream(p)
    BY <1>8, Zenon DEF KeptBy
  <2>4. ASSUME NEW i \in 1 .. Len(ypipes')
        PROVE  ypipes'[i].exists <=> i \in Stream(e)' \cup Stream(p)'
    <3>1. i \in 1 .. Len(ypipes)
      BY <1>10, Zenon
    <3>2. CASE i = inpipe[e]
      <4>1. i \notin Stream(e)
        BY <2>2, <2>3, <3>2, Zenon
      <4> QED
        BY <1>10, <2>1, <2>2, <3>2, <4>1, Zenon
    <3>3. CASE i # inpipe[e]
      <4>1. ypipes'[i].exists <=> i \in Stream(e) \cup Stream(p)
        BY <1>10, <2>3, <3>1, <3>3, Zenon
      <4> QED
        BY <2>1, <2>2, <3>3, <4>1, Zenon
    <3> QED
      BY <3>2, <3>3, Zenon
  <2> QED
    BY <2>2, <2>4, Zenon DEF KeptBy
<1>19. /\ <<state'[e], state'[p]>> \in Agreeing /\ <<state'[p], state'[e]>> \in Agreeing
       /\ state'[e] \notin Asked /\ state'[e] \notin Unasked /\ state'[e] \in Acked
       /\ state'[p] \notin Unasked /\ state'[p] \in Acked
  BY <1>5, <1>12, Zenon DEF Agreeing, States, Asked, Unasked, Acked
<1>20. \A x \in Ends : /\ outpipe'[x] = NULL <=> state'[x] \in Acked
                       /\ inpipe'[x] = NULL <=> state'[x] = "deleted"
                       /\ state'[x] = "deleted" => mailbox'[x] = <<>>
  <2>1. state[p] = "deleted" => ~first /\ mailbox[p] = <<>>
    BY <1>0, <1>6, Zenon DEF SharedInv, Handshake
  <2> HIDE DEF first, c
  <2> QED
    BY <1>0, <1>7, <1>12, <1>14, <1>19, <2>1, Zenon
<1>21. /\ Has(mailbox'[e], "pipe_term") <=> state'[p] \in Asked /\ state'[e] \in Unasked
       /\ Has(mailbox'[p], "pipe_term") <=> state'[e] \in Asked /\ state'[p] \in Unasked
       /\ Has(mailbox'[e], "pipe_term_ack") <=> state'[p] \in Acked /\ state'[e] # "deleted"
       /\ Has(mailbox'[p], "pipe_term_ack") <=> state'[e] \in Acked /\ state'[p] # "deleted"
       /\ Has(mailbox'[e], "hiccup") => state'[e] \in Unasked
       /\ Has(mailbox'[p], "hiccup") => state'[p] \in Unasked
  BY <1>12, <1>15, <1>16, <1>19, Zenon
<1>22. InSequence(mailbox'[e])
  BY <1>14 DEF InSequence
<1> QED
  BY <1>12, <1>15, <1>16, <1>17, <1>18, <1>19, <1>20, <1>21, <1>22, BothEndsNext, Zenon

\* check_read () and read ()
LEMMA ReadStep ==
  ASSUME LeastFact, SharedInv, NEW e \in Ends, CheckRead(e) \/ Read(e), UNCHANGED setup
  PROVE  SharedInv'
<1> DEFINE q == ypipes[inpipe[e]]
           s == SkipCredentials(q)
<1>1. state[e] \in {"active", "waiting_for_delimiter"} /\ state[e] \notin Acked
      /\ state[e] # "deleted"
  BY Zenon DEF CheckRead, Read, Readable, Acked
<1>2. inpipe[e] # NULL /\ IsYPipe(q)
  BY <1>1, Pointers, Zenon
<1>3. IsYPipe(s) /\ s.exists = q.exists
  BY <1>2, SkippedYPipe, Zenon
<1>4. \/ CheckRead(e) /\ GoPassive(e, q)
      \/ q.ready # <<>> /\ ProcessDelimiter(e, [q EXCEPT !.ready = Tail(@)])
      \/ GoPassive(e, s)
      \/ s.ready # <<>> /\ ProcessDelimiter(e, [s EXCEPT !.ready = Tail(@)])
      \/ s.ready # <<>> /\ Deliver(e, s)
  BY Zenon DEF CheckRead, Read
<1>5. ASSUME NEW r, IsYPipe(r), r.exists = q.exists
      PROVE  /\ GoPassive(e, r) => SharedInv'
             /\ r.ready # <<>> /\ ProcessDelimiter(e, [r EXCEPT !.ready = Tail(@)]) => SharedInv'
             /\ r.ready # <<>> /\ Deliver(e, r) => SharedInv'
  <2>1. GoPassive(e, r) => SharedInv'
    BY <1>2, <1>5, GoPassiveStep, Zenon
  <2>2. ASSUME r.ready # <<>>, ProcessDelimiter(e, [r EXCEPT !.ready = Tail(@)])
        PROVE  SharedInv'
    <3> DEFINE t == [r EXCEPT !.ready = Tail(@)]
    <3>1. IsYPipe(t) /\ t.exists = q.exists /\ ProcessDelimiter(e, t)
      BY <1>5, <2>2, TakenYPipe, Zenon
    <3> HIDE DEF t
    <3> QED
      BY <1>1, <3>1, ProcessDelimiterStep, Zenon
  <2>3. r.ready # <<>> /\ Deliver(e, r) => SharedInv'
    BY <1>1, <1>5, DeliverStep, Zenon
  <2> QED
    BY <2>1, <2>2, <2>3, Zenon
<1> HIDE DEF q, s
<1> QED
  BY <1>2, <1>3, <1>4, <1>5, Zenon

\* pipepair () establishes the invariant.
LEMMA SharedInit ==
  Init => SharedInv
<1> SUFFICES ASSUME Init PROVE SharedInv
  BY Zenon
<1>1. /\ setup \in Setups /\ MaxWmDelta \in Nat /\ InitHwm \in [Ends -> Nat]
      /\ \A d \in Ends : Peer(d) \in Ends
  BY PipeAssumption, TwoEnds, Zenon DEF Init, InitHwm
<1>2. \A n \in Nat : compute_lwm(n) \in Nat
  BY <1>1 DEF compute_lwm
<1>3. lwm \in [Ends -> Nat]
  <2>1. \A d \in Ends : compute_lwm(InitHwm[Peer(d)]) \in Nat
    BY <1>1, <1>2, Zenon
  <2>2. lwm = [d \in Ends |-> compute_lwm(InitHwm[Peer(d)])]
    BY Zenon DEF Init
  <2> QED
    BY <2>1, <2>2, Zenon
<1>4. PlainTypeOK
  <2>1. /\ hwm \in [Ends -> Nat] /\ msgs_read \in [Ends -> Nat]
        /\ msgs_written \in [Ends -> Nat] /\ peers_msgs_read \in [Ends -> Nat]
        /\ sent \in [Ends -> Nat] /\ writing \in [Ends -> Nat]
        /\ got \in [Ends -> Nat] /\ reading \in [Ends -> Nat] /\ closes \in [Ends -> Nat]
    BY <1>1, Zenon DEF Init
  <2>2. /\ in_active \in [Ends -> BOOLEAN] /\ out_active \in [Ends -> BOOLEAN]
        /\ delay \in [Ends -> BOOLEAN]
    BY Zenon DEF Init
  <2> QED
    BY <1>1, <1>3, <2>1, <2>2, Zenon DEF PlainTypeOK
<1>5. /\ ypipes = <<NewYPipe, NewYPipe>> /\ Len(ypipes) = 2
      /\ ypipes[1] = NewYPipe /\ ypipes[2] = NewYPipe
      /\ AllYPipes(ypipes)
  <2>1. NewYPipe \in YPipes /\ NewYPipe.complete <= Len(NewYPipe.batch)
    BY NewYPipes, Zenon DEF IsYPipe
  <2> HIDE DEF NewYPipe
  <2> QED
    BY <2>1 DEF Init, AllYPipes
<1>6. /\ \A d \in Ends : state[d] = "active" /\ mailbox[d] = <<>> /\ inpipe[d] = d
                         /\ outpipe[d] = Peer(d)
      /\ state \in [Ends -> States] /\ mailbox \in [Ends -> Seq(Commands)]
      /\ inpipe \in [Ends -> 0 .. Len(ypipes)] /\ outpipe \in [Ends -> 0 .. Len(ypipes)]
  BY <1>5, EmptySeq DEF Init, States, Ends, Peer
<1>7. TypeOK
  <2>1. ProtocolTypeOK
    BY <1>5, <1>6, Zenon DEF ProtocolTypeOK
  <2> QED
    BY <1>4, <2>1, Types, Zenon
<1>8. \A d \in Ends : /\ \A t : ~Has(mailbox[d], t)
                      /\ Brought(mailbox[d]) = {} /\ InSequence(mailbox[d])
  BY <1>6 DEF Has, Brought, InSequence
<1>9. Handshake
  <2>1. "active" \notin Asked /\ "active" \notin Acked /\ <<"active", "active">> \in Agreeing
    BY Zenon DEF Asked, Acked, Agreeing
  <2>2. \A d \in Ends : d # NULL /\ Peer(d) # NULL
    BY DEF Ends, Peer, NULL
  <2> QED
    BY <1>1, <1>6, <1>8, <2>1, <2>2, Zenon DEF Handshake, InTransit
<1>10. Replaced
  BY <1>1, <1>6, <1>8, TwoEnds, Zenon DEF Replaced, Replacements
<1>11. Kept
  <2>1. Peer(1) = 2 /\ Peer(2) = 1 /\ 1 \in Ends /\ 2 \in Ends
    BY DEF Peer, Ends
  <2>2. Stream(1) = {2} /\ Stream(2) = {1}
    BY <1>6, <1>8, <2>1 DEF Stream, Replacements, NULL
  <2>3. \A i \in 1 .. Len(ypipes) : ypipes[i] = NewYPipe /\ (i = 1 \/ i = 2)
    BY <1>5
  <2>4. \A i \in 1 .. Len(ypipes) : ypipes[i].exists
    BY <2>3, NewYPipes, Zenon
  <2> QED
    BY <2>2, <2>3, <2>4 DEF Kept
<1> QED
  BY <1>7, <1>8, <1>9, <1>10, <1>11, Zenon DEF SharedInv

\* Every step preserves the invariant.
LEMMA SharedStep ==
  ASSUME LeastFact, SharedInv, [Next]_vars
  PROVE  SharedInv'
<1>1. CASE UNCHANGED vars
  <2>1. UNCHANGED <<setup, state, inpipe, outpipe, in_active, out_active, delay, hwm, lwm,
                    msgs_read, msgs_written, peers_msgs_read, ypipes, mailbox, sent, writing,
                    got, reading, closes>>
    BY <1>1, Zenon DEF vars, fields, owners
  <2> QED
    BY <2>1, Zenon DEF SharedInv, TypeOK, Handshake, InTransit, Replaced, Replacements, Kept, Stream
<1>2. CASE Next
  <2>0. UNCHANGED setup
    BY <1>2, Zenon DEF Next
  <2>1. CASE SetHwms
    BY <2>0, <2>1, SetHwmsStep, Zenon
  <2>2. ASSUME NEW e \in Ends, OwnerNext(e)
        PROVE  SharedInv'
    <3>1. ASSUME NEW d \in Delays[e] PROVE d \in BOOLEAN
      <4>1. setup \in Setups
        BY Zenon DEF SharedInv, TypeOK
      <4> QED
        BY <3>1, <4>1, PipeAssumption, Zenon DEF Delays
    <3>2. ASSUME NEW msg \in Writes(e), Write(e, msg) PROVE SharedInv'
      BY <2>0, <3>2, WriteStep, Zenon
    <3>3. CASE WriteFull(e)
      BY <2>0, <3>3, WriteFullStep, Zenon
    <3>4. CASE Rollback(e)
      BY <2>0, <3>4, RollbackStep, Zenon
    <3>5. CASE Flush(e)
      BY <2>0, <3>5, FlushStep, Zenon
    <3>6. CASE CheckRead(e) \/ Read(e)
      BY <2>0, <3>6, ReadStep, Zenon
    <3>7. ASSUME NEW d \in Delays[e], Terminate(e, d) PROVE SharedInv'
      BY <2>0, <3>1, <3>7, TerminateStep, Zenon
    <3>8. ASSUME NEW d \in Delays[e], TerminateAgain(e, d) PROVE SharedInv'
      BY <2>0, <3>1, <3>8, TerminateAgainStep, Zenon
    <3>9. CASE Hiccup(e)
      BY <2>0, <3>9, HiccupStep, Zenon
    <3> QED
      BY <2>2, <3>2, <3>3, <3>4, <3>5, <3>6, <3>7, <3>8, <3>9, Zenon DEF OwnerNext
  <2>3. ASSUME NEW e \in Ends, ProcessCommand(e)
        PROVE  SharedInv'
    <3>1. CASE ProcessActivateRead(e)
      BY <2>0, <3>1, ActivateReadStep, Zenon
    <3>2. CASE ProcessActivateWrite(e)
      BY <2>0, <3>2, ActivateWriteStep, Zenon
    <3>3. CASE ProcessHiccup(e)
      BY <2>0, <3>3, ProcessHiccupStep, Zenon
    <3>4. CASE ProcessPipeTerm(e)
      BY <2>0, <3>4, ProcessPipeTermStep, Zenon
    <3>5. CASE ProcessPipeTermAck(e)
      BY <2>0, <3>5, ProcessPipeTermAckStep, Zenon
    <3> QED
      BY <2>3, <3>1, <3>2, <3>3, <3>4, <3>5, Zenon DEF ProcessCommand
  <2>4. CASE DropIdentity
    BY <2>0, <2>4, ReadStep, Zenon DEF DropIdentity, Ends
  <2> QED
    BY <1>2, <2>1, <2>2, <2>3, <2>4, Zenon DEF Next
<1> QED
  BY <1>1, <1>2, Zenon

\* What a command at the head of a mailbox implies.
LEMMA NextIsThere ==
  ASSUME SharedInv, NEW e \in Ends, NEW t
  PROVE  /\ IsNext(e, t) => Has(mailbox[e], t)
         /\ IsNext(e, "hiccup") => \E r : r \in Brought(mailbox[e])
<1> DEFINE q == mailbox[e]
<1>1. q \in Seq(Commands)
  BY Pointers, Zenon
<1>2. q # <<>> => 1 \in 1 .. Len(q) /\ q[1] = Head(q)
  BY <1>1
<1> HIDE DEF q
<1>3. IsNext(e, t) => Has(q, t)
  BY <1>2, Zenon DEF IsNext, Has, q
<1>4. IsNext(e, "hiccup") => \E r : r \in Brought(q)
  BY <1>2, Zenon DEF IsNext, Brought, q
<1> QED
  BY <1>3, <1>4, Zenon DEF q

\* What the invariant says of one end and its peer.
LEMMA SafeEnd ==
  ASSUME SharedInv, NEW e \in Ends
  PROVE  /\ inpipe[e] # NULL => inpipe[e] \in Stream(Peer(e)) /\ ypipes[inpipe[e]].exists
         /\ outpipe[e] # NULL => outpipe[e] \in Stream(e) /\ ypipes[outpipe[e]].exists
         /\ \A r \in Brought(mailbox[e]) : ypipes[r].exists
         /\ state[e] = "deleted" => mailbox[e] = <<>>
         /\ IsNext(e, "hiccup") => inpipe[Peer(e)] # outpipe[e] /\ outpipe[e] # NULL
         /\ IsNext(e, "pipe_term") => state[e] \in Unasked
         /\ IsNext(e, "pipe_term_ack") =>
              state[e] \in {"term_req_sent1", "term_ack_sent", "term_req_sent2"}
<1> DEFINE p == Peer(e)
<1>0. p \in Ends /\ Peer(p) = e
  BY TwoEnds, Zenon
<1>1. /\ Len(ypipes) \in Nat /\ outpipe[e] \in 0 .. Len(ypipes) /\ inpipe[p] \in 0 .. Len(ypipes)
      /\ inpipe[e] \in 0 .. Len(ypipes) /\ mailbox[e] \in Seq(Commands)
      /\ state[e] \in States /\ state[p] \in States
  <2>1. ProtocolTypeOK
    BY Types, Zenon DEF SharedInv
  <2> QED
    BY <1>0, <2>1, Pointers, Zenon DEF ProtocolTypeOK
<1>2. \A i \in 1 .. Len(ypipes) : i \in Stream(e) \cup Stream(p) => ypipes[i].exists
  <2>1. KeptBy(e)
    BY BothEnds, Zenon
  <2> QED
    BY <2>1, Zenon DEF KeptBy
<1>3. inpipe[e] # NULL => inpipe[e] \in Stream(p) /\ ypipes[inpipe[e]].exists
  <2>1. inpipe[e] # NULL => inpipe[e] \in Stream(p) /\ inpipe[e] \in 1 .. Len(ypipes)
    BY <1>0, <1>1 DEF Stream, NULL
  <2> QED
    BY <1>2, <2>1, Zenon
<1>4. outpipe[e] # NULL => outpipe[e] \in Stream(e) /\ ypipes[outpipe[e]].exists
  <2>1. outpipe[e] # NULL => outpipe[e] \in Stream(e) /\ outpipe[e] \in 1 .. Len(ypipes)
    BY <1>1 DEF Stream, NULL
  <2> QED
    BY <1>2, <2>1, Zenon
<1>5. ASSUME NEW r \in Brought(mailbox[e])
      PROVE  ypipes[r].exists /\ inpipe[p] # outpipe[e]
  <2>1. r \in Nat
    BY <1>1, BroughtNumbers, Zenon
  <2>2. outpipe[e] < r /\ r <= inpipe[p]
    BY BothEnds, Zenon
  <2>3. r \in 1 .. Len(ypipes) /\ r # NULL /\ inpipe[p] # outpipe[e]
    BY <1>1, <2>1, <2>2 DEF NULL
  <2>4. r \in Stream(e)
    BY <2>3, Zenon DEF Stream, Replacements
  <2> QED
    BY <1>2, <2>3, <2>4, Zenon
<1>6. state[e] = "deleted" => mailbox[e] = <<>>
  BY Zenon DEF SharedInv, Handshake
<1>7. IsNext(e, "hiccup") => inpipe[p] # outpipe[e] /\ outpipe[e] # NULL
  <2>1. IsNext(e, "hiccup") => Has(mailbox[e], "hiccup") /\ \E r : r \in Brought(mailbox[e])
    BY NextIsThere, Zenon
  <2>2. Has(mailbox[e], "hiccup") => state[e] \in Unasked
    BY BothEnds, Zenon
  <2>3. state[e] \in Unasked => outpipe[e] # NULL
    BY Pointers, Zenon DEF Unasked, Acked
  <2> QED
    BY <1>5, <2>1, <2>2, <2>3, Zenon
<1>8. IsNext(e, "pipe_term") => state[e] \in Unasked
  BY NextIsThere, BothEnds, Zenon
<1>9. IsNext(e, "pipe_term_ack") =>
        state[e] \in {"term_req_sent1", "term_ack_sent", "term_req_sent2"}
  <2>1. /\ IsNext(e, "pipe_term_ack") => state[p] \in Acked /\ state[e] # "deleted"
        /\ <<state[e], state[p]>> \in Agreeing
    BY NextIsThere, BothEnds, Zenon
  <2> QED
    BY <2>1, Zenon DEF Agreeing, Acked, States
<1> QED
  BY <1>3, <1>4, <1>5, <1>6, <1>7, <1>8, <1>9, Zenon

---------------------------------------------------------------------------
(* No wakeup is lost.                                                      *)

\* The end believes that there is nothing to read; it has gone to sleep in
\* front of an empty ypipe; the one implies the other unless it is woken.
Rests(e) == state[e] \in {"active", "waiting_for_delimiter"} /\ ~in_active[e]
Dozes(e) == ypipes[inpipe[e]].asleep /\ ypipes[inpipe[e]].ready = <<>>
Covered(e) == Rests(e) => InTransit(e, "activate_read") \/ Dozes(e)

\* A step that wakes e or leaves it as it is.
Undisturbed(e) ==
    Rests(e)' =>
        /\ Rests(e) /\ inpipe'[e] = inpipe[e]
        /\ Has(mailbox[e], "activate_read") => Has(mailbox'[e], "activate_read")
        /\ \/ Has(mailbox'[e], "activate_read")
           \/ /\ ypipes'[inpipe[e]].asleep <=> ypipes[inpipe[e]].asleep
              /\ ypipes'[inpipe[e]].ready = ypipes[inpipe[e]].ready

\* Sleeping holds of both ends, and after a step that disturbs neither.
LEMMA SleepingEnds ==
  ASSUME Sleeping, NEW e \in Ends
  PROVE  /\ Covered(e) /\ (Undisturbed(e) => Covered(e)')
         /\ Covered(e)' /\ Covered(Peer(e))' => Sleeping'
<1>0. \A d \in Ends : d = e \/ d = Peer(e)
  BY TwoEnds, Zenon
<1>1. Covered(e)
  BY Zenon DEF Sleeping, Covered, Rests, Dozes
<1>2. Undisturbed(e) => Covered(e)'
  BY <1>1, Zenon DEF Undisturbed, Covered, Dozes, InTransit
<1>3. (\A d \in Ends : Covered(d)') => Sleeping'
  BY Zenon DEF Sleeping, Covered, Rests, Dozes
<1> QED
  BY <1>0, <1>1, <1>2, <1>3, Zenon

\* A ypipe that an end reads is not the peer's, and it does not write to it.
LEMMA OwnYPipe ==
  ASSUME SharedInv, NEW e \in Ends, inpipe[e] # NULL
  PROVE  /\ inpipe[e] # inpipe[Peer(e)] /\ inpipe[e] # outpipe[e]
         /\ inpipe[e] \in 1 .. Len(ypipes)
<1>0. Peer(e) \in Ends /\ Peer(Peer(e)) = e
  BY TwoEnds, Zenon
<1>1. /\ inpipe[e] \in Stream(Peer(e))
      /\ inpipe[Peer(e)] # NULL => inpipe[Peer(e)] \in Stream(e)
      /\ outpipe[e] # NULL => outpipe[e] \in Stream(e)
  BY <1>0, SafeEnd, Zenon
<1>2. Stream(e) \cap Stream(Peer(e)) = {}
  BY BothEnds, Zenon DEF KeptBy
<1>3. \A x : ~(x \in Stream(e) /\ x \in Stream(Peer(e)))
  BY <1>2, Zenon
<1>4. inpipe[e] \in 1 .. Len(ypipes)
  BY Pointers, Zenon
<1> QED
  BY <1>1, <1>3, <1>4, Zenon

\* An end that rests reads a ypipe.
LEMMA RestsReads ==
  ASSUME SharedInv, NEW e \in Ends, Rests(e)
  PROVE  inpipe[e] # NULL
BY Pointers, Zenon DEF Rests

\* Commands that are sent do not hide those on their way.
LEMMA SentAfter ==
  ASSUME NEW q \in Seq(Commands), NEW cs \in Seq(Commands), NEW t
  PROVE  /\ Has(q, t) => Has(q \o cs, t)
         /\ Has(cs, t) => Has(q \o cs, t)
<1>1. /\ Len(q \o cs) = Len(q) + Len(cs) /\ Len(q) \in Nat /\ Len(cs) \in Nat
      /\ \A i \in 1 .. Len(q) : (q \o cs)[i] = q[i]
      /\ \A i \in 1 .. Len(cs) : (q \o cs)[Len(q) + i] = cs[i]
  OBVIOUS
<1> DEFINE r == q \o cs
<1> HIDE DEF r
<1>2. /\ Len(r) = Len(q) + Len(cs)
      /\ \A i \in 1 .. Len(q) : r[i] = q[i]
      /\ \A i \in 1 .. Len(cs) : r[Len(q) + i] = cs[i]
  BY <1>1, Zenon DEF r
<1>3. \A i \in 1 .. Len(q) : i \in 1 .. Len(r)
  BY <1>1, <1>2
<1>4. \A i \in 1 .. Len(cs) : Len(q) + i \in 1 .. Len(r)
  BY <1>1, <1>2
<1>5. Has(q, t) => Has(r, t)
  BY <1>2, <1>3, Zenon DEF Has
<1>6. Has(cs, t) => Has(r, t)
  BY <1>2, <1>4, Zenon DEF Has
<1> QED
  BY <1>5, <1>6, Zenon DEF r

\* A step that leaves the reader's side of both ends alone.
LEMMA QuietSleep ==
  ASSUME SharedInv, Sleeping, UNCHANGED <<state, inpipe, in_active, mailbox>>,
         \A i \in 1 .. Len(ypipes) : /\ ypipes'[i].asleep <=> ypipes[i].asleep
                                     /\ ypipes'[i].ready = ypipes[i].ready
  PROVE  Sleeping'
<1>1. ASSUME NEW d \in Ends PROVE Undisturbed(d)
  <2>1. Rests(d)' => Rests(d)
    BY Zenon DEF Rests
  <2>2. Rests(d) => inpipe[d] \in 1 .. Len(ypipes)
    BY RestsReads, Pointers, Zenon
  <2> QED
    BY <2>1, <2>2, Zenon DEF Undisturbed
<1>2. 1 \in Ends /\ Peer(1) \in Ends
  BY TwoEnds, Zenon DEF Ends
<1> QED
  BY <1>1, <1>2, SleepingEnds, Zenon

\* A step of end e that changes, at most, the ypipe it reads.
LEMMA ReaderSleep ==
  ASSUME SharedInv, Sleeping, NEW e \in Ends, Covered(e)',
         state'[Peer(e)] = state[Peer(e)], in_active'[Peer(e)] = in_active[Peer(e)],
         inpipe'[Peer(e)] = inpipe[Peer(e)],
         Has(mailbox[Peer(e)], "activate_read") => Has(mailbox'[Peer(e)], "activate_read"),
         \A i \in 1 .. Len(ypipes) : i # inpipe[e] => ypipes'[i] = ypipes[i]
  PROVE  Sleeping'
<1> DEFINE p == Peer(e)
<1>0. p \in Ends /\ Peer(p) = e
  BY TwoEnds, Zenon
<1>1. Undisturbed(p)
  <2>1. Rests(p)' => Rests(p)
    BY Zenon DEF Rests
  <2>2. Rests(p) => inpipe[p] \in 1 .. Len(ypipes) /\ inpipe[p] # inpipe[e]
    BY <1>0, RestsReads, OwnYPipe, Zenon
  <2> QED
    BY <2>1, <2>2, Zenon DEF Undisturbed
<1> QED
  BY <1>0, <1>1, SleepingEnds, Zenon

\* A step of end e that flushes the ypipe it writes to, which is q but for
\* what has been written to it, and sends the wakeup that takes.
LEMMA WriterSleep ==
  ASSUME SharedInv, Sleeping, NEW e \in Ends, outpipe[e] # NULL,
         UNCHANGED <<inpipe, in_active>>, state'[Peer(e)] = state[Peer(e)],
         Rests(e)' => Rests(e), mailbox'[e] = mailbox[e],
         NEW q, IsYPipe(q), q.asleep <=> ypipes[outpipe[e]].asleep,
         q.ready = ypipes[outpipe[e]].ready,
         IsChanged(ypipes', ypipes, outpipe[e], Flushed(q)),
         Has(mailbox[Peer(e)], "activate_read") => Has(mailbox'[Peer(e)], "activate_read"),
         WakesReader(q) => Has(mailbox'[Peer(e)], "activate_read")
  PROVE  Sleeping'
<1> DEFINE p == Peer(e)
           o == outpipe[e]
<1>0. p \in Ends /\ Peer(p) = e
  BY TwoEnds, Zenon
<1>1. AllYPipes(ypipes) /\ o \in 1 .. Len(ypipes)
  BY Pointers, Zenon
<1>2. /\ IsYPipe(Flushed(q))
      /\ Flushed(q).asleep <=> q.asleep /\ q.complete = 0
      /\ Flushed(q).ready = q.ready \o SubSeq(q.batch, 1, q.complete)
  BY FlushedYPipe, Zenon
<1>3. /\ ypipes'[o] = Flushed(q)
      /\ \A i \in 1 .. Len(ypipes) : i # o => ypipes'[i] = ypipes[i]
  <2> SUFFICES ASSUME NEW r, IsYPipe(r), IsChanged(ypipes', ypipes, o, r)
               PROVE  /\ ypipes'[o] = r
                      /\ \A i \in 1 .. Len(ypipes) : i # o => ypipes'[i] = ypipes[i]
    BY <1>2, Zenon
  <2> HIDE DEF o
  <2> QED
    BY <1>1, ChangedYPipe
<1>4. ~WakesReader(q) /\ q.asleep => /\ Flushed(q).asleep /\ Flushed(q).ready = q.ready
  <2>1. q.ready \in Seq(Messages) /\ q.complete \in Nat
    BY Zenon DEF IsYPipe, YPipes
  <2>2. ~WakesReader(q) /\ q.asleep => q.complete = 0
    BY <2>1, SMTT(30) DEF WakesReader
  <2>3. SubSeq(q.batch, 1, 0) = <<>> /\ q.ready \o <<>> = q.ready
    BY <2>1, ConcatEmptySeq, SMTT(30)
  <2> QED
    BY <1>2, <2>2, <2>3, Zenon
<1>5. Undisturbed(e)
  <2>1. Rests(e) => inpipe[e] \in 1 .. Len(ypipes) /\ inpipe[e] # o
    BY RestsReads, OwnYPipe, Zenon
  <2> QED
    BY <1>3, <2>1, Zenon DEF Undisturbed
<1>6. Covered(p)'
  <2>1. CASE inpipe[p] # o
    <3>1. Rests(p)' => Rests(p)
      BY Zenon DEF Rests
    <3>2. Rests(p) => inpipe[p] \in 1 .. Len(ypipes)
      BY <1>0, RestsReads, Pointers, Zenon
    <3>3. Undisturbed(p)
      BY <1>3, <2>1, <3>1, <3>2, Zenon DEF Undisturbed
    <3> QED
      BY <1>0, <3>3, SleepingEnds, Zenon
  <2>2. CASE inpipe[p] = o
    <3>1. Rests(p)' => Rests(p)
      BY Zenon DEF Rests
    <3>2. Covered(p)
      BY <1>0, SleepingEnds, Zenon
    <3>3. Rests(p) => Has(mailbox'[p], "activate_read") \/ (q.asleep /\ q.ready = <<>>)
      BY <2>2, <3>2, Zenon DEF Covered, Dozes, InTransit
    <3> QED
      BY <1>3, <1>4, <2>2, <3>1, <3>3, Zenon DEF Covered, Dozes, InTransit
  <2> QED
    BY <2>1, <2>2, Zenon
<1> QED
  BY <1>5, <1>6, SleepingEnds, Zenon

\* The lists of commands that one step sends.
LEMMA CommandLists ==
  /\ <<>> \in Seq(Commands)
  /\ \A t \in CommandTypes : <<Command(t)>> \in Seq(Commands)
  /\ \A n \in Nat : <<ActivateWrite(n)>> \in Seq(Commands) /\ <<HiccupTo(n)>> \in Seq(Commands)
  /\ \A q : Wakeup(q) \in Seq(Commands)
  /\ \A q : WakesReader(q) => Has(Wakeup(q), "activate_read")
<1>1. \A c \in Commands : <<c>> \in Seq(Commands)
  OBVIOUS
<1>2. \A t \in CommandTypes : Command(t) \in Commands
  BY Zenon DEF Command, Commands
<1>3. \A n \in Nat : ActivateWrite(n) \in Commands /\ HiccupTo(n) \in Commands
  BY Zenon DEF ActivateWrite, HiccupTo, Commands, CommandTypes
<1>4. <<>> \in Seq(Commands) /\ "activate_read" \in CommandTypes
  BY EmptySeq, Zenon DEF CommandTypes
<1>5. \A q : WakesReader(q) => Has(Wakeup(q), "activate_read")
  BY DEF Wakeup, Has, Command
<1>6. \A q : Wakeup(q) \in Seq(Commands)
  BY <1>1, <1>2, <1>4, Zenon DEF Wakeup
<1> QED
  BY <1>1, <1>2, <1>3, <1>4, <1>5, <1>6, Zenon

\* What Send does to the mailboxes.
LEMMA SendKeeps ==
  ASSUME SharedInv, NEW e \in Ends, NEW cs \in Seq(Commands), Send(Peer(e), cs), NEW t
  PROVE  /\ mailbox'[e] = mailbox[e]
         /\ Has(mailbox[Peer(e)], t) => Has(mailbox'[Peer(e)], t)
         /\ Has(cs, t) => Has(mailbox'[Peer(e)], t)
<1>0. Peer(e) \in Ends /\ Peer(e) # e
  BY TwoEnds, Zenon
<1>1. mailbox \in [Ends -> Seq(Commands)] /\ mailbox[Peer(e)] \in Seq(Commands)
  BY Pointers, Zenon
<1>2. mailbox'[e] = mailbox[e] /\ mailbox'[Peer(e)] = mailbox[Peer(e)] \o cs
  BY <1>0, <1>1, Zenon DEF Send
<1> QED
  BY <1>1, <1>2, SentAfter, Zenon

\* What Process does to them.
LEMMA ProcessKeeps ==
  ASSUME SharedInv, NEW e \in Ends, NEW cs \in Seq(Commands), Process(e, cs),
         NEW u, IsNext(e, u), NEW t
  PROVE  /\ u # t /\ Has(mailbox[e], t) => Has(mailbox'[e], t)
         /\ Has(mailbox[Peer(e)], t) => Has(mailbox'[Peer(e)], t)
<1>0. Peer(e) \in Ends /\ Peer(e) # e
  BY TwoEnds, Zenon
<1>1. mailbox \in [Ends -> Seq(Commands)] /\ mailbox[Peer(e)] \in Seq(Commands)
      /\ mailbox[e] \in Seq(Commands)
  BY Pointers, Zenon
<1>2. mailbox'[e] = Tail(mailbox[e]) /\ mailbox'[Peer(e)] = mailbox[Peer(e)] \o cs
  BY <1>0, <1>1, Zenon DEF Process
<1>3. Has(mailbox[e], t) <=> Has(Tail(mailbox[e]), t) \/ Head(mailbox[e]).type = t
  BY <1>1, Taken, Zenon DEF IsNext
<1>4. Has(mailbox[Peer(e)], t) => Has(mailbox'[Peer(e)], t)
  BY <1>1, <1>2, SentAfter, Zenon
<1> QED
  BY <1>2, <1>3, <1>4, Zenon DEF IsNext

\* write (), rollback (), terminate () again and set_hwms ()
LEMMA QuietActionsSleep ==
  ASSUME SharedInv, Sleeping, NEW e \in Ends,
         \/ \E msg \in Writes(e) : Write(e, msg)
         \/ WriteFull(e) \/ Rollback(e) \/ SetHwms
         \/ \E d \in Delays[e] : TerminateAgain(e, d)
  PROVE  Sleeping'
<1>1. UNCHANGED <<state, inpipe, in_active, mailbox>>
  BY Zenon DEF Write, WriteFull, Rollback, SetHwms, TerminateAgain, fields
<1>2. ASSUME NEW i \in 1 .. Len(ypipes)
      PROVE  /\ ypipes'[i].asleep <=> ypipes[i].asleep
             /\ ypipes'[i].ready = ypipes[i].ready
  <2> DEFINE o == outpipe[e]
  <2>1. ASSUME NEW q, IsYPipe(q), q.asleep = ypipes[o].asleep, q.ready = ypipes[o].ready,
               o # NULL, IsChanged(ypipes', ypipes, o, q)
        PROVE  ypipes'[i].asleep = ypipes[i].asleep /\ ypipes'[i].ready = ypipes[i].ready
    <3>1. AllYPipes(ypipes) /\ o \in 1 .. Len(ypipes)
      BY <2>1, Pointers, Zenon
    <3>2. ypipes'[o] = q /\ \A j \in 1 .. Len(ypipes) : j # o => ypipes'[j] = ypipes[j]
      BY <2>1, <3>1, ChangedYPipe
    <3> QED
      BY <2>1, <3>2, Zenon
  <2>2. ASSUME NEW msg \in Writes(e), Write(e, msg)
        PROVE  ypipes'[i].asleep = ypipes[i].asleep /\ ypipes'[i].ready = ypipes[i].ready
    <3>1. o # NULL /\ IsYPipe(ypipes[o])
      BY <2>2, Pointers, Zenon DEF Write, Writable, Acked
    <3>2. IsChanged(ypipes', ypipes, o, Written(ypipes[o], msg))
      BY <2>2, Zenon DEF Write, IsChanged
    <3>3. /\ IsYPipe(Written(ypipes[o], msg))
          /\ Written(ypipes[o], msg).asleep = ypipes[o].asleep
          /\ Written(ypipes[o], msg).ready = ypipes[o].ready
      BY <3>1, WritesMessages, WrittenYPipe, Zenon
    <3> QED
      BY <2>1, <3>1, <3>2, <3>3, Zenon
  <2>3. ASSUME Rollback(e)
        PROVE  ypipes'[i].asleep = ypipes[i].asleep /\ ypipes'[i].ready = ypipes[i].ready
    <3>1. o # NULL /\ IsYPipe(ypipes[o])
      BY <2>3, Pointers, Zenon DEF Rollback
    <3>2. IsChanged(ypipes', ypipes, o, Unwritten(ypipes[o]))
      BY <2>3, Zenon DEF Rollback, IsChanged
    <3>3. /\ IsYPipe(Unwritten(ypipes[o]))
          /\ Unwritten(ypipes[o]).asleep = ypipes[o].asleep
          /\ Unwritten(ypipes[o]).ready = ypipes[o].ready
      BY <3>1, UnwrittenYPipe, Zenon
    <3> QED
      BY <2>1, <3>1, <3>2, <3>3, Zenon
  <2>4. CASE WriteFull(e) \/ SetHwms \/ \E d \in Delays[e] : TerminateAgain(e, d)
    BY <2>4, Zenon DEF WriteFull, SetHwms, TerminateAgain
  <2> QED
    BY <2>2, <2>3, <2>4, Zenon
<1> QED
  BY <1>1, <1>2, QuietSleep, Zenon

\* flush ()
LEMMA FlushSleep ==
  ASSUME SharedInv, Sleeping, NEW e \in Ends, Flush(e)
  PROVE  Sleeping'
<1> DEFINE q == ypipes[outpipe[e]]
<1>1. outpipe[e] # NULL /\ UNCHANGED <<inpipe, in_active, state>>
      /\ Send(Peer(e), Wakeup(q)) /\ IsChanged(ypipes', ypipes, outpipe[e], Flushed(q))
  BY Zenon DEF Flush, fields, IsChanged
<1>2. IsYPipe(q)
  BY <1>1, Pointers, Zenon
<1>3. Rests(e)' => Rests(e)
  BY <1>1, Zenon DEF Rests
<1>4. /\ mailbox'[e] = mailbox[e]
      /\ Has(mailbox[Peer(e)], "activate_read") => Has(mailbox'[Peer(e)], "activate_read")
      /\ WakesReader(q) => Has(mailbox'[Peer(e)], "activate_read")
  BY <1>1, CommandLists, SendKeeps, Zenon
<1>5. (q.asleep <=> ypipes[outpipe[e]].asleep) /\ q.ready = ypipes[outpipe[e]].ready
  BY Zenon
<1>6. state'[Peer(e)] = state[Peer(e)]
  BY <1>1, Zenon
<1> HIDE DEF q
<1> QED
  BY <1>1, <1>2, <1>3, <1>4, <1>5, <1>6, WriterSleep, Zenon

\* terminate ()
LEMMA TerminateSleep ==
  ASSUME SharedInv, Sleeping, NEW e \in Ends, NEW b, Terminate(e, b)
  PROVE  Sleeping'
<1> DEFINE p == Peer(e)
           o == outpipe[e]
           q == Written(Unwritten(ypipes[o]), Delimiter)
           asks == state[e] \in {"active", "delimiter_received"}
           answers == state[e] = "waiting_for_delimiter" /\ ~b
           ack == <<Command("pipe_term_ack")>>
           ask == IF asks THEN <<Command("pipe_term")>> ELSE <<>>
<1>0. p \in Ends /\ p # e /\ Peer(p) = e
  BY TwoEnds, Zenon
<1>1. /\ state[e] \in {"active", "delimiter_received", "waiting_for_delimiter"}
      /\ UNCHANGED <<inpipe, in_active>>
      /\ state' = [state EXCEPT ![e] = CASE asks -> "term_req_sent1"
                                         [] answers -> "term_ack_sent"
                                         [] OTHER -> @]
  BY Zenon DEF Terminate
<1>2. state'[p] = state[p] /\ (Rests(e)' => Rests(e) /\ ~answers)
  <2>1. state \in [Ends -> States]
    BY Types, Zenon DEF SharedInv, ProtocolTypeOK
  <2>2. /\ state'[p] = state[p]
        /\ asks => state'[e] = "term_req_sent1"
        /\ answers => state'[e] = "term_ack_sent"
        /\ ~asks /\ ~answers => state'[e] = state[e]
    BY <1>0, <1>1, <2>1, Zenon
  <2> QED
    BY <1>1, <2>2, Zenon DEF Rests
<1>3. CASE answers
  <2>1. UNCHANGED ypipes /\ Send(p, ack)
    BY <1>3, Zenon DEF Terminate
  <2>2. Has(mailbox[p], "activate_read") => Has(mailbox'[p], "activate_read")
    <3>1. ack \in Seq(Commands)
      BY CommandLists, Zenon DEF CommandTypes
    <3> HIDE DEF ack
    <3> QED
      BY <2>1, <3>1, SendKeeps, Zenon
  <2>3. Covered(e)'
    BY <1>2, <1>3, Zenon DEF Covered
  <2>4. /\ in_active'[p] = in_active[p] /\ inpipe'[p] = inpipe[p] /\ state'[p] = state[p]
        /\ \A i \in 1 .. Len(ypipes) : i # inpipe[e] => ypipes'[i] = ypipes[i]
    BY <1>1, <1>2, <2>1, Zenon
  <2> QED
    BY <2>2, <2>3, <2>4, ReaderSleep, Zenon
<1>4. CASE ~answers
  <2>1. /\ IsChanged(ypipes', ypipes, o, Flushed(q))
        /\ Send(p, ask \o Wakeup(q))
    BY <1>4, Zenon DEF Terminate, IsChanged
  <2>2. o # NULL /\ IsYPipe(ypipes[o])
    BY <1>1, Pointers, Zenon DEF Acked
  <2>3. IsYPipe(q) /\ q.asleep = ypipes[o].asleep /\ q.ready = ypipes[o].ready
    <3>1. Delimiter \in Messages
      BY Zenon DEF Delimiter, Message, Messages
    <3> DEFINE r == Unwritten(ypipes[o])
    <3>2. IsYPipe(r) /\ r.asleep = ypipes[o].asleep /\ r.ready = ypipes[o].ready
      BY <2>2, UnwrittenYPipe, Zenon
    <3> HIDE DEF r
    <3>3. /\ IsYPipe(Written(r, Delimiter)) /\ Written(r, Delimiter).asleep = r.asleep
          /\ Written(r, Delimiter).ready = r.ready
      BY <3>1, <3>2, WrittenYPipe, Zenon
    <3> QED
      BY <3>2, <3>3, Zenon DEF r
  <2> HIDE DEF q
  <2>4. /\ mailbox'[e] = mailbox[e]
        /\ Has(mailbox[p], "activate_read") => Has(mailbox'[p], "activate_read")
        /\ WakesReader(q) => Has(mailbox'[p], "activate_read")
    <3>1. ask \in Seq(Commands) /\ Wakeup(q) \in Seq(Commands)
      BY CommandLists, Zenon DEF CommandTypes
    <3> HIDE DEF ask
    <3>2. ask \o Wakeup(q) \in Seq(Commands)
      BY <3>1
    <3>3. Has(Wakeup(q), "activate_read") => Has(ask \o Wakeup(q), "activate_read")
      BY <3>1, SentAfter, Zenon
    <3>4. WakesReader(q) => Has(Wakeup(q), "activate_read")
      BY CommandLists, Zenon
    <3> QED
      BY <2>1, <3>2, <3>3, <3>4, SendKeeps, Zenon
  <2> QED
    BY <1>1, <1>2, <2>1, <2>2, <2>3, <2>4, WriterSleep, Zenon
<1> QED
  BY <1>3, <1>4, Zenon

\* check_read () and read (): the end goes to sleep, takes the delimiter or
\* stays awake.
LEMMA ReadSleep ==
  ASSUME LeastFact, SharedInv, Sleeping, NEW e \in Ends, CheckRead(e) \/ Read(e)
  PROVE  Sleeping'
<1> DEFINE p == Peer(e)
           q == ypipes[inpipe[e]]
           s == SkipCredentials(q)
<1>0. p \in Ends /\ p # e /\ Peer(p) = e
  BY TwoEnds, Zenon
<1>1. /\ state[e] \in {"active", "waiting_for_delimiter"} /\ in_active[e]
      /\ inpipe[e] # NULL /\ inpipe[e] \in 1 .. Len(ypipes) /\ AllYPipes(ypipes)
      /\ IsYPipe(q) /\ IsYPipe(s)
  <2>1. state[e] \in {"active", "waiting_for_delimiter"} /\ in_active[e]
    BY Zenon DEF CheckRead, Read, Readable
  <2>2. inpipe[e] # NULL /\ inpipe[e] \in 1 .. Len(ypipes) /\ AllYPipes(ypipes) /\ IsYPipe(q)
    BY <2>1, Pointers, Zenon
  <2>3. IsYPipe(s)
    BY <2>2, SkippedYPipe, Zenon
  <2> QED
    BY <2>1, <2>2, <2>3, Zenon
<1>2. \E r : /\ IsYPipe(r)
             /\ \/ r.ready = <<>> /\ GoPassive(e, r)
                \/ r.ready # <<>> /\ ProcessDelimiter(e, [r EXCEPT !.ready = Tail(@)])
                \/ r.ready # <<>> /\ Deliver(e, r)
  <2> HIDE DEF s
  <2>1. \/ q.ready = <<>> /\ GoPassive(e, q)
        \/ q.ready # <<>> /\ ProcessDelimiter(e, [q EXCEPT !.ready = Tail(@)])
        \/ s.ready = <<>> /\ GoPassive(e, s)
        \/ s.ready # <<>> /\ ProcessDelimiter(e, [s EXCEPT !.ready = Tail(@)])
        \/ s.ready # <<>> /\ Deliver(e, s)
    BY Zenon DEF CheckRead, Read, s
  <2> HIDE DEF q
  <2> QED
    BY <1>1, <2>1, Zenon
<1>3. PICK r : /\ IsYPipe(r)
               /\ \/ r.ready = <<>> /\ GoPassive(e, r)
                  \/ r.ready # <<>> /\ ProcessDelimiter(e, [r EXCEPT !.ready = Tail(@)])
                  \/ r.ready # <<>> /\ Deliver(e, r)
  BY <1>2, Zenon
<1>4. /\ state \in [Ends -> States] /\ in_active \in [Ends -> BOOLEAN]
      /\ lwm[e] \in Nat /\ msgs_read[e] \in Nat
  BY Types, Zenon DEF SharedInv, ProtocolTypeOK, PlainTypeOK
<1>5. ASSUME NEW t, IsYPipe(t), IsChanged(ypipes', ypipes, inpipe[e], t)
      PROVE  /\ ypipes'[inpipe[e]] = t
             /\ \A i \in 1 .. Len(ypipes) : i # inpipe[e] => ypipes'[i] = ypipes[i]
  BY <1>1, <1>5, ChangedYPipe
<1>6. CASE r.ready = <<>> /\ GoPassive(e, r)
  <2> DEFINE t == [r EXCEPT !.asleep = TRUE]
  <2>1. /\ IsChanged(ypipes', ypipes, inpipe[e], t) /\ UNCHANGED <<state, inpipe, mailbox>>
        /\ in_active' = [in_active EXCEPT ![e] = FALSE]
    BY <1>6, Zenon DEF GoPassive, IsChanged
  <2>2. t.asleep /\ t.ready = <<>> /\ IsYPipe(t)
    BY <1>3, <1>6, Zenon DEF IsYPipe, YPipes
  <2> HIDE DEF t
  <2>3. /\ ypipes'[inpipe[e]] = t
        /\ \A i \in 1 .. Len(ypipes) : i # inpipe[e] => ypipes'[i] = ypipes[i]
    BY <1>5, <2>1, <2>2, Zenon
  <2>4. in_active'[p] = in_active[p]
    BY <1>0, <1>4, <2>1, Zenon
  <2>5. Covered(e)'
    BY <2>1, <2>2, <2>3, Zenon DEF Covered, Dozes
  <2>6. /\ state'[p] = state[p] /\ inpipe'[p] = inpipe[p]
        /\ Has(mailbox[p], "activate_read") => Has(mailbox'[p], "activate_read")
    BY <2>1, Zenon
  <2> QED
    BY <2>3, <2>4, <2>5, <2>6, ReaderSleep, Zenon
<1>7. CASE r.ready # <<>> /\ ProcessDelimiter(e, [r EXCEPT !.ready = Tail(@)])
  <2> DEFINE t == [r EXCEPT !.ready = Tail(@)]
             ack == <<Command("pipe_term_ack")>>
  <2>1. /\ IsChanged(ypipes', ypipes, inpipe[e], t) /\ UNCHANGED <<inpipe, in_active>>
        /\ \/ state' = [state EXCEPT ![e] = "delimiter_received"] /\ UNCHANGED mailbox
           \/ state' = [state EXCEPT ![e] = "term_ack_sent"] /\ Send(p, ack)
    BY <1>7, Zenon DEF ProcessDelimiter, IsChanged
  <2>2. IsYPipe(t)
    BY <1>3, <1>7, TakenYPipe, Zenon
  <2>3. ack \in Seq(Commands)
    BY CommandLists, Zenon DEF CommandTypes
  <2> HIDE DEF t, ack
  <2>4. \A i \in 1 .. Len(ypipes) : i # inpipe[e] => ypipes'[i] = ypipes[i]
    BY <1>5, <2>1, <2>2, Zenon
  <2>5. /\ state'[p] = state[p] /\ in_active'[p] = in_active[p] /\ inpipe'[p] = inpipe[p]
        /\ state'[e] \notin {"active", "waiting_for_delimiter"}
    BY <1>0, <1>4, <2>1, Zenon
  <2>6. Covered(e)'
    BY <2>5, Zenon DEF Covered, Rests
  <2>7. Has(mailbox[p], "activate_read") => Has(mailbox'[p], "activate_read")
    BY <2>1, <2>3, SendKeeps, Zenon
  <2> QED
    BY <2>4, <2>5, <2>6, <2>7, ReaderSleep, Zenon
<1>8. CASE r.ready # <<>> /\ Deliver(e, r)
  <2> DEFINE t == [r EXCEPT !.ready = Tail(@)]
             msg == Head(r.ready)
             n == IF msg.more \/ msg.kind = "identity" THEN msgs_read[e] ELSE msgs_read[e] + 1
             cs == IF lwm[e] > 0 /\ n % lwm[e] = 0 THEN <<ActivateWrite(n)>> ELSE <<>>
  <2>1. /\ IsChanged(ypipes', ypipes, inpipe[e], t) /\ UNCHANGED <<inpipe, in_active, state>>
        /\ Send(p, cs)
    BY <1>8, Zenon DEF Deliver, IsChanged
  <2>2. IsYPipe(t)
    BY <1>3, <1>8, TakenYPipe, Zenon
  <2>3. cs \in Seq(Commands)
    <3>1. n \in Nat
      BY <1>4
    <3> HIDE DEF n
    <3> QED
      BY <3>1, CommandLists, Zenon
  <2> HIDE DEF t, cs
  <2>4. \A i \in 1 .. Len(ypipes) : i # inpipe[e] => ypipes'[i] = ypipes[i]
    BY <1>5, <2>1, <2>2, Zenon
  <2>5. Covered(e)'
    BY <1>1, <2>1, Zenon DEF Covered, Rests
  <2>6. /\ Has(mailbox[p], "activate_read") => Has(mailbox'[p], "activate_read")
        /\ state'[p] = state[p] /\ in_active'[p] = in_active[p] /\ inpipe'[p] = inpipe[p]
    BY <2>1, <2>3, SendKeeps, Zenon
  <2> QED
    BY <2>4, <2>5, <2>6, ReaderSleep, Zenon
<1> QED
  BY <1>3, <1>6, <1>7, <1>8, Zenon

\* hiccup (): the end reads a new ypipe, awake.
LEMMA HiccupSleep ==
  ASSUME SharedInv, Sleeping, NEW e \in Ends, Hiccup(e)
  PROVE  Sleeping'
<1> DEFINE p == Peer(e)
           cs == <<HiccupTo(Len(ypipes) + 1)>>
<1>0. p \in Ends /\ p # e /\ Peer(p) = e
  BY TwoEnds, Zenon
<1>1. /\ inpipe \in [Ends -> 0 .. Len(ypipes)] /\ in_active \in [Ends -> BOOLEAN]
      /\ AllYPipes(ypipes) /\ Len(ypipes) \in Nat
  BY Types, Pointers, Zenon DEF SharedInv, ProtocolTypeOK, PlainTypeOK
<1>2. /\ UNCHANGED state /\ in_active' = [in_active EXCEPT ![e] = TRUE]
      /\ inpipe' = [inpipe EXCEPT ![e] = Len(ypipes) + 1]
      /\ ypipes' = Append(ypipes, NewYPipe) /\ Send(p, cs)
  BY Zenon DEF Hiccup
<1>3. cs \in Seq(Commands)
  BY <1>1, CommandLists
<1> HIDE DEF cs
<1>4. /\ in_active'[e] /\ in_active'[p] = in_active[p] /\ inpipe'[p] = inpipe[p]
      /\ state'[p] = state[p]
  BY <1>0, <1>1, <1>2, Zenon
<1>5. \A i \in 1 .. Len(ypipes) : ypipes'[i] = ypipes[i]
  <2> HIDE DEF NewYPipe
  <2> QED
    BY <1>1, <1>2 DEF AllYPipes
<1>6. Covered(e)'
  BY <1>4, Zenon DEF Covered, Rests
<1>7. Has(mailbox[p], "activate_read") => Has(mailbox'[p], "activate_read")
  BY <1>2, <1>3, SendKeeps, Zenon
<1> QED
  BY <1>4, <1>5, <1>6, <1>7, ReaderSleep, Zenon

\* process_activate_read () and process_activate_write ()
LEMMA ActivateSleep ==
  ASSUME SharedInv, Sleeping, NEW e \in Ends, ProcessActivateRead(e) \/ ProcessActivateWrite(e)
  PROVE  Sleeping'
<1> DEFINE p == Peer(e)
<1>0. p \in Ends /\ p # e /\ Peer(p) = e
  BY TwoEnds, Zenon
<1>1. in_active \in [Ends -> BOOLEAN]
  BY Types, Zenon DEF SharedInv, PlainTypeOK
<1>2. /\ UNCHANGED <<state, inpipe, ypipes>> /\ Process(e, <<>>)
      /\ \/ IsNext(e, "activate_read")
            /\ in_active' = [in_active EXCEPT ![e] =
                               @ \/ state[e] \in {"active", "waiting_for_delimiter"}]
         \/ IsNext(e, "activate_write") /\ UNCHANGED in_active
  BY Zenon DEF ProcessActivateRead, ProcessActivateWrite
<1>3. in_active'[p] = in_active[p] /\ <<>> \in Seq(Commands)
  BY <1>0, <1>1, <1>2, EmptySeq, Zenon
<1>4. Has(mailbox[p], "activate_read") => Has(mailbox'[p], "activate_read")
  BY <1>2, <1>3, ProcessKeeps, Zenon
<1>5. Covered(e)'
  <2>1. CASE IsNext(e, "activate_write") /\ UNCHANGED in_active
    <3>1. "activate_write" # "activate_read"
      BY Zenon
    <3>2. Has(mailbox[e], "activate_read") => Has(mailbox'[e], "activate_read")
      BY <1>2, <1>3, <2>1, <3>1, ProcessKeeps, Zenon
    <3>3. Undisturbed(e)
      BY <1>2, <2>1, <3>2, Zenon DEF Undisturbed, Rests
    <3> QED
      BY <3>3, SleepingEnds, Zenon
  <2>2. CASE in_active' = [in_active EXCEPT ![e] =
                             @ \/ state[e] \in {"active", "waiting_for_delimiter"}]
    <3>1. in_active'[e] <=> in_active[e] \/ state[e] \in {"active", "waiting_for_delimiter"}
      BY <1>1, <2>2, Zenon
    <3> QED
      BY <1>2, <3>1, Zenon DEF Covered, Rests
  <2> QED
    BY <1>2, <2>1, <2>2, Zenon
<1>6. /\ state'[p] = state[p] /\ inpipe'[p] = inpipe[p]
      /\ \A i \in 1 .. Len(ypipes) : i # inpipe[e] => ypipes'[i] = ypipes[i]
  BY <1>2, Zenon
<1> QED
  BY <1>3, <1>4, <1>5, <1>6, ReaderSleep, Zenon

\* process_hiccup (): nobody reads the ypipe that is deleted.
LEMMA ProcessHiccupSleep ==
  ASSUME SharedInv, Sleeping, NEW e \in Ends, ProcessHiccup(e)
  PROVE  Sleeping'
<1> DEFINE p == Peer(e)
           o == outpipe[e]
<1>0. p \in Ends /\ p # e /\ Peer(p) = e
  BY TwoEnds, Zenon
<1>1. /\ UNCHANGED <<state, inpipe, in_active>> /\ Process(e, <<>>) /\ IsNext(e, "hiccup")
      /\ IsChanged(ypipes', ypipes, o, Deleted(ypipes[o])) /\ o # NULL
  BY Zenon DEF ProcessHiccup, IsChanged
<1>2. o \in 1 .. Len(ypipes) /\ AllYPipes(ypipes) /\ IsYPipe(Deleted(ypipes[o]))
  BY <1>1, Pointers, NewYPipes, Zenon
<1>3. \A i \in 1 .. Len(ypipes) : i # o => ypipes'[i] = ypipes[i]
  BY <1>1, <1>2, ChangedYPipe
<1>4. inpipe[p] # o
  BY <1>1, SafeEnd, Zenon
<1>5. Rests(e) => inpipe[e] # o /\ inpipe[e] \in 1 .. Len(ypipes)
  BY RestsReads, OwnYPipe, Zenon
<1>6. Rests(p) => inpipe[p] \in 1 .. Len(ypipes)
  BY <1>0, RestsReads, OwnYPipe, Zenon
<1>7. /\ Has(mailbox[p], "activate_read") => Has(mailbox'[p], "activate_read")
      /\ Has(mailbox[e], "activate_read") => Has(mailbox'[e], "activate_read")
  <2>1. <<>> \in Seq(Commands) /\ "hiccup" # "activate_read"
    BY EmptySeq, Zenon
  <2> QED
    BY <1>1, <2>1, ProcessKeeps, Zenon
<1>8. (Rests(e)' => Rests(e)) /\ (Rests(p)' => Rests(p))
  BY <1>1, Zenon DEF Rests
<1>9. Undisturbed(e) /\ Undisturbed(p)
  BY <1>1, <1>3, <1>4, <1>5, <1>6, <1>7, <1>8, Zenon DEF Undisturbed
<1> QED
  BY <1>0, <1>9, SleepingEnds, Zenon

\* process_pipe_term () and process_pipe_term_ack ()
LEMMA PipeTermSleep ==
  ASSUME SharedInv, Sleeping, NEW e \in Ends, ProcessPipeTerm(e) \/ ProcessPipeTermAck(e)
  PROVE  Sleeping'
<1> DEFINE p == Peer(e)
<1>0. p \in Ends /\ p # e /\ Peer(p) = e
  BY TwoEnds, Zenon
<1>1. /\ state \in [Ends -> States] /\ inpipe \in [Ends -> 0 .. Len(ypipes)]
      /\ AllYPipes(ypipes)
  BY Types, Zenon DEF SharedInv, ProtocolTypeOK
<1>2. CASE ProcessPipeTerm(e)
  <2> DEFINE waits == state[e] = "active" /\ delay[e]
             cs == IF waits THEN <<>> ELSE <<Command("pipe_term_ack")>>
  <2>1. /\ UNCHANGED <<inpipe, in_active, ypipes>> /\ Process(e, cs) /\ IsNext(e, "pipe_term")
        /\ state' = [state EXCEPT ![e] = CASE waits -> "waiting_for_delimiter"
                                           [] @ = "term_req_sent1" -> "term_req_sent2"
                                           [] OTHER -> "term_ack_sent"]
    BY <1>2, Zenon DEF ProcessPipeTerm
  <2>2. cs \in Seq(Commands) /\ "pipe_term" # "activate_read"
    BY CommandLists, Zenon DEF CommandTypes
  <2>3. state'[p] = state[p] /\ (Rests(e)' => Rests(e))
    <3>1. /\ state'[p] = state[p]
          /\ ~waits => state'[e] \in {"term_req_sent2", "term_ack_sent"}
      BY <1>0, <1>1, <2>1, Zenon
    <3> QED
      BY <2>1, <3>1, Zenon DEF Rests
  <2> HIDE DEF cs, waits
  <2>4. /\ Has(mailbox[p], "activate_read") => Has(mailbox'[p], "activate_read")
        /\ Has(mailbox[e], "activate_read") => Has(mailbox'[e], "activate_read")
    BY <2>1, <2>2, ProcessKeeps, Zenon
  <2>5. Covered(e)'
    <3>1. Undisturbed(e)
      BY <2>1, <2>3, <2>4, Zenon DEF Undisturbed
    <3> QED
      BY <3>1, SleepingEnds, Zenon
  <2>6. /\ in_active'[p] = in_active[p] /\ inpipe'[p] = inpipe[p]
        /\ \A i \in 1 .. Len(ypipes) : i # inpipe[e] => ypipes'[i] = ypipes[i]
    BY <2>1, Zenon
  <2> QED
    BY <2>3, <2>4, <2>5, <2>6, ReaderSleep, Zenon
<1>3. CASE ProcessPipeTermAck(e)
  <2> DEFINE o == inpipe[e]
             cs == IF state[e] = "term_req_sent1" THEN <<Command("pipe_term_ack")>> ELSE <<>>
  <2>1. /\ UNCHANGED in_active /\ Process(e, cs) /\ IsNext(e, "pipe_term_ack")
        /\ state' = [state EXCEPT ![e] = "deleted"] /\ inpipe' = [inpipe EXCEPT ![e] = NULL]
        /\ IsChanged(ypipes', ypipes, o, Deleted(ypipes[o]))
        /\ state[e] \in {"term_req_sent1", "term_ack_sent", "term_req_sent2"}
    BY <1>3, Zenon DEF ProcessPipeTermAck, IsChanged
  <2>2. cs \in Seq(Commands)
    BY CommandLists, Zenon DEF CommandTypes
  <2>3. o \in 1 .. Len(ypipes) /\ IsYPipe(Deleted(ypipes[o]))
    BY <2>1, Pointers, NewYPipes, Zenon
  <2>4. \A i \in 1 .. Len(ypipes) : i # inpipe[e] => ypipes'[i] = ypipes[i]
    BY <1>1, <2>1, <2>3, ChangedYPipe
  <2>5. /\ state'[p] = state[p] /\ inpipe'[p] = inpipe[p] /\ in_active'[p] = in_active[p]
        /\ state'[e] \notin {"active", "waiting_for_delimiter"}
    BY <1>0, <1>1, <2>1, Zenon
  <2> HIDE DEF cs
  <2>6. Has(mailbox[p], "activate_read") => Has(mailbox'[p], "activate_read")
    BY <2>1, <2>2, ProcessKeeps, Zenon
  <2>7. Covered(e)'
    BY <2>5, Zenon DEF Covered, Rests
  <2> QED
    BY <2>4, <2>5, <2>6, <2>7, ReaderSleep, Zenon
<1> QED
  BY <1>2, <1>3, Zenon

\* The two invariants imply what they are for.
LEMMA SharedInvSafe ==
  SharedInv /\ Sleeping => SharedSafely
<1> SUFFICES ASSUME SharedInv, Sleeping PROVE SharedSafely
  BY Zenon
<1>0. 1 \in Ends /\ 2 \in Ends /\ Peer(1) = 2 /\ Peer(2) = 1
  BY DEF Ends, Peer
<1>1. Stream(1) \cap Stream(2) = {}
  BY Zenon DEF SharedInv, Kept
<1>2. TypeOK
  BY Zenon DEF SharedInv
<1>3. NothingDangles
  <2>1. ASSUME NEW e \in Ends, NEW i \in 1 .. Len(mailbox[e]), mailbox[e][i].type = "hiccup"
        PROVE  ypipes[mailbox[e][i].arg].exists
    <3>1. mailbox[e][i].arg \in Brought(mailbox[e])
      BY <2>1, Zenon DEF Brought
    <3> QED
      BY <3>1, SafeEnd, Zenon
  <2>2. \A e \in Ends : /\ inpipe[e] # NULL => ypipes[inpipe[e]].exists
                        /\ outpipe[e] # NULL => ypipes[outpipe[e]].exists
                        /\ state[e] = "deleted" => mailbox[e] = <<>>
    BY SafeEnd, Zenon
  <2> QED
    BY <2>1, <2>2, Zenon DEF NothingDangles
<1>4. NothingLeaks
  <2> SUFFICES ASSUME \A e \in Ends : state[e] = "deleted", NEW i \in 1 .. Len(ypipes)
               PROVE  ~ypipes[i].exists
    BY Zenon DEF NothingLeaks
  <2>1. "deleted" \in Acked
    BY Zenon DEF Acked
  <2>2. \A e \in Ends : inpipe[e] = NULL /\ outpipe[e] = NULL /\ mailbox[e] = <<>>
    BY <2>1, Zenon DEF SharedInv, Handshake
  <2>3. \A e \in Ends : Brought(mailbox[e]) = {}
    BY <2>2 DEF Brought
  <2>4. Stream(1) = {} /\ Stream(2) = {}
    BY <1>0, <2>2, <2>3, Zenon DEF Stream, Replacements
  <2> QED
    BY <2>4, Zenon DEF SharedInv, Kept
<1>5. SoleReader
  <2>1. /\ inpipe[1] # NULL => inpipe[1] \in Stream(2)
        /\ inpipe[2] # NULL => inpipe[2] \in Stream(1)
        /\ outpipe[1] # NULL => outpipe[1] \in Stream(1)
        /\ outpipe[2] # NULL => outpipe[2] \in Stream(2)
    BY <1>0, SafeEnd, Zenon
  <2>2. \A e \in Ends : IsNext(e, "hiccup") => inpipe[Peer(e)] # outpipe[e]
    BY SafeEnd, Zenon
  <2>3. \A x : ~(x \in Stream(1) /\ x \in Stream(2))
    BY <1>1, Zenon
  <2> QED
    BY <2>1, <2>2, <2>3, Zenon DEF SoleReader
<1>6. CommandsExpected
  BY SafeEnd, Zenon DEF CommandsExpected, Unasked
<1>7. WakeupOnItsWay
  BY Zenon DEF WakeupOnItsWay, Sleeping
<1> QED
  BY <1>2, <1>3, <1>4, <1>5, <1>6, <1>7, Zenon DEF SharedSafely

\* Both ends begin awake.
LEMMA SleepingInit ==
  Init => Sleeping
BY Zenon DEF Init, Sleeping

\* Every step keeps the readers awake, asleep or about to be woken.
LEMMA SleepingStep ==
  ASSUME LeastFact, SharedInv, Sleeping, [Next]_vars
  PROVE  Sleeping'
<1>1. CASE UNCHANGED vars
  <2>1. UNCHANGED <<state, inpipe, in_active, mailbox, ypipes>>
    BY <1>1, Zenon DEF vars, fields
  <2> QED
    BY <2>1, Zenon DEF Sleeping, InTransit
<1>2. CASE SetHwms
  <2>1. 1 \in Ends
    BY Zenon DEF Ends
  <2> QED
    BY <1>2, <2>1, QuietActionsSleep, Zenon
<1>3. ASSUME NEW e \in Ends, OwnerNext(e)
      PROVE  Sleeping'
  <2>1. CASE \/ \E msg \in Writes(e) : Write(e, msg)
             \/ WriteFull(e) \/ Rollback(e)
             \/ \E d \in Delays[e] : TerminateAgain(e, d)
    BY <2>1, QuietActionsSleep, Zenon
  <2>2. CASE Flush(e)
    BY <2>2, FlushSleep, Zenon
  <2>3. CASE CheckRead(e) \/ Read(e)
    BY <2>3, ReadSleep, Zenon
  <2>4. CASE \E d \in Delays[e] : Terminate(e, d)
    BY <2>4, TerminateSleep, Zenon
  <2>5. CASE Hiccup(e)
    BY <2>5, HiccupSleep, Zenon
  <2> QED
    BY <1>3, <2>1, <2>2, <2>3, <2>4, <2>5, Zenon DEF OwnerNext
<1>4. ASSUME NEW e \in Ends, ProcessCommand(e)
      PROVE  Sleeping'
  <2>1. CASE ProcessActivateRead(e) \/ ProcessActivateWrite(e)
    BY <2>1, ActivateSleep, Zenon
  <2>2. CASE ProcessHiccup(e)
    BY <2>2, ProcessHiccupSleep, Zenon
  <2>3. CASE ProcessPipeTerm(e) \/ ProcessPipeTermAck(e)
    BY <2>3, PipeTermSleep, Zenon
  <2> QED
    BY <1>4, <2>1, <2>2, <2>3, Zenon DEF ProcessCommand
<1>5. CASE DropIdentity
  BY <1>5, ReadSleep, Zenon DEF DropIdentity, Ends
<1> QED
  BY <1>1, <1>2, <1>3, <1>4, <1>5, Zenon DEF Next

---------------------------------------------------------------------------
(* The fact about numbers, from the library.                               *)

WF == INSTANCE WellFoundedInduction

\* The numbers are well-founded, so a set of them has a least element.
LEMMA LeastFactHolds == LeastFact
<1> SUFFICES ASSUME NEW T \in SUBSET Nat, T # {}
             PROVE  \E x \in T : \A y \in T : x <= y
  BY Zenon DEF LeastFact
<1>1. WF!IsWellFoundedOn(WF!OpToRel(<, Nat), Nat)
  BY WF!NatLessThanWellFounded, Zenon
<1>2. \A x, y \in Nat : y < x => <<y, x>> \in WF!OpToRel(<, Nat)
  BY Zenon DEF WF!OpToRel
<1>3. \E R : WF!IsWellFoundedOn(R, Nat) /\ \A x, y \in Nat : y < x => <<y, x>> \in R
  BY <1>1, <1>2, Zenon
<1>4. PICK R : WF!IsWellFoundedOn(R, Nat) /\ \A x, y \in Nat : y < x => <<y, x>> \in R
  BY <1>3, Zenon
<1>5. PICK x \in T : \A y \in T : ~(<<y, x>> \in R)
  BY <1>4, WF!WFMin, Zenon
<1>6. \A y \in T : ~(y < x)
  BY <1>4, <1>5, Zenon
<1> QED
  BY <1>6

---------------------------------------------------------------------------
(* The theorem                                                             *)

\* The two ends of a pipe share their ypipes safely, however their owners'
\* calls and their handlers interleave, with any number of messages, hiccups
\* and calls of terminate (): no pointer dangles, nothing leaks, every ypipe
\* has one reader and one writer, the assertions of process_pipe_term (),
\* process_pipe_term_ack () and process_hiccup () hold, and an end that went
\* passive in check_read () or read () is told of whatever flush () hands over.
THEOREM PipeSharedSafely == Spec => []SharedSafely
<1>1. Init => SharedInv /\ Sleeping
  BY SharedInit, SleepingInit, Zenon
<1>2. SharedInv /\ Sleeping /\ [Next]_vars => SharedInv' /\ Sleeping'
  BY LeastFactHolds, SharedStep, SleepingStep, Zenon
<1>3. SharedInv /\ Sleeping => SharedSafely
  BY SharedInvSafe, Zenon
<1> QED
  BY <1>1, <1>2, <1>3, PTL DEF Spec

============================================================================
