--------------------------- MODULE TransportProofs ---------------------------
(* Proofs about Transport, for any ids, limits, capacities and numbers of  *)
(* writes.  A direction of the tcp-chain is looked at as one sequence, the *)
(* wire and behind it the queue, and this through how often it has a frame.*)
EXTENDS Transport, FiniteSetTheorems, TLAPS

-----------------------------------------------------------------------------
(* How often a frame is in a sequence.                                     *)

Positions(s, f) == {k \in 1..Len(s) : s[k] = f}
Count(s, f) == Cardinality(Positions(s, f))
One(p) == IF p THEN 1 ELSE 0

LEMMA CountType ==
  ASSUME NEW S, NEW s \in Seq(S), NEW f
  PROVE  IsFiniteSet(Positions(s, f)) /\ Count(s, f) \in Nat
<1>1. Positions(s, f) \subseteq 1..Len(s) /\ Len(s) \in Nat
  BY DEF Positions
<1>2. IsFiniteSet(1..Len(s))
  BY <1>1, FS_Interval
<1> QED
  BY <1>1, <1>2, FS_Subset, FS_CardinalityType DEF Count

LEMMA CountEmpty == ASSUME NEW f PROVE Count(<< >>, f) = 0
<1>1. Positions(<< >>, f) = {}
  BY DEF Positions
<1> QED
  BY <1>1, FS_EmptySet DEF Count

LEMMA CountPositive ==
  ASSUME NEW S, NEW s \in Seq(S), NEW f
  PROVE  Count(s, f) > 0 <=> \E k \in DOMAIN s : s[k] = f
<1>1. Count(s, f) = 0 <=> Positions(s, f) = {}
  BY CountType, FS_EmptySet DEF Count
<1>2. Positions(s, f) # {} <=> \E k \in DOMAIN s : s[k] = f
  BY DEF Positions
<1> QED
  BY <1>1, <1>2, CountType

LEMMA CountAppend ==
  ASSUME NEW S, NEW s \in Seq(S), NEW x \in S, NEW f
  PROVE  Count(Append(s, x), f) = Count(s, f) + One(x = f)
<1> DEFINE n == Len(s) + 1
<1>1. /\ Len(Append(s, x)) = n /\ Append(s, x)[n] = x
      /\ \A k \in 1..Len(s) : Append(s, x)[k] = s[k]
      /\ Len(s) \in Nat
  OBVIOUS
<1>2. n \notin Positions(s, f)
  BY <1>1 DEF Positions
<1>3. CASE x = f
  <2>1. Positions(Append(s, x), f) = Positions(s, f) \cup {n}
    BY <1>1, <1>3 DEF Positions
  <2> QED
    BY <1>2, <1>3, <2>1, CountType, FS_AddElement DEF Count, One
<1>4. CASE x # f
  <2>1. Positions(Append(s, x), f) = Positions(s, f)
    BY <1>1, <1>4 DEF Positions
  <2> QED
    BY <1>4, <2>1, CountType DEF Count, One
<1> QED
  BY <1>3, <1>4

LEMMA CountTail ==
  ASSUME NEW S, NEW s \in Seq(S), s # << >>, NEW f
  PROVE  Count(s, f) = Count(Tail(s), f) + One(Head(s) = f)
<1> DEFINE P == Positions(s, f)
           Q == Positions(Tail(s), f)
           shift == [k \in Q |-> k + 1]
<1>1. /\ Len(s) \in Nat \ {0} /\ Tail(s) \in Seq(S) /\ Len(Tail(s)) = Len(s) - 1
      /\ \A k \in 1..(Len(s) - 1) : Tail(s)[k] = s[k + 1]
      /\ Head(s) = s[1]
  OBVIOUS
<1>2. Q \subseteq 1..(Len(s) - 1) /\ P \subseteq 1..Len(s)
  BY <1>1 DEF Positions
<1>3. \A k \in 1..(Len(s) - 1) : k \in Q <=> k + 1 \in P
  BY <1>1 DEF Positions
<1>4. 1 \in P <=> Head(s) = f
  BY <1>1 DEF Positions
<1>10. Count(s, f) = Cardinality(P) /\ Count(Tail(s), f) = Cardinality(Q)
  BY DEF Count
<1> HIDE DEF P, Q
<1>5. shift \in Bijection(Q, P \ {1})
  <2>1. \A k \in Q : k + 1 \in P \ {1}
    BY <1>1, <1>2, <1>3
  <2>2. shift \in Injection(Q, P \ {1})
    BY <2>1, <1>1, <1>2 DEF Injection, IsInjective
  <2>3. \A j \in P \ {1} : \E k \in Q : shift[k] = j
    <3> SUFFICES ASSUME NEW j \in P \ {1} PROVE \E k \in Q : shift[k] = j
      OBVIOUS
    <3>1. j - 1 \in 1..(Len(s) - 1) /\ (j - 1) + 1 = j
      BY <1>1, <1>2
    <3>2. j - 1 \in Q
      BY <1>3, <3>1
    <3> QED
      BY <3>1, <3>2
  <2> QED
    BY <2>1, <2>2, <2>3 DEF Bijection, Surjection
<1>6. IsFiniteSet(P) /\ IsFiniteSet(Q) /\ Cardinality(P) \in Nat
  BY <1>1, CountType, FS_CardinalityType DEF P, Q
<1>7. Cardinality(Q) = Cardinality(P \ {1})
  BY <1>5, <1>6, FS_Bijection DEF ExistsBijection
<1>8. CASE Head(s) = f
  <2>1. Cardinality(P \ {1}) = Cardinality(P) - 1
    BY <1>4, <1>6, <1>8, FS_RemoveElement
  <2> QED
    BY <1>6, <1>7, <1>8, <1>10, <2>1 DEF One
<1>9. CASE Head(s) # f
  <2>1. P \ {1} = P
    BY <1>4, <1>9
  <2>2. One(Head(s) = f) = 0
    BY <1>9 DEF One
  <2> QED
    <3>1. Cardinality(P) = Cardinality(Q)
      BY <1>7, <2>1, Zenon
    <3> QED
      BY <1>6, <1>10, <2>2, <3>1
<1> QED
  BY <1>8, <1>9

IsIn(f, s) == \E k \in DOMAIN s : s[k] = f

LEMMA ConcatIn ==
  ASSUME NEW S, NEW w \in Seq(S), NEW q \in Seq(S), NEW f
  PROVE  IsIn(f, w \o q) <=> IsIn(f, q) \/ IsIn(f, w)
<1>1. /\ Len(w) \in Nat /\ Len(q) \in Nat
      /\ DOMAIN w = 1..Len(w) /\ DOMAIN q = 1..Len(q)
      /\ DOMAIN (w \o q) = 1..(Len(w) + Len(q))
  OBVIOUS
<1>2. /\ \A k \in 1..Len(w) : (w \o q)[k] = w[k]
      /\ \A k \in 1..Len(q) : (w \o q)[Len(w) + k] = q[k]
  OBVIOUS
<1>3. ASSUME NEW k \in DOMAIN (w \o q), (w \o q)[k] = f
      PROVE  (\E j \in DOMAIN q : q[j] = f) \/ (\E j \in DOMAIN w : w[j] = f)
  <2>1. CASE k \in 1..Len(w)
    BY <1>1, <1>2, <1>3, <2>1
  <2>2. CASE k \notin 1..Len(w)
    <3>1. k - Len(w) \in 1..Len(q) /\ Len(w) + (k - Len(w)) = k
      BY <1>1, <1>3, <2>2
    <3>2. q[k - Len(w)] = f
      BY <1>2, <1>3, <3>1
    <3> QED
      BY <1>1, <3>1, <3>2
  <2> QED
    BY <2>1, <2>2
<1>4. ASSUME NEW k \in DOMAIN w, w[k] = f
      PROVE  \E j \in DOMAIN (w \o q) : (w \o q)[j] = f
  <2>1. k \in DOMAIN (w \o q)
    BY <1>1
  <2> QED
    BY <1>1, <1>2, <1>4, <2>1
<1>5. ASSUME NEW k \in DOMAIN q, q[k] = f
      PROVE  \E j \in DOMAIN (w \o q) : (w \o q)[j] = f
  <2>1. Len(w) + k \in DOMAIN (w \o q)
    BY <1>1
  <2> QED
    BY <1>1, <1>2, <1>5, <2>1
<1> QED
  BY <1>3, <1>4, <1>5 DEF IsIn

-----------------------------------------------------------------------------
(* What e has sent and its peer has not read.                              *)

Link(e) == wire[e] \o queue[e]
N(e, f) == Count(Link(e), f)

NetType == queue \in [Ends -> Seq(Frame)] /\ wire \in [Ends -> Seq(Frame)]

LEMMA PeerFacts ==
  /\ \A e \in Ends : Peer(e) \in Ends /\ Peer(e) # e /\ Peer(Peer(e)) = e
  /\ Peer("client") = "server" /\ Peer("server") = "client"
  /\ "client" \in Ends /\ "server" \in Ends /\ "client" # "server"
BY DEF Ends, Peer

LEMMA LinkType ==
  ASSUME NetType, NEW e \in Ends, NEW f
  PROVE  Link(e) \in Seq(Frame) /\ N(e, f) \in Nat
<1>1. Link(e) \in Seq(Frame)
  BY DEF NetType, Link
<1> QED
  BY <1>1, CountType DEF N

LEMMA InFlightN ==
  ASSUME NetType, NEW e \in Ends, NEW f
  PROVE  InFlight(e, f) <=> N(e, f) > 0
<1>1. wire[e] \in Seq(Frame) /\ queue[e] \in Seq(Frame)
  BY DEF NetType
<1>2. IsIn(f, Link(e)) <=> InFlight(e, f)
  <2>1. IsIn(f, Link(e)) <=> IsIn(f, queue[e]) \/ IsIn(f, wire[e])
    BY <1>1, ConcatIn DEF Link
  <2>2. InFlight(e, f) <=> IsIn(f, queue[e]) \/ IsIn(f, wire[e])
    BY DEF InFlight, IsIn
  <2> QED
    BY <2>1, <2>2
<1>3. N(e, f) > 0 <=> IsIn(f, Link(e))
  BY LinkType, CountPositive DEF N, IsIn
<1> QED
  BY <1>2, <1>3

LEMMA EnqueueN ==
  ASSUME NetType, NEW e \in Ends, NEW g \in Frame, Enqueue(e, g), UNCHANGED wire
  PROVE  /\ NetType'
         /\ \A d \in Ends : \A f : N(d, f)' = N(d, f) + One(d = e /\ g = f)
<1>1. queue' = [queue EXCEPT ![e] = Append(queue[e], g)]
  BY DEF Enqueue
<1>2. NetType'
  BY <1>1 DEF NetType
<1>3. Link(e)' = Append(Link(e), g)
  <2>1. queue'[e] = Append(queue[e], g) /\ wire'[e] = wire[e]
    BY <1>1 DEF NetType
  <2>2. \A w, q \in Seq(Frame) : w \o Append(q, g) = Append(w \o q, g)
    OBVIOUS
  <2> QED
    BY <2>1, <2>2 DEF NetType, Link
<1>4. \A d \in Ends \ {e} : Link(d)' = Link(d)
  BY <1>1 DEF NetType, Link
<1> SUFFICES ASSUME NEW d \in Ends, NEW f
             PROVE  N(d, f)' = N(d, f) + One(d = e /\ g = f)
  BY <1>2
<1>5. CASE d = e
  <2>1. Count(Append(Link(e), g), f) = Count(Link(e), f) + One(g = f)
    BY LinkType, CountAppend
  <2> QED
    BY <1>3, <1>5, <2>1 DEF N, One
<1>6. CASE d # e
  BY <1>4, <1>6, LinkType DEF N, One
<1> QED
  BY <1>5, <1>6

LEMMA TakeN ==
  ASSUME NetType, NEW e \in Ends, NEW cmd, NEW to, Take(e, cmd, to), UNCHANGED queue
  PROVE  /\ NetType'
         /\ Taken(e) \in Frame /\ Taken(e).cmd = cmd
         /\ N(Peer(e), Taken(e)) > 0
         /\ \A d \in Ends : \A f : N(d, f)' = N(d, f) - One(d = Peer(e) /\ Taken(e) = f)
<1> DEFINE p == Peer(e)
<1>0. p \in Ends
  BY PeerFacts
<1>1. wire[p] # << >> /\ wire[p] \in Seq(Frame) /\ queue[p] \in Seq(Frame)
  BY <1>0 DEF Take, NetType
<1>2. wire' = [wire EXCEPT ![p] = Tail(wire[p])]
  BY DEF Take
<1>3. NetType'
  BY <1>0, <1>1, <1>2 DEF NetType
<1>4. Link(p) # << >> /\ Head(Link(p)) = Taken(e) /\ Link(p)' = Tail(Link(p))
  <2>1. \A w, q \in Seq(Frame) : w # << >> =>
          w \o q # << >> /\ Head(w \o q) = Head(w) /\ Tail(w \o q) = Tail(w) \o q
    OBVIOUS
  <2>2. Link(p)' = Tail(wire[p]) \o queue[p]
    BY <1>0, <1>2 DEF Link, NetType
  <2> QED
    BY <1>1, <2>1, <2>2 DEF Link, Taken
<1>5. \A d \in Ends \ {p} : Link(d)' = Link(d)
  BY <1>2 DEF NetType, Link
<1>6. Taken(e) \in Frame /\ Taken(e).cmd = cmd
  BY <1>1 DEF Taken, Take
<1>7. \A d \in Ends : \A f : N(d, f)' = N(d, f) - One(d = p /\ Taken(e) = f)
  <2> SUFFICES ASSUME NEW d \in Ends, NEW f
               PROVE  N(d, f)' = N(d, f) - One(d = p /\ Taken(e) = f)
    OBVIOUS
  <2>1. CASE d = p
    <3>1. N(p, f) = Count(Tail(Link(p)), f) + One(Taken(e) = f)
      BY <1>0, <1>4, LinkType, CountTail DEF N
    <3>2. Tail(Link(p)) \in Seq(Frame)
      BY <1>0, <1>4, LinkType
    <3>3. Count(Tail(Link(p)), f) \in Nat
      BY <3>2, CountType
    <3>4. N(p, f)' = Count(Tail(Link(p)), f)
      BY <1>0, <1>4 DEF N
    <3>5. N(p, f)' = N(p, f) - One(Taken(e) = f)
      <4>1. One(Taken(e) = f) \in Nat
        BY DEF One
      <4> QED
        BY <3>1, <3>3, <3>4, <4>1
    <3> QED
      BY <2>1, <3>5 DEF One
  <2>2. CASE d # p
    BY <1>5, <2>2, LinkType DEF N, One
  <2> QED
    BY <2>1, <2>2
<1>8. N(p, Taken(e)) > 0
  <2>1. 1 \in DOMAIN Link(p) /\ Link(p)[1] = Taken(e)
    BY <1>0, <1>4, LinkType
  <2> QED
    BY <1>0, <2>1, LinkType, CountPositive DEF N
<1> QED
  BY <1>3, <1>6, <1>7, <1>8

LEMMA ServeWriteN ==
  ASSUME NetType, NEW e \in Ends, ServeWrite(e)
  PROVE  NetType' /\ \A d \in Ends : \A f : N(d, f)' = N(d, f)
<1>1. /\ wire' = [wire EXCEPT ![e] = Append(wire[e], Head(queue[e]))]
      /\ queue' = [queue EXCEPT ![e] = Tail(queue[e])]
      /\ queue[e] # << >> /\ queue[e] \in Seq(Frame) /\ wire[e] \in Seq(Frame)
  BY DEF ServeWrite, NetType
<1>2. NetType'
  BY <1>1 DEF NetType
<1>3. Link(e)' = Link(e)
  <2>1. \A w, q \in Seq(Frame) : q # << >> => Append(w, Head(q)) \o Tail(q) = w \o q
    OBVIOUS
  <2>2. Link(e)' = Append(wire[e], Head(queue[e])) \o Tail(queue[e])
    BY <1>1 DEF Link, NetType
  <2> QED
    BY <1>1, <2>1, <2>2 DEF Link
<1>4. \A d \in Ends \ {e} : Link(d)' = Link(d)
  BY <1>1 DEF NetType, Link
<1> QED
  BY <1>2, <1>3, <1>4 DEF N

LEMMA SameN ==
  ASSUME NetType, UNCHANGED <<wire, queue>>
  PROVE  NetType' /\ \A d \in Ends : \A f : N(d, f)' = N(d, f)
BY DEF NetType, N, Link

-----------------------------------------------------------------------------
(* The frames in flight of one channel, and how a step changes them.       *)

Plain == {"Close", "Write", "Confirm"}
Cnt(e, c, i) == N(e, FrameOf(c, i))
Ans(i, k) == N("server", Answer(i, k))

(* Only answers have a code, and only the server answers.                  *)
FrameInv ==
  \A e \in Ends, f \in Frame :
    N(e, f) > 0 => f.code = 0 \/ (e = "server" /\ f.cmd = "Create")
NetInv == NetType /\ FrameInv

(* n frames more, and none else, with command c and id i from e; answers k.*)
Delta(e, c, i, n) ==
  \A j \in Ids :
    /\ \A d \in Ends, b \in Plain :
         Cnt(d, b, j)' = Cnt(d, b, j) + IF d = e /\ b = c /\ j = i THEN n ELSE 0
    /\ Cnt("client", "Create", j)' =
         Cnt("client", "Create", j) + IF e = "client" /\ c = "Create" /\ j = i THEN n ELSE 0
    /\ \A k \in 0..2 : Ans(j, k)' = Ans(j, k)
DeltaAnswer(i, q, n) ==
  \A j \in Ids :
    /\ \A d \in Ends, b \in Plain : Cnt(d, b, j)' = Cnt(d, b, j)
    /\ Cnt("client", "Create", j)' = Cnt("client", "Create", j)
    /\ \A k \in 0..2 : Ans(j, k)' = Ans(j, k) + IF k = q /\ j = i THEN n ELSE 0
DeltaNone ==
  \A j \in Ids :
    /\ \A d \in Ends, b \in Plain : Cnt(d, b, j)' = Cnt(d, b, j)
    /\ Cnt("client", "Create", j)' = Cnt("client", "Create", j)
    /\ \A k \in 0..2 : Ans(j, k)' = Ans(j, k)

(* The command that e may send with code 0.                                *)
PlainFrom(e, c) == c \in Plain \/ (c = "Create" /\ e = "client")

LEMMA FrameFacts ==
  /\ \A c \in Plain \cup {"Create"}, i \in Ids :
       /\ FrameOf(c, i) \in Frame
       /\ FrameOf(c, i).cmd = c /\ FrameOf(c, i).id = i /\ FrameOf(c, i).code = 0
  /\ \A i \in Ids, k \in 0..2 :
       /\ Answer(i, k) \in Frame
       /\ Answer(i, k).cmd = "Create" /\ Answer(i, k).id = i /\ Answer(i, k).code = k
  /\ \A f \in Frame : /\ f.cmd \in Plain \cup {"Create"} /\ f.id \in Ids /\ f.code \in 0..2
                      /\ f.code = 0 => f = FrameOf(f.cmd, f.id)
                      /\ f.cmd = "Create" => f = Answer(f.id, f.code)
BY DEF Frame, FrameOf, Answer, Plain

(* Equal frames agree in all that they say.                                *)
LEMMA FrameEqual ==
  /\ \A b, c \in Plain \cup {"Create"}, i, j \in Ids :
       FrameOf(b, i) = FrameOf(c, j) <=> b = c /\ i = j
  /\ \A i, j \in Ids, k, q \in 0..2 : Answer(i, k) = Answer(j, q) <=> i = j /\ k = q
  /\ \A b \in Plain, i, j \in Ids, k \in 0..2 : FrameOf(b, i) # Answer(j, k)
BY DEF FrameOf, Answer, Plain

LEMMA CntType ==
  ASSUME NetType, NEW i
  PROVE  /\ \A e \in Ends : \A c : Cnt(e, c, i) \in Nat
         /\ \A k : Ans(i, k) \in Nat
BY LinkType, PeerFacts DEF Cnt, Ans

LEMMA DeltaSame ==
  ASSUME NetInv, UNCHANGED <<wire, queue>> PROVE NetInv' /\ DeltaNone
<1>1. NetType' /\ \A d \in Ends : \A f : N(d, f)' = N(d, f)
  BY SameN DEF NetInv
<1>2. FrameInv'
  BY <1>1 DEF NetInv, FrameInv
<1>3. DeltaNone
  BY <1>1, PeerFacts DEF DeltaNone, Cnt, Ans
<1> QED
  BY <1>1, <1>2, <1>3 DEF NetInv

LEMMA DeltaServeWrite ==
  ASSUME NetInv, NEW e \in Ends, ServeWrite(e) PROVE NetInv' /\ DeltaNone
<1>1. NetType' /\ \A d \in Ends : \A f : N(d, f)' = N(d, f)
  BY ServeWriteN DEF NetInv
<1>2. FrameInv'
  BY <1>1 DEF NetInv, FrameInv
<1>3. DeltaNone
  BY <1>1, PeerFacts DEF DeltaNone, Cnt, Ans
<1> QED
  BY <1>1, <1>2, <1>3 DEF NetInv

LEMMA DeltaPlain ==
  ASSUME NetInv, NEW e \in Ends, NEW c, NEW i \in Ids, PlainFrom(e, c),
         Enqueue(e, FrameOf(c, i)), UNCHANGED wire
  PROVE  NetInv' /\ Delta(e, c, i, 1)
<1> DEFINE g == FrameOf(c, i)
<1>1. c \in Plain \cup {"Create"} /\ g \in Frame
  BY FrameFacts DEF PlainFrom
<1>2. /\ NetType'
      /\ \A d \in Ends : \A f : N(d, f)' = N(d, f) + One(d = e /\ g = f)
  BY <1>1, EnqueueN DEF NetInv
<1>3. FrameInv'
  <2> SUFFICES ASSUME NEW d \in Ends, NEW f \in Frame, N(d, f)' > 0
               PROVE  f.code = 0 \/ (d = "server" /\ f.cmd = "Create")
    BY DEF FrameInv
  <2>1. CASE d = e /\ g = f
    BY <1>1, <2>1, FrameFacts
  <2>2. CASE ~(d = e /\ g = f)
    <3>1. One(d = e /\ g = f) = 0
      BY <2>2 DEF One
    <3>2. N(d, f) > 0
      BY <1>2, <3>1, LinkType DEF NetInv
    <3> QED
      BY <3>2 DEF NetInv, FrameInv
  <2> QED
    BY <2>1, <2>2
<1>4. \A d \in Ends, b \in Plain \cup {"Create"}, j \in Ids :
        Cnt(d, b, j)' = Cnt(d, b, j) + IF d = e /\ b = c /\ j = i THEN 1 ELSE 0
  BY <1>1, <1>2, FrameEqual DEF Cnt, One
<1>5. \A j \in Ids, k \in 0..2 : Ans(j, k)' = Ans(j, k)
  <2> SUFFICES ASSUME NEW j \in Ids, NEW k \in 0..2 PROVE Ans(j, k)' = Ans(j, k)
    OBVIOUS
  <2>1. ~("server" = e /\ g = Answer(j, k))
    BY FrameEqual, PeerFacts DEF PlainFrom
  <2>2. One("server" = e /\ g = Answer(j, k)) = 0
    BY <2>1 DEF One
  <2> QED
    BY <1>2, <2>2, LinkType, PeerFacts DEF Ans, NetInv
<1>6. Delta(e, c, i, 1)
  BY <1>4, <1>5, PeerFacts DEF Delta
<1> QED
  BY <1>2, <1>3, <1>6 DEF NetInv

LEMMA DeltaSendClose ==
  ASSUME NetInv, NEW e \in Ends, NEW i \in Ids, SendClose(e, i), UNCHANGED wire
  PROVE  NetInv' /\ (Delta(e, "Close", i, 1) \/ (done[e] /\ DeltaNone))
<1>1. CASE Enqueue(e, FrameOf("Close", i))
  BY <1>1, DeltaPlain DEF PlainFrom, Plain
<1>2. CASE done[e] /\ UNCHANGED queue
  BY <1>2, DeltaSame
<1> QED
  BY <1>1, <1>2 DEF SendClose

(* The reader loop of e has taken a frame that has no code.                *)
LEMMA DeltaTake ==
  ASSUME NetInv, NEW e \in Ends, NEW c, NEW to, PlainFrom(Peer(e), c),
         Take(e, c, to), UNCHANGED queue
  PROVE  LET i == Taken(e).id
         IN  /\ i \in Ids
             /\ Taken(e) = FrameOf(c, i)
             /\ Cnt(Peer(e), c, i) > 0
             /\ NetInv' /\ Delta(Peer(e), c, i, -1)
<1> DEFINE h == Taken(e)
           i == Taken(e).id
<1>1. /\ NetType' /\ h \in Frame /\ h.cmd = c /\ N(Peer(e), h) > 0
      /\ \A d \in Ends : \A f : N(d, f)' = N(d, f) - One(d = Peer(e) /\ h = f)
  BY TakeN DEF NetInv
<1> HIDE DEF h
<1>2. h.code = 0
  BY <1>1, PeerFacts DEF NetInv, FrameInv, PlainFrom, Plain
<1>3. h.id \in Ids /\ h = FrameOf(c, h.id) /\ c \in Plain \cup {"Create"}
  BY <1>1, <1>2, FrameFacts
<1>4. FrameInv'
  <2> SUFFICES ASSUME NEW d \in Ends, NEW f \in Frame, N(d, f)' > 0
               PROVE  f.code = 0 \/ (d = "server" /\ f.cmd = "Create")
    BY DEF FrameInv
  <2>1. One(d = Peer(e) /\ h = f) \in {0, 1}
    BY DEF One
  <2>2. N(d, f) > 0
    BY <1>1, <2>1, LinkType DEF NetInv
  <2> QED
    BY <2>2 DEF NetInv, FrameInv
<1>5. \A d \in Ends, b \in Plain \cup {"Create"}, j \in Ids :
        Cnt(d, b, j)' = Cnt(d, b, j) + IF d = Peer(e) /\ b = c /\ j = h.id THEN -1 ELSE 0
  <2> SUFFICES ASSUME NEW d \in Ends, NEW b \in Plain \cup {"Create"}, NEW j \in Ids
               PROVE  Cnt(d, b, j)' = Cnt(d, b, j)
                        + IF d = Peer(e) /\ b = c /\ j = h.id THEN -1 ELSE 0
    OBVIOUS
  <2>1. h = FrameOf(b, j) <=> b = c /\ j = h.id
    BY <1>3, FrameEqual
  <2>2. Cnt(d, b, j)' = Cnt(d, b, j) - One(d = Peer(e) /\ h = FrameOf(b, j))
    BY <1>1 DEF Cnt
  <2>3. Cnt(d, b, j) \in Nat
    BY CntType DEF NetInv
  <2> QED
    BY <2>1, <2>2, <2>3 DEF One
<1>6. \A j \in Ids, k \in 0..2 : Ans(j, k)' = Ans(j, k)
  <2> SUFFICES ASSUME NEW j \in Ids, NEW k \in 0..2 PROVE Ans(j, k)' = Ans(j, k)
    OBVIOUS
  <2>1. ~("server" = Peer(e) /\ h = Answer(j, k))
    BY <1>3, FrameEqual, PeerFacts DEF PlainFrom
  <2>2. One("server" = Peer(e) /\ h = Answer(j, k)) = 0
    BY <2>1 DEF One
  <2> QED
    BY <1>1, <2>2, LinkType, PeerFacts DEF Ans, NetInv
<1>7. Delta(Peer(e), c, h.id, -1)
  BY <1>5, <1>6, PeerFacts DEF Delta
<1>8. Cnt(Peer(e), c, h.id) > 0
  BY <1>1, <1>3 DEF Cnt
<1> QED
  BY <1>1, <1>3, <1>4, <1>7, <1>8 DEF NetInv, h

(* The client's loop has taken an answer.                                  *)
LEMMA DeltaTakeAnswer ==
  ASSUME NetInv, NEW to, Take("client", "Create", to), UNCHANGED queue
  PROVE  \E k \in 0..2 :
           LET i == Taken("client").id
           IN  /\ i \in Ids
               /\ Taken("client") = Answer(i, k)
               /\ Ans(i, k) > 0
               /\ NetInv' /\ DeltaAnswer(i, k, -1)
<1> DEFINE h == Taken("client")
<1>1. /\ NetType' /\ h \in Frame /\ h.cmd = "Create" /\ N("server", h) > 0
      /\ \A d \in Ends : \A f : N(d, f)' = N(d, f) - One(d = "server" /\ h = f)
  BY TakeN, PeerFacts DEF NetInv
<1> HIDE DEF h
<1>2. h.id \in Ids /\ h.code \in 0..2 /\ h = Answer(h.id, h.code)
  BY <1>1, FrameFacts
<1>3. FrameInv'
  <2> SUFFICES ASSUME NEW d \in Ends, NEW f \in Frame, N(d, f)' > 0
               PROVE  f.code = 0 \/ (d = "server" /\ f.cmd = "Create")
    BY DEF FrameInv
  <2>1. One(d = "server" /\ h = f) \in {0, 1}
    BY DEF One
  <2>2. N(d, f) > 0
    BY <1>1, <2>1, LinkType DEF NetInv
  <2> QED
    BY <2>2 DEF NetInv, FrameInv
<1>4. \A j \in Ids, k \in 0..2 :
        Ans(j, k)' = Ans(j, k) + IF k = h.code /\ j = h.id THEN -1 ELSE 0
  <2> SUFFICES ASSUME NEW j \in Ids, NEW k \in 0..2
               PROVE  Ans(j, k)' = Ans(j, k) + IF k = h.code /\ j = h.id THEN -1 ELSE 0
    OBVIOUS
  <2>1. h = Answer(j, k) <=> k = h.code /\ j = h.id
    BY <1>2, FrameEqual
  <2>2. Ans(j, k)' = Ans(j, k) - One("server" = "server" /\ h = Answer(j, k))
    BY <1>1, PeerFacts DEF Ans
  <2>3. Ans(j, k) \in Nat
    BY CntType DEF NetInv
  <2> QED
    BY <2>1, <2>2, <2>3 DEF One
<1>5. \A d \in Ends, b \in Plain \cup {"Create"}, j \in Ids :
        PlainFrom(d, b) => Cnt(d, b, j)' = Cnt(d, b, j)
  <2> SUFFICES ASSUME NEW d \in Ends, NEW b \in Plain \cup {"Create"}, NEW j \in Ids,
                      PlainFrom(d, b)
               PROVE  Cnt(d, b, j)' = Cnt(d, b, j)
    OBVIOUS
  <2>1. ~(d = "server" /\ h = FrameOf(b, j))
    BY <1>2, FrameEqual, PeerFacts DEF PlainFrom
  <2>2. One(d = "server" /\ h = FrameOf(b, j)) = 0
    BY <2>1 DEF One
  <2> QED
    BY <1>1, <2>2, LinkType DEF Cnt, NetInv
<1>6. DeltaAnswer(h.id, h.code, -1)
  BY <1>4, <1>5, PeerFacts DEF DeltaAnswer, PlainFrom
<1>7. Ans(h.id, h.code) > 0
  BY <1>1, <1>2 DEF Ans
<1>8. LET i == h.id
      IN  i \in Ids /\ h = Answer(i, h.code) /\ Ans(i, h.code) > 0
            /\ NetInv' /\ DeltaAnswer(i, h.code, -1)
  BY <1>1, <1>2, <1>3, <1>6, <1>7 DEF NetInv
<1> QED
  BY <1>2, <1>8 DEF h

(* An answer enters the queue.                                             *)
LEMMA DeltaPost ==
  ASSUME NetInv, NEW i \in Ids, NEW q \in 0..2,
         Enqueue("server", Answer(i, q)), UNCHANGED wire
  PROVE  NetInv' /\ DeltaAnswer(i, q, 1)
<1> DEFINE g == Answer(i, q)
<1>1. g \in Frame
  BY FrameFacts
<1>2. /\ NetType'
      /\ \A d \in Ends : \A f : N(d, f)' = N(d, f) + One(d = "server" /\ g = f)
  BY <1>1, EnqueueN, PeerFacts DEF NetInv
<1>3. FrameInv'
  <2> SUFFICES ASSUME NEW d \in Ends, NEW f \in Frame, N(d, f)' > 0
               PROVE  f.code = 0 \/ (d = "server" /\ f.cmd = "Create")
    BY DEF FrameInv
  <2>1. CASE d = "server" /\ g = f
    BY <1>1, <2>1, FrameFacts
  <2>2. CASE ~(d = "server" /\ g = f)
    <3>1. One(d = "server" /\ g = f) = 0
      BY <2>2 DEF One
    <3>2. N(d, f) > 0
      BY <1>2, <3>1, LinkType DEF NetInv
    <3> QED
      BY <3>2 DEF NetInv, FrameInv
  <2> QED
    BY <2>1, <2>2
<1>4. \A j \in Ids, k \in 0..2 :
        Ans(j, k)' = Ans(j, k) + IF k = q /\ j = i THEN 1 ELSE 0
  BY <1>2, FrameEqual, PeerFacts DEF Ans, One
<1>5. \A d \in Ends, b \in Plain \cup {"Create"}, j \in Ids :
        PlainFrom(d, b) => Cnt(d, b, j)' = Cnt(d, b, j)
  <2> SUFFICES ASSUME NEW d \in Ends, NEW b \in Plain \cup {"Create"}, NEW j \in Ids,
                      PlainFrom(d, b)
               PROVE  Cnt(d, b, j)' = Cnt(d, b, j)
    OBVIOUS
  <2>1. ~(d = "server" /\ g = FrameOf(b, j))
    BY FrameEqual, PeerFacts DEF PlainFrom
  <2>2. One(d = "server" /\ g = FrameOf(b, j)) = 0
    BY <2>1 DEF One
  <2> QED
    BY <1>2, <2>2, LinkType DEF Cnt, NetInv
<1>6. DeltaAnswer(i, q, 1)
  BY <1>4, <1>5, PeerFacts DEF DeltaAnswer, PlainFrom
<1> QED
  BY <1>2, <1>3, <1>6 DEF NetInv

(* ServerCreate takes a Create from one direction and may put the answer   *)
(* into the other.                                                         *)
LEMMA DeltaServerCreate ==
  ASSUME NetInv, NEW i \in Ids, NEW q \in 0..2,
         Take("server", "Create", "loop"), i = Taken("server").id,
         Enqueue("server", Answer(i, q))
  PROVE  /\ NetInv'
         /\ Cnt("client", "Create", i) > 0
         /\ \A j \in Ids :
              /\ \A d \in Ends, b \in Plain : Cnt(d, b, j)' = Cnt(d, b, j)
              /\ Cnt("client", "Create", j)' =
                   Cnt("client", "Create", j) - IF j = i THEN 1 ELSE 0
              /\ \A k \in 0..2 :
                   Ans(j, k)' = Ans(j, k) + IF k = q /\ j = i THEN 1 ELSE 0
<1> DEFINE h == Taken("server")
           g == Answer(i, q)
<1>1. /\ wire["client"] # << >> /\ wire["client"] \in Seq(Frame)
      /\ h = Head(wire["client"]) /\ h \in Frame /\ h.cmd = "Create"
      /\ wire' = [wire EXCEPT !["client"] = Tail(wire["client"])]
      /\ queue' = [queue EXCEPT !["server"] = Append(queue["server"], g)]
      /\ g \in Frame
  <2>1. wire["client"] # << >> /\ h = Head(wire["client"]) /\ h.cmd = "Create"
    BY PeerFacts DEF Take, Taken
  <2>2. wire["client"] \in Seq(Frame) /\ h \in Frame
    BY <2>1, PeerFacts DEF NetInv, NetType
  <2>3. wire' = [wire EXCEPT !["client"] = Tail(wire["client"])]
    BY PeerFacts DEF Take
  <2>4. queue' = [queue EXCEPT !["server"] = Append(queue["server"], g)]
    BY DEF Enqueue
  <2>5. g \in Frame
    BY FrameFacts
  <2> QED
    BY <2>1, <2>2, <2>3, <2>4, <2>5
<1>2. NetType'
  BY <1>1, PeerFacts DEF NetInv, NetType
<1>3. Link("server")' = Append(Link("server"), g)
  <2>1. queue'["server"] = Append(queue["server"], g) /\ wire'["server"] = wire["server"]
    BY <1>1, PeerFacts DEF NetInv, NetType
  <2>2. \A w, s \in Seq(Frame) : w \o Append(s, g) = Append(w \o s, g)
    OBVIOUS
  <2> QED
    BY <2>1, <2>2, PeerFacts DEF NetInv, NetType, Link
<1>4. Link("client") # << >> /\ Head(Link("client")) = h
      /\ Link("client")' = Tail(Link("client"))
  <2>1. \A w, s \in Seq(Frame) : w # << >> =>
          w \o s # << >> /\ Head(w \o s) = Head(w) /\ Tail(w \o s) = Tail(w) \o s
    OBVIOUS
  <2>2. Link("client")' = Tail(wire["client"]) \o queue["client"]
    BY <1>1, PeerFacts DEF Link, NetInv, NetType
  <2>3. queue["client"] \in Seq(Frame)
    BY PeerFacts DEF NetInv, NetType
  <2> QED
    BY <1>1, <2>1, <2>2, <2>3 DEF Link
<1> HIDE DEF h
<1>5. \A f : N("server", f)' = N("server", f) + One(g = f)
  <2> TAKE f
  <2>1. Count(Append(Link("server"), g), f) = Count(Link("server"), f) + One(g = f)
    BY <1>1, LinkType, CountAppend, PeerFacts DEF NetInv
  <2> QED
    BY <1>3, <2>1 DEF N
<1>6. \A f : N("client", f) = N("client", f)' + One(h = f)
  <2> TAKE f
  <2>1. Count(Link("client"), f) = Count(Tail(Link("client")), f) + One(h = f)
    BY <1>4, LinkType, CountTail, PeerFacts DEF NetInv
  <2> QED
    BY <1>4, <2>1 DEF N
<1>7. N("client", h) > 0
  <2>1. 1 \in DOMAIN Link("client") /\ Link("client")[1] = h
    BY <1>4, LinkType, PeerFacts DEF NetInv
  <2> QED
    BY <2>1, LinkType, CountPositive, PeerFacts DEF N, NetInv
<1>8. h.code = 0
  BY <1>1, <1>7, PeerFacts DEF NetInv, FrameInv
<1>9. h = FrameOf("Create", i)
  BY <1>1, <1>8, FrameFacts DEF h
<1>10. \A e \in Ends : \A f : N(e, f) \in Nat /\ N(e, f)' \in Nat /\ One(h = f) \in Nat
  <2> TAKE e \in Ends
  <2> TAKE f
  <2>1. N(e, f) \in Nat /\ N("server", f) \in Nat
    BY LinkType, PeerFacts DEF NetInv
  <2>2. N("server", f)' \in Nat
    BY <1>5, <2>1 DEF One
  <2>3. N("client", f)' \in Nat
    <3>1. Tail(Link("client")) \in Seq(Frame)
      BY <1>4, LinkType, PeerFacts DEF NetInv
    <3>2. Count(Tail(Link("client")), f) \in Nat
      BY <3>1, CountType
    <3> QED
      BY <1>4, <3>2 DEF N
  <2> QED
    BY <2>1, <2>2, <2>3 DEF One, Ends
<1>11. FrameInv'
  <2> SUFFICES ASSUME NEW d \in Ends, NEW f \in Frame, N(d, f)' > 0
               PROVE  f.code = 0 \/ (d = "server" /\ f.cmd = "Create")
    BY DEF FrameInv
  <2>1. CASE d = "client"
    <3>1. N(d, f) > 0
      BY <1>6, <1>10, <2>1
    <3> QED
      BY <3>1 DEF NetInv, FrameInv
  <2>2. CASE d = "server" /\ g = f
    BY <2>2, FrameFacts
  <2>3. CASE d = "server" /\ g # f
    <3>1. N(d, f) > 0
      BY <1>5, <1>10, <2>3 DEF One
    <3> QED
      BY <3>1 DEF NetInv, FrameInv
  <2> QED
    BY <2>1, <2>2, <2>3 DEF Ends
<1>12. \A j \in Ids, b \in Plain : /\ Cnt("client", b, j)' = Cnt("client", b, j)
                                   /\ Cnt("server", b, j)' = Cnt("server", b, j)
  <2> TAKE j \in Ids, b \in Plain
  <2>1. One(h = FrameOf(b, j)) = 0 /\ One(g = FrameOf(b, j)) = 0
    <3>1. h # FrameOf(b, j) /\ g # FrameOf(b, j)
      BY <1>9, FrameFacts, FrameEqual DEF Plain
    <3> QED
      BY <3>1 DEF One
  <2> QED
    BY <1>5, <1>6, <1>10, <2>1, PeerFacts DEF Cnt
<1>13. \A j \in Ids : Cnt("client", "Create", j)' =
                        Cnt("client", "Create", j) - IF j = i THEN 1 ELSE 0
  <2> TAKE j \in Ids
  <2>1. h = FrameOf("Create", j) <=> j = i
    BY <1>9, FrameEqual
  <2> QED
    BY <1>6, <1>10, <2>1, PeerFacts DEF Cnt, One
<1>14. \A j \in Ids, k \in 0..2 :
         Ans(j, k)' = Ans(j, k) + IF k = q /\ j = i THEN 1 ELSE 0
  <2> TAKE j \in Ids, k \in 0..2
  <2>1. g = Answer(j, k) <=> k = q /\ j = i
    BY FrameEqual
  <2> QED
    BY <1>5, <1>10, <2>1, PeerFacts DEF Ans, One
<1>15. Cnt("client", "Create", i) > 0
  BY <1>7, <1>9 DEF Cnt
<1> QED
  BY <1>2, <1>11, <1>12, <1>13, <1>14, <1>15 DEF NetInv, Ends

-----------------------------------------------------------------------------
(* The types, and what ties at to cur and done to conn.                    *)

TableType ==
  /\ dial \in [Ids -> {"none", "sending", "waiting", "opened", "refused", "failed"}]
  /\ cancelled \in SUBSET Ids
  /\ entry \in [Ends -> [Ids -> {"none", "pending", "open", "refused"}]]
  /\ chan \in [Ends -> [Ids -> {"none", "open", "closed", "deleting", "gone"}]]
  /\ offer \in [Ids -> {"none", "opened", "refused", "sendClose"}]

Answers == {f \in Frame : f.cmd = "Create"}

LoopType ==
  /\ posted \in SUBSET Answers
  /\ at \in [Ends -> {"loop", "result", "sendClose", "exited", "panic"}]
  /\ cur \in [Ends -> Frame \cup {NoFrame}]
  /\ \A e \in Ends : at[e] = "sendClose" => cur[e] \in Frame
  /\ at["client"] = "result" => cur["client"] \in Answers
  /\ at["server"] # "result"

EndType ==
  /\ writer \in [Ends -> BOOLEAN]
  /\ done \in [Ends -> BOOLEAN]
  /\ conn \in {"up", "closed"}
  /\ \A e \in Ends : done[e] => conn = "closed"

DataType ==
  /\ wrote \in [Ends -> [Ids -> Nat]]
  /\ got \in [Ends -> [Ids -> Nat]]
  /\ \A e \in Ends, i \in Ids : wrote[e][i] <= MaxWrites[e]
  /\ confirms \in [Ends -> [Ids -> {"none", "stored", "overflow"}]]

RestInv == TableType /\ LoopType /\ EndType /\ DataType

-----------------------------------------------------------------------------
(* One channel.  Its Create goes through the stages: not yet sent, a frame *)
(* to the server, an answer of the server (sent, or left to a goroutine of *)
(* postWrite), the frame that the client's loop handles.                   *)

Res(i, k) == at["client"] = "result" /\ cur["client"] = Answer(i, k)
SC(e, i) == at[e] = "sendClose" /\ cur[e].id = i

Posted(i, k) == Answer(i, k) \in posted

Answered(i, k) == Ans(i, k) + One(Posted(i, k)) + One(Res(i, k))
Tokens(i) ==
  Cnt("client", "Create", i) + Answered(i, 0) + Answered(i, 1) + Answered(i, 2)

Unsent(i) == dial[i] \in {"none", "sending"}
Asked(i) == Unsent(i) \/ Cnt("client", "Create", i) > 0
Fresh(i) == Unsent(i) \/ Tokens(i) > 0
Answering(i, k) == Ans(i, k) > 0 \/ Posted(i, k) \/ Res(i, k)

Closing(e, i) ==
  \/ Cnt(e, "Close", i) > 0
  \/ SC(e, i)
  \/ chan[e][i] = "deleting"
  \/ e = "client" /\ offer[i] = "sendClose"

(* There is one such stage at a time, and none is gone through twice.      *)
TokenInv(i) == Tokens(i) <= 1 /\ (Unsent(i) => Tokens(i) = 0)

(* Until the client has handled the answer it has only the pending entry,  *)
(* and neither end has sent anything because of it.                        *)
FreshInv(i) ==
  Fresh(i) =>
    /\ chan["client"][i] = "none" /\ entry["client"][i] \in {"none", "pending"}
    /\ offer[i] = "none"
    /\ \A b \in Plain : Cnt("client", b, i) = 0
    /\ ~SC("client", i)
    /\ got["server"][i] = 0
    /\ Cnt("server", "Confirm", i) = 0

(* Until the server has handled the Create it knows nothing of the channel.*)
AskedInv(i) ==
  Asked(i) =>
    /\ chan["server"][i] = "none" /\ entry["server"][i] = "none"
    /\ Cnt("server", "Close", i) = 0
    /\ ~SC("server", i)

RefusedInv(i) == \A k \in 1..2 : Answering(i, k) => chan["server"][i] = "none"

EntryInv(i) == \A e \in Ends : chan[e][i] = "open" => entry[e][i] = "open"

ResInv(i) == (\E k \in 0..2 : Res(i, k)) => entry["client"][i] = "pending"

(* Who sends a Close has closed, or never had, the channel; but the server *)
(* keeps the channel of which it has reported an overflow.                 *)
Overflowed(e, i) == e = "server" /\ confirms[e][i] = "overflow"
CloseInv(i) ==
  \A e \in Ends : Closing(e, i) => chan[e][i] # "open" \/ Overflowed(e, i)

(* A channel that the client will open on the answer is not forgotten by   *)
(* the server without a Close behind that answer or ahead of it.           *)
PendingInv(i) ==
  conn = "up" /\ Answering(i, 0) /\ entry["client"][i] = "pending"
    => entry["server"][i] = "open" \/ Closing("server", i)

OrphanInv(i) ==
  conn = "up" =>
    /\ chan["server"][i] = "open" =>
         \/ entry["client"][i] = "open"
         \/ \E k \in 0..2 : Answering(i, k)
         \/ Closing("client", i)
         \/ Overflowed("server", i)
    /\ chan["client"][i] = "open" =>
         entry["server"][i] = "open" \/ Closing("server", i)

OwnedInv(i) ==
  chan["client"][i] = "open" =>
    dial[i] = "opened" \/ offer[i] = "opened" \/ done["client"]

(* What is stored and not confirmed, and what is under way, was written.   *)
DataInv(i) ==
  \A e \in Ends : got[e][i] + Cnt(Peer(e), "Write", i) <= wrote[Peer(e)][i]

IdInv(i) ==
  /\ TokenInv(i) /\ FreshInv(i) /\ AskedInv(i) /\ RefusedInv(i) /\ EntryInv(i)
  /\ ResInv(i) /\ CloseInv(i) /\ PendingInv(i) /\ OrphanInv(i) /\ OwnedInv(i)
  /\ DataInv(i)

IndInv == NetInv /\ RestInv /\ \A i \in Ids : IdInv(i)

(* A step that leaves channel i alone: the tables, and the rest.           *)
TableSame(i) ==
  /\ dial'[i] = dial[i] /\ offer'[i] = offer[i]
  /\ \A e \in Ends : entry'[e][i] = entry[e][i] /\ chan'[e][i] = chan[e][i]
NetSame(i) ==
  /\ \A e \in Ends :
       /\ got'[e][i] = got[e][i] /\ wrote'[e][i] = wrote[e][i]
       /\ confirms'[e][i] = confirms[e][i]
       /\ SC(e, i)' <=> SC(e, i)
       /\ \A b \in Plain : Cnt(e, b, i)' = Cnt(e, b, i)
  /\ Cnt("client", "Create", i)' = Cnt("client", "Create", i)
  /\ \A k \in 0..2 : /\ Ans(i, k)' = Ans(i, k)
                     /\ Posted(i, k)' <=> Posted(i, k)
                     /\ Res(i, k)' <=> Res(i, k)
ViewSame(i) == TableSame(i) /\ NetSame(i)

EndsGrow == (conn' = "up" => conn = "up") /\ (done["client"] => done'["client"])

(* What NetSame keeps of the notions above.                                *)
LEMMA SameNet ==
  ASSUME NEW i \in Ids, NetSame(i)
  PROVE  /\ Tokens(i)' = Tokens(i)
         /\ \A k \in 0..2 : Answering(i, k)' <=> Answering(i, k)
<1>1. 0 \in 0..2 /\ 1 \in 0..2 /\ 2 \in 0..2
  OBVIOUS
<1>2. \A k \in 0..2 : One(Posted(i, k))' = One(Posted(i, k)) /\ One(Res(i, k))' = One(Res(i, k))
  BY DEF One, NetSame
<1>3. Tokens(i)' = Tokens(i)
  BY <1>1, <1>2 DEF Tokens, Answered, NetSame
<1> QED
  BY <1>3 DEF NetSame, Answering

LEMMA SameView ==
  ASSUME NEW i \in Ids, IdInv(i), ViewSame(i), EndsGrow
  PROVE  IdInv(i)'
<1> USE DEF IdInv
<1>1. Tokens(i)' = Tokens(i)
  BY SameNet DEF ViewSame
<1>2. /\ Unsent(i)' <=> Unsent(i)
      /\ \A k \in 0..2 : Answering(i, k)' <=> Answering(i, k)
      /\ \A e \in Ends : Closing(e, i)' <=> Closing(e, i)
  BY DEF ViewSame, TableSame, NetSame, Unsent, Answering, Closing, Plain
<1>3. (Asked(i)' <=> Asked(i)) /\ (Fresh(i)' <=> Fresh(i))
  BY <1>1, <1>2 DEF ViewSame, NetSame, Asked, Fresh
<1>4. TokenInv(i)'
  BY <1>1, <1>2 DEF TokenInv
<1>5. FreshInv(i)'
  BY <1>3, PeerFacts DEF FreshInv, ViewSame, TableSame, NetSame, Plain
<1>6. AskedInv(i)'
  BY <1>3, PeerFacts DEF AskedInv, ViewSame, TableSame, NetSame, Plain
<1>7. RefusedInv(i)'
  BY <1>2, PeerFacts DEF RefusedInv, ViewSame, TableSame, NetSame
<1>8. EntryInv(i)' /\ CloseInv(i)'
  BY <1>2 DEF EntryInv, CloseInv, Overflowed, ViewSame, TableSame, NetSame
<1>9. ResInv(i)'
  BY PeerFacts DEF ResInv, ViewSame, TableSame, NetSame
<1>10. PendingInv(i)'
  BY <1>2, PeerFacts DEF PendingInv, ViewSame, TableSame, NetSame, EndsGrow
<1>11. OrphanInv(i)'
  BY <1>2, PeerFacts DEF OrphanInv, Overflowed, ViewSame, TableSame, NetSame, EndsGrow
<1>12. OwnedInv(i)'
  BY PeerFacts DEF OwnedInv, ViewSame, TableSame, NetSame, EndsGrow
<1>13. DataInv(i)'
  BY PeerFacts DEF DataInv, ViewSame, TableSame, NetSame, Plain
<1> QED
  BY <1>4, <1>5, <1>6, <1>7, <1>8, <1>9, <1>10, <1>11, <1>12, <1>13

(* Where a channel is, without sums.                                       *)
LEMMA Stages ==
  ASSUME NetType, NEW i \in Ids
  PROVE  /\ Tokens(i) \in Nat
         /\ Tokens(i) > 0 <=> \/ Cnt("client", "Create", i) > 0
                             \/ \E k \in 0..2 : Answering(i, k)
         /\ Tokens(i) <= 1 => /\ Cnt("client", "Create", i) > 0 =>
                                   \A k \in 0..2 : ~Answering(i, k)
                              /\ \A k, q \in 0..2 :
                                   Answering(i, k) /\ Answering(i, q) => k = q
<1>1. Cnt("client", "Create", i) \in Nat /\ \A k \in 0..2 : Ans(i, k) \in Nat
  BY CntType, PeerFacts
<1>2. \A k : k \in 0..2 <=> k \in {0, 1, 2}
  OBVIOUS
<1>3. /\ \A k \in {0, 1, 2} : One(Posted(i, k)) \in {0, 1} /\ One(Res(i, k)) \in {0, 1}
      /\ \A k \in {0, 1, 2} : One(Posted(i, k)) = 1 <=> Posted(i, k)
      /\ \A k \in {0, 1, 2} : One(Res(i, k)) = 1 <=> Res(i, k)
  BY DEF One
<1>4. Tokens(i) \in Nat
  BY <1>1, <1>2, <1>3 DEF Tokens, Answered
<1>5. Tokens(i) > 0 <=> \/ Cnt("client", "Create", i) > 0
                      \/ \E k \in 0..2 : Answering(i, k)
  BY <1>1, <1>2, <1>3 DEF Tokens, Answered, Answering
<1>6. ASSUME Tokens(i) <= 1, Cnt("client", "Create", i) > 0, NEW k \in 0..2
      PROVE  ~Answering(i, k)
  BY <1>1, <1>2, <1>3, <1>6 DEF Tokens, Answered, Answering
<1>7. ASSUME Tokens(i) <= 1, NEW k \in 0..2, NEW q \in 0..2,
             Answering(i, k), Answering(i, q)
      PROVE  k = q
  BY <1>1, <1>2, <1>3, <1>7 DEF Tokens, Answered, Answering
<1> QED
  BY <1>4, <1>5, <1>6, <1>7

LEMMA OneChannel ==
  ASSUME IndInv, NetInv', RestInv', EndsGrow, NEW i \in Ids,
         \A j \in Ids \ {i} : ViewSame(j), IdInv(i)'
  PROVE  IndInv'
<1>1. \A j \in Ids \ {i} : IdInv(j)'
  BY SameView DEF IndInv
<1> QED
  BY <1>1 DEF IndInv

LEMMA NoChannel ==
  ASSUME IndInv, NetInv', RestInv', EndsGrow, \A j \in Ids : ViewSame(j)
  PROVE  IndInv'
BY SameView DEF IndInv

-----------------------------------------------------------------------------
(* Steps that neither send nor take a frame.                               *)

LEMMA LocalNet ==
  ASSUME NetInv, UNCHANGED <<netVars, loopVars, dataVars>>
  PROVE  NetInv' /\ \A j \in Ids : NetSame(j)
<1>1. NetInv' /\ DeltaNone
  BY DeltaSame DEF netVars
<1>2. \A j \in Ids : NetSame(j)
  BY <1>1 DEF DeltaNone, NetSame, netVars, loopVars, dataVars, SC, Res, Posted
<1> QED
  BY <1>1, <1>2

(* A step on the tables of channel i that neither sends nor takes a frame. *)
(* It may close channels and remove entries, but not silently: where there *)
(* was an open channel, what the other end waits for goes on.              *)
KeepsFresh(i) ==
  /\ Unsent(i)' => Unsent(i)
  /\ Fresh(i) => /\ chan'["client"][i] = "none"
                 /\ entry'["client"][i] \in {"none", "pending"}
                 /\ offer'[i] = "none"
  /\ Asked(i) => entry'["server"][i] = "none"
  /\ Unsent(i) \/ (entry'["client"][i] = "pending" => entry["client"][i] = "pending")
  /\ (\E k \in 0..2 : Res(i, k)) => entry'["client"][i] = entry["client"][i]
KeepsEnd(e, i) ==
  /\ chan'[e][i] = "open" => chan[e][i] = "open" /\ entry'[e][i] = entry[e][i]
  /\ chan[e][i] \in {"none", "deleting"} => chan'[e][i] = chan[e][i]
  /\ entry[e][i] = "open" => entry'[e][i] = "open" \/ chan'[e][i] = "deleting"
KeepsOffer(i) ==
  /\ offer[i] = "sendClose" => offer'[i] = "sendClose"
  /\ offer'[i] = "sendClose" => offer[i] = "sendClose" \/ chan'["client"][i] # "open"

LEMMA LocalId ==
  ASSUME IndInv, NEW i \in Ids, NetSame(i), EndsGrow,
         KeepsFresh(i), \A e \in Ends : KeepsEnd(e, i), KeepsOffer(i), OwnedInv(i)'
  PROVE  IdInv(i)'
<1> USE DEF IndInv, IdInv
<1>1. /\ Tokens(i)' = Tokens(i)
      /\ \A k \in 0..2 : Answering(i, k)' <=> Answering(i, k)
  BY SameNet
<1>2. /\ Asked(i)' => Asked(i)
      /\ Fresh(i)' => Fresh(i)
      /\ Asked(i) => Fresh(i)
      /\ \A k \in 0..2 : Answering(i, k) => Fresh(i)
  BY <1>1, Stages DEF Asked, Fresh, NetSame, NetInv, KeepsFresh
<1>3. \A e \in Ends : Closing(e, i) => Closing(e, i)'
  BY DEF Closing, NetSame, Plain, KeepsEnd, KeepsOffer
<1>4. TokenInv(i)'
  BY <1>1 DEF TokenInv, KeepsFresh
<1>5. FreshInv(i)'
  BY <1>2, PeerFacts DEF FreshInv, NetSame, Plain, KeepsFresh
<1>6. AskedInv(i)'
  BY <1>2, PeerFacts DEF AskedInv, NetSame, Plain, KeepsFresh, KeepsEnd
<1>7. RefusedInv(i)'
  BY <1>1, PeerFacts DEF RefusedInv, KeepsEnd
<1>8. EntryInv(i)'
  BY DEF EntryInv, KeepsEnd
<1>9. ResInv(i)'
  BY DEF ResInv, NetSame, KeepsFresh
<1>10. CloseInv(i)'
  BY DEF CloseInv, Overflowed, Closing, NetSame, Plain, KeepsEnd, KeepsOffer
<1>11. PendingInv(i)'
  <2>1. Answering(i, 0) => ~Unsent(i)
    BY Stages DEF TokenInv, NetInv
  <2> QED
    BY <1>1, <1>3, <2>1, PeerFacts DEF PendingInv, EndsGrow, KeepsFresh, KeepsEnd, Closing
<1>12. OrphanInv(i)'
  <2>1. Overflowed("server", i) => Overflowed("server", i)'
    BY PeerFacts DEF Overflowed, NetSame
  <2> QED
    BY <1>1, <1>3, <2>1, PeerFacts DEF OrphanInv, EndsGrow, Closing, KeepsEnd, KeepsFresh
<1>13. DataInv(i)'
  BY PeerFacts DEF DataInv, NetSame, Plain
<1> QED
  BY <1>4, <1>5, <1>6, <1>7, <1>8, <1>9, <1>10, <1>11, <1>12, <1>13

(* A step that changes nothing but the tables, and these only for i.       *)
LEMMA TableStep ==
  ASSUME IndInv, NEW i \in Ids, TableType',
         UNCHANGED <<netVars, loopVars, endVars, dataVars>>,
         \A j \in Ids \ {i} : TableSame(j),
         KeepsFresh(i), \A e \in Ends : KeepsEnd(e, i), KeepsOffer(i), OwnedInv(i)'
  PROVE  IndInv'
<1>1. NetInv' /\ \A j \in Ids : NetSame(j)
  BY LocalNet DEF IndInv
<1>2. RestInv'
  BY DEF IndInv, RestInv, LoopType, EndType, DataType, netVars, loopVars, endVars, dataVars
<1>3. EndsGrow
  BY DEF EndsGrow, endVars
<1>4. \A j \in Ids \ {i} : ViewSame(j)
  BY <1>1 DEF ViewSame
<1>5. IdInv(i)'
  BY <1>1, <1>3, LocalId
<1> QED
  BY <1>1, <1>2, <1>3, <1>4, <1>5, OneChannel

LEMMA CreateStartStep ==
  ASSUME IndInv, NEW i \in Ids, CreateStart(i) PROVE IndInv'
<1> USE DEF IndInv, IdInv, RestInv
<1>1. /\ dial[i] = "none"
      /\ \/ dial' = [dial EXCEPT ![i] = "failed"] /\ entry' = entry
         \/ /\ dial' = [dial EXCEPT ![i] = "sending"]
            /\ entry' = [entry EXCEPT !["client"][i] = "pending"]
      /\ UNCHANGED <<cancelled, chan, offer, netVars, loopVars, endVars, dataVars>>
  BY DEF CreateStart, SetEntry
<1>2. TableType'
  <2>1. dial' \in [Ids -> {"none", "sending", "waiting", "opened", "refused", "failed"}]
    BY <1>1 DEF TableType
  <2>2. entry' \in [Ends -> [Ids -> {"none", "pending", "open", "refused"}]]
    <3>1. CASE entry' = entry
      BY <3>1 DEF TableType
    <3>2. CASE entry' = [entry EXCEPT !["client"][i] = "pending"]
      BY <3>2, PeerFacts DEF TableType
    <3> QED
      BY <1>1, <3>1, <3>2
  <2> QED
    BY <1>1, <2>1, <2>2 DEF TableType
<1>3. \A j \in Ids \ {i} : TableSame(j)
  <2> TAKE j \in Ids \ {i}
  <2>1. dial'[j] = dial[j]
    BY <1>1 DEF TableType
  <2>2. \A e \in Ends : entry'[e][j] = entry[e][j]
    <3>1. CASE entry' = entry
      BY <3>1
    <3>2. CASE entry' = [entry EXCEPT !["client"][i] = "pending"]
      BY <3>2, PeerFacts DEF TableType
    <3> QED
      BY <1>1, <3>1, <3>2
  <2> QED
    BY <1>1, <2>1, <2>2 DEF TableSame
<1>4. /\ Unsent(i) /\ chan' = chan /\ offer' = offer
      /\ entry'["client"][i] \in {entry["client"][i], "pending"}
      /\ entry'["server"][i] = entry["server"][i]
  BY <1>1, PeerFacts DEF Unsent, TableType
<1>5. Fresh(i) /\ ~\E k \in 0..2 : Res(i, k)
  BY <1>4, Stages DEF TokenInv, Fresh, Answering, NetInv
<1>6. KeepsFresh(i) /\ KeepsOffer(i) /\ \A e \in Ends : KeepsEnd(e, i)
  BY <1>4, <1>5 DEF FreshInv, AskedInv, KeepsFresh, KeepsOffer, KeepsEnd, Ends
<1>7. OwnedInv(i)'
  BY <1>4, <1>5 DEF FreshInv, OwnedInv
<1> QED
  BY <1>1, <1>2, <1>3, <1>6, <1>7, TableStep

LEMMA CreateGiveUpStep ==
  ASSUME IndInv, NEW i \in Ids, CreateGiveUp(i) PROVE IndInv'
<1> USE DEF IndInv, IdInv, RestInv
<1>1. /\ dial[i] \in {"sending", "waiting"} /\ dial' = [dial EXCEPT ![i] = "failed"]
      /\ UNCHANGED <<cancelled, entry, chan, offer, netVars, loopVars, endVars, dataVars>>
  BY DEF CreateGiveUp
<1>2. TableType'
  BY <1>1 DEF TableType
<1>3. \A j \in Ids \ {i} : TableSame(j)
  BY <1>1 DEF TableSame, TableType
<1>4. dial'[i] = "failed"
  BY <1>1 DEF TableType
<1>5. KeepsFresh(i) /\ KeepsOffer(i) /\ \A e \in Ends : KeepsEnd(e, i)
  BY <1>1, <1>4 DEF FreshInv, AskedInv, KeepsFresh, KeepsOffer, KeepsEnd, Unsent
<1>6. OwnedInv(i)'
  BY <1>1, <1>4 DEF OwnedInv, endVars
<1> QED
  BY <1>1, <1>2, <1>3, <1>5, <1>6, TableStep

LEMMA CancelStep ==
  ASSUME IndInv, NEW i \in Ids, Cancel(i) PROVE IndInv'
<1> USE DEF IndInv, IdInv, RestInv
<1>1. /\ cancelled' = cancelled \cup {i}
      /\ UNCHANGED <<dial, entry, chan, offer, netVars, loopVars, endVars, dataVars>>
  BY DEF Cancel
<1>2. TableType'
  BY <1>1 DEF TableType
<1>3. KeepsFresh(i) /\ KeepsOffer(i) /\ \A e \in Ends : KeepsEnd(e, i)
  BY <1>1 DEF FreshInv, AskedInv, KeepsFresh, KeepsOffer, KeepsEnd, Unsent
<1>4. OwnedInv(i)'
  BY <1>1 DEF OwnedInv, endVars
<1>5. \A j \in Ids : TableSame(j)
  BY <1>1 DEF TableSame
<1> QED
  BY <1>1, <1>2, <1>3, <1>4, <1>5, TableStep

LEMMA OfferTakenStep ==
  ASSUME IndInv, NEW i \in Ids, OfferTaken(i) PROVE IndInv'
<1> USE DEF IndInv, IdInv, RestInv
<1>1. /\ offer[i] \in {"opened", "refused"} /\ dial[i] = "waiting"
      /\ dial' = [dial EXCEPT ![i] = offer[i]]
      /\ offer' = [offer EXCEPT ![i] = "none"]
      /\ UNCHANGED <<cancelled, entry, chan, netVars, loopVars, endVars, dataVars>>
  BY DEF OfferTaken
<1>2. TableType'
  BY <1>1 DEF TableType
<1>3. \A j \in Ids \ {i} : TableSame(j)
  BY <1>1 DEF TableSame, TableType
<1>4. dial'[i] = offer[i] /\ offer'[i] = "none"
  BY <1>1 DEF TableType
<1>5. KeepsFresh(i) /\ KeepsOffer(i) /\ \A e \in Ends : KeepsEnd(e, i)
  BY <1>1, <1>4 DEF FreshInv, AskedInv, KeepsFresh, KeepsOffer, KeepsEnd, Unsent
<1>6. OwnedInv(i)'
  BY <1>1, <1>4 DEF OwnedInv, endVars
<1> QED
  BY <1>1, <1>2, <1>3, <1>5, <1>6, TableStep

LEMMA OfferCancelledStep ==
  ASSUME IndInv, NEW i \in Ids, OfferCancelled(i) PROVE IndInv'
<1> USE DEF IndInv, IdInv, RestInv
<1>1. /\ offer[i] \in {"opened", "refused"}
      /\ offer' = [offer EXCEPT ![i] = IF offer[i] = "opened" THEN "sendClose" ELSE "none"]
      /\ chan' = [chan EXCEPT !["client"][i] =
                    IF chan["client"][i] = "open" THEN "closed" ELSE chan["client"][i]]
      /\ UNCHANGED <<dial, cancelled, entry, netVars, loopVars, endVars, dataVars>>
  BY DEF OfferCancelled, ClosedChan
<1>2. TableType'
  <2>1. chan' \in [Ends -> [Ids -> {"none", "open", "closed", "deleting", "gone"}]]
    BY <1>1, PeerFacts DEF TableType
  <2>2. offer' \in [Ids -> {"none", "opened", "refused", "sendClose"}]
    BY <1>1 DEF TableType
  <2> QED
    BY <1>1, <2>1, <2>2 DEF TableType
<1>3. \A j \in Ids \ {i} : TableSame(j)
  BY <1>1 DEF TableSame, TableType
<1>4. /\ chan'["client"][i] = IF chan["client"][i] = "open" THEN "closed"
                              ELSE chan["client"][i]
      /\ chan'["server"][i] = chan["server"][i]
      /\ offer'[i] \in {"sendClose", "none"}
  BY <1>1, PeerFacts DEF TableType
<1>5. ~Fresh(i)
  BY <1>1 DEF FreshInv
<1>6. KeepsFresh(i) /\ KeepsOffer(i) /\ \A e \in Ends : KeepsEnd(e, i)
  BY <1>1, <1>4, <1>5 DEF AskedInv, KeepsFresh, KeepsOffer, KeepsEnd, Unsent, Ends
<1>7. OwnedInv(i)'
  BY <1>4 DEF OwnedInv
<1> QED
  BY <1>1, <1>2, <1>3, <1>6, <1>7, TableStep

LEMMA OfferDoneStep ==
  ASSUME IndInv, NEW i \in Ids, OfferDone(i) PROVE IndInv'
<1> USE DEF IndInv, IdInv, RestInv
<1>1. /\ offer[i] \in {"opened", "refused"} /\ done["client"]
      /\ offer' = [offer EXCEPT ![i] = "none"]
      /\ UNCHANGED <<dial, cancelled, entry, chan, netVars, loopVars, endVars, dataVars>>
  BY DEF OfferDone
<1>2. TableType'
  BY <1>1 DEF TableType
<1>3. \A j \in Ids \ {i} : TableSame(j)
  BY <1>1 DEF TableSame, TableType
<1>4. offer'[i] = "none"
  BY <1>1 DEF TableType
<1>5. KeepsFresh(i) /\ KeepsOffer(i) /\ \A e \in Ends : KeepsEnd(e, i)
  BY <1>1, <1>4 DEF FreshInv, AskedInv, KeepsFresh, KeepsOffer, KeepsEnd, Unsent
<1>6. OwnedInv(i)'
  BY <1>1 DEF OwnedInv, endVars
<1> QED
  BY <1>1, <1>2, <1>3, <1>5, <1>6, TableStep

(* The end closes a channel that is open.                                  *)
LEMMA CloseStep ==
  ASSUME IndInv, NEW e \in Ends, NEW i \in Ids, Close(e, i) PROVE IndInv'
<1> USE DEF IndInv, IdInv, RestInv
<1>1. /\ chan[e][i] = "open" /\ chan' = [chan EXCEPT ![e][i] = "closed"]
      /\ UNCHANGED <<dial, cancelled, entry, offer, netVars, loopVars, endVars, dataVars>>
  BY DEF Close, ClosedChan
<1>2. TableType'
  BY <1>1 DEF TableType
<1>3. \A j \in Ids \ {i} : TableSame(j)
  BY <1>1 DEF TableSame, TableType
<1>4. chan'[e][i] = "closed" /\ \A d \in Ends \ {e} : chan'[d][i] = chan[d][i]
  BY <1>1 DEF TableType
<1>5. Fresh(i) => e = "server"
  BY <1>1 DEF FreshInv, Ends
<1>6. KeepsFresh(i) /\ KeepsOffer(i) /\ \A d \in Ends : KeepsEnd(d, i)
  BY <1>1, <1>4, <1>5, PeerFacts DEF FreshInv, AskedInv, KeepsFresh, KeepsOffer, KeepsEnd, Unsent
<1>7. OwnedInv(i)'
  BY <1>1, <1>4, PeerFacts DEF OwnedInv, endVars
<1> QED
  BY <1>1, <1>2, <1>3, <1>6, <1>7, TableStep

LEMMA ServeDeleteStep ==
  ASSUME IndInv, NEW e \in Ends, NEW i \in Ids, ServeDelete(e, i) PROVE IndInv'
<1> USE DEF IndInv, IdInv, RestInv
<1>1. /\ chan[e][i] \in {"closed", "open"}
      /\ \/ /\ entry[e][i] = "open"
            /\ entry' = [entry EXCEPT ![e][i] = "none"]
            /\ chan' = [chan EXCEPT ![e][i] = "deleting"]
         \/ /\ entry[e][i] # "open" /\ entry' = entry
            /\ chan' = [chan EXCEPT ![e][i] = "gone"]
      /\ UNCHANGED <<dial, cancelled, offer, netVars, loopVars, endVars, dataVars>>
  BY DEF ServeDelete, SetEntry
<1>2. TableType'
  <2>1. CASE entry[e][i] = "open"
    <3>1. /\ entry' = [entry EXCEPT ![e][i] = "none"]
          /\ chan' = [chan EXCEPT ![e][i] = "deleting"]
      BY <1>1, <2>1
    <3>2. chan' \in [Ends -> [Ids -> {"none", "open", "closed", "deleting", "gone"}]]
      BY <3>1 DEF TableType
    <3>3. entry' \in [Ends -> [Ids -> {"none", "pending", "open", "refused"}]]
      BY <3>1 DEF TableType
    <3> QED
      BY <1>1, <3>2, <3>3 DEF TableType
  <2>2. CASE entry[e][i] # "open"
    <3>1. entry' = entry /\ chan' = [chan EXCEPT ![e][i] = "gone"]
      BY <1>1, <2>2
    <3> QED
      BY <1>1, <3>1 DEF TableType
  <2> QED
    BY <2>1, <2>2
<1>3. \A j \in Ids \ {i} : TableSame(j)
  BY <1>1 DEF TableSame, TableType
<1>4. /\ \A d \in Ends \ {e} : chan'[d][i] = chan[d][i] /\ entry'[d][i] = entry[d][i]
      /\ \/ /\ entry[e][i] = "open" /\ entry'[e][i] = "none"
            /\ chan'[e][i] = "deleting"
         \/ /\ entry[e][i] # "open" /\ entry'[e][i] = entry[e][i]
            /\ chan'[e][i] = "gone"
  BY <1>1 DEF TableType
<1>5. Fresh(i) => e = "server"
  BY <1>1 DEF FreshInv, Ends
<1>6. KeepsFresh(i) /\ KeepsOffer(i) /\ \A d \in Ends : KeepsEnd(d, i)
  BY <1>1, <1>4, <1>5, PeerFacts DEF FreshInv, AskedInv, ResInv, KeepsFresh, KeepsOffer, KeepsEnd, Unsent
<1>7. OwnedInv(i)'
  BY <1>1, <1>4, PeerFacts DEF OwnedInv, endVars
<1> QED
  BY <1>1, <1>2, <1>3, <1>6, <1>7, TableStep

(* The reader loop of e ends with the connection, which closes every       *)
(* channel that has an entry.                                              *)
LEMMA ReaderExitStep ==
  ASSUME IndInv, NEW e \in Ends, ReaderExit(e) PROVE IndInv'
<1> USE DEF IndInv, IdInv, RestInv
<1>1. /\ at[e] = "loop" /\ conn = "closed"
      /\ at' = [at EXCEPT ![e] = "exited"]
      /\ chan' = [chan EXCEPT ![e] = [i \in Ids |->
                    IF entry[e][i] = "open" /\ chan[e][i] = "open" THEN "closed"
                    ELSE chan[e][i]]]
      /\ done' = [done EXCEPT ![e] = TRUE]
      /\ UNCHANGED <<dial, cancelled, entry, offer, netVars, cur, writer, conn, dataVars>>
  BY DEF ReaderExit
<1>2. NetInv' /\ DeltaNone
  BY <1>1, DeltaSame DEF netVars
<1>3. RestInv'
  <2>1. TableType'
    BY <1>1 DEF TableType
  <2>2. LoopType'
    BY <1>1, PeerFacts DEF LoopType, netVars
  <2>3. EndType'
    BY <1>1 DEF EndType
  <2> QED
    BY <1>1, <2>1, <2>2, <2>3 DEF DataType, dataVars
<1>4. EndsGrow
  BY <1>1 DEF EndsGrow, EndType
<1>5. \A j \in Ids : NetSame(j)
  <2>1. \A d \in Ends : \A j \in Ids : SC(d, j)' <=> SC(d, j)
    BY <1>1 DEF SC, LoopType
  <2>2. at'["client"] = "result" <=> at["client"] = "result"
    BY <1>1 DEF LoopType
  <2> QED
    BY <1>1, <1>2, <2>1, <2>2 DEF DeltaNone, NetSame, netVars, dataVars, Res, Posted
<1>6. ASSUME NEW i \in Ids PROVE IdInv(i)'
  <2>1. /\ chan'[e][i] = IF entry[e][i] = "open" /\ chan[e][i] = "open" THEN "closed"
                         ELSE chan[e][i]
        /\ \A d \in Ends \ {e} : chan'[d][i] = chan[d][i]
    BY <1>1 DEF TableType
  <2>2. \A d \in Ends : KeepsEnd(d, i)
    BY <1>1, <2>1 DEF KeepsEnd
  <2>3. KeepsFresh(i) /\ KeepsOffer(i)
    BY <1>1, <2>1, PeerFacts DEF FreshInv, AskedInv, KeepsFresh, KeepsOffer, Unsent
  <2>4. OwnedInv(i)'
    BY <1>1, <1>4, <2>1, PeerFacts DEF OwnedInv, EndsGrow
  <2> QED
    BY <1>4, <1>5, <2>2, <2>3, <2>4, LocalId
<1> QED
  BY <1>2, <1>3, <1>6

(* The end of a transport, and a frame that moves from queue to wire.      *)
LEMMA EndsStep ==
  ASSUME IndInv, UNCHANGED <<tableVars, posted, loopVars, dataVars>>,
         NetInv', DeltaNone, EndType', EndsGrow
  PROVE  IndInv'
<1> USE DEF IndInv, RestInv
<1>1. RestInv'
  BY DEF TableType, LoopType, DataType, tableVars, loopVars, dataVars
<1>2. \A j \in Ids : ViewSame(j)
  BY DEF DeltaNone, ViewSame, TableSame, NetSame, tableVars, loopVars, dataVars, SC, Res, Posted
<1> QED
  BY <1>1, <1>2, NoChannel

LEMMA WriterStepStep ==
  ASSUME IndInv, NEW e \in Ends, WriterStep(e) PROVE IndInv'
<1> USE DEF IndInv, RestInv
<1>1. CASE ServeWrite(e)
  <2>1. NetInv' /\ DeltaNone
    BY <1>1, DeltaServeWrite
  <2>2. UNCHANGED <<tableVars, posted, loopVars, endVars, dataVars>>
    BY <1>1 DEF ServeWrite
  <2>3. EndType' /\ EndsGrow
    BY <2>2 DEF endVars, EndType, EndsGrow
  <2> QED
    BY <2>1, <2>2, <2>3, EndsStep
<1>2. CASE WriterExit(e)
  <2>1. /\ writer' = [writer EXCEPT ![e] = FALSE] /\ conn' = "closed"
        /\ UNCHANGED <<tableVars, netVars, loopVars, done, dataVars>>
    BY <1>2 DEF WriterExit
  <2>2. NetInv' /\ DeltaNone
    BY <2>1, DeltaSame DEF netVars
  <2>3. EndType' /\ EndsGrow
    BY <2>1 DEF EndType, EndsGrow
  <2> QED
    BY <2>1, <2>2, <2>3, EndsStep DEF netVars
<1> QED
  BY <1>1, <1>2 DEF WriterStep

LEMMA TransportCloseStep ==
  ASSUME IndInv, TransportClose \/ ConnFail PROVE IndInv'
<1> USE DEF IndInv, RestInv
<1>1. /\ done' = done \/ done' = [done EXCEPT !["client"] = TRUE]
      /\ conn' = "closed"
      /\ UNCHANGED <<tableVars, netVars, loopVars, writer, dataVars>>
  BY DEF TransportClose, ConnFail
<1>2. NetInv' /\ DeltaNone
  BY <1>1, DeltaSame DEF netVars
<1>3. EndType' /\ EndsGrow
  <2>1. CASE done' = done
    BY <1>1, <2>1 DEF EndType, EndsGrow
  <2>2. CASE done' = [done EXCEPT !["client"] = TRUE]
    BY <1>1, <2>2, PeerFacts DEF EndType, EndsGrow
  <2> QED
    BY <1>1, <2>1, <2>2
<1> QED
  BY <1>1, <1>2, <1>3, EndsStep DEF netVars

LEMMA StutterStep == ASSUME IndInv, UNCHANGED vars PROVE IndInv'
<1>1. NetInv' /\ DeltaNone
  BY DeltaSame DEF IndInv, vars, netVars
<1>2. EndType' /\ EndsGrow
  BY DEF IndInv, RestInv, EndType, EndsGrow, vars, endVars
<1> QED
  BY <1>1, <1>2, EndsStep DEF vars, netVars

-----------------------------------------------------------------------------
(* Sending.                                                                *)

(* A Close for i leaves e, who has set out to send it: with sendClose, or  *)
(* it is given up because the transport is done.                           *)
LEMMA CloseSent ==
  ASSUME IndInv, NEW e \in Ends, NEW i \in Ids, Closing(e, i),
         NetInv', Delta(e, "Close", i, 1) \/ (done[e] /\ DeltaNone),
         RestInv',
         UNCHANGED <<dial, entry, posted, endVars, dataVars>>,
         \A d \in Ends, j \in Ids :
           /\ \/ chan'[d][j] = chan[d][j]
              \/ (d = e /\ j = i /\ chan[d][j] = "deleting" /\ chan'[d][j] = "gone")
           /\ (d = e /\ j = i) \/ (SC(d, j)' <=> SC(d, j))
           /\ d = e /\ j = i => (SC(d, j)' => SC(d, j)),
         \A j \in Ids :
           /\ \/ offer'[j] = offer[j]
              \/ e = "client" /\ j = i /\ offer[j] = "sendClose" /\ offer'[j] = "none"
           /\ \A k \in 0..2 : Res(j, k)' <=> Res(j, k)
  PROVE  IndInv'
<1> USE DEF IndInv, IdInv, RestInv
<1>1. EndsGrow
  BY DEF EndsGrow, endVars
<1>2. \A d \in Ends, b \in Plain, j \in Ids :
        ~(d = e /\ j = i /\ b = "Close") => Cnt(d, b, j)' = Cnt(d, b, j)
  <2> TAKE d \in Ends, b \in Plain, j \in Ids
  <2>1. Cnt(d, b, j) \in Nat
    BY CntType DEF NetInv
  <2> QED
    BY <2>1 DEF Delta, DeltaNone
<1>3. \A j \in Ids : /\ Cnt("client", "Create", j)' = Cnt("client", "Create", j)
                     /\ \A k \in 0..2 : Ans(j, k)' = Ans(j, k)
                     /\ \A k \in 0..2 : Posted(j, k)' <=> Posted(j, k)
  <2> TAKE j \in Ids
  <2>1. Cnt("client", "Create", j) \in Nat
    BY CntType, PeerFacts DEF NetInv
  <2> QED
    BY <2>1 DEF Delta, DeltaNone, Posted
<1>4. \A j \in Ids \ {i} : ViewSame(j)
  BY <1>2, <1>3 DEF ViewSame, TableSame, NetSame, dataVars
<1>5. \/ Cnt(e, "Close", i)' = Cnt(e, "Close", i) + 1
      \/ conn = "closed" /\ Cnt(e, "Close", i)' = Cnt(e, "Close", i)
  BY DEF Delta, DeltaNone, Plain, EndType
<1>6. Cnt(e, "Close", i) \in Nat
  BY CntType DEF NetInv
<1>7. /\ Tokens(i)' = Tokens(i)
      /\ \A k \in 0..2 : Answering(i, k)' <=> Answering(i, k)
  <2>1. 0 \in 0..2 /\ 1 \in 0..2 /\ 2 \in 0..2
    OBVIOUS
  <2>2. \A k \in 0..2 : One(Posted(i, k))' = One(Posted(i, k)) /\ One(Res(i, k))' = One(Res(i, k))
    BY <1>3 DEF One
  <2>3. Tokens(i)' = Tokens(i)
    BY <1>3, <2>1, <2>2 DEF Tokens, Answered
  <2> QED
    BY <1>3, <2>3 DEF Answering
<1>8. (Asked(i)' <=> Asked(i)) /\ (Fresh(i)' <=> Fresh(i)) /\ (Unsent(i)' <=> Unsent(i))
  BY <1>3, <1>7 DEF Asked, Fresh, Unsent
<1>9. (e = "client" => ~Fresh(i)) /\ (e = "server" => ~Asked(i))
  BY PeerFacts DEF Closing, FreshInv, AskedInv, Plain
<1>10. (chan[e][i] # "open" \/ Overflowed(e, i)) /\ confirms' = confirms
  BY DEF CloseInv, dataVars
<1>11. conn' = "up" => Closing(e, i)'
  BY <1>5, <1>6 DEF Closing, endVars
<1>12. \A d \in Ends \ {e} : Closing(d, i)' <=> Closing(d, i)
  BY <1>2 DEF Closing, Plain
<1>13. \A d \in Ends : chan'[d][i] = "open" <=> chan[d][i] = "open"
  OBVIOUS
<1>14. TokenInv(i)'
  BY <1>7, <1>8 DEF TokenInv
<1>15. FreshInv(i)'
  <2> SUFFICES ASSUME Fresh(i) PROVE FreshInv(i)'
    BY <1>8 DEF FreshInv
  <2>1. e = "server"
    BY <1>9 DEF Ends
  <2>2. /\ \A b \in Plain : Cnt("client", b, i)' = Cnt("client", b, i)
        /\ Cnt("server", "Confirm", i)' = Cnt("server", "Confirm", i)
    BY <1>2, <2>1, PeerFacts DEF Plain
  <2> QED
    BY <2>1, <2>2, PeerFacts DEF FreshInv, dataVars
<1>16. AskedInv(i)'
  <2> SUFFICES ASSUME Asked(i) PROVE AskedInv(i)'
    BY <1>8 DEF AskedInv
  <2>1. e = "client"
    BY <1>9 DEF Ends
  <2>2. Cnt("server", "Close", i)' = Cnt("server", "Close", i)
    BY <1>2, <2>1, PeerFacts DEF Plain
  <2> QED
    BY <2>1, <2>2, PeerFacts DEF AskedInv
<1>17. RefusedInv(i)'
  <2> SUFFICES ASSUME NEW k \in 1..2, Answering(i, k) PROVE chan'["server"][i] = "none"
    BY <1>7 DEF RefusedInv
  <2>1. chan["server"][i] = "none" /\ Fresh(i)
    BY Stages DEF RefusedInv, Fresh, NetInv
  <2> QED
    BY <2>1, PeerFacts
<1>18. EntryInv(i)' /\ CloseInv(i)'
  BY <1>10, <1>12, <1>13 DEF EntryInv, CloseInv, Overflowed
<1>19. ResInv(i)'
  BY DEF ResInv
<1>20. PendingInv(i)'
  BY <1>7, <1>11, <1>12, PeerFacts DEF PendingInv, endVars
<1>21. OrphanInv(i)'
  <2>1. Overflowed("server", i) => Overflowed("server", i)'
    BY <1>10 DEF Overflowed
  <2>2. conn' = "up" => \A d \in Ends : Closing(d, i) => Closing(d, i)'
    BY <1>11, <1>12
  <2>3. entry' = entry /\ conn' = conn
    BY DEF endVars
  <2> QED
    BY <1>7, <1>13, <2>1, <2>2, <2>3, PeerFacts DEF OrphanInv
<1>22. OwnedInv(i)'
  BY <1>13, PeerFacts DEF OwnedInv, endVars
<1>23. DataInv(i)'
  BY <1>2, PeerFacts DEF DataInv, dataVars, Plain
<1> QED
  BY <1>1, <1>4, <1>14, <1>15, <1>16, <1>17, <1>18, <1>19, <1>20, <1>21, <1>22, <1>23,
     OneChannel

LEMMA OfferSendCloseStep ==
  ASSUME IndInv, NEW i \in Ids, OfferSendClose(i) PROVE IndInv'
<1> USE DEF IndInv, RestInv
<1>1. /\ offer[i] = "sendClose" /\ SendClose("client", i)
      /\ offer' = [offer EXCEPT ![i] = "none"]
      /\ UNCHANGED <<dial, cancelled, entry, chan, posted, wire, loopVars, endVars, dataVars>>
  BY DEF OfferSendClose
<1>2. NetInv' /\ (Delta("client", "Close", i, 1) \/ (done["client"] /\ DeltaNone))
  BY <1>1, DeltaSendClose, PeerFacts
<1>3. RestInv'
  BY <1>1 DEF TableType, LoopType, EndType, DataType, loopVars, endVars, dataVars
<1>4. Closing("client", i)
  BY <1>1 DEF Closing
<1>5. /\ \A d \in Ends, j \in Ids : chan'[d][j] = chan[d][j] /\ (SC(d, j)' <=> SC(d, j))
      /\ \A j \in Ids, k \in 0..2 : Res(j, k)' <=> Res(j, k)
  BY <1>1 DEF SC, Res, loopVars
<1>6. \A j \in Ids : offer'[j] = offer[j] \/ (j = i /\ offer'[j] = "none")
  BY <1>1 DEF TableType
<1> QED
  BY <1>1, <1>2, <1>3, <1>4, <1>5, <1>6, CloseSent, PeerFacts

LEMMA ServeSendCloseStep ==
  ASSUME IndInv, NEW e \in Ends, NEW i \in Ids, ServeSendClose(e, i) PROVE IndInv'
<1> USE DEF IndInv, RestInv
<1>1. /\ chan[e][i] = "deleting" /\ SendClose(e, i)
      /\ chan' = [chan EXCEPT ![e][i] = "gone"]
      /\ UNCHANGED <<dial, cancelled, entry, offer, posted, wire, loopVars, endVars, dataVars>>
  BY DEF ServeSendClose
<1>2. NetInv' /\ (Delta(e, "Close", i, 1) \/ (done[e] /\ DeltaNone))
  BY <1>1, DeltaSendClose
<1>3. RestInv'
  BY <1>1 DEF TableType, LoopType, EndType, DataType, loopVars, endVars, dataVars
<1>4. Closing(e, i)
  BY <1>1 DEF Closing
<1>5. /\ \A d \in Ends, j \in Ids : SC(d, j)' <=> SC(d, j)
      /\ \A j \in Ids, k \in 0..2 : Res(j, k)' <=> Res(j, k)
  BY <1>1 DEF SC, Res, loopVars
<1>6. \A d \in Ends, j \in Ids :
        chan'[d][j] = chan[d][j]
          \/ (d = e /\ j = i /\ chan[d][j] = "deleting" /\ chan'[d][j] = "gone")
  BY <1>1 DEF TableType
<1> QED
  BY <1>1, <1>2, <1>3, <1>4, <1>5, <1>6, CloseSent

LEMMA ReaderSendCloseStep ==
  ASSUME IndInv, NEW e \in Ends, ReaderSendClose(e) PROVE IndInv'
<1> USE DEF IndInv, RestInv
<1> DEFINE i == cur[e].id
<1>1. /\ at[e] = "sendClose" /\ SendClose(e, i)
      /\ at' = [at EXCEPT ![e] = "loop"] /\ cur' = [cur EXCEPT ![e] = NoFrame]
      /\ UNCHANGED <<tableVars, posted, wire, endVars, dataVars>>
  BY DEF ReaderSendClose, BackToLoop
<1>2. i \in Ids
  BY <1>1, FrameFacts DEF LoopType
<1>3. NetInv' /\ (Delta(e, "Close", i, 1) \/ (done[e] /\ DeltaNone))
  BY <1>1, <1>2, DeltaSendClose
<1>4. RestInv'
  <2>1. at' \in [Ends -> {"loop", "result", "sendClose", "exited", "panic"}]
    BY <1>1 DEF LoopType
  <2>2. cur' \in [Ends -> Frame \cup {NoFrame}]
    BY <1>1 DEF LoopType
  <2>3. /\ \A d \in Ends : at'[d] = "sendClose" => cur'[d] \in Frame
        /\ at'["client"] = "result" => cur'["client"] \in Answers
        /\ at'["server"] # "result"
    BY <1>1, PeerFacts DEF LoopType
  <2>4. LoopType'
    BY <1>1, <2>1, <2>2, <2>3 DEF LoopType
  <2> QED
    BY <1>1, <2>4 DEF TableType, EndType, DataType, tableVars, endVars, dataVars
<1>5. Closing(e, i)
  BY <1>1 DEF Closing, SC
<1>6. \A d \in Ends, j \in Ids : /\ (d = e /\ j = i) \/ (SC(d, j)' <=> SC(d, j))
                                 /\ d = e /\ j = i => (SC(d, j)' => SC(d, j))
  BY <1>1 DEF SC, LoopType
<1>7. \A j \in Ids, k \in 0..2 : Res(j, k)' <=> Res(j, k)
  <2>1. at'["client"] = "result" <=> at["client"] = "result"
    BY <1>1, PeerFacts DEF LoopType
  <2>2. at'["client"] = "result" => cur'["client"] = cur["client"]
    BY <1>1, PeerFacts DEF LoopType
  <2> QED
    BY <2>1, <2>2 DEF Res
<1> HIDE DEF i
<1> QED
  BY <1>1, <1>2, <1>3, <1>4, <1>5, <1>6, <1>7, CloseSent DEF tableVars

(* What a step on the frames of i leaves alone.                            *)
LEMMA DeltaOthers ==
  ASSUME NetType, NEW e, NEW c, NEW i, NEW n, Delta(e, c, i, n), NEW j \in Ids
  PROVE  /\ \A d \in Ends, b \in Plain :
              ~(d = e /\ b = c /\ j = i) => Cnt(d, b, j)' = Cnt(d, b, j)
         /\ ~(e = "client" /\ c = "Create" /\ j = i) =>
              Cnt("client", "Create", j)' = Cnt("client", "Create", j)
         /\ \A k \in 0..2 : Ans(j, k)' = Ans(j, k)
BY CntType, PeerFacts DEF Delta

LEMMA DeltaAnswerOthers ==
  ASSUME NetType, NEW i, NEW q, NEW n, DeltaAnswer(i, q, n), NEW j \in Ids
  PROVE  /\ \A d \in Ends, b \in Plain : Cnt(d, b, j)' = Cnt(d, b, j)
         /\ Cnt("client", "Create", j)' = Cnt("client", "Create", j)
         /\ \A k \in 0..2 : ~(k = q /\ j = i) => Ans(j, k)' = Ans(j, k)
BY CntType, PeerFacts DEF DeltaAnswer

(* An end sends Write and Confirm frames for a channel that it has.        *)
LEMMA Sent ==
  ASSUME IndInv, NEW e \in Ends, NEW i \in Ids, NEW c \in {"Write", "Confirm"},
         chan[e][i] # "none", e = "server" /\ c = "Confirm" => got["server"][i] # 0,
         NetInv', Delta(e, c, i, 1), DataType', DataInv(i)',
         \A d \in Ends, j \in Ids \ {i} : got'[d][j] = got[d][j] /\ wrote'[d][j] = wrote[d][j],
         got'["server"][i] <= got["server"][i] \/ ~Fresh(i),
         UNCHANGED <<tableVars, posted, loopVars, endVars, confirms>>
  PROVE  IndInv'
<1> USE DEF IndInv, IdInv, RestInv
<1>1. RestInv'
  BY DEF TableType, LoopType, EndType, tableVars, loopVars, endVars
<1>2. EndsGrow
  BY DEF EndsGrow, endVars
<1>3. \A j \in Ids : /\ \A d \in Ends : SC(d, j)' <=> SC(d, j)
                     /\ \A k \in 0..2 : /\ Posted(j, k)' <=> Posted(j, k)
                                        /\ Res(j, k)' <=> Res(j, k)
  BY DEF SC, Posted, Res, loopVars
<1>4. \A j \in Ids : /\ \A d \in Ends, b \in Plain :
                          ~(d = e /\ b = c /\ j = i) => Cnt(d, b, j)' = Cnt(d, b, j)
                     /\ Cnt("client", "Create", j)' = Cnt("client", "Create", j)
                     /\ \A k \in 0..2 : Ans(j, k)' = Ans(j, k)
  BY DeltaOthers DEF NetInv
<1>5. \A j \in Ids \ {i} : ViewSame(j)
  BY <1>3, <1>4 DEF ViewSame, TableSame, NetSame, tableVars
<1>6. /\ Tokens(i)' = Tokens(i)
      /\ \A k \in 0..2 : Answering(i, k)' <=> Answering(i, k)
  <2>1. 0 \in 0..2 /\ 1 \in 0..2 /\ 2 \in 0..2
    OBVIOUS
  <2>2. \A k \in 0..2 : One(Posted(i, k))' = One(Posted(i, k)) /\ One(Res(i, k))' = One(Res(i, k))
    BY <1>3 DEF One
  <2>3. Tokens(i)' = Tokens(i)
    BY <1>4, <2>1, <2>2 DEF Tokens, Answered
  <2> QED
    BY <1>3, <1>4, <2>3 DEF Answering
<1>7. (Asked(i)' <=> Asked(i)) /\ (Fresh(i)' <=> Fresh(i)) /\ (Unsent(i)' <=> Unsent(i))
  BY <1>4, <1>6 DEF Asked, Fresh, Unsent, tableVars
<1>8. \A d \in Ends : Closing(d, i)' <=> Closing(d, i)
  BY <1>3, <1>4 DEF Closing, Plain, tableVars
<1>9. ~Asked(i)
  <2>1. Asked(i) => Fresh(i)
    BY Stages DEF Asked, Fresh, NetInv
  <2> QED
    BY <2>1, PeerFacts DEF AskedInv, FreshInv, Ends
<1>10. TokenInv(i)'
  BY <1>6, <1>7 DEF TokenInv
<1>11. FreshInv(i)'
  <2> SUFFICES ASSUME Fresh(i) PROVE FreshInv(i)'
    BY <1>7 DEF FreshInv
  <2>1. e = "server" /\ c = "Write" /\ got'["server"][i] = 0
    BY PeerFacts DEF FreshInv, Ends, DataType
  <2>2. /\ \A b \in Plain : Cnt("client", b, i)' = Cnt("client", b, i)
        /\ Cnt("server", "Confirm", i)' = Cnt("server", "Confirm", i)
    BY <1>4, <2>1, PeerFacts DEF Plain
  <2> QED
    BY <1>3, <2>1, <2>2, PeerFacts DEF FreshInv, tableVars
<1>12. AskedInv(i)'
  BY <1>7, <1>9 DEF AskedInv
<1>13. RefusedInv(i)'
  <2>1. \A k \in 1..2 : k \in 0..2
    OBVIOUS
  <2> QED
    BY <1>6, <2>1 DEF RefusedInv, tableVars
<1>14. EntryInv(i)' /\ CloseInv(i)'
  BY <1>8 DEF EntryInv, CloseInv, Overflowed, tableVars
<1>15. ResInv(i)'
  BY <1>3 DEF ResInv, tableVars
<1>16. PendingInv(i)' /\ OrphanInv(i)'
  <2>1. PendingInv(i)'
    BY <1>6, <1>8, PeerFacts DEF PendingInv, tableVars, endVars
  <2>2. OrphanInv(i)'
    BY <1>6, <1>8, PeerFacts DEF OrphanInv, Overflowed, tableVars, endVars
  <2> QED
    BY <2>1, <2>2
<1>17. OwnedInv(i)'
  BY PeerFacts DEF OwnedInv, tableVars, endVars
<1> QED
  BY <1>1, <1>2, <1>5, <1>10, <1>11, <1>12, <1>13, <1>14, <1>15, <1>16, <1>17, OneChannel

LEMMA SendWriteStep ==
  ASSUME IndInv, NEW e \in Ends, NEW i \in Ids, SendWrite(e, i) PROVE IndInv'
<1> USE DEF IndInv, IdInv, RestInv
<1>1. /\ chan[e][i] \in {"open", "closed"} /\ wrote[e][i] < MaxWrites[e]
      /\ Enqueue(e, FrameOf("Write", i))
      /\ wrote' = [wrote EXCEPT ![e][i] = wrote[e][i] + 1]
      /\ UNCHANGED <<tableVars, posted, wire, loopVars, endVars, got, confirms>>
  BY DEF SendWrite
<1>2. NetInv' /\ Delta(e, "Write", i, 1)
  BY <1>1, DeltaPlain DEF PlainFrom, Plain
<1>3. /\ wrote[e][i] \in Nat
      /\ wrote'[e][i] = wrote[e][i] + 1
      /\ \A d \in Ends, j \in Ids : ~(d = e /\ j = i) => wrote'[d][j] = wrote[d][j]
  BY <1>1 DEF DataType
<1>4. DataType'
  <2>1. wrote' \in [Ends -> [Ids -> Nat]]
    BY <1>1 DEF DataType
  <2>2. MaxWrites[e] \in Nat
    BY TransportAssumption
  <2>3. \A d \in Ends, j \in Ids : wrote'[d][j] <= MaxWrites[d]
    BY <1>1, <1>3, <2>2 DEF DataType
  <2> QED
    BY <1>1, <2>1, <2>3 DEF DataType
<1>5. DataInv(i)'
  <2> SUFFICES ASSUME NEW d \in Ends
               PROVE  got'[d][i] + Cnt(Peer(d), "Write", i)' <= wrote'[Peer(d)][i]
    BY DEF DataInv
  <2>1. got[d][i] + Cnt(Peer(d), "Write", i) <= wrote[Peer(d)][i]
    BY DEF DataInv
  <2>2. Peer(d) \in Ends /\ Cnt(Peer(d), "Write", i) \in Nat /\ got[d][i] \in Nat
        /\ wrote[Peer(d)][i] \in Nat
    BY CntType, PeerFacts DEF NetInv, DataType
  <2>3. CASE Peer(d) = e
    <3>1. Cnt(Peer(d), "Write", i)' = Cnt(Peer(d), "Write", i) + 1
      BY <1>2, <2>3 DEF Delta, Plain
    <3> QED
      BY <1>1, <1>3, <2>1, <2>2, <2>3, <3>1
  <2>4. CASE Peer(d) # e
    <3>1. Cnt(Peer(d), "Write", i)' = Cnt(Peer(d), "Write", i)
      BY <1>2, <2>2, <2>4, DeltaOthers DEF Plain, NetInv
    <3> QED
      BY <1>1, <1>3, <2>1, <2>2, <2>4, <3>1
  <2> QED
    BY <2>3, <2>4
<1>6. got["server"][i] \in Nat
  BY PeerFacts DEF DataType
<1> QED
  BY <1>1, <1>2, <1>3, <1>4, <1>5, <1>6, Sent

LEMMA SendConfirmStep ==
  ASSUME IndInv, NEW e \in Ends, NEW i \in Ids, SendConfirm(e, i) PROVE IndInv'
<1> USE DEF IndInv, IdInv, RestInv
<1>1. /\ chan[e][i] \in {"open", "closed"} /\ got[e][i] > 0
      /\ Enqueue(e, FrameOf("Confirm", i))
      /\ got' = [got EXCEPT ![e][i] = got[e][i] - 1]
      /\ UNCHANGED <<tableVars, posted, wire, loopVars, endVars, wrote, confirms>>
  BY DEF SendConfirm
<1>2. NetInv' /\ Delta(e, "Confirm", i, 1)
  BY <1>1, DeltaPlain DEF PlainFrom, Plain
<1>3. /\ got[e][i] \in Nat
      /\ got'[e][i] = got[e][i] - 1
      /\ \A d \in Ends, j \in Ids : ~(d = e /\ j = i) => got'[d][j] = got[d][j]
  BY <1>1 DEF DataType
<1>4. DataType'
  BY <1>1, <1>3 DEF DataType
<1>5. DataInv(i)'
  <2> SUFFICES ASSUME NEW d \in Ends
               PROVE  got'[d][i] + Cnt(Peer(d), "Write", i)' <= wrote'[Peer(d)][i]
    BY DEF DataInv
  <2>1. got[d][i] + Cnt(Peer(d), "Write", i) <= wrote[Peer(d)][i]
    BY DEF DataInv
  <2>2. Peer(d) \in Ends /\ Cnt(Peer(d), "Write", i) \in Nat /\ got[d][i] \in Nat
        /\ wrote[Peer(d)][i] \in Nat
    BY CntType, PeerFacts DEF NetInv, DataType
  <2>3. Cnt(Peer(d), "Write", i)' = Cnt(Peer(d), "Write", i)
    BY <1>2, <2>2, DeltaOthers DEF Plain, NetInv
  <2> QED
    BY <1>1, <1>3, <2>1, <2>2, <2>3
<1>6. got["server"][i] \in Nat /\ got'["server"][i] <= got["server"][i]
  BY <1>3, PeerFacts DEF DataType
<1>7. e = "server" => got["server"][i] # 0
  BY <1>1
<1> QED
  BY <1>1, <1>2, <1>3, <1>4, <1>5, <1>6, <1>7, Sent

LEMMA CreateSendStep ==
  ASSUME IndInv, NEW i \in Ids, CreateSend(i) PROVE IndInv'
<1> USE DEF IndInv, IdInv, RestInv
<1>1. /\ dial[i] = "sending" /\ dial' = [dial EXCEPT ![i] = "waiting"]
      /\ Enqueue("client", FrameOf("Create", i))
      /\ UNCHANGED <<cancelled, entry, chan, offer, posted, wire, loopVars, endVars, dataVars>>
  BY DEF CreateSend
<1>2. NetInv' /\ Delta("client", "Create", i, 1)
  BY <1>1, DeltaPlain, PeerFacts DEF PlainFrom
<1>3. TableType'
  BY <1>1 DEF TableType
<1>4. RestInv' /\ EndsGrow
  BY <1>1, <1>3 DEF LoopType, EndType, DataType, EndsGrow, loopVars, endVars, dataVars
<1>5. \A j \in Ids : /\ \A d \in Ends : SC(d, j)' <=> SC(d, j)
                     /\ \A k \in 0..2 : /\ Posted(j, k)' <=> Posted(j, k)
                                        /\ Res(j, k)' <=> Res(j, k)
  BY <1>1 DEF SC, Posted, Res, loopVars
<1>6. \A j \in Ids : /\ \A d \in Ends, b \in Plain : Cnt(d, b, j)' = Cnt(d, b, j)
                     /\ j # i => Cnt("client", "Create", j)' = Cnt("client", "Create", j)
                     /\ \A k \in 0..2 : Ans(j, k)' = Ans(j, k)
  <2>1. "Create" \notin Plain
    BY DEF Plain
  <2> QED
    BY <1>2, <2>1, DeltaOthers DEF NetInv
<1>7. \A j \in Ids \ {i} : ViewSame(j)
  <2>1. \A j \in Ids \ {i} : dial'[j] = dial[j]
    BY <1>1 DEF TableType
  <2> QED
    BY <1>1, <1>5, <1>6, <2>1 DEF ViewSame, TableSame, NetSame, dataVars
<1>8. Unsent(i) /\ ~Unsent(i)' /\ Fresh(i) /\ Asked(i) /\ Tokens(i) = 0
  BY <1>1 DEF Unsent, Fresh, Asked, TableType, TokenInv
<1>9. Cnt("client", "Create", i)' = Cnt("client", "Create", i) + 1
      /\ Cnt("client", "Create", i) \in Nat
  BY <1>2, CntType, PeerFacts DEF Delta, NetInv
<1>10. Tokens(i)' = 1
  <2>1. 0 \in 0..2 /\ 1 \in 0..2 /\ 2 \in 0..2
    OBVIOUS
  <2>2. \A k \in 0..2 : One(Posted(i, k))' = One(Posted(i, k)) /\ One(Res(i, k))' = One(Res(i, k))
    BY <1>5 DEF One
  <2>3. \A k \in 0..2 : One(Posted(i, k)) \in Nat /\ One(Res(i, k)) \in Nat /\ Ans(i, k) \in Nat
    BY CntType DEF One, NetInv
  <2> QED
    BY <1>6, <1>8, <1>9, <2>1, <2>2, <2>3 DEF Tokens, Answered
<1>11. \A k \in 0..2 : ~Answering(i, k) /\ ~Answering(i, k)'
  <2>1. \A k \in 0..2 : ~Answering(i, k)
    BY <1>8, Stages DEF NetInv
  <2> QED
    BY <1>5, <1>6, <2>1 DEF Answering
<1>12. TokenInv(i)'
  BY <1>8, <1>10 DEF TokenInv
<1>13. FreshInv(i)' /\ AskedInv(i)'
  BY <1>1, <1>5, <1>6, <1>8, PeerFacts DEF FreshInv, AskedInv, Plain, dataVars
<1>14. RefusedInv(i)' /\ PendingInv(i)'
  <2>1. \A k \in 1..2 : k \in 0..2
    OBVIOUS
  <2> QED
    BY <1>11, <2>1 DEF RefusedInv, PendingInv
<1>15. EntryInv(i)' /\ ResInv(i)'
  BY <1>1, <1>5 DEF EntryInv, ResInv
<1>16. CloseInv(i)'
  BY <1>1, <1>5, <1>6 DEF CloseInv, Overflowed, Closing, Plain, dataVars
<1>17. OrphanInv(i)' /\ OwnedInv(i)'
  BY <1>1, <1>8, PeerFacts DEF OrphanInv, OwnedInv, FreshInv, AskedInv
<1>18. DataInv(i)'
  BY <1>1, <1>6, PeerFacts DEF DataInv, Plain, dataVars
<1> QED
  BY <1>2, <1>4, <1>7, <1>12, <1>13, <1>14, <1>15, <1>16, <1>17, <1>18, OneChannel

(* A goroutine of postWrite puts its answer into the queue, or gives up.   *)
LEMMA PostedSendStep ==
  ASSUME IndInv, NEW f \in posted, PostedSend(f) PROVE IndInv'
<1> USE DEF IndInv, IdInv, RestInv
<1>1. PICK i \in Ids, k \in 0..2 : f = Answer(i, k)
  BY FrameFacts DEF LoopType, Answers
<1>2. /\ Enqueue("server", f) \/ (done["server"] /\ UNCHANGED queue)
      /\ posted' = posted \ {f}
      /\ UNCHANGED <<tableVars, wire, loopVars, endVars, dataVars>>
  BY DEF PostedSend
<1>3. NetInv' /\ (DeltaAnswer(i, k, 1) \/ (done["server"] /\ DeltaNone))
  BY <1>1, <1>2, DeltaPost, DeltaSame
<1>4. RestInv' /\ EndsGrow
  BY <1>2 DEF TableType, LoopType, EndType, DataType, EndsGrow, tableVars, loopVars,
              endVars, dataVars
<1>5. \A j \in Ids : /\ \A d \in Ends : SC(d, j)' <=> SC(d, j)
                     /\ \A q \in 0..2 : Res(j, q)' <=> Res(j, q)
  BY <1>2 DEF SC, Res, loopVars
<1>6. \A j \in Ids, q \in 0..2 : Posted(j, q)' <=> Posted(j, q) /\ ~(j = i /\ q = k)
  BY <1>1, <1>2, FrameEqual DEF Posted
<1>7. \A j \in Ids : /\ \A d \in Ends, b \in Plain : Cnt(d, b, j)' = Cnt(d, b, j)
                     /\ Cnt("client", "Create", j)' = Cnt("client", "Create", j)
                     /\ \A q \in 0..2 : ~(j = i /\ q = k) => Ans(j, q)' = Ans(j, q)
  <2>1. CASE DeltaAnswer(i, k, 1)
    BY <2>1, DeltaAnswerOthers DEF NetInv
  <2>2. CASE DeltaNone
    BY <2>2 DEF DeltaNone
  <2> QED
    BY <1>3, <2>1, <2>2
<1>8. \A j \in Ids \ {i} : ViewSame(j)
  BY <1>2, <1>5, <1>6, <1>7 DEF ViewSame, TableSame, NetSame, tableVars, dataVars
<1>9. Posted(i, k) /\ ~Posted(i, k)'
  BY <1>1, <1>6 DEF Posted
<1>10. /\ Ans(i, k) \in Nat
       /\ Ans(i, k)' = Ans(i, k) + 1 \/ (conn = "closed" /\ Ans(i, k)' = Ans(i, k))
  BY <1>3, CntType DEF DeltaAnswer, DeltaNone, NetInv, EndType, Ends
<1>11. Tokens(i)' \in {Tokens(i), Tokens(i) - 1} /\ Tokens(i) \in Nat
  <2>1. 0 \in 0..2 /\ 1 \in 0..2 /\ 2 \in 0..2 /\ k \in {0, 1, 2}
    OBVIOUS
  <2>2. /\ \A q \in 0..2 : One(Res(i, q))' = One(Res(i, q))
        /\ \A q \in 0..2 : q # k => One(Posted(i, q))' = One(Posted(i, q))
        /\ One(Posted(i, k)) = 1 /\ One(Posted(i, k))' = 0
    BY <1>5, <1>6, <1>9 DEF One
  <2>3. \A q \in 0..2 : One(Posted(i, q)) \in Nat /\ One(Res(i, q)) \in Nat /\ Ans(i, q) \in Nat
    BY CntType DEF One, NetInv
  <2>4. Cnt("client", "Create", i) \in Nat
    BY CntType, PeerFacts DEF NetInv
  <2>5. CASE k = 0
    BY <1>7, <1>10, <2>1, <2>2, <2>3, <2>4, <2>5 DEF Tokens, Answered
  <2>6. CASE k = 1
    BY <1>7, <1>10, <2>1, <2>2, <2>3, <2>4, <2>6 DEF Tokens, Answered
  <2>7. CASE k = 2
    BY <1>7, <1>10, <2>1, <2>2, <2>3, <2>4, <2>7 DEF Tokens, Answered
  <2> QED
    BY <2>1, <2>5, <2>6, <2>7
<1>12. \A q \in 0..2 : /\ Answering(i, q)' => Answering(i, q)
                       /\ conn = "up" => (Answering(i, q)' <=> Answering(i, q))
  <2> TAKE q \in 0..2
  <2>1. CASE q = k
    BY <1>5, <1>9, <1>10, <2>1 DEF Answering
  <2>2. CASE q # k
    BY <1>5, <1>6, <1>7, <2>2 DEF Answering
  <2> QED
    BY <2>1, <2>2
<1>13. /\ Unsent(i)' <=> Unsent(i)
       /\ Asked(i)' => Asked(i)
       /\ Fresh(i)' => Fresh(i)
  BY <1>2, <1>7, <1>11 DEF Unsent, Asked, Fresh, tableVars
<1>14. \A d \in Ends : Closing(d, i)' <=> Closing(d, i)
  BY <1>2, <1>5, <1>7 DEF Closing, Plain, tableVars
<1>15. TokenInv(i)'
  <2>1. Unsent(i) => Tokens(i) = 0
    BY DEF TokenInv
  <2>2. ~Unsent(i)
    BY <1>9, <2>1, Stages DEF Answering, NetInv
  <2> QED
    BY <1>11, <1>13, <2>2 DEF TokenInv
<1>16. FreshInv(i)' /\ AskedInv(i)'
  BY <1>2, <1>5, <1>7, <1>13, PeerFacts DEF FreshInv, AskedInv, Plain, tableVars, dataVars
<1>17. RefusedInv(i)'
  <2>1. \A q \in 1..2 : q \in 0..2
    OBVIOUS
  <2> QED
    BY <1>2, <1>12, <2>1 DEF RefusedInv, tableVars
<1>18. EntryInv(i)' /\ ResInv(i)' /\ CloseInv(i)'
  BY <1>2, <1>5, <1>14 DEF EntryInv, ResInv, CloseInv, Overflowed, tableVars, dataVars
<1>19. PendingInv(i)'
  BY <1>2, <1>12, <1>14, PeerFacts DEF PendingInv, tableVars, endVars
<1>20. OrphanInv(i)'
  BY <1>2, <1>12, <1>14, PeerFacts DEF OrphanInv, Overflowed, tableVars, dataVars, endVars
<1>21. OwnedInv(i)' /\ DataInv(i)'
  BY <1>2, <1>7, PeerFacts DEF OwnedInv, DataInv, Plain, tableVars, endVars, dataVars
<1> QED
  BY <1>3, <1>4, <1>8, <1>15, <1>16, <1>17, <1>18, <1>19, <1>20, <1>21, OneChannel

-----------------------------------------------------------------------------
(* The reader loops.                                                       *)

(* The loop of e goes on at label to with frame f.                         *)
LEMMA LoopMoves ==
  ASSUME LoopType, NEW e \in Ends, NEW to \in {"loop", "result", "sendClose", "exited", "panic"},
         NEW f \in Frame \cup {NoFrame},
         to = "sendClose" => f \in Frame,
         to = "result" => e = "client" /\ f \in Answers,
         at' = [at EXCEPT ![e] = to], cur' = [cur EXCEPT ![e] = f],
         posted' \in SUBSET Answers
  PROVE  /\ LoopType'
         /\ at'[e] = to /\ cur'[e] = f
         /\ \A d \in Ends \ {e} : at'[d] = at[d] /\ cur'[d] = cur[d]
<1>1. at'[e] = to /\ cur'[e] = f
      /\ \A d \in Ends \ {e} : at'[d] = at[d] /\ cur'[d] = cur[d]
  BY DEF LoopType
<1>2. at' \in [Ends -> {"loop", "result", "sendClose", "exited", "panic"}]
  BY DEF LoopType
<1>3. cur' \in [Ends -> Frame \cup {NoFrame}]
  BY DEF LoopType
<1>4. /\ \A d \in Ends : at'[d] = "sendClose" => cur'[d] \in Frame
      /\ at'["client"] = "result" => cur'["client"] \in Answers
      /\ at'["server"] # "result"
  BY <1>1, PeerFacts DEF LoopType
<1> QED
  BY <1>1, <1>2, <1>3, <1>4 DEF LoopType

(* The one answer under way for i is taken from the wire or from the loop. *)
LEMMA LastAnswer ==
  ASSUME NetType, NEW i \in Ids, NEW k \in 0..2, Tokens(i) <= 1,
         Cnt("client", "Create", i)' = Cnt("client", "Create", i),
         \A q \in 0..2 : /\ q # k => Ans(i, q)' = Ans(i, q)
                         /\ Posted(i, q)' <=> Posted(i, q)
                         /\ ~Res(i, q)',
         \/ Ans(i, k) > 0 /\ Ans(i, k)' = Ans(i, k) - 1
         \/ Res(i, k) /\ Ans(i, k)' = Ans(i, k)
  PROVE  /\ Tokens(i)' = 0
         /\ Cnt("client", "Create", i)' = 0
         /\ \A q \in 0..2 : ~Answering(i, q)'
<1>1. 0 \in 0..2 /\ 1 \in 0..2 /\ 2 \in 0..2 /\ \A q \in 0..2 : q \in {0, 1, 2}
  OBVIOUS
<1>2. Cnt("client", "Create", i) \in Nat /\ \A q \in 0..2 : Ans(i, q) \in Nat
  BY CntType, PeerFacts
<1>3. /\ \A q \in 0..2 : One(Posted(i, q)) \in {0, 1} /\ One(Res(i, q)) \in {0, 1}
      /\ \A q \in 0..2 : One(Posted(i, q)) = 1 <=> Posted(i, q)
      /\ \A q \in 0..2 : One(Res(i, q)) = 1 <=> Res(i, q)
  BY DEF One
<1>4. /\ Cnt("client", "Create", i) = 0
      /\ \A q \in 0..2 : q # k => Ans(i, q) = 0
      /\ \A q \in 0..2 : ~Posted(i, q)
      /\ Ans(i, k)' = 0
  <2>1. \A q \in 0..2 : /\ Answered(i, q) \in Nat
                        /\ Answered(i, q) >= Ans(i, q) + One(Res(i, q))
                        /\ Answered(i, q) = 0 => Ans(i, q) = 0 /\ One(Posted(i, q)) = 0
                        /\ Answered(i, q) <= 1 /\ Ans(i, q) + One(Res(i, q)) >= 1 =>
                             One(Posted(i, q)) = 0 /\ Ans(i, q) + One(Res(i, q)) = 1
    BY <1>2, <1>3 DEF Answered
  <2>2. Ans(i, k) + One(Res(i, k)) >= 1
    BY <1>2, <1>3
  <2>3. Answered(i, k) >= 1
    BY <1>2, <1>3, <2>1, <2>2
  <2>4. /\ Cnt("client", "Create", i) = 0 /\ Answered(i, k) = 1
        /\ \A q \in 0..2 : q # k => Answered(i, q) = 0
    <3>1. Answered(i, 0) \in Nat /\ Answered(i, 1) \in Nat /\ Answered(i, 2) \in Nat
      BY <1>1, <2>1
    <3>2. k = 0 \/ k = 1 \/ k = 2
      BY <1>1
    <3> QED
      BY <1>1, <1>2, <2>3, <3>1, <3>2 DEF Tokens
  <2>5. Ans(i, k) + One(Res(i, k)) = 1
    BY <2>1, <2>2, <2>4
  <2>6. \A q \in 0..2 : One(Posted(i, q)) = 0
    BY <2>1, <2>2, <2>4
  <2>7. \A q \in 0..2 : q # k => Ans(i, q) = 0
    BY <2>1, <2>4
  <2>8. \A q \in 0..2 : ~Posted(i, q)
    BY <2>6 DEF One
  <2>9. Ans(i, k)' = 0
    <3>1. CASE Ans(i, k) > 0 /\ Ans(i, k)' = Ans(i, k) - 1
      BY <1>2, <1>3, <2>5, <3>1
    <3>2. CASE Res(i, k) /\ Ans(i, k)' = Ans(i, k)
      <4>1. One(Res(i, k)) = 1
        BY <3>2 DEF One
      <4>2. Ans(i, k) = 0
        BY <1>2, <2>5, <4>1
      <4> QED
        BY <3>2, <4>2
    <3> QED
      BY <3>1, <3>2
  <2> QED
    BY <2>4, <2>7, <2>8, <2>9
<1>5. Cnt("client", "Create", i)' = 0 /\ \A q \in 0..2 : Ans(i, q)' = 0
  BY <1>4
<1>6. \A q \in 0..2 : ~Answering(i, q)'
  BY <1>4, <1>5 DEF Answering
<1>7. \A q \in 0..2 : One(Posted(i, q))' = 0 /\ One(Res(i, q))' = 0
  BY <1>4 DEF One
<1>8. Tokens(i)' = 0
  BY <1>1, <1>5, <1>7 DEF Tokens, Answered
<1> QED
  BY <1>5, <1>6, <1>8

(* The client has handled its answer: there is a channel, if the code was  *)
(* 0, with an owner or closed, or a Close is on its way.                   *)
LEMMA AnswerHandled ==
  ASSUME IndInv, NEW i \in Ids, NEW k \in 0..2, Answering(i, k), EndsGrow,
         Tokens(i)' = 0, Cnt("client", "Create", i)' = 0, \A q \in 0..2 : ~Answering(i, q)',
         \A d \in Ends, b \in Plain : Cnt(d, b, i)' = Cnt(d, b, i),
         UNCHANGED dataVars,
         \A q \in 0..2 : ~Res(i, q)', SC("server", i)' <=> SC("server", i),
         entry'["server"][i] = entry["server"][i], chan'["server"][i] = chan["server"][i],
         dial'[i] \notin {"none", "sending"},
         chan'["client"][i] \in {"none", "open", "closed"},
         offer'[i] # "sendClose",
         chan'["client"][i] = "open" =>
           /\ k = 0 /\ entry["client"][i] = "pending" /\ entry'["client"][i] = "open"
           /\ dial'[i] = "opened" \/ offer'[i] = "opened" \/ done["client"]
           /\ ~SC("client", i)',
         k = 0 => entry'["client"][i] = "open" \/ SC("client", i)' \/ conn' # "up"
  PROVE  IdInv(i)'
<1> USE DEF IndInv, IdInv
<1>1. Fresh(i) /\ ~Unsent(i) /\ ~Asked(i)
  BY Stages DEF Fresh, Asked, TokenInv, NetInv
<1>2. ~Unsent(i)' /\ ~Fresh(i)' /\ ~Asked(i)'
  BY DEF Unsent, Fresh, Asked
<1>3. TokenInv(i)' /\ FreshInv(i)' /\ AskedInv(i)' /\ ResInv(i)'
  BY <1>2 DEF TokenInv, FreshInv, AskedInv, ResInv
<1>4. RefusedInv(i)' /\ PendingInv(i)'
  <2>1. \A q \in 1..2 : q \in 0..2
    OBVIOUS
  <2> QED
    BY <2>1 DEF RefusedInv, PendingInv
<1>5. EntryInv(i)'
  BY PeerFacts DEF EntryInv, Ends
<1>6. Closing("server", i)' <=> Closing("server", i)
  BY PeerFacts DEF Closing, Plain
<1>7. CloseInv(i)'
  <2>1. Cnt("client", "Close", i)' = 0
    BY <1>1, PeerFacts DEF FreshInv, Plain
  <2>2. chan'["client"][i] = "open" => ~Closing("client", i)'
    BY <2>1 DEF Closing
  <2>3. chan'["server"][i] = "open" =>
          (Closing("server", i)' => Overflowed("server", i)')
    BY <1>6, PeerFacts DEF CloseInv, Overflowed, dataVars
  <2> QED
    BY <2>2, <2>3 DEF CloseInv, Ends
<1>8. OrphanInv(i)'
  <2> SUFFICES ASSUME conn' = "up" PROVE OrphanInv(i)'
    BY DEF OrphanInv
  <2>1. ASSUME chan["server"][i] = "open"
        PROVE  entry'["client"][i] = "open" \/ Closing("client", i)'
    <3>1. k = 0
      BY <2>1 DEF RefusedInv
    <3> QED
      BY <3>1 DEF Closing
  <2>2. ASSUME chan'["client"][i] = "open"
        PROVE  entry["server"][i] = "open" \/ Closing("server", i)
    BY <2>2 DEF PendingInv, EndsGrow
  <2> QED
    BY <1>6, <2>1, <2>2 DEF OrphanInv
<1>9. OwnedInv(i)'
  BY DEF OwnedInv, EndsGrow
<1>10. DataInv(i)'
  BY PeerFacts DEF DataInv, Plain, dataVars
<1> QED
  BY <1>3, <1>4, <1>5, <1>7, <1>8, <1>9, <1>10

(* What is common to the three ways to begin with an answer.               *)
LEMMA AnswerTaken ==
  ASSUME IndInv, NEW i \in Ids, NEW to \in {"sendClose", "panic", "result"},
         Take("client", "Create", to), i = Taken("client").id,
         UNCHANGED <<posted, queue, dataVars>>
  PROVE  \E k \in 0..2 :
           /\ Taken("client") = Answer(i, k) /\ Ans(i, k) > 0 /\ Answering(i, k)
           /\ NetInv' /\ LoopType'
           /\ at["client"] = "loop" /\ at'["client"] = to
           /\ cur'["client"] = IF to = "panic" THEN NoFrame ELSE Answer(i, k)
           /\ Ans(i, k)' = Ans(i, k) - 1
           /\ \A j \in Ids : /\ \A d \in Ends, b \in Plain : Cnt(d, b, j)' = Cnt(d, b, j)
                             /\ Cnt("client", "Create", j)' = Cnt("client", "Create", j)
                             /\ \A q \in 0..2 : /\ ~(q = k /\ j = i) => Ans(j, q)' = Ans(j, q)
                                                /\ Posted(j, q)' <=> Posted(j, q)
                                                /\ ~Res(j, q)
                                                /\ j # i => ~Res(j, q)'
                             /\ SC("server", j)' <=> SC("server", j)
                             /\ j # i => (SC("client", j)' <=> SC("client", j))
<1> USE DEF IndInv, RestInv
<1>1. PICK k \in 0..2 : /\ Taken("client") = Answer(i, k) /\ Ans(i, k) > 0
                        /\ NetInv' /\ DeltaAnswer(i, k, -1)
  BY DeltaTakeAnswer
<1> DEFINE f == IF to = "panic" THEN NoFrame ELSE Answer(i, k)
<1>2. /\ at["client"] = "loop" /\ at' = [at EXCEPT !["client"] = to]
      /\ cur' = [cur EXCEPT !["client"] = f]
  BY <1>1 DEF Take, Taken
<1>3. f \in Frame \cup {NoFrame} /\ (to # "panic" => f \in Answers /\ f \in Frame)
  BY FrameFacts DEF Answers
<1> HIDE DEF f
<1>4. posted' \in SUBSET Answers
  BY DEF LoopType
<1>5. /\ LoopType' /\ at'["client"] = to /\ cur'["client"] = f
      /\ \A d \in Ends \ {"client"} : at'[d] = at[d] /\ cur'[d] = cur[d]
  BY <1>2, <1>3, <1>4, LoopMoves, PeerFacts
<1>6. \A j \in Ids : /\ \A d \in Ends, b \in Plain : Cnt(d, b, j)' = Cnt(d, b, j)
                     /\ Cnt("client", "Create", j)' = Cnt("client", "Create", j)
                     /\ \A q \in 0..2 : ~(q = k /\ j = i) => Ans(j, q)' = Ans(j, q)
  BY <1>1, DeltaAnswerOthers DEF NetInv
<1>7. Ans(i, k)' = Ans(i, k) - 1
  BY <1>1, CntType DEF DeltaAnswer, NetInv
<1>8. \A j \in Ids : /\ SC("server", j)' <=> SC("server", j)
                     /\ j # i => (SC("client", j)' <=> SC("client", j))
  <2>1. to = "sendClose" => f.id = i
    BY FrameFacts DEF f
  <2> QED
    BY <1>2, <1>5, <2>1, PeerFacts DEF SC
<1>9. \A j \in Ids, q \in 0..2 : /\ Posted(j, q)' <=> Posted(j, q)
                                 /\ ~Res(j, q)
                                 /\ j # i => ~Res(j, q)'
  <2> TAKE j \in Ids, q \in 0..2
  <2>1. j # i => Answer(j, q) # Answer(i, k)
    BY FrameEqual
  <2>2. ~Res(j, q) /\ (Posted(j, q)' <=> Posted(j, q))
    BY <1>2 DEF Res, Posted
  <2>3. j # i => ~Res(j, q)'
    BY <1>5, <2>1 DEF Res, f
  <2> QED
    BY <2>2, <2>3
<1>10. Answering(i, k)
  BY <1>1 DEF Answering
<1> QED
  BY <1>1, <1>2, <1>5, <1>6, <1>7, <1>8, <1>9, <1>10 DEF f

LEMMA ClientCreateStep ==
  ASSUME IndInv, NEW i \in Ids, ClientCreate(i) PROVE IndInv'
<1> USE DEF IndInv, IdInv, RestInv
<1>1. /\ Take("client", "Create", "result") /\ i = Taken("client").id
      /\ entry["client"][i] = "pending"
      /\ UNCHANGED <<tableVars, posted, queue, endVars, dataVars>>
  BY DEF ClientCreate
<1>2. PICK k \in 0..2 :
        /\ Taken("client") = Answer(i, k) /\ Ans(i, k) > 0 /\ Answering(i, k)
        /\ NetInv' /\ LoopType'
        /\ at["client"] = "loop" /\ at'["client"] = "result"
        /\ cur'["client"] = Answer(i, k)
        /\ Ans(i, k)' = Ans(i, k) - 1
        /\ \A j \in Ids : /\ \A d \in Ends, b \in Plain : Cnt(d, b, j)' = Cnt(d, b, j)
                          /\ Cnt("client", "Create", j)' = Cnt("client", "Create", j)
                          /\ \A q \in 0..2 : /\ ~(q = k /\ j = i) => Ans(j, q)' = Ans(j, q)
                                             /\ Posted(j, q)' <=> Posted(j, q)
                                             /\ ~Res(j, q)
                                             /\ j # i => ~Res(j, q)'
                          /\ SC("server", j)' <=> SC("server", j)
                          /\ j # i => (SC("client", j)' <=> SC("client", j))
  BY <1>1, AnswerTaken
<1>3. RestInv' /\ EndsGrow
  BY <1>1, <1>2 DEF TableType, EndType, DataType, EndsGrow, tableVars, endVars, dataVars
<1>4. \A j \in Ids \ {i} : ViewSame(j)
  <2> TAKE j \in Ids \ {i}
  <2>1. \A d \in Ends : SC(d, j)' <=> SC(d, j)
    BY <1>2 DEF Ends
  <2> QED
    BY <1>1, <1>2, <2>1 DEF ViewSame, TableSame, NetSame, tableVars, dataVars
<1>5. Res(i, k)' /\ \A q \in 0..2 : Res(i, q)' => q = k
  BY <1>2, FrameEqual DEF Res
<1>6. ~SC("client", i) /\ ~SC("client", i)'
  BY <1>2 DEF SC
<1>7. Fresh(i) /\ ~Unsent(i) /\ ~Asked(i) /\ Tokens(i) <= 1
  BY <1>2, Stages DEF Fresh, Asked, TokenInv, NetInv
<1>8. Tokens(i)' = Tokens(i)
  <2>1. 0 \in 0..2 /\ 1 \in 0..2 /\ 2 \in 0..2 /\ k \in {0, 1, 2}
    OBVIOUS
  <2>2. /\ \A q \in 0..2 : One(Posted(i, q))' = One(Posted(i, q)) /\ One(Res(i, q)) = 0
        /\ \A q \in 0..2 : q # k => One(Res(i, q))' = 0
        /\ One(Res(i, k))' = 1
    BY <1>2, <1>5 DEF One
  <2>3. \A q \in 0..2 : One(Posted(i, q)) \in Nat /\ Ans(i, q) \in Nat
    BY CntType DEF One, NetInv
  <2>4. Cnt("client", "Create", i) \in Nat
    BY CntType, PeerFacts DEF NetInv
  <2>5. CASE k = 0
    BY <1>2, <2>1, <2>2, <2>3, <2>4, <2>5 DEF Tokens, Answered
  <2>6. CASE k = 1
    BY <1>2, <2>1, <2>2, <2>3, <2>4, <2>6 DEF Tokens, Answered
  <2>7. CASE k = 2
    BY <1>2, <2>1, <2>2, <2>3, <2>4, <2>7 DEF Tokens, Answered
  <2> QED
    BY <2>1, <2>5, <2>6, <2>7
<1>9. \A q \in 0..2 : Answering(i, q)' <=> Answering(i, q)
  <2> TAKE q \in 0..2
  <2>1. CASE q = k
    BY <1>2, <1>5, <2>1 DEF Answering
  <2>2. CASE q # k
    BY <1>2, <1>5, <2>2 DEF Answering
  <2> QED
    BY <2>1, <2>2
<1>10. (Unsent(i)' <=> Unsent(i)) /\ (Asked(i)' <=> Asked(i)) /\ (Fresh(i)' <=> Fresh(i))
  BY <1>1, <1>2, <1>8 DEF Unsent, Asked, Fresh, tableVars
<1>11. \A d \in Ends : Closing(d, i)' <=> Closing(d, i)
  <2>1. \A d \in Ends : SC(d, i)' <=> SC(d, i)
    BY <1>2, <1>6 DEF Ends
  <2> QED
    BY <1>1, <1>2, <2>1 DEF Closing, Plain, tableVars
<1>12. TokenInv(i)'
  BY <1>8, <1>10 DEF TokenInv
<1>13. FreshInv(i)' /\ AskedInv(i)'
  <2>1. FreshInv(i)'
    BY <1>1, <1>2, <1>6, <1>10, PeerFacts DEF FreshInv, Plain, tableVars, dataVars
  <2> QED
    BY <1>7, <1>10, <2>1 DEF AskedInv
<1>14. RefusedInv(i)' /\ PendingInv(i)'
  <2>1. \A q \in 1..2 : q \in 0..2
    OBVIOUS
  <2>2. RefusedInv(i)'
    BY <1>1, <1>9, <2>1 DEF RefusedInv, tableVars
  <2>3. PendingInv(i)'
    BY <1>1, <1>9, <1>11, PeerFacts DEF PendingInv, tableVars, endVars
  <2> QED
    BY <2>2, <2>3
<1>15. EntryInv(i)' /\ ResInv(i)' /\ CloseInv(i)'
  BY <1>1, <1>11 DEF EntryInv, ResInv, CloseInv, Overflowed, tableVars, dataVars
<1>16. OrphanInv(i)'
  BY <1>1, <1>9, <1>11, PeerFacts DEF OrphanInv, Overflowed, tableVars, dataVars, endVars
<1>17. OwnedInv(i)' /\ DataInv(i)'
  BY <1>1, <1>2, PeerFacts DEF OwnedInv, DataInv, Plain, tableVars, endVars, dataVars
<1> QED
  BY <1>2, <1>3, <1>4, <1>12, <1>13, <1>14, <1>15, <1>16, <1>17, OneChannel

(* An answer that finds no pending entry: it is one for an entry that a    *)
(* Close has removed, and a Close goes back.                               *)
LEMMA ClientCreateUnknownStep ==
  ASSUME IndInv, NEW i \in Ids, ClientCreateUnknown(i) PROVE IndInv'
<1> USE DEF IndInv, IdInv, RestInv
<1>1. /\ Take("client", "Create", "sendClose") /\ i = Taken("client").id
      /\ entry["client"][i] \in {"none", "open"}
      /\ entry' = [entry EXCEPT !["client"][i] = "none"]
      /\ chan' = IF entry["client"][i] = "open" THEN ClosedChan("client", i) ELSE chan
      /\ UNCHANGED <<dial, cancelled, offer, posted, queue, endVars, dataVars>>
  BY DEF ClientCreateUnknown, SetEntry
<1>2. PICK k \in 0..2 :
        /\ Taken("client") = Answer(i, k) /\ Ans(i, k) > 0 /\ Answering(i, k)
        /\ NetInv' /\ LoopType'
        /\ at["client"] = "loop" /\ at'["client"] = "sendClose"
        /\ cur'["client"] = Answer(i, k)
        /\ Ans(i, k)' = Ans(i, k) - 1
        /\ \A j \in Ids : /\ \A d \in Ends, b \in Plain : Cnt(d, b, j)' = Cnt(d, b, j)
                          /\ Cnt("client", "Create", j)' = Cnt("client", "Create", j)
                          /\ \A q \in 0..2 : /\ ~(q = k /\ j = i) => Ans(j, q)' = Ans(j, q)
                                             /\ Posted(j, q)' <=> Posted(j, q)
                                             /\ ~Res(j, q)
                                             /\ j # i => ~Res(j, q)'
                          /\ SC("server", j)' <=> SC("server", j)
                          /\ j # i => (SC("client", j)' <=> SC("client", j))
  BY <1>1, AnswerTaken
<1>3. /\ Fresh(i) /\ ~Unsent(i) /\ Tokens(i) <= 1
      /\ chan["client"][i] = "none" /\ entry["client"][i] = "none" /\ offer[i] = "none"
  BY <1>1, <1>2, Stages DEF Fresh, TokenInv, FreshInv, NetInv
<1>4. chan' = chan
  BY <1>1, <1>3
<1>5. entry' = entry
  BY <1>1, <1>3, PeerFacts DEF TableType
<1>6. RestInv' /\ EndsGrow
  BY <1>1, <1>2, <1>4, <1>5 DEF TableType, EndType, DataType, EndsGrow, endVars, dataVars
<1>7. \A j \in Ids \ {i} : ViewSame(j)
  <2> TAKE j \in Ids \ {i}
  <2>1. \A d \in Ends : SC(d, j)' <=> SC(d, j)
    BY <1>2 DEF Ends
  <2> QED
    BY <1>1, <1>2, <1>4, <1>5, <2>1 DEF ViewSame, TableSame, NetSame, dataVars
<1>8. SC("client", i)' /\ \A q \in 0..2 : ~Res(i, q)'
  BY <1>2, FrameFacts DEF SC, Res
<1>9. /\ Tokens(i)' = 0 /\ Cnt("client", "Create", i)' = 0
      /\ \A q \in 0..2 : ~Answering(i, q)'
  BY <1>2, <1>3, <1>8, LastAnswer DEF NetInv
<1>10. dial'[i] \notin {"none", "sending"}
  BY <1>1, <1>3 DEF Unsent
<1>11. IdInv(i)'
  BY <1>1, <1>2, <1>3, <1>4, <1>5, <1>6, <1>8, <1>9, <1>10, AnswerHandled
<1> QED
  BY <1>2, <1>6, <1>7, <1>11, OneChannel

(* The panic.                                                              *)
LEMMA ClientCreateCancelledStep ==
  ASSUME IndInv, NEW i \in Ids, ClientCreateCancelled(i) PROVE IndInv'
<1> USE DEF IndInv, IdInv, RestInv
<1>1. /\ Take("client", "Create", "panic") /\ i = Taken("client").id
      /\ entry' = [entry EXCEPT !["client"][i] = "none"]
      /\ conn' = "closed"
      /\ UNCHANGED <<dial, cancelled, chan, offer, posted, queue, writer, done, dataVars>>
  BY DEF ClientCreateCancelled, SetEntry
<1>2. PICK k \in 0..2 :
        /\ Taken("client") = Answer(i, k) /\ Ans(i, k) > 0 /\ Answering(i, k)
        /\ NetInv' /\ LoopType'
        /\ at["client"] = "loop" /\ at'["client"] = "panic"
        /\ cur'["client"] = NoFrame
        /\ Ans(i, k)' = Ans(i, k) - 1
        /\ \A j \in Ids : /\ \A d \in Ends, b \in Plain : Cnt(d, b, j)' = Cnt(d, b, j)
                          /\ Cnt("client", "Create", j)' = Cnt("client", "Create", j)
                          /\ \A q \in 0..2 : /\ ~(q = k /\ j = i) => Ans(j, q)' = Ans(j, q)
                                             /\ Posted(j, q)' <=> Posted(j, q)
                                             /\ ~Res(j, q)
                                             /\ j # i => ~Res(j, q)'
                          /\ SC("server", j)' <=> SC("server", j)
                          /\ j # i => (SC("client", j)' <=> SC("client", j))
  BY <1>1, AnswerTaken
<1>3. /\ Fresh(i) /\ ~Unsent(i) /\ Tokens(i) <= 1
      /\ chan["client"][i] = "none" /\ offer[i] = "none"
  BY <1>1, <1>2, Stages DEF Fresh, TokenInv, FreshInv, NetInv
<1>4. /\ \A d \in Ends, j \in Ids : ~(d = "client" /\ j = i) => entry'[d][j] = entry[d][j]
      /\ entry'["client"][i] = "none"
  BY <1>1, PeerFacts DEF TableType
<1>5. RestInv' /\ EndsGrow
  <2>1. TableType'
    BY <1>1, PeerFacts DEF TableType
  <2> QED
    BY <1>1, <1>2, <2>1 DEF EndType, DataType, EndsGrow, dataVars
<1>6. \A j \in Ids \ {i} : ViewSame(j)
  <2> TAKE j \in Ids \ {i}
  <2>1. \A d \in Ends : SC(d, j)' <=> SC(d, j)
    BY <1>2 DEF Ends
  <2> QED
    BY <1>1, <1>2, <1>4, <2>1 DEF ViewSame, TableSame, NetSame, dataVars
<1>7. \A q \in 0..2 : ~Res(i, q)'
  BY <1>2 DEF Res
<1>8. /\ Tokens(i)' = 0 /\ Cnt("client", "Create", i)' = 0
      /\ \A q \in 0..2 : ~Answering(i, q)'
  BY <1>2, <1>3, <1>7, LastAnswer DEF NetInv
<1>9. dial'[i] \notin {"none", "sending"}
  BY <1>1, <1>3 DEF Unsent
<1>10. IdInv(i)'
  BY <1>1, <1>2, <1>3, <1>4, <1>5, <1>7, <1>8, <1>9, AnswerHandled, PeerFacts
<1> QED
  BY <1>2, <1>5, <1>6, <1>10, OneChannel

(* The four ways on with an answer that has found its entry: f is the      *)
(* answer, and the loop goes on at label to.                               *)
LEMMA ResultHandled ==
  ASSUME IndInv, NEW state \in {"open", "closed"}, NewChannel(cur["client"], state),
         NEW to \in {"loop", "sendClose", "exited"},
         at' = [at EXCEPT !["client"] = to],
         cur' = IF to = "sendClose" THEN cur ELSE [cur EXCEPT !["client"] = NoFrame],
         UNCHANGED <<cancelled, netVars, endVars, dataVars>>,
         dial' \in [Ids -> {"none", "sending", "waiting", "opened", "refused", "failed"}],
         offer' \in [Ids -> {"none", "opened", "refused", "sendClose"}],
         \A j \in Ids : j # cur["client"].id => dial'[j] = dial[j] /\ offer'[j] = offer[j],
         LET i == cur["client"].id
         IN  /\ dial'[i] \in {dial[i], "opened", "refused"} /\ offer'[i] # "sendClose"
             /\ state = "open" /\ cur["client"].code = 0 =>
                  /\ dial'[i] = "opened" \/ offer'[i] = "opened"
                  /\ to = "loop"
  PROVE  IndInv'
<1> USE DEF IndInv, IdInv, RestInv
<1>1. PICK i \in Ids, k \in 0..2 : cur["client"] = Answer(i, k)
  BY FrameFacts DEF NewChannel, LoopType, Answers
<1>2. cur["client"].id = i /\ cur["client"].code = k
  BY <1>1, FrameFacts
<1>3. /\ at["client"] = "result"
      /\ entry' = [entry EXCEPT !["client"][i] = IF k = 0 THEN "open" ELSE "refused"]
      /\ chan' = [chan EXCEPT !["client"][i] = IF k = 0 THEN state ELSE chan["client"][i]]
  BY <1>2 DEF NewChannel, SetEntry
<1>4. Res(i, k) /\ Answering(i, k)
  BY <1>1, <1>3 DEF Res, Answering
<1>5. /\ Fresh(i) /\ ~Unsent(i) /\ Tokens(i) <= 1
      /\ chan["client"][i] = "none" /\ entry["client"][i] = "pending" /\ offer[i] = "none"
  BY <1>4, Stages DEF Fresh, TokenInv, FreshInv, ResInv, NetInv
<1>6. /\ entry'["client"][i] = IF k = 0 THEN "open" ELSE "refused"
      /\ chan'["client"][i] = IF k = 0 THEN state ELSE "none"
      /\ \A d \in Ends, j \in Ids : ~(d = "client" /\ j = i) =>
           entry'[d][j] = entry[d][j] /\ chan'[d][j] = chan[d][j]
  BY <1>3, <1>5, PeerFacts DEF TableType
<1>7. TableType'
  <2>1. entry' \in [Ends -> [Ids -> {"none", "pending", "open", "refused"}]]
    BY <1>3, PeerFacts DEF TableType
  <2>2. chan' \in [Ends -> [Ids -> {"none", "open", "closed", "deleting", "gone"}]]
    BY <1>3, <1>5, PeerFacts DEF TableType
  <2> QED
    BY <2>1, <2>2 DEF TableType
<1> DEFINE f == IF to = "sendClose" THEN cur["client"] ELSE NoFrame
<1>8. /\ LoopType' /\ at'["client"] = to
      /\ \A d \in Ends \ {"client"} : at'[d] = at[d] /\ cur'[d] = cur[d]
      /\ to = "sendClose" => cur'["client"] = cur["client"]
  <2>1. cur["client"] \in Frame
    BY <1>1, FrameFacts
  <2>2. cur' = [cur EXCEPT !["client"] = f]
    <3>1. CASE to = "sendClose"
      BY <3>1, PeerFacts DEF LoopType
    <3>2. CASE to # "sendClose"
      BY <3>2
    <3> QED
      BY <3>1, <3>2
  <2>3. f \in Frame \cup {NoFrame} /\ (to = "sendClose" => f \in Frame)
    BY <2>1
  <2>4. posted' \in SUBSET Answers
    BY DEF LoopType, netVars
  <2>5. to = "sendClose" => f = cur["client"]
    OBVIOUS
  <2> HIDE DEF f
  <2> QED
    BY <2>2, <2>3, <2>4, <2>5, LoopMoves, PeerFacts
<1>9. NetInv' /\ DeltaNone
  BY DeltaSame DEF netVars
<1>10. RestInv' /\ EndsGrow
  BY <1>7, <1>8 DEF EndType, DataType, EndsGrow, endVars, dataVars
<1>11. \A j \in Ids : /\ SC("server", j)' <=> SC("server", j)
                      /\ j # i => (SC("client", j)' <=> SC("client", j))
  BY <1>2, <1>3, <1>8, PeerFacts DEF SC
<1>12. \A j \in Ids, q \in 0..2 : /\ ~Res(j, q)'
                                  /\ j # i => ~Res(j, q)
                                  /\ Posted(j, q)' <=> Posted(j, q)
  BY <1>1, <1>8, FrameEqual DEF Res, Posted, netVars
<1>13. \A j \in Ids \ {i} : ViewSame(j)
  <2> TAKE j \in Ids \ {i}
  <2>1. TableSame(j)
    BY <1>2, <1>6 DEF TableSame
  <2>2. \A d \in Ends : SC(d, j)' <=> SC(d, j)
    BY <1>11 DEF Ends
  <2>3. NetSame(j)
    BY <1>9, <1>12, <2>2 DEF DeltaNone, NetSame, dataVars
  <2> QED
    BY <2>1, <2>3 DEF ViewSame
<1>14. /\ Tokens(i)' = 0 /\ Cnt("client", "Create", i)' = 0
       /\ \A q \in 0..2 : ~Answering(i, q)'
  BY <1>4, <1>5, <1>9, <1>12, LastAnswer DEF DeltaNone, NetInv
<1>15. dial'[i] \notin {"none", "sending"}
  BY <1>2, <1>5 DEF Unsent
<1>16. to = "loop" => ~SC("client", i)'
  BY <1>8 DEF SC
<1>17. chan'["client"][i] = "open" =>
         /\ k = 0 /\ entry["client"][i] = "pending" /\ entry'["client"][i] = "open"
         /\ dial'[i] = "opened" \/ offer'[i] = "opened" \/ done["client"]
         /\ ~SC("client", i)'
  BY <1>2, <1>5, <1>6, <1>16
<1>18. IdInv(i)'
  BY <1>2, <1>4, <1>6, <1>9, <1>10, <1>11, <1>12, <1>14, <1>15, <1>17, AnswerHandled, PeerFacts
     DEF DeltaNone
<1> QED
  BY <1>9, <1>10, <1>13, <1>18, OneChannel

LEMMA ResultStep ==
  ASSUME IndInv, NEW f, f = cur["client"],
         ResultTaken(f) \/ ResultKept(f) \/ ResultCancelled(f) \/ ResultDone(f)
  PROVE  IndInv'
<1> USE DEF IndInv, RestInv
<1>1. PICK i \in Ids, k \in 0..2 : f = Answer(i, k)
  BY FrameFacts DEF NewChannel, LoopType, Answers, ResultTaken, ResultKept, ResultCancelled,
                    ResultDone
<1>2. f.id = i /\ f.code = k
  BY <1>1, FrameFacts
<1>3. offer[i] # "sendClose"
  <2>1. Res(i, k)
    BY <1>1 DEF Res, NewChannel, ResultTaken, ResultKept, ResultCancelled, ResultDone
  <2> QED
    BY <2>1, Stages DEF Answering, Fresh, IdInv, FreshInv, TokenInv, NetInv
<1>4. ResultOf(f) \in {"opened", "refused"} /\ (k = 0 => ResultOf(f) = "opened")
  BY <1>2 DEF ResultOf
<1>5. CASE ResultTaken(f)
  <2>1. /\ NewChannel(f, "open")
        /\ dial' = [dial EXCEPT ![i] = ResultOf(f)]
        /\ at' = [at EXCEPT !["client"] = "loop"]
        /\ cur' = [cur EXCEPT !["client"] = NoFrame]
        /\ UNCHANGED <<cancelled, offer, netVars, endVars, dataVars>>
    BY <1>2, <1>5 DEF ResultTaken, BackToLoop
  <2>2. /\ dial' \in [Ids -> {"none", "sending", "waiting", "opened", "refused", "failed"}]
        /\ dial'[i] = ResultOf(f)
        /\ \A j \in Ids : j # i => dial'[j] = dial[j]
    BY <1>4, <2>1 DEF TableType
  <2>3. offer' \in [Ids -> {"none", "opened", "refused", "sendClose"}]
    BY <2>1 DEF TableType
  <2> QED
    BY <1>2, <1>3, <1>4, <2>1, <2>2, <2>3, ResultHandled
<1>6. CASE ResultKept(f)
  <2>1. /\ NewChannel(f, "open")
        /\ offer' = [offer EXCEPT ![i] = ResultOf(f)]
        /\ at' = [at EXCEPT !["client"] = "loop"]
        /\ cur' = [cur EXCEPT !["client"] = NoFrame]
        /\ UNCHANGED <<dial, cancelled, netVars, endVars, dataVars>>
    BY <1>2, <1>6 DEF ResultKept, BackToLoop
  <2>2. /\ offer' \in [Ids -> {"none", "opened", "refused", "sendClose"}]
        /\ offer'[i] = ResultOf(f)
        /\ \A j \in Ids : j # i => offer'[j] = offer[j]
    BY <1>4, <2>1 DEF TableType
  <2>3. dial' \in [Ids -> {"none", "sending", "waiting", "opened", "refused", "failed"}]
    BY <2>1 DEF TableType
  <2> QED
    BY <1>2, <1>4, <2>1, <2>2, <2>3, ResultHandled
<1>7. CASE ResultCancelled(f) \/ ResultDone(f)
  <2>1. /\ NewChannel(f, "closed")
        /\ UNCHANGED <<dial, cancelled, offer, netVars, endVars, dataVars>>
    BY <1>7 DEF ResultCancelled, ResultDone
  <2>2. PICK to \in {"loop", "sendClose", "exited"} :
          /\ at' = [at EXCEPT !["client"] = to]
          /\ cur' = IF to = "sendClose" THEN cur ELSE [cur EXCEPT !["client"] = NoFrame]
    BY <1>7 DEF ResultCancelled, ResultDone, BackToLoop
  <2>3. /\ dial' \in [Ids -> {"none", "sending", "waiting", "opened", "refused", "failed"}]
        /\ offer' \in [Ids -> {"none", "opened", "refused", "sendClose"}]
    BY <2>1 DEF TableType
  <2> QED
    BY <1>2, <1>3, <2>1, <2>2, <2>3, ResultHandled
<1> QED
  BY <1>5, <1>6, <1>7

(* The Create of i, which the server knows nothing of, becomes an answer,  *)
(* in the queue or with a goroutine.                                       *)
LEMMA CreateAnswered ==
  ASSUME NetType, NEW i \in Ids, NEW k \in 0..2, TokenInv(i),
         Cnt("client", "Create", i) > 0,
         Cnt("client", "Create", i)' = Cnt("client", "Create", i) - 1,
         \A q \in 0..2 : /\ q # k => Ans(i, q)' = Ans(i, q) /\ (Posted(i, q)' <=> Posted(i, q))
                         /\ Res(i, q)' <=> Res(i, q),
         \/ Ans(i, k)' = Ans(i, k) + 1 /\ (Posted(i, k)' <=> Posted(i, k))
         \/ Ans(i, k)' = Ans(i, k) /\ Posted(i, k)'
  PROVE  /\ Tokens(i)' = 1 /\ Cnt("client", "Create", i)' = 0
         /\ \A q \in 0..2 : Answering(i, q)' <=> q = k
<1>1. 0 \in 0..2 /\ 1 \in 0..2 /\ 2 \in 0..2 /\ \A q \in 0..2 : q \in {0, 1, 2}
  OBVIOUS
<1>2. Cnt("client", "Create", i) \in Nat /\ \A q \in 0..2 : Ans(i, q) \in Nat
  BY CntType, PeerFacts
<1>3. \A q \in 0..2 : ~Answering(i, q)
  BY Stages DEF TokenInv
<1>4. \A q \in 0..2 : Ans(i, q) = 0 /\ ~Posted(i, q) /\ ~Res(i, q)
  BY <1>2, <1>3 DEF Answering
<1>5. \A q \in 0..2 : ~Res(i, q)' /\ (q # k => Ans(i, q)' = 0 /\ ~Posted(i, q)')
  BY <1>4
<1>6. \/ Ans(i, k)' = 1 /\ ~Posted(i, k)'
      \/ Ans(i, k)' = 0 /\ Posted(i, k)'
  BY <1>4
<1>7. \A q \in 0..2 : Answered(i, q)' = IF q = k THEN 1 ELSE 0
  <2> TAKE q \in 0..2
  <2>1. One(Res(i, q))' = 0
    BY <1>5 DEF One
  <2>2. CASE q = k
    <3>1. CASE Ans(i, k)' = 1 /\ ~Posted(i, k)'
      <4>1. One(Posted(i, k))' = 0
        BY <3>1 DEF One
      <4> QED
        BY <2>1, <2>2, <3>1, <4>1 DEF Answered
    <3>2. CASE Ans(i, k)' = 0 /\ Posted(i, k)'
      <4>1. One(Posted(i, q))' = 1 /\ Ans(i, q)' = 0
        BY <2>2, <3>2 DEF One
      <4> QED
        BY <2>1, <2>2, <4>1 DEF Answered
    <3> QED
      BY <1>6, <3>1, <3>2
  <2>3. CASE q # k
    <3>1. One(Posted(i, q))' = 0 /\ Ans(i, q)' = 0
      BY <1>5, <2>3 DEF One
    <3> QED
      BY <2>1, <2>3, <3>1 DEF Answered
  <2> QED
    BY <2>2, <2>3
<1>8. Cnt("client", "Create", i)' = 0
  <2>1. \A q \in 0..2 : Answered(i, q) = 0
    <3> TAKE q \in 0..2
    <3>1. Ans(i, q) = 0 /\ One(Posted(i, q)) = 0 /\ One(Res(i, q)) = 0
      BY <1>4 DEF One
    <3> QED
      BY <3>1 DEF Answered
  <2>2. Tokens(i) = Cnt("client", "Create", i)
    BY <1>1, <1>2, <2>1 DEF Tokens
  <2> QED
    BY <1>2, <2>2 DEF TokenInv
<1>9. Tokens(i)' = 1
  BY <1>1, <1>7, <1>8 DEF Tokens
<1>10. \A q \in 0..2 : Answering(i, q)' <=> q = k
  BY <1>5, <1>6 DEF Answering
<1> QED
  BY <1>8, <1>9, <1>10

LEMMA ServerCreateStep ==
  ASSUME IndInv, NEW i \in Ids, ServerCreate(i) PROVE IndInv'
<1> USE DEF IndInv, IdInv, RestInv
<1>1. PICK k \in 0..2 : k = CreateCode(i)
  BY DEF CreateCode
<1> DEFINE f == Answer(i, k)
<1>2. /\ Take("server", "Create", "loop") /\ i = Taken("server").id
      /\ IF f.code = 0
           THEN /\ entry' = [entry EXCEPT !["server"][i] = "open"]
                /\ chan' = [chan EXCEPT !["server"][i] = "open"]
           ELSE UNCHANGED <<entry, chan>>
      /\ \/ Enqueue("server", f) /\ UNCHANGED posted
         \/ posted' = posted \cup {f} /\ UNCHANGED queue
      /\ UNCHANGED <<dial, cancelled, offer, endVars, dataVars>>
  BY <1>1 DEF ServerCreate, SetEntry
<1>3. k = 1 => entry["server"][i] = "open"
  BY <1>1 DEF CreateCode
<1>4. f.code = k
  BY <1>1, FrameFacts
<1>5. /\ NetInv' /\ Cnt("client", "Create", i) > 0
      /\ \A j \in Ids :
           /\ \A d \in Ends, b \in Plain : Cnt(d, b, j)' = Cnt(d, b, j)
           /\ j # i => Cnt("client", "Create", j)' = Cnt("client", "Create", j)
           /\ \A q \in 0..2 : ~(q = k /\ j = i) => /\ Ans(j, q)' = Ans(j, q)
                                                   /\ Posted(j, q)' <=> Posted(j, q)
      /\ Cnt("client", "Create", i)' = Cnt("client", "Create", i) - 1
      /\ \/ Ans(i, k)' = Ans(i, k) + 1 /\ (Posted(i, k)' <=> Posted(i, k))
         \/ Ans(i, k)' = Ans(i, k) /\ Posted(i, k)'
  <2>1. CASE Enqueue("server", f) /\ UNCHANGED posted
    <3>1. /\ NetInv' /\ Cnt("client", "Create", i) > 0
          /\ \A j \in Ids :
               /\ \A d \in Ends, b \in Plain : Cnt(d, b, j)' = Cnt(d, b, j)
               /\ Cnt("client", "Create", j)' =
                    Cnt("client", "Create", j) - IF j = i THEN 1 ELSE 0
               /\ \A q \in 0..2 :
                    Ans(j, q)' = Ans(j, q) + IF q = k /\ j = i THEN 1 ELSE 0
      BY <1>1, <1>2, <2>1, DeltaServerCreate
    <3>2. \A j \in Ids, q \in 0..2 : Cnt("client", "Create", j) \in Nat /\ Ans(j, q) \in Nat
      BY CntType, PeerFacts DEF NetInv
    <3>3. \A j \in Ids, q \in 0..2 : Posted(j, q)' <=> Posted(j, q)
      BY <2>1 DEF Posted
    <3> QED
      BY <1>1, <3>1, <3>2, <3>3
  <2>2. CASE posted' = posted \cup {f} /\ UNCHANGED queue
    <3>1. /\ Cnt("client", "Create", i) > 0 /\ NetInv'
          /\ Delta("client", "Create", i, -1)
      BY <1>2, <2>2, DeltaTake, PeerFacts DEF PlainFrom
    <3>2. \A j \in Ids : /\ \A d \in Ends, b \in Plain : Cnt(d, b, j)' = Cnt(d, b, j)
                         /\ j # i => Cnt("client", "Create", j)' = Cnt("client", "Create", j)
                         /\ \A q \in 0..2 : Ans(j, q)' = Ans(j, q)
      <4>1. "Create" \notin Plain
        BY DEF Plain
      <4> QED
        BY <3>1, <4>1, DeltaOthers DEF NetInv
    <3>3. Cnt("client", "Create", i)' = Cnt("client", "Create", i) - 1
      BY <3>1, CntType, PeerFacts DEF Delta, NetInv
    <3>4. \A j \in Ids, q \in 0..2 : ~(q = k /\ j = i) => (Posted(j, q)' <=> Posted(j, q))
      BY <1>1, <2>2, FrameEqual DEF Posted
    <3>5. Posted(i, k)'
      BY <2>2 DEF Posted
    <3> QED
      BY <1>1, <3>1, <3>2, <3>3, <3>4, <3>5
  <2> QED
    BY <1>2, <2>1, <2>2
<1>6. /\ Asked(i) /\ Fresh(i) /\ ~Unsent(i)
      /\ chan["server"][i] = "none" /\ entry["server"][i] = "none"
  <2>1. Asked(i)
    BY <1>5 DEF Asked
  <2>2. Fresh(i) /\ ~Unsent(i)
    BY <1>5, Stages DEF Fresh, TokenInv, NetInv
  <2> QED
    BY <2>1, <2>2 DEF AskedInv
<1>7. k \in {0, 2}
  BY <1>1, <1>3, <1>6
<1>8. /\ entry'["server"][i] = IF k = 0 THEN "open" ELSE "none"
      /\ chan'["server"][i] = IF k = 0 THEN "open" ELSE "none"
      /\ \A d \in Ends, j \in Ids : ~(d = "server" /\ j = i) =>
           entry'[d][j] = entry[d][j] /\ chan'[d][j] = chan[d][j]
  <2>1. CASE k = 0
    BY <1>2, <1>4, <2>1, PeerFacts DEF TableType
  <2>2. CASE k # 0
    BY <1>2, <1>4, <1>6, <2>2
  <2> QED
    BY <2>1, <2>2
<1>9. TableType'
  <2>1. CASE k = 0
    <3>0. /\ entry' = [entry EXCEPT !["server"][i] = "open"]
          /\ chan' = [chan EXCEPT !["server"][i] = "open"]
      BY <1>2, <1>4, <2>1
    <3>1. entry' \in [Ends -> [Ids -> {"none", "pending", "open", "refused"}]]
      BY <3>0, PeerFacts DEF TableType
    <3>2. chan' \in [Ends -> [Ids -> {"none", "open", "closed", "deleting", "gone"}]]
      BY <3>0, PeerFacts DEF TableType
    <3> QED
      BY <1>2, <3>1, <3>2 DEF TableType
  <2>2. CASE k # 0
    BY <1>2, <1>4, <2>2 DEF TableType
  <2> QED
    BY <2>1, <2>2
<1>10. /\ LoopType' /\ at["server"] = "loop" /\ at'["server"] = "loop"
       /\ at'["client"] = at["client"] /\ cur'["client"] = cur["client"]
  <2>1. at["server"] = "loop" /\ at' = [at EXCEPT !["server"] = "loop"]
        /\ cur' = [cur EXCEPT !["server"] = NoFrame]
    BY <1>2 DEF Take
  <2>2. f \in Answers
    BY <1>1, FrameFacts DEF Answers
  <2>3. posted' \in SUBSET Answers
    BY <1>2, <2>2 DEF LoopType
  <2> QED
    BY <2>1, <2>3, LoopMoves, PeerFacts
<1>11. RestInv' /\ EndsGrow
  BY <1>2, <1>9, <1>10 DEF EndType, DataType, EndsGrow, endVars, dataVars
<1>12. \A j \in Ids : /\ \A d \in Ends : SC(d, j)' <=> SC(d, j)
                      /\ \A q \in 0..2 : Res(j, q)' <=> Res(j, q)
  BY <1>10 DEF SC, Res, Ends
<1>13. \A j \in Ids \ {i} : ViewSame(j)
  <2> TAKE j \in Ids \ {i}
  <2>1. TableSame(j)
    BY <1>2, <1>8 DEF TableSame
  <2>2. NetSame(j)
    BY <1>2, <1>5, <1>12 DEF NetSame, dataVars
  <2> QED
    BY <2>1, <2>2 DEF ViewSame
<1>14. /\ Tokens(i)' = 1 /\ Cnt("client", "Create", i)' = 0
       /\ \A q \in 0..2 : Answering(i, q)' <=> q = k
  BY <1>5, <1>12, CreateAnswered DEF NetInv
<1>15. ~Unsent(i)' /\ ~Asked(i)'
  BY <1>2, <1>6, <1>14 DEF Unsent, Asked
<1>16. ~Closing("server", i) /\ ~Closing("server", i)'
  <2>1. Cnt("server", "Close", i) = 0 /\ ~SC("server", i)
    BY <1>6 DEF AskedInv
  <2>2. Cnt("server", "Close", i)' = 0 /\ ~SC("server", i)'
    BY <1>5, <1>12, <2>1, PeerFacts DEF Plain
  <2>3. chan["server"][i] # "deleting" /\ chan'["server"][i] # "deleting"
    BY <1>6, <1>8
  <2> QED
    BY <2>1, <2>2, <2>3, PeerFacts DEF Closing
<1>17. TokenInv(i)' /\ AskedInv(i)'
  BY <1>14, <1>15 DEF TokenInv, AskedInv
<1>18. chan'["client"][i] = "none" /\ FreshInv(i)'
  BY <1>2, <1>5, <1>6, <1>8, <1>12, PeerFacts DEF FreshInv, Plain, dataVars
<1>19. RefusedInv(i)' /\ PendingInv(i)'
  <2>1. \A q \in 1..2 : q \in 0..2 /\ q # 0
    OBVIOUS
  <2>2. RefusedInv(i)'
    BY <1>8, <1>14, <2>1 DEF RefusedInv
  <2>3. PendingInv(i)'
    BY <1>8, <1>14 DEF PendingInv
  <2> QED
    BY <2>2, <2>3
<1>20. EntryInv(i)'
  BY <1>8, PeerFacts DEF EntryInv
<1>21. ResInv(i)'
  BY <1>8, <1>12, PeerFacts DEF ResInv
<1>22. CloseInv(i)'
  BY <1>16, <1>18 DEF CloseInv, Overflowed, Ends
<1>23. OrphanInv(i)'
  <2>1. Answering(i, k)'
    BY <1>1, <1>14
  <2> QED
    BY <1>1, <1>18, <2>1 DEF OrphanInv
<1>24. OwnedInv(i)' /\ DataInv(i)'
  <2>1. OwnedInv(i)'
    BY <1>18 DEF OwnedInv
  <2>2. DataInv(i)'
    BY <1>2, <1>5, PeerFacts DEF DataInv, Plain, dataVars
  <2> QED
    BY <2>1, <2>2
<1> QED
  BY <1>5, <1>11, <1>13, <1>17, <1>18, <1>19, <1>20, <1>21, <1>22, <1>23, <1>24, OneChannel

(* The loop of e takes a frame that has no code from an end that has sent  *)
(* something for i.                                                        *)
LEMMA PlainTaken ==
  ASSUME IndInv, NEW e \in Ends, NEW c \in Plain, NEW to \in {"loop", "sendClose"},
         NEW i \in Ids, i = Taken(e).id, Take(e, c, to), UNCHANGED <<posted, queue>>
  PROVE  /\ NetInv' /\ LoopType'
         /\ Cnt(Peer(e), c, i) > 0
         /\ Cnt(Peer(e), c, i)' = Cnt(Peer(e), c, i) - 1
         /\ at[e] = "loop"
         /\ \A j \in Ids :
              /\ \A d \in Ends, b \in Plain :
                   ~(d = Peer(e) /\ b = c /\ j = i) => Cnt(d, b, j)' = Cnt(d, b, j)
              /\ Cnt("client", "Create", j)' = Cnt("client", "Create", j)
              /\ \A q \in 0..2 : /\ Ans(j, q)' = Ans(j, q)
                                 /\ Posted(j, q)' <=> Posted(j, q)
                                 /\ Res(j, q)' <=> Res(j, q)
                                 /\ e = "client" => ~Res(j, q)
              /\ \A d \in Ends : ~(d = e /\ j = i) => (SC(d, j)' <=> SC(d, j))
         /\ ~SC(e, i) /\ (SC(e, i)' <=> to = "sendClose")
<1> USE DEF IndInv, RestInv
<1>1. PlainFrom(Peer(e), c)
  BY DEF PlainFrom
<1>2. /\ Taken(e) = FrameOf(c, i) /\ Cnt(Peer(e), c, i) > 0
      /\ NetInv' /\ Delta(Peer(e), c, i, -1)
  BY <1>1, DeltaTake
<1>3. \A j \in Ids : /\ \A d \in Ends, b \in Plain :
                          ~(d = Peer(e) /\ b = c /\ j = i) => Cnt(d, b, j)' = Cnt(d, b, j)
                     /\ Cnt("client", "Create", j)' = Cnt("client", "Create", j)
                     /\ \A q \in 0..2 : Ans(j, q)' = Ans(j, q)
  <2>1. "Create" \notin Plain
    BY DEF Plain
  <2> QED
    BY <1>2, <2>1, DeltaOthers DEF NetInv
<1>4. Cnt(Peer(e), c, i)' = Cnt(Peer(e), c, i) - 1
  BY <1>2, CntType, PeerFacts DEF Delta, NetInv
<1> DEFINE f == IF to = "sendClose" THEN Taken(e) ELSE NoFrame
<1>5. /\ at[e] = "loop" /\ at' = [at EXCEPT ![e] = to] /\ cur' = [cur EXCEPT ![e] = f]
  BY DEF Take, Taken
<1>6. FrameOf(c, i) \in Frame /\ FrameOf(c, i).id = i
  BY <1>2, FrameFacts
<1>7. /\ f \in Frame \cup {NoFrame}
      /\ to = "sendClose" => f \in Frame /\ f.id = i
  BY <1>2, <1>6
<1> HIDE DEF f
<1>8. /\ LoopType' /\ at'[e] = to /\ cur'[e] = f
      /\ \A d \in Ends \ {e} : at'[d] = at[d] /\ cur'[d] = cur[d]
  <2>1. posted' \in SUBSET Answers
    BY DEF LoopType
  <2> QED
    BY <1>5, <1>7, <2>1, LoopMoves
<1>9. /\ \A j \in Ids, d \in Ends : ~(d = e /\ j = i) => (SC(d, j)' <=> SC(d, j))
      /\ ~SC(e, i) /\ (SC(e, i)' <=> to = "sendClose")
  BY <1>5, <1>7, <1>8 DEF SC
<1>10. \A j \in Ids, q \in 0..2 : /\ Posted(j, q)' <=> Posted(j, q)
                                  /\ Res(j, q)' <=> Res(j, q)
                                  /\ e = "client" => ~Res(j, q)
  <2> TAKE j \in Ids, q \in 0..2
  <2>1. CASE e = "client"
    BY <1>5, <1>8, <2>1 DEF Res, Posted
  <2>2. CASE e # "client"
    BY <1>8, <2>2, PeerFacts DEF Res, Posted
  <2> QED
    BY <2>1, <2>2
<1> QED
  BY <1>2, <1>3, <1>4, <1>5, <1>8, <1>9, <1>10

(* What the frame taken is about, of the channel: all but the data.        *)
LEMMA PlainHandled ==
  ASSUME IndInv, NEW e \in Ends, NEW c \in Plain, NEW to \in {"loop", "sendClose"},
         NEW i \in Ids, i = Taken(e).id, Take(e, c, to),
         UNCHANGED <<posted, queue, dial, cancelled, offer, endVars>>,
         TableType', DataType', DataInv(i)',
         wrote' = wrote,
         \A d \in Ends, j \in Ids :
           ~(d = e /\ j = i) => /\ entry'[d][j] = entry[d][j] /\ chan'[d][j] = chan[d][j]
                                /\ got'[d][j] = got[d][j]
                                /\ confirms'[d][j] = confirms[d][j],
         Overflowed(e, i) => Overflowed(e, i)',
         \/ /\ c = "Close" /\ entry'[e][i] = "none" /\ got'[e][i] = got[e][i]
            /\ chan'[e][i] = IF chan[e][i] = "open" THEN "closed" ELSE chan[e][i]
            /\ to = "loop"
         \/ c # "Close" /\ entry'[e][i] = entry[e][i] /\ chan'[e][i] = chan[e][i]
         \/ /\ c = "Confirm" /\ entry'[e][i] = entry[e][i]
            /\ chan[e][i] = "open" /\ chan'[e][i] = "closed" /\ to = "sendClose",
         to = "sendClose" => c = "Confirm" /\ (chan'[e][i] # "open" \/ Overflowed(e, i)')
  PROVE  IndInv'
<1> USE DEF IndInv, RestInv, IdInv
<1>1. /\ NetInv' /\ LoopType'
      /\ Cnt(Peer(e), c, i) > 0
      /\ Cnt(Peer(e), c, i)' = Cnt(Peer(e), c, i) - 1
      /\ \A j \in Ids :
           /\ \A d \in Ends, b \in Plain :
                ~(d = Peer(e) /\ b = c /\ j = i) => Cnt(d, b, j)' = Cnt(d, b, j)
           /\ Cnt("client", "Create", j)' = Cnt("client", "Create", j)
           /\ \A q \in 0..2 : /\ Ans(j, q)' = Ans(j, q)
                              /\ Posted(j, q)' <=> Posted(j, q)
                              /\ Res(j, q)' <=> Res(j, q)
                              /\ e = "client" => ~Res(j, q)
           /\ \A d \in Ends : ~(d = e /\ j = i) => (SC(d, j)' <=> SC(d, j))
      /\ ~SC(e, i) /\ (SC(e, i)' <=> to = "sendClose")
  BY PlainTaken
<1>2. RestInv' /\ EndsGrow
  BY <1>1 DEF EndType, EndsGrow, endVars
<1>3. \A j \in Ids \ {i} : ViewSame(j)
  BY <1>1 DEF ViewSame, TableSame, NetSame
<1>4. /\ Tokens(i)' = Tokens(i)
      /\ \A q \in 0..2 : Answering(i, q)' <=> Answering(i, q)
  <2>1. 0 \in 0..2 /\ 1 \in 0..2 /\ 2 \in 0..2
    OBVIOUS
  <2>2. \A q \in 0..2 : One(Posted(i, q))' = One(Posted(i, q)) /\ One(Res(i, q))' = One(Res(i, q))
    BY <1>1 DEF One
  <2>3. Tokens(i)' = Tokens(i)
    BY <1>1, <2>1, <2>2 DEF Tokens, Answered
  <2> QED
    BY <1>1, <2>3 DEF Answering
<1>5. (Unsent(i)' <=> Unsent(i)) /\ (Asked(i)' <=> Asked(i)) /\ (Fresh(i)' <=> Fresh(i))
  BY <1>1, <1>4 DEF Unsent, Asked, Fresh
<1>6. /\ Asked(i) => Fresh(i)
      /\ \A q \in 0..2 : Answering(i, q) => Fresh(i)
  BY <1>1, Stages DEF Asked, Fresh, NetInv
<1>7. /\ e = "server" => ~Fresh(i) /\ ~Asked(i)
      /\ c = "Close" => ~Asked(i)
      /\ c = "Confirm" => ~Fresh(i)
  <2>1. e = "server" => ~Fresh(i)
    BY <1>1, PeerFacts DEF FreshInv
  <2>2. e = "client" /\ c = "Close" => ~Asked(i)
    BY <1>1, PeerFacts DEF AskedInv
  <2>3. e = "client" /\ c = "Confirm" => ~Fresh(i)
    BY <1>1, PeerFacts DEF FreshInv
  <2> QED
    BY <1>6, <2>1, <2>2, <2>3 DEF Ends
<1>8. c = "Close" => /\ Closing(Peer(e), i)
                     /\ chan[Peer(e)][i] # "open" \/ Overflowed(Peer(e), i)
  <2>1. c = "Close" => Closing(Peer(e), i)
    BY <1>1 DEF Closing
  <2> QED
    BY <2>1, PeerFacts DEF CloseInv, Overflowed
<1>9. \A d \in Ends : chan'[d][i] = "open" => chan[d][i] = "open" /\ ~(c = "Close" /\ d = e)
  BY <1>1
<1>10. /\ Closing(e, i)' <=> Closing(e, i) \/ to = "sendClose"
       /\ Closing(Peer(e), i)' => Closing(Peer(e), i)
       /\ c # "Close" => (Closing(Peer(e), i)' <=> Closing(Peer(e), i))
  <2>1. Cnt(e, "Close", i)' = Cnt(e, "Close", i)
    BY <1>1, PeerFacts DEF Plain
  <2>2. chan'[e][i] = "deleting" <=> chan[e][i] = "deleting"
    BY <1>1
  <2>3. chan'[Peer(e)][i] = chan[Peer(e)][i] /\ (SC(Peer(e), i)' <=> SC(Peer(e), i))
    BY <1>1, PeerFacts
  <2>4. Cnt(Peer(e), "Close", i) \in Nat
    BY CntType, PeerFacts DEF NetInv
  <2>5. /\ Cnt(Peer(e), "Close", i)' > 0 => Cnt(Peer(e), "Close", i) > 0
        /\ c # "Close" => Cnt(Peer(e), "Close", i)' = Cnt(Peer(e), "Close", i)
    BY <1>1, <2>4, PeerFacts DEF Plain
  <2> QED
    BY <1>1, <2>1, <2>2, <2>3, <2>5 DEF Closing
<1>11. TokenInv(i)'
  BY <1>4, <1>5 DEF TokenInv
<1>12. FreshInv(i)'
  <2> SUFFICES ASSUME Fresh(i) PROVE FreshInv(i)'
    BY <1>5 DEF FreshInv
  <2>1. e = "client" /\ c # "Confirm" /\ Peer(e) = "server" /\ to = "loop"
    BY <1>7, PeerFacts DEF Ends
  <2>2. /\ \A b \in Plain : Cnt("client", b, i)' = Cnt("client", b, i)
        /\ Cnt("server", "Confirm", i)' = Cnt("server", "Confirm", i)
    BY <1>1, <2>1, PeerFacts DEF Plain
  <2>3. got'["server"][i] = got["server"][i] /\ ~SC("client", i)'
    BY <1>1, <2>1, PeerFacts
  <2>4. chan'["client"][i] = "none" /\ entry'["client"][i] \in {"none", "pending"}
    BY <2>1 DEF FreshInv
  <2> QED
    BY <2>2, <2>3, <2>4 DEF FreshInv
<1>13. AskedInv(i)'
  <2> SUFFICES ASSUME Asked(i) PROVE AskedInv(i)'
    BY <1>5 DEF AskedInv
  <2>1. e = "client" /\ c # "Close" /\ Peer(e) = "server"
    BY <1>7, PeerFacts DEF Ends
  <2>2. Cnt("server", "Close", i)' = Cnt("server", "Close", i)
    BY <1>1, <2>1, PeerFacts DEF Plain
  <2>3. /\ entry'["server"][i] = entry["server"][i] /\ chan'["server"][i] = chan["server"][i]
        /\ ~SC("server", i)'
    BY <1>1, <2>1, PeerFacts DEF AskedInv
  <2> QED
    BY <2>2, <2>3 DEF AskedInv
<1>14. RefusedInv(i)'
  <2>1. \A q \in 1..2 : q \in 0..2
    OBVIOUS
  <2>2. chan["server"][i] = "none" => chan'["server"][i] = "none"
    BY <1>1, PeerFacts
  <2> QED
    BY <1>4, <2>1, <2>2 DEF RefusedInv
<1>15. EntryInv(i)'
  BY <1>1, <1>9 DEF EntryInv
<1>16. ResInv(i)'
  <2>1. e = "server" => entry'["client"][i] = entry["client"][i]
    BY <1>1, PeerFacts
  <2> QED
    BY <1>1, <2>1 DEF ResInv, Ends
<1>17. CloseInv(i)'
  <2>1. chan'[e][i] = "open" /\ Closing(e, i)' => Overflowed(e, i)'
    BY <1>9, <1>10 DEF CloseInv
  <2>2. Overflowed(Peer(e), i) => Overflowed(Peer(e), i)'
    BY PeerFacts DEF Overflowed
  <2>3. chan'[Peer(e)][i] = "open" /\ Closing(Peer(e), i)' => Overflowed(Peer(e), i)'
    BY <1>9, <1>10, <2>2, PeerFacts DEF CloseInv
  <2>4. \A d \in Ends : d = e \/ d = Peer(e)
    BY DEF Ends, Peer
  <2> QED
    BY <2>1, <2>3, <2>4 DEF CloseInv
<1>18. PendingInv(i)'
  <2>1. conn' = conn
    BY DEF endVars
  <2>2. CASE c = "Close"
    BY <1>4, <1>6, <1>7, <2>2 DEF PendingInv, Ends
  <2>3. CASE c # "Close"
    <3>1. \A d \in Ends : entry'[d][i] = entry[d][i] /\ (Closing(d, i) => Closing(d, i)')
      BY <1>1, <1>10, <2>3 DEF Ends, Peer
    <3> QED
      BY <1>4, <2>1, <3>1, PeerFacts DEF PendingInv
  <2> QED
    BY <2>2, <2>3
<1>19. OrphanInv(i)'
  <2>1. conn' = conn
    BY DEF endVars
  <2>2. CASE c = "Close"
    <3>1. chan'["client"][i] # "open"
      BY <1>8, <1>9, <2>2 DEF Overflowed, Ends, Peer
    <3>2. chan'["server"][i] # "open" \/ Overflowed("server", i)'
      BY <1>8, <1>9, <2>2 DEF Overflowed, Ends, Peer
    <3> QED
      BY <3>1, <3>2 DEF OrphanInv
  <2>3. CASE c # "Close"
    <3>1. \A d \in Ends : /\ entry'[d][i] = entry[d][i]
                          /\ chan'[d][i] = "open" => chan[d][i] = "open"
                          /\ Closing(d, i) => Closing(d, i)'
                          /\ Overflowed(d, i) => Overflowed(d, i)'
      BY <1>1, <1>9, <1>10, <2>3 DEF Overflowed, Ends, Peer
    <3> QED
      BY <1>4, <2>1, <3>1, PeerFacts DEF OrphanInv
  <2> QED
    BY <2>2, <2>3
<1>20. OwnedInv(i)'
  BY <1>9, PeerFacts DEF OwnedInv, endVars
<1> QED
  BY <1>1, <1>2, <1>3, <1>11, <1>12, <1>13, <1>14, <1>15, <1>16, <1>17, <1>18, <1>19, <1>20,
     OneChannel

LEMMA ReaderCloseStep ==
  ASSUME IndInv, NEW e \in Ends, NEW i \in Ids, ReaderClose(e, i) PROVE IndInv'
<1> USE DEF IndInv, RestInv, IdInv
<1>1. /\ Take(e, "Close", "loop") /\ i = Taken(e).id
      /\ entry' = [entry EXCEPT ![e][i] = "none"]
      /\ chan' = IF entry[e][i] = "open" THEN ClosedChan(e, i) ELSE chan
      /\ UNCHANGED <<dial, cancelled, offer, posted, queue, endVars, dataVars>>
  BY DEF ReaderClose, SetEntry
<1>2. chan' = [chan EXCEPT ![e][i] = IF chan[e][i] = "open" THEN "closed" ELSE chan[e][i]]
  <2>1. CASE entry[e][i] = "open"
    BY <1>1, <2>1 DEF ClosedChan
  <2>2. CASE entry[e][i] # "open"
    <3>1. chan[e][i] # "open" /\ chan' = chan
      BY <1>1, <2>2 DEF EntryInv
    <3> QED
      BY <3>1 DEF TableType
  <2> QED
    BY <2>1, <2>2
<1>3. /\ entry'[e][i] = "none"
      /\ chan'[e][i] = IF chan[e][i] = "open" THEN "closed" ELSE chan[e][i]
      /\ \A d \in Ends, j \in Ids : ~(d = e /\ j = i) =>
           entry'[d][j] = entry[d][j] /\ chan'[d][j] = chan[d][j]
  BY <1>1, <1>2 DEF TableType
<1>4. TableType'
  <2>1. entry' \in [Ends -> [Ids -> {"none", "pending", "open", "refused"}]]
    BY <1>1 DEF TableType
  <2>2. chan' \in [Ends -> [Ids -> {"none", "open", "closed", "deleting", "gone"}]]
    BY <1>2 DEF TableType
  <2> QED
    BY <1>1, <2>1, <2>2 DEF TableType
<1>5. DataType' /\ wrote' = wrote /\ got' = got
  BY <1>1 DEF DataType, dataVars
<1>6. DataInv(i)'
  <2>1. \A d \in Ends : Cnt(d, "Write", i)' = Cnt(d, "Write", i)
    BY <1>1, PlainTaken DEF Plain
  <2> QED
    BY <1>5, <2>1, PeerFacts DEF DataInv
<1>7. "Close" \in Plain
  BY DEF Plain
<1>8. confirms' = confirms /\ (Overflowed(e, i) => Overflowed(e, i)')
  BY <1>1 DEF dataVars, Overflowed
<1> QED
  BY <1>1, <1>3, <1>4, <1>5, <1>6, <1>7, <1>8, PlainHandled

LEMMA ReaderWriteStep ==
  ASSUME IndInv, NEW e \in Ends, NEW i \in Ids, ReaderWrite(e, i) PROVE IndInv'
<1> USE DEF IndInv, RestInv, IdInv
<1>1. /\ Take(e, "Write", "loop") /\ i = Taken(e).id
      /\ got' = got \/ got' = [got EXCEPT ![e][i] = got[e][i] + 1]
      /\ UNCHANGED <<tableVars, posted, queue, endVars, wrote, confirms>>
  BY DEF ReaderWrite
<1>2. "Write" \in Plain
  BY DEF Plain
<1>3. got' \in [Ends -> [Ids -> Nat]]
  <2>1. CASE got' = got
    BY <2>1 DEF DataType
  <2>2. CASE got' = [got EXCEPT ![e][i] = got[e][i] + 1]
    BY <2>2 DEF DataType
  <2> QED
    BY <1>1, <2>1, <2>2
<1>4. /\ got'[e][i] \in {got[e][i], got[e][i] + 1}
      /\ \A d \in Ends, j \in Ids : ~(d = e /\ j = i) => got'[d][j] = got[d][j]
  <2>1. CASE got' = got
    BY <2>1
  <2>2. CASE got' = [got EXCEPT ![e][i] = got[e][i] + 1]
    BY <2>2 DEF DataType
  <2> QED
    BY <1>1, <2>1, <2>2
<1>5. TableType' /\ DataType'
  BY <1>1, <1>3 DEF TableType, DataType, tableVars
<1>6. DataInv(i)'
  <2>1. /\ Cnt(Peer(e), "Write", i)' = Cnt(Peer(e), "Write", i) - 1
        /\ \A d \in Ends : d # Peer(e) => Cnt(d, "Write", i)' = Cnt(d, "Write", i)
    BY <1>1, <1>2, PlainTaken
  <2> SUFFICES ASSUME NEW d \in Ends
               PROVE  got'[d][i] + Cnt(Peer(d), "Write", i)' <= wrote'[Peer(d)][i]
    BY DEF DataInv
  <2>2. got[d][i] + Cnt(Peer(d), "Write", i) <= wrote[Peer(d)][i]
    BY DEF DataInv
  <2>3. Peer(d) \in Ends /\ Cnt(Peer(d), "Write", i) \in Nat /\ got[d][i] \in Nat
        /\ wrote[Peer(d)][i] \in Nat
    BY CntType, PeerFacts DEF NetInv, DataType
  <2>4. CASE d = e
    BY <1>1, <1>4, <2>1, <2>2, <2>3, <2>4
  <2>5. CASE d # e
    <3>1. Peer(d) # Peer(e)
      BY <2>5, PeerFacts
    <3> QED
      BY <1>1, <1>4, <2>1, <2>2, <2>3, <2>5, <3>1
  <2> QED
    BY <2>4, <2>5
<1>7. "Write" # "Close" /\ (Overflowed(e, i) => Overflowed(e, i)')
  BY <1>1 DEF Overflowed
<1> QED
  BY <1>1, <1>2, <1>4, <1>5, <1>6, <1>7, PlainHandled DEF tableVars

LEMMA ReaderConfirmStep ==
  ASSUME IndInv, NEW e \in Ends, NEW i \in Ids, ReaderConfirm(e, i) PROVE IndInv'
<1> USE DEF IndInv, RestInv, IdInv
<1> DEFINE v == IF entry[e][i] = "open" /\ confirms[e][i] = "none"
                  THEN "stored" ELSE confirms[e][i]
<1>1. PICK to \in {"loop", "sendClose"} :
        /\ to = IF entry[e][i] = "open" THEN "loop" ELSE "sendClose"
        /\ Take(e, "Confirm", to) /\ i = Taken(e).id
        /\ confirms' = [confirms EXCEPT ![e][i] = v]
        /\ UNCHANGED <<tableVars, posted, queue, endVars, wrote, got>>
  BY DEF ReaderConfirm
<1>2. "Confirm" \in Plain /\ "Write" # "Confirm" /\ "Write" \in Plain
  BY DEF Plain
<1>3. confirms \in [Ends -> [Ids -> {"none", "stored", "overflow"}]]
  BY DEF DataType
<1>4. /\ v \in {"none", "stored", "overflow"}
      /\ confirms[e][i] = "overflow" => v = "overflow"
  BY <1>3
<1> HIDE DEF v
<1>5. /\ confirms' \in [Ends -> [Ids -> {"none", "stored", "overflow"}]]
      /\ confirms'[e][i] = v
      /\ \A d \in Ends, j \in Ids :
           ~(d = e /\ j = i) => confirms'[d][j] = confirms[d][j]
  BY <1>1, <1>3, <1>4
<1>6. TableType' /\ DataType' /\ wrote' = wrote /\ got' = got
  BY <1>1, <1>5 DEF TableType, DataType, tableVars
<1>7. DataInv(i)'
  <2>1. \A d \in Ends : Cnt(d, "Write", i)' = Cnt(d, "Write", i)
    BY <1>1, <1>2, PlainTaken
  <2> QED
    BY <1>6, <2>1, PeerFacts DEF DataInv
<1>8. to = "sendClose" => chan'[e][i] # "open"
  BY <1>1 DEF EntryInv, tableVars
<1>9. Overflowed(e, i) => Overflowed(e, i)'
  BY <1>4, <1>5 DEF Overflowed
<1> QED
  BY <1>1, <1>2, <1>5, <1>6, <1>7, <1>8, <1>9, PlainHandled DEF tableVars

LEMMA ReaderOverflowStep ==
  ASSUME IndInv, NEW e \in Ends, NEW i \in Ids, ReaderOverflow(e, i) PROVE IndInv'
<1> USE DEF IndInv, RestInv, IdInv
<1>1. /\ Take(e, "Confirm", "sendClose") /\ i = Taken(e).id
      /\ entry[e][i] = "open"
      /\ confirms' = [confirms EXCEPT ![e][i] = "overflow"]
      /\ chan' = IF e = "client" THEN ClosedChan(e, i) ELSE chan
      /\ UNCHANGED <<dial, cancelled, entry, offer, posted, queue, endVars, wrote, got>>
  BY DEF ReaderOverflow
<1>2. "Confirm" \in Plain /\ "Write" # "Confirm" /\ "Write" \in Plain
      /\ "Confirm" # "Close"
  BY DEF Plain
<1>3. /\ confirms' \in [Ends -> [Ids -> {"none", "stored", "overflow"}]]
      /\ confirms'[e][i] = "overflow"
      /\ \A d \in Ends, j \in Ids :
           ~(d = e /\ j = i) => confirms'[d][j] = confirms[d][j]
  BY <1>1 DEF DataType
<1>4. /\ chan' \in [Ends -> [Ids -> {"none", "open", "closed", "deleting", "gone"}]]
      /\ \A d \in Ends, j \in Ids : ~(d = e /\ j = i) => chan'[d][j] = chan[d][j]
      /\ \/ chan'[e][i] = chan[e][i]
         \/ chan[e][i] = "open" /\ chan'[e][i] = "closed"
      /\ e = "client" => chan'[e][i] # "open"
  BY <1>1 DEF ClosedChan, TableType
<1>5. TableType' /\ DataType' /\ wrote' = wrote /\ got' = got /\ entry' = entry
  BY <1>1, <1>3, <1>4 DEF TableType, DataType
<1>6. DataInv(i)'
  <2>1. \A d \in Ends : Cnt(d, "Write", i)' = Cnt(d, "Write", i)
    BY <1>1, <1>2, PlainTaken
  <2> QED
    BY <1>5, <2>1, PeerFacts DEF DataInv
<1>7. /\ Overflowed(e, i) => Overflowed(e, i)'
      /\ chan'[e][i] # "open" \/ Overflowed(e, i)'
  BY <1>3, <1>4 DEF Overflowed, Ends
<1> QED
  BY <1>1, <1>2, <1>3, <1>4, <1>5, <1>6, <1>7, PlainHandled

-----------------------------------------------------------------------------
(* The invariant.                                                          *)

LEMMA InitIndInv == Init => IndInv
<1> SUFFICES ASSUME Init PROVE IndInv
  OBVIOUS
<1> USE DEF Init, ForBoth, ForAll
<1>1. \A e \in Ends : wire[e] = << >> /\ queue[e] = << >>
  OBVIOUS
<1>2. \A e \in Ends : \A f : N(e, f) = 0
  <2> TAKE e \in Ends
  <2>1. << >> \o << >> = << >>
    OBVIOUS
  <2> QED
    BY <1>1, <2>1, CountEmpty DEF N, Link
<1>3. NetInv
  BY <1>2 DEF NetInv, NetType, FrameInv
<1>4. RestInv
  <2>1. TableType
    BY DEF TableType
  <2>2. LoopType
    BY PeerFacts DEF LoopType
  <2>3. EndType
    BY DEF EndType
  <2>4. DataType
    BY TransportAssumption DEF DataType
  <2> QED
    BY <2>1, <2>2, <2>3, <2>4 DEF RestInv
<1>5. ASSUME NEW i \in Ids PROVE IdInv(i)
  <2>1. /\ \A e \in Ends : \A c : Cnt(e, c, i) = 0
        /\ \A k \in 0..2 : /\ Ans(i, k) = 0
                           /\ ~Posted(i, k) /\ ~Res(i, k) /\ ~Answering(i, k)
        /\ \A e \in Ends : ~SC(e, i) /\ ~Closing(e, i)
    BY <1>2, PeerFacts DEF Cnt, Ans, Posted, Res, Answering, SC, Closing
  <2>2. Tokens(i) = 0
    <3>1. Tokens(i) \in Nat
      BY <1>3, Stages DEF NetInv
    <3>2. ~(Tokens(i) > 0)
      BY <1>3, <2>1, Stages, PeerFacts DEF NetInv
    <3> QED
      BY <3>1, <3>2
  <2>3. /\ dial[i] = "none" /\ offer[i] = "none"
        /\ \A e \in Ends : /\ chan[e][i] = "none" /\ entry[e][i] = "none"
                           /\ got[e][i] = 0 /\ wrote[e][i] = 0
    OBVIOUS
  <2>4. TokenInv(i) /\ FreshInv(i) /\ AskedInv(i)
    BY <2>1, <2>2, <2>3, PeerFacts DEF TokenInv, FreshInv, AskedInv
  <2>5. RefusedInv(i) /\ EntryInv(i) /\ ResInv(i) /\ CloseInv(i)
    BY <2>1, <2>3, PeerFacts DEF RefusedInv, EntryInv, ResInv, CloseInv, Overflowed
  <2>6. PendingInv(i) /\ OrphanInv(i) /\ OwnedInv(i)
    BY <2>3, PeerFacts DEF PendingInv, OrphanInv, OwnedInv
  <2>7. DataInv(i)
    BY <2>1, <2>3, PeerFacts DEF DataInv
  <2> QED
    BY <2>4, <2>5, <2>6, <2>7 DEF IdInv
<1> QED
  BY <1>3, <1>4, <1>5 DEF IndInv

LEMMA ClientStepInv == ASSUME IndInv, ClientStep PROVE IndInv'
<1>1. ASSUME NEW i \in Ids,
             CreateStart(i) \/ CreateStep(i) \/ Cancel(i) \/ OfferStep(i)
      PROVE  IndInv'
  BY <1>1, CreateStartStep, CreateSendStep, CreateGiveUpStep, CancelStep, OfferTakenStep,
     OfferCancelledStep, OfferSendCloseStep, OfferDoneStep DEF CreateStep, OfferStep
<1> QED
  BY <1>1, TransportCloseStep DEF ClientStep

LEMMA ReaderStepInv == ASSUME IndInv, NEW e \in Ends, ReaderStep(e) PROVE IndInv'
<1>1. CASE e = "client" /\ ClientReader
  <2>1. ASSUME NEW i \in Ids,
               ClientCreateUnknown(i) \/ ClientCreateCancelled(i) \/ ClientCreate(i)
        PROVE  IndInv'
    BY <2>1, ClientCreateUnknownStep, ClientCreateCancelledStep, ClientCreateStep
  <2> QED
    BY <1>1, <2>1, ResultStep DEF ClientReader
<1>2. CASE e = "server" /\ \E i \in Ids : ServerCreate(i)
  BY <1>2, ServerCreateStep
<1>3. CASE \E i \in Ids : \/ ReaderClose(e, i) \/ ReaderWrite(e, i)
                          \/ ReaderConfirm(e, i) \/ ReaderOverflow(e, i)
  BY <1>3, ReaderCloseStep, ReaderWriteStep, ReaderConfirmStep, ReaderOverflowStep
<1>4. CASE ReaderSendClose(e) \/ ReaderExit(e)
  BY <1>4, ReaderSendCloseStep, ReaderExitStep
<1> QED
  BY <1>1, <1>2, <1>3, <1>4 DEF ReaderStep

LEMMA EndStepInv == ASSUME IndInv, NEW e \in Ends, EndStep(e) PROVE IndInv'
<1>1. ASSUME NEW i \in Ids,
             Close(e, i) \/ SendWrite(e, i) \/ SendConfirm(e, i) \/ LeaveStep(e, i)
      PROVE  IndInv'
  BY <1>1, CloseStep, SendWriteStep, SendConfirmStep, ServeDeleteStep, ServeSendCloseStep
     DEF LeaveStep
<1> QED
  BY <1>1, ReaderStepInv, WriterStepStep DEF EndStep

LEMMA IndInvStep == IndInv /\ [Next]_vars => IndInv'
<1> SUFFICES ASSUME IndInv, [Next]_vars PROVE IndInv'
  OBVIOUS
<1>1. CASE ClientStep
  BY <1>1, ClientStepInv
<1>2. CASE \E e \in Ends : EndStep(e)
  BY <1>2, EndStepInv
<1>3. CASE \E f \in posted : PostedSend(f)
  BY <1>3, PostedSendStep
<1>4. CASE ConnFail
  BY <1>4, TransportCloseStep
<1>5. CASE UNCHANGED vars
  BY <1>5, StutterStep
<1> QED
  BY <1>1, <1>2, <1>3, <1>4, <1>5 DEF Next

(* At every moment of every run the books on each channel balance.         *)
THEOREM BooksBalance == Safe => []IndInv
<1> QED
  BY InitIndInv, IndInvStep, PTL DEF Safe

(* The tables, queues and labels keep their types; no end stores more      *)
(* Write frames than its peer may send.                                    *)
LEMMA TypesFollow == IndInv => TypeOK
<1> SUFFICES ASSUME IndInv PROVE TypeOK
  OBVIOUS
<1>1. /\ TableType /\ LoopType /\ EndType /\ DataType /\ NetType
      /\ \A i \in Ids : DataInv(i)
  BY DEF IndInv, RestInv, NetInv, IdInv
<1>2. posted \in SUBSET Frame
  BY <1>1 DEF LoopType, Answers
<1>3. \A e \in Ends : /\ wrote[e] \in [Ids -> 0..MaxWrites[e]]
                      /\ got[e] \in [Ids -> 0..MaxWrites[Peer(e)]]
  <2> TAKE e \in Ends
  <2>1. Peer(e) \in Ends /\ MaxWrites[e] \in Nat /\ MaxWrites[Peer(e)] \in Nat
    BY PeerFacts, TransportAssumption
  <2>2. wrote[e] \in [Ids -> Nat] /\ got[e] \in [Ids -> Nat]
    BY <1>1 DEF DataType
  <2>3. \A i \in Ids : wrote[e][i] \in 0..MaxWrites[e]
    BY <1>1, <2>1, <2>2 DEF DataType
  <2>4. \A i \in Ids : got[e][i] \in 0..MaxWrites[Peer(e)]
    <3> TAKE i \in Ids
    <3>1. got[e][i] + Cnt(Peer(e), "Write", i) <= wrote[Peer(e)][i]
      BY <1>1 DEF DataInv
    <3>2. /\ Cnt(Peer(e), "Write", i) \in Nat /\ got[e][i] \in Nat
          /\ wrote[Peer(e)][i] \in Nat /\ wrote[Peer(e)][i] <= MaxWrites[Peer(e)]
      BY <1>1, <2>1, CntType DEF DataType
    <3> QED
      BY <2>1, <3>1, <3>2
  <2> QED
    BY <2>2, <2>3, <2>4
<1>4. \A e \in Ends : confirms[e] \in [Ids -> {"none", "stored", "overflow"}]
  BY DEF IndInv, RestInv, DataType
<1> QED
  BY <1>1, <1>2, <1>3, <1>4 DEF TypeOK, TableType, LoopType, EndType, NetType

THEOREM TransportTypes == Safe => []TypeOK
<1> QED
  BY BooksBalance, TypesFollow, PTL

(* The notions of Transport in terms of counts.                            *)
LEMMA UnderWay ==
  ASSUME IndInv, NEW i \in Ids
  PROVE  /\ AnswerUnderWay(i) <=> \E k \in 0..2 : Answering(i, k)
         /\ \A e \in Ends : CloseUnderWay(e, i) <=> Closing(e, i)
<1>1. NetType
  BY DEF IndInv, NetInv
<1>2. \A k \in 0..2 : InFlight("server", Answer(i, k)) <=> Ans(i, k) > 0
  BY <1>1, InFlightN, PeerFacts DEF Ans
<1>3. \A e \in Ends : InFlight(e, FrameOf("Close", i)) <=> Cnt(e, "Close", i) > 0
  BY <1>1, InFlightN DEF Cnt
<1>4. AnswerUnderWay(i) <=> \E k \in 0..2 : Answering(i, k)
  BY <1>2 DEF AnswerUnderWay, Answering, Posted, Res
<1>5. \A e \in Ends : CloseUnderWay(e, i) <=> Closing(e, i)
  BY <1>3 DEF CloseUnderWay, Closing, SC
<1> QED
  BY <1>4, <1>5

(* A Create is answered once, and until the client has handled the answer  *)
(* it has no channel for it, so that its loop never closes a good one.     *)
THEOREM CreateAnsweredOnce == Safe => []AnsweredOnce
<1>1. IndInv => AnsweredOnce
  <2> SUFFICES ASSUME IndInv, NEW i \in Ids, AnswerUnderWay(i)
               PROVE  chan["client"][i] = "none" /\ entry["client"][i] \in {"none", "pending"}
    BY DEF AnsweredOnce
  <2>1. Fresh(i)
    BY UnderWay, Stages DEF Fresh, IndInv, NetInv
  <2> QED
    BY <2>1 DEF IndInv, IdInv, FreshInv
<1> QED
  BY <1>1, BooksBalance, PTL

(* No open channel of the client is without somebody who can close it,     *)
(* whenever the context of its Create ends.                                *)
THEOREM ChannelsAreOwned == Safe => []Owned
<1>1. IndInv => Owned
  BY DEF IndInv, IdInv, OwnedInv, Owned
<1> QED
  BY <1>1, BooksBalance, PTL

(* While the connection is up neither end has an open channel that the     *)
(* other has forgotten without a word, but for the server's end of one for *)
(* which the server has reported an overflow (server_transport.go:181-184).*)
THEOREM NoChannelForgotten == Safe => []NoOrphan
<1>1. IndInv => NoOrphan
  <2> SUFFICES ASSUME IndInv, conn = "up", NEW i \in Ids
               PROVE  /\ chan["server"][i] = "open" =>
                           \/ entry["client"][i] = "open"
                           \/ AnswerUnderWay(i) \/ CloseUnderWay("client", i)
                           \/ confirms["server"][i] = "overflow"
                      /\ chan["client"][i] = "open" =>
                           entry["server"][i] = "open" \/ CloseUnderWay("server", i)
    BY DEF NoOrphan
  <2> QED
    BY UnderWay, PeerFacts DEF IndInv, IdInv, OrphanInv, Overflowed
<1> QED
  BY <1>1, BooksBalance, PTL

-----------------------------------------------------------------------------
(* Who answers a Create that waits.  The invariant here stands on IndInv,  *)
(* and looks at frames in flight without counting them.                    *)

Flies(e, c, i) == InFlight(e, FrameOf(c, i))

(* While an entry is pending the client has had no channel for it and has  *)
(* confirmed nothing; a Close of the server can only be that of a channel  *)
(* which has ended.                                                        *)
PendingQuiet(i) ==
  entry["client"][i] = "pending" =>
    /\ chan["client"][i] = "none"
    /\ ~Flies("client", "Confirm", i)
    /\ ~SC("server", i)
    /\ Flies("server", "Close", i) => chan["server"][i] = "gone"

Expecting(i) == dial[i] = "waiting" /\ i \notin cancelled /\ ~done["client"]
Known(i) ==
  entry["client"][i] = "pending" \/ offer[i] # "none" \/ chan["server"][i] = "gone"

WaitId(i) ==
  /\ PendingQuiet(i)
  /\ dial[i] = "sending" => entry["client"][i] = "pending"
  /\ offer[i] = "sendClose" => i \in cancelled
  /\ Expecting(i) => Known(i)

WaitInv == IndInv /\ \A i \in Ids : WaitId(i)

(* What every step does to channel i: on the network,                      *)
WaitNet(i) ==
  /\ Flies("client", "Confirm", i)' =>
       Flies("client", "Confirm", i) \/ chan["client"][i] # "none"
  /\ SC("server", i)' => SC("server", i) \/ Flies("client", "Confirm", i)
  /\ Flies("server", "Close", i)' =>
       Flies("server", "Close", i) \/ SC("server", i) \/ chan'["server"][i] = "gone"

(* to an entry: it becomes pending only at the start, and stops being so   *)
(* for a Close or an answer, of which somebody hears;                      *)
Heard(i) ==
  i \in cancelled \/ done["client"] \/ offer'[i] # "none" \/ dial'[i] # "waiting"
WaitEntry(i) ==
  /\ entry'["client"][i] = "pending" =>
       /\ entry["client"][i] = "pending" \/ dial[i] = "none"
       /\ chan'["client"][i] = chan["client"][i]
  /\ entry["client"][i] = "pending" /\ entry'["client"][i] # "pending" =>
       Flies("server", "Close", i) \/ (AnswerUnderWay(i) /\ Heard(i))
  /\ chan["server"][i] = "gone" => chan'["server"][i] = "gone"

(* and to the call of Create and its result.                               *)
WaitDial(i) ==
  /\ dial'[i] = "sending" => dial[i] = "sending" \/ entry'["client"][i] = "pending"
  /\ dial'[i] = "waiting" =>
       \/ dial[i] = "waiting"
       \/ dial[i] = "sending" /\ entry'["client"][i] = entry["client"][i]
  /\ offer[i] # "none" /\ offer'[i] = "none" => offer[i] = "sendClose" \/ Heard(i)
  /\ offer'[i] = "sendClose" => offer[i] = "sendClose" \/ i \in cancelled
  /\ cancelled \subseteq cancelled'
  /\ done["client"] => done'["client"]

LEMMA WaitKept ==
  ASSUME NEW i \in Ids, IndInv, WaitId(i), WaitNet(i), WaitEntry(i), WaitDial(i)
  PROVE  WaitId(i)'
<1>1. Unsent(i) => /\ chan["client"][i] = "none"
                   /\ ~Flies("client", "Confirm", i)
                   /\ ~SC("server", i)
                   /\ ~Flies("server", "Close", i)
                   /\ ~AnswerUnderWay(i)
  <2> SUFFICES ASSUME Unsent(i)
               PROVE  /\ chan["client"][i] = "none"
                      /\ ~Flies("client", "Confirm", i)
                      /\ ~SC("server", i)
                      /\ ~Flies("server", "Close", i)
                      /\ ~AnswerUnderWay(i)
    OBVIOUS
  <2>1. NetType /\ TokenInv(i) /\ FreshInv(i) /\ AskedInv(i)
    BY DEF IndInv, NetInv, IdInv
  <2>2. Cnt("client", "Confirm", i) = 0 /\ chan["client"][i] = "none"
    BY <2>1 DEF FreshInv, Fresh, Plain
  <2>3. ~SC("server", i) /\ Cnt("server", "Close", i) = 0
    BY <2>1 DEF AskedInv, Asked
  <2>4. ~Flies("client", "Confirm", i) /\ ~Flies("server", "Close", i)
    BY <2>1, <2>2, <2>3, InFlightN, PeerFacts DEF Flies, Cnt
  <2>5. ~AnswerUnderWay(i)
    <3>1. Tokens(i) = 0
      BY <2>1 DEF TokenInv
    <3>2. \A k \in 0..2 : ~Answering(i, k)
      BY <2>1, <3>1, Stages
    <3> QED
      BY <3>2, UnderWay
  <2> QED
    BY <2>2, <2>3, <2>4, <2>5
<1>2. PendingQuiet(i)'
  <2> SUFFICES ASSUME entry'["client"][i] = "pending"
               PROVE  /\ chan'["client"][i] = "none"
                      /\ ~Flies("client", "Confirm", i)'
                      /\ ~SC("server", i)'
                      /\ Flies("server", "Close", i)' => chan'["server"][i] = "gone"
    BY DEF PendingQuiet
  <2>1. /\ chan["client"][i] = "none"
        /\ ~Flies("client", "Confirm", i)
        /\ ~SC("server", i)
        /\ Flies("server", "Close", i) => chan["server"][i] = "gone"
    BY <1>1 DEF WaitEntry, WaitId, PendingQuiet, Unsent
  <2> QED
    BY <2>1 DEF WaitNet, WaitEntry
<1>3. (dial[i] = "sending" => entry["client"][i] = "pending")'
  BY <1>1 DEF WaitId, WaitDial, WaitEntry, Unsent
<1>4. (offer[i] = "sendClose" => i \in cancelled)'
  BY DEF WaitId, WaitDial
<1>5. (Expecting(i) => Known(i))'
  <2> SUFFICES ASSUME dial'[i] = "waiting", i \notin cancelled', ~done'["client"]
               PROVE  \/ entry'["client"][i] = "pending" \/ offer'[i] # "none"
                      \/ chan'["server"][i] = "gone"
    BY DEF Expecting, Known
  <2>1. i \notin cancelled /\ ~done["client"]
    BY DEF WaitDial
  <2>2. CASE dial[i] = "sending"
    BY <1>1, <2>2 DEF WaitId, WaitDial, WaitEntry, Unsent
  <2>3. CASE dial[i] = "waiting"
    <3>1. Known(i)
      BY <2>1, <2>3 DEF WaitId, Expecting
    <3>2. CASE entry["client"][i] = "pending"
      BY <2>1, <3>2 DEF WaitId, PendingQuiet, WaitEntry, Heard
    <3>3. CASE offer[i] # "none"
      BY <2>1, <3>3 DEF WaitId, WaitDial, Heard
    <3>4. CASE chan["server"][i] = "gone"
      BY <3>4 DEF WaitEntry
    <3> QED
      BY <3>1, <3>2, <3>3, <3>4 DEF Known
  <2> QED
    BY <2>2, <2>3 DEF WaitDial
<1> QED
  BY <1>2, <1>3, <1>4, <1>5 DEF WaitId

-----------------------------------------------------------------------------
(* The frames in flight after a step: those before it, and what was sent.  *)

LEMMA Flights ==
  ASSUME NetType, NEW d \in Ends, NEW g \in Frame, NEW p \in Ends,
         queue' = queue \/ queue' = [queue EXCEPT ![d] = Append(queue[d], g)],
         wire' = wire \/ (wire[p] # << >> /\ wire' = [wire EXCEPT ![p] = Tail(wire[p])])
  PROVE  \A e \in Ends : \A f : InFlight(e, f)' => InFlight(e, f) \/ (e = d /\ f = g)
<1>1. \A s \in Seq(Frame) : \A f : IsIn(f, Append(s, g)) => IsIn(f, s) \/ f = g
  <2> SUFFICES ASSUME NEW s \in Seq(Frame), NEW f, NEW k \in DOMAIN Append(s, g),
                      Append(s, g)[k] = f, f # g
               PROVE  \E j \in DOMAIN s : s[j] = f
    BY DEF IsIn
  <2> QED
    OBVIOUS
<1>2. \A s \in Seq(Frame) : \A f : s # << >> => (IsIn(f, Tail(s)) => IsIn(f, s))
  <2> SUFFICES ASSUME NEW s \in Seq(Frame), s # << >>, NEW f,
                      NEW k \in DOMAIN Tail(s), Tail(s)[k] = f
               PROVE  \E j \in DOMAIN s : s[j] = f
    BY DEF IsIn
  <2>1. k \in 1..(Len(s) - 1) /\ Tail(s)[k] = s[k + 1] /\ Len(s) \in Nat
    OBVIOUS
  <2>2. k + 1 \in DOMAIN s
    BY <2>1
  <2> QED
    BY <2>1, <2>2
<1>3. \A e \in Ends : queue[e] \in Seq(Frame) /\ wire[e] \in Seq(Frame)
  BY DEF NetType
<1>4. \A e \in Ends : \A f : IsIn(f, queue'[e]) => IsIn(f, queue[e]) \/ (e = d /\ f = g)
  BY <1>1, <1>3 DEF NetType
<1>5. \A e \in Ends : \A f : IsIn(f, wire'[e]) => IsIn(f, wire[e])
  BY <1>2, <1>3 DEF NetType
<1>6. \A e, f : /\ InFlight(e, f) <=> IsIn(f, queue[e]) \/ IsIn(f, wire[e])
                /\ InFlight(e, f)' <=> IsIn(f, queue'[e]) \/ IsIn(f, wire'[e])
  BY DEF InFlight, IsIn
<1> QED
  BY <1>4, <1>5, <1>6

LEMMA FlightsEnqueue ==
  ASSUME NetType, NEW d \in Ends, NEW g \in Frame,
         Enqueue(d, g) \/ UNCHANGED queue, UNCHANGED wire
  PROVE  \A e \in Ends : \A f : InFlight(e, f)' => InFlight(e, f) \/ (e = d /\ f = g)
<1>1. queue' = queue \/ queue' = [queue EXCEPT ![d] = Append(queue[d], g)]
  BY DEF Enqueue
<1> QED
  BY <1>1, Flights

LEMMA FlightsTake ==
  ASSUME NetType, NEW e \in Ends, NEW cmd, NEW to, Take(e, cmd, to), UNCHANGED queue
  PROVE  \A d \in Ends : \A f : InFlight(d, f)' => InFlight(d, f)
<1>1. Peer(e) \in Ends /\ wire[Peer(e)] # << >> /\ wire[Peer(e)] \in Seq(Frame)
  BY PeerFacts DEF Take, NetType
<1>2. wire' = [wire EXCEPT ![Peer(e)] = Tail(wire[Peer(e)])]
  BY DEF Take
<1>3. Taken(e) \in Frame /\ InFlight(Peer(e), Taken(e))
  <2>1. 1 \in DOMAIN wire[Peer(e)] /\ wire[Peer(e)][1] = Taken(e)
    BY <1>1 DEF Taken
  <2> QED
    BY <1>1, <2>1 DEF InFlight, Taken
<1>4. \A d \in Ends : \A f :
        InFlight(d, f)' => InFlight(d, f) \/ (d = Peer(e) /\ f = Taken(e))
  BY <1>1, <1>2, <1>3, Flights
<1> QED
  BY <1>3, <1>4

-----------------------------------------------------------------------------
(* What a step does to every channel.                                      *)

WaitStep == \A j \in Ids : WaitNet(j) /\ WaitEntry(j) /\ WaitDial(j)

(* No frame sent.                                                          *)
LEMMA SilentNet ==
  ASSUME NEW j \in Ids, \A e \in Ends : \A f : InFlight(e, f)' => InFlight(e, f),
         SC("server", j)' => SC("server", j)
  PROVE  WaitNet(j)
BY PeerFacts DEF WaitNet, Flies

LEMMA StillNet ==
  ASSUME NEW j \in Ids, UNCHANGED <<queue, wire>>, SC("server", j)' => SC("server", j)
  PROVE  WaitNet(j)
BY DEF WaitNet, Flies, InFlight

(* A frame sent that is neither a Close of the server nor a Confirm of the *)
(* client.                                                                 *)
LEMMA OtherNet ==
  ASSUME NEW j \in Ids, NEW d, NEW g,
         \A e \in Ends : \A f : InFlight(e, f)' => InFlight(e, f) \/ (e = d /\ f = g),
         d = "client" => g # FrameOf("Confirm", j),
         d = "server" => g # FrameOf("Close", j),
         SC("server", j)' => SC("server", j)
  PROVE  WaitNet(j)
BY PeerFacts DEF WaitNet, Flies

LEMMA SameTables ==
  ASSUME NEW j \in Ids, UNCHANGED tableVars, done["client"] => done'["client"]
  PROVE  WaitEntry(j) /\ WaitDial(j)
BY DEF WaitEntry, WaitDial, tableVars

LEMMA LocalSteps ==
  ASSUME WaitInv,
         \/ \E i \in Ids : \/ CreateStart(i) \/ CreateGiveUp(i) \/ Cancel(i)
                           \/ OfferTaken(i) \/ OfferCancelled(i) \/ OfferDone(i)
         \/ \E e \in Ends, i \in Ids : Close(e, i) \/ ServeDelete(e, i)
  PROVE  WaitStep
<1> SUFFICES ASSUME NEW j \in Ids PROVE WaitNet(j) /\ WaitEntry(j) /\ WaitDial(j)
  BY DEF WaitStep
<1>0. TableType
  BY DEF WaitInv, IndInv, RestInv
<1>1. UNCHANGED <<queue, wire, at, cur, done>>
  BY DEF CreateStart, CreateGiveUp, Cancel, OfferTaken, OfferCancelled, OfferDone, Close,
         ServeDelete, netVars, loopVars, endVars
<1>2. WaitNet(j)
  BY <1>1, StillNet DEF SC
<1>3. ASSUME NEW i \in Ids, CreateStart(i) PROVE WaitEntry(j) /\ WaitDial(j)
  BY <1>0, <1>1, <1>3, PeerFacts DEF CreateStart, SetEntry, TableType, WaitEntry, WaitDial
<1>4. ASSUME NEW i \in Ids, CreateGiveUp(i) PROVE WaitEntry(j) /\ WaitDial(j)
  BY <1>0, <1>1, <1>4 DEF CreateGiveUp, TableType, WaitEntry, WaitDial
<1>5. ASSUME NEW i \in Ids, Cancel(i) PROVE WaitEntry(j) /\ WaitDial(j)
  BY <1>0, <1>1, <1>5 DEF Cancel, TableType, WaitEntry, WaitDial
<1>6. ASSUME NEW i \in Ids, OfferTaken(i) PROVE WaitEntry(j) /\ WaitDial(j)
  BY <1>0, <1>1, <1>6 DEF OfferTaken, TableType, WaitEntry, WaitDial, Heard
<1>7. ASSUME NEW i \in Ids, OfferDone(i) PROVE WaitEntry(j) /\ WaitDial(j)
  BY <1>0, <1>1, <1>7 DEF OfferDone, TableType, WaitEntry, WaitDial, Heard
<1>8. ASSUME NEW i \in Ids, OfferCancelled(i) PROVE WaitEntry(j) /\ WaitDial(j)
  <2>1. UNCHANGED <<dial, cancelled, entry, done>>
    BY <1>1, <1>8 DEF OfferCancelled
  <2>2. chan'["server"][j] = chan["server"][j]
    BY <1>0, <1>8, PeerFacts DEF OfferCancelled, ClosedChan, TableType
  <2>3. i = j \/ (offer'[j] = offer[j] /\ chan'["client"][j] = chan["client"][j])
    BY <1>0, <1>8, PeerFacts DEF OfferCancelled, ClosedChan, TableType
  <2>4. entry["client"][j] = "pending" => chan'["client"][j] = chan["client"][j]
    <3>1. entry["client"][j] = "pending" => chan["client"][j] = "none"
      BY DEF WaitInv, WaitId, PendingQuiet
    <3> QED
      BY <1>0, <1>8, <3>1, PeerFacts DEF OfferCancelled, ClosedChan, TableType
  <2>5. WaitEntry(j)
    BY <2>1, <2>2, <2>4 DEF WaitEntry
  <2> QED
    BY <1>8, <2>1, <2>3, <2>5 DEF WaitDial, Heard, OfferCancelled
<1>9. ASSUME NEW e \in Ends, NEW i \in Ids, Close(e, i) \/ ServeDelete(e, i)
      PROVE  WaitEntry(j) /\ WaitDial(j)
  <2>1. UNCHANGED <<dial, cancelled, offer, done>>
    BY <1>1, <1>9 DEF Close, ServeDelete
  <2>2. /\ entry'["client"][j] = "pending" => entry["client"][j] = "pending"
        /\ entry["client"][j] = "pending" => entry'["client"][j] = "pending"
        /\ chan["server"][j] = "gone" => chan'["server"][j] = "gone"
    BY <1>0, <1>9, PeerFacts DEF Close, ClosedChan, ServeDelete, SetEntry, TableType
  <2>3. entry["client"][j] = "pending" => chan'["client"][j] = chan["client"][j]
    <3>1. entry["client"][j] = "pending" => chan["client"][j] = "none"
      BY DEF WaitInv, WaitId, PendingQuiet
    <3> QED
      BY <1>0, <1>9, <3>1, PeerFacts DEF Close, ClosedChan, ServeDelete, SetEntry, TableType
  <2> QED
    BY <2>1, <2>2, <2>3 DEF WaitEntry, WaitDial
<1> QED
  BY <1>2, <1>3, <1>4, <1>5, <1>6, <1>7, <1>8, <1>9
LEMMA EndSteps ==
  ASSUME WaitInv,
         \/ \E e \in Ends : ReaderExit(e) \/ WriterExit(e)
         \/ TransportClose \/ ConnFail \/ UNCHANGED vars
  PROVE  WaitStep
<1> SUFFICES ASSUME NEW j \in Ids PROVE WaitNet(j) /\ WaitEntry(j) /\ WaitDial(j)
  BY DEF WaitStep
<1>0. TableType /\ LoopType /\ EndType
  BY DEF WaitInv, IndInv, RestInv
<1>1. /\ UNCHANGED <<queue, wire, cur, dial, cancelled, entry, offer>>
      /\ done["client"] => done'["client"]
  BY <1>0, PeerFacts DEF ReaderExit, WriterExit, TransportClose, ConnFail, EndType,
     netVars, loopVars, tableVars, endVars, vars
<1>2. SC("server", j)' => SC("server", j)
  BY <1>0, <1>1, PeerFacts DEF SC, ReaderExit, WriterExit, TransportClose, ConnFail, LoopType,
     loopVars, vars
<1>3. WaitNet(j)
  BY <1>1, <1>2, StillNet
<1>4. /\ chan["server"][j] = "gone" => chan'["server"][j] = "gone"
      /\ entry["client"][j] = "pending" => chan'["client"][j] = chan["client"][j]
  <2>1. CASE UNCHANGED chan
    BY <2>1
  <2>2. ASSUME NEW e \in Ends, ReaderExit(e)
        PROVE  \A d \in Ends : chan[d][j] # "open" => chan'[d][j] = chan[d][j]
    BY <1>0, <2>2 DEF ReaderExit, TableType
  <2>3. entry["client"][j] = "pending" => chan["client"][j] = "none"
    BY DEF WaitInv, WaitId, PendingQuiet
  <2> QED
    BY <2>1, <2>2, <2>3, PeerFacts DEF WriterExit, TransportClose, ConnFail, tableVars, vars
<1>5. WaitEntry(j)
  BY <1>1, <1>4 DEF WaitEntry
<1>6. WaitDial(j)
  BY <1>1 DEF WaitDial
<1> QED
  BY <1>3, <1>5, <1>6

LEMMA SendSteps ==
  ASSUME WaitInv,
         \/ \E i \in Ids : CreateSend(i) \/ OfferSendClose(i)
         \/ \E e \in Ends, i \in Ids : SendWrite(e, i)
         \/ \E f \in posted : PostedSend(f)
         \/ ReaderSendClose("client") \/ \E i \in Ids : ServeSendClose("client", i)
  PROVE  WaitStep
<1> SUFFICES ASSUME NEW j \in Ids PROVE WaitNet(j) /\ WaitEntry(j) /\ WaitDial(j)
  BY DEF WaitStep
<1>0. TableType /\ LoopType /\ NetType
  BY DEF WaitInv, IndInv, RestInv, NetInv
<1>1. UNCHANGED <<wire, done, cancelled, entry>>
  BY DEF CreateSend, OfferSendClose, SendWrite, PostedSend, ReaderSendClose, ServeSendClose,
     endVars, tableVars
<1>2. \E d \in Ends, g \in Frame :
        /\ Enqueue(d, g) \/ UNCHANGED queue
        /\ g.cmd \in {"Create", "Write"} \/ (d = "client" /\ g.cmd = "Close")
  <2>1. \A c \in {"Create", "Write", "Close"}, i \in Ids :
          FrameOf(c, i) \in Frame /\ FrameOf(c, i).cmd = c
    BY DEF Frame, FrameOf
  <2>2. ASSUME NEW i \in Ids, CreateSend(i) \/ OfferSendClose(i)
        PROVE  Enqueue("client", FrameOf("Create", i))
               \/ Enqueue("client", FrameOf("Close", i)) \/ UNCHANGED queue
    BY <2>2 DEF CreateSend, OfferSendClose, SendClose
  <2>3. ASSUME NEW e \in Ends, NEW i \in Ids, SendWrite(e, i)
        PROVE  Enqueue(e, FrameOf("Write", i))
    BY <2>3 DEF SendWrite
  <2>4. ASSUME NEW f \in posted, PostedSend(f)
        PROVE  /\ Enqueue("server", f) \/ UNCHANGED queue
               /\ f \in Frame /\ f.cmd = "Create"
    BY <1>0, <2>4 DEF PostedSend, LoopType, Answers
  <2>5. ASSUME ReaderSendClose("client")
        PROVE  /\ cur["client"].id \in Ids
               /\ Enqueue("client", FrameOf("Close", cur["client"].id)) \/ UNCHANGED queue
    <3>1. cur["client"] \in Frame
      BY <1>0, <2>5, PeerFacts DEF ReaderSendClose, LoopType
    <3> QED
      BY <2>5, <3>1 DEF ReaderSendClose, SendClose, Frame
  <2>6. ASSUME NEW i \in Ids, ServeSendClose("client", i)
        PROVE  Enqueue("client", FrameOf("Close", i)) \/ UNCHANGED queue
    BY <2>6 DEF ServeSendClose, SendClose
  <2> QED
    BY <2>1, <2>2, <2>3, <2>4, <2>5, <2>6, PeerFacts
<1>3. WaitNet(j)
  <2>1. PICK d \in Ends, g \in Frame :
          /\ Enqueue(d, g) \/ UNCHANGED queue
          /\ g.cmd \in {"Create", "Write"} \/ (d = "client" /\ g.cmd = "Close")
    BY <1>2
  <2>2. \A e \in Ends : \A f : InFlight(e, f)' => InFlight(e, f) \/ (e = d /\ f = g)
    BY <1>0, <1>1, <2>1, FlightsEnqueue
  <2>3. (d = "client" => g # FrameOf("Confirm", j)) /\ (d = "server" => g # FrameOf("Close", j))
    BY <2>1 DEF FrameOf
  <2>4. SC("server", j)' => SC("server", j)
    BY <1>0, PeerFacts DEF SC, LoopType, CreateSend, OfferSendClose, SendWrite, PostedSend,
       ReaderSendClose, ServeSendClose, BackToLoop, loopVars
  <2> QED
    BY <2>2, <2>3, <2>4, OtherNet
<1>4. WaitEntry(j)
  <2>1. UNCHANGED chan \/ \E i \in Ids : ServeSendClose("client", i)
    BY DEF CreateSend, OfferSendClose, SendWrite, PostedSend, ReaderSendClose, tableVars
  <2>2. entry["client"][j] = "pending" => chan["client"][j] = "none"
    BY DEF WaitInv, WaitId, PendingQuiet
  <2>3. chan'["server"][j] = chan["server"][j]
    BY <1>0, <2>1, PeerFacts DEF ServeSendClose, TableType
  <2>4. entry["client"][j] = "pending" => chan'["client"][j] = chan["client"][j]
    BY <1>0, <2>1, <2>2, PeerFacts DEF ServeSendClose, TableType
  <2> QED
    BY <1>1, <2>3, <2>4 DEF WaitEntry
<1>5. WaitDial(j)
  <2>1. CASE UNCHANGED <<dial, offer>>
    BY <1>1, <2>1 DEF WaitDial
  <2>2. ASSUME NEW i \in Ids, CreateSend(i) PROVE WaitDial(j)
    BY <1>0, <1>1, <2>2 DEF CreateSend, TableType, WaitDial
  <2>3. ASSUME NEW i \in Ids, OfferSendClose(i) PROVE WaitDial(j)
    BY <1>0, <1>1, <2>3 DEF OfferSendClose, TableType, WaitDial
  <2> QED
    BY <2>1, <2>2, <2>3 DEF SendWrite, PostedSend, ReaderSendClose, ServeSendClose, tableVars
<1> QED
  BY <1>3, <1>4, <1>5

(* The Confirm of a client that has the channel, and the Close frames of   *)
(* the server: when a channel has ended, or in answer to a Confirm.        *)
LEMMA ConfirmStep ==
  ASSUME WaitInv, \E e \in Ends, i \in Ids : SendConfirm(e, i)
  PROVE  WaitStep
<1> SUFFICES ASSUME NEW j \in Ids PROVE WaitNet(j) /\ WaitEntry(j) /\ WaitDial(j)
  BY DEF WaitStep
<1>0. NetType
  BY DEF WaitInv, IndInv, NetInv
<1>1. PICK e \in Ends, i \in Ids : SendConfirm(e, i)
  OBVIOUS
<1>2. UNCHANGED <<tableVars, done, wire, at, cur>> /\ Enqueue(e, FrameOf("Confirm", i))
  BY <1>1 DEF SendConfirm, loopVars, endVars
<1>3. FrameOf("Confirm", i) \in Frame
  BY DEF Frame, FrameOf
<1>4. \A d \in Ends : \A f :
        InFlight(d, f)' => InFlight(d, f) \/ (d = e /\ f = FrameOf("Confirm", i))
  BY <1>0, <1>2, <1>3, FlightsEnqueue
<1>5. e = "client" => chan["client"][i] # "none"
  BY <1>1 DEF SendConfirm
<1>6. FrameOf("Close", j) # FrameOf("Confirm", i)
      /\ (FrameOf("Confirm", j) = FrameOf("Confirm", i) => i = j)
  BY DEF FrameOf
<1>7. WaitNet(j)
  BY <1>2, <1>4, <1>5, <1>6, PeerFacts DEF WaitNet, Flies, SC
<1> QED
  BY <1>2, <1>7, SameTables

LEMMA ServerCloseSteps ==
  ASSUME WaitInv,
         ReaderSendClose("server") \/ \E i \in Ids : ServeSendClose("server", i)
  PROVE  WaitStep
<1> SUFFICES ASSUME NEW j \in Ids PROVE WaitNet(j) /\ WaitEntry(j) /\ WaitDial(j)
  BY DEF WaitStep
<1>0. NetType /\ LoopType /\ TableType
  BY DEF WaitInv, IndInv, NetInv, RestInv
<1>1. UNCHANGED <<dial, cancelled, entry, offer, done, wire>>
  BY DEF ReaderSendClose, ServeSendClose, tableVars, endVars
<1>2. \E i \in Ids :
        /\ Enqueue("server", FrameOf("Close", i)) \/ UNCHANGED queue
        /\ SC("server", i) \/ chan'["server"][i] = "gone"
  <2>1. CASE ReaderSendClose("server")
    <3>1. cur["server"] \in Frame
      BY <1>0, <2>1, PeerFacts DEF ReaderSendClose, LoopType
    <3> QED
      BY <2>1, <3>1 DEF ReaderSendClose, SendClose, Frame, SC
  <2>2. CASE \E i \in Ids : ServeSendClose("server", i)
    BY <1>0, <2>2, PeerFacts DEF ServeSendClose, SendClose, TableType
  <2> QED
    BY <2>1, <2>2
<1>3. PICK i \in Ids : /\ Enqueue("server", FrameOf("Close", i)) \/ UNCHANGED queue
                       /\ SC("server", i) \/ chan'["server"][i] = "gone"
  BY <1>2
<1>4. FrameOf("Close", i) \in Frame
  BY DEF Frame, FrameOf
<1>5. \A d \in Ends : \A f :
        InFlight(d, f)' => InFlight(d, f) \/ (d = "server" /\ f = FrameOf("Close", i))
  BY <1>0, <1>1, <1>3, <1>4, FlightsEnqueue, PeerFacts
<1>6. SC("server", j)' => SC("server", j)
  BY <1>0, PeerFacts DEF SC, LoopType, ReaderSendClose, ServeSendClose, BackToLoop, loopVars
<1>7. FrameOf("Close", j) = FrameOf("Close", i) => i = j
  BY DEF FrameOf
<1>8. WaitNet(j)
  BY <1>3, <1>5, <1>6, <1>7, PeerFacts DEF WaitNet, Flies
<1>9. WaitEntry(j)
  <2>1. /\ chan'["client"][j] = chan["client"][j]
        /\ chan["server"][j] = "gone" => chan'["server"][j] = "gone"
    BY <1>0, PeerFacts DEF ReaderSendClose, ServeSendClose, TableType, tableVars
  <2> QED
    BY <1>1, <2>1 DEF WaitEntry
<1>10. WaitDial(j)
  BY <1>1 DEF WaitDial
<1> QED
  BY <1>8, <1>9, <1>10
LEMMA ServeWriteSteps ==
  ASSUME WaitInv, \E e \in Ends : ServeWrite(e)
  PROVE  WaitStep
<1> SUFFICES ASSUME NEW j \in Ids PROVE WaitNet(j) /\ WaitEntry(j) /\ WaitDial(j)
  BY DEF WaitStep
<1>0. NetType
  BY DEF WaitInv, IndInv, NetInv
<1>1. PICK e \in Ends : ServeWrite(e)
  OBVIOUS
<1>2. /\ wire' = [wire EXCEPT ![e] = Append(wire[e], Head(queue[e]))]
      /\ queue' = [queue EXCEPT ![e] = Tail(queue[e])]
      /\ queue[e] # << >> /\ queue[e] \in Seq(Frame) /\ wire[e] \in Seq(Frame)
  BY <1>0, <1>1 DEF ServeWrite, NetType
<1>3. \A f : /\ IsIn(f, Append(wire[e], Head(queue[e]))) =>
                  IsIn(f, wire[e]) \/ IsIn(f, queue[e])
             /\ IsIn(f, Tail(queue[e])) => IsIn(f, queue[e])
  <2> TAKE f
  <2> DEFINE w == wire[e]
             q == queue[e]
  <2> HIDE DEF w, q
  <2>1. w \in Seq(Frame) /\ q \in Seq(Frame) /\ q # << >>
    BY <1>2 DEF w, q
  <2>2. Len(q) \in Nat \ {0} /\ Head(q) = q[1] /\ 1 \in DOMAIN q /\ Head(q) \in Frame
    BY <2>1
  <2>3. ASSUME NEW k \in DOMAIN Append(w, Head(q)), Append(w, Head(q))[k] = f, Head(q) # f
        PROVE  \E n \in DOMAIN w : w[n] = f
    BY <2>1, <2>2, <2>3
  <2>4. ASSUME NEW k \in DOMAIN Tail(q), Tail(q)[k] = f
        PROVE  \E n \in DOMAIN q : q[n] = f
    <3>1. k \in 1..(Len(q) - 1) /\ Tail(q)[k] = q[k + 1] /\ Len(q) \in Nat
      BY <2>1, <2>4
    <3>2. k + 1 \in DOMAIN q
      BY <2>1, <3>1
    <3> QED
      BY <2>4, <3>1, <3>2
  <2>5. IsIn(f, Append(w, Head(q))) => IsIn(f, w) \/ IsIn(f, q)
    BY <2>2, <2>3 DEF IsIn
  <2>6. IsIn(f, Tail(q)) => IsIn(f, q)
    BY <2>4 DEF IsIn
  <2> QED
    BY <2>5, <2>6 DEF w, q
<1>4. \A d, f : /\ InFlight(d, f) <=> IsIn(f, queue[d]) \/ IsIn(f, wire[d])
                /\ InFlight(d, f)' <=> IsIn(f, queue'[d]) \/ IsIn(f, wire'[d])
  BY DEF InFlight, IsIn
<1>5. \A d \in Ends : \A f : InFlight(d, f)' => InFlight(d, f)
  BY <1>0, <1>2, <1>3, <1>4 DEF NetType
<1>6. WaitNet(j)
  BY <1>1, <1>5, SilentNet DEF ServeWrite, loopVars, SC
<1> QED
  BY <1>1, <1>6, SameTables DEF ServeWrite, endVars

-----------------------------------------------------------------------------
(* The loops take a frame.                                                 *)

(* The server's loop ends with sendClose only after a Confirm.             *)
LEMMA TakeNet ==
  ASSUME WaitInv, NEW e \in Ends, NEW cmd, NEW to, Take(e, cmd, to), UNCHANGED queue,
         e = "client" \/ to = "loop" \/ cmd = "Confirm", NEW j \in Ids
  PROVE  WaitNet(j)
<1>0. NetType /\ LoopType
  BY DEF WaitInv, IndInv, NetInv, RestInv
<1>1. \A d \in Ends : \A f : InFlight(d, f)' => InFlight(d, f)
  BY <1>0, FlightsTake
<1>2. SC("server", j)' => SC("server", j) \/ Flies("client", "Confirm", j)
  <2>1. CASE e = "client"
    BY <1>0, <2>1, PeerFacts DEF Take, SC, LoopType
  <2>2. CASE e = "server" /\ to = "loop"
    BY <1>0, <2>2, PeerFacts DEF Take, SC, LoopType
  <2>3. CASE e = "server" /\ cmd = "Confirm"
    <3>1. SC("server", j)' => Taken("server").id = j
      BY <1>0, <2>3, PeerFacts DEF Take, Taken, SC, LoopType
    <3>2. InFlight("client", Taken("server"))
      <4>1. wire["client"] # << >> /\ wire["client"] \in Seq(Frame)
        BY <1>0, <2>3, PeerFacts DEF Take, NetType
      <4>2. 1 \in DOMAIN wire["client"] /\ wire["client"][1] = Taken("server")
        BY <4>1, PeerFacts DEF Taken
      <4> QED
        BY <4>2 DEF InFlight
    <3>3. Taken("server").id = j => Taken("server") = FrameOf("Confirm", j)
      <4>1. /\ Taken("server") \in Frame /\ Taken("server").cmd = "Confirm"
            /\ N("client", Taken("server")) > 0
        BY <1>0, <2>3, TakeN, PeerFacts
      <4>2. Taken("server").code = 0
        BY <4>1, PeerFacts DEF WaitInv, IndInv, NetInv, FrameInv
      <4> QED
        BY <4>1, <4>2 DEF Frame, FrameOf
    <3> QED
      BY <3>1, <3>2, <3>3 DEF Flies
  <2> QED
    BY <2>1, <2>2, <2>3 DEF Ends
<1> QED
  BY <1>1, <1>2, PeerFacts DEF WaitNet, Flies
LEMMA ClientTakes ==
  ASSUME WaitInv,
         \E i \in Ids : ClientCreateUnknown(i) \/ ClientCreateCancelled(i) \/ ClientCreate(i)
  PROVE  WaitStep
<1> SUFFICES ASSUME NEW j \in Ids PROVE WaitNet(j) /\ WaitEntry(j) /\ WaitDial(j)
  BY DEF WaitStep
<1>0. TableType /\ NetType
  BY DEF WaitInv, IndInv, RestInv, NetInv
<1>1. PICK i \in Ids :
        ClientCreateUnknown(i) \/ ClientCreateCancelled(i) \/ ClientCreate(i)
  OBVIOUS
<1>2. UNCHANGED <<dial, cancelled, offer, done, queue>>
  BY <1>1 DEF ClientCreateUnknown, ClientCreateCancelled, ClientCreate, tableVars, endVars
<1>3. \E to : Take("client", "Create", to)
  BY <1>1 DEF ClientCreateUnknown, ClientCreateCancelled, ClientCreate
<1>4. WaitNet(j)
  BY <1>2, <1>3, TakeNet, PeerFacts
<1>5. WaitDial(j)
  BY <1>2 DEF WaitDial
<1>6. CASE ClientCreateUnknown(i)
  <2>1. /\ entry'["client"][j] = "pending" <=> entry["client"][j] = "pending"
        /\ chan'["server"][j] = chan["server"][j]
    BY <1>0, <1>6, PeerFacts DEF ClientCreateUnknown, SetEntry, ClosedChan, TableType
  <2>2. entry["client"][j] = "pending" => chan'["client"][j] = chan["client"][j]
    BY <1>0, <1>6, PeerFacts DEF ClientCreateUnknown, ClosedChan, TableType
  <2> QED
    BY <1>4, <1>5, <2>1, <2>2 DEF WaitEntry
<1>7. CASE ClientCreateCancelled(i)
  <2>1. /\ UNCHANGED chan
        /\ entry'["client"][j] = "pending" => entry["client"][j] = "pending"
        /\ j # i => entry'["client"][j] = entry["client"][j]
        /\ entry["client"][i] = "pending" => i \in cancelled
    BY <1>0, <1>7, PeerFacts DEF ClientCreateCancelled, SetEntry, TableType
  <2>2. AnswerUnderWay(i)
    <3>1. wire["server"] # << >> /\ wire["server"] \in Seq(Frame)
      BY <1>0, <1>3, PeerFacts DEF Take, NetType
    <3>2. 1 \in DOMAIN wire["server"] /\ wire["server"][1] = Taken("client")
      BY <3>1, PeerFacts DEF Taken
    <3>3. InFlight("server", Taken("client"))
      BY <3>2 DEF InFlight
    <3>4. Taken("client") \in Frame /\ Taken("client").cmd = "Create" /\ Taken("client").id = i
      BY <1>0, <1>2, <1>3, <1>7, TakeN, PeerFacts DEF ClientCreateCancelled
    <3>5. \E k \in 0..2 : Taken("client") = Answer(i, k)
      BY <3>4 DEF Frame, Answer
    <3> QED
      BY <3>3, <3>5 DEF AnswerUnderWay
  <2> QED
    BY <1>4, <1>5, <2>1, <2>2 DEF WaitEntry, Heard
<1>8. CASE ClientCreate(i)
  BY <1>2, <1>4, <1>8, SameTables DEF ClientCreate, endVars
<1> QED
  BY <1>1, <1>6, <1>7, <1>8

LEMMA ReaderTakes ==
  ASSUME WaitInv,
         \E e \in Ends, i \in Ids : \/ ReaderClose(e, i) \/ ReaderWrite(e, i)
                                    \/ ReaderConfirm(e, i) \/ ReaderOverflow(e, i)
  PROVE  WaitStep
<1> SUFFICES ASSUME NEW j \in Ids PROVE WaitNet(j) /\ WaitEntry(j) /\ WaitDial(j)
  BY DEF WaitStep
<1>0. TableType /\ NetType
  BY DEF WaitInv, IndInv, RestInv, NetInv
<1>1. PICK e \in Ends, i \in Ids :
        \/ ReaderClose(e, i) \/ ReaderWrite(e, i)
        \/ ReaderConfirm(e, i) \/ ReaderOverflow(e, i)
  OBVIOUS
<1>2. UNCHANGED <<dial, cancelled, offer, done, queue>>
  BY <1>1 DEF ReaderClose, ReaderWrite, ReaderConfirm, ReaderOverflow, tableVars, endVars
<1>3. WaitNet(j)
  <2>1. \/ Take(e, "Close", "loop") \/ Take(e, "Write", "loop")
        \/ \E to : Take(e, "Confirm", to)
    BY <1>1 DEF ReaderClose, ReaderWrite, ReaderConfirm, ReaderOverflow
  <2> QED
    BY <1>2, <2>1, TakeNet
<1>4. CASE ReaderWrite(e, i) \/ ReaderConfirm(e, i)
  BY <1>2, <1>3, <1>4, SameTables DEF ReaderWrite, ReaderConfirm
<1>5. CASE ReaderClose(e, i)
  <2>1. /\ entry'["client"][j] = "pending" => entry["client"][j] = "pending"
        /\ chan["server"][j] = "gone" => chan'["server"][j] = "gone"
        /\ e # "client" \/ i # j => entry'["client"][j] = entry["client"][j]
    BY <1>0, <1>5, PeerFacts DEF ReaderClose, SetEntry, ClosedChan, TableType
  <2>2. entry["client"][j] = "pending" => chan'["client"][j] = chan["client"][j]
    <3>1. entry["client"][j] = "pending" => chan["client"][j] = "none"
      BY DEF WaitInv, WaitId, PendingQuiet
    <3> QED
      BY <1>0, <1>5, <3>1, PeerFacts DEF ReaderClose, ClosedChan, TableType
  <2>3. CASE e = "client"
    <3>1. Taken("client") = FrameOf("Close", i)
      <4>1. /\ Taken("client") \in Frame /\ Taken("client").cmd = "Close"
            /\ N("server", Taken("client")) > 0 /\ Taken("client").id = i
        BY <1>0, <1>2, <1>5, <2>3, TakeN, PeerFacts DEF ReaderClose
      <4>2. Taken("client").code = 0
        BY <4>1, PeerFacts DEF WaitInv, IndInv, NetInv, FrameInv
      <4> QED
        BY <4>1, <4>2 DEF Frame, FrameOf
    <3>2. wire["server"] # << >> /\ wire["server"] \in Seq(Frame)
      BY <1>0, <1>5, <2>3, PeerFacts DEF ReaderClose, Take, NetType
    <3>3. 1 \in DOMAIN wire["server"] /\ wire["server"][1] = Taken("client")
      BY <3>2, PeerFacts DEF Taken
    <3>4. Flies("server", "Close", i)
      BY <3>1, <3>3 DEF InFlight, Flies
    <3> QED
      BY <1>2, <1>3, <2>1, <2>2, <3>4 DEF WaitEntry, WaitDial
  <2>4. CASE e # "client"
    BY <1>2, <1>3, <2>1, <2>2, <2>4 DEF WaitEntry, WaitDial
  <2> QED
    BY <2>3, <2>4
<1>6. CASE ReaderOverflow(e, i)
  <2>1. /\ entry' = entry
        /\ chan'["server"] = chan["server"] \/ e = "server"
        /\ e = "server" => chan' = chan
        /\ i # j => chan'["client"][j] = chan["client"][j]
        /\ chan["server"][j] = "gone" => chan'["server"][j] = "gone"
    BY <1>0, <1>6, PeerFacts DEF ReaderOverflow, ClosedChan, TableType
  <2>2. entry["client"][j] = "pending" => chan'["client"][j] = chan["client"][j]
    <3>1. i = j /\ e = "client" => entry["client"][j] = "open"
      BY <1>6 DEF ReaderOverflow
    <3> QED
      BY <2>1, <3>1, PeerFacts DEF Ends
  <2> QED
    BY <1>2, <1>3, <2>1, <2>2 DEF WaitEntry, WaitDial
<1> QED
  BY <1>1, <1>4, <1>5, <1>6

LEMMA ServerCreates ==
  ASSUME WaitInv, \E i \in Ids : ServerCreate(i)
  PROVE  WaitStep
<1> SUFFICES ASSUME NEW j \in Ids PROVE WaitNet(j) /\ WaitEntry(j) /\ WaitDial(j)
  BY DEF WaitStep
<1>0. TableType /\ NetType /\ LoopType
  BY DEF WaitInv, IndInv, RestInv, NetInv
<1>1. PICK i \in Ids : ServerCreate(i)
  OBVIOUS
<1>2. /\ UNCHANGED <<dial, cancelled, offer, done>>
      /\ Take("server", "Create", "loop") /\ i = Taken("server").id
  BY <1>1 DEF ServerCreate, endVars
<1>3. PICK g \in Frame :
        /\ g.cmd = "Create"
        /\ queue' = queue \/ queue' = [queue EXCEPT !["server"] = Append(queue["server"], g)]
  <2>1. Answer(i, CreateCode(i)) \in Frame /\ Answer(i, CreateCode(i)).cmd = "Create"
    BY DEF Answer, CreateCode, Frame
  <2> QED
    BY <1>1, <2>1 DEF ServerCreate, Enqueue
<1>4. /\ wire["client"] # << >> /\ wire["client"] \in Seq(Frame)
      /\ wire' = [wire EXCEPT !["client"] = Tail(wire["client"])]
  BY <1>0, <1>2, PeerFacts DEF Take, NetType
<1>5. \A d \in Ends : \A f : InFlight(d, f)' => InFlight(d, f) \/ (d = "server" /\ f = g)
  BY <1>0, <1>3, <1>4, Flights, PeerFacts
<1>6. WaitNet(j)
  <2>1. g # FrameOf("Close", j)
    BY <1>3 DEF FrameOf
  <2>2. SC("server", j)' => SC("server", j)
    BY <1>0, <1>2, PeerFacts DEF Take, SC, LoopType
  <2> QED
    BY <1>5, <2>1, <2>2, OtherNet, PeerFacts
<1>7. chan["server"][i] = "none"
  <2>1. Taken("server") \in Frame /\ Taken("server").cmd = "Create"
    BY <1>4, <1>2, PeerFacts DEF Taken, Take
  <2>2. InFlight("client", Taken("server"))
    <3>1. 1 \in DOMAIN wire["client"] /\ wire["client"][1] = Taken("server")
      BY <1>4, PeerFacts DEF Taken
    <3> QED
      BY <3>1 DEF InFlight
  <2>3. N("client", Taken("server")) > 0
    BY <1>0, <2>2, InFlightN, PeerFacts
  <2>4. Taken("server").code = 0
    BY <2>1, <2>3, PeerFacts DEF WaitInv, IndInv, NetInv, FrameInv
  <2>5. Taken("server") = FrameOf("Create", i)
    BY <1>2, <2>1, <2>4, FrameFacts
  <2> QED
    BY <2>3, <2>5 DEF Cnt, Asked, AskedInv, IdInv, IndInv, WaitInv
<1>8. WaitEntry(j)
  <2>1. /\ entry'["client"] = entry["client"] /\ chan'["client"] = chan["client"]
        /\ j # i => chan'["server"][j] = chan["server"][j]
    BY <1>0, <1>1, PeerFacts DEF ServerCreate, SetEntry, TableType
  <2> QED
    BY <1>7, <2>1 DEF WaitEntry
<1>9. WaitDial(j)
  BY <1>2 DEF WaitDial
<1> QED
  BY <1>6, <1>8, <1>9

LEMMA Results ==
  ASSUME WaitInv,
         \/ ResultTaken(cur["client"]) \/ ResultKept(cur["client"])
         \/ ResultCancelled(cur["client"]) \/ ResultDone(cur["client"])
  PROVE  WaitStep
<1> SUFFICES ASSUME NEW j \in Ids PROVE WaitNet(j) /\ WaitEntry(j) /\ WaitDial(j)
  BY DEF WaitStep
<1>0. TableType /\ LoopType
  BY DEF WaitInv, IndInv, RestInv
<1> DEFINE f == cur["client"]
           i == f.id
<1>1. PICK state : NewChannel(f, state)
  BY DEF ResultTaken, ResultKept, ResultCancelled, ResultDone
<1>2. /\ at["client"] = "result" /\ f \in Frame /\ f.cmd = "Create" /\ i \in Ids
  BY <1>0, <1>1 DEF NewChannel, LoopType, Answers, Frame
<1>3. UNCHANGED <<cancelled, done, queue, wire>>
  BY DEF ResultTaken, ResultKept, ResultCancelled, ResultDone, netVars, endVars
<1>4. SC("server", j)' => SC("server", j)
  BY <1>0, PeerFacts DEF SC, LoopType, ResultTaken, ResultKept, ResultCancelled, ResultDone,
     BackToLoop
<1>5. WaitNet(j)
  BY <1>3, <1>4, StillNet
<1>6. AnswerUnderWay(i)
  <2>1. \E k \in 0..2 : f = Answer(i, k)
    BY <1>2, FrameFacts
  <2> QED
    BY <1>2, <2>1 DEF AnswerUnderWay
<1> HIDE DEF f
<1>7. /\ entry'["client"][i] # "pending"
      /\ j # i => /\ entry'["client"][j] = entry["client"][j]
                  /\ chan'["client"][j] = chan["client"][j]
      /\ chan'["server"][j] = chan["server"][j]
  BY <1>0, <1>1, <1>2, PeerFacts DEF NewChannel, SetEntry, TableType
<1>8. j # i => dial'[j] = dial[j] /\ offer'[j] = offer[j]
  BY <1>0, <1>2 DEF ResultTaken, ResultKept, ResultCancelled, ResultDone, TableType, f
<1>9. Heard(i)
  BY <1>0, <1>2 DEF ResultTaken, ResultKept, ResultCancelled, ResultDone, ResultOf, TableType,
     Heard, f
<1>10. WaitEntry(j)
  BY <1>6, <1>7, <1>9 DEF WaitEntry
<1>11. /\ dial'[i] = dial[i] \/ dial'[i] \in {"opened", "refused"}
       /\ offer'[i] = offer[i] \/ offer'[i] \in {"opened", "refused"}
  BY <1>0, <1>2 DEF ResultTaken, ResultKept, ResultCancelled, ResultDone, ResultOf, TableType, f
<1>12. WaitDial(j)
  BY <1>3, <1>8, <1>11 DEF WaitDial
<1> QED
  BY <1>5, <1>10, <1>12

-----------------------------------------------------------------------------
LEMMA WaitStepHolds == ASSUME WaitInv, [Next]_vars PROVE WaitStep
<1>1. ASSUME NEW e \in Ends, ReaderStep(e) PROVE WaitStep
  <2>1. CASE e = "client" /\ ClientReader
    BY <2>1, ClientTakes, Results DEF ClientReader
  <2>2. CASE e = "server" /\ \E i \in Ids : ServerCreate(i)
    BY <2>2, ServerCreates
  <2>3. CASE \E i \in Ids : \/ ReaderClose(e, i) \/ ReaderWrite(e, i)
                            \/ ReaderConfirm(e, i) \/ ReaderOverflow(e, i)
    BY <2>3, ReaderTakes
  <2>4. CASE ReaderSendClose(e)
    BY <2>4, SendSteps, ServerCloseSteps DEF Ends
  <2>5. CASE ReaderExit(e)
    BY <2>5, EndSteps
  <2> QED
    BY <1>1, <2>1, <2>2, <2>3, <2>4, <2>5 DEF ReaderStep
<1>2. ASSUME NEW e \in Ends, EndStep(e) PROVE WaitStep
  <2>1. CASE ReaderStep(e)
    BY <1>1, <2>1
  <2>2. CASE WriterStep(e)
    BY <2>2, ServeWriteSteps, EndSteps DEF WriterStep
  <2>3. ASSUME NEW i \in Ids,
               Close(e, i) \/ SendWrite(e, i) \/ SendConfirm(e, i) \/ ServeDelete(e, i)
        PROVE  WaitStep
    BY <2>3, LocalSteps, SendSteps, ConfirmStep
  <2>4. ASSUME NEW i \in Ids, ServeSendClose(e, i) PROVE WaitStep
    BY <2>4, SendSteps, ServerCloseSteps DEF Ends
  <2> QED
    BY <1>2, <2>1, <2>2, <2>3, <2>4 DEF EndStep, LeaveStep
<1>3. ASSUME ClientStep PROVE WaitStep
  <2>1. CASE TransportClose
    BY <2>1, EndSteps
  <2>2. ASSUME NEW i \in Ids, CreateSend(i) \/ OfferSendClose(i) PROVE WaitStep
    BY <2>2, SendSteps
  <2>3. ASSUME NEW i \in Ids,
               \/ CreateStart(i) \/ CreateGiveUp(i) \/ Cancel(i)
               \/ OfferTaken(i) \/ OfferCancelled(i) \/ OfferDone(i)
        PROVE  WaitStep
    BY <2>3, LocalSteps
  <2> QED
    BY <1>3, <2>1, <2>2, <2>3 DEF ClientStep, CreateStep, OfferStep
<1>4. ASSUME \E f \in posted : PostedSend(f) PROVE WaitStep
  BY <1>4, SendSteps
<1>5. ASSUME ConnFail \/ UNCHANGED vars PROVE WaitStep
  BY <1>5, EndSteps
<1> QED
  BY <1>2, <1>3, <1>4, <1>5 DEF Next

LEMMA WaitInvStep == WaitInv /\ [Next]_vars => WaitInv'
<1> SUFFICES ASSUME WaitInv, [Next]_vars PROVE WaitInv'
  OBVIOUS
<1>1. IndInv'
  BY IndInvStep DEF WaitInv
<1>2. ASSUME NEW i \in Ids PROVE WaitId(i)'
  BY WaitStepHolds, WaitKept DEF WaitInv, WaitStep
<1> QED
  BY <1>1, <1>2 DEF WaitInv

LEMMA InitWaitInv == Init => WaitInv
<1> SUFFICES ASSUME Init PROVE WaitInv
  OBVIOUS
<1>1. IndInv
  BY InitIndInv
<1>2. ASSUME NEW i \in Ids PROVE WaitId(i)
  <2>1. dial[i] = "none" /\ offer[i] = "none" /\ entry["client"][i] = "none"
    BY PeerFacts DEF Init, ForAll
  <2> QED
    BY <2>1 DEF WaitId, PendingQuiet, Expecting
<1> QED
  BY <1>1, <1>2 DEF WaitInv

(* A Create that waits, with its context and its transport alive, has its  *)
(* pending entry, or a result that somebody holds for it, or the server's  *)
(* channel for it has already ended: no other Create is ever forgotten.    *)
THEOREM NoCreateForgotten == Safe => []TransportInv
<1>1. WaitInv => TransportInv
  <2>1. WaitInv => TypeOK
    BY TypesFollow DEF WaitInv
  <2>2. WaitInv => WaitingKnown
    BY DEF WaitInv, WaitId, Expecting, Known, WaitingKnown
  <2> QED
    BY <2>1, <2>2 DEF TransportInv
<1> QED
  BY <1>1, InitWaitInv, WaitInvStep, PTL DEF Safe
=============================================================================
