---------------------------- MODULE SequenceLemmas ----------------------------
(***************************************************************************)
(* Facts about numbers and sequences that the proofs about the codec and   *)
(* the framing share: induction over sets of numbers, and FlattenSeq.      *)
(***************************************************************************)
EXTENDS Integers, Sequences, SequencesExt, WellFoundedInduction,
        TLAPS

(* A set of numbers has a least one.                                       *)
LEMMA Least ==
  ASSUME NEW T \in SUBSET Nat, T # {}
  PROVE  \E m \in T : \A k \in T : m <= k
<1> DEFINE R == OpToRel(<, Nat)
<1>1. PICK m \in T : \A k \in T : <<k, m>> \notin R
  <2>1. IsWellFoundedOn(R, Nat)
    BY NatLessThanWellFounded
  <2> HIDE DEF R
  <2> QED
    BY <2>1, WFMin
<1>2. \A k \in T : ~(k < m)
  BY <1>1 DEF OpToRel
<1>3. \A k \in T : k \in Nat /\ m \in Nat
  OBVIOUS
<1> QED
  BY <1>2, <1>3

(* A set of numbers with 0 and with the successor of each of its members   *)
(* has all numbers: induction for a predicate that is written as a set.    *)
LEMMA Induction ==
  ASSUME NEW S, 0 \in S, \A n \in Nat : n \in S => n + 1 \in S
  PROVE  \A n \in Nat : n \in S
<1> DEFINE T == Nat \ S
<1>1. SUFFICES ASSUME T # {} PROVE FALSE
  OBVIOUS
<1>2. PICK m \in T : \A k \in T : m <= k
  BY <1>1, Least
<1>3. m \in Nat /\ m # 0 /\ m \notin S
  OBVIOUS
<1>4. m - 1 \in Nat /\ ~(m <= m - 1) /\ (m - 1) + 1 = m
  BY <1>3
<1> QED
  BY <1>2, <1>3, <1>4

LEMMA ConcatAssoc ==
  ASSUME NEW S, NEW x \in Seq(S), NEW y \in Seq(S), NEW z \in Seq(S)
  PROVE  x \o (y \o z) = (x \o y) \o z
OBVIOUS

LEMMA ConcatAt ==
  ASSUME NEW S, NEW x \in Seq(S), NEW y \in Seq(S)
  PROVE  /\ x \o y \in Seq(S) /\ Len(x) \in Nat /\ Len(y) \in Nat
         /\ Len(x \o y) = Len(x) + Len(y)
         /\ \A i \in 1..Len(x) : (x \o y)[i] = x[i]
         /\ \A j \in 1..Len(y) : (x \o y)[Len(x) + j] = y[j]
OBVIOUS

LEMMA PrefixAt ==
  ASSUME NEW S, NEW c \in S, NEW y \in Seq(S)
  PROVE  /\ <<c>> \o y \in Seq(S) /\ Len(<<c>> \o y) = 1 + Len(y)
         /\ (<<c>> \o y)[1] = c
         /\ \A j \in 1..Len(y) : (<<c>> \o y)[1 + j] = y[j]
OBVIOUS

LEMMA FunctionIsSeq ==
  ASSUME NEW S, NEW n \in Nat, NEW f \in [1..n -> S]
  PROVE  f \in Seq(S) /\ Len(f) = n /\ DOMAIN f = 1..n
OBVIOUS

LEMMA SubSeqIs ==
  ASSUME NEW S, NEW s \in Seq(S), NEW v \in Seq(S), NEW p \in Nat, p + Len(v) <= Len(s),
         \A j \in 1..Len(v) : s[p + j] = v[j]
  PROVE  SubSeq(s, p + 1, p + Len(v)) = v
OBVIOUS

LEMMA SubSeqOne ==
  ASSUME NEW S, NEW s \in Seq(S), NEW i \in 1..Len(s)
  PROVE  SubSeq(s, i, i) = <<s[i]>>
<1> DEFINE v == <<s[i]>>
<1>1. v \in Seq(S) /\ Len(v) = 1 /\ v[1] = s[i]
  OBVIOUS
<1>2. i - 1 \in Nat /\ (i - 1) + 1 = i /\ (i - 1) + 1 <= Len(s)
  OBVIOUS
<1> HIDE DEF v
<1>3. \A j \in 1..Len(v) : s[(i - 1) + j] = v[j]
  BY <1>1, <1>2
<1>4. SubSeq(s, (i - 1) + 1, (i - 1) + Len(v)) = v
  BY <1>1, <1>2, <1>3, SubSeqIs
<1> QED
  BY <1>1, <1>2, <1>4 DEF v

LEMMA ConcatNothing ==
  ASSUME NEW S, NEW x \in Seq(S) PROVE << >> \o x = x /\ x \o << >> = x
OBVIOUS

(* A sequence from k on is its element k, and the rest.                    *)
LEMMA SuffixStep ==
  ASSUME NEW S, NEW list \in Seq(S), NEW k \in 1..Len(list)
  PROVE  SubSeq(list, k, Len(list)) = <<list[k]>> \o SubSeq(list, k + 1, Len(list))
<1> DEFINE t == SubSeq(list, k + 1, Len(list))
           u == SubSeq(list, k, Len(list))
<1>1. t \in Seq(S) /\ Len(t) = Len(list) - k
  OBVIOUS
<1>2. \A j \in 1..Len(t) : t[j] = list[k + j]
  OBVIOUS
<1>3. u \in Seq(S) /\ Len(u) = Len(list) - k + 1
  OBVIOUS
<1>4. \A j \in 1..Len(u) : u[j] = list[(k - 1) + j]
  OBVIOUS
<1>5. list[k] \in S /\ k \in Nat /\ Len(list) \in Nat /\ k <= Len(list)
  OBVIOUS
<1> HIDE DEF t, u
<1> DEFINE w == <<list[k]>> \o t
<1>6. w \in Seq(S) /\ Len(w) = 1 + Len(t) /\ w[1] = list[k] /\ \A j \in 1..Len(t) : w[1 + j] = t[j]
  BY <1>1, <1>5, PrefixAt
<1> HIDE DEF w
<1>7. \A j \in 1..Len(u) : u[j] = w[j]
  <2> TAKE j \in 1..Len(u)
  <2>1. CASE j = 1
    BY <1>4, <1>5, <1>6, <2>1
  <2>2. CASE j # 1
    <3>1. j - 1 \in 1..Len(t) /\ 1 + (j - 1) = j /\ k + (j - 1) = (k - 1) + j
      BY <1>1, <1>3, <1>5, <2>2
    <3> QED
      BY <1>2, <1>4, <1>6, <3>1
  <2> QED
    BY <2>1, <2>2
<1>8. Len(u) = Len(w)
  BY <1>1, <1>3, <1>5, <1>6
<1>9. u = w
  BY <1>3, <1>6, <1>7, <1>8
<1> QED
  BY <1>9 DEF t, u, w

-----------------------------------------------------------------------------
(* FlattenSeq.  Beginnings[n] is what the first n sequences come to.       *)

Unrolls(g, seqs, n) ==
  g = [i \in 1..n |-> IF i = 1 THEN seqs[i] ELSE g[i - 1] \o seqs[i]]

LEMMA UnrollExists ==
  ASSUME NEW seqs PROVE \A n \in Nat : \E g : Unrolls(g, seqs, n)
<1> DEFINE S == {n \in Nat : \E g : Unrolls(g, seqs, n)}
<1>1. 0 \in S
  <2>1. Unrolls(<< >>, seqs, 0)
    BY DEF Unrolls
  <2> QED
    BY <2>1
<1>2. ASSUME NEW n \in Nat, n \in S PROVE n + 1 \in S
  <2>1. PICK g : Unrolls(g, seqs, n)
    BY <1>2
  <2> DEFINE h == [i \in 1..(n + 1) |->
                     IF i <= n THEN g[i]
                     ELSE IF i = 1 THEN seqs[i] ELSE g[i - 1] \o seqs[i]]
  <2>2. \A i \in 1..(n + 1) :
          h[i] = IF i = 1 THEN seqs[i] ELSE h[i - 1] \o seqs[i]
    <3> TAKE i \in 1..(n + 1)
    <3>1. CASE i <= n
      <4>1. g[i] = IF i = 1 THEN seqs[i] ELSE g[i - 1] \o seqs[i]
        <5>1. i \in 1..n
          BY <3>1
        <5> QED
          BY <2>1, <5>1 DEF Unrolls
      <4>2. i # 1 => i - 1 \in 1..(n + 1) /\ i - 1 <= n
        BY <3>1
      <4> QED
        BY <3>1, <4>1, <4>2
    <3>2. CASE i = n + 1
      <4>1. i # 1 => i - 1 \in 1..(n + 1) /\ i - 1 <= n
        BY <3>2
      <4>2. ~(i <= n)
        BY <3>2
      <4> QED
        BY <4>1, <4>2
    <3> QED
      BY <3>1, <3>2
  <2>3. Unrolls(h, seqs, n + 1)
    BY <2>2 DEF Unrolls
  <2> QED
    BY <2>3
<1> HIDE DEF S
<1>3. \A n \in Nat : n \in S
  BY <1>1, <1>2, Induction
<1> QED
  BY <1>3 DEF S

LEMMA FlattenUnrolls ==
  ASSUME NEW seqs, Len(seqs) \in Nat, Len(seqs) # 0
  PROVE  \E g : Unrolls(g, seqs, Len(seqs)) /\ FlattenSeq(seqs) = g[Len(seqs)]
<1> DEFINE g == CHOOSE g : Unrolls(g, seqs, Len(seqs))
<1>1. Unrolls(g, seqs, Len(seqs))
  BY UnrollExists
<1>2. FlattenSeq(seqs) = g[Len(seqs)]
  BY DEF FlattenSeq, Unrolls
<1> QED
  BY <1>1, <1>2
(* The beginnings of a concatenation: any sequence of them ends with it.   *)
Accumulates(g, seqs) ==
  g[0] = << >> /\ \A i \in 1..Len(seqs) : g[i] = g[i - 1] \o seqs[i]

LEMMA FlattenIs ==
  ASSUME NEW S, NEW seqs \in Seq(Seq(S)), NEW g, Accumulates(g, seqs)
  PROVE  /\ FlattenSeq(seqs) = g[Len(seqs)]
         /\ \A i \in 0..Len(seqs) : g[i] \in Seq(S)
<1> DEFINE n == Len(seqs)
<1>1. n \in Nat /\ \A i \in 1..n : seqs[i] \in Seq(S)
  OBVIOUS
<1>2. \A i \in 0..n : g[i] \in Seq(S)
  <2> DEFINE T == {i \in Nat : i <= n => g[i] \in Seq(S)}
  <2>1. 0 \in T
    <3>1. g[0] = << >> /\ << >> \in Seq(S)
      BY DEF Accumulates
    <3> QED
      BY <3>1
  <2>2. ASSUME NEW i \in Nat, i \in T PROVE i + 1 \in T
    <3> SUFFICES ASSUME i + 1 <= n PROVE g[i + 1] \in Seq(S)
      OBVIOUS
    <3>1. i + 1 \in 1..n /\ (i + 1) - 1 = i
      BY <1>1
    <3>2. g[i + 1] = g[(i + 1) - 1] \o seqs[i + 1]
      BY <3>1 DEF Accumulates
    <3>3. g[i] \in Seq(S) /\ seqs[i + 1] \in Seq(S)
      BY <1>1, <2>2, <3>1
    <3> QED
      BY <3>1, <3>2, <3>3
  <2> HIDE DEF T
  <2>3. \A i \in Nat : i \in T
    BY <2>1, <2>2, Induction
  <2> QED
    BY <1>1, <2>3 DEF T
<1>3. CASE n = 0
  <2>1. seqs = << >>
    BY <1>3
  <2> QED
    BY <1>2, <1>3, <2>1 DEF FlattenSeq, Accumulates
<1>4. CASE n # 0
  <2>1. PICK h : Unrolls(h, seqs, n) /\ FlattenSeq(seqs) = h[n]
    BY <1>1, <1>4, FlattenUnrolls
  <2>2. \A i \in 1..n : h[i] = IF i = 1 THEN seqs[i] ELSE h[i - 1] \o seqs[i]
    BY <2>1 DEF Unrolls
  <2> DEFINE T == {i \in Nat : i + 1 <= n => h[i + 1] = g[i + 1]}
  <2>3. 0 \in T
    <3>1. 1 \in 1..n
      BY <1>1, <1>4
    <3>2. h[1] = seqs[1]
      BY <2>2, <3>1
    <3>3. g[1] = g[0] \o seqs[1] /\ g[0] = << >>
      <4>1. 1 - 1 = 0
        OBVIOUS
      <4> QED
        BY <3>1, <4>1 DEF Accumulates
    <3>4. seqs[1] \in Seq(S)
      BY <1>1, <3>1
    <3>5. g[1] = seqs[1]
      BY <3>3, <3>4, ConcatNothing, Zenon
    <3> QED
      BY <3>2, <3>5
  <2>4. ASSUME NEW i \in Nat, i \in T PROVE i + 1 \in T
    <3> SUFFICES ASSUME i + 2 <= n PROVE h[i + 2] = g[i + 2]
      OBVIOUS
    <3>1. i + 2 \in 1..n /\ i + 2 # 1 /\ (i + 2) - 1 = i + 1 /\ i + 1 <= n
      BY <1>1
    <3>2. h[i + 2] = h[i + 1] \o seqs[i + 2]
      BY <2>2, <3>1
    <3>3. g[i + 2] = g[i + 1] \o seqs[i + 2]
      BY <3>1 DEF Accumulates
    <3> QED
      BY <2>4, <3>1, <3>2, <3>3
  <2> HIDE DEF T
  <2>5. \A i \in Nat : i \in T
    BY <2>3, <2>4, Induction
  <2>6. n - 1 \in Nat /\ (n - 1) + 1 = n
    BY <1>1, <1>4
  <2>7. n - 1 \in T
    BY <2>5, <2>6
  <2>8. h[n] = g[n]
    BY <1>1, <2>6, <2>7 DEF T
  <2> QED
    BY <1>2, <2>1, <2>8
<1> QED
  BY <1>2, <1>3, <1>4

LEMMA FlattenAccumulates ==
  ASSUME NEW S, NEW seqs \in Seq(Seq(S))
  PROVE  \E g : Accumulates(g, seqs)
<1> DEFINE n == Len(seqs)
<1>1. n \in Nat /\ \A i \in 1..n : seqs[i] \in Seq(S)
  OBVIOUS
<1>2. PICK h : Unrolls(h, seqs, n)
  BY <1>1, UnrollExists
<1> DEFINE g == [i \in 0..n |-> IF i = 0 THEN << >> ELSE h[i]]
<1>3. ASSUME NEW i \in 1..n PROVE g[i] = g[i - 1] \o seqs[i]
  <2>1. h[i] = IF i = 1 THEN seqs[i] ELSE h[i - 1] \o seqs[i]
    BY <1>2 DEF Unrolls
  <2>2. CASE i = 1
    <3>1. g[i] = seqs[i] /\ g[i - 1] = << >> /\ seqs[i] \in Seq(S)
      BY <1>1, <2>1, <2>2
    <3> QED
      BY <3>1, ConcatNothing, Zenon
  <2>3. CASE i # 1
    <3>1. i - 1 \in 1..n /\ i \in 0..n
      BY <1>1, <2>3
    <3>2. g[i] = h[i] /\ g[i - 1] = h[i - 1]
      BY <1>1, <3>1
    <3> QED
      BY <2>1, <2>3, <3>2
  <2> QED
    BY <2>2, <2>3
<1>4. g[0] = << >>
  BY <1>1
<1> QED
  <2> HIDE DEF g
  <2> QED
    BY <1>3, <1>4 DEF Accumulates

LEMMA FlattenType ==
  ASSUME NEW S, NEW seqs \in Seq(Seq(S)) PROVE FlattenSeq(seqs) \in Seq(S)
<1>1. PICK g : Accumulates(g, seqs)
  BY FlattenAccumulates
<1>2. Len(seqs) \in 0..Len(seqs)
  OBVIOUS
<1> QED
  BY <1>1, <1>2, FlattenIs

LEMMA FlattenEmpty == FlattenSeq(<< >>) = << >>
BY DEF FlattenSeq

LEMMA FlattenOne == ASSUME NEW S, NEW s \in Seq(S) PROVE FlattenSeq(<<s>>) = s
<1> DEFINE g == [i \in 0..1 |-> IF i = 0 THEN << >> ELSE s]
<1>1. << >> \o s = s
  OBVIOUS
<1>2. Accumulates(g, <<s>>)
  BY <1>1 DEF Accumulates
<1>3. FlattenSeq(<<s>>) = g[1]
  <2> HIDE DEF g
  <2>1. <<s>> \in Seq(Seq(S)) /\ Len(<<s>>) = 1
    OBVIOUS
  <2> QED
    BY <1>2, <2>1, FlattenIs
<1> QED
  BY <1>3

LEMMA FlattenConcat ==
  ASSUME NEW S, NEW p \in Seq(Seq(S)), NEW q \in Seq(Seq(S))
  PROVE  FlattenSeq(p \o q) = FlattenSeq(p) \o FlattenSeq(q)
<1> DEFINE m == Len(p)
           n == Len(q)
<1>1. m \in Nat /\ n \in Nat /\ Len(p \o q) = m + n /\ p \o q \in Seq(Seq(S))
  OBVIOUS
<1>2. PICK g : Accumulates(g, p)
  BY FlattenAccumulates
<1>3. PICK h : Accumulates(h, q)
  BY FlattenAccumulates
<1>4. /\ FlattenSeq(p) = g[m] /\ \A i \in 0..m : g[i] \in Seq(S)
      /\ FlattenSeq(q) = h[n] /\ \A i \in 0..n : h[i] \in Seq(S)
  BY <1>2, <1>3, FlattenIs
<1> DEFINE k == [i \in 0..(m + n) |-> IF i <= m THEN g[i] ELSE g[m] \o h[i - m]]
<1>5. ASSUME NEW i \in 1..(m + n) PROVE k[i] = k[i - 1] \o (p \o q)[i]
  <2>1. i \in 0..(m + n) /\ i - 1 \in 0..(m + n)
    BY <1>1
  <2>2. CASE i <= m
    <3>1. i \in 1..m /\ (p \o q)[i] = p[i]
      BY <1>1, <2>2
    <3>2. k[i] = g[i] /\ k[i - 1] = g[i - 1]
      BY <1>1, <2>1, <2>2
    <3> QED
      BY <1>2, <3>1, <3>2 DEF Accumulates
  <2>3. CASE i > m
    <3>1. i - m \in 1..n /\ (i - 1) - m = (i - m) - 1 /\ (p \o q)[i] = q[i - m]
      BY <1>1, <2>3
    <3>2. h[i - m] = h[(i - m) - 1] \o q[i - m]
      BY <1>3, <3>1 DEF Accumulates
    <3>3. k[i] = g[m] \o h[i - m]
      <4>1. ~(i <= m)
        BY <1>1, <2>3
      <4> QED
        BY <2>1, <4>1
    <3>4. k[i - 1] = g[m] \o h[(i - m) - 1]
      <4>1. CASE i - 1 = m
        <5>1. (i - m) - 1 = 0 /\ k[i - 1] = g[m]
          BY <1>1, <2>1, <4>1
        <5>2. h[0] = << >> /\ g[m] \in Seq(S)
          BY <1>1, <1>3, <1>4 DEF Accumulates
        <5>3. g[m] \o << >> = g[m]
          BY <5>2
        <5> QED
          BY <5>1, <5>2, <5>3, Zenon
      <4>2. CASE ~(i - 1 <= m)
        <5>1. k[i - 1] = g[m] \o h[(i - 1) - m]
          BY <2>1, <4>2
        <5> QED
          BY <3>1, <5>1
      <4>3. i - 1 = m \/ ~(i - 1 <= m)
        BY <1>1, <2>3
      <4> QED
        BY <4>1, <4>2, <4>3
    <3>5. g[m] \in Seq(S) /\ h[(i - m) - 1] \in Seq(S) /\ q[i - m] \in Seq(S)
      BY <1>1, <1>4, <3>1
    <3>6. g[m] \o (h[(i - m) - 1] \o q[i - m]) = (g[m] \o h[(i - m) - 1]) \o q[i - m]
      <4> DEFINE x == g[m]
                 y == h[(i - m) - 1]
                 z == q[i - m]
      <4>1. x \in Seq(S) /\ y \in Seq(S) /\ z \in Seq(S)
        BY <3>5
      <4> HIDE DEF x, y, z
      <4>2. x \o (y \o z) = (x \o y) \o z
        BY <4>1, ConcatAssoc
      <4> QED
        BY <4>2 DEF x, y, z
    <3> HIDE DEF k
    <3> QED
      BY <3>1, <3>2, <3>3, <3>4, <3>6, Zenon
  <2>4. i <= m \/ i > m
    BY <1>1
  <2> QED
    BY <2>2, <2>3, <2>4
<1>6. k[0] = << >>
  BY <1>1, <1>2 DEF Accumulates
<1>7. FlattenSeq(p \o q) = k[m + n]
  <2> HIDE DEF k
  <2>1. Accumulates(k, p \o q)
    BY <1>1, <1>5, <1>6 DEF Accumulates
  <2> QED
    BY <1>1, <2>1, FlattenIs
<1>8. k[m + n] = g[m] \o h[n]
  <2>1. CASE n = 0
    <3>1. h[n] = << >> /\ g[m] \in Seq(S)
      BY <1>1, <1>3, <1>4, <2>1 DEF Accumulates
    <3>2. k[m + n] = g[m]
      BY <1>1, <2>1
    <3> HIDE DEF k
    <3> QED
      BY <3>1, <3>2
  <2>2. CASE n # 0
    <3>1. ~(m + n <= m) /\ (m + n) - m = n /\ m + n \in 0..(m + n)
      BY <1>1, <2>2
    <3> QED
      BY <3>1
  <2> QED
    BY <2>1, <2>2
<1> QED
  BY <1>4, <1>7, <1>8
-----------------------------------------------------------------------------
(* Recursion.  A function whose value at i is given (base), or comes from  *)
(* its value at next[i] where a rank is smaller, exists.                   *)

Recurs(f, D, base, val, next, step) ==
  \A i \in D : f[i] = IF i \in base THEN val[i] ELSE step[i][f[next[i]]]

LEMMA Recursion ==
  ASSUME NEW N \in Nat, NEW D, NEW rank \in [D -> 0..N], NEW T, T # {},
         NEW base, NEW val \in [base \cap D -> T], NEW next \in [D \ base -> D],
         NEW step \in [D \ base -> [T -> T]],
         \A i \in D \ base : rank[next[i]] < rank[i]
  PROVE  \E f \in [D -> T] : Recurs(f, D, base, val, next, step)
<1> DEFINE Below(n) == {i \in D : rank[i] < n}
           S == {n \in Nat : \E f \in [D -> T] : Recurs(f, Below(n), base, val, next, step)}
<1>1. 0 \in S
  <2>1. PICK t : t \in T
    OBVIOUS
  <2>2. [i \in D |-> t] \in [D -> T]
    BY <2>1
  <2>3. Below(0) = {}
    OBVIOUS
  <2>4. Recurs([i \in D |-> t], Below(0), base, val, next, step)
    BY <2>3 DEF Recurs
  <2> QED
    BY <2>2, <2>4
<1>2. ASSUME NEW n \in Nat, n \in S PROVE n + 1 \in S
  <2>1. PICK f \in [D -> T] : Recurs(f, Below(n), base, val, next, step)
    BY <1>2
  <2> DEFINE g == [i \in D |-> IF i \in base THEN val[i] ELSE step[i][f[next[i]]]]
  <2>2. g \in [D -> T]
    <3> SUFFICES ASSUME NEW i \in D
                 PROVE  (IF i \in base THEN val[i] ELSE step[i][f[next[i]]]) \in T
      OBVIOUS
    <3>1. CASE i \in base
      BY <3>1
    <3>2. CASE i \notin base
      <4>1. next[i] \in D /\ step[i] \in [T -> T]
        BY <3>2
      <4>2. f[next[i]] \in T
        BY <4>1
      <4> QED
        BY <3>2, <4>1, <4>2
    <3> QED
      BY <3>1, <3>2
  <2>3. \A i \in Below(n) : g[i] = f[i]
    BY <2>1 DEF Recurs
  <2>4. ASSUME NEW i \in Below(n + 1)
        PROVE  g[i] = IF i \in base THEN val[i] ELSE step[i][g[next[i]]]
    <3>1. CASE i \in base
      BY <3>1
    <3>2. CASE i \notin base
      <4>1. next[i] \in D /\ rank[next[i]] \in Nat /\ rank[i] \in Nat
        BY <3>2
      <4>2. rank[next[i]] < rank[i] /\ rank[i] < n + 1
        BY <3>2
      <4>3. rank[next[i]] < n
        BY <4>1, <4>2
      <4>4. next[i] \in Below(n)
        BY <4>1, <4>3
      <4>5. g[next[i]] = f[next[i]]
        BY <2>3, <4>4
      <4> QED
        BY <3>2, <4>5
    <3> QED
      BY <3>1, <3>2
  <2>5. Recurs(g, Below(n + 1), base, val, next, step)
    <3> HIDE DEF g, Below
    <3> QED
      BY <2>4 DEF Recurs
  <2> QED
    <3> HIDE DEF g, Below
    <3> QED
      BY <2>2, <2>5
<1>3. N + 1 \in S
  <2> HIDE DEF S
  <2>1. \A n \in Nat : n \in S
    BY <1>1, <1>2, Induction
  <2> QED
    BY <2>1
<1>4. Below(N + 1) = D
  <2>1. \A i \in D : rank[i] \in 0..N
    OBVIOUS
  <2> QED
    BY <2>1
<1> QED
  <2> HIDE DEF Below
  <2> QED
    BY <1>3, <1>4
(* Where the sequences are in what they come to.                           *)
Placed(s, g, seqs, k) ==
  /\ Len(g[k - 1]) \in Nat
  /\ Len(g[k]) = Len(g[k - 1]) + Len(seqs[k])
  /\ Len(g[k]) <= Len(s)
  /\ \A j \in 1..Len(seqs[k]) : s[Len(g[k - 1]) + j] = seqs[k][j]

LEMMA FlattenAt ==
  ASSUME NEW S, NEW seqs \in Seq(Seq(S)), NEW g, Accumulates(g, seqs),
         NEW k \in 1..Len(seqs)
  PROVE  Placed(FlattenSeq(seqs), g, seqs, k)
<1> DEFINE n == Len(seqs)
<1>1. n \in Nat /\ k \in Nat /\ k - 1 \in 0..n /\ k \in 0..n
  OBVIOUS
<1>2. \A i \in 1..n : seqs[i] \in Seq(S) /\ g[i] = g[i - 1] \o seqs[i]
  <2>1. \A i \in 1..n : seqs[i] \in Seq(S)
    OBVIOUS
  <2> QED
    BY <2>1 DEF Accumulates
<1>3. FlattenSeq(seqs) = g[n] /\ \A i \in 0..n : g[i] \in Seq(S)
  BY FlattenIs
<1> DEFINE T == {m \in Nat : k + m <= n =>
                   /\ Len(g[k]) <= Len(g[k + m])
                   /\ \A x \in 1..Len(g[k]) : g[k + m][x] = g[k][x]}
<1>4. 0 \in T
  <2>1. Len(g[k]) \in Nat /\ k + 0 = k
    BY <1>1, <1>3
  <2> QED
    BY <2>1
<1>5. ASSUME NEW m \in Nat, m \in T PROVE m + 1 \in T
  <2> SUFFICES ASSUME k + (m + 1) <= n
               PROVE  /\ Len(g[k]) <= Len(g[k + (m + 1)])
                      /\ \A x \in 1..Len(g[k]) : g[k + (m + 1)][x] = g[k][x]
    OBVIOUS
  <2> DEFINE i == k + (m + 1)
             a == g[k + m]
  <2>1. i \in 1..n /\ i - 1 = k + m /\ k + m <= n /\ k + m \in 0..n
    BY <1>1
  <2>2. g[i] = a \o seqs[i] /\ seqs[i] \in Seq(S) /\ a \in Seq(S)
    BY <1>2, <1>3, <2>1
  <2>3. Len(g[k]) <= Len(a) /\ \A x \in 1..Len(g[k]) : a[x] = g[k][x]
    BY <1>5, <2>1
  <2>4. Len(g[k]) \in Nat
    BY <1>1, <1>3
  <2> HIDE DEF i, a
  <2>5. Len(g[k]) <= Len(g[i]) /\ \A x \in 1..Len(g[k]) : g[i][x] = g[k][x]
    <3>1. Len(g[i]) = Len(a) + Len(seqs[i]) /\ Len(a) \in Nat /\ Len(seqs[i]) \in Nat
      BY <2>2, ConcatAt
    <3>2. \A x \in 1..Len(a) : g[i][x] = a[x]
      BY <2>2, ConcatAt
    <3>3. \A x \in 1..Len(g[k]) : x \in 1..Len(a)
      BY <2>3, <2>4, <3>1
    <3>4. Len(g[k]) <= Len(g[i])
      BY <2>3, <2>4, <3>1
    <3> QED
      BY <2>3, <3>2, <3>3, <3>4
  <2> QED
    BY <2>5 DEF i
<1>6. n - k \in T
  <2> HIDE DEF T
  <2>1. \A m \in Nat : m \in T
    BY <1>4, <1>5, Induction
  <2>2. n - k \in Nat
    BY <1>1
  <2> QED
    BY <2>1, <2>2
<1>7. Len(g[k]) <= Len(g[n]) /\ \A x \in 1..Len(g[k]) : g[n][x] = g[k][x]
  <2>1. k + (n - k) = n
    BY <1>1
  <2> QED
    BY <1>1, <1>6, <2>1
<1> HIDE DEF T
<1>8. /\ g[k] = g[k - 1] \o seqs[k]
      /\ g[k - 1] \in Seq(S)
      /\ seqs[k] \in Seq(S)
  BY <1>1, <1>2, <1>3
<1>9. /\ Len(g[k - 1]) \in Nat /\ Len(seqs[k]) \in Nat
      /\ Len(g[k]) = Len(g[k - 1]) + Len(seqs[k])
      /\ \A j \in 1..Len(seqs[k]) : g[k][Len(g[k - 1]) + j] = seqs[k][j]
  <2> DEFINE x == g[k - 1]
             y == seqs[k]
  <2>1. x \in Seq(S) /\ y \in Seq(S) /\ g[k] = x \o y
    BY <1>8
  <2> HIDE DEF x, y
  <2>2. /\ Len(x) \in Nat /\ Len(y) \in Nat
        /\ Len(x \o y) = Len(x) + Len(y)
        /\ \A j \in 1..Len(y) : (x \o y)[Len(x) + j] = y[j]
    BY <2>1, ConcatAt
  <2> QED
    BY <2>1, <2>2, Zenon DEF x, y
<1>10. \A j \in 1..Len(seqs[k]) : Len(g[k - 1]) + j \in 1..Len(g[k])
  <2> DEFINE a == Len(g[k - 1])
             b == Len(seqs[k])
  <2>1. a \in Nat /\ b \in Nat /\ Len(g[k]) = a + b
    BY <1>9
  <2> HIDE DEF a, b
  <2>2. \A j \in 1..b : a + j \in 1..(a + b)
    BY <2>1
  <2> QED
    BY <2>1, <2>2 DEF a, b
<1> QED
  BY <1>3, <1>7, <1>9, <1>10, Zenon DEF Placed
=============================================================================
